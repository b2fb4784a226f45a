--------------------------- MODULE AudioMixerProofs ---------------------------
(***************************************************************************)
(* What the mixer promises (AudioMixer), for any number of submitters,     *)
(* slots and voices, any ring and any bounds.  The inductive invariant has *)
(* a part for each way the threads share something: the ends of the rings  *)
(* and the commands between them, what the voices sound, the leases of the *)
(* clips, the one place of every sound, the board and what a reader has    *)
(* read of it.                                                             *)
(***************************************************************************)
EXTENDS AudioMixer, TLAPS, FiniteSetTheorems, WellFoundedInduction

\* Where the audio thread stands in the ring of a submitter: before it stores the head, its
\* local one counts.
Cursor(s) == IF audio.place \in {"command", "head"} /\ audio.s = s THEN audio.h ELSE head[s]

\* The commands it has not taken, by their numbers, with the one its producer is writing.
Pending(s) == {p \in Cursor(s)..tail[s] : p < tail[s] \/ writing[s]}
At(s, p) == ring[s][p % Capacity]

\* The two ends of each ring, and what is between them.
Ends ==
  /\ \A s \in Submitters :
       /\ head[s] <= Cursor(s) /\ Cursor(s) <= tail[s]
       /\ writing[s] => tail[s] - head[s] < Capacity /\ tail[s] < MaxCommands
       /\ lastSequence[s] <= tail[s]
  /\ audio.place \in {"command", "head"} => audio.h <= audio.tail /\ audio.tail <= tail[audio.s]
  /\ audio.place = "command" => audio.h < audio.tail
  /\ audio.place = "head" => audio.h = audio.tail

\* What a producer means: a command has its number, its submitter, and a clip just when it
\* plays or unloads one.
Meant ==
  \A s \in Submitters : \A p \in Pending(s) :
    LET command == At(s, p)
    IN /\ command \in Commands /\ command.n = p + 1 /\ command.handle[1] = s
       /\ IF command.kind \in {"play", "unload"}
          THEN command.clip \in {s} \X ClipSlots \X (1..(MaxCommands + 1))
          ELSE command.clip = NoClip
       /\ command.kind = "play" =>
            /\ command.handle[2] >= 1
            /\ p < tail[s] => command.handle[2] <= lastSequence[s]
            /\ p = tail[s] => command.handle[2] = lastSequence[s] + 1

\* A voice has frames to mix before its stop.
Timed(voice) ==
  /\ voice.position < ClipFrames
  /\ voice.stop = Never \/ voice.stop <= MaxAhead
  /\ 0 < voice.stop /\ voice.start < voice.stop

\* Voices play what was handed out, for as long as their times say.
Sounding ==
  \A v \in Voices : voices[v].active =>
    /\ voices[v].handle \in Handles /\ voices[v].handle[2] <= lastSequence[voices[v].handle[1]]
    /\ voices[v].clip # NoClip /\ Timed(voices[v])

\* Who reads the samples of a slot: the voices on it, and the commands that name it.
Playing(s, i) == {v \in Voices : voices[v].active /\ voices[v].clip[1] = s /\ voices[v].clip[2] = i}
Naming(s, i) == {p \in Pending(s) : At(s, p).kind \in {"play", "unload"} /\ At(s, p).clip[2] = i}

\* A free slot has no samples, a loaded one those of its generation, an unloading one those of
\* the generation before; whoever reads samples means the ones that are there; an unload is the
\* last command to name its clip; and a slot is handed back when no voice and no command has it.
LeaseOf(s, i) ==
  LET c == clip[s][i]
  IN /\ c.generation <= tail[s] + 1
     /\ c.state = "free" => c.view = 0
     /\ c.state = "loaded" => c.view = c.generation
     /\ c.state = "unloading" => c.view = c.generation - 1 /\ c.view # 0
     /\ c.state # "unloading" => ~lease[s][i].unloadTaken /\ ~handedBack[s][i]
     /\ lease[s][i].voices = Cardinality(Playing(s, i))
     /\ lease[s][i].unloadTaken \/ handedBack[s][i] => Naming(s, i) = {}
     /\ handedBack[s][i] => Playing(s, i) = {} /\ ~lease[s][i].unloadTaken
     /\ \A v \in Playing(s, i) : voices[v].clip[3] = c.view
     /\ \A p \in Naming(s, i) :
          /\ At(s, p).clip[3] = c.view
          /\ p = tail[s] => c.state = "loaded"
          /\ p < tail[s] /\ At(s, p).kind = "unload" => c.state = "unloading"
          /\ \A q \in Naming(s, i) : p < q => At(s, p).kind = "play"

Leases == \A s \in Submitters : \A i \in ClipSlots : LeaseOf(s, i)

\* A sound that may yet get a voice.
Awaits(h) == \E s \in Submitters : \E p \in Pending(s) : At(s, p).kind = "play" /\ At(s, p).handle = h

\* A sound is in one place: in the ring, or in one voice; and a tag is of the voice that plays
\* the sound, or of no sound any more.
OnePlace ==
  /\ \A s \in Submitters : \A p, q \in Pending(s) :
       At(s, p).kind = "play" /\ At(s, q).kind = "play" /\ At(s, p).handle = At(s, q).handle => p = q
  /\ \A v \in Voices : voices[v].active => ~Awaits(voices[v].handle)
  /\ \A v, w \in Voices : voices[v].active /\ voices[w].active /\ voices[v].handle = voices[w].handle => v = w
  /\ \A v \in Voices : tag[v] # None =>
       /\ tag[v][2] <= lastSequence[tag[v][1]]
       /\ ~Awaits(tag[v])
       /\ \A w \in Voices : voices[w].active /\ voices[w].handle = tag[v] => w = v
       /\ \A w \in Voices : tag[w] = tag[v] => w = v

\* The board between two stores of the audio thread.
Board ==
  /\ \A v \in Voices : tag[v] = IF audio.place \in {"assign", "name"} /\ v = audio.voice THEN None ELSE published[v]
  /\ \A v \in Voices : tag[v] # None => state[v].handle = tag[v]
  /\ audio.place \in {"assign", "name"} => voices[audio.voice].active
  /\ audio.place = "name" => state[audio.voice].handle = voices[audio.voice].handle

\* A sound that has been over, and off the board, for good.
Over(h) ==
  /\ ~Awaits(h)
  /\ \A v \in Voices : voices[v].active => voices[v].handle # h
  /\ \A v \in Voices : tag[v] # h

Reads ==
  LET h == reader.asked
      e == reader.entry
  IN /\ reader.place # "out" => h \in Handles /\ h[2] <= lastSequence[h[1]]
     /\ reader.present => \E v \in Voices : tag[v] = h
     /\ reader.place = "tag" /\ reader.present => \E v \in Voices : v >= e /\ tag[v] = h
     /\ reader.place \in {"state", "again"} => tag[e] = h \/ Over(h)
     /\ reader.place = "again" => reader.read.handle = h \/ Over(h)

IInv == TypeOK /\ Ends /\ Meant /\ Sounding /\ Leases /\ OnePlace /\ Board /\ Reads /\ PlayheadExact

-----------------------------------------------------------------------------
(* Numbers and sets.                                                       *)

\* A number is the multiple and the remainder of its division.
LEMMA DivMod ==
  ASSUME NEW a \in Int, NEW m \in Nat \ {0}
  PROVE  a \div m \in Int /\ a = (m * (a \div m)) + (a % m) /\ a % m \in 0..(m - 1)
OBVIOUS

\* Numbers of one round of a ring have different places.
LEMMA OwnPlace ==
  ASSUME NEW m \in Nat \ {0}, NEW p \in Int, NEW q \in Int, p < q, q - p < m
  PROVE  p % m # q % m
<1> DEFINE c == p \div m
           d == q \div m
           r == p % m
           s == q % m
<1>1. /\ c \in Int /\ p = (m * c) + r /\ r \in 0..(m - 1)
      /\ d \in Int /\ q = (m * d) + s /\ s \in 0..(m - 1)
  BY DivMod
<1> SUFFICES ASSUME r = s
             PROVE  FALSE
  OBVIOUS
<1> HIDE DEF c, d, r, s
<1>2. d - c \in Int /\ m * (d - c) = (m * d) - (m * c) /\ m * d \in Int /\ m * c \in Int
  BY <1>1
<1>3. m * (d - c) = q - p
  BY <1>1, <1>2
<1>4. d - c > 0
  <2> SUFFICES ASSUME d - c <= 0
               PROVE  FALSE
    BY <1>2
  <2>1. m * (d - c) <= 0
    BY <1>2
  <2> QED
    BY <1>3, <2>1
<1>5. m * (d - c) >= m
  BY <1>2, <1>4
<1> QED
  BY <1>3, <1>5

\* The first of some numbers is one of them.
LEMMA MinIn ==
  ASSUME NEW S, S \subseteq Nat, S # {}
  PROVE  Min(S) \in S
<1> DEFINE R == {ss \in Nat \X Nat : ss[1] < ss[2]}
<1>1. IsWellFoundedOn(R, Nat)
  BY NatLessThanWellFounded DEF OpToRel
<1>2. \E x \in S : \A y \in S : ~(<<y, x>> \in R)
  <2> HIDE DEF R
  <2> QED
    BY <1>1, WFMin
<1>3. \A x, y \in Nat : ~(<<y, x>> \in R) => x <= y
  OBVIOUS
<1>4. \E x \in S : \A y \in S : x <= y
  BY <1>2, <1>3
<1> QED
  BY <1>4, Zenon DEF Min

\* The numbers of the constants.
LEMMA Numbers ==
  /\ Submitters \subseteq Nat \ {0} /\ 1 \in Submitters
  /\ ClipSlots \subseteq Nat \ {0} /\ Voices \subseteq Nat \ {0} /\ 1 \in Voices
  /\ IsFiniteSet(Voices) /\ Cardinality(Voices) \in Nat
  /\ \A v, w \in Voices : w > v => v + 1 \in Voices
  /\ Capacity \in Nat \ {0} /\ ClipFrames \in Nat \ {0} /\ MaxBlock \in Nat \ {0}
  /\ MaxAhead \in Nat /\ MaxCommands \in Nat /\ MaxReads \in Nat
<1>1. \A names \in {Submitters, ClipSlots, Voices} :
        IsFiniteSet(names) /\ names = 1..Cardinality(names) /\ names # {}
  BY NumbersAssumption
<1>2. ASSUME NEW names, IsFiniteSet(names), names = 1..Cardinality(names), names # {}
      PROVE  /\ names \subseteq Nat \ {0} /\ 1 \in names /\ Cardinality(names) \in Nat
             /\ \A v, w \in names : w > v => v + 1 \in names
  <2>1. Cardinality(names) \in Nat
    BY <1>2, FS_CardinalityType
  <2> DEFINE n == Cardinality(names)
  <2>2. n \in Nat /\ names = 1..n /\ names # {}
    BY <1>2, <2>1
  <2> HIDE DEF n
  <2>3. names \subseteq Nat \ {0} /\ 1 \in names /\ \A v, w \in names : w > v => v + 1 \in names
    BY <2>2
  <2> QED
    BY <2>1, <2>3
<1>3. /\ {Capacity, ClipFrames, MaxBlock} \subseteq Nat \ {0}
      /\ {MaxAhead, MaxCommands, MaxReads} \subseteq Nat
  BY NumbersAssumption
<1>4. /\ Submitters \subseteq Nat \ {0} /\ 1 \in Submitters
      /\ ClipSlots \subseteq Nat \ {0} /\ Voices \subseteq Nat \ {0} /\ 1 \in Voices
      /\ IsFiniteSet(Voices) /\ Cardinality(Voices) \in Nat
      /\ \A v, w \in Voices : w > v => v + 1 \in Voices
  BY <1>1, <1>2
<1> QED
  BY <1>3, <1>4

-----------------------------------------------------------------------------
(* The rings: what each step does to the commands that wait.               *)

\* What a ring holds, and where its ends and the audio thread stand.
LEMMA RingIs ==
  ASSUME TypeOK, NEW s \in Submitters
  PROVE  /\ tail[s] \in Nat /\ head[s] \in Nat /\ lastSequence[s] \in Nat /\ Cursor(s) \in Nat
         /\ tail[s] <= MaxCommands /\ head[s] <= tail[s] /\ tail[s] - head[s] <= Capacity
         /\ writing[s] \in BOOLEAN
         /\ ring[s] \in [0..(Capacity - 1) -> Commands \cup {NoCommand}]
         /\ \A p \in Pending(s) : p \in Nat
<1>1. /\ tail \in [Submitters -> 0..MaxCommands] /\ head \in [Submitters -> 0..MaxCommands]
      /\ lastSequence \in [Submitters -> 0..MaxCommands] /\ writing \in [Submitters -> BOOLEAN]
      /\ ring \in [Submitters -> [0..(Capacity - 1) -> Commands \cup {NoCommand}]]
      /\ tail[s] - head[s] \in 0..Capacity
      /\ audio.h \in 0..MaxCommands
  BY DEF TypeOK, RingTypes, AudioTypes
<1>2. MaxCommands \in Nat /\ Capacity \in Nat
  BY Numbers
<1>3. Cursor(s) \in Nat
  BY <1>1, <1>2 DEF Cursor
<1>4. /\ tail[s] \in Nat /\ head[s] \in Nat /\ lastSequence[s] \in Nat
      /\ tail[s] <= MaxCommands /\ head[s] <= tail[s] /\ tail[s] - head[s] <= Capacity
  BY <1>1, <1>2
<1>5. writing[s] \in BOOLEAN /\ ring[s] \in [0..(Capacity - 1) -> Commands \cup {NoCommand}]
  BY <1>1
<1>6. \A p \in Pending(s) : p \in Nat
  BY <1>3, <1>4 DEF Pending
<1> QED
  BY <1>3, <1>4, <1>5, <1>6

\* The numbers that wait have places of their own in the ring, and another than the next one.
LEMMA OwnPlaces ==
  ASSUME TypeOK, Ends, NEW s \in Submitters, tail[s] - head[s] < Capacity
  PROVE  /\ tail[s] % Capacity \in 0..(Capacity - 1)
         /\ \A p \in Cursor(s)..(tail[s] - 1) : p % Capacity # tail[s] % Capacity
<1> DEFINE t == tail[s]
           m == Capacity
<1>1. /\ t \in Nat /\ head[s] \in Nat /\ Cursor(s) \in Nat
      /\ m \in Nat \ {0} /\ head[s] <= Cursor(s) /\ t - head[s] < m
  BY RingIs, Numbers DEF Ends
<1> HIDE DEF t, m
<1>2. t % m \in 0..(m - 1)
  <2>1. t \in Int
    BY <1>1
  <2> QED
    BY <1>1, <2>1, DivMod
<1>3. ASSUME NEW p \in Cursor(s)..(t - 1)
      PROVE  p % m # t % m
  <2>1. p \in Int /\ t \in Int /\ p < t /\ t - p < m
    BY <1>1
  <2> QED
    BY <1>1, <2>1, OwnPlace
<1> QED
  BY <1>2, <1>3 DEF t, m

\* One more waits, at the tail.
LEMMA WritePends ==
  ASSUME TypeOK, Ends, NEW s \in Submitters, NEW kind, NEW sequence, NEW named, Write(s, kind, sequence, named)
  PROVE  /\ ~writing[s] /\ tail[s] < MaxCommands
         /\ Pending(s)' = Pending(s) \cup {tail[s]}
         /\ \A p \in Pending(s) : p < tail[s] /\ At(s, p)' = At(s, p)
         /\ \A p : p = tail[s] =>
              At(s, p)' = [kind |-> kind, handle |-> <<s, sequence>>, clip |-> named, n |-> tail[s] + 1]
         /\ \A r \in Submitters \ {s} :
              Pending(r)' = Pending(r) /\ \A p \in Pending(r) : At(r, p)' = At(r, p)
<1> DEFINE c == [kind |-> kind, handle |-> <<s, sequence>>, clip |-> named, n |-> tail[s] + 1]
<1>1. /\ ~writing[s] /\ tail[s] < MaxCommands /\ tail[s] - head[s] < Capacity
      /\ ring' = [ring EXCEPT ![s][tail[s] % Capacity] = c]
      /\ writing' = [writing EXCEPT ![s] = TRUE]
      /\ UNCHANGED <<tail, head, audio>>
  BY DEF Write
<1> HIDE DEF c
<1>2. /\ tail[s] \in Nat /\ Cursor(s) \in Nat /\ Cursor(s) <= tail[s]
      /\ ring[s] \in [0..(Capacity - 1) -> Commands \cup {NoCommand}]
      /\ DOMAIN ring = Submitters /\ DOMAIN writing = Submitters
  BY RingIs DEF Ends, TypeOK, RingTypes, AudioTypes
<1>3. /\ tail[s] % Capacity \in 0..(Capacity - 1)
      /\ \A p \in Cursor(s)..(tail[s] - 1) : p % Capacity # tail[s] % Capacity
  BY <1>1, OwnPlaces
<1>4. \A r \in Submitters : Cursor(r)' = Cursor(r)
  BY <1>1 DEF Cursor
<1>5. writing'[s] /\ \A r \in Submitters \ {s} : writing'[r] = writing[r] /\ ring'[r] = ring[r]
  BY <1>1, <1>2
<1>6. Pending(s) = Cursor(s)..(tail[s] - 1)
  BY <1>1, <1>2 DEF Pending
<1>7. Pending(s)' = Pending(s) \cup {tail[s]}
  <2>1. Pending(s)' = Cursor(s)..tail[s]
    BY <1>1, <1>4, <1>5 DEF Pending
  <2> QED
    BY <1>2, <1>6, <2>1
<1>8. ring'[s][tail[s] % Capacity] = c /\ \A k : k # tail[s] % Capacity => ring'[s][k] = ring[s][k]
  BY <1>1, <1>2, <1>3
<1>9. \A p : p = tail[s] => At(s, p)' = c
  BY <1>1, <1>8 DEF At
<1>10. \A p \in Pending(s) : p < tail[s] /\ At(s, p)' = At(s, p)
  BY <1>2, <1>3, <1>6, <1>8 DEF At
<1>11. \A r \in Submitters \ {s} :
         Pending(r)' = Pending(r) /\ \A p \in Pending(r) : At(r, p)' = At(r, p)
  BY <1>1, <1>4, <1>5 DEF Pending, At
<1> QED
  BY <1>1, <1>7, <1>9, <1>10, <1>11 DEF c

\* The same wait, and nothing is being written.
SamePending == \A s \in Submitters : Pending(s)' = Pending(s) /\ \A p \in Pending(s) : At(s, p)' = At(s, p)

\* A stored tail hands the audio thread the command that was written, and changes none.
LEMMA PublishPends ==
  ASSUME TypeOK, Ends, NEW s \in Submitters, Publish(s)
  PROVE  /\ writing[s] /\ tail'[s] = tail[s] + 1 /\ tail[s] \in Pending(s)
         /\ \A r \in Submitters \ {s} : tail'[r] = tail[r] /\ writing'[r] = writing[r]
         /\ SamePending
<1>1. /\ writing[s] /\ writing' = [writing EXCEPT ![s] = FALSE]
      /\ tail' = [tail EXCEPT ![s] = @ + 1] /\ UNCHANGED <<ring, head, audio>>
  BY DEF Publish
<1>2. DOMAIN tail = Submitters /\ DOMAIN writing = Submitters
  BY DEF TypeOK, RingTypes, AudioTypes
<1>3. /\ tail'[s] = tail[s] + 1 /\ ~writing'[s]
      /\ \A r \in Submitters \ {s} : tail'[r] = tail[r] /\ writing'[r] = writing[r]
  BY <1>1, <1>2
<1>4. \A r \in Submitters : Cursor(r)' = Cursor(r) /\ \A p : At(r, p)' = At(r, p)
  BY <1>1 DEF Cursor, At
<1>5. Cursor(s) \in Nat /\ tail[s] \in Nat /\ Cursor(s) <= tail[s]
  BY RingIs DEF Ends
<1>6. Pending(s) = Cursor(s)..tail[s] /\ Pending(s)' = Cursor(s)..tail[s] /\ tail[s] \in Pending(s)
  <2>1. Pending(s) = Cursor(s)..tail[s]
    BY <1>1 DEF Pending
  <2>2. Pending(s)' = {p \in Cursor(s)..(tail[s] + 1) : p < tail[s] + 1}
    BY <1>3, <1>4 DEF Pending
  <2> QED
    BY <1>5, <2>1, <2>2
<1>7. \A r \in Submitters \ {s} : Pending(r)' = Pending(r)
  BY <1>3, <1>4 DEF Pending
<1> QED
  BY <1>1, <1>3, <1>4, <1>6, <1>7 DEF SamePending

\* The audio thread takes the first that waits.
LEMMA TakingPends ==
  ASSUME TypeOK, Ends, NEW command, Taking(command)
  PROVE  /\ audio.s \in Submitters /\ audio.h \in Pending(audio.s) /\ audio.h < tail[audio.s]
         /\ command = At(audio.s, audio.h)
         /\ \A p \in Pending(audio.s) : audio.h <= p
         /\ \A s \in Submitters : Pending(s)' = IF s = audio.s THEN Pending(s) \ {audio.h} ELSE Pending(s)
         /\ \A s \in Submitters : \A p : At(s, p)' = At(s, p)
<1> DEFINE s == audio.s
           h == audio.h
<1>1. /\ audio.place = "command" /\ command = At(s, h) /\ UNCHANGED ringVars
      /\ audio'.place \in {"head", "command"} /\ audio'.s = s /\ audio'.h = h + 1
  BY DEF Taking, At, TypeOK, RingTypes, AudioTypes
<1>2. /\ s \in Submitters /\ h \in Nat /\ tail[s] \in Nat /\ audio.tail \in Nat
      /\ h < audio.tail /\ audio.tail <= tail[s]
  <2>1. audio.s \in Submitters /\ audio.h \in 0..MaxCommands /\ audio.tail \in 0..MaxCommands
    BY DEF TypeOK, RingTypes, AudioTypes
  <2>2. MaxCommands \in Nat
    BY Numbers
  <2> QED
    BY <1>1, <2>1, <2>2, RingIs DEF Ends
<1>3. Cursor(s) = h /\ \A r \in Submitters : r = s => Cursor(r)' = h + 1
  BY <1>1 DEF Cursor
<1>4. \A r \in Submitters \ {s} : Cursor(r)' = Cursor(r)
  BY <1>1 DEF Cursor, ringVars
<1>5. /\ h \in Pending(s) /\ \A p \in Pending(s) : h <= p
      /\ \A r \in Submitters : r = s => Pending(r)' = Pending(r) \ {h}
  <2>1. Pending(s) = {p \in h..tail[s] : p < tail[s] \/ writing[s]}
    BY <1>3 DEF Pending
  <2>2. \A r \in Submitters : r = s => Pending(r)' = {p \in (h + 1)..tail[s] : p < tail[s] \/ writing[s]}
    BY <1>1, <1>3 DEF Pending, ringVars
  <2> HIDE DEF s, h
  <2> QED
    BY <1>2, <2>1, <2>2
<1>6. \A r \in Submitters \ {s} : Pending(r)' = Pending(r)
  BY <1>1, <1>4 DEF Pending, ringVars
<1>7. \A r \in Submitters : \A p : At(r, p)' = At(r, p)
  BY <1>1 DEF At, ringVars
<1>8. h < tail[s]
  BY <1>2
<1> QED
  BY <1>1, <1>2, <1>5, <1>6, <1>7, <1>8

\* Whatever else the audio thread and the readers do, and a load of a clip.
LEMMA OtherPends ==
  ASSUME TypeOK, Ends,
         \/ LoadTail \/ StoreHead
         \/ UNCHANGED ringVars /\ Mix
         \/ UNCHANGED ringVars /\ (PublishVoice \/ AssignState \/ AssignTag)
         \/ UNCHANGED <<ringVars, audio>>
  PROVE  SamePending
<1>1. UNCHANGED <<ring, tail, writing>>
  BY DEF LoadTail, StoreHead, ringVars
<1>2. ASSUME NEW s \in Submitters
      PROVE  Cursor(s)' = Cursor(s)
  <2>1. CASE LoadTail
    BY <2>1 DEF LoadTail, Cursor, NextSlot, ringVars, TypeOK, RingTypes, AudioTypes
  <2>2. CASE StoreHead
    BY <2>2 DEF StoreHead, Cursor, NextSlot, Ends, TypeOK, RingTypes, AudioTypes
  <2>3. CASE UNCHANGED ringVars /\ Mix
    BY <2>3 DEF Mix, Cursor, ringVars, TypeOK, RingTypes, AudioTypes
  <2>4. CASE UNCHANGED ringVars /\ (PublishVoice \/ AssignState \/ AssignTag)
    BY <2>4 DEF PublishVoice, AssignState, AssignTag, NextVoice, Cursor, ringVars, TypeOK, RingTypes, AudioTypes
  <2>5. CASE UNCHANGED <<ringVars, audio>>
    BY <2>5 DEF Cursor, ringVars
  <2> QED
    BY <2>1, <2>2, <2>3, <2>4, <2>5
<1> QED
  BY <1>1, <1>2 DEF SamePending, Pending, At

-----------------------------------------------------------------------------
(* The steps, and what they leave alone.                                   *)

\* A producer writes a command: what it may mean.
Submits(s, kind, sequence, named) ==
  /\ Write(s, kind, sequence, named)
  /\ \/ kind = "play" /\ sequence = lastSequence[s] + 1
     \/ kind = "stop" /\ sequence \in 1..lastSequence[s]
     \/ kind \in {"stopAll", "unload"} /\ sequence = 0
  /\ IF kind \in {"play", "unload"} THEN \E i \in ClipSlots : Loaded(s, i) /\ named = Named(s, i)
     ELSE named = NoClip

\* The audio thread takes a command.
Takes(command) == TakePlay(command) \/ TakeUnload(command) \/ TakeStop(command)

Publishes == PublishVoice \/ AssignState \/ AssignTag
Looks == PlayheadOf \/ ReadTag \/ ReadState \/ ReadAgain \/ ReadReturns

\* A step is a producer's, one of the audio thread's or a reader's.
LEMMA Steps ==
  ASSUME [Next]_vars
  PROVE  \/ \E s \in Submitters : \/ \E kind, sequence, named : Submits(s, kind, sequence, named)
                                  \/ Publish(s) \/ LoadClip(s)
         \/ \E command : Taking(command) /\ Takes(command)
         \/ LoadTail \/ StoreHead \/ Mix \/ Publishes \/ Looks \/ UNCHANGED vars
<1>1. ASSUME NEW s \in Submitters, Play(s) \/ Stop(s) \/ StopAll(s) \/ UnloadClip(s)
      PROVE  \E kind, sequence, named : Submits(s, kind, sequence, named)
  <2>1. CASE Play(s)
    <3>1. PICK i \in ClipSlots : Loaded(s, i) /\ Write(s, "play", lastSequence[s] + 1, Named(s, i))
      BY <2>1 DEF Play
    <3>2. Submits(s, "play", lastSequence[s] + 1, Named(s, i))
      BY <3>1 DEF Submits
    <3> QED
      BY <3>2
  <2>2. CASE Stop(s)
    <3>1. PICK sequence \in 1..lastSequence[s] : Write(s, "stop", sequence, NoClip)
      BY <2>2 DEF Stop
    <3>2. Submits(s, "stop", sequence, NoClip)
      BY <3>1 DEF Submits
    <3> QED
      BY <3>2
  <2>3. CASE StopAll(s)
    <3>1. Submits(s, "stopAll", 0, NoClip)
      BY <2>3 DEF StopAll, Submits
    <3> QED
      BY <3>1
  <2>4. CASE UnloadClip(s)
    <3>1. PICK i \in ClipSlots : Loaded(s, i) /\ Write(s, "unload", 0, Named(s, i))
      BY <2>4 DEF UnloadClip
    <3>2. Submits(s, "unload", 0, Named(s, i))
      BY <3>1 DEF Submits
    <3> QED
      BY <3>2
  <2> QED
    BY <1>1, <2>1, <2>2, <2>3, <2>4
<1>2. ASSUME audio.place = "command",
             TakePlay(Taken(audio.s)) \/ TakeUnload(Taken(audio.s)) \/ TakeStop(Taken(audio.s))
      PROVE  \E command : Taking(command) /\ Takes(command)
  BY <1>2 DEF Takes, TakePlay, TakeUnload, TakeStop
<1> QED
  BY <1>1, <1>2 DEF Next, Render, Publishes, Looks

\* What the steps of each thread leave alone.
LEMMA Alone ==
  /\ \A s : (\E kind, sequence, named : Submits(s, kind, sequence, named)) =>
       UNCHANGED <<lastSequence, clip, lease, handedBack, audio, voices, tag, state, published, reader, reads>>
  /\ \A s : Publish(s) => UNCHANGED <<lease, handedBack, audio, voices, tag, state, published, reader, reads>>
  /\ \A s : LoadClip(s) => UNCHANGED <<ring, tail, head, writing, lastSequence, lease, audio, voices, tag, state, published, reader, reads>>
  /\ \A command : Taking(command) => UNCHANGED <<ring, tail, head, writing, lastSequence, tag, state, published, reader, reads>>
  /\ LoadTail \/ StoreHead =>
       UNCHANGED <<ring, tail, writing, lastSequence, clip, lease, handedBack, voices, tag, state, published, reader, reads>>
  /\ Mix => UNCHANGED <<ring, tail, head, writing, lastSequence, clip, tag, state, published, reader, reads>>
  /\ Publishes => UNCHANGED <<ring, tail, head, writing, lastSequence, clip, lease, handedBack, voices, reads>>
  /\ Looks \/ UNCHANGED vars =>
       UNCHANGED <<ring, tail, head, writing, lastSequence, clip, lease, handedBack, audio, voices, tag, state, published>>
  /\ UNCHANGED vars => UNCHANGED <<reader, reads>>
<1>1. ASSUME NEW s, NEW kind, NEW sequence, NEW named, Submits(s, kind, sequence, named)
      PROVE  UNCHANGED <<lastSequence, clip, lease, handedBack, audio, voices, tag, state, published, reader, reads>>
  BY <1>1 DEF Submits, Write, clipVars, boardVars, readerVars
<1>2. ASSUME NEW s, Publish(s)
      PROVE  UNCHANGED <<lease, handedBack, audio, voices, tag, state, published, reader, reads>>
  BY <1>2 DEF Publish, boardVars, readerVars
<1>3. ASSUME NEW s, LoadClip(s)
      PROVE  UNCHANGED <<ring, tail, head, writing, lastSequence, lease, audio, voices, tag, state, published, reader, reads>>
  BY <1>3 DEF LoadClip, ringVars, boardVars, readerVars
<1>4. ASSUME NEW command, Taking(command)
      PROVE  UNCHANGED <<ring, tail, head, writing, lastSequence, tag, state, published, reader, reads>>
  BY <1>4 DEF Taking, ringVars, boardVars, readerVars
<1>5. ASSUME LoadTail \/ StoreHead
      PROVE  UNCHANGED <<ring, tail, writing, lastSequence, clip, lease, handedBack, voices, tag, state, published, reader, reads>>
  BY <1>5 DEF LoadTail, StoreHead, ringVars, clipVars, boardVars, readerVars
<1>6. ASSUME Mix
      PROVE  UNCHANGED <<ring, tail, head, writing, lastSequence, clip, tag, state, published, reader, reads>>
  BY <1>6 DEF Mix, ringVars, boardVars, readerVars
<1>7. ASSUME Publishes
      PROVE  UNCHANGED <<ring, tail, head, writing, lastSequence, clip, lease, handedBack, voices, reads>>
  <2>1. PublishVoice \/ AssignState \/ AssignTag => UNCHANGED <<ringVars, clipVars, voices, reads>>
    BY DEF PublishVoice, AssignState, AssignTag, readerVars
  <2> QED
    BY <1>7, <2>1 DEF Publishes, ringVars, clipVars
<1>8. ASSUME Looks \/ UNCHANGED vars
      PROVE  UNCHANGED <<ring, tail, head, writing, lastSequence, clip, lease, handedBack, audio, voices, tag, state, published>>
  <2>1. \A place : Reading(place) => UNCHANGED <<ringVars, clipVars, audio, voices, boardVars>>
    BY DEF Reading
  <2>2. Looks => UNCHANGED <<ringVars, clipVars, audio, voices, boardVars>>
    BY <2>1 DEF Looks, PlayheadOf, ReadTag, ReadState, ReadAgain, ReadReturns
  <2>3. UNCHANGED vars => UNCHANGED <<ringVars, clipVars, audio, voices, boardVars>>
    BY DEF vars
  <2> QED
    BY <1>8, <2>2, <2>3 DEF ringVars, clipVars, boardVars
<1>9. UNCHANGED vars => UNCHANGED <<reader, reads>>
  BY DEF vars, readerVars
<1> QED
  BY <1>1, <1>2, <1>3, <1>4, <1>5, <1>6, <1>7, <1>8, <1>9

\* The steps that leave the waiting commands as they are.
LEMMA Undisturbed ==
  ASSUME TypeOK, Ends,
         LoadTail \/ StoreHead \/ Mix \/ Publishes \/ Looks \/ UNCHANGED vars \/ \E s \in Submitters : LoadClip(s)
  PROVE  SamePending /\ UNCHANGED <<ring, tail, writing, lastSequence>>
<1>1. Mix \/ Publishes => UNCHANGED ringVars
  BY Alone DEF ringVars
<1>2. Looks \/ UNCHANGED vars \/ (\E s \in Submitters : LoadClip(s)) => UNCHANGED <<ringVars, audio>>
  BY Alone DEF ringVars
<1>3. SamePending
  BY <1>1, <1>2, OtherPends DEF Publishes
<1> QED
  BY <1>1, <1>2, <1>3 DEF LoadTail, StoreHead, ringVars

-----------------------------------------------------------------------------
(* The ends of the rings.                                                  *)

\* What the audio thread keeps of the ring it is in.
LEMMA AudioIs ==
  ASSUME TypeOK
  PROVE  /\ audio.s \in Submitters /\ audio.h \in Nat /\ audio.tail \in Nat /\ audio.voice \in Voices
         /\ audio.h <= MaxCommands /\ audio.tail <= MaxCommands
         /\ audio = [place |-> audio.place, s |-> audio.s, h |-> audio.h, tail |-> audio.tail, voice |-> audio.voice]
<1>1. MaxCommands \in Nat
  BY Numbers
<1> QED
  BY <1>1 DEF TypeOK, AudioTypes

\* No step lets a head pass its tail, or a producer write over what waits.
LEMMA NextEnds ==
  ASSUME TypeOK, Ends, [Next]_vars
  PROVE  Ends'
<1>0. /\ \A s \in Submitters :
           /\ tail[s] \in Nat /\ head[s] \in Nat /\ lastSequence[s] \in Nat /\ Cursor(s) \in Nat
           /\ head[s] <= tail[s] /\ writing[s] \in BOOLEAN
      /\ DOMAIN tail = Submitters /\ DOMAIN head = Submitters /\ DOMAIN writing = Submitters
      /\ DOMAIN lastSequence = Submitters
      /\ audio.s \in Submitters /\ audio.h \in Nat /\ audio.tail \in Nat
  BY RingIs, AudioIs DEF TypeOK, RingTypes
<1>1. ASSUME NEW s \in Submitters, NEW kind, NEW sequence, NEW named, Submits(s, kind, sequence, named)
      PROVE  Ends'
  <2>1. /\ tail[s] - head[s] < Capacity /\ tail[s] < MaxCommands /\ writing' = [writing EXCEPT ![s] = TRUE]
        /\ UNCHANGED <<tail, head, lastSequence, audio>>
    BY <1>1 DEF Submits, Write
  <2> QED
    BY <1>0, <2>1 DEF Ends, Cursor
<1>2. ASSUME NEW s \in Submitters, Publish(s)
      PROVE  Ends'
  <2>1. /\ writing[s] /\ writing' = [writing EXCEPT ![s] = FALSE]
        /\ tail' = [tail EXCEPT ![s] = @ + 1] /\ UNCHANGED <<head, audio>>
        /\ \E n \in {0, 1} : lastSequence' = [lastSequence EXCEPT ![s] = @ + n]
    BY <1>2 DEF Publish
  <2>2. PICK n \in {0, 1} : lastSequence' = [lastSequence EXCEPT ![s] = @ + n]
    BY <2>1
  <2>3. tail'[s] = tail[s] + 1 /\ ~writing'[s] /\ lastSequence'[s] = lastSequence[s] + n
    BY <1>0, <2>1, <2>2
  <2>4. \A r \in Submitters \ {s} : tail'[r] = tail[r] /\ writing'[r] = writing[r] /\ lastSequence'[r] = lastSequence[r]
    BY <1>0, <2>1, <2>2
  <2>5. \A r \in Submitters : Cursor(r)' = Cursor(r) /\ head'[r] = head[r] /\ tail[r] <= tail'[r]
    BY <1>0, <2>1, <2>3, <2>4 DEF Cursor
  <2>6. ASSUME NEW r \in Submitters
        PROVE  /\ head'[r] <= Cursor(r)' /\ Cursor(r)' <= tail'[r]
               /\ writing'[r] => tail'[r] - head'[r] < Capacity /\ tail'[r] < MaxCommands
               /\ lastSequence'[r] <= tail'[r]
    <3>1. CASE r = s
      BY <1>0, <2>2, <2>3, <2>5, <3>1 DEF Ends
    <3>2. CASE r # s
      BY <2>4, <2>5, <3>2 DEF Ends
    <3> QED
      BY <3>1, <3>2
  <2>7. audio.tail <= tail[audio.s] => audio.tail <= tail'[audio.s]
    <3>1. tail'[audio.s] \in {tail[audio.s], tail[audio.s] + 1}
      BY <1>0, <2>3, <2>4
    <3> QED
      BY <1>0, <3>1
  <2> QED
    BY <2>1, <2>6, <2>7 DEF Ends
<1>3. ASSUME NEW command, Taking(command)
      PROVE  Ends'
  <2>1. /\ audio.place = "command" /\ UNCHANGED ringVars
        /\ audio'.place = IF audio.h + 1 = audio.tail THEN "head" ELSE "command"
        /\ audio'.s = audio.s /\ audio'.h = audio.h + 1 /\ audio'.tail = audio.tail
    BY <1>3, AudioIs DEF Taking, TypeOK, AudioTypes
  <2>2. audio.h < audio.tail /\ audio.tail <= tail[audio.s] /\ head[audio.s] <= audio.h
    BY <1>0, <2>1 DEF Ends, Cursor
  <2>3. \A r \in Submitters : Cursor(r)' = IF r = audio.s THEN audio.h + 1 ELSE Cursor(r)
    BY <2>1 DEF Cursor, ringVars
  <2>4. \A r \in Submitters : head[r] <= Cursor(r)' /\ Cursor(r)' <= tail[r]
    <3> SUFFICES ASSUME NEW r \in Submitters
                 PROVE  head[r] <= Cursor(r)' /\ Cursor(r)' <= tail[r]
      OBVIOUS
    <3>1. CASE r = audio.s
      BY <1>0, <2>2, <2>3, <3>1
    <3>2. CASE r # audio.s
      BY <2>3, <3>2 DEF Ends
    <3> QED
      BY <3>1, <3>2
  <2>5. /\ audio'.h <= audio'.tail /\ audio'.tail <= tail[audio'.s]
        /\ audio'.place = "command" => audio'.h < audio'.tail
        /\ audio'.place = "head" => audio'.h = audio'.tail
    BY <1>0, <2>1, <2>2
  <2> QED
    BY <2>1, <2>4, <2>5 DEF Ends, ringVars
<1>4. CASE LoadTail
  <2>1. UNCHANGED ringVars
    BY <1>4 DEF LoadTail
  <2>2. CASE head[audio.s] = tail[audio.s]
    <3>1. audio'.place \in {"slot", "mix"} /\ audio.place = "slot"
      BY <1>4, <2>2, AudioIs DEF LoadTail, NextSlot, TypeOK, AudioTypes
    <3> QED
      BY <1>0, <2>1, <3>1 DEF Ends, Cursor, ringVars
  <2>3. CASE head[audio.s] # tail[audio.s]
    <3>1. /\ audio.place = "slot" /\ audio'.place = "command" /\ audio'.s = audio.s
          /\ audio'.h = head[audio.s] /\ audio'.tail = tail[audio.s]
      BY <1>4, <2>3, AudioIs DEF LoadTail, TypeOK, AudioTypes
    <3>2. \A r \in Submitters : Cursor(r)' = Cursor(r)
      BY <2>1, <3>1 DEF Cursor, ringVars
    <3>3. head[audio.s] < tail[audio.s]
      BY <1>0, <2>3
    <3> QED
      BY <1>0, <2>1, <3>1, <3>2, <3>3 DEF Ends, ringVars
  <2> QED
    BY <2>2, <2>3
<1>5. CASE StoreHead
  <2>1. /\ audio.place = "head" /\ head' = [head EXCEPT ![audio.s] = audio.h]
        /\ UNCHANGED <<ring, tail, writing, lastSequence>>
        /\ audio'.place \in {"slot", "mix"}
    BY <1>5, AudioIs DEF StoreHead, NextSlot, TypeOK, AudioTypes
  <2>2. /\ audio.h <= tail[audio.s] /\ head[audio.s] <= audio.h
        /\ \A r \in Submitters : head'[r] = IF r = audio.s THEN audio.h ELSE head[r]
    BY <1>0, <2>1 DEF Ends, Cursor
  <2>3. \A r \in Submitters : Cursor(r)' = Cursor(r) /\ Cursor(r)' = head'[r]
    BY <2>1, <2>2 DEF Cursor
  <2>4. Capacity \in Nat
    BY Numbers
  <2>5. ASSUME NEW r \in Submitters, writing[r]
        PROVE  tail[r] - head'[r] < Capacity
    <3>1. head[r] <= head'[r] /\ head'[r] \in Nat /\ tail[r] - head[r] < Capacity
      BY <1>0, <2>2, <2>5 DEF Ends
    <3> QED
      BY <1>0, <2>4, <3>1
  <2> QED
    BY <1>0, <2>1, <2>2, <2>3, <2>5 DEF Ends
<1>6. CASE Mix \/ Publishes
  <2>1. /\ UNCHANGED ringVars /\ audio.place \in {"mix", "publish", "assign", "name"}
        /\ audio'.place \in {"slot", "publish", "assign", "name"}
    BY <1>6, AudioIs DEF Mix, Publishes, PublishVoice, AssignState, AssignTag, NextVoice, TypeOK, AudioTypes
  <2> QED
    BY <1>0, <2>1 DEF Ends, Cursor, ringVars
<1>7. CASE Looks \/ UNCHANGED vars \/ \E s \in Submitters : LoadClip(s)
  <2>1. UNCHANGED <<ringVars, audio>>
    BY <1>7, Alone DEF ringVars
  <2> QED
    BY <2>1 DEF Ends, Cursor, ringVars
<1> QED
  BY <1>1, <1>2, <1>3, <1>4, <1>5, <1>6, <1>7, Steps

-----------------------------------------------------------------------------
(* The commands mean what their producer meant.                            *)

\* A command a producer writes is one of Commands, with its own number.
LEMMA Submitted ==
  ASSUME TypeOK, Ends, NEW s \in Submitters, NEW kind, NEW sequence, NEW named, Submits(s, kind, sequence, named)
  PROVE  /\ kind \in {"play", "stop", "stopAll", "unload"} /\ sequence \in 0..MaxCommands
         /\ IF kind \in {"play", "unload"} THEN named \in {s} \X ClipSlots \X (1..(MaxCommands + 1)) ELSE named = NoClip
         /\ [kind |-> kind, handle |-> <<s, sequence>>, clip |-> named, n |-> tail[s] + 1] \in Commands
         /\ \A r \in Submitters : tail'[r] = tail[r] /\ lastSequence'[r] = lastSequence[r]
         /\ UNCHANGED <<tail, head, lastSequence, clipVars, audio, voices, boardVars, readerVars>>
<1>1. /\ tail[s] \in Nat /\ lastSequence[s] \in Nat /\ lastSequence[s] <= tail[s] /\ tail[s] < MaxCommands
      /\ MaxCommands \in Nat
      /\ UNCHANGED <<tail, head, lastSequence, clipVars, audio, voices, boardVars, readerVars>>
  BY RingIs, Numbers DEF Ends, Submits, Write
<1>2. kind \in {"play", "stop", "stopAll", "unload"}
  BY DEF Submits
<1>3. sequence \in 0..MaxCommands
  BY <1>1 DEF Submits
<1>4. IF kind \in {"play", "unload"} THEN named \in {s} \X ClipSlots \X (1..(MaxCommands + 1)) ELSE named = NoClip
  <2>1. CASE kind \in {"play", "unload"}
    <3>1. PICK i \in ClipSlots : named = Named(s, i)
      BY <2>1 DEF Submits
    <3>2. clip[s][i].generation \in 1..(MaxCommands + 1)
      BY DEF TypeOK, ClipTypes
    <3> QED
      BY <2>1, <3>1, <3>2 DEF Named
  <2> QED
    BY <2>1 DEF Submits
<1>5. named \in Clips
  BY <1>4 DEF Clips
<1>6. tail[s] + 1 \in 1..MaxCommands
  BY <1>1
<1>7. <<s, sequence>> \in Submitters \X (0..MaxCommands)
  BY <1>3
<1> QED
  BY <1>1, <1>2, <1>3, <1>4, <1>5, <1>6, <1>7 DEF Commands

\* A command that waits.
LEMMA CommandIs ==
  ASSUME TypeOK, Meant, NEW s \in Submitters, NEW p \in Pending(s)
  PROVE  /\ At(s, p) \in Commands /\ At(s, p).n = p + 1
         /\ At(s, p).kind \in {"play", "stop", "stopAll", "unload"}
         /\ At(s, p).handle = <<s, At(s, p).handle[2]>> /\ At(s, p).handle[2] \in 0..MaxCommands
         /\ At(s, p).kind \in {"play", "unload"} =>
              /\ At(s, p).clip \in Clips /\ At(s, p).clip # NoClip
              /\ At(s, p).clip = <<s, At(s, p).clip[2], At(s, p).clip[3]>>
              /\ At(s, p).clip[2] \in ClipSlots /\ At(s, p).clip[3] \in 1..(MaxCommands + 1)
         /\ At(s, p).kind \notin {"play", "unload"} => At(s, p).clip = NoClip
         /\ At(s, p).kind = "play" =>
              /\ At(s, p).handle[2] \in 1..MaxCommands
              /\ p < tail[s] => At(s, p).handle[2] <= lastSequence[s]
              /\ p = tail[s] => At(s, p).handle[2] = lastSequence[s] + 1
<1> DEFINE c == At(s, p)
<1>1. /\ c \in Commands /\ c.n = p + 1 /\ c.handle[1] = s
      /\ IF c.kind \in {"play", "unload"}
         THEN c.clip \in {s} \X ClipSlots \X (1..(MaxCommands + 1)) ELSE c.clip = NoClip
      /\ c.kind = "play" =>
           /\ c.handle[2] >= 1
           /\ p < tail[s] => c.handle[2] <= lastSequence[s]
           /\ p = tail[s] => c.handle[2] = lastSequence[s] + 1
  BY DEF Meant
<1> HIDE DEF c
<1>2. c.kind \in {"play", "stop", "stopAll", "unload"} /\ c.handle \in Submitters \X (0..MaxCommands)
  BY <1>1 DEF Commands
<1>3. c.handle = <<s, c.handle[2]>> /\ c.handle[2] \in 0..MaxCommands
  BY <1>1, <1>2
<1>4. ASSUME c.kind \in {"play", "unload"}
      PROVE  /\ c.clip \in Clips /\ c.clip # NoClip /\ c.clip = <<s, c.clip[2], c.clip[3]>>
             /\ c.clip[2] \in ClipSlots /\ c.clip[3] \in 1..(MaxCommands + 1)
  <2>1. c.clip \in {s} \X ClipSlots \X (1..(MaxCommands + 1))
    BY <1>1, <1>4
  <2>2. c.clip = <<s, c.clip[2], c.clip[3]>> /\ c.clip[2] \in ClipSlots /\ c.clip[3] \in 1..(MaxCommands + 1)
    BY <2>1
  <2>3. c.clip \in Clips
    BY <2>2 DEF Clips
  <2>4. s # 0
    BY Numbers
  <2> QED
    BY <2>2, <2>3, <2>4 DEF NoClip
<1>5. c.kind = "play" => c.handle[2] \in 1..MaxCommands
  BY <1>1, <1>3, Numbers
<1> QED
  BY <1>1, <1>2, <1>3, <1>4, <1>5 DEF c

\* No step changes a command that waits.
LEMMA NextMeant ==
  ASSUME TypeOK, Ends, Meant, [Next]_vars
  PROVE  Meant'
<1>1. ASSUME NEW s \in Submitters, NEW kind, NEW sequence, NEW named, Submits(s, kind, sequence, named)
      PROVE  Meant'
  <2> DEFINE c == [kind |-> kind, handle |-> <<s, sequence>>, clip |-> named, n |-> tail[s] + 1]
  <2>1. /\ Pending(s)' = Pending(s) \cup {tail[s]}
        /\ \A p \in Pending(s) : p < tail[s] /\ At(s, p)' = At(s, p)
        /\ \A p : p = tail[s] => At(s, p)' = c
        /\ \A r \in Submitters \ {s} : Pending(r)' = Pending(r) /\ \A p \in Pending(r) : At(r, p)' = At(r, p)
    BY <1>1, WritePends DEF Submits
  <2>2. /\ c \in Commands /\ c.n = tail[s] + 1 /\ c.handle[1] = s /\ c.handle[2] = sequence
        /\ c.kind = kind /\ c.clip = named
        /\ IF kind \in {"play", "unload"} THEN named \in {s} \X ClipSlots \X (1..(MaxCommands + 1)) ELSE named = NoClip
        /\ UNCHANGED <<tail, lastSequence>>
    BY <1>1, Submitted
  <2>3. kind = "play" => sequence = lastSequence[s] + 1 /\ lastSequence[s] + 1 >= 1
    BY <1>1, RingIs DEF Submits
  <2>4. tail[s] \in Nat
    BY RingIs
  <2> HIDE DEF c
  <2>5. ASSUME NEW r \in Submitters, NEW p \in Pending(r)'
        PROVE  /\ At(r, p)' \in Commands /\ At(r, p)'.n = p + 1 /\ At(r, p)'.handle[1] = r
               /\ IF At(r, p)'.kind \in {"play", "unload"}
                  THEN At(r, p)'.clip \in {r} \X ClipSlots \X (1..(MaxCommands + 1)) ELSE At(r, p)'.clip = NoClip
               /\ At(r, p)'.kind = "play" =>
                    /\ At(r, p)'.handle[2] >= 1
                    /\ p < tail[r] => At(r, p)'.handle[2] <= lastSequence[r]
                    /\ p = tail[r] => At(r, p)'.handle[2] = lastSequence[r] + 1
    <3>1. CASE r = s /\ p = tail[s]
      <4>1. At(r, p)' = c
        BY <2>1, <3>1
      <4> QED
        BY <2>2, <2>3, <2>4, <3>1, <4>1
    <3>2. CASE ~(r = s /\ p = tail[s])
      <4>1. p \in Pending(r) /\ At(r, p)' = At(r, p)
        BY <2>1, <3>2
      <4> QED
        BY <4>1 DEF Meant
    <3> QED
      BY <3>1, <3>2
  <2> QED
    BY <2>2, <2>5 DEF Meant
<1>2. ASSUME NEW s \in Submitters, Publish(s)
      PROVE  Meant'
  <2>1. /\ writing[s] /\ tail'[s] = tail[s] + 1 /\ tail[s] \in Pending(s)
        /\ \A r \in Submitters \ {s} : tail'[r] = tail[r]
        /\ SamePending
    BY <1>2, PublishPends
  <2>2. /\ lastSequence'[s] = lastSequence[s] + IF At(s, tail[s]).kind = "play" THEN 1 ELSE 0
        /\ \A r \in Submitters \ {s} : lastSequence'[r] = lastSequence[r]
    BY <1>2 DEF Publish, At, TypeOK, RingTypes
  <2>3. \A r \in Submitters : tail[r] \in Nat /\ lastSequence[r] \in Nat
    BY RingIs
  <2>4. ASSUME NEW r \in Submitters, NEW p \in Pending(r)
        PROVE  At(r, p).kind = "play" =>
                 /\ p < tail'[r] => At(r, p).handle[2] <= lastSequence'[r]
                 /\ p = tail'[r] => At(r, p).handle[2] = lastSequence'[r] + 1
    <3>1. CASE r # s
      BY <2>1, <2>2, <3>1 DEF Meant
    <3>2. CASE r = s
      <4>1. p \in Nat /\ p <= tail[s] /\ At(s, p).handle[2] \in 0..MaxCommands
        <5>1. p \in Nat /\ p <= tail[s]
          BY <2>3, <3>2, RingIs DEF Pending
        <5> QED
          BY <3>2, <5>1, CommandIs
      <4>2. p # tail'[s] /\ MaxCommands \in Nat
        BY <2>1, <2>3, <4>1, Numbers
      <4>3. CASE p = tail[s]
        <5>1. At(s, p).kind = "play" => At(s, p).handle[2] = lastSequence[s] + 1
          BY <3>2, <4>3 DEF Meant
        <5> QED
          BY <2>2, <2>3, <3>2, <4>2, <4>3, <5>1
      <4>4. CASE p < tail[s]
        <5>1. At(s, p).kind = "play" => At(s, p).handle[2] <= lastSequence[s]
          BY <3>2, <4>4 DEF Meant
        <5> QED
          BY <2>2, <2>3, <3>2, <4>1, <4>2, <5>1
      <4> QED
        BY <2>3, <4>1, <4>3, <4>4
    <3> QED
      BY <3>1, <3>2
  <2> QED
    BY <2>1, <2>4 DEF Meant, SamePending
<1>3. ASSUME NEW command, Taking(command)
      PROVE  Meant'
  <2>1. /\ \A s \in Submitters : Pending(s)' \subseteq Pending(s)
        /\ \A s \in Submitters : \A p : At(s, p)' = At(s, p)
    BY <1>3, TakingPends
  <2>2. UNCHANGED <<tail, lastSequence>>
    BY <1>3 DEF Taking, ringVars
  <2> QED
    BY <2>1, <2>2 DEF Meant
<1>4. CASE LoadTail \/ StoreHead \/ Mix \/ Publishes \/ Looks \/ UNCHANGED vars \/ \E s \in Submitters : LoadClip(s)
  BY <1>4, Undisturbed DEF Meant, SamePending
<1> QED
  BY <1>1, <1>2, <1>3, <1>4, Steps

-----------------------------------------------------------------------------
(* The voices.                                                             *)

\* A block leaves a voice its sound, or silences it.
LEMMA RenderedIs ==
  ASSUME NEW voice \in Voice, voice.active => Timed(voice), NEW n \in 1..MaxBlock
  PROVE  /\ Rendered(voice, n) \in Voice
         /\ Rendered(voice, n).active =>
              /\ voice.active /\ Timed(Rendered(voice, n))
              /\ Rendered(voice, n).handle = voice.handle /\ Rendered(voice, n).clip = voice.clip
<1> DEFINE start == voice.start
           stop == voice.stop
           position == voice.position
           from == Most(start, 0)
           until == Least(stop, n)
           mixed == Most(Least(until - from, ClipFrames - position), 0)
           later == IF stop = Never THEN Never ELSE stop - n
           r == Rendered(voice, n)
<1>1. /\ MaxAhead \in Nat /\ MaxBlock \in Nat /\ n \in Nat /\ n > 0 /\ n <= MaxBlock
      /\ ClipFrames \in Nat /\ ClipFrames > 0 /\ Never = MaxAhead + MaxBlock + 1
  BY Numbers DEF Never
<1>2. /\ start \in Int /\ -1 <= start /\ start <= MaxAhead /\ stop \in Nat /\ stop <= Never
      /\ position \in Nat /\ position <= ClipFrames
  <2>1. start \in -1..MaxAhead /\ stop \in 0..Never /\ position \in 0..ClipFrames
    BY DEF Voice
  <2> QED
    BY <1>1, <2>1
<1>3. CASE ~voice.active
  BY <1>3 DEF Rendered
<1>4. CASE voice.active /\ start >= n
  <2>1. r = [voice EXCEPT !.start = start - n, !.stop = later]
    BY <1>4 DEF Rendered
  <2>2. Timed(voice)
    BY <1>4
  <2>3. start - n \in -1..MaxAhead /\ later \in 0..Never /\ later > start - n /\ later > 0
        /\ (later = Never \/ later <= MaxAhead)
    BY <1>1, <1>2, <1>4, <2>2 DEF Timed
  <2> HIDE DEF start, later, r
  <2>4. r \in Voice
    BY <2>1, <2>3 DEF Voice
  <2>5. /\ r.active = voice.active /\ r.handle = voice.handle /\ r.clip = voice.clip
        /\ r.start = start - n /\ r.stop = later /\ r.position = voice.position
    BY <2>1 DEF Voice
  <2>6. Timed(r)
    BY <2>2, <2>3, <2>5 DEF Timed
  <2> QED
    BY <1>4, <2>4, <2>5, <2>6 DEF r
<1>5. CASE voice.active /\ ~(start >= n) /\ (position + mixed = ClipFrames \/ from + mixed >= stop)
  <2>1. r = IdleVoice
    BY <1>5 DEF Rendered
  <2>2. IdleVoice \in Voice
    BY <1>1 DEF IdleVoice, Voice, Clips
  <2>3. ~IdleVoice.active
    BY DEF IdleVoice
  <2> QED
    BY <2>1, <2>2, <2>3
<1>6. CASE voice.active /\ ~(start >= n) /\ ~(position + mixed = ClipFrames \/ from + mixed >= stop)
  <2>1. r = [voice EXCEPT !.start = -1, !.stop = later, !.position = position + mixed]
    BY <1>6 DEF Rendered
  <2>2. Timed(voice)
    BY <1>6
  <2>3. from \in Nat /\ from < n /\ from < stop
    BY <1>1, <1>2, <1>6, <2>2 DEF Timed, Most
  <2>4. until \in Nat /\ from < until /\ until <= n /\ (until = n \/ until = stop) /\ until <= stop
    BY <1>1, <1>2, <2>3 DEF Least
  <2>5. position < ClipFrames
    BY <2>2 DEF Timed
  <2> HIDE DEF from, until, later, r, start, stop, position
  <2>6. mixed = IF until - from < ClipFrames - position THEN until - from ELSE ClipFrames - position
    BY <1>1, <1>2, <2>3, <2>4, <2>5 DEF Most, Least
  <2> HIDE DEF mixed
  <2>7. mixed \in Nat /\ from + mixed = until /\ position + mixed < ClipFrames
    BY <1>1, <1>2, <1>6, <2>3, <2>4, <2>5, <2>6
  <2>8. n < stop
    BY <1>1, <1>2, <1>6, <2>4, <2>7
  <2>9. later \in 0..Never /\ later > 0 /\ (later = Never \/ later <= MaxAhead)
    BY <1>1, <1>2, <2>2, <2>8 DEF later, Timed, stop
  <2>10. -1 \in -1..MaxAhead /\ position + mixed \in 0..ClipFrames /\ later > -1
    BY <1>1, <1>2, <2>7, <2>9
  <2>11. r \in Voice
    BY <2>1, <2>9, <2>10 DEF Voice
  <2>12. /\ r.active = voice.active /\ r.handle = voice.handle /\ r.clip = voice.clip
         /\ r.start = -1 /\ r.stop = later /\ r.position = position + mixed
    BY <2>1 DEF Voice
  <2>13. Timed(r)
    BY <2>7, <2>9, <2>10, <2>12 DEF Timed
  <2> QED
    BY <1>6, <2>11, <2>12, <2>13 DEF r
<1> QED
  BY <1>3, <1>4, <1>5, <1>6

\* What a step does to a voice: it keeps its sound with fewer frames to come, goes silent, or
\* takes up the sound of the command that is taken.
Keeps(v) == voices'[v].active => /\ voices[v].active /\ Timed(voices'[v])
                                 /\ voices'[v].handle = voices[v].handle /\ voices'[v].clip = voices[v].clip

\* A block gives every voice its sound or silence.
LEMMA MixKeeps ==
  ASSUME TypeOK, Sounding, Mix
  PROVE  \A v \in Voices : voices'[v] \in Voice /\ Keeps(v)
<1>1. PICK n \in 1..MaxBlock : voices' = [v \in Voices |-> Rendered(voices[v], n)]
  BY DEF Mix
<1>2. ASSUME NEW v \in Voices
      PROVE  voices'[v] \in Voice /\ Keeps(v)
  <2>1. voices[v] \in Voice /\ (voices[v].active => Timed(voices[v]))
    BY DEF TypeOK, VoiceTypes, Sounding
  <2>2. voices'[v] = Rendered(voices[v], n)
    BY <1>1
  <2> QED
    BY <2>1, <2>2, RenderedIs DEF Keeps
<1> QED
  BY <1>2

\* A stop moves the end of the voices it names, or silences them.
LEMMA StopKeeps ==
  ASSUME TypeOK, Sounding, NEW command, TakeStop(command)
  PROVE  \A v \in Voices : voices'[v] \in Voice /\ Keeps(v)
<1>1. PICK at \in 0..MaxAhead :
        voices' = [v \in Voices |->
          IF v \in {w \in Stopped(command) : at <= Most(voices[w].start, 0)} THEN IdleVoice
          ELSE IF v \in Stopped(command) THEN [voices[v] EXCEPT !.stop = Least(@, at)]
          ELSE voices[v]]
  BY DEF TakeStop
<1>2. ASSUME NEW v \in Voices
      PROVE  voices'[v] \in Voice /\ Keeps(v)
  <2>1. voices[v] \in Voice /\ (voices[v].active => Timed(voices[v]))
    BY DEF TypeOK, VoiceTypes, Sounding
  <2>2. CASE voices'[v] = IdleVoice
    <3>1. MaxAhead \in Nat /\ ClipFrames \in Nat /\ Never \in Nat
      BY Numbers DEF Never
    <3>2. IdleVoice \in Voice /\ ~IdleVoice.active
      BY <3>1 DEF IdleVoice, Voice, Clips
    <3> QED
      BY <2>2, <3>2 DEF Keeps
  <2>3. CASE voices'[v] = voices[v]
    BY <2>1, <2>3 DEF Keeps
  <2>4. CASE /\ v \in Stopped(command) /\ ~(at <= Most(voices[v].start, 0))
             /\ voices'[v] = [voices[v] EXCEPT !.stop = Least(voices[v].stop, at)]
    <3> DEFINE x == voices[v]
               stop == Least(x.stop, at)
               y == [x EXCEPT !.stop = stop]
    <3>1. x.active /\ Timed(x) /\ x \in Voice
      BY <2>1, <2>4 DEF Stopped
    <3>2. MaxAhead \in Nat /\ MaxBlock \in Nat /\ Never = MaxAhead + MaxBlock + 1 /\ at \in Nat /\ at <= MaxAhead
      BY Numbers DEF Never
    <3>3. x.start \in -1..MaxAhead /\ x.stop \in 0..Never
      BY <3>1 DEF Voice
    <3> HIDE DEF x
    <3>4. x.start < at /\ 0 < at
      BY <2>4, <3>2, <3>3 DEF Most, x
    <3>5. stop \in 0..Never /\ stop <= MaxAhead /\ 0 < stop /\ x.start < stop
      BY <3>1, <3>2, <3>3, <3>4 DEF Least, Timed
    <3> HIDE DEF stop
    <3>6. y \in Voice
      BY <3>1, <3>5 DEF Voice
    <3>7. /\ y.active = x.active /\ y.handle = x.handle /\ y.clip = x.clip /\ y.start = x.start
          /\ y.stop = stop /\ y.position = x.position
      BY <3>1 DEF Voice
    <3> HIDE DEF y
    <3>8. Timed(y)
      BY <3>1, <3>5, <3>7 DEF Timed
    <3>9. voices'[v] = y
      BY <2>4 DEF y, stop, x
    <3> QED
      BY <3>1, <3>6, <3>7, <3>8, <3>9 DEF Keeps, x
  <2> QED
    BY <1>1, <2>2, <2>3, <2>4
<1> QED
  BY <1>2

\* A play that is taken sounds in a voice that was free.
Starts(v, command) ==
  /\ v \in Voices /\ ~voices[v].active
  /\ voices'[v] \in Voice /\ voices'[v].active /\ Timed(voices'[v])
  /\ voices'[v].handle = command.handle /\ voices'[v].clip = command.clip
  /\ \A w \in Voices \ {v} : voices'[w] = voices[w]
  /\ lease' = Leased(command)

\* A play is dropped, or starts in a voice of its own.
LEMMA PlayStarts ==
  ASSUME TypeOK, Ends, Meant, NEW command, TakePlay(command)
  PROVE  UNCHANGED <<voices, lease>> \/ \E v \in Voices : Starts(v, command)
<1>1. CASE FreeVoices = {}
  BY <1>1 DEF TakePlay
<1>2. CASE FreeVoices # {}
  <2> DEFINE v == Min(FreeVoices)
  <2>1. v \in FreeVoices
    BY <1>2, MinIn, Numbers DEF FreeVoices
  <2>2. PICK start \in 0..MaxAhead :
          voices' = [voices EXCEPT ![v] = [active |-> TRUE, handle |-> command.handle, clip |-> command.clip,
                                           start |-> start, stop |-> Never, position |-> 0]]
    BY <1>2 DEF TakePlay
  <2>3. lease' = Leased(command)
    BY <1>2 DEF TakePlay
  <2> DEFINE x == [active |-> TRUE, handle |-> command.handle, clip |-> command.clip,
                   start |-> start, stop |-> Never, position |-> 0]
  <2>4. command.handle \in Handles /\ command.clip \in Clips
    <3>1. /\ audio.s \in Submitters /\ audio.h \in Pending(audio.s) /\ command = At(audio.s, audio.h)
          /\ command.kind = "play"
      BY TakingPends DEF TakePlay
    <3> DEFINE s == audio.s
               p == audio.h
    <3>2. s \in Submitters /\ p \in Pending(s) /\ command = At(s, p)
      BY <3>1
    <3> HIDE DEF s, p
    <3>3. command.handle = <<s, command.handle[2]>> /\ command.handle[2] \in 1..MaxCommands /\ command.clip \in Clips
      BY <3>1, <3>2, CommandIs
    <3> QED
      BY <3>2, <3>3 DEF Handles
  <2>5. /\ MaxAhead \in Nat /\ MaxBlock \in Nat /\ Never = MaxAhead + MaxBlock + 1
        /\ ClipFrames \in Nat /\ ClipFrames > 0
    BY Numbers DEF Never
  <2>6. start \in -1..MaxAhead /\ Never \in 0..Never /\ 0 \in 0..ClipFrames /\ start < Never /\ 0 < Never
    BY <2>2, <2>5
  <2>7. x \in Voice
    BY <2>4, <2>6 DEF Voice
  <2>8. Timed(x)
    BY <2>5, <2>6 DEF Timed
  <2>9. x.active /\ x.handle = command.handle /\ x.clip = command.clip
    OBVIOUS
  <2> HIDE DEF v, x
  <2>10. v \in Voices /\ ~voices[v].active
    BY <2>1 DEF FreeVoices
  <2>11. voices'[v] = x /\ \A w \in Voices \ {v} : voices'[w] = voices[w]
    BY <2>2, <2>10 DEF x, TypeOK, VoiceTypes
  <2> QED
    BY <2>3, <2>7, <2>8, <2>9, <2>10, <2>11 DEF Starts
<1> QED
  BY <1>1, <1>2

\* The sound a play starts has been handed out by its producer.
LEMMA PlayIs ==
  ASSUME TypeOK, Ends, Meant, NEW command, TakePlay(command)
  PROVE  /\ command.handle \in Handles /\ command.handle[2] <= lastSequence[command.handle[1]]
         /\ command.clip # NoClip
         /\ command.clip[1] \in Submitters /\ command.clip[2] \in ClipSlots /\ command.clip \in Clips
<1> DEFINE s == audio.s
           p == audio.h
<1>1. /\ s \in Submitters /\ p \in Pending(s) /\ command = At(s, p) /\ p < tail[s]
      /\ command.kind = "play"
  BY TakingPends DEF TakePlay
<1> HIDE DEF s, p
<1>2. /\ command.handle = <<s, command.handle[2]>> /\ command.handle[2] \in 1..MaxCommands
      /\ command.clip = <<s, command.clip[2], command.clip[3]>> /\ command.clip[2] \in ClipSlots
      /\ command.clip # NoClip /\ command.clip \in Clips
      /\ command.handle[2] <= lastSequence[s]
  BY <1>1, CommandIs
<1> QED
  BY <1>1, <1>2 DEF Handles

\* The steps that leave the voices alone.
LEMMA Silent ==
  ASSUME \/ \E s \in Submitters : \/ \E kind, sequence, named : Submits(s, kind, sequence, named)
                                  \/ Publish(s) \/ LoadClip(s)
         \/ LoadTail \/ StoreHead \/ Publishes \/ Looks \/ UNCHANGED vars
         \/ \E command : TakeUnload(command)
  PROVE  UNCHANGED voices
<1>1. (\E command : TakeUnload(command)) => UNCHANGED voices
  BY DEF TakeUnload
<1> QED
  BY <1>1, Alone

\* Numbers of sounds only grow.
LEMMA SequencesGrow ==
  ASSUME TypeOK, [Next]_vars
  PROVE  \A s \in Submitters : lastSequence'[s] \in Nat /\ lastSequence[s] <= lastSequence'[s]
<1>0. \A s \in Submitters : lastSequence[s] \in Nat
  BY RingIs
<1>1. ASSUME NEW s \in Submitters, Publish(s)
      PROVE  \A r \in Submitters : lastSequence'[r] \in Nat /\ lastSequence[r] <= lastSequence'[r]
  <2>1. PICK n \in {0, 1} : lastSequence' = [lastSequence EXCEPT ![s] = @ + n]
    BY <1>1 DEF Publish
  <2>2. \A r \in Submitters : lastSequence'[r] = lastSequence[r] + IF r = s THEN n ELSE 0
    BY <2>1, <1>0 DEF TypeOK, RingTypes
  <2> QED
    BY <1>0, <2>1, <2>2
<1>2. CASE UNCHANGED lastSequence
  BY <1>0, <1>2
<1>3. (\E s \in Submitters : Publish(s)) \/ UNCHANGED lastSequence
  BY Steps, Alone
<1> QED
  BY <1>1, <1>2, <1>3

\* No step gives a voice a sound that was not handed out, or times it cannot keep.
LEMMA NextSounding ==
  ASSUME TypeOK, Ends, Meant, Sounding, [Next]_vars
  PROVE  Sounding' /\ VoiceTypes'
<1>1. \/ UNCHANGED voices
      \/ \A v \in Voices : voices'[v] \in Voice /\ Keeps(v)
      \/ \E command : TakePlay(command) /\ \E v \in Voices : Starts(v, command)
  <2>1. ASSUME NEW command, Takes(command)
        PROVE  \/ UNCHANGED voices
               \/ \A v \in Voices : voices'[v] \in Voice /\ Keeps(v)
               \/ TakePlay(command) /\ \E v \in Voices : Starts(v, command)
    <3>1. CASE TakePlay(command)
      BY <3>1, PlayStarts
    <3>2. CASE TakeUnload(command)
      BY <3>2, Silent
    <3>3. CASE TakeStop(command)
      BY <3>3, StopKeeps
    <3> QED
      BY <2>1, <3>1, <3>2, <3>3 DEF Takes
  <2> QED
    BY <2>1, Steps, Silent, MixKeeps
<1>2. \E f : voices' = [v \in Voices |-> f[v]]
  <2>1. voices = [v \in Voices |-> voices[v]]
    BY DEF TypeOK, VoiceTypes
  <2>2. \A command : TakePlay(command) \/ TakeUnload(command) \/ TakeStop(command) => \E f : voices' = [v \in Voices |-> f[v]]
    <3>1. \A v, x : [voices EXCEPT ![v] = x] = [w \in Voices |-> [voices EXCEPT ![v] = x][w]]
      BY <2>1
    <3>2. ASSUME NEW command, TakePlay(command)
          PROVE  \E f : voices' = [v \in Voices |-> f[v]]
      <4>1. UNCHANGED voices \/ \E v, x : voices' = [voices EXCEPT ![v] = x]
        BY <3>2 DEF TakePlay
      <4> QED
        BY <2>1, <3>1, <4>1
    <3>3. ASSUME NEW command, TakeStop(command)
          PROVE  \E f : voices' = [v \in Voices |-> f[v]]
      <4>1. PICK at \in 0..MaxAhead :
              voices' = [v \in Voices |->
                IF v \in {w \in Stopped(command) : at <= Most(voices[w].start, 0)} THEN IdleVoice
                ELSE IF v \in Stopped(command) THEN [voices[v] EXCEPT !.stop = Least(@, at)]
                ELSE voices[v]]
        BY <3>3 DEF TakeStop
      <4>2. voices' = [v \in Voices |-> voices'[v]]
        BY <4>1
      <4> QED
        BY <4>2
    <3> QED
      BY <2>1, <3>2, <3>3, Silent
  <2>3. Mix => \E f : voices' = [v \in Voices |-> f[v]]
    <3>1. ASSUME Mix
          PROVE  voices' = [v \in Voices |-> voices'[v]]
      <4>1. PICK n \in 1..MaxBlock : voices' = [v \in Voices |-> Rendered(voices[v], n)]
        BY <3>1 DEF Mix
      <4> QED
        BY <4>1
    <3> QED
      BY <3>1
  <2> QED
    BY <2>1, <2>2, <2>3, Steps, Silent DEF Takes
<1>3. ASSUME NEW v \in Voices
      PROVE  /\ voices'[v] \in Voice
             /\ voices'[v].active =>
                  /\ voices'[v].handle \in Handles /\ voices'[v].clip # NoClip /\ Timed(voices'[v])
                  /\ voices'[v].handle[2] <= lastSequence[voices'[v].handle[1]]
  <2>0. /\ voices[v] \in Voice
        /\ voices[v].active =>
             /\ voices[v].handle \in Handles /\ voices[v].clip # NoClip /\ Timed(voices[v])
             /\ voices[v].handle[2] <= lastSequence[voices[v].handle[1]]
    BY DEF TypeOK, VoiceTypes, Sounding
  <2>1. CASE UNCHANGED voices
    BY <2>0, <2>1
  <2>2. CASE voices'[v] \in Voice /\ Keeps(v)
    BY <2>0, <2>2 DEF Keeps
  <2>3. ASSUME NEW command, TakePlay(command), NEW w \in Voices, Starts(w, command)
        PROVE  /\ voices'[v] \in Voice
               /\ voices'[v].active =>
                    /\ voices'[v].handle \in Handles /\ voices'[v].clip # NoClip /\ Timed(voices'[v])
                    /\ voices'[v].handle[2] <= lastSequence[voices'[v].handle[1]]
    <3>1. CASE v = w
      <4>1. /\ command.handle \in Handles /\ command.handle[2] <= lastSequence[command.handle[1]]
            /\ command.clip # NoClip
        BY <2>3, PlayIs
      <4> QED
        BY <2>3, <3>1, <4>1 DEF Starts
    <3>2. CASE v # w
      BY <2>0, <2>3, <3>2 DEF Starts
    <3> QED
      BY <3>1, <3>2
  <2> QED
    BY <1>1, <2>1, <2>2, <2>3
<1>4. VoiceTypes'
  <2>1. PICK f : voices' = [v \in Voices |-> f[v]]
    BY <1>2
  <2>2. \A v \in Voices : f[v] \in Voice
    BY <1>3, <2>1
  <2> QED
    BY <2>1, <2>2 DEF VoiceTypes
<1>5. ASSUME NEW v \in Voices, voices'[v].active
      PROVE  voices'[v].handle[2] <= lastSequence'[voices'[v].handle[1]]
  <2> DEFINE h == voices'[v].handle
  <2>1. h \in Handles /\ h[2] <= lastSequence[h[1]]
    BY <1>3, <1>5
  <2> HIDE DEF h
  <2>2. h[1] \in Submitters /\ h[2] \in Nat
    BY <2>1, Numbers DEF Handles
  <2>3. lastSequence[h[1]] \in Nat /\ lastSequence'[h[1]] \in Nat /\ lastSequence[h[1]] <= lastSequence'[h[1]]
    BY <2>2, SequencesGrow, RingIs
  <2>4. h[2] <= lastSequence'[h[1]]
    BY <2>1, <2>2, <2>3
  <2> QED
    BY <2>4 DEF h
<1> QED
  BY <1>3, <1>4, <1>5 DEF Sounding

-----------------------------------------------------------------------------
(* The leases of the clips.                                                *)

\* The voices on a slot are finitely many.
LEMMA PlayingIs ==
  ASSUME NEW s, NEW i
  PROVE  /\ Playing(s, i) \subseteq Voices /\ IsFiniteSet(Playing(s, i))
         /\ Cardinality(Playing(s, i)) \in 0..Cardinality(Voices)
<1>1. Playing(s, i) \subseteq Voices
  BY DEF Playing
<1>2. IsFiniteSet(Voices) /\ Cardinality(Voices) \in Nat
  BY Numbers
<1>3. IsFiniteSet(Playing(s, i)) /\ Cardinality(Playing(s, i)) <= Cardinality(Voices)
  BY <1>1, <1>2, FS_Subset
<1>4. Cardinality(Playing(s, i)) \in Nat
  BY <1>3, FS_CardinalityType
<1> QED
  BY <1>1, <1>2, <1>3, <1>4

\* The parts of a slot, and where they are kept.
LEMMA SlotIs ==
  ASSUME TypeOK, NEW s \in Submitters, NEW i \in ClipSlots
  PROVE  /\ clip[s][i].state \in {"free", "loaded", "unloading"}
         /\ clip[s][i].generation \in Nat \ {0} /\ clip[s][i].generation <= MaxCommands + 1 /\ clip[s][i].view \in Nat
         /\ lease[s][i].voices \in Nat /\ lease[s][i].unloadTaken \in BOOLEAN
         /\ lease[s][i] = [voices |-> lease[s][i].voices, unloadTaken |-> lease[s][i].unloadTaken]
         /\ handedBack[s][i] \in BOOLEAN
         /\ DOMAIN clip = Submitters /\ DOMAIN clip[s] = ClipSlots
         /\ DOMAIN lease = Submitters /\ DOMAIN lease[s] = ClipSlots
         /\ DOMAIN handedBack = Submitters /\ DOMAIN handedBack[s] = ClipSlots
<1>1. MaxCommands \in Nat /\ Cardinality(Voices) \in Nat
  BY Numbers
<1>2. clip[s] \in [ClipSlots ->
        [state : {"free", "loaded", "unloading"}, generation : 1..(MaxCommands + 1), view : 0..(MaxCommands + 1)]]
  BY DEF TypeOK, ClipTypes
<1>3. lease[s] \in [ClipSlots -> [voices : 0..Cardinality(Voices), unloadTaken : BOOLEAN]]
  BY DEF TypeOK, ClipTypes
<1>4. handedBack[s] \in [ClipSlots -> BOOLEAN]
  BY DEF TypeOK, ClipTypes
<1>5. DOMAIN clip = Submitters /\ DOMAIN lease = Submitters /\ DOMAIN handedBack = Submitters
  BY DEF TypeOK, ClipTypes
<1> QED
  BY <1>1, <1>2, <1>3, <1>4, <1>5

\* Nobody means samples that are not there.
LEMMA Unread ==
  ASSUME TypeOK, Meant, Sounding, NEW s \in Submitters, NEW i \in ClipSlots, LeaseOf(s, i), clip[s][i].view = 0
  PROVE  Naming(s, i) = {} /\ Playing(s, i) = {}
<1>1. ASSUME NEW p \in Naming(s, i)
      PROVE  FALSE
  <2>1. p \in Pending(s) /\ At(s, p).kind \in {"play", "unload"} /\ At(s, p).clip[3] = 0
    BY DEF LeaseOf, Naming
  <2>2. At(s, p).clip[3] \in 1..(MaxCommands + 1)
    BY <2>1, CommandIs
  <2> QED
    BY <2>1, <2>2, Numbers
<1>2. ASSUME NEW v \in Playing(s, i)
      PROVE  FALSE
  <2>1. v \in Voices /\ voices[v].active /\ voices[v].clip[3] = 0
    BY DEF LeaseOf, Playing
  <2>2. voices[v].clip \in Clips /\ voices[v].clip # NoClip
    BY <2>1 DEF Sounding, TypeOK, VoiceTypes, Voice
  <2>3. voices[v].clip \in Submitters \X ClipSlots \X (1..(MaxCommands + 1))
    BY <2>2 DEF Clips
  <2>4. voices[v].clip[3] \in 1..(MaxCommands + 1)
    BY <2>3
  <2> QED
    BY <2>1, <2>4, Numbers
<1> QED
  BY <1>1, <1>2

\* A step that leaves a slot and its voices alone, and takes a command at most.
LEMMA LeaseKept ==
  ASSUME NEW s \in Submitters, NEW i \in ClipSlots, LeaseOf(s, i),
         clip'[s][i] = clip[s][i], lease'[s][i] = lease[s][i], handedBack'[s][i] = handedBack[s][i],
         tail'[s] = tail[s], Playing(s, i)' = Playing(s, i),
         \A v \in Playing(s, i) : voices'[v].clip = voices[v].clip,
         Pending(s)' \subseteq Pending(s), \A p \in Pending(s) : At(s, p)' = At(s, p)
  PROVE  LeaseOf(s, i)'
<1>1. Naming(s, i)' \subseteq Naming(s, i) /\ \A p \in Naming(s, i) : At(s, p)' = At(s, p)
  BY DEF Naming
<1> QED
  BY <1>1 DEF LeaseOf

\* A command that is written names a loaded clip, after all that name it already.
LEMMA SubmitLeases ==
  ASSUME TypeOK, Ends, Meant, Sounding, Leases, NEW s \in Submitters, NEW kind, NEW sequence, NEW named,
         Submits(s, kind, sequence, named)
  PROVE  Leases'
<1> DEFINE c == [kind |-> kind, handle |-> <<s, sequence>>, clip |-> named, n |-> tail[s] + 1]
<1>1. /\ Pending(s)' = Pending(s) \cup {tail[s]}
      /\ \A p \in Pending(s) : p < tail[s] /\ At(s, p)' = At(s, p)
      /\ \A p : p = tail[s] => At(s, p)' = c
      /\ \A r \in Submitters \ {s} : Pending(r)' = Pending(r) /\ \A p \in Pending(r) : At(r, p)' = At(r, p)
  BY WritePends DEF Submits
<1>2. UNCHANGED <<tail, clip, lease, handedBack, voices>>
  BY DEF Submits, Write, clipVars
<1>3. \A r, i : Playing(r, i)' = Playing(r, i)
  BY <1>2 DEF Playing
<1>4. c.kind = kind /\ c.clip = named
  OBVIOUS
<1> HIDE DEF c
<1>5. ASSUME NEW i \in ClipSlots
      PROVE  LeaseOf(s, i)'
  <2>0. LeaseOf(s, i) /\ tail[s] \in Nat
    BY RingIs DEF Leases
  <2>1. CASE kind \in {"play", "unload"} /\ named[2] = i
    <3>1. PICK k \in ClipSlots : Loaded(s, k) /\ named = Named(s, k)
      BY <2>1 DEF Submits
    <3>2. k = i /\ clip[s][i].state = "loaded" /\ named[3] = clip[s][i].generation
      BY <2>1, <3>1 DEF Named, Loaded
    <3>3. Naming(s, i)' = Naming(s, i) \cup {tail[s]}
      <4>1. ASSUME NEW p
            PROVE  p \in Naming(s, i)' <=> p \in Naming(s, i) \cup {tail[s]}
        <5>1. CASE p = tail[s]
          BY <1>1, <1>4, <2>1, <5>1 DEF Naming
        <5>2. CASE p # tail[s]
          BY <1>1, <5>2 DEF Naming
        <5> QED
          BY <5>1, <5>2
      <4> QED
        BY <4>1
    <3>4. \A p \in Naming(s, i) : p < tail[s] /\ At(s, p)' = At(s, p) /\ At(s, p).kind \in {"play", "unload"}
      BY <1>1 DEF Naming
    <3>5. \A p \in Naming(s, i) : At(s, p).kind = "play"
      BY <2>0, <3>2, <3>4 DEF LeaseOf
    <3>6. clip[s][i].view = clip[s][i].generation /\ ~lease[s][i].unloadTaken /\ ~handedBack[s][i]
      BY <2>0, <3>2 DEF LeaseOf
    <3>7. ASSUME NEW p \in Naming(s, i)'
          PROVE  /\ At(s, p)'.clip[3] = clip[s][i].view
                 /\ p < tail[s] => At(s, p)'.kind = "play"
                 /\ p <= tail[s]
      <4>1. CASE p = tail[s]
        BY <1>1, <1>4, <2>0, <3>2, <3>6, <4>1
      <4>2. CASE p \in Naming(s, i)
        <5>1. p \in Nat
          BY <4>2, RingIs DEF Naming
        <5>2. At(s, p).clip[3] = clip[s][i].view
          BY <2>0, <4>2 DEF LeaseOf
        <5> QED
          BY <2>0, <3>4, <3>5, <4>2, <5>1, <5>2
      <4> QED
        BY <3>3, <4>1, <4>2
    <3>8. \A p, q \in Naming(s, i)' : p < q => At(s, p)'.kind = "play"
      <4> SUFFICES ASSUME NEW p \in Naming(s, i)', NEW q \in Naming(s, i)', p < q
                   PROVE  p < tail[s]
        BY <3>7
      <4>1. p \in Nat /\ q \in Nat
        BY <2>0, <3>3, RingIs DEF Naming
      <4> QED
        BY <2>0, <3>7, <4>1
    <3> QED
      BY <1>2, <1>3, <2>0, <3>2, <3>6, <3>7, <3>8 DEF LeaseOf
  <2>2. CASE ~(kind \in {"play", "unload"} /\ named[2] = i)
    <3>1. Naming(s, i)' = Naming(s, i)
      <4>1. ASSUME NEW p
            PROVE  p \in Naming(s, i)' <=> p \in Naming(s, i)
        <5>1. CASE p = tail[s]
          <6>1. p \notin Pending(s)
            BY <1>1, <2>0, <5>1
          <6> QED
            BY <1>1, <1>4, <2>2, <5>1, <6>1 DEF Naming
        <5>2. CASE p # tail[s]
          BY <1>1, <5>2 DEF Naming
        <5> QED
          BY <5>1, <5>2
      <4> QED
        BY <4>1
    <3>2. \A p \in Naming(s, i) : At(s, p)' = At(s, p)
      BY <1>1 DEF Naming
    <3> QED
      BY <1>2, <1>3, <2>0, <3>1, <3>2 DEF LeaseOf
  <2> QED
    BY <2>1, <2>2
<1>6. ASSUME NEW r \in Submitters \ {s}, NEW i \in ClipSlots
      PROVE  LeaseOf(r, i)'
  BY <1>1, <1>2, <1>3, LeaseKept DEF Leases
<1> QED
  BY <1>5, <1>6 DEF Leases

\* The producer's call returns: an unload makes its slot an unloading one.
LEMMA PublishLeases ==
  ASSUME TypeOK, Ends, Meant, Leases, NEW s \in Submitters, Publish(s)
  PROVE  Leases'
<1> DEFINE t == tail[s]
           c == At(s, t)
<1>1. /\ writing[s] /\ tail'[s] = t + 1 /\ t \in Pending(s) /\ t \in Nat
      /\ \A r \in Submitters \ {s} : tail'[r] = tail[r]
      /\ SamePending
  BY PublishPends, RingIs
<1>2. UNCHANGED <<lease, handedBack, voices>>
  BY DEF Publish
<1>3. clip' = IF c.kind # "unload" THEN clip
              ELSE [clip EXCEPT ![s][c.clip[2]].state = "unloading", ![s][c.clip[2]].generation = @ + 1]
  BY DEF Publish, At
<1>4. c.kind \in {"play", "unload"} => c.clip[2] \in ClipSlots
  BY <1>1, CommandIs
<1> HIDE DEF c, t
<1>5. \A r, i : Playing(r, i)' = Playing(r, i)
  BY <1>2 DEF Playing
<1>6. \A r \in Submitters : \A i : Naming(r, i)' = Naming(r, i) /\ \A p \in Naming(r, i) : At(r, p)' = At(r, p)
  BY <1>1 DEF SamePending, Naming
<1>7. \A i \in ClipSlots : \A p \in Naming(s, i) :
        p \in Nat /\ p <= t /\ At(s, p).kind \in {"play", "unload"} /\ At(s, p).clip[2] = i
  <2> SUFFICES ASSUME NEW i \in ClipSlots, NEW p \in Naming(s, i)
               PROVE  p \in Nat /\ p <= t /\ At(s, p).kind \in {"play", "unload"} /\ At(s, p).clip[2] = i
    OBVIOUS
  <2>1. p \in Pending(s) /\ At(s, p).kind \in {"play", "unload"} /\ At(s, p).clip[2] = i
    BY DEF Naming
  <2>2. Cursor(s) \in Nat
    BY RingIs
  <2> QED
    BY <1>1, <2>1, <2>2 DEF Pending, t
<1>8. ASSUME NEW i \in ClipSlots
      PROVE  LeaseOf(s, i)'
  <2>0. LeaseOf(s, i)
    BY DEF Leases
  <2>1. CASE c.kind = "unload" /\ i = c.clip[2]
    <3>1. /\ clip'[s][i].state = "unloading" /\ clip'[s][i].generation = clip[s][i].generation + 1
          /\ clip'[s][i].view = clip[s][i].view
      <4> DEFINE x == [clip[s][i] EXCEPT !.state = "unloading", !.generation = @ + 1]
      <4> DEFINE k == c.clip[2]
      <4>1. clip' = [clip EXCEPT ![s][k].state = "unloading", ![s][k].generation = @ + 1] /\ k = i
        BY <1>3, <2>1
      <4> HIDE DEF k
      <4>2. /\ x.state = "unloading" /\ x.generation = clip[s][i].generation + 1 /\ x.view = clip[s][i].view
        BY DEF TypeOK, ClipTypes
      <4> HIDE DEF x
      <4>3. clip'[s][i] = x
        BY <4>1, SlotIs DEF x
      <4> QED
        BY <4>2, <4>3
    <3>2. t \in Naming(s, i)
      BY <1>1, <2>1 DEF Naming, c
    <3>3. clip[s][i].state = "loaded"
      BY <2>0, <3>2 DEF LeaseOf, t
    <3>4. clip[s][i].view = clip[s][i].generation /\ ~lease[s][i].unloadTaken /\ ~handedBack[s][i]
      BY <2>0, <3>3 DEF LeaseOf
    <3>5. clip[s][i].generation \in Nat \ {0} /\ clip[s][i].generation <= t + 1
      BY <2>0, SlotIs DEF LeaseOf, t
    <3>6. /\ clip'[s][i].generation <= tail'[s] + 1 /\ clip'[s][i].view = clip'[s][i].generation - 1
          /\ clip'[s][i].view # 0
      BY <1>1, <3>1, <3>4, <3>5
    <3>7. \A p \in Naming(s, i) : p # tail'[s]
      BY <1>1, <1>7
    <3> QED
      BY <1>2, <1>5, <1>6, <2>0, <3>1, <3>4, <3>6, <3>7 DEF LeaseOf
  <2>2. CASE ~(c.kind = "unload" /\ i = c.clip[2])
    <3>1. clip'[s][i] = clip[s][i]
      <4>1. CASE c.kind # "unload"
        BY <1>3, <4>1
      <4>2. CASE c.kind = "unload" /\ i # c.clip[2]
        BY <1>3, <4>2, SlotIs
      <4> QED
        BY <2>2, <4>1, <4>2
    <3>2. \A p \in Naming(s, i) :
            p # tail'[s] /\ (p < tail'[s] /\ At(s, p).kind = "unload" => clip[s][i].state = "unloading")
      <4> SUFFICES ASSUME NEW p \in Naming(s, i)
                   PROVE  /\ p # tail'[s]
                          /\ p < tail'[s] /\ At(s, p).kind = "unload" => clip[s][i].state = "unloading"
        OBVIOUS
      <4>1. p \in Nat /\ p <= t /\ At(s, p).clip[2] = i
        BY <1>7
      <4>2. p = t => At(s, p).kind # "unload"
        BY <2>2, <4>1 DEF c
      <4> QED
        BY <1>1, <2>0, <4>1, <4>2 DEF LeaseOf, t
    <3>3. clip[s][i].generation \in Nat /\ clip[s][i].generation <= tail'[s] + 1
      <4>1. clip[s][i].generation <= t + 1
        BY <2>0 DEF LeaseOf, t
      <4>2. clip[s][i].generation \in Nat
        BY SlotIs
      <4> QED
        BY <1>1, <4>1, <4>2
    <3> QED
      BY <1>2, <1>5, <1>6, <2>0, <3>1, <3>2, <3>3 DEF LeaseOf
  <2> QED
    BY <2>1, <2>2
<1>9. ASSUME NEW r \in Submitters \ {s}, NEW i \in ClipSlots
      PROVE  LeaseOf(r, i)'
  <2>1. clip'[r][i] = clip[r][i]
    BY <1>3, SlotIs
  <2>2. Pending(r)' = Pending(r) /\ \A p \in Pending(r) : At(r, p)' = At(r, p)
    BY <1>1 DEF SamePending
  <2>3. LeaseOf(r, i) /\ tail'[r] = tail[r] /\ lease'[r][i] = lease[r][i] /\ handedBack'[r][i] = handedBack[r][i]
    BY <1>1, <1>2 DEF Leases
  <2>4. Playing(r, i)' = Playing(r, i) /\ \A v \in Playing(r, i) : voices'[v].clip = voices[v].clip
    BY <1>2, <1>5
  <2> QED
    BY <2>1, <2>2, <2>3, <2>4, LeaseKept
<1> QED
  BY <1>8, <1>9 DEF Leases

\* What a load may do to a slot: nothing; free it once it is handed back; and then it may
\* fill it with samples of its generation.
LEMMA LoadIs ==
  ASSUME TypeOK, NEW s \in Submitters, LoadClip(s), NEW i \in ClipSlots
  PROVE  /\ handedBack'[s][i] = IF i \in Reclaimed(s) THEN FALSE ELSE handedBack[s][i]
         /\ clip'[s][i].generation = clip[s][i].generation
         /\ \/ i \notin Reclaimed(s) /\ clip'[s][i] = clip[s][i]
            \/ i \in Reclaimed(s) /\ clip'[s][i].state = "free" /\ clip'[s][i].view = 0
            \/ /\ i \in Reclaimed(s) \/ clip[s][i].state = "free"
               /\ clip'[s][i].state = "loaded" /\ clip'[s][i].view = clip[s][i].generation
<1> DEFINE after == [k \in ClipSlots |-> IF k \in Reclaimed(s)
                       THEN [clip[s][k] EXCEPT !.state = "free", !.view = 0] ELSE clip[s][k]]
           free == {k \in ClipSlots : after[k].state = "free"}
           m == Min(free)
           c == clip[s][i]
<1>1. /\ handedBack' = [handedBack EXCEPT ![s] = [k \in ClipSlots |-> @[k] /\ k \notin Reclaimed(s)]]
      /\ \/ clip' = [clip EXCEPT ![s] = after]
         \/ /\ free # {}
            /\ clip' = [clip EXCEPT ![s] = [after EXCEPT ![m].state = "loaded", ![m].view = after[m].generation]]
  BY DEF LoadClip
<1>2. handedBack'[s][i] = IF i \in Reclaimed(s) THEN FALSE ELSE handedBack[s][i]
  <2>1. handedBack'[s][i] = (handedBack[s][i] /\ i \notin Reclaimed(s))
    BY <1>1, SlotIs
  <2>2. handedBack[s][i] \in BOOLEAN
    BY SlotIs
  <2> QED
    BY <2>1, <2>2
<1>3. after[i] = IF i \in Reclaimed(s) THEN [c EXCEPT !.state = "free", !.view = 0] ELSE c
  OBVIOUS
<1>4. DOMAIN after = ClipSlots
  OBVIOUS
<1>5. c \in [state : {"free", "loaded", "unloading"}, generation : 1..(MaxCommands + 1), view : 0..(MaxCommands + 1)]
  BY DEF TypeOK, ClipTypes
<1>6. DOMAIN clip = Submitters
  BY SlotIs
<1> HIDE DEF c
<1>7. /\ after[i].generation = c.generation
      /\ i \in Reclaimed(s) => after[i].state = "free" /\ after[i].view = 0
      /\ i \notin Reclaimed(s) => after[i] = c
      /\ after[i] = [state |-> after[i].state, generation |-> after[i].generation, view |-> after[i].view]
  <2> DEFINE f == [c EXCEPT !.state = "free", !.view = 0]
  <2>1. /\ f.state = "free" /\ f.view = 0 /\ f.generation = c.generation
        /\ f = [state |-> f.state, generation |-> f.generation, view |-> f.view]
    <3>1. 0 \in 0..(MaxCommands + 1)
      BY Numbers
    <3>2. f \in [state : {"free", "loaded", "unloading"}, generation : 1..(MaxCommands + 1), view : 0..(MaxCommands + 1)]
      BY <1>5, <3>1
    <3>3. f.state = "free" /\ f.view = 0 /\ f.generation = c.generation
      BY <1>5
    <3> HIDE DEF f
    <3> QED
      BY <3>2, <3>3
  <2>2. after[i] = IF i \in Reclaimed(s) THEN f ELSE c
    BY <1>3
  <2> HIDE DEF f, after
  <2> QED
    BY <1>5, <2>1, <2>2
<1>8. CASE clip' = [clip EXCEPT ![s] = after]
  <2>1. clip'[s][i] = after[i]
    BY <1>6, <1>8
  <2> HIDE DEF after
  <2> QED
    BY <1>2, <1>7, <2>1 DEF c
<1>9. CASE /\ free # {}
           /\ clip' = [clip EXCEPT ![s] = [after EXCEPT ![m].state = "loaded", ![m].view = after[m].generation]]
  <2>1. m \in free
    BY <1>9, MinIn, Numbers
  <2> HIDE DEF m
  <2>2. clip'[s] = [after EXCEPT ![m].state = "loaded", ![m].view = after[m].generation]
    BY <1>6, <1>9
  <2>3. i = m => after[i].state = "free"
    BY <2>1
  <2> HIDE DEF after, free
  <2>4. CASE i # m
    <3>1. clip'[s][i] = after[i]
      BY <1>4, <2>2, <2>4
    <3> QED
      BY <1>2, <1>7, <3>1 DEF c
  <2>5. CASE i = m
    <3> DEFINE x == after[i]
    <3>1. clip'[s][i] = [x EXCEPT !.state = "loaded", !.view = x.generation]
      BY <1>4, <2>2, <2>5
    <3>2. x = [state |-> x.state, generation |-> x.generation, view |-> x.view] /\ x.generation = c.generation
      BY <1>7
    <3> HIDE DEF x
    <3>3. /\ clip'[s][i].state = "loaded" /\ clip'[s][i].generation = c.generation
          /\ clip'[s][i].view = c.generation
      BY <3>1, <3>2
    <3>4. i \in Reclaimed(s) \/ c.state = "free"
      BY <1>7, <2>3, <2>5
    <3> QED
      BY <1>2, <3>3, <3>4 DEF c
  <2> QED
    BY <2>4, <2>5
<1> QED
  BY <1>1, <1>8, <1>9

\* A slot that is freed or loaded has no voice and no command.
LEMMA LoadLeases ==
  ASSUME TypeOK, Ends, Meant, Sounding, Leases, NEW s \in Submitters, LoadClip(s)
  PROVE  Leases'
<1>1. UNCHANGED <<ringVars, lease, audio, voices>> /\ SamePending
  BY Undisturbed DEF LoadClip
<1>2. \A r, i : Playing(r, i)' = Playing(r, i)
  BY <1>1 DEF Playing
<1>3. \A r \in Submitters : \A i : Naming(r, i)' = Naming(r, i) /\ \A p \in Naming(r, i) : At(r, p)' = At(r, p)
  BY <1>1 DEF SamePending, Naming
<1>4. ASSUME NEW i \in ClipSlots
      PROVE  LeaseOf(s, i)'
  <2> DEFINE c == clip[s][i]
             d == clip'[s][i]
             back == c.state = "unloading" /\ handedBack[s][i]
  <2>0. LeaseOf(s, i) /\ tail' = tail
    BY <1>1 DEF Leases, ringVars
  <2>1. /\ back <=> i \in Reclaimed(s)
        /\ handedBack'[s][i] = IF back THEN FALSE ELSE handedBack[s][i]
        /\ d.generation = c.generation
        /\ \/ ~back /\ d = c
           \/ back /\ d.state = "free" /\ d.view = 0
           \/ /\ back \/ c.state = "free"
              /\ d.state = "loaded" /\ d.view = c.generation
    <3>1. back <=> i \in Reclaimed(s)
      BY DEF Reclaimed
    <3> HIDE DEF back
    <3> QED
      BY <3>1, LoadIs
  <2>2. CASE ~back /\ d = c
    <3>1. handedBack'[s][i] = handedBack[s][i]
      BY <2>1, <2>2
    <3> QED
      BY <1>1, <1>2, <1>3, <2>0, <2>2, <3>1 DEF LeaseOf
  <2>3. CASE d # c /\ (back \/ c.state = "free")
    <3>1. Naming(s, i) = {} /\ Playing(s, i) = {} /\ ~lease[s][i].unloadTaken /\ ~handedBack'[s][i]
      <4>1. CASE back
        BY <2>0, <2>1, <4>1 DEF LeaseOf
      <4>2. CASE c.state = "free"
        <5>1. c.view = 0 /\ ~lease[s][i].unloadTaken /\ ~handedBack[s][i]
          BY <2>0, <4>2 DEF LeaseOf
        <5>2. Naming(s, i) = {} /\ Playing(s, i) = {}
          BY <2>0, <5>1, Unread
        <5> QED
          BY <2>1, <5>1, <5>2
      <4> QED
        BY <2>3, <4>1, <4>2
    <3>2. /\ d.generation = c.generation
          /\ \/ d.state = "free" /\ d.view = 0
             \/ d.state = "loaded" /\ d.view = c.generation
      <4> HIDE DEF c, d, back
      <4> QED
        BY <2>1, <2>3
    <3>3. lease'[s][i] = lease[s][i]
      BY <1>1
    <3> HIDE DEF back
    <3> QED
      BY <1>2, <1>3, <2>0, <3>1, <3>2, <3>3 DEF LeaseOf
  <2>4. back => d # c
    <3> HIDE DEF c, d
    <3>1. back => d.state \in {"free", "loaded"}
      BY <2>1
    <3> QED
      BY <3>1
  <2> HIDE DEF back, c, d
  <2> QED
    BY <2>1, <2>2, <2>3, <2>4
<1>5. ASSUME NEW r \in Submitters \ {s}, NEW i \in ClipSlots
      PROVE  LeaseOf(r, i)'
  <2>1. clip'[r] = clip[r] /\ handedBack'[r] = handedBack[r]
    <3>1. (\E x : clip' = [clip EXCEPT ![s] = x]) /\ (\E x : handedBack' = [handedBack EXCEPT ![s] = x])
      BY DEF LoadClip
    <3>2. DOMAIN clip = Submitters /\ DOMAIN handedBack = Submitters
      BY DEF TypeOK, ClipTypes
    <3> QED
      BY <3>1, <3>2
  <2>2. Pending(r)' = Pending(r) /\ \A p \in Pending(r) : At(r, p)' = At(r, p)
    BY <1>1 DEF SamePending
  <2>3. LeaseOf(r, i) /\ tail'[r] = tail[r] /\ lease'[r][i] = lease[r][i]
    BY <1>1 DEF Leases, ringVars
  <2>4. Playing(r, i)' = Playing(r, i) /\ \A v \in Playing(r, i) : voices'[v].clip = voices[v].clip
    BY <1>1, <1>2
  <2> QED
    BY <2>1, <2>2, <2>3, <2>4, LeaseKept
<1> QED
  BY <1>4, <1>5 DEF Leases

\* A play that sounds is one more voice on the lease of its clip.
LEMMA PlayLeases ==
  ASSUME TypeOK, Ends, Meant, Sounding, Leases, NEW command, TakePlay(command)
  PROVE  Leases'
<1>1. /\ UNCHANGED <<clip, handedBack, tail>>
      /\ \A r \in Submitters : Pending(r)' \subseteq Pending(r) /\ \A p \in Pending(r) : At(r, p)' = At(r, p)
  <2>1. UNCHANGED <<clip, handedBack, tail>>
    BY DEF TakePlay, Taking, ringVars
  <2>2. /\ \A r \in Submitters : Pending(r)' \subseteq Pending(r)
        /\ \A r \in Submitters : \A p : At(r, p)' = At(r, p)
    BY TakingPends DEF TakePlay
  <2> QED
    BY <2>1, <2>2
<1>2. CASE UNCHANGED <<voices, lease>>
  <2>1. \A r, i : Playing(r, i)' = Playing(r, i)
    BY <1>2 DEF Playing
  <2> QED
    BY <1>1, <1>2, <2>1, LeaseKept DEF Leases
<1>3. ASSUME NEW v \in Voices, Starts(v, command)
      PROVE  Leases'
  <2>1. PICK s \in Submitters : \E h \in Pending(s) : command = At(s, h) /\ command.kind = "play"
    BY TakingPends DEF TakePlay
  <2>8. PICK h \in Pending(s) : command = At(s, h) /\ command.kind = "play"
    BY <2>1
  <2>2. PICK k \in ClipSlots : command.clip[1] = s /\ command.clip[2] = k
    BY <2>8, CommandIs
  <2>3. h \in Naming(s, k)
    BY <2>2, <2>8 DEF Naming
  <2>4. /\ voices'[v].active /\ voices'[v].clip = command.clip /\ ~voices[v].active
        /\ \A w \in Voices \ {v} : voices'[w] = voices[w]
        /\ lease' = [lease EXCEPT ![s][k].voices = @ + 1]
    BY <1>3, <2>2 DEF Starts, Leased
  <2>5. ASSUME NEW r \in Submitters, NEW i \in ClipSlots, ~(r = s /\ i = k)
        PROVE  LeaseOf(r, i)'
    <3>1. Playing(r, i)' = Playing(r, i) /\ \A w \in Playing(r, i) : voices'[w].clip = voices[w].clip
      BY <2>2, <2>4, <2>5 DEF Playing
    <3>2. lease'[r][i] = lease[r][i]
      BY <2>4, <2>5, SlotIs
    <3>3. LeaseOf(r, i) /\ clip'[r][i] = clip[r][i] /\ handedBack'[r][i] = handedBack[r][i] /\ tail'[r] = tail[r]
      BY <1>1 DEF Leases
    <3> QED
      BY <1>1, <3>1, <3>2, <3>3, LeaseKept
  <2>6. LeaseOf(s, k)'
    <3>0. LeaseOf(s, k)
      BY <2>1, <2>2 DEF Leases
    <3>1. Playing(s, k)' = Playing(s, k) \cup {v} /\ v \notin Playing(s, k)
      BY <2>2, <2>4 DEF Playing
    <3>2. IsFiniteSet(Playing(s, k)) /\ Cardinality(Playing(s, k)) \in Nat
      BY PlayingIs, FS_CardinalityType
    <3>3. Cardinality(Playing(s, k) \cup {v}) = Cardinality(Playing(s, k)) + 1
      BY <3>1, <3>2, FS_AddElement
    <3>4. lease'[s][k].voices = lease[s][k].voices + 1 /\ lease'[s][k].unloadTaken = lease[s][k].unloadTaken
      <4> DEFINE l == lease[s][k]
                 m == [l EXCEPT !.voices = @ + 1]
      <4>1. l = [voices |-> l.voices, unloadTaken |-> l.unloadTaken] /\ DOMAIN lease = Submitters /\ DOMAIN lease[s] = ClipSlots
        BY <2>1, <2>2, SlotIs
      <4>2. m.voices = l.voices + 1 /\ m.unloadTaken = l.unloadTaken
        <5> HIDE DEF l
        <5> QED
          BY <4>1
      <4>3. lease'[s][k] = m
        BY <2>1, <2>2, <2>4, <4>1
      <4> HIDE DEF l, m
      <4> QED
        BY <4>2, <4>3 DEF l
    <3>5. ~lease[s][k].unloadTaken /\ ~handedBack[s][k] /\ command.clip[3] = clip[s][k].view
      BY <2>8, <2>3, <3>0 DEF LeaseOf
    <3>6. \A w \in Playing(s, k)' : voices'[w].clip[3] = clip[s][k].view
      <4> SUFFICES ASSUME NEW w \in Playing(s, k)'
                   PROVE  voices'[w].clip[3] = clip[s][k].view
        OBVIOUS
      <4>1. CASE w = v
        BY <2>4, <3>5, <4>1
      <4>2. CASE w # v
        BY <2>4, <3>0, <3>1, <4>2 DEF LeaseOf, Playing
      <4> QED
        BY <4>1, <4>2
    <3>7. Naming(s, k)' \subseteq Naming(s, k) /\ \A p \in Naming(s, k) : At(s, p)' = At(s, p)
      BY <1>1, <2>1 DEF Naming
    <3> QED
      BY <1>1, <3>0, <3>1, <3>3, <3>4, <3>5, <3>6, <3>7 DEF LeaseOf
  <2>7. \A r \in Submitters : \A i \in ClipSlots : LeaseOf(r, i)'
    BY <2>5, <2>6
  <2> QED
    BY <2>7 DEF Leases
<1> QED
  BY <1>2, <1>3, PlayStarts

\* The unload is the last command to name its clip: the slot is handed back, or is when its
\* last voice ends.
LEMMA UnloadLeases ==
  ASSUME TypeOK, Ends, Meant, Leases, NEW command, TakeUnload(command)
  PROVE  Leases'
<1>1. /\ UNCHANGED <<clip, tail, voices>>
      /\ \A r \in Submitters : Pending(r)' \subseteq Pending(r) /\ \A p \in Pending(r) : At(r, p)' = At(r, p)
  <2>1. UNCHANGED <<clip, tail, voices>>
    BY DEF TakeUnload, Taking, ringVars
  <2>2. /\ \A r \in Submitters : Pending(r)' \subseteq Pending(r)
        /\ \A r \in Submitters : \A p : At(r, p)' = At(r, p)
    BY TakingPends DEF TakeUnload
  <2> QED
    BY <2>1, <2>2
<1>11. PICK s \in Submitters : s = audio.s
  BY AudioIs
<1>12. PICK h \in Pending(s) : h = audio.h
  BY <1>11, TakingPends DEF TakeUnload
<1>2. /\ command = At(s, h) /\ command.kind = "unload" /\ h < tail[s]
      /\ \A p \in Pending(s) : h <= p
      /\ \A r \in Submitters : Pending(r)' = IF r = s THEN Pending(r) \ {h} ELSE Pending(r)
  BY <1>11, <1>12, TakingPends DEF TakeUnload
<1>3. /\ lease[command.clip[1]][command.clip[2]].voices = 0 =>
           /\ lease' = [lease EXCEPT ![command.clip[1]][command.clip[2]] = Fresh]
           /\ handedBack' = [handedBack EXCEPT ![command.clip[1]][command.clip[2]] = TRUE]
      /\ lease[command.clip[1]][command.clip[2]].voices # 0 =>
           /\ lease' = [lease EXCEPT ![command.clip[1]][command.clip[2]].unloadTaken = TRUE]
           /\ UNCHANGED handedBack
  BY DEF TakeUnload
<1>4. PICK k \in ClipSlots : command.clip[1] = s /\ command.clip[2] = k
  BY <1>2, CommandIs
<1>5. h \in Naming(s, k)
  BY <1>2, <1>4 DEF Naming
<1>6. /\ lease[s][k].voices = 0 => /\ lease' = [lease EXCEPT ![s][k] = Fresh]
                                   /\ handedBack' = [handedBack EXCEPT ![s][k] = TRUE]
      /\ lease[s][k].voices # 0 => lease' = [lease EXCEPT ![s][k].unloadTaken = TRUE] /\ UNCHANGED handedBack
  BY <1>3, <1>4
<1>7. \A r, i : Playing(r, i)' = Playing(r, i)
  BY <1>1 DEF Playing
<1>8. ASSUME NEW r \in Submitters, NEW i \in ClipSlots, ~(r = s /\ i = k)
      PROVE  LeaseOf(r, i)'
  <2>1. lease'[r][i] = lease[r][i] /\ handedBack'[r][i] = handedBack[r][i]
    <3>0. /\ DOMAIN lease = Submitters /\ DOMAIN lease[s] = ClipSlots
          /\ DOMAIN handedBack = Submitters /\ DOMAIN handedBack[s] = ClipSlots
      BY SlotIs
    <3>1. CASE lease[s][k].voices = 0
      <4>1. lease' = [lease EXCEPT ![s][k] = Fresh] /\ handedBack' = [handedBack EXCEPT ![s][k] = TRUE]
        BY <1>6, <3>1
      <4> QED
        BY <1>8, <3>0, <4>1
    <3>2. CASE lease[s][k].voices # 0
      <4>1. lease' = [lease EXCEPT ![s][k].unloadTaken = TRUE] /\ UNCHANGED handedBack
        BY <1>6, <3>2
      <4> QED
        BY <1>8, <3>0, <4>1
    <3> QED
      BY <3>1, <3>2
  <2>2. LeaseOf(r, i) /\ clip'[r][i] = clip[r][i] /\ tail'[r] = tail[r]
    BY <1>1 DEF Leases
  <2>3. Playing(r, i)' = Playing(r, i) /\ \A w \in Playing(r, i) : voices'[w].clip = voices[w].clip
    BY <1>1, <1>7
  <2> QED
    BY <1>1, <2>1, <2>2, <2>3, LeaseKept
<1>9. LeaseOf(s, k)'
  <2>0. LeaseOf(s, k)
    BY <1>2, <1>4 DEF Leases
  <2>1. Naming(s, k)' = {}
    <3> SUFFICES ASSUME NEW p \in Naming(s, k)'
                 PROVE  FALSE
      OBVIOUS
    <3>1. p \in Pending(s) /\ p # h /\ p \in Naming(s, k)
      BY <1>1, <1>2 DEF Naming
    <3>2. h < p
      BY <1>2, <3>1, RingIs
    <3>3. At(s, h).kind = "play"
      BY <1>5, <2>0, <3>1, <3>2 DEF LeaseOf
    <3> QED
      BY <1>2, <3>3
  <2>2. clip[s][k].state = "unloading" /\ ~lease[s][k].unloadTaken /\ ~handedBack[s][k]
    BY <1>2, <1>5, <2>0 DEF LeaseOf
  <2>3. Playing(s, k)' = Playing(s, k) /\ clip'[s][k] = clip[s][k] /\ tail'[s] = tail[s]
        /\ \A w \in Playing(s, k) : voices'[w].clip = voices[w].clip
    BY <1>1, <1>7
  <2>4. CASE lease[s][k].voices = 0
    <3>1. lease'[s][k] = Fresh /\ handedBack'[s][k]
      <4>0. /\ DOMAIN lease = Submitters /\ DOMAIN lease[s] = ClipSlots
            /\ DOMAIN handedBack = Submitters /\ DOMAIN handedBack[s] = ClipSlots
        BY SlotIs
      <4>1. lease' = [lease EXCEPT ![s][k] = Fresh] /\ handedBack' = [handedBack EXCEPT ![s][k] = TRUE]
        BY <1>6, <2>4
      <4> QED
        BY <4>0, <4>1
    <3>2. Cardinality(Playing(s, k)) = 0
      BY <2>0, <2>4 DEF LeaseOf
    <3>3. Playing(s, k) = {}
      BY <3>2, PlayingIs, FS_EmptySet
    <3>4. Fresh.voices = 0 /\ ~Fresh.unloadTaken
      BY DEF Fresh
    <3> QED
      BY <2>0, <2>1, <2>2, <2>3, <3>1, <3>2, <3>3, <3>4 DEF LeaseOf
  <2>5. CASE lease[s][k].voices # 0
    <3>1. handedBack'[s][k] = handedBack[s][k]
      BY <1>6, <2>5
    <3>2. lease'[s][k].voices = lease[s][k].voices
      <4> DEFINE l == lease[s][k]
                 m == [l EXCEPT !.unloadTaken = TRUE]
      <4>1. l = [voices |-> l.voices, unloadTaken |-> l.unloadTaken] /\ DOMAIN lease = Submitters /\ DOMAIN lease[s] = ClipSlots
        BY <1>2, <1>4, SlotIs
      <4>2. m.voices = l.voices
        <5> HIDE DEF l
        <5> QED
          BY <4>1
      <4>3. lease'[s][k] = m
        BY <1>2, <1>4, <1>6, <2>5, <4>1
      <4> HIDE DEF l, m
      <4> QED
        BY <4>2, <4>3 DEF l
    <3> QED
      BY <2>0, <2>1, <2>2, <2>3, <3>1, <3>2 DEF LeaseOf
  <2> QED
    BY <2>4, <2>5, <1>2, <1>4, SlotIs
<1>10. \A r \in Submitters : \A i \in ClipSlots : LeaseOf(r, i)'
  BY <1>8, <1>9
<1> QED
  BY <1>10 DEF Leases

\* The voices that end leave the lease; the last one of a clip that was unloaded hands it back.
LEMMA ReleaseLeases ==
  ASSUME TypeOK, Leases, NEW ending,
         ending = {v \in Voices : voices[v].active /\ ~voices'[v].active}, \A v \in Voices : Keeps(v),
         Release(ending), UNCHANGED <<clip, tail>>,
         \A r \in Submitters : Pending(r)' \subseteq Pending(r) /\ \A p \in Pending(r) : At(r, p)' = At(r, p)
  PROVE  Leases'
<1> SUFFICES ASSUME NEW s \in Submitters, NEW i \in ClipSlots
             PROVE  LeaseOf(s, i)'
  BY DEF Leases
<1> DEFINE gone == {v \in ending : voices[v].clip[1] = s /\ voices[v].clip[2] = i}
           l == lease[s][i]
           left == l.voices - Cardinality(gone)
           returned == left = 0 /\ l.voices # 0 /\ l.unloadTaken
<1>0. LeaseOf(s, i)
  BY DEF Leases
<1>1. /\ lease'[s][i] = IF returned THEN Fresh ELSE [l EXCEPT !.voices = left]
      /\ handedBack'[s][i] = (handedBack[s][i] \/ returned)
  BY DEF Release
<1>2. gone \subseteq Playing(s, i) /\ Playing(s, i)' = Playing(s, i) \ gone
  <2>1. gone \subseteq Playing(s, i)
    BY DEF Playing
  <2>2. ASSUME NEW v \in Voices
        PROVE  v \in Playing(s, i)' <=> v \in Playing(s, i) \ gone
    <3>1. Keeps(v)
      OBVIOUS
    <3> QED
      BY <3>1 DEF Playing, Keeps
  <2>3. Playing(s, i)' \subseteq Voices /\ Playing(s, i) \subseteq Voices
    BY DEF Playing
  <2> QED
    BY <2>1, <2>2, <2>3
<1> HIDE DEF gone
<1>3. left = Cardinality(Playing(s, i)') /\ left \in Nat
  <2> DEFINE P == Playing(s, i)
  <2>1. IsFiniteSet(P)
    BY PlayingIs
  <2>2. Cardinality(P \ gone) = Cardinality(P) - Cardinality(P \cap gone) /\ IsFiniteSet(P \ gone)
    BY <2>1, FS_Difference
  <2>3. P \cap gone = gone
    BY <1>2
  <2>4. l.voices = Cardinality(P)
    BY <1>0 DEF LeaseOf
  <2>5. Cardinality(P \ gone) \in Nat
    BY <2>2, FS_CardinalityType
  <2> QED
    BY <1>2, <2>2, <2>3, <2>4, <2>5
<1>4. Naming(s, i)' \subseteq Naming(s, i) /\ \A p \in Naming(s, i) : At(s, p)' = At(s, p)
  BY DEF Naming
<1>5. \A v \in Playing(s, i)' : voices'[v].clip[3] = clip[s][i].view
  <2> SUFFICES ASSUME NEW v \in Playing(s, i)'
               PROVE  voices'[v].clip[3] = clip[s][i].view
    OBVIOUS
  <2>1. v \in Playing(s, i) /\ voices[v].clip[3] = clip[s][i].view
    BY <1>0, <1>2 DEF LeaseOf
  <2>2. v \in Voices /\ voices'[v].active /\ Keeps(v)
    BY DEF Playing
  <2> QED
    BY <2>1, <2>2 DEF Keeps
<1>6. clip'[s][i] = clip[s][i] /\ tail'[s] = tail[s]
  OBVIOUS
<1> HIDE DEF left
<1>7. CASE returned
  <2>1. lease'[s][i] = Fresh /\ handedBack'[s][i] /\ l.unloadTaken /\ left = 0
    BY <1>1, <1>7
  <2>2. Playing(s, i)' = {}
    <3>1. IsFiniteSet(Playing(s, i)')
      BY <1>2, PlayingIs, FS_Subset
    <3> QED
      BY <1>3, <2>1, <3>1, FS_EmptySet
  <2>3. clip[s][i].state = "unloading" /\ Naming(s, i) = {}
    BY <1>0, <2>1 DEF LeaseOf
  <2>4. Fresh.voices = 0 /\ ~Fresh.unloadTaken
    BY DEF Fresh
  <2> QED
    BY <1>0, <1>3, <1>4, <1>5, <1>6, <2>1, <2>2, <2>3, <2>4 DEF LeaseOf
<1>8. CASE ~returned
  <2>1. lease'[s][i].voices = left /\ lease'[s][i].unloadTaken = l.unloadTaken
    <3>1. l = [voices |-> l.voices, unloadTaken |-> l.unloadTaken]
      BY SlotIs
    <3> HIDE DEF l, returned
    <3> QED
      BY <1>1, <1>8, <3>1
  <2>2. handedBack'[s][i] = handedBack[s][i]
    <3>1. handedBack[s][i] \in BOOLEAN
      BY SlotIs
    <3> HIDE DEF returned
    <3> QED
      BY <1>1, <1>8, <3>1
  <2> QED
    BY <1>0, <1>2, <1>3, <1>4, <1>5, <1>6, <2>1, <2>2 DEF LeaseOf
<1> QED
  BY <1>7, <1>8

\* The leases of every slot, whichever step is taken.
LEMMA NextLeases ==
  ASSUME TypeOK, Ends, Meant, Sounding, Leases, [Next]_vars
  PROVE  Leases'
<1>1. ASSUME NEW s \in Submitters, NEW kind, NEW sequence, NEW named, Submits(s, kind, sequence, named)
      PROVE  Leases'
  BY <1>1, SubmitLeases
<1>2. ASSUME NEW s \in Submitters, Publish(s) \/ LoadClip(s)
      PROVE  Leases'
  BY <1>2, PublishLeases, LoadLeases
<1>3. ASSUME NEW command, TakeStop(command)
      PROVE  Leases'
  <2>1. UNCHANGED <<clip, tail>> /\ Taking(command)
    BY <1>3 DEF TakeStop, Taking, ringVars
  <2>2. \A r \in Submitters : Pending(r)' \subseteq Pending(r) /\ \A p \in Pending(r) : At(r, p)' = At(r, p)
    BY <2>1, TakingPends
  <2>3. PICK at \in 0..MaxAhead :
          LET ending == {v \in Stopped(command) : at <= Most(voices[v].start, 0)}
          IN /\ Release(ending)
             /\ voices' = [v \in Voices |->
                  IF v \in ending THEN IdleVoice
                  ELSE IF v \in Stopped(command) THEN [voices[v] EXCEPT !.stop = Least(@, at)]
                  ELSE voices[v]]
    BY <1>3 DEF TakeStop
  <2> DEFINE ending == {v \in Stopped(command) : at <= Most(voices[v].start, 0)}
  <2>4. \A v \in Voices : Keeps(v)
    BY <1>3, StopKeeps
  <2>5. ending = {v \in Voices : voices[v].active /\ ~voices'[v].active}
    <3>1. ASSUME NEW v \in Voices
          PROVE  v \in ending <=> voices[v].active /\ ~voices'[v].active
      <4>1. CASE v \in ending
        BY <2>3, <4>1 DEF IdleVoice, Stopped
      <4>2. CASE v \notin ending /\ v \in Stopped(command)
        <5>1. voices'[v] = [voices[v] EXCEPT !.stop = Least(@, at)] /\ voices[v] \in Voice
          BY <2>3, <4>2 DEF TypeOK, VoiceTypes
        <5>2. voices'[v].active = voices[v].active
          BY <5>1 DEF Voice
        <5> QED
          BY <4>2, <5>2
      <4>3. CASE v \notin Stopped(command)
        <5>1. voices'[v] = voices[v] /\ v \notin ending
          BY <2>3, <4>3
        <5> QED
          BY <5>1
      <4> QED
        BY <4>1, <4>2, <4>3
    <3>2. ending \subseteq Voices
      BY DEF Stopped
    <3> QED
      BY <3>1, <3>2
  <2>6. Release(ending)
    BY <2>3
  <2> HIDE DEF ending
  <2> QED
    BY <2>1, <2>2, <2>4, <2>5, <2>6, ReleaseLeases
<1>4. ASSUME Mix
      PROVE  Leases'
  <2>1. UNCHANGED <<clip, tail>>
    BY <1>4 DEF Mix, ringVars
  <2>2. \A r \in Submitters : Pending(r)' \subseteq Pending(r) /\ \A p \in Pending(r) : At(r, p)' = At(r, p)
    BY <1>4, Undisturbed DEF SamePending
  <2>3. PICK n \in 1..MaxBlock :
          /\ voices' = [v \in Voices |-> Rendered(voices[v], n)]
          /\ Release({v \in Voices : voices[v].active /\ ~Rendered(voices[v], n).active})
    BY <1>4 DEF Mix
  <2>4. \A v \in Voices : Keeps(v)
    BY <1>4, MixKeeps
  <2>5. {v \in Voices : voices[v].active /\ ~Rendered(voices[v], n).active}
        = {v \in Voices : voices[v].active /\ ~voices'[v].active}
    BY <2>3
  <2> QED
    BY <2>1, <2>2, <2>3, <2>4, <2>5, ReleaseLeases
<1>5. ASSUME LoadTail \/ StoreHead \/ Publishes \/ Looks \/ UNCHANGED vars
      PROVE  Leases'
  <2>1. UNCHANGED <<clipVars, voices, tail>> /\ SamePending
    BY <1>5, Undisturbed, Alone DEF clipVars
  <2>2. \A r, i : Playing(r, i)' = Playing(r, i)
    BY <2>1 DEF Playing
  <2> QED
    BY <2>1, <2>2, LeaseKept DEF Leases, SamePending, clipVars
<1>6. ASSUME NEW command, Takes(command)
      PROVE  Leases'
  BY <1>3, <1>6, PlayLeases, UnloadLeases DEF Takes
<1> QED
  BY <1>1, <1>2, <1>4, <1>5, <1>6, Steps

-----------------------------------------------------------------------------
(* Types.                                                                  *)

\* The rings.
LEMMA NextRingTypes ==
  ASSUME TypeOK, Ends, [Next]_vars
  PROVE  RingTypes'
<1> DEFINE Cell == Commands \cup {NoCommand}
<1>0. /\ ring \in [Submitters -> [0..(Capacity - 1) -> Cell]]
      /\ tail \in [Submitters -> 0..MaxCommands] /\ head \in [Submitters -> 0..MaxCommands]
      /\ writing \in [Submitters -> BOOLEAN] /\ lastSequence \in [Submitters -> 0..MaxCommands]
      /\ \A s \in Submitters : tail[s] - head[s] \in 0..Capacity
      /\ MaxCommands \in Nat /\ Capacity \in Nat
  BY Numbers DEF TypeOK, RingTypes
<1>1. ASSUME NEW s \in Submitters, NEW kind, NEW sequence, NEW named, Submits(s, kind, sequence, named)
      PROVE  RingTypes'
  <2> DEFINE c == [kind |-> kind, handle |-> <<s, sequence>>, clip |-> named, n |-> tail[s] + 1]
  <2>1. c \in Commands /\ UNCHANGED <<tail, head, lastSequence>>
    BY <1>1, Submitted
  <2>2. /\ ring' = [ring EXCEPT ![s][tail[s] % Capacity] = c] /\ writing' = [writing EXCEPT ![s] = TRUE]
        /\ tail[s] - head[s] < Capacity
    BY <1>1 DEF Submits, Write
  <2> HIDE DEF c
  <2>3. ring' \in [Submitters -> [0..(Capacity - 1) -> Cell]]
    <3>1. tail[s] % Capacity \in 0..(Capacity - 1)
      BY <2>2, OwnPlaces
    <3>2. c \in Cell
      BY <2>1
    <3> HIDE DEF Cell
    <3>3. \A k \in 0..(Capacity - 1) : [ring[s] EXCEPT ![k] = c] \in [0..(Capacity - 1) -> Cell]
      BY <1>0, <3>2
    <3>4. ring' = [ring EXCEPT ![s] = [ring[s] EXCEPT ![tail[s] % Capacity] = c]]
      BY <2>2
    <3> QED
      BY <1>0, <3>1, <3>3, <3>4
  <2>4. writing' \in [Submitters -> BOOLEAN]
    BY <1>0, <2>2
  <2> QED
    BY <1>0, <2>1, <2>3, <2>4 DEF RingTypes
<1>2. ASSUME NEW s \in Submitters, Publish(s)
      PROVE  RingTypes'
  <2>1. /\ writing[s] /\ writing' = [writing EXCEPT ![s] = FALSE]
        /\ tail' = [tail EXCEPT ![s] = @ + 1] /\ UNCHANGED <<ring, head>>
        /\ \E n \in {0, 1} : lastSequence' = [lastSequence EXCEPT ![s] = @ + n]
    BY <1>2 DEF Publish
  <2>2. PICK n \in {0, 1} : lastSequence' = [lastSequence EXCEPT ![s] = @ + n]
    BY <2>1
  <2>3. tail[s] - head[s] < Capacity /\ tail[s] < MaxCommands /\ lastSequence[s] <= tail[s]
    BY <2>1 DEF Ends
  <2>4. tail[s] + 1 \in 0..MaxCommands /\ lastSequence[s] + n \in 0..MaxCommands
    BY <1>0, <2>3
  <2>5. tail' \in [Submitters -> 0..MaxCommands] /\ lastSequence' \in [Submitters -> 0..MaxCommands]
        /\ writing' \in [Submitters -> BOOLEAN]
    BY <1>0, <2>1, <2>2, <2>4
  <2>6. ASSUME NEW r \in Submitters
        PROVE  tail'[r] - head'[r] \in 0..Capacity
    <3>1. CASE r = s
      <4>1. tail'[s] = tail[s] + 1 /\ head'[s] = head[s] /\ tail[s] - head[s] \in 0..Capacity /\ tail[s] \in Nat /\ head[s] \in Nat
        BY <1>0, <2>1
      <4> QED
        BY <1>0, <2>3, <3>1, <4>1
    <3>2. CASE r # s
      BY <1>0, <2>1, <3>2
    <3> QED
      BY <3>1, <3>2
  <2> QED
    BY <1>0, <2>1, <2>5, <2>6 DEF RingTypes
<1>3. CASE StoreHead
  <2>1. /\ audio.place = "head" /\ head' = [head EXCEPT ![audio.s] = audio.h]
        /\ UNCHANGED <<ring, tail, writing, lastSequence>>
    BY <1>3 DEF StoreHead
  <2>2. audio.s \in Submitters /\ audio.h \in 0..MaxCommands
    BY DEF TypeOK, AudioTypes
  <2>3. head[audio.s] <= audio.h /\ audio.h <= tail[audio.s]
    BY <2>1, <2>2 DEF Ends, Cursor
  <2>4. head' \in [Submitters -> 0..MaxCommands]
    BY <1>0, <2>1, <2>2
  <2>5. ASSUME NEW r \in Submitters
        PROVE  tail[r] - head'[r] \in 0..Capacity
    <3>1. CASE r = audio.s
      <4>1. head'[r] = audio.h /\ tail[r] \in Nat /\ head[r] \in Nat /\ audio.h \in Nat /\ tail[r] - head[r] \in 0..Capacity
        BY <1>0, <2>1, <2>2, <3>1
      <4> QED
        BY <1>0, <2>3, <3>1, <4>1
    <3>2. CASE r # audio.s
      BY <1>0, <2>1, <2>2, <3>2
    <3> QED
      BY <3>1, <3>2
  <2> QED
    BY <1>0, <2>1, <2>4, <2>5 DEF RingTypes
<1>4. CASE UNCHANGED ringVars
  BY <1>4 DEF ringVars, TypeOK, RingTypes
<1>5. (\E command : Taking(command)) \/ (\E s \in Submitters : LoadClip(s)) \/ LoadTail \/ Mix \/ Publishes
      \/ Looks \/ UNCHANGED vars => UNCHANGED ringVars
  BY Alone DEF LoadTail, ringVars
<1> QED
  BY <1>1, <1>2, <1>3, <1>4, <1>5, Steps

\* What the audio thread stands at: it takes the submitters, and then the voices, in order.
LEMMA NextAudioTypes ==
  ASSUME TypeOK, Ends, [Next]_vars
  PROVE  AudioTypes'
<1> DEFINE Place == {"slot", "command", "head", "mix", "publish", "assign", "name"}
           Audio == [place : Place, s : Submitters, h : 0..MaxCommands, tail : 0..MaxCommands, voice : Voices]
<1>0. /\ audio \in Audio /\ MaxCommands \in Nat /\ 1 \in Submitters /\ 1 \in Voices /\ 0 \in 0..MaxCommands
      /\ audio = [place |-> audio.place, s |-> audio.s, h |-> audio.h, tail |-> audio.tail, voice |-> audio.voice]
  BY Numbers, AudioIs DEF TypeOK, AudioTypes
<1>1. \A s \in Submitters : NextSlot(s) \in Audio
  <2> TAKE s \in Submitters
  <2>1. CASE s + 1 \in Submitters
    BY <1>0, <2>1 DEF NextSlot
  <2>2. CASE s + 1 \notin Submitters
    BY <1>0, <2>2 DEF NextSlot
  <2> QED
    BY <2>1, <2>2
<1>2. CASE LoadTail
  <2>1. head[audio.s] \in 0..MaxCommands /\ tail[audio.s] \in 0..MaxCommands /\ audio.s \in Submitters
    BY DEF TypeOK, RingTypes, AudioTypes
  <2>2. [audio EXCEPT !.place = "command", !.h = head[audio.s], !.tail = tail[audio.s]] \in Audio
    BY <1>0, <2>1
  <2>3. audio' \in Audio
    <3> HIDE DEF Audio
    <3> QED
      BY <1>1, <1>2, <2>1, <2>2 DEF LoadTail
  <2> QED
    BY <2>3 DEF AudioTypes
<1>3. ASSUME NEW command, Taking(command)
      PROVE  AudioTypes'
  <2>1. audio.h + 1 \in 0..MaxCommands
    <3>1. audio.h \in Nat /\ audio.h < tail[audio.s] /\ tail[audio.s] \in Nat /\ tail[audio.s] <= MaxCommands
      BY <1>3, TakingPends, AudioIs, RingIs
    <3> QED
      BY <1>0, <3>1
  <2>2. audio' = [audio EXCEPT !.h = audio.h + 1, !.place = IF audio.h + 1 = audio.tail THEN "head" ELSE "command"]
    BY <1>3 DEF Taking
  <2> QED
    BY <1>0, <2>1, <2>2 DEF AudioTypes
<1>4. CASE StoreHead
  BY <1>1, <1>4, AudioIs DEF StoreHead, AudioTypes
<1>5. CASE Mix
  BY <1>0, <1>5 DEF Mix, AudioTypes
<1>6. NextVoice => audio' \in Audio
  BY <1>0 DEF NextVoice
<1>7. CASE Publishes
  <2>1. NextVoice \/ audio' = [audio EXCEPT !.place = "assign"] \/ audio' = [audio EXCEPT !.place = "name"]
    BY <1>7 DEF Publishes, PublishVoice, AssignState, AssignTag
  <2> QED
    BY <1>0, <1>6, <2>1 DEF AudioTypes
<1>8. CASE UNCHANGED audio
  BY <1>8 DEF TypeOK, AudioTypes
<1>9. (\E s \in Submitters : \/ \E kind, sequence, named : Submits(s, kind, sequence, named)
                             \/ Publish(s) \/ LoadClip(s)) \/ Looks \/ UNCHANGED vars => UNCHANGED audio
  BY Alone
<1> QED
  BY <1>2, <1>3, <1>4, <1>5, <1>7, <1>8, <1>9, Steps

\* The slots, their leases and flags.
LEMMA NextClipTypes ==
  ASSUME TypeOK, Ends, Meant, Sounding, Leases, [Next]_vars
  PROVE  ClipTypes'
<1> DEFINE Slot == [state : {"free", "loaded", "unloading"}, generation : 1..(MaxCommands + 1), view : 0..(MaxCommands + 1)]
           Lease == [voices : 0..Cardinality(Voices), unloadTaken : BOOLEAN]
           Flags == [ClipSlots -> BOOLEAN]
<1>0. /\ clip \in [Submitters -> [ClipSlots -> Slot]] /\ lease \in [Submitters -> [ClipSlots -> Lease]]
      /\ handedBack \in [Submitters -> Flags] /\ MaxCommands \in Nat
  BY Numbers DEF TypeOK, ClipTypes
<1>1. clip' \in [Submitters -> [ClipSlots -> Slot]]
  <2>1. ASSUME NEW s \in Submitters, Publish(s)
        PROVE  clip' \in [Submitters -> [ClipSlots -> Slot]]
    <3> DEFINE c == At(s, tail[s])
               k == c.clip[2]
    <3>1. clip' = IF c.kind # "unload" THEN clip
                  ELSE [clip EXCEPT ![s][k].state = "unloading", ![s][k].generation = @ + 1]
      BY <2>1 DEF Publish, At
    <3>2. CASE c.kind # "unload"
      BY <1>0, <3>1, <3>2
    <3>3. CASE c.kind = "unload"
      <4>1. k \in ClipSlots
        <5>1. tail[s] \in Pending(s)
          BY <2>1, PublishPends
        <5> QED
          BY <3>3, <5>1, CommandIs
      <4>2. clip[s][k].generation + 1 \in 1..(MaxCommands + 1)
        <5>1. /\ clip[s][k].generation <= tail[s] + 1 /\ tail[s] \in Nat /\ clip[s][k].generation \in Nat
              /\ tail[s] < MaxCommands
          <6>1. LeaseOf(s, k) /\ writing[s]
            BY <2>1, <4>1 DEF Leases, Publish
          <6> HIDE DEF k
          <6>2. clip[s][k].generation \in Nat /\ tail[s] \in Nat
            BY <4>1, RingIs, SlotIs
          <6> QED
            BY <6>1, <6>2 DEF LeaseOf, Ends
        <5> QED
          BY <1>0, <5>1
      <4> DEFINE x == clip[s][k]
                 y == [x EXCEPT !.state = "unloading", !.generation = @ + 1]
      <4>3. x \in Slot
        BY <1>0, <4>1
      <4>4. y \in Slot
        <5> HIDE DEF x
        <5> QED
          BY <4>2, <4>3 DEF x
      <4>5. clip' = [clip EXCEPT ![s] = [clip[s] EXCEPT ![k] = y]]
        BY <1>0, <3>1, <3>3, <4>1
      <4> HIDE DEF Slot, y, k
      <4>6. [clip[s] EXCEPT ![k] = y] \in [ClipSlots -> Slot]
        BY <1>0, <4>4
      <4> QED
        BY <1>0, <4>5, <4>6
    <3> QED
      BY <3>2, <3>3
  <2>2. ASSUME NEW s \in Submitters, LoadClip(s)
        PROVE  clip' \in [Submitters -> [ClipSlots -> Slot]]
    <3> DEFINE after == [i \in ClipSlots |-> IF i \in Reclaimed(s)
                           THEN [clip[s][i] EXCEPT !.state = "free", !.view = 0] ELSE clip[s][i]]
               free == {i \in ClipSlots : after[i].state = "free"}
               m == Min(free)
    <3>1. \/ clip' = [clip EXCEPT ![s] = after]
          \/ /\ free # {}
             /\ clip' = [clip EXCEPT ![s] =
                  [after EXCEPT ![m].state = "loaded", ![m].view = after[m].generation]]
      BY <2>2 DEF LoadClip
    <3>2. after \in [ClipSlots -> Slot]
      <4> SUFFICES ASSUME NEW i \in ClipSlots
                   PROVE  (IF i \in Reclaimed(s) THEN [clip[s][i] EXCEPT !.state = "free", !.view = 0] ELSE clip[s][i]) \in Slot
        OBVIOUS
      <4>1. clip[s][i] \in Slot
        BY <1>0
      <4>2. [clip[s][i] EXCEPT !.state = "free", !.view = 0] \in Slot
        <5> DEFINE x == clip[s][i]
        <5>1. x \in Slot /\ 0 \in 0..(MaxCommands + 1)
          BY <1>0, <4>1
        <5> HIDE DEF x
        <5>2. [x EXCEPT !.state = "free", !.view = 0] \in Slot
          BY <5>1
        <5> QED
          BY <5>2 DEF x
      <4> QED
        BY <4>1, <4>2
    <3>3. CASE clip' = [clip EXCEPT ![s] = after]
      <4> HIDE DEF after, Slot
      <4> QED
        BY <1>0, <3>2, <3>3
    <3>4. CASE /\ free # {}
               /\ clip' = [clip EXCEPT ![s] = [after EXCEPT ![m].state = "loaded", ![m].view = after[m].generation]]
      <4>1. m \in ClipSlots
        <5>1. free \subseteq Nat
          BY Numbers
        <5>2. free \subseteq ClipSlots /\ free # {}
          BY <3>4
        <5> HIDE DEF free
        <5> QED
          BY <5>1, <5>2, MinIn
      <4> HIDE DEF after, m
      <4> DEFINE x == after[m]
                 y == [x EXCEPT !.state = "loaded", !.view = x.generation]
      <4>2. x \in Slot
        BY <3>2, <4>1
      <4>3. y \in Slot
        <5>1. x.generation \in 0..(MaxCommands + 1)
          <6> HIDE DEF x
          <6>1. x.generation \in 1..(MaxCommands + 1)
            BY <4>2
          <6> QED
            BY <1>0, <6>1
        <5> HIDE DEF x
        <5> QED
          BY <4>2, <5>1
      <4>4. [after EXCEPT ![m].state = "loaded", ![m].view = after[m].generation] = [after EXCEPT ![m] = y]
        BY <3>2, <4>1
      <4> HIDE DEF y, Slot
      <4>5. [after EXCEPT ![m] = y] \in [ClipSlots -> Slot]
        BY <3>2, <4>3
      <4> QED
        BY <1>0, <3>4, <4>4, <4>5
    <3> QED
      BY <3>1, <3>3, <3>4
  <2>3. \/ UNCHANGED clip
        \/ \E s \in Submitters : Publish(s) \/ LoadClip(s)
    <3>1. \A command : Takes(command) => UNCHANGED clip
      BY DEF Takes, TakePlay, TakeUnload, TakeStop
    <3> QED
      BY <3>1, Steps, Alone
  <2> QED
    BY <1>0, <2>1, <2>2, <2>3
<1>2. Fresh \in Lease /\ Cardinality(Voices) \in Nat
  BY Numbers DEF Fresh
<1>3. ASSUME NEW s \in Submitters, NEW k \in ClipSlots
      PROVE  /\ lease'[s][k].voices \in 0..Cardinality(Voices)
             /\ lease[s][k] \in Lease /\ handedBack[s][k] \in BOOLEAN
  <2>1. lease'[s][k].voices = Cardinality(Playing(s, k)')
    BY NextLeases DEF Leases, LeaseOf
  <2>2. Playing(s, k)' \subseteq Voices
    BY DEF Playing
  <2>3. IsFiniteSet(Playing(s, k)') /\ Cardinality(Playing(s, k)') <= Cardinality(Voices)
    BY <2>2, Numbers, FS_Subset
  <2>4. Cardinality(Playing(s, k)') \in Nat
    BY <2>3, FS_CardinalityType
  <2> QED
    BY <1>0, <1>2, <2>1, <2>3, <2>4
<1> DEFINE Typed == lease' \in [Submitters -> [ClipSlots -> Lease]] /\ handedBack' \in [Submitters -> Flags]
<1>4. ASSUME NEW s \in Submitters, NEW k \in ClipSlots, NEW y, y = lease'[s][k] => y \in Lease,
             lease' = [lease EXCEPT ![s][k] = y],
             UNCHANGED handedBack \/ handedBack' = [handedBack EXCEPT ![s][k] = TRUE]
      PROVE  Typed
  <2>1. lease'[s][k] = y
    BY <1>0, <1>4
  <2>2. y \in Lease
    BY <1>4, <2>1
  <2> HIDE DEF Lease
  <2>3. lease' \in [Submitters -> [ClipSlots -> Lease]]
    <3>1. [lease[s] EXCEPT ![k] = y] \in [ClipSlots -> Lease]
      BY <1>0, <2>2
    <3>2. lease' = [lease EXCEPT ![s] = [lease[s] EXCEPT ![k] = y]]
      BY <1>4
    <3> QED
      BY <1>0, <3>1, <3>2
  <2>4. handedBack' \in [Submitters -> Flags]
    <3>1. [handedBack[s] EXCEPT ![k] = TRUE] \in Flags
      BY <1>0
    <3> HIDE DEF Flags
    <3>2. CASE handedBack' = [handedBack EXCEPT ![s][k] = TRUE]
      <4>1. handedBack' = [handedBack EXCEPT ![s] = [handedBack[s] EXCEPT ![k] = TRUE]]
        BY <3>2
      <4> QED
        BY <1>0, <3>1, <4>1
    <3> QED
      BY <1>0, <1>4, <3>2
  <2> QED
    BY <2>3, <2>4
<1>5. ASSUME NEW command, TakePlay(command) \/ TakeUnload(command)
      PROVE  Typed
  <2>1. PICK s \in Submitters : \E p \in Pending(s) : command = At(s, p) /\ command.kind \in {"play", "unload"}
    BY <1>5, TakingPends DEF TakePlay, TakeUnload
  <2>2. PICK k \in ClipSlots : command.clip[1] = s /\ command.clip[2] = k
    BY <2>1, CommandIs
  <2> DEFINE x == lease[s][k]
             more == [x EXCEPT !.voices = @ + 1]
             taken == [x EXCEPT !.unloadTaken = TRUE]
  <2>3. x \in Lease
    BY <1>3
  <2>4. more = lease'[s][k] => more \in Lease
    <3>1. lease'[s][k].voices \in 0..Cardinality(Voices)
      BY <1>3
    <3> HIDE DEF x
    <3>2. more.voices = x.voices + 1 /\ more = [voices |-> x.voices + 1, unloadTaken |-> x.unloadTaken] /\ x.unloadTaken \in BOOLEAN
      BY <2>3
    <3> QED
      BY <3>1, <3>2
  <2>5. taken \in Lease
    <3> HIDE DEF x
    <3> QED
      BY <2>3
  <2>6. \/ UNCHANGED <<lease, handedBack>>
        \/ lease' = [lease EXCEPT ![s][k] = more] /\ UNCHANGED handedBack
        \/ lease' = [lease EXCEPT ![s][k] = taken] /\ UNCHANGED handedBack
        \/ lease' = [lease EXCEPT ![s][k] = Fresh] /\ handedBack' = [handedBack EXCEPT ![s][k] = TRUE]
    <3>1. CASE TakePlay(command)
      <4>1. UNCHANGED lease \/ lease' = [lease EXCEPT ![s][k].voices = @ + 1]
        BY <2>2, <3>1 DEF TakePlay, Leased
      <4> QED
        BY <1>0, <3>1, <4>1 DEF TakePlay
    <3>2. CASE TakeUnload(command)
      <4>1. \/ lease' = [lease EXCEPT ![s][k].unloadTaken = TRUE] /\ UNCHANGED handedBack
            \/ lease' = [lease EXCEPT ![s][k] = Fresh] /\ handedBack' = [handedBack EXCEPT ![s][k] = TRUE]
        BY <2>2, <3>2 DEF TakeUnload
      <4> QED
        BY <1>0, <4>1
    <3> QED
      BY <1>5, <3>1, <3>2
  <2> HIDE DEF x, more, taken, Typed, Lease
  <2>7. UNCHANGED <<lease, handedBack>> => Typed
    BY <1>0 DEF Typed
  <2>8. ASSUME lease' = [lease EXCEPT ![s][k] = Fresh], handedBack' = [handedBack EXCEPT ![s][k] = TRUE]
        PROVE  Typed
    BY <1>2, <1>4, <2>8
  <2>9. ASSUME lease' = [lease EXCEPT ![s][k] = more], UNCHANGED handedBack
        PROVE  Typed
    BY <1>4, <2>4, <2>9
  <2>10. ASSUME lease' = [lease EXCEPT ![s][k] = taken], UNCHANGED handedBack
         PROVE  Typed
    BY <1>4, <2>5, <2>10
  <2> QED
    BY <2>6, <2>7, <2>8, <2>9, <2>10
<1>6. ASSUME NEW ending, Release(ending)
      PROVE  Typed
  <2> DEFINE Left(s, i) == lease[s][i].voices - Cardinality({v \in ending : voices[v].clip[1] = s /\ voices[v].clip[2] = i})
             Returned(s, i) == Left(s, i) = 0 /\ lease[s][i].voices # 0 /\ lease[s][i].unloadTaken
  <2>1. /\ lease' = [s \in Submitters |-> [i \in ClipSlots |->
             IF Returned(s, i) THEN Fresh ELSE [lease[s][i] EXCEPT !.voices = Left(s, i)]]]
        /\ handedBack' = [s \in Submitters |-> [i \in ClipSlots |-> handedBack[s][i] \/ Returned(s, i)]]
    BY <1>6 DEF Release
  <2> HIDE DEF Left, Returned
  <2>2. ASSUME NEW s \in Submitters, NEW i \in ClipSlots
        PROVE  lease'[s][i] \in Lease
    <3>1. lease'[s][i].voices \in 0..Cardinality(Voices) /\ lease[s][i] \in Lease
      BY <1>3
    <3>2. lease'[s][i] = IF Returned(s, i) THEN Fresh ELSE [lease[s][i] EXCEPT !.voices = Left(s, i)]
      BY <2>1
    <3>3. CASE Returned(s, i)
      BY <1>2, <3>2, <3>3
    <3>4. CASE ~Returned(s, i)
      <4> DEFINE x == lease[s][i]
                 y == lease'[s][i]
                 n == Left(s, i)
      <4>1. x \in Lease /\ y = [x EXCEPT !.voices = n] /\ y.voices \in 0..Cardinality(Voices)
        BY <3>1, <3>2, <3>4
      <4> HIDE DEF x, y, n
      <4>2. y \in Lease
        BY <4>1
      <4> QED
        BY <4>2 DEF y
    <3> QED
      BY <3>3, <3>4
  <2>3. lease' \in [Submitters -> [ClipSlots -> Lease]]
    <3> HIDE DEF Lease
    <3> QED
      BY <2>1, <2>2
  <2>4. handedBack' \in [Submitters -> Flags]
    BY <2>1
  <2> QED
    BY <2>3, <2>4
<1>7. ASSUME NEW s \in Submitters, LoadClip(s)
      PROVE  Typed
  <2>1. UNCHANGED lease /\ handedBack' = [handedBack EXCEPT ![s] = [i \in ClipSlots |-> handedBack[s][i] /\ i \notin Reclaimed(s)]]
    BY <1>7 DEF LoadClip
  <2> DEFINE flags == [i \in ClipSlots |-> handedBack[s][i] /\ i \notin Reclaimed(s)]
  <2>2. flags \in Flags
    OBVIOUS
  <2>3. handedBack' = [handedBack EXCEPT ![s] = flags]
    BY <2>1
  <2> HIDE DEF flags, Flags
  <2> QED
    BY <1>0, <2>1, <2>2, <2>3
<1>8. Typed
  <2>1. \/ UNCHANGED <<lease, handedBack>>
        \/ \E s \in Submitters : LoadClip(s)
        \/ \E command : TakePlay(command) \/ TakeUnload(command)
        \/ \E ending : Release(ending)
    <3>1. ASSUME NEW command, TakeStop(command)
          PROVE  \E ending : Release(ending)
      BY <3>1, Zenon DEF TakeStop
    <3>2. Mix => \E ending : Release(ending)
      <4> SUFFICES ASSUME Mix
                   PROVE  \E ending : Release(ending)
        OBVIOUS
      <4>1. PICK n \in 1..MaxBlock : Release({v \in Voices : voices[v].active /\ ~Rendered(voices[v], n).active})
        BY Zenon DEF Mix
      <4> QED
        BY <4>1
    <3>3. \/ \E s \in Submitters : (\E kind, sequence, named : Submits(s, kind, sequence, named)) \/ Publish(s)
          \/ LoadTail \/ StoreHead \/ Publishes \/ Looks \/ UNCHANGED vars
          => UNCHANGED <<lease, handedBack>>
      BY Alone
    <3> QED
      BY <3>1, <3>2, <3>3, Steps DEF Takes
  <2>2. UNCHANGED <<lease, handedBack>> => Typed
    BY <1>0
  <2> HIDE DEF Typed
  <2> QED
    BY <1>5, <1>6, <1>7, <2>1, <2>2
<1> QED
  BY <1>1, <1>8 DEF ClipTypes

\* The board shows sounds that are in voices.
LEMMA NextBoardTypes ==
  ASSUME TypeOK, Sounding, Board, [Next]_vars
  PROVE  BoardTypes'
<1> DEFINE Tag == Handles \cup {None}
<1>0. /\ tag \in [Voices -> Tag] /\ published \in [Voices -> Tag] /\ state \in [Voices -> BoardState]
      /\ audio.voice \in Voices
  BY AudioIs DEF TypeOK, BoardTypes
<1>1. \A v \in Voices : StateOf(v) \in BoardState
  BY DEF TypeOK, VoiceTypes, Voice, StateOf, BoardState
<1>2. CASE PublishVoice
  <2> DEFINE v == audio.voice
  <2>1. /\ UNCHANGED tag \/ tag' = [tag EXCEPT ![v] = None]
        /\ UNCHANGED published \/ published' = [published EXCEPT ![v] = None]
        /\ UNCHANGED state \/ state' = [state EXCEPT ![v] = StateOf(v)]
    BY <1>2 DEF PublishVoice, StoreTag, boardVars
  <2> HIDE DEF v
  <2>2. tag' \in [Voices -> Tag] /\ published' \in [Voices -> Tag] /\ state' \in [Voices -> BoardState]
    BY <1>0, <1>1, <2>1 DEF v
  <2> QED
    BY <2>2 DEF BoardTypes
<1>3. CASE AssignState
  BY <1>0, <1>1, <1>3 DEF AssignState, BoardTypes
<1>4. CASE AssignTag
  <2>1. voices[audio.voice].handle \in Handles
    BY <1>0, <1>4 DEF AssignTag, Board, Sounding
  <2>2. /\ tag' = [tag EXCEPT ![audio.voice] = voices[audio.voice].handle] /\ UNCHANGED state
        /\ published' = [published EXCEPT ![audio.voice] = voices[audio.voice].handle]
    BY <1>4 DEF AssignTag, StoreTag
  <2> QED
    BY <1>0, <2>1, <2>2 DEF BoardTypes
<1>5. CASE UNCHANGED boardVars
  BY <1>5 DEF boardVars, TypeOK, BoardTypes
<1>6. PublishVoice \/ AssignState \/ AssignTag \/ UNCHANGED boardVars
  BY Steps, Alone DEF Publishes, boardVars
<1> QED
  BY <1>2, <1>3, <1>4, <1>5, <1>6

\* The reader goes from one voice to the next.
LEMMA NextReaderTypes ==
  ASSUME TypeOK, Sounding, [Next]_vars
  PROVE  ReaderTypes'
<1> DEFINE Place == {"out", "tag", "state", "again", "found", "missing"}
           Readers == [place : Place, asked : Handles \cup {None}, entry : Voices, read : BoardState, present : BOOLEAN]
<1>0. reader \in Readers /\ reads \in 0..MaxReads /\ 1 \in Voices /\ MaxReads \in Nat /\ reader.entry \in Voices
  BY Numbers DEF TypeOK, ReaderTypes
<1>1. NoState \in BoardState
  BY Numbers DEF NoState, BoardState
<1>2. CASE PlayheadOf
  <2>1. PICK s \in Submitters : \E sequence \in 1..lastSequence[s] :
          reader' = [place |-> "tag", asked |-> <<s, sequence>>, entry |-> 1, read |-> NoState,
                     present |-> \E v \in Voices : tag[v] = <<s, sequence>>]
    BY <1>2 DEF PlayheadOf
  <2>2. PICK sequence \in 1..lastSequence[s] :
          reader' = [place |-> "tag", asked |-> <<s, sequence>>, entry |-> 1, read |-> NoState,
                     present |-> \E v \in Voices : tag[v] = <<s, sequence>>]
    BY <2>1
  <2>3. <<s, sequence>> \in Handles
    <3>1. lastSequence[s] \in Nat /\ lastSequence[s] <= MaxCommands /\ MaxCommands \in Nat
      BY Numbers DEF TypeOK, RingTypes
    <3> QED
      BY <3>1 DEF Handles
  <2>4. reads + 1 \in 0..MaxReads /\ reads' = reads + 1
    BY <1>0, <1>2 DEF PlayheadOf
  <2> QED
    BY <1>0, <1>1, <2>2, <2>3, <2>4 DEF ReaderTypes
<1>3. CASE ReadTag \/ ReadState \/ ReadAgain
  <2>1. UNCHANGED reads
    BY <1>3 DEF ReadTag, ReadState, ReadAgain, Reading
  <2>2. state[reader.entry] \in BoardState
    BY <1>0 DEF TypeOK, BoardTypes
  <2>3. \/ \E place \in Place : reader' = [reader EXCEPT !.place = place]
        \/ reader.entry + 1 \in Voices /\ reader' = [reader EXCEPT !.entry = @ + 1]
        \/ reader' = [reader EXCEPT !.read = state[reader.entry], !.place = "again"]
    BY <1>3 DEF ReadTag, ReadState, ReadAgain
  <2>4. reader' \in Readers
    BY <1>0, <2>2, <2>3
  <2> QED
    BY <1>0, <2>1, <2>4 DEF ReaderTypes
<1>4. CASE ReadReturns
  BY <1>0, <1>1, <1>4 DEF ReadReturns, Reading, ReaderTypes, NoReader
<1>5. CASE Publishes
  <2>1. UNCHANGED reads /\ (UNCHANGED reader \/ \E b \in BOOLEAN : reader' = [reader EXCEPT !.present = b])
    <3>1. \A v, h : StoreTag(v, h) => \E b \in BOOLEAN : reader' = [reader EXCEPT !.present = b]
      <4> TAKE v, h
      <4>1. StoreTag(v, h) => \E b : b = (reader.present /\ \E w \in Voices : tag'[w] = reader.asked) /\ reader' = [reader EXCEPT !.present = b]
        BY DEF StoreTag
      <4>2. \A b : b = (reader.present /\ \E w \in Voices : tag'[w] = reader.asked) => b \in BOOLEAN
        OBVIOUS
      <4> QED
        BY <4>1, <4>2
    <3> QED
      BY <1>5, <3>1 DEF Publishes, PublishVoice, AssignState, AssignTag, readerVars
  <2>2. reader' \in Readers
    BY <1>0, <2>1
  <2> QED
    BY <1>0, <2>1, <2>2 DEF ReaderTypes
<1>6. CASE UNCHANGED readerVars
  BY <1>6 DEF readerVars, TypeOK, ReaderTypes
<1>7. PlayheadOf \/ ReadTag \/ ReadState \/ ReadAgain \/ ReadReturns \/ Publishes \/ UNCHANGED readerVars
  BY Steps, Alone DEF Looks, readerVars
<1> QED
  BY <1>2, <1>3, <1>4, <1>5, <1>6, <1>7

\* Every step keeps the types.
LEMMA NextTypes ==
  ASSUME TypeOK, Ends, Meant, Sounding, Leases, Board, [Next]_vars
  PROVE  TypeOK'
<1> QED
  BY NextRingTypes, NextAudioTypes, NextClipTypes, NextSounding, NextBoardTypes, NextReaderTypes DEF TypeOK

-----------------------------------------------------------------------------
(* The sounds: each in one place, and its tag.                             *)

\* What the audio thread stores on the board.
LEMMA TagIs ==
  ASSUME TypeOK, Board, Publishes, NEW w \in Voices
  PROVE  \/ tag'[w] = tag[w]
         \/ tag'[w] = None /\ (voices[w].active => voices[w].handle # tag[w])
         \/ tag[w] = None /\ voices[w].active /\ tag'[w] = voices[w].handle
<1>0. DOMAIN tag = Voices /\ audio.voice \in Voices
  BY AudioIs DEF TypeOK, BoardTypes
<1>1. CASE PublishVoice
  <2>1. \/ UNCHANGED tag
        \/ /\ tag' = [tag EXCEPT ![audio.voice] = None] /\ audio.place = "publish"
           /\ voices[audio.voice].active => published[audio.voice] # voices[audio.voice].handle
    BY <1>1 DEF PublishVoice, StoreTag, boardVars
  <2>2. audio.place = "publish" => tag[w] = published[w]
    BY DEF Board
  <2> QED
    BY <1>0, <2>1, <2>2
<1>2. CASE AssignState
  BY <1>2 DEF AssignState
<1>3. CASE AssignTag
  <2>1. tag' = [tag EXCEPT ![audio.voice] = voices[audio.voice].handle] /\ audio.place = "name"
    BY <1>3 DEF AssignTag, StoreTag
  <2>2. tag[audio.voice] = None /\ voices[audio.voice].active
    BY <1>0, <2>1 DEF Board
  <2> QED
    BY <1>0, <2>1, <2>2
<1> QED
  BY <1>1, <1>2, <1>3 DEF Publishes

\* The steps that are not the board's leave it alone.
LEMMA BoardAlone ==
  ASSUME TypeOK, [Next]_vars
  PROVE  \/ Publishes
         \/ /\ UNCHANGED boardVars
            /\ \/ UNCHANGED <<audio, voices>>
               \/ audio.place \notin {"assign", "name"} /\ audio'.place \notin {"assign", "name"}
<1>1. /\ audio.s \in Submitters
      /\ audio = [place |-> audio.place, s |-> audio.s, h |-> audio.h, tail |-> audio.tail, voice |-> audio.voice]
  BY AudioIs
<1>2. ASSUME NEW command, Taking(command)
      PROVE  /\ UNCHANGED boardVars
             /\ audio.place \notin {"assign", "name"} /\ audio'.place \notin {"assign", "name"}
  <2>1. /\ audio.place = "command" /\ UNCHANGED boardVars
        /\ audio' = [audio EXCEPT !.h = @ + 1, !.place = IF audio.h + 1 = audio.tail THEN "head" ELSE "command"]
    BY <1>2 DEF Taking
  <2>2. audio'.place \in {"head", "command"}
    BY <1>1, <2>1
  <2> QED
    BY <2>1, <2>2
<1>3. ASSUME LoadTail \/ StoreHead \/ Mix
      PROVE  /\ UNCHANGED boardVars
             /\ audio.place \notin {"assign", "name"} /\ audio'.place \notin {"assign", "name"}
  <2>1. \A s : NextSlot(s).place \in {"slot", "mix"}
    BY <1>1 DEF NextSlot
  <2>2. CASE LoadTail
    BY <1>1, <2>1, <2>2 DEF LoadTail
  <2>3. CASE StoreHead
    BY <1>1, <2>1, <2>3 DEF StoreHead
  <2>4. CASE Mix
    BY <1>1, <2>4 DEF Mix
  <2> QED
    BY <1>3, <2>2, <2>3, <2>4
<1>4. ASSUME \/ \E s \in Submitters : \/ \E kind, sequence, named : Submits(s, kind, sequence, named)
                                      \/ Publish(s) \/ LoadClip(s)
             \/ Looks \/ UNCHANGED vars
      PROVE  UNCHANGED <<boardVars, audio, voices>>
  BY <1>4, Alone DEF boardVars
<1> QED
  BY <1>2, <1>3, <1>4, Steps

\* The board is what the audio thread has published, up to the entry it is writing.
LEMMA NextBoard ==
  ASSUME TypeOK, Board, [Next]_vars
  PROVE  Board'
<1>0. /\ DOMAIN tag = Voices /\ DOMAIN published = Voices /\ DOMAIN state = Voices /\ audio.voice \in Voices
      /\ audio = [place |-> audio.place, s |-> audio.s, h |-> audio.h, tail |-> audio.tail, voice |-> audio.voice]
  BY AudioIs DEF TypeOK, BoardTypes
<1>1. \A v : StateOf(v).handle = voices[v].handle
  BY DEF StateOf
<1>2. NextVoice => audio'.place \in {"publish", "slot"}
  BY <1>0 DEF NextVoice
<1>3. CASE PublishVoice
  <2> DEFINE v == audio.voice
  <2>0. audio.place = "publish" /\ voices' = voices
    BY <1>3 DEF PublishVoice
  <2>1. \A w \in Voices : tag[w] = published[w] /\ (tag[w] # None => state[w].handle = tag[w])
    BY <2>0 DEF Board
  <2>2. CASE UNCHANGED boardVars /\ NextVoice
    BY <1>2, <2>1, <2>2 DEF Board, boardVars
  <2>3. CASE StoreTag(v, None) /\ published' = [published EXCEPT ![v] = None] /\ NextVoice /\ UNCHANGED state
    BY <1>0, <1>2, <2>1, <2>3 DEF Board, StoreTag
  <2>4. CASE /\ published[v] = voices[v].handle /\ state' = [state EXCEPT ![v] = StateOf(v)]
             /\ NextVoice /\ UNCHANGED <<tag, published>>
    BY <1>0, <1>1, <1>2, <2>1, <2>4 DEF Board
  <2>5. CASE /\ voices[v].active /\ StoreTag(v, None)
             /\ audio' = [audio EXCEPT !.place = "assign"] /\ UNCHANGED <<state, published>>
    <3>1. audio'.place = "assign" /\ audio'.voice = v
      BY <1>0, <2>5
    <3>2. \A w \in Voices : tag'[w] = IF w = v THEN None ELSE tag[w]
      BY <1>0, <2>5 DEF StoreTag
    <3> QED
      BY <2>0, <2>1, <2>5, <3>1, <3>2 DEF Board
  <2> QED
    BY <1>3, <2>2, <2>3, <2>4, <2>5 DEF PublishVoice
<1>4. CASE AssignState
  <2> DEFINE v == audio.voice
  <2>1. /\ audio.place = "assign" /\ audio'.place = "name" /\ audio'.voice = v /\ UNCHANGED <<voices, tag, published>>
        /\ state' = [state EXCEPT ![v] = StateOf(v)]
    BY <1>0, <1>4 DEF AssignState
  <2>2. tag[v] = None /\ voices[v].active
    BY <1>0, <2>1 DEF Board
  <2>3. state'[v].handle = voices[v].handle /\ \A w \in Voices \ {v} : state'[w] = state[w]
    BY <1>0, <1>1, <2>1
  <2> QED
    BY <2>1, <2>2, <2>3 DEF Board
<1>5. CASE AssignTag
  <2> DEFINE v == audio.voice
  <2>1. /\ audio.place = "name" /\ NextVoice /\ UNCHANGED <<voices, state>>
        /\ tag' = [tag EXCEPT ![v] = voices[v].handle] /\ published' = [published EXCEPT ![v] = voices[v].handle]
    BY <1>5 DEF AssignTag, StoreTag
  <2>2. state[v].handle = voices[v].handle
    BY <2>1 DEF Board
  <2>3. \A w \in Voices \ {v} : tag[w] = published[w] /\ (tag[w] # None => state[w].handle = tag[w])
    BY DEF Board
  <2> QED
    BY <1>0, <1>2, <2>1, <2>2, <2>3 DEF Board
<1>6. CASE /\ UNCHANGED boardVars
           /\ \/ UNCHANGED <<audio, voices>>
              \/ audio.place \notin {"assign", "name"} /\ audio'.place \notin {"assign", "name"}
  BY <1>6 DEF Board, boardVars
<1> QED
  BY <1>3, <1>4, <1>5, <1>6, BoardAlone DEF Publishes

\* A new command is the only way a sound comes to wait, and then it has a number of its own.
LEMMA SubmitAwaits ==
  ASSUME TypeOK, Ends, NEW s \in Submitters, NEW kind, NEW sequence, NEW named,
         Submits(s, kind, sequence, named), NEW h, Awaits(h)'
  PROVE  Awaits(h) \/ h = <<s, lastSequence[s] + 1>>
<1> DEFINE c == [kind |-> kind, handle |-> <<s, sequence>>, clip |-> named, n |-> tail[s] + 1]
<1>1. PICK r \in Submitters : \E p \in Pending(r)' : At(r, p)'.kind = "play" /\ At(r, p)'.handle = h
  BY DEF Awaits
<1>2. PICK p \in Pending(r)' : At(r, p)'.kind = "play" /\ At(r, p)'.handle = h
  BY <1>1
<1>3. /\ Pending(s)' = Pending(s) \cup {tail[s]}
      /\ \A q \in Pending(s) : At(s, q)' = At(s, q)
      /\ \A q : q = tail[s] => At(s, q)' = c
      /\ \A o \in Submitters \ {s} : Pending(o)' = Pending(o) /\ \A q \in Pending(o) : At(o, q)' = At(o, q)
  BY WritePends DEF Submits
<1>4. c.kind = "play" => c.handle = <<s, lastSequence[s] + 1>>
  BY DEF Submits
<1> HIDE DEF c
<1>5. CASE p \in Pending(r)
  BY <1>2, <1>3, <1>5 DEF Awaits
<1>6. CASE p \notin Pending(r)
  <2>1. r = s /\ p = tail[s]
    BY <1>2, <1>3, <1>6
  <2> QED
    BY <1>2, <1>3, <1>4, <2>1
<1> QED
  BY <1>5, <1>6

\* Otherwise no sound comes to wait.
LEMMA AwaitsKept ==
  ASSUME \A s \in Submitters : Pending(s)' \subseteq Pending(s) /\ \A p \in Pending(s) : At(s, p)' = At(s, p),
         NEW h, Awaits(h)'
  PROVE  Awaits(h)
<1>1. PICK r \in Submitters : \E p \in Pending(r)' : At(r, p)'.kind = "play" /\ At(r, p)'.handle = h
  BY DEF Awaits
<1>2. PICK p \in Pending(r)' : At(r, p)'.kind = "play" /\ At(r, p)'.handle = h
  BY <1>1
<1> QED
  BY <1>2 DEF Awaits

\* The steps that let no sound wait, start none and store no tag.
LEMMA OnePlaceKept ==
  ASSUME OnePlace, BoardTypes,
         \A s \in Submitters : Pending(s)' \subseteq Pending(s) /\ \A p \in Pending(s) : At(s, p)' = At(s, p),
         \A v \in Voices : voices'[v].active => voices[v].active /\ voices'[v].handle = voices[v].handle,
         UNCHANGED tag,
         \A s \in Submitters : lastSequence[s] \in Nat /\ lastSequence'[s] \in Nat /\ lastSequence[s] <= lastSequence'[s]
  PROVE  OnePlace'
<1>1. \A h : Awaits(h)' => Awaits(h)
  BY AwaitsKept
<1>2. \A s \in Submitters : \A p, q \in Pending(s)' :
        At(s, p)'.kind = "play" /\ At(s, q)'.kind = "play" /\ At(s, p)'.handle = At(s, q)'.handle => p = q
  BY DEF OnePlace
<1>3. \A v \in Voices : voices'[v].active => ~Awaits(voices[v].handle)'
  BY <1>1 DEF OnePlace
<1>4. \A v, w \in Voices : voices'[v].active /\ voices'[w].active /\ voices'[v].handle = voices'[w].handle => v = w
  BY DEF OnePlace
<1>5. ASSUME NEW v \in Voices, tag[v] # None
      PROVE  /\ tag[v][2] <= lastSequence'[tag[v][1]]
             /\ ~Awaits(tag[v])'
             /\ \A w \in Voices : voices'[w].active /\ voices'[w].handle = tag[v] => w = v
             /\ \A w \in Voices : tag[w] = tag[v] => w = v
  <2>1. /\ tag[v][2] <= lastSequence[tag[v][1]]
        /\ ~Awaits(tag[v])
        /\ \A w \in Voices : voices[w].active /\ voices[w].handle = tag[v] => w = v
        /\ \A w \in Voices : tag[w] = tag[v] => w = v
    BY <1>5 DEF OnePlace
  <2>2. tag[v] \in Handles
    BY <1>5 DEF BoardTypes
  <2>3. tag[v][1] \in Submitters /\ tag[v][2] \in Nat
    BY <2>2, Numbers DEF Handles
  <2>4. tag[v][2] <= lastSequence'[tag[v][1]]
    BY <2>1, <2>3
  <2>5. ~Awaits(tag[v])'
    BY <1>1, <2>1
  <2> QED
    BY <2>1, <2>4, <2>5
<1> QED
  BY <1>2, <1>3, <1>4, <1>5 DEF OnePlace

\* The steps that only let commands go, voices end or sequences grow.
LEMMA Quiet ==
  ASSUME TypeOK, Ends, Meant, Sounding, [Next]_vars
  PROVE  \/ \E s \in Submitters : \E kind, sequence, named : Submits(s, kind, sequence, named)
         \/ \E command : \E v \in Voices : TakePlay(command) /\ Starts(v, command)
         \/ Publishes
         \/ /\ \A s \in Submitters : Pending(s)' \subseteq Pending(s) /\ \A p \in Pending(s) : At(s, p)' = At(s, p)
            /\ \A v \in Voices : voices'[v].active => voices[v].active /\ voices'[v].handle = voices[v].handle
            /\ UNCHANGED tag
<1> DEFINE Fewer == \A s \in Submitters : Pending(s)' \subseteq Pending(s) /\ \A p \in Pending(s) : At(s, p)' = At(s, p)
           Quieter == \A v \in Voices : voices'[v].active => voices[v].active /\ voices'[v].handle = voices[v].handle
<1>1. ASSUME NEW command, Taking(command), Takes(command)
      PROVE  \/ \E v \in Voices : TakePlay(command) /\ Starts(v, command)
             \/ Fewer /\ Quieter /\ UNCHANGED tag
  <2>1. Fewer /\ UNCHANGED tag
    <3>1. /\ \A s \in Submitters : Pending(s)' \subseteq Pending(s)
          /\ \A s \in Submitters : \A p : At(s, p)' = At(s, p)
      BY <1>1, TakingPends
    <3> QED
      BY <1>1, <3>1 DEF Taking, boardVars
  <2>2. CASE TakePlay(command)
    BY <2>1, <2>2, PlayStarts
  <2>3. CASE TakeUnload(command)
    BY <2>1, <2>3 DEF TakeUnload
  <2>4. CASE TakeStop(command)
    BY <2>1, <2>4, StopKeeps DEF Keeps
  <2> QED
    BY <1>1, <2>2, <2>3, <2>4 DEF Takes
<1>2. ASSUME NEW s \in Submitters, Publish(s)
      PROVE  Fewer /\ Quieter /\ UNCHANGED tag
  <2>1. SamePending
    BY <1>2, PublishPends
  <2> QED
    BY <1>2, <2>1 DEF Publish, boardVars, SamePending
<1>3. ASSUME LoadTail \/ StoreHead \/ Mix \/ Looks \/ UNCHANGED vars \/ \E s \in Submitters : LoadClip(s)
      PROVE  Fewer /\ Quieter /\ UNCHANGED tag
  <2>1. Fewer
    BY <1>3, Undisturbed DEF SamePending
  <2>2. UNCHANGED tag
    BY <1>3, Alone
  <2>3. CASE Mix
    BY <2>1, <2>2, <2>3, MixKeeps DEF Keeps
  <2>4. CASE LoadTail \/ StoreHead \/ Looks \/ UNCHANGED vars \/ \E s \in Submitters : LoadClip(s)
    <3>1. UNCHANGED voices
      BY <2>4, Silent
    <3> QED
      BY <2>1, <2>2, <3>1
  <2> QED
    BY <1>3, <2>3, <2>4
<1> HIDE DEF Fewer, Quieter
<1>4. \/ \E s \in Submitters : \E kind, sequence, named : Submits(s, kind, sequence, named)
      \/ \E command : \E v \in Voices : TakePlay(command) /\ Starts(v, command)
      \/ Publishes
      \/ Fewer /\ Quieter /\ UNCHANGED tag
  BY <1>1, <1>2, <1>3, Steps
<1> QED
  BY <1>4 DEF Fewer, Quieter

\* The sound a play starts waited until then, and no other command plays it.
LEMMA PlayAwaits ==
  ASSUME TypeOK, Ends, Meant, OnePlace, NEW command, TakePlay(command)
  PROVE  /\ Awaits(command.handle) /\ ~Awaits(command.handle)'
         /\ \A h : Awaits(h)' => Awaits(h)
<1>1. PICK s \in Submitters : s = audio.s
  BY AudioIs
<1>2. PICK h \in Pending(s) : h = audio.h
  BY <1>1, TakingPends DEF TakePlay
<1>3. /\ command = At(s, h) /\ command.kind = "play"
      /\ \A r \in Submitters : Pending(r)' = IF r = s THEN Pending(r) \ {h} ELSE Pending(r)
      /\ \A r \in Submitters : \A p : At(r, p)' = At(r, p)
  BY <1>1, <1>2, TakingPends DEF TakePlay
<1>4. Awaits(command.handle)
  BY <1>3 DEF Awaits
<1>5. \A x : Awaits(x)' => Awaits(x)
  BY <1>3, AwaitsKept
<1>6. ~Awaits(command.handle)'
  <2> SUFFICES ASSUME Awaits(command.handle)'
               PROVE  FALSE
    OBVIOUS
  <2>1. PICK r \in Submitters : \E p \in Pending(r)' : At(r, p)'.kind = "play" /\ At(r, p)'.handle = command.handle
    BY DEF Awaits
  <2>2. PICK p \in Pending(r)' : At(r, p)'.kind = "play" /\ At(r, p)'.handle = command.handle
    BY <2>1
  <2>3. p \in Pending(r) /\ At(r, p).kind = "play" /\ At(r, p).handle = command.handle /\ ~(r = s /\ p = h)
    BY <1>3, <2>2
  <2>4. CASE r = s
    BY <1>3, <2>3, <2>4 DEF OnePlace
  <2>5. CASE r # s
    <3>1. At(r, p).handle[1] = r /\ At(s, h).handle[1] = s
      BY <2>3, CommandIs
    <3> QED
      BY <1>3, <2>3, <2>5, <3>1
  <2> QED
    BY <2>4, <2>5
<1> QED
  BY <1>4, <1>5, <1>6

\* A sound goes from its producer to one command, and from there to one voice.
LEMMA NextOnePlace ==
  ASSUME TypeOK, Ends, Meant, Sounding, OnePlace, Board, [Next]_vars
  PROVE  OnePlace'
<1>0. \A s \in Submitters : lastSequence[s] \in Nat /\ lastSequence'[s] \in Nat /\ lastSequence[s] <= lastSequence'[s]
  BY RingIs, SequencesGrow
<1>1. ASSUME NEW s \in Submitters, NEW kind, NEW sequence, NEW named, Submits(s, kind, sequence, named)
      PROVE  OnePlace'
  <2> DEFINE c == [kind |-> kind, handle |-> <<s, sequence>>, clip |-> named, n |-> tail[s] + 1]
             new == <<s, lastSequence[s] + 1>>
  <2>1. UNCHANGED <<voices, tag, lastSequence>>
    BY <1>1 DEF Submits, Write, boardVars
  <2>2. /\ Pending(s)' = Pending(s) \cup {tail[s]}
        /\ \A q \in Pending(s) : q < tail[s] /\ At(s, q)' = At(s, q)
        /\ \A q : q = tail[s] => At(s, q)' = c
        /\ \A o \in Submitters \ {s} : Pending(o)' = Pending(o) /\ \A q \in Pending(o) : At(o, q)' = At(o, q)
    BY <1>1, WritePends DEF Submits
  <2>3. c.kind = "play" => c.handle[2] = lastSequence[s] + 1
    BY <1>1 DEF Submits
  <2>4. \A h : Awaits(h)' => Awaits(h) \/ h = new
    BY <1>1, SubmitAwaits
  <2>5. new[1] = s /\ new[2] = lastSequence[s] + 1 /\ lastSequence[s] \in Nat
    BY <1>0
  <2> HIDE DEF c, new
  <2>6. ASSUME NEW q \in Pending(s), At(s, q).kind = "play"
        PROVE  At(s, q).handle[2] \in Nat /\ At(s, q).handle[2] <= lastSequence[s]
    BY <2>2, <2>6, CommandIs, Numbers
  <2>7. ASSUME NEW r \in Submitters, NEW p \in Pending(r)', NEW q \in Pending(r)',
               At(r, p)'.kind = "play", At(r, q)'.kind = "play", At(r, p)'.handle = At(r, q)'.handle
        PROVE  p = q
    <3>1. CASE r # s
      BY <2>2, <2>7, <3>1 DEF OnePlace
    <3>2. CASE r = s /\ p \in Pending(s) /\ q \in Pending(s)
      BY <2>2, <2>7, <3>2 DEF OnePlace
    <3>3. CASE r = s /\ p \notin Pending(s) /\ q \in Pending(s)
      <4>1. p = tail[s] /\ At(s, p)' = c /\ At(s, q)' = At(s, q)
        BY <2>2, <3>3
      <4>2. c.handle[2] = lastSequence[s] + 1 /\ At(s, q).kind = "play" /\ At(s, q).handle = c.handle
        BY <2>3, <2>7, <3>3, <4>1
      <4>3. At(s, q).handle[2] \in Nat /\ At(s, q).handle[2] <= lastSequence[s]
        BY <2>6, <3>3, <4>2
      <4> QED
        BY <2>5, <4>2, <4>3
    <3>4. CASE r = s /\ p \in Pending(s) /\ q \notin Pending(s)
      <4>1. q = tail[s] /\ At(s, q)' = c /\ At(s, p)' = At(s, p)
        BY <2>2, <3>4
      <4>2. c.handle[2] = lastSequence[s] + 1 /\ At(s, p).kind = "play" /\ At(s, p).handle = c.handle
        BY <2>3, <2>7, <3>4, <4>1
      <4>3. At(s, p).handle[2] \in Nat /\ At(s, p).handle[2] <= lastSequence[s]
        BY <2>6, <3>4, <4>2
      <4> QED
        BY <2>5, <4>2, <4>3
    <3>5. CASE r = s /\ p \notin Pending(s) /\ q \notin Pending(s)
      BY <2>2, <3>5
    <3> QED
      BY <3>1, <3>2, <3>3, <3>4, <3>5
  <2>8. ASSUME NEW h \in Handles, h[2] <= lastSequence[h[1]]
        PROVE  h # new
    <3>1. h[2] \in Nat
      BY Numbers DEF Handles
    <3> QED
      BY <2>5, <2>8, <3>1
  <2>9. ASSUME NEW v \in Voices, voices[v].active
        PROVE  ~Awaits(voices[v].handle)'
    <3>1. voices[v].handle # new
      BY <2>8, <2>9 DEF Sounding
    <3>2. ~Awaits(voices[v].handle)
      BY <2>9 DEF OnePlace
    <3> QED
      BY <2>1, <2>4, <3>1, <3>2
  <2>10. ASSUME NEW v \in Voices, tag[v] # None
         PROVE  ~Awaits(tag[v])'
    <3>1. tag[v] \in Handles
      BY <2>10 DEF TypeOK, BoardTypes
    <3>2. tag[v] # new /\ ~Awaits(tag[v])
      BY <2>8, <2>10, <3>1 DEF OnePlace
    <3> QED
      BY <2>1, <2>4, <3>2
  <2> QED
    BY <2>1, <2>7, <2>9, <2>10 DEF OnePlace
<1>2. ASSUME NEW command, NEW v \in Voices, TakePlay(command), Starts(v, command)
      PROVE  OnePlace'
  <2>0. PICK new : new = command.handle
    OBVIOUS
  <2>1. /\ Awaits(new) /\ ~Awaits(new)' /\ \A h : Awaits(h)' => Awaits(h)
    BY <1>2, <2>0, PlayAwaits
  <2>2. /\ ~voices[v].active /\ voices'[v].handle = new
        /\ \A w \in Voices \ {v} : voices'[w] = voices[w]
    BY <1>2, <2>0 DEF Starts
  <2>3. UNCHANGED <<tag, lastSequence>>
    BY <1>2 DEF TakePlay, Taking, boardVars, ringVars
  <2>4. /\ \A s \in Submitters : Pending(s)' \subseteq Pending(s)
        /\ \A s \in Submitters : \A p : At(s, p)' = At(s, p)
    BY <1>2, TakingPends DEF TakePlay
  <2>5. \A s \in Submitters : \A p, q \in Pending(s)' :
          At(s, p)'.kind = "play" /\ At(s, q)'.kind = "play" /\ At(s, p)'.handle = At(s, q)'.handle => p = q
    BY <2>4 DEF OnePlace
  <2>6. \A w \in Voices : voices[w].active => voices[w].handle # new
    BY <2>1 DEF OnePlace
  <2>7. \A w \in Voices : tag[w] # None => tag[w] # new
    BY <2>1 DEF OnePlace
  <2>8. ASSUME NEW w \in Voices, voices'[w].active
        PROVE  ~Awaits(voices[w].handle)'
    <3>1. CASE w = v
      BY <2>1, <2>2, <3>1
    <3>2. CASE w # v
      <4>1. ~Awaits(voices[w].handle) /\ voices'[w] = voices[w]
        BY <2>2, <2>8, <3>2 DEF OnePlace
      <4> QED
        BY <2>1, <4>1
    <3> QED
      BY <3>1, <3>2
  <2>9. ASSUME NEW w \in Voices, NEW u \in Voices, voices'[w].active, voices'[u].active, voices'[w].handle = voices'[u].handle
        PROVE  w = u
    <3>1. CASE w = v
      BY <2>2, <2>6, <2>9, <3>1
    <3>2. CASE u = v
      BY <2>2, <2>6, <2>9, <3>2
    <3>3. CASE w # v /\ u # v
      BY <2>2, <2>9, <3>3 DEF OnePlace
    <3> QED
      BY <3>1, <3>2, <3>3
  <2>10. ASSUME NEW w \in Voices, tag[w] # None
         PROVE  /\ tag[w][2] <= lastSequence[tag[w][1]]
                /\ ~Awaits(tag[w])'
                /\ \A u \in Voices : voices'[u].active /\ voices'[u].handle = tag[w] => u = w
                /\ \A u \in Voices : tag[u] = tag[w] => u = w
    BY <2>1, <2>2, <2>3, <2>7, <2>10 DEF OnePlace
  <2> QED
    BY <2>3, <2>5, <2>8, <2>9, <2>10 DEF OnePlace
<1>3. CASE Publishes
  <2>1. UNCHANGED <<voices, lastSequence>> /\ SamePending
    BY <1>3, Undisturbed, Silent
  <2>2. \A h : Awaits(h)' => Awaits(h)
    BY <2>1, AwaitsKept DEF SamePending
  <2>3. \A s \in Submitters : \A p, q \in Pending(s)' :
          At(s, p)'.kind = "play" /\ At(s, q)'.kind = "play" /\ At(s, p)'.handle = At(s, q)'.handle => p = q
    BY <2>1 DEF OnePlace, SamePending
  <2>4. \A v \in Voices : voices[v].active => ~Awaits(voices[v].handle)'
    BY <2>1, <2>2 DEF OnePlace
  <2>5. ASSUME NEW v \in Voices
        PROVE  tag'[v] = None \/ tag'[v] = tag[v] \/ (voices[v].active /\ tag'[v] = voices[v].handle)
    BY <1>3, TagIs
  <2>6. ASSUME NEW v \in Voices, tag'[v] # None
        PROVE  /\ tag'[v][2] <= lastSequence[tag'[v][1]]
               /\ ~Awaits(tag'[v])
               /\ \A w \in Voices : voices[w].active /\ voices[w].handle = tag'[v] => w = v
               /\ \A w \in Voices : tag[w] = tag'[v] => w = v
    <3>1. CASE tag'[v] = tag[v]
      BY <2>6, <3>1 DEF OnePlace
    <3>2. CASE voices[v].active /\ tag'[v] = voices[v].handle
      BY <2>6, <3>2 DEF OnePlace, Sounding
    <3> QED
      BY <2>5, <2>6, <3>1, <3>2
  <2>7. ASSUME NEW v \in Voices, tag'[v] # None, NEW w \in Voices, tag'[w] = tag'[v]
        PROVE  w = v
    <3>1. CASE tag'[w] = tag[w]
      BY <2>6, <2>7, <3>1
    <3>2. CASE voices[w].active /\ tag'[w] = voices[w].handle
      BY <2>6, <2>7, <3>2
    <3> QED
      BY <2>5, <2>7, <3>1, <3>2
  <2>8. \A v \in Voices : tag'[v] # None => ~Awaits(tag[v])'
    BY <2>2, <2>6
  <2> QED
    BY <2>1, <2>3, <2>4, <2>6, <2>7, <2>8 DEF OnePlace
<1>4. CASE /\ \A s \in Submitters : Pending(s)' \subseteq Pending(s) /\ \A p \in Pending(s) : At(s, p)' = At(s, p)
           /\ \A v \in Voices : voices'[v].active => voices[v].active /\ voices'[v].handle = voices[v].handle
           /\ UNCHANGED tag
  BY <1>0, <1>4, OnePlaceKept DEF TypeOK
<1> QED
  BY <1>1, <1>2, <1>3, <1>4, Quiet

-----------------------------------------------------------------------------
(* The reader.                                                             *)

Issued(h) == h \in Handles /\ h[2] <= lastSequence[h[1]]

\* A sound that was handed out and is over never comes back.
LEMMA OverStays ==
  ASSUME TypeOK, Ends, Meant, Sounding, OnePlace, Board, [Next]_vars, NEW h, Issued(h), Over(h)
  PROVE  Over(h)'
<1>0. /\ h \in Handles /\ h[1] \in Submitters /\ h[2] \in Nat /\ h[2] <= lastSequence[h[1]] /\ h # None
  BY Numbers DEF Issued, Handles, None
<1>1. ~Awaits(h) /\ (\A v \in Voices : voices[v].active => voices[v].handle # h) /\ \A v \in Voices : tag[v] # h
  BY DEF Over
<1>2. ASSUME NEW s \in Submitters, NEW kind, NEW sequence, NEW named, Submits(s, kind, sequence, named)
      PROVE  Over(h)'
  <2>1. UNCHANGED <<voices, tag>>
    BY <1>2 DEF Submits, Write, boardVars
  <2>2. h # <<s, lastSequence[s] + 1>>
    <3>1. lastSequence[s] \in Nat
      BY RingIs
    <3> QED
      BY <1>0, <3>1
  <2>3. ~Awaits(h)'
    BY <1>1, <1>2, <2>2, SubmitAwaits
  <2> QED
    BY <1>1, <2>1, <2>3 DEF Over
<1>3. ASSUME NEW command, NEW v \in Voices, TakePlay(command), Starts(v, command)
      PROVE  Over(h)'
  <2>1. Awaits(command.handle) /\ \A x : Awaits(x)' => Awaits(x)
    BY <1>3, PlayAwaits
  <2>2. UNCHANGED tag
    BY <1>3 DEF TakePlay, Taking, boardVars
  <2>3. command.handle # h
    BY <1>1, <2>1
  <2>4. \A w \in Voices : voices'[w].active => voices'[w].handle # h
    BY <1>1, <1>3, <2>3 DEF Starts
  <2> QED
    BY <1>1, <2>1, <2>2, <2>4 DEF Over
<1>4. CASE Publishes
  <2>1. UNCHANGED voices /\ SamePending
    BY <1>4, Undisturbed, Silent
  <2>2. ~Awaits(h)'
    BY <1>1, <2>1, AwaitsKept DEF SamePending
  <2>3. \A v \in Voices : tag'[v] # h
    BY <1>0, <1>1, <1>4, TagIs
  <2> QED
    BY <1>1, <2>1, <2>2, <2>3 DEF Over
<1>5. CASE /\ \A s \in Submitters : Pending(s)' \subseteq Pending(s) /\ \A p \in Pending(s) : At(s, p)' = At(s, p)
           /\ \A v \in Voices : voices'[v].active => voices[v].active /\ voices'[v].handle = voices[v].handle
           /\ UNCHANGED tag
  <2>1. ~Awaits(h)'
    BY <1>1, <1>5, AwaitsKept
  <2> QED
    BY <1>1, <1>5, <2>1 DEF Over
<1> QED
  BY <1>2, <1>3, <1>4, <1>5, Quiet

\* A sound that leaves the board is over.
LEMMA TagLeaves ==
  ASSUME TypeOK, Ends, Meant, Sounding, OnePlace, Board, [Next]_vars, NEW h \in Handles, NEW e \in Voices, tag[e] = h
  PROVE  tag'[e] = h \/ Over(h)'
<1>0. h # None
  BY Numbers DEF Handles, None
<1>1. SUFFICES ASSUME tag'[e] # tag[e]
               PROVE  Over(h)'
  OBVIOUS
<1>2. Publishes
  BY <1>1, BoardAlone DEF boardVars
<1>3. tag'[e] = None /\ (voices[e].active => voices[e].handle # h)
  BY <1>0, <1>1, <1>2, TagIs
<1>4. /\ ~Awaits(h) /\ (\A w \in Voices : voices[w].active /\ voices[w].handle = h => w = e)
      /\ \A w \in Voices : tag[w] = h => w = e
  BY <1>0 DEF OnePlace
<1>5. UNCHANGED voices /\ SamePending
  BY <1>2, Undisturbed, Silent
<1>6. ~Awaits(h)'
  BY <1>4, <1>5, AwaitsKept DEF SamePending
<1>7. \A w \in Voices : voices[w].active => voices[w].handle # h
  BY <1>3, <1>4
<1>8. \A w \in Voices : tag'[w] # h
  <2> SUFFICES ASSUME NEW w \in Voices, tag'[w] = h
               PROVE  FALSE
    OBVIOUS
  <2>1. tag[w] = h \/ (voices[w].active /\ voices[w].handle = h)
    BY <1>0, <1>2, TagIs
  <2> QED
    BY <1>0, <1>3, <1>4, <1>7, <2>1
<1> QED
  BY <1>5, <1>6, <1>7, <1>8 DEF Over

\* What other threads do to a reader: the sound it asks for may have left the board.
LEMMA ReaderIs ==
  ASSUME TypeOK, [Next]_vars
  PROVE  \/ Looks
         \/ /\ reader'.place = reader.place /\ reader'.asked = reader.asked
            /\ reader'.entry = reader.entry /\ reader'.read = reader.read
            /\ reader'.present => reader.present /\ (UNCHANGED tag \/ \E w \in Voices : tag'[w] = reader.asked)
<1>0. reader = [place |-> reader.place, asked |-> reader.asked, entry |-> reader.entry, read |-> reader.read,
                present |-> reader.present]
  BY DEF TypeOK, ReaderTypes
<1>1. ASSUME NEW v, NEW h, StoreTag(v, h)
      PROVE  /\ reader'.place = reader.place /\ reader'.asked = reader.asked
             /\ reader'.entry = reader.entry /\ reader'.read = reader.read
             /\ reader'.present => reader.present /\ \E w \in Voices : tag'[w] = reader.asked
  <2> DEFINE b == reader.present /\ \E w \in Voices : tag'[w] = reader.asked
  <2>1. reader' = [reader EXCEPT !.present = b]
    BY <1>1 DEF StoreTag
  <2> HIDE DEF b
  <2>2. /\ reader'.place = reader.place /\ reader'.asked = reader.asked
        /\ reader'.entry = reader.entry /\ reader'.read = reader.read /\ reader'.present = b
    BY <1>0, <2>1
  <2> QED
    BY <2>2 DEF b
<1>2. CASE Publishes
  <2>1. UNCHANGED <<reader, tag>> \/ \E v, h : StoreTag(v, h)
    BY <1>2 DEF Publishes, PublishVoice, AssignState, AssignTag, readerVars, boardVars
  <2> QED
    BY <1>1, <2>1
<1>3. ASSUME ~Looks, ~Publishes
      PROVE  UNCHANGED <<reader, tag>>
  BY <1>3, Steps, Alone
<1> QED
  BY <1>2, <1>3

\* What a reader has read is of its sound, or the sound is over for good.
LEMMA NextReads ==
  ASSUME TypeOK, Ends, Meant, Sounding, OnePlace, Board, Reads, PlayheadExact, [Next]_vars
  PROVE  Reads' /\ PlayheadExact'
<1>20. PICK h : h = reader.asked
  OBVIOUS
<1>21. PICK e \in Voices : e = reader.entry
  BY DEF TypeOK, ReaderTypes
<1>22. PICK g : g = reader'.asked
  OBVIOUS
<1>0. /\ reader = [place |-> reader.place, asked |-> h, entry |-> e, read |-> reader.read, present |-> reader.present]
      /\ e \in Nat /\ Voices \subseteq Nat /\ 1 \in Voices /\ \A v \in Voices : v >= 1
      /\ \A v, w \in Voices : w > v => v + 1 \in Voices
  <2>1. Voices \subseteq Nat \ {0} /\ 1 \in Voices /\ \A v, w \in Voices : w > v => v + 1 \in Voices
    BY Numbers
  <2>2. \A v \in Voices : v >= 1
    BY <2>1
  <2> QED
    BY <1>20, <1>21, <2>1, <2>2 DEF TypeOK, ReaderTypes
<1>1. /\ reader.place # "out" => Issued(h)
      /\ reader.present => \E v \in Voices : tag[v] = h
      /\ reader.place = "tag" /\ reader.present => \E v \in Voices : v >= e /\ tag[v] = h
      /\ reader.place \in {"state", "again"} => tag[e] = h \/ Over(h)
      /\ reader.place = "again" => reader.read.handle = h \/ Over(h)
      /\ reader.place = "found" => reader.read.handle = h
      /\ reader.place = "missing" => ~reader.present
  BY <1>20, <1>21 DEF Reads, Issued, PlayheadExact
<1>2. \A x : Issued(x) => Issued(x)'
  <2> SUFFICES ASSUME NEW x, Issued(x)
               PROVE  Issued(x)'
    OBVIOUS
  <2>1. x \in Handles /\ x[1] \in Submitters /\ x[2] \in Nat /\ x[2] <= lastSequence[x[1]]
    BY Numbers DEF Issued, Handles
  <2>2. lastSequence[x[1]] \in Nat /\ lastSequence'[x[1]] \in Nat /\ lastSequence[x[1]] <= lastSequence'[x[1]]
    BY <2>1, RingIs, SequencesGrow
  <2>3. x[2] <= lastSequence'[x[1]]
    BY <2>1, <2>2
  <2> QED
    BY <2>1, <2>3 DEF Issued
<1>3. \A x : Issued(x) /\ Over(x) => Over(x)'
  BY OverStays
<1>4. \A x : Issued(x) => \A v \in Voices : tag[v] = x => tag'[v] = x \/ Over(x)'
  BY TagLeaves DEF Issued
<1>5. \A x : Over(x)' => \A v \in Voices : tag'[v] # x
  BY DEF Over
<1>6. SUFFICES /\ reader'.place # "out" => Issued(g)'
               /\ reader'.present => \E v \in Voices : tag'[v] = g
               /\ reader'.place = "tag" /\ reader'.present => \E v \in Voices : v >= reader'.entry /\ tag'[v] = g
               /\ reader'.place \in {"state", "again"} => tag'[reader'.entry] = g \/ Over(g)'
               /\ reader'.place = "again" => reader'.read.handle = g \/ Over(g)'
               /\ reader'.place = "found" => reader'.read.handle = g
               /\ reader'.place = "missing" => ~reader'.present
  BY <1>22 DEF Reads, PlayheadExact, Issued
\* Others go on.
<1>7. CASE /\ reader'.place = reader.place /\ reader'.asked = reader.asked
           /\ reader'.entry = reader.entry /\ reader'.read = reader.read
           /\ reader'.present => reader.present /\ (UNCHANGED tag \/ \E w \in Voices : tag'[w] = reader.asked)
  <2>1. /\ g = h /\ reader'.entry = e /\ reader'.place = reader.place /\ reader'.read = reader.read
        /\ reader'.present => reader.present /\ (UNCHANGED tag \/ \E w \in Voices : tag'[w] = h)
    BY <1>7, <1>20, <1>21, <1>22
  <2>2. reader'.present => \E v \in Voices : tag'[v] = h
    BY <1>1, <2>1
  <2>3. reader.place = "tag" /\ reader'.present => \E v \in Voices : v >= e /\ tag'[v] = h
    <3> SUFFICES ASSUME reader.place = "tag", reader'.present
                 PROVE  \E v \in Voices : v >= e /\ tag'[v] = h
      OBVIOUS
    <3>1. PICK v \in Voices : v >= e /\ tag[v] = h
      BY <1>1, <2>1
    <3>2. tag'[v] = h \/ Over(h)'
      BY <1>1, <1>4, <3>1
    <3>3. ~Over(h)'
      BY <1>5, <2>2
    <3> QED
      BY <3>1, <3>2, <3>3
  <2>4. reader.place # "out" => Issued(h)'
    BY <1>1, <1>2
  <2>5. reader.place \in {"state", "again"} => tag'[e] = h \/ Over(h)'
    BY <1>1, <1>3, <1>4
  <2>6. reader.place = "again" => reader.read.handle = h \/ Over(h)'
    BY <1>1, <1>3
  <2> QED
    BY <1>1, <2>1, <2>2, <2>3, <2>4, <2>5, <2>6
\* The reader's own steps, which leave everything else alone.
<1>8. CASE PlayheadOf
  <2>1. \E s \in Submitters : \E sequence \in 1..lastSequence[s] :
          reader' = [place |-> "tag", asked |-> <<s, sequence>>, entry |-> 1, read |-> NoState,
                     present |-> \E v \in Voices : tag[v] = <<s, sequence>>]
    BY <1>8 DEF PlayheadOf
  <2>2. PICK s \in Submitters : \E sequence \in 1..lastSequence[s] :
          reader' = [place |-> "tag", asked |-> <<s, sequence>>, entry |-> 1, read |-> NoState,
                     present |-> \E v \in Voices : tag[v] = <<s, sequence>>]
    BY <2>1
  <2>3. PICK sequence \in 1..lastSequence[s] :
          reader' = [place |-> "tag", asked |-> <<s, sequence>>, entry |-> 1, read |-> NoState,
                     present |-> \E v \in Voices : tag[v] = <<s, sequence>>]
    BY <2>2
  <2>4. /\ reader'.place = "tag" /\ g = <<s, sequence>> /\ reader'.entry = 1
        /\ reader'.present => \E v \in Voices : tag[v] = <<s, sequence>>
    BY <1>22, <2>3
  <2>5. UNCHANGED <<tag, lastSequence>>
    BY <1>8 DEF PlayheadOf, boardVars, ringVars
  <2>6. Issued(g)
    <3>1. lastSequence[s] \in Nat /\ lastSequence[s] <= MaxCommands /\ MaxCommands \in Nat
      BY Numbers DEF TypeOK, RingTypes
    <3> QED
      BY <2>4, <3>1 DEF Issued, Handles
  <2>7. Issued(g)'
    BY <1>2, <2>6
  <2>8. reader'.present => \E v \in Voices : v >= 1 /\ tag'[v] = g
    BY <1>0, <2>4, <2>5
  <2> QED
    BY <2>4, <2>7, <2>8
<1>9. ASSUME ReadTag \/ ReadState \/ ReadAgain
      PROVE  /\ tag' = tag /\ state' = state /\ reader.place \in {"tag", "state", "again"}
             /\ Issued(h)' /\ (Over(h) => Over(h)')
  <2>1. tag' = tag /\ state' = state /\ reader.place \in {"tag", "state", "again"}
    BY <1>9 DEF ReadTag, ReadState, ReadAgain, Reading, boardVars
  <2> QED
    BY <1>1, <1>2, <1>3, <2>1
<1>10. CASE ReadTag
  <2>0. reader.place = "tag"
    BY <1>10 DEF ReadTag, Reading
  <2>1. CASE tag[e] = h
    <3>1. reader' = [reader EXCEPT !.place = "state"]
      BY <1>10, <1>20, <1>21, <2>1 DEF ReadTag
    <3>2. reader'.place = "state" /\ g = h /\ reader'.entry = e /\ reader'.present = reader.present
      BY <1>0, <1>22, <3>1
    <3> QED
      BY <1>1, <1>9, <1>10, <2>1, <3>2
  <2>2. CASE tag[e] # h /\ e + 1 \in Voices
    <3>1. reader' = [reader EXCEPT !.entry = e + 1]
      BY <1>10, <1>20, <1>21, <2>2 DEF ReadTag
    <3>2. reader'.place = "tag" /\ g = h /\ reader'.entry = e + 1 /\ reader'.present = reader.present
      BY <1>0, <1>22, <2>0, <3>1
    <3>3. reader.present => \E v \in Voices : v >= e + 1 /\ tag[v] = h
      <4> SUFFICES ASSUME reader.present
                   PROVE  \E v \in Voices : v >= e + 1 /\ tag[v] = h
        OBVIOUS
      <4>1. PICK v \in Voices : v >= e /\ tag[v] = h
        BY <1>1, <2>0
      <4>2. v \in Nat /\ v # e
        BY <1>0, <2>2, <4>1
      <4> QED
        BY <1>0, <4>1, <4>2
    <3> QED
      BY <1>1, <1>9, <1>10, <3>2, <3>3
  <2>3. CASE tag[e] # h /\ e + 1 \notin Voices
    <3>1. reader' = [reader EXCEPT !.place = "missing"]
      BY <1>10, <1>20, <1>21, <2>3 DEF ReadTag
    <3>2. reader'.place = "missing" /\ g = h /\ reader'.present = reader.present
      BY <1>0, <1>22, <3>1
    <3>3. ~reader.present
      <4> SUFFICES ASSUME reader.present
                   PROVE  FALSE
        OBVIOUS
      <4>1. PICK v \in Voices : v >= e /\ tag[v] = h
        BY <1>1, <2>0
      <4>2. v \in Nat /\ v # e /\ v > e
        BY <1>0, <2>3, <4>1
      <4> QED
        BY <1>0, <2>3, <4>2
    <3> QED
      BY <1>9, <1>10, <3>2, <3>3
  <2> QED
    BY <2>1, <2>2, <2>3
<1>11. CASE ReadState
  <2>0. reader.place = "state" /\ reader' = [reader EXCEPT !.read = state[e], !.place = "again"]
    BY <1>11, <1>21 DEF ReadState, Reading
  <2>1. /\ reader'.place = "again" /\ g = h /\ reader'.entry = e /\ reader'.present = reader.present
        /\ reader'.read = state[e]
    BY <1>0, <1>22, <2>0
  <2>2. tag[e] = h \/ Over(h)
    BY <1>1, <2>0
  <2>3. tag[e] = h => state[e].handle = h
    <3>1. h \in Handles
      BY <1>1, <2>0 DEF Issued
    <3>2. h # None
      BY <3>1, Numbers DEF Handles, None
    <3> QED
      BY <3>2 DEF Board
  <2> QED
    BY <1>1, <1>9, <1>11, <2>1, <2>2, <2>3
<1>12. CASE ReadAgain
  <2>0. reader.place = "again" /\ reader' = [reader EXCEPT !.place = IF tag[e] = h THEN "found" ELSE "missing"]
    BY <1>12, <1>21, <1>20 DEF ReadAgain, Reading
  <2>1. /\ reader'.place = IF tag[e] = h THEN "found" ELSE "missing"
        /\ g = h /\ reader'.entry = e /\ reader'.present = reader.present /\ reader'.read = reader.read
    BY <1>0, <1>22, <2>0
  <2>2. Over(h) => \A v \in Voices : tag[v] # h
    BY DEF Over
  <2>3. tag[e] = h => reader.read.handle = h
    BY <1>1, <2>0, <2>2
  <2>4. tag[e] # h => ~reader.present
    BY <1>1, <2>0, <2>2
  <2> QED
    BY <1>1, <1>9, <1>12, <2>1, <2>3, <2>4
<1>13. CASE ReadReturns
  <2>1. reader' = NoReader
    BY <1>13 DEF ReadReturns
  <2> QED
    BY <2>1 DEF NoReader
<1> QED
  BY <1>7, <1>8, <1>10, <1>11, <1>12, <1>13, ReaderIs DEF Looks

-----------------------------------------------------------------------------
(* The invariant, and what the mixer promises.                             *)

\* The mixer starts with nothing played, loaded or shown.
LEMMA InitIInv == Init => IInv
<1> SUFFICES ASSUME Init
             PROVE  IInv
  OBVIOUS
<1>0. /\ Capacity \in Nat \ {0} /\ MaxCommands \in Nat /\ MaxAhead \in Nat /\ MaxBlock \in Nat /\ ClipFrames \in Nat \ {0}
      /\ MaxReads \in Nat /\ 1 \in Submitters /\ 1 \in Voices /\ Cardinality(Voices) \in Nat
      /\ 0 \in 0..MaxCommands /\ 1 \in 1..(MaxCommands + 1) /\ 0 \in 0..(MaxCommands + 1) /\ 0 \in 0..MaxReads
      /\ 0 \in 0..Cardinality(Voices) /\ 0 \in 0..Capacity
  BY Numbers
<1>1. RingTypes
  <2>1. /\ tail = [s \in Submitters |-> 0] /\ head = tail /\ lastSequence = tail
        /\ writing = [s \in Submitters |-> FALSE]
        /\ ring = [s \in Submitters |-> [i \in 0..(Capacity - 1) |-> NoCommand]]
    BY DEF Init
  <2> QED
    BY <1>0, <2>1 DEF RingTypes
<1>2. ClipTypes
  BY <1>0 DEF Init, ClipTypes
<1>3. AudioTypes
  BY <1>0 DEF Init, AudioTypes
<1>4. NoClip \in Clips /\ NoState \in BoardState
  BY <1>0 DEF Clips, NoState, BoardState
<1>5. VoiceTypes
  <2>1. IdleVoice \in Voice
    BY <1>0, <1>4 DEF IdleVoice, Voice, Never
  <2> QED
    BY <2>1 DEF Init, VoiceTypes
<1>6. BoardTypes
  BY <1>4 DEF Init, BoardTypes
<1>7. ReaderTypes
  BY <1>0, <1>4 DEF Init, ReaderTypes, NoReader
<1>8. TypeOK
  BY <1>1, <1>2, <1>3, <1>5, <1>6, <1>7 DEF TypeOK
<1>9. /\ \A s \in Submitters : tail[s] = 0 /\ head[s] = 0 /\ lastSequence[s] = 0 /\ ~writing[s]
      /\ audio.place = "slot" /\ reader = NoReader
      /\ \A v \in Voices : ~voices[v].active /\ tag[v] = None /\ published[v] = None
      /\ \A s \in Submitters : \A i \in ClipSlots :
           /\ clip[s][i] = [state |-> "free", generation |-> 1, view |-> 0]
           /\ lease[s][i] = [voices |-> 0, unloadTaken |-> FALSE] /\ ~handedBack[s][i]
  BY DEF Init, IdleVoice
<1>10. \A s \in Submitters : Cursor(s) = 0 /\ Pending(s) = {}
  BY <1>9 DEF Cursor, Pending
<1>11. Ends
  BY <1>0, <1>9, <1>10 DEF Ends
<1>12. Meant /\ Sounding
  BY <1>9, <1>10 DEF Meant, Sounding
<1>13. Leases
  <2> SUFFICES ASSUME NEW s \in Submitters, NEW i \in ClipSlots
               PROVE  LeaseOf(s, i)
    BY DEF Leases
  <2>1. Naming(s, i) = {} /\ Playing(s, i) = {}
    BY <1>9, <1>10 DEF Naming, Playing
  <2>2. Cardinality({}) = 0
    BY FS_EmptySet
  <2> QED
    BY <1>9, <2>1, <2>2 DEF LeaseOf
<1>14. OnePlace /\ Board
  BY <1>9, <1>10 DEF OnePlace, Board
<1>15. Reads /\ PlayheadExact
  BY <1>9 DEF Reads, PlayheadExact, NoReader
<1> QED
  BY <1>8, <1>11, <1>12, <1>13, <1>14, <1>15 DEF IInv

\* Every step keeps the invariant.
LEMMA NextIInv == IInv /\ [Next]_vars => IInv'
<1> SUFFICES ASSUME TypeOK, Ends, Meant, Sounding, Leases, OnePlace, Board, Reads, PlayheadExact, [Next]_vars
             PROVE  IInv'
  BY DEF IInv
<1>1. TypeOK' /\ Ends' /\ Meant' /\ Sounding'
  BY NextTypes, NextEnds, NextMeant, NextSounding
<1>2. Leases' /\ OnePlace' /\ Board' /\ Reads' /\ PlayheadExact'
  BY NextLeases, NextOnePlace, NextBoard, NextReads
<1> QED
  BY <1>1, <1>2 DEF IInv

\* The inductive invariant holds: the audio thread takes what was meant, a clip is leased as
\* often as voices play it, a sound is in one place and its playhead on one entry.
THEOREM MixerInvariant == Spec => []IInv
<1> QED
  BY InitIInv, NextIInv, PTL DEF Spec

\* Types, and the bounds of the rings, voices and leases (TypeOK).
THEOREM MixerTypeCorrect == Spec => []TypeOK
<1>1. IInv => TypeOK
  BY DEF IInv
<1> QED
  BY <1>1, MixerInvariant, PTL

\* What the voices and the command at the head name is alive.
LEMMA ValidHolds ==
  ASSUME TypeOK, Ends, Meant, Sounding, Leases
  PROVE  ReadsValid
<1> DEFINE Alive(c) == c = NoClip \/ clip[c[1]][c[2]].view = c[3]
<1>1. ASSUME NEW v \in Voices, voices[v].active
      PROVE  Alive(voices[v].clip)
  <2> DEFINE s == voices[v].clip[1]
             i == voices[v].clip[2]
  <2>1. voices[v].clip \in Clips /\ voices[v].clip # NoClip
    BY <1>1 DEF Sounding, TypeOK, VoiceTypes, Voice
  <2>2. voices[v].clip \in Submitters \X ClipSlots \X (1..(MaxCommands + 1))
    BY <2>1 DEF Clips
  <2>3. s \in Submitters /\ i \in ClipSlots
    BY <2>2
  <2>4. v \in Playing(s, i)
    BY <1>1 DEF Playing
  <2>5. LeaseOf(s, i)
    BY <2>3 DEF Leases
  <2> QED
    BY <2>4, <2>5 DEF LeaseOf
<1>2. ASSUME audio.place = "command"
      PROVE  Taken(audio.s).n = audio.h + 1 /\ Alive(Taken(audio.s).clip)
  <2> DEFINE s == audio.s
             p == audio.h
  <2>1. /\ s \in Submitters /\ p \in Nat /\ tail[s] \in Nat /\ Cursor(s) = p /\ p < tail[s]
        /\ Taken(s) = At(s, p)
    <3>1. audio.s \in Submitters /\ audio.h \in Nat /\ audio.tail \in Nat /\ tail[audio.s] \in Nat
      BY AudioIs, RingIs
    <3>2. audio.h < audio.tail /\ audio.tail <= tail[audio.s]
      BY <1>2 DEF Ends
    <3>3. Cursor(audio.s) = audio.h
      BY <1>2 DEF Cursor
    <3> QED
      BY <3>1, <3>2, <3>3 DEF Taken, At
  <2> HIDE DEF s, p
  <2>2. p \in Pending(s)
    BY <2>1 DEF Pending
  <2>3. At(s, p).n = p + 1
    BY <2>1, <2>2, CommandIs
  <2>4. Alive(At(s, p).clip)
    <3>1. CASE At(s, p).kind \in {"play", "unload"}
      <4> DEFINE i == At(s, p).clip[2]
      <4>1. i \in ClipSlots /\ At(s, p).clip[1] = s
        BY <2>1, <2>2, <3>1, CommandIs
      <4>2. p \in Naming(s, i)
        BY <2>2, <3>1 DEF Naming
      <4>3. LeaseOf(s, i)
        BY <2>1, <4>1 DEF Leases
      <4> QED
        BY <4>1, <4>2, <4>3 DEF LeaseOf
    <3>2. CASE At(s, p).kind \notin {"play", "unload"}
      BY <2>1, <2>2, <3>2, CommandIs
    <3> QED
      BY <3>1, <3>2
  <2> QED
    BY <2>1, <2>3, <2>4 DEF s, p
<1> QED
  BY <1>1, <1>2 DEF ReadsValid

\* The audio thread never reads samples that were freed or loaded anew, nor a command its
\* producer has not written (ReadsValid).
THEOREM AlwaysValid == Spec => []ReadsValid
<1>1. IInv => ReadsValid
  BY ValidHolds DEF IInv
<1> QED
  BY <1>1, MixerInvariant, PTL

\* A playhead is that of the sound asked for, and a sound on the board throughout is found
\* (PlayheadExact).
THEOREM AlwaysExact == Spec => []PlayheadExact
<1>1. IInv => PlayheadExact
  BY DEF IInv
<1> QED
  BY <1>1, MixerInvariant, PTL

===============================================================================
