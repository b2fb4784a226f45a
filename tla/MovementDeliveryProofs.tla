------------------------ MODULE MovementDeliveryProofs ------------------------
(***************************************************************************)
(* The safety of MovementDelivery, for every size, fuse and bound.         *)
(*                                                                         *)
(* The inductive invariant has four parts, each on top of the ones before: *)
(*                                                                         *)
(*   Typed      the types, with finitely many windows under way            *)
(*   Host       staging, receipts and records are about the Match's queue, *)
(*              which waits ahead of the cursor                            *)
(*   Chain      every authority under way follows the one read before it   *)
(*              and is followed by the body                                *)
(*   Contained  the prediction is an interval from the authority it read;  *)
(*              no command anywhere is ahead of it, and a sequence of an   *)
(*              epoch has one content                                      *)
(*                                                                         *)
(* Only RunSimulation makes commands.  Of every other step it is shown     *)
(* that what is held afterwards was drawn from what was held before, which *)
(* keeps Contained (Drawn, DrawnKeeps).  A pass of the role that starts an *)
(* epoch's numbering again makes commands no window can have, because none *)
(* belongs to an epoch the role has not read.                              *)
(***************************************************************************)
EXTENDS MovementDelivery, TLAPS, FiniteSetTheorems, SequenceTheorems

-----------------------------------------------------------------------------
(* Commands, windows and the mailbox of snapshots.                         *)

LEMMA Sizes ==
  /\ WireCounterMax \in Nat \ {0} /\ MaxPendingCommands \in Nat \ {0} /\ MaxFutureCommands \in Nat
  /\ MaxPendingCommands <= MaxFutureCommands /\ InitialCommandLead \in Nat \ {0}
  /\ InitialCommandLead <= MaxPendingCommands /\ CatchUpSteps \in Nat \ {0}
  /\ SampleTicks \in Nat \ {0} /\ ResetCooldown \in Nat /\ Retention \in Nat
  /\ MaxEpochs \in Nat \ {0} /\ MaxWindows \in Nat \ {0} /\ MaxSnapshots \in Nat \ {0}
BY SizesAssumption, FusesAssumption, BoundsAssumption

LEMMA CommandsAre ==
  ASSUME NEW f
  PROVE  f \in Commands <=> DOMAIN f \subseteq Numbers /\ f \in [DOMAIN f -> AnyContent]
BY DEF Commands

LEMMA NoCommands ==
  /\ <<>> \in Commands /\ DOMAIN <<>> = {}
  /\ \A f \in Commands : f = <<>> <=> DOMAIN f = {}
<1>1. DOMAIN <<>> = {} /\ <<>> \in [{} -> AnyContent]
  OBVIOUS
<1>2. ASSUME NEW f \in Commands, DOMAIN f = {}
      PROVE  f = <<>>
  BY <1>2, CommandsAre
<1> QED
  BY <1>1, <1>2, CommandsAre

LEMMA PastIs ==
  ASSUME NEW f \in Commands, NEW c \in Nat
  PROVE  /\ Past(f, c) \in Commands
         /\ DOMAIN Past(f, c) = {s \in DOMAIN f : s > c}
         /\ \A s \in DOMAIN Past(f, c) : Past(f, c)[s] = f[s]
<1>1. /\ DOMAIN Past(f, c) = {s \in DOMAIN f : s > c}
      /\ Past(f, c) = [s \in {s \in DOMAIN f : s > c} |-> f[s]]
  BY DEF Past, Restrict
<1>2. \A s \in DOMAIN Past(f, c) : Past(f, c)[s] = f[s]
  BY <1>1
<1>3. DOMAIN f \subseteq Numbers /\ \A s \in DOMAIN f : f[s] \in AnyContent
  BY CommandsAre
<1>4. Past(f, c) \in [DOMAIN Past(f, c) -> AnyContent]
  BY <1>1, <1>3
<1> QED
  BY <1>1, <1>2, <1>3, <1>4, CommandsAre

LEMMA OverIs ==
  ASSUME NEW f \in Commands, NEW g \in Commands
  PROVE  /\ Over(f, g) \in Commands
         /\ DOMAIN Over(f, g) = DOMAIN f \cup DOMAIN g
         /\ \A s \in DOMAIN f : Over(f, g)[s] = f[s]
         /\ \A s \in DOMAIN g \ DOMAIN f : Over(f, g)[s] = g[s]
<1>1. /\ DOMAIN Over(f, g) = DOMAIN f \cup DOMAIN g
      /\ \A s \in DOMAIN f \cup DOMAIN g : Over(f, g)[s] = IF s \in DOMAIN f THEN f[s] ELSE g[s]
      /\ Over(f, g) = [s \in DOMAIN f \cup DOMAIN g |-> Over(f, g)[s]]
  BY DEF Over
<1>2. /\ DOMAIN f \subseteq Numbers /\ \A s \in DOMAIN f : f[s] \in AnyContent
      /\ DOMAIN g \subseteq Numbers /\ \A s \in DOMAIN g : g[s] \in AnyContent
  BY CommandsAre
<1>3. \A s \in DOMAIN f \cup DOMAIN g : Over(f, g)[s] \in AnyContent
  BY <1>1, <1>2
<1> HIDE DEF Over
<1>4. Over(f, g) \in [DOMAIN Over(f, g) -> AnyContent]
  BY <1>1, <1>3
<1> QED
  BY <1>1, <1>2, <1>4, CommandsAre

LEMMA RestrictIs ==
  ASSUME NEW f \in Commands, NEW S \in SUBSET DOMAIN f
  PROVE  /\ Restrict(f, S) \in Commands
         /\ DOMAIN Restrict(f, S) = S
         /\ \A s \in S : Restrict(f, S)[s] = f[s]
<1>1. DOMAIN f \subseteq Numbers /\ \A s \in DOMAIN f : f[s] \in AnyContent
  BY CommandsAre
<1>2. /\ DOMAIN Restrict(f, S) = S /\ \A s \in S : Restrict(f, S)[s] = f[s]
      /\ Restrict(f, S) \in [S -> AnyContent]
  BY <1>1 DEF Restrict
<1> QED
  BY <1>1, <1>2, CommandsAre

LEMMA CommandsFinite ==
  ASSUME NEW S \in SUBSET Numbers
  PROVE  /\ IsFiniteSet(S) /\ Cardinality(S) \in Nat
         /\ \A T \in SUBSET S : Cardinality(T) <= Cardinality(S)
<1>1. IsFiniteSet(Numbers)
  <2>1. 1 \in Int /\ WireCounterMax \in Int
    BY Sizes
  <2> QED
    BY <2>1, FS_Interval DEF Numbers
<1>2. IsFiniteSet(S)
  BY <1>1, FS_Subset
<1> QED
  BY <1>2, FS_Subset, FS_CardinalityType

LEMMA WindowIs ==
  ASSUME NEW s \in Snapshot \cup Window, NEW f \in Commands
  PROVE  /\ WindowOf(s, f) \in Window
         /\ WindowOf(s, f).commands = f /\ SameIdentity(WindowOf(s, f), s)
         /\ WindowOf(s, f).epoch = s.epoch /\ WindowOf(s, f).life = s.life
BY DEF WindowOf, Window, Snapshot, SameIdentity

LEMMA NoWindowIs ==
  /\ NoWindow \in Window /\ NoWindow.commands = <<>>
  /\ NoSnapshot \in Snapshot
  /\ NoSnapshot.epoch = 0 /\ NoSnapshot.life = 0 /\ NoSnapshot.cursor = 0
BY NoCommands, Sizes DEF NoWindow, Window, NoSnapshot, Snapshot

LEMMA LastOfIs ==
  ASSUME NEW T, NEW q \in Seq(T), NEW n \in Nat \ {0}
  PROVE  /\ LastOf(n, q) \in Seq(T) /\ Len(LastOf(n, q)) <= n
         /\ \E d \in Nat :
              /\ Len(LastOf(n, q)) + d = Len(q)
              /\ \A k \in 1..Len(LastOf(n, q)) : LastOf(n, q)[k] = q[k + d]
<1> DEFINE from == IF Len(q) > n THEN Len(q) - n + 1 ELSE 1
<1>1. Len(q) \in Nat /\ from \in 1..(Len(q) + 1) /\ from \in Nat
  OBVIOUS
<1>2. LastOf(n, q) = SubSeq(q, from, Len(q))
  BY DEF LastOf
<1>3. /\ SubSeq(q, from, Len(q)) \in Seq(T)
      /\ Len(SubSeq(q, from, Len(q))) = Len(q) - from + 1
      /\ \A k \in 1..(Len(q) - from + 1) : SubSeq(q, from, Len(q))[k] = q[from + k - 1]
  <2>1. \A i \in from..Len(q) : q[i] \in T
    BY <1>1, ElementOfSeq
  <2> HIDE DEF from
  <2> QED
    BY <1>1, <2>1, SubSeqProperties
<1>4. from - 1 \in Nat /\ Len(q) - from + 1 + (from - 1) = Len(q) /\ Len(q) - from + 1 <= n
  BY <1>1
<1> HIDE DEF from
<1>5. \A k \in 1..(Len(q) - from + 1) : from + k - 1 = k + (from - 1)
  BY <1>1
<1>6. \A k \in 1..Len(LastOf(n, q)) : LastOf(n, q)[k] = q[k + (from - 1)]
  BY <1>2, <1>3, <1>5
<1>7. LastOf(n, q) \in Seq(T) /\ Len(LastOf(n, q)) <= n /\ Len(LastOf(n, q)) + (from - 1) = Len(q)
  BY <1>2, <1>3, <1>4
<1> QED
  BY <1>4, <1>6, <1>7

-----------------------------------------------------------------------------
(* Types.  A life is never above its epoch, for each begins with one.      *)

Typed == TypeOK /\ body.life <= body.epoch /\ IsFiniteSet(inputs)

LEMMA BaseIs ==
  ASSUME TypeOK
  PROVE  /\ Base \in Commands /\ BaseTip \in 0..WireCounterMax /\ Cardinality(DOMAIN Base) <= MaxPendingCommands
         /\ Seeds => /\ DOMAIN Base = (snap.cursor + 1)..BaseTip /\ snap.cursor <= BaseTip
                     /\ BaseTip <= snap.cursor + InitialCommandLead
         /\ ~Seeds => BaseTip = tip /\ Base = IF unread THEN Past(pending, snap.cursor) ELSE pending
<1>1. /\ snap.cursor \in 0..WireCounterMax /\ snap.cursor \in Nat /\ tip \in 0..WireCounterMax /\ WireCounterMax \in Nat
      /\ pending \in Commands /\ Cardinality(DOMAIN pending) <= MaxPendingCommands
  BY Sizes DEF TypeOK, Snapshot
<1>2. CASE Seeds
  <2>1. /\ BaseTip \in 0..WireCounterMax /\ snap.cursor <= BaseTip /\ BaseTip <= snap.cursor + InitialCommandLead
        /\ LeadTip = BaseTip
    BY <1>1, <1>2, Sizes DEF BaseTip, LeadTip, Lesser
  <2>2. Base = [s \in (snap.cursor + 1)..BaseTip |-> snap.cursor]
    BY <1>2, <2>1 DEF Base
  <2>3. DOMAIN Base = (snap.cursor + 1)..BaseTip /\ \A s \in DOMAIN Base : Base[s] = snap.cursor
    BY <2>2
  <2>4. (snap.cursor + 1)..BaseTip \subseteq Numbers /\ snap.cursor \in AnyContent
    BY <1>1, <2>1 DEF Numbers, AnyContent
  <2>5. Base \in [(snap.cursor + 1)..BaseTip -> AnyContent]
    BY <2>2, <2>4
  <2>6. Base \in Commands
    BY <2>3, <2>4, <2>5, CommandsAre
  <2>7. Cardinality((snap.cursor + 1)..BaseTip) <= MaxPendingCommands
    <3> DEFINE a == snap.cursor + 1
               b == BaseTip
    <3>1. a \in Int /\ b \in Int /\ b - a + 1 <= MaxPendingCommands /\ 0 <= MaxPendingCommands
      BY <1>1, <2>1, Sizes
    <3> HIDE DEF a, b
    <3>2. Cardinality(a..b) = IF a > b THEN 0 ELSE b - a + 1
      BY <3>1, FS_Interval
    <3>3. Cardinality(a..b) <= MaxPendingCommands
      BY <3>1, <3>2
    <3> QED
      BY <3>3 DEF a, b
  <2> QED
    BY <1>2, <2>1, <2>3, <2>6, <2>7
<1>3. CASE ~Seeds
  <2>1. BaseTip = tip /\ Base = IF unread THEN Past(pending, snap.cursor) ELSE pending
    BY <1>3 DEF BaseTip, Base
  <2>2. Base \in Commands /\ DOMAIN Base \subseteq DOMAIN pending
    <3>1. /\ Past(pending, snap.cursor) \in Commands
          /\ DOMAIN Past(pending, snap.cursor) = {s \in DOMAIN pending : s > snap.cursor}
      BY <1>1, PastIs
    <3> QED
      BY <1>1, <2>1, <3>1
  <2>3. Cardinality(DOMAIN Base) <= Cardinality(DOMAIN pending)
    BY <1>1, <2>2, CommandsFinite, CommandsAre
  <2>4. Cardinality(DOMAIN Base) \in Nat /\ Cardinality(DOMAIN pending) \in Nat
    BY <1>1, <2>2, CommandsFinite, CommandsAre
  <2> QED
    BY <1>1, <1>3, <2>1, <2>2, <2>3, <2>4, Sizes
<1> QED
  BY <1>2, <1>3

LEMMA RoomIs ==
  ASSUME TypeOK, NEW n \in Nat, n <= Room
  PROVE  /\ BaseTip + n <= WireCounterMax
         /\ n # 0 => Cardinality(DOMAIN Base) + n <= MaxPendingCommands
<1> DEFINE size == Cardinality(DOMAIN Base)
           free == IF size < MaxPendingCommands THEN MaxPendingCommands - size ELSE 0
           left == WireCounterMax - BaseTip
<1>1. BaseTip \in 0..WireCounterMax /\ size \in Nat /\ free \in Nat /\ left \in Nat
  <2>1. BaseTip \in 0..WireCounterMax /\ DOMAIN Base \subseteq Numbers
    BY BaseIs, CommandsAre
  <2>2. size \in Nat
    BY <2>1, CommandsFinite
  <2> QED
    BY <2>1, <2>2, Sizes
<1>2. PICK steps \in Nat : Room = Lesser(Lesser(CatchUpSteps, steps), Lesser(free, left))
  <2>1. (IF Seeds THEN 1
         ELSE IF (IF unread THEN snap ELSE seen).cursor = 0 /\ BaseTip <= InitialCommandLead THEN 2
         ELSE CatchUpSteps) \in Nat
    BY Sizes
  <2> QED
    BY <2>1, Sizes DEF Room
<1>3. Room <= free /\ Room <= left
  <2> HIDE DEF free, left
  <2> QED
    BY <1>1, <1>2, Sizes DEF Lesser
<1> QED
  BY <1>1, <1>2, <1>3, Sizes DEF Lesser

\* What one pass of the role predicts.
LEMMA Predicts ==
  ASSUME TypeOK, NEW n \in 0..CatchUpSteps, NEW content \in Contents, Run(n, content)
  PROVE  /\ pending' \in Commands /\ Cardinality(DOMAIN pending') <= MaxPendingCommands
         /\ tip' = BaseTip + n /\ tip' \in 0..WireCounterMax
         /\ DOMAIN pending' = DOMAIN Base \cup (BaseTip + 1)..tip'
         /\ \A s \in DOMAIN Base : s \notin (BaseTip + 1)..tip' => pending'[s] = Base[s]
<1> DEFINE news == (BaseTip + 1)..(BaseTip + n)
           f == [s \in news |-> content]
<1>1. /\ n \in Nat /\ n <= Room /\ tip' = BaseTip + n /\ pending' = Over(f, Base)
  BY Sizes DEF Run
<1>2. /\ BaseTip \in 0..WireCounterMax /\ Base \in Commands /\ BaseTip + n <= WireCounterMax
      /\ Cardinality(DOMAIN Base) <= MaxPendingCommands
      /\ n # 0 => Cardinality(DOMAIN Base) + n <= MaxPendingCommands
  BY <1>1, BaseIs, RoomIs
<1>3. news \subseteq Numbers /\ content \in AnyContent /\ DOMAIN f = news /\ f \in [news -> AnyContent]
  BY <1>1, <1>2, Sizes DEF Numbers, AnyContent
<1>4. f \in Commands
  BY <1>3, CommandsAre
<1> HIDE DEF f
<1>5. /\ pending' \in Commands /\ DOMAIN pending' = news \cup DOMAIN Base
      /\ \A s \in DOMAIN Base \ news : pending'[s] = Base[s]
  BY <1>1, <1>2, <1>3, <1>4, OverIs
<1>6. Cardinality(news) = n /\ IsFiniteSet(news)
  <2>1. BaseTip + 1 \in Int /\ BaseTip + n \in Int
    BY <1>1, <1>2, Sizes
  <2>2. /\ Cardinality(news) = IF BaseTip + 1 > BaseTip + n THEN 0 ELSE (BaseTip + n) - (BaseTip + 1) + 1
        /\ IsFiniteSet(news)
    BY <2>1, FS_Interval
  <2> QED
    BY <1>1, <1>2, <2>2, Sizes
<1>7. Cardinality(DOMAIN pending') <= MaxPendingCommands
  <2>1. DOMAIN Base \subseteq Numbers /\ IsFiniteSet(DOMAIN Base) /\ Cardinality(DOMAIN Base) \in Nat
    BY <1>2, CommandsAre, CommandsFinite
  <2>2. CASE n = 0
    <3>1. news = {}
      BY <1>2, <2>2, Sizes
    <3> QED
      BY <1>2, <1>5, <3>1
  <2>3. CASE n # 0
    <3>1. news \cap DOMAIN Base \subseteq news /\ IsFiniteSet(news \cap DOMAIN Base)
      BY <1>6, FS_Subset
    <3>2. Cardinality(news \cap DOMAIN Base) \in Nat
      BY <3>1, FS_CardinalityType
    <3>3. Cardinality(news \cup DOMAIN Base) = Cardinality(news) + Cardinality(DOMAIN Base) - Cardinality(news \cap DOMAIN Base)
      BY <1>6, <2>1, FS_Union
    <3>4. Cardinality(news \cup DOMAIN Base) = n + Cardinality(DOMAIN Base) - Cardinality(news \cap DOMAIN Base)
      BY <1>6, <3>3
    <3>5. n + Cardinality(DOMAIN Base) - Cardinality(news \cap DOMAIN Base) <= MaxPendingCommands
      <4> DEFINE x == Cardinality(DOMAIN Base)
                 y == Cardinality(news \cap DOMAIN Base)
      <4>1. x \in Nat /\ y \in Nat /\ x + n <= MaxPendingCommands
        BY <1>2, <2>1, <2>3, <3>2
      <4> HIDE DEF x, y
      <4>2. n + x - y <= MaxPendingCommands
        BY <1>1, <4>1, Sizes
      <4> QED
        BY <4>2 DEF x, y
    <3> QED
      BY <1>5, <3>4, <3>5
  <2> QED
    BY <2>2, <2>3
<1>8. tip' \in 0..WireCounterMax
  BY <1>1, <1>2, Sizes
<1> QED
  BY <1>1, <1>5, <1>7, <1>8

LEMMA RunTyped ==
  ASSUME Typed, RunSimulation
  PROVE  Typed'
<1>1. PICK n \in 0..CatchUpSteps, content \in Contents : Run(n, content)
  BY DEF RunSimulation
<1>2. /\ pending' \in Commands /\ Cardinality(DOMAIN pending') <= MaxPendingCommands /\ tip' \in 0..WireCounterMax
  BY <1>1, Predicts DEF Typed
<1>3. /\ seen' \in {seen, snap} /\ handing' \in {WindowOf(seen', pending'), NoWindow} /\ unread' = FALSE /\ resumed' = FALSE
      /\ UNCHANGED <<snap, interrupted, latest, submitted, wireVars, matchVars, hostVars>>
  BY <1>1 DEF Run
<1>4. seen' \in Snapshot
  BY <1>3 DEF Typed, TypeOK
<1>5. handing' \in Window
  BY <1>2, <1>3, <1>4, WindowIs, NoWindowIs
<1> QED
  BY <1>2, <1>3, <1>4, <1>5 DEF Typed, TypeOK, wireVars, matchVars, hostVars

LEMMA SendInputTyped ==
  ASSUME Typed, SendInput
  PROVE  Typed'
<1> DEFINE commands == Past(handing.commands, snap.cursor)
<1>1. /\ handing' = NoWindow /\ submitted' \in {submitted, commands} /\ latest' \in {latest, WindowOf(handing, commands)}
      /\ UNCHANGED <<seen, pending, tip, snap, unread, interrupted, resumed, wireVars, matchVars, hostVars>>
  BY DEF SendInput
<1>2. commands \in Commands /\ handing \in Window
  <2>1. handing.commands \in Commands /\ handing \in Window /\ snap.cursor \in Nat
    BY Sizes DEF Typed, TypeOK, Window, Snapshot
  <2> QED
    BY <2>1, PastIs
<1> HIDE DEF commands
<1>3. WindowOf(handing, commands) \in Window /\ NoWindow \in Window
  BY <1>2, WindowIs, NoWindowIs
<1> QED
  BY <1>1, <1>2, <1>3 DEF Typed, TypeOK, wireVars, matchVars, hostVars

LEMMA AcknowledgedIs ==
  ASSUME TypeOK, NEW f \in Commands, NEW s \in Snapshot
  PROVE  /\ Acknowledged(f, s) \in Commands
         /\ DOMAIN Acknowledged(f, s) = {k \in DOMAIN f : s.epoch = snap.epoch /\ k > s.cursor}
         /\ \A k \in DOMAIN Acknowledged(f, s) : Acknowledged(f, s)[k] = f[k]
<1>1. s.cursor \in Nat
  BY Sizes DEF Snapshot
<1>2. CASE s.epoch # snap.epoch
  BY <1>2, NoCommands DEF Acknowledged
<1>3. CASE s.epoch = snap.epoch
  BY <1>1, <1>3, PastIs DEF Acknowledged
<1> QED
  BY <1>2, <1>3

LEMMA ReceiveSnapshotTyped ==
  ASSUME Typed, ReceiveSnapshot
  PROVE  Typed'
<1> DEFINE s == Head(snapshots)
           left == Acknowledged(latest.commands, s)
<1>1. /\ snapshots # <<>> /\ snapshots' = Tail(snapshots)
      /\ UNCHANGED <<roleVars, inputs, matchVars, hostVars>>
      /\ \/ UNCHANGED workerVars
         \/ /\ snap' = s /\ unread' = TRUE /\ interrupted' = FALSE /\ resumed' = (resumed \/ interrupted)
            /\ submitted' = Acknowledged(submitted, s)
            /\ latest' \in {NoWindow, WindowOf(latest, left)}
  BY DEF ReceiveSnapshot
<1>2. snapshots \in Seq(Snapshot) /\ Len(snapshots) <= MaxSnapshots /\ latest \in Window /\ submitted \in Commands
  BY DEF Typed, TypeOK
<1>3. s \in Snapshot /\ Tail(snapshots) \in Seq(Snapshot) /\ Len(Tail(snapshots)) <= MaxSnapshots
  <2>1. s \in Snapshot /\ Tail(snapshots) \in Seq(Snapshot) /\ Len(Tail(snapshots)) = Len(snapshots) - 1
    BY <1>1, <1>2, HeadTailProperties
  <2>2. Len(snapshots) \in Nat
    BY <1>2
  <2> QED
    BY <1>2, <2>1, <2>2, Sizes
<1> HIDE DEF s
<1>4. left \in Commands /\ Acknowledged(submitted, s) \in Commands
  <2>1. latest.commands \in Commands
    BY <1>2 DEF Window
  <2> QED
    BY <1>2, <1>3, <2>1, AcknowledgedIs DEF Typed
<1> HIDE DEF left
<1>5. WindowOf(latest, left) \in Window /\ NoWindow \in Window
  BY <1>2, <1>4, WindowIs, NoWindowIs
<1>6. /\ snap' \in Snapshot /\ unread' \in BOOLEAN /\ interrupted' \in BOOLEAN /\ resumed' \in BOOLEAN
      /\ submitted' \in Commands /\ latest' \in Window
  BY <1>1, <1>3, <1>4, <1>5 DEF Typed, TypeOK, workerVars
<1> QED
  BY <1>1, <1>3, <1>6 DEF Typed, TypeOK, roleVars, matchVars, hostVars

LEMMA SendWindowTyped ==
  ASSUME Typed, SendWindow
  PROVE  Typed'
<1>1. /\ latest \in inputs \/ Cardinality(inputs) < MaxWindows
      /\ inputs' = inputs \cup {latest}
      /\ UNCHANGED <<roleVars, latest, snap, unread, interrupted, resumed, submitted, snapshots, matchVars, hostVars>>
  BY DEF SendWindow, Sent
<1>2. /\ IsFiniteSet(inputs) /\ Cardinality(inputs) \in Nat /\ Cardinality(inputs) <= MaxWindows
      /\ inputs \subseteq Window /\ latest \in Window
  BY FS_CardinalityType DEF Typed, TypeOK
<1>3. IsFiniteSet(inputs') /\ Cardinality(inputs') <= MaxWindows
  <2>1. CASE latest \in inputs
    <3>1. inputs' = inputs
      BY <1>1, <2>1
    <3> QED
      BY <1>2, <3>1
  <2>2. CASE latest \notin inputs
    <3>1. /\ IsFiniteSet(inputs \cup {latest})
          /\ Cardinality(inputs \cup {latest}) =
               IF latest \in inputs THEN Cardinality(inputs) ELSE Cardinality(inputs) + 1
      BY <1>2, FS_AddElement
    <3>2. Cardinality(inputs') = Cardinality(inputs) + 1
      BY <1>1, <2>2, <3>1
    <3> QED
      BY <1>1, <1>2, <2>2, <3>1, <3>2, Sizes
  <2> QED
    BY <2>1, <2>2
<1> QED
  BY <1>1, <1>2, <1>3 DEF Typed, TypeOK, roleVars, matchVars, hostVars

LEMMA FewerInputs ==
  ASSUME Typed, inputs' \subseteq inputs
  PROVE  IsFiniteSet(inputs') /\ Cardinality(inputs') <= MaxWindows /\ inputs' \subseteq Window
<1>1. IsFiniteSet(inputs') /\ Cardinality(inputs') <= Cardinality(inputs)
  BY FS_Subset DEF Typed
<1>2. Cardinality(inputs') \in Nat /\ Cardinality(inputs) \in Nat /\ Cardinality(inputs) <= MaxWindows
  BY <1>1, FS_CardinalityType DEF Typed, TypeOK
<1> QED
  BY <1>1, <1>2, Sizes DEF Typed, TypeOK

LEMMA LoseWindowTyped ==
  ASSUME Typed, LoseWindow
  PROVE  Typed'
<1>1. inputs' \subseteq inputs /\ UNCHANGED <<roleVars, workerVars, snapshots, matchVars, hostVars>>
  BY DEF LoseWindow
<1> QED
  BY <1>1, FewerInputs DEF Typed, TypeOK, roleVars, workerVars, matchVars, hostVars

LEMMA SubmitTyped ==
  ASSUME Typed, NEW w \in inputs, SubmitInput(w)
  PROVE  Typed'
<1> DEFINE news == Past(w.commands, body.cursor)
           first == (DOMAIN w.commands \cap records) \ arrived
<1>1. /\ inputs' \subseteq inputs
      /\ UNCHANGED <<roleVars, workerVars, snapshots, body, dead, queued, started, samples, cooldown, records, substituted>>
      /\ \/ UNCHANGED <<staged, receipts, arrived, scheduled>>
         \/ /\ staged' \in {staged, WindowOf(body, Over(staged.commands, news))}
            /\ receipts' = receipts \cup DOMAIN news
            /\ arrived' = arrived \cup first
            /\ scheduled' \in BOOLEAN
  <2>1. /\ inputs' \subseteq inputs
        /\ UNCHANGED <<roleVars, workerVars, snapshots, body, dead, queued, started, samples, cooldown, records, substituted>>
    BY DEF SubmitInput
  <2>2. CASE ~Admissible(w)
    BY <2>1, <2>2 DEF SubmitInput
  <2>3. CASE Admissible(w)
    <3>1. PICK late \in BOOLEAN : scheduled' = (scheduled \/ (first # {} /\ late))
      BY <2>3 DEF SubmitInput
    <3>2. scheduled' \in BOOLEAN
      <4>1. scheduled \in BOOLEAN
        BY DEF Typed, TypeOK
      <4> QED
        BY <3>1, <4>1
    <3>3. /\ staged' \in {staged, WindowOf(body, Over(staged.commands, news))}
          /\ receipts' = receipts \cup DOMAIN news /\ arrived' = arrived \cup first
      BY <2>3 DEF SubmitInput
    <3> QED
      BY <2>1, <3>2, <3>3
  <2> QED
    BY <2>2, <2>3
<1>2. /\ w.commands \in Commands /\ body.cursor \in Nat /\ staged \in Window /\ staged.commands \in Commands
      /\ body \in Snapshot
  BY Sizes DEF Typed, TypeOK, Window, Snapshot
<1>3. news \in Commands
  BY <1>2, PastIs
<1>4. WindowOf(body, Over(staged.commands, news)) \in Window /\ DOMAIN news \subseteq Numbers
  BY <1>2, <1>3, OverIs, WindowIs, CommandsAre
<1> HIDE DEF news
<1>5. /\ staged' \in Window /\ receipts' \in SUBSET Numbers /\ arrived' \in SUBSET records /\ scheduled' \in BOOLEAN
  BY <1>1, <1>4 DEF Typed, TypeOK
<1>6. IsFiniteSet(inputs') /\ Cardinality(inputs') <= MaxWindows /\ inputs' \subseteq Window
  BY <1>1, FewerInputs
<1> QED
  BY <1>1, <1>5, <1>6 DEF Typed, TypeOK, roleVars, workerVars

LEMMA PublishesTyped ==
  ASSUME Typed, body' \in Snapshot, Publishes
  PROVE  snapshots' \in Seq(Snapshot) /\ Len(snapshots') <= MaxSnapshots
<1>1. snapshots \in Seq(Snapshot) /\ Len(snapshots) <= MaxSnapshots /\ MaxSnapshots \in Nat \ {0}
  BY Sizes DEF Typed, TypeOK
<1>2. Append(snapshots, body') \in Seq(Snapshot)
  BY <1>1, AppendProperties
<1> QED
  BY <1>1, <1>2, LastOfIs DEF Publishes

LEMMA ResetTyped ==
  ASSUME Typed, NEW life \in {body.life, body.life + 1}, ResetEpoch(life), dead' \in BOOLEAN, Publishes
  PROVE  Typed'
<1>1. /\ body.epoch < MaxEpochs /\ body' = [epoch |-> body.epoch + 1, life |-> life, cursor |-> 0]
      /\ queued' = <<>> /\ started' = FALSE /\ scheduled' = FALSE /\ samples' = <<>> /\ cooldown' = ResetCooldown
      /\ staged' = NoWindow /\ receipts' = {} /\ records' = {} /\ arrived' = {} /\ substituted' = {}
      /\ UNCHANGED <<roleVars, workerVars, inputs>>
  BY DEF ResetEpoch, NextEpoch, StagingCleared
<1>2. body.epoch \in 0..MaxEpochs /\ body.life \in 0..MaxEpochs /\ body.life <= body.epoch
  BY DEF Typed, TypeOK, Snapshot
<1>3. body' \in Snapshot /\ body'.life <= body'.epoch
  BY <1>1, <1>2, Sizes DEF Snapshot
<1>4. snapshots' \in Seq(Snapshot) /\ Len(snapshots') <= MaxSnapshots
  BY <1>3, PublishesTyped
<1>5. /\ queued' \in Commands /\ samples' \in Seq([pending : Nat, substituted : BOOLEAN]) /\ Len(samples') <= SampleTicks
      /\ cooldown' \in 0..ResetCooldown /\ staged' \in Window
  BY <1>1, NoCommands, NoWindowIs, Sizes
<1>6. /\ seen' \in Snapshot /\ snap' \in Snapshot
      /\ pending' \in Commands /\ Cardinality(DOMAIN pending') <= MaxPendingCommands
      /\ tip' \in 0..WireCounterMax /\ handing' \in Window /\ latest' \in Window
      /\ unread' \in BOOLEAN /\ interrupted' \in BOOLEAN /\ resumed' \in BOOLEAN
      /\ submitted' \in Commands /\ inputs' \in SUBSET Window /\ Cardinality(inputs') <= MaxWindows /\ IsFiniteSet(inputs')
  BY <1>1 DEF Typed, TypeOK, roleVars, workerVars
<1> QED
  BY <1>1, <1>3, <1>4, <1>5, <1>6 DEF Typed, TypeOK

LEMMA QueueIs ==
  ASSUME TypeOK
  PROVE  /\ Queue \in Commands
         /\ DOMAIN Queue = DOMAIN queued \cup DOMAIN staged.commands
         /\ \A s \in DOMAIN queued : Queue[s] = queued[s]
         /\ \A s \in DOMAIN staged.commands \ DOMAIN queued : Queue[s] = staged.commands[s]
<1>1. queued \in Commands /\ staged.commands \in Commands
  BY DEF TypeOK, Window
<1> QED
  BY <1>1, OverIs DEF Queue

LEMMA CoolerTyped == TypeOK => Cooler \in 0..ResetCooldown
<1> SUFFICES ASSUME TypeOK
             PROVE  Cooler \in 0..ResetCooldown
  OBVIOUS
<1>1. cooldown \in 0..ResetCooldown
  BY DEF TypeOK
<1> QED
  BY <1>1, Sizes DEF Cooler

LEMMA DeadTyped == TypeOK /\ dead' \in {dead, TRUE} => dead' \in BOOLEAN
BY DEF TypeOK

LEMMA IdleTyped ==
  ASSUME Typed, StepIdle
  PROVE  Typed'
<1>1. /\ queued' = Queue /\ cooldown' = Cooler /\ dead' \in {dead, TRUE} /\ Publishes /\ body' = body
      /\ UNCHANGED <<roleVars, workerVars, inputs, body, started, scheduled, samples, hostVars>>
  BY DEF StepIdle
<1>2. snapshots' \in Seq(Snapshot) /\ Len(snapshots') <= MaxSnapshots
  BY <1>1, PublishesTyped DEF Typed, TypeOK
<1>3. queued' \in Commands /\ cooldown' \in 0..ResetCooldown /\ dead' \in BOOLEAN
  BY <1>1, QueueIs, CoolerTyped, DeadTyped DEF Typed
<1> QED
  BY <1>1, <1>2, <1>3 DEF Typed, TypeOK, roleVars, workerVars, hostVars

\* What resolving a sequence does, whether or not its command is there.
LEMMA ResolveIs ==
  ASSUME Typed, StepResolve
  PROVE  /\ body.cursor + 1 \in Numbers
         /\ body' = [body EXCEPT !.cursor = body.cursor + 1] /\ body' \in Snapshot
         /\ body'.cursor = body.cursor + 1 /\ body'.epoch = body.epoch /\ body'.life = body.life
         /\ queued' \in Commands /\ DOMAIN queued' = DOMAIN Queue \ {body.cursor + 1}
         /\ \A s \in DOMAIN queued' : queued'[s] = Queue[s]
         /\ staged' = StagedPast(body.cursor + 1)
         /\ receipts' = {s \in receipts : s > body.cursor + 1}
         /\ records' = Kept(records \cup Opened(body.cursor + 1), body.cursor + 1)
         /\ arrived' = arrived \cap records'
         /\ substituted' = IF body.cursor + 1 \in DOMAIN Queue THEN substituted ELSE substituted \cup {body.cursor + 1}
         /\ Publishes
         /\ UNCHANGED <<roleVars, workerVars, inputs>>
<1>1. body.cursor \in Nat /\ body.cursor < WireCounterMax /\ body \in Snapshot
  BY Sizes DEF Typed, TypeOK, Snapshot, StepResolve
<1>2. body.cursor + 1 \in Numbers /\ body.cursor + 1 \in 0..WireCounterMax
  BY <1>1, Sizes DEF Numbers
<1>3. body' = [body EXCEPT !.cursor = body.cursor + 1]
  BY DEF StepResolve
<1>4. /\ body' \in Snapshot
      /\ body'.cursor = body.cursor + 1 /\ body'.epoch = body.epoch /\ body'.life = body.life
  BY <1>1, <1>2, <1>3 DEF Snapshot
<1>5. queued' = Restrict(Queue, DOMAIN Queue \ {body.cursor + 1})
  BY DEF StepResolve
<1>6. /\ queued' \in Commands /\ DOMAIN queued' = DOMAIN Queue \ {body.cursor + 1}
      /\ \A s \in DOMAIN queued' : queued'[s] = Queue[s]
  BY <1>5, QueueIs, RestrictIs DEF Typed
<1>7. /\ staged' = StagedPast(body.cursor + 1)
      /\ receipts' = {s \in receipts : s > body.cursor + 1}
      /\ records' = Kept(records \cup Opened(body.cursor + 1), body.cursor + 1)
      /\ arrived' = arrived \cap records'
      /\ substituted' = IF body.cursor + 1 \in DOMAIN Queue THEN substituted ELSE substituted \cup {body.cursor + 1}
      /\ Publishes
      /\ UNCHANGED <<roleVars, workerVars, inputs>>
  BY DEF StepResolve
<1> QED
  BY <1>2, <1>3, <1>4, <1>6, <1>7

LEMMA StagedPastIs ==
  ASSUME TypeOK, NEW c \in Nat
  PROVE  /\ StagedPast(c) \in Window
         /\ StagedPast(c) # NoWindow => SameIdentity(StagedPast(c), staged)
         /\ DOMAIN StagedPast(c).commands = {s \in DOMAIN staged.commands : s > c}
         /\ \A s \in DOMAIN StagedPast(c).commands : StagedPast(c).commands[s] = staged.commands[s]
<1> DEFINE rest == Past(staged.commands, c)
<1>1. staged \in Window /\ staged.commands \in Commands
  BY DEF TypeOK, Window
<1>2. /\ rest \in Commands /\ DOMAIN rest = {s \in DOMAIN staged.commands : s > c}
      /\ \A s \in DOMAIN rest : rest[s] = staged.commands[s]
  BY <1>1, PastIs
<1>3. StagedPast(c) = IF rest = <<>> THEN NoWindow ELSE WindowOf(staged, rest)
  BY DEF StagedPast
<1> HIDE DEF rest
<1>4. CASE rest = <<>>
  BY <1>2, <1>3, <1>4, NoWindowIs, NoCommands
<1>5. CASE rest # <<>>
  BY <1>1, <1>2, <1>3, <1>5, WindowIs
<1> QED
  BY <1>4, <1>5

LEMMA ResolveTyped ==
  ASSUME Typed, StepResolve
  PROVE  Typed'
<1> DEFINE n == body.cursor + 1
           left == Restrict(Queue, DOMAIN Queue \ {n})
           sample == [pending |-> ContiguousPending(left, n), substituted |-> ~(n \in DOMAIN Queue)]
<1>1. /\ started' = TRUE /\ samples' = LastOf(SampleTicks, Append(samples, sample)) /\ cooldown' = Cooler
      /\ scheduled' = (Cooler = 0 /\ (Starved(samples', left) \/ Backlogged(samples')))
      /\ dead' \in {dead, TRUE}
  BY DEF StepResolve
<1>2. left \in Commands
  BY QueueIs, RestrictIs DEF Typed
<1>3. ContiguousPending(left, n) \in Nat
  <2>1. DOMAIN left \subseteq Numbers
    BY <1>2, CommandsAre
  <2>2. {s \in DOMAIN left : (n + 1)..s \subseteq DOMAIN left} \in SUBSET Numbers
    BY <2>1
  <2> QED
    BY <2>2, CommandsFinite DEF ContiguousPending
<1> HIDE DEF left
<1>4. sample \in [pending : Nat, substituted : BOOLEAN]
  BY <1>3
<1> HIDE DEF sample
<1>5. samples' \in Seq([pending : Nat, substituted : BOOLEAN]) /\ Len(samples') <= SampleTicks
  <2>1. Append(samples, sample) \in Seq([pending : Nat, substituted : BOOLEAN])
    BY <1>4, AppendProperties DEF Typed, TypeOK
  <2> QED
    BY <1>1, <2>1, Sizes, LastOfIs
<1>6. cooldown' \in 0..ResetCooldown /\ dead' \in BOOLEAN
  BY <1>1, CoolerTyped, DeadTyped DEF Typed
<1>7. scheduled' \in BOOLEAN
  BY <1>1, Zenon
<1>8. snapshots' \in Seq(Snapshot) /\ Len(snapshots') <= MaxSnapshots
  BY ResolveIs, PublishesTyped
<1>9. staged' \in Window
  <2>1. n \in Nat
    BY ResolveIs DEF Numbers
  <2> QED
    BY <2>1, ResolveIs, StagedPastIs DEF Typed
<1>10. /\ receipts' \in SUBSET Numbers /\ records' \in SUBSET Numbers /\ arrived' \in SUBSET records'
       /\ substituted' \in SUBSET Numbers
  BY ResolveIs DEF Typed, TypeOK, Kept, Opened
<1>11. body'.life <= body'.epoch
  BY ResolveIs DEF Typed
<1>12. /\ seen' \in Snapshot /\ snap' \in Snapshot
       /\ pending' \in Commands /\ Cardinality(DOMAIN pending') <= MaxPendingCommands
       /\ tip' \in 0..WireCounterMax /\ handing' \in Window /\ latest' \in Window
       /\ unread' \in BOOLEAN /\ interrupted' \in BOOLEAN /\ resumed' \in BOOLEAN
       /\ submitted' \in Commands /\ inputs' \in SUBSET Window /\ Cardinality(inputs') <= MaxWindows /\ IsFiniteSet(inputs')
  BY ResolveIs DEF Typed, TypeOK, roleVars, workerVars
<1> QED
  BY <1>1, <1>5, <1>6, <1>7, <1>8, <1>9, <1>10, <1>11, <1>12, ResolveIs DEF Typed, TypeOK

\* The respawn and the rotation, by what they share.
Resets(life) ==
  /\ life \in {body.life, body.life + 1}
  /\ ResetEpoch(life) /\ dead' \in BOOLEAN /\ Publishes

LEMMA ResetsAre ==
  ASSUME TypeOK, StepRespawn \/ StepRotate
  PROVE  \E life : Resets(life)
<1>1. CASE StepRespawn
  <2>1. Resets(body.life + 1)
    BY <1>1 DEF StepRespawn, Resets
  <2> QED
    BY <2>1
<1>2. CASE StepRotate
  <2>1. Resets(body.life)
    BY <1>2, DeadTyped DEF StepRotate, Resets
  <2> QED
    BY <2>1
<1> QED
  BY <1>1, <1>2

LEMMA InitTyped == Init => Typed
<1> SUFFICES ASSUME Init
             PROVE  Typed
  OBVIOUS
<1>1. inputs = {} /\ IsFiniteSet(inputs) /\ Cardinality(inputs) = 0
  BY FS_EmptySet DEF Init
<1>2. pending = <<>> /\ Cardinality(DOMAIN pending) = 0
  <2>1. DOMAIN pending = {} /\ pending = <<>>
    BY NoCommands DEF Init
  <2> QED
    BY <2>1, FS_EmptySet
<1>3. snapshots = <<>> /\ samples = <<>> /\ Len(<<>>) = 0
  BY DEF Init
<1>4. body \in Snapshot /\ body.life <= body.epoch
  BY Sizes DEF Init, Snapshot
<1>5. /\ seen \in Snapshot /\ snap \in Snapshot /\ pending \in Commands /\ Cardinality(DOMAIN pending) <= MaxPendingCommands
      /\ tip \in 0..WireCounterMax /\ handing \in Window /\ latest \in Window /\ submitted \in Commands
      /\ queued \in Commands /\ staged \in Window /\ cooldown \in 0..ResetCooldown
  BY <1>2, NoCommands, NoWindowIs, Sizes DEF Init
<1>6. inputs \in SUBSET Window /\ Cardinality(inputs) <= MaxWindows
  BY <1>1, Sizes
<1>7. /\ snapshots \in Seq(Snapshot) /\ Len(snapshots) <= MaxSnapshots
      /\ samples \in Seq([pending : Nat, substituted : BOOLEAN]) /\ Len(samples) <= SampleTicks
  <2>1. snapshots \in Seq(Snapshot) /\ samples \in Seq([pending : Nat, substituted : BOOLEAN])
    BY <1>3
  <2>2. Len(snapshots) = 0 /\ Len(samples) = 0
    BY <1>3
  <2> QED
    BY <2>1, <2>2, Sizes
<1>8. /\ unread = FALSE /\ interrupted = FALSE /\ resumed = FALSE /\ dead = FALSE /\ started = FALSE
      /\ scheduled = FALSE /\ receipts = {} /\ records = {} /\ arrived = {} /\ substituted = {}
  BY DEF Init
<1> QED
  BY <1>1, <1>4, <1>5, <1>6, <1>7, <1>8 DEF Typed, TypeOK

LEMMA StepTyped == Typed /\ [Next]_vars => Typed'
<1> SUFFICES ASSUME Typed, [Next]_vars
             PROVE  Typed'
  OBVIOUS
<1>1. CASE Interrupt
  BY <1>1 DEF Interrupt, Typed, TypeOK, roleVars, wireVars, matchVars, hostVars
<1>2. CASE ReceiveInput
  BY <1>2, SubmitTyped DEF ReceiveInput
<1>3. CASE StepRespawn \/ StepRotate
  BY <1>3, ResetsAre, ResetTyped DEF Resets, Typed
<1>4. CASE UNCHANGED vars
  BY <1>4 DEF vars, Typed, TypeOK, roleVars, workerVars, wireVars, matchVars, hostVars
<1> QED
  BY <1>1, <1>2, <1>3, <1>4, RunTyped, SendInputTyped, ReceiveSnapshotTyped, SendWindowTyped, LoseWindowTyped,
     IdleTyped, ResolveTyped DEF Next

LEMMA AlwaysTyped == Spec => []Typed
<1> QED
  BY InitTyped, StepTyped, PTL DEF Spec

\* Every variable keeps its type: no sequence passes the counter, no mailbox its size
\* (LocalPlayerPrediction::PredictStep, PvpMatch::Tick).
THEOREM MovementTypeCorrect == Spec => []TypeOK
<1>1. Typed => TypeOK
  BY DEF Typed
<1> QED
  BY <1>1, AlwaysTyped, PTL

-----------------------------------------------------------------------------
(* The host: what is staged, the receipts and the records.                 *)

\* What is queued is still to be resolved.
Ahead == \A s \in DOMAIN queued : s > body.cursor

Host == StagedAdmissible /\ RecordsMatch /\ Ahead

LEMMA HostKept ==
  ASSUME Host, UNCHANGED <<body, queued, staged, receipts, records, substituted>>
  PROVE  Host'
BY DEF Host, StagedAdmissible, RecordsMatch, Ahead, Queue, SameIdentity, Agree

LEMMA SubmitIs ==
  ASSUME Typed, NEW w \in inputs, SubmitInput(w)
  PROVE  /\ inputs' \subseteq inputs
         /\ UNCHANGED <<roleVars, workerVars, snapshots, body, queued, records, substituted>>
         /\ \/ UNCHANGED <<staged, receipts>>
            \/ /\ Admissible(w)
               /\ receipts' = receipts \cup DOMAIN Past(w.commands, body.cursor)
               /\ \/ staged' = staged /\ DOMAIN Past(w.commands, body.cursor) = {}
                  \/ staged' = WindowOf(body, Over(staged.commands, Past(w.commands, body.cursor)))
<1>1. /\ inputs' \subseteq inputs
      /\ UNCHANGED <<roleVars, workerVars, snapshots, body, queued, records, substituted>>
  BY DEF SubmitInput
<1>2. CASE ~Admissible(w)
  BY <1>1, <1>2 DEF SubmitInput
<1>3. CASE Admissible(w)
  <2> DEFINE news == Past(w.commands, body.cursor)
  <2>1. /\ staged' = IF news = <<>> THEN staged ELSE WindowOf(body, Over(staged.commands, news))
        /\ receipts' = receipts \cup DOMAIN news
    BY <1>3 DEF SubmitInput
  <2>2. news = <<>> => DOMAIN news = {}
    BY NoCommands
  <2> QED
    BY <1>1, <1>3, <2>1, <2>2
<1> QED
  BY <1>2, <1>3

LEMMA SubmitHost ==
  ASSUME Typed, Host, NEW w \in inputs, SubmitInput(w)
  PROVE  Host'
<1> DEFINE news == Past(w.commands, body.cursor)
<1>1. UNCHANGED <<body, queued, records, substituted>>
  BY SubmitIs
<1>2. CASE UNCHANGED <<staged, receipts>>
  BY <1>1, <1>2, HostKept
<1>3. CASE /\ Admissible(w)
           /\ receipts' = receipts \cup DOMAIN news
           /\ staged' = staged /\ DOMAIN news = {}
  <2>1. receipts' = receipts
    BY <1>3
  <2> QED
    BY <1>1, <1>3, <2>1, HostKept
<1>4. CASE /\ Admissible(w)
           /\ receipts' = receipts \cup DOMAIN news
           /\ staged' = WindowOf(body, Over(staged.commands, news))
  <2>1. /\ w.commands \in Commands /\ body.cursor \in Nat /\ staged.commands \in Commands
        /\ body \in Snapshot
    BY Sizes DEF Typed, TypeOK, Window, Snapshot
  <2>2. /\ news \in Commands /\ DOMAIN news = {s \in DOMAIN w.commands : s > body.cursor}
        /\ Agree(news, queued)
        /\ \A s \in DOMAIN w.commands : s <= body.cursor + MaxFutureCommands
    BY <1>4, <2>1, PastIs DEF Admissible, AdmitInput
  <2> HIDE DEF news
  <2>3. /\ staged'.commands = Over(staged.commands, news) /\ SameIdentity(staged', body)
        /\ DOMAIN staged'.commands = DOMAIN staged.commands \cup DOMAIN news
        /\ \A s \in DOMAIN staged.commands : staged'.commands[s] = staged.commands[s]
        /\ \A s \in DOMAIN news \ DOMAIN staged.commands : staged'.commands[s] = news[s]
    <3>1. /\ Over(staged.commands, news) \in Commands
          /\ DOMAIN Over(staged.commands, news) = DOMAIN staged.commands \cup DOMAIN news
          /\ \A s \in DOMAIN staged.commands : Over(staged.commands, news)[s] = staged.commands[s]
          /\ \A s \in DOMAIN news \ DOMAIN staged.commands : Over(staged.commands, news)[s] = news[s]
      BY <2>1, <2>2, OverIs
    <3>2. staged'.commands = Over(staged.commands, news) /\ SameIdentity(staged', body)
      BY <1>4, <2>1, <3>1, WindowIs DEF news
    <3> QED
      BY <3>1, <3>2
  <2>4. /\ Agree(staged.commands, queued)
        /\ \A s \in DOMAIN staged.commands : body.cursor < s /\ s <= body.cursor + MaxFutureCommands
    <3>1. CASE staged = NoWindow
      BY <3>1, NoWindowIs, NoCommands DEF Agree
    <3>2. CASE staged # NoWindow
      BY <3>2 DEF Host, StagedAdmissible
    <3> QED
      BY <3>1, <3>2
  <2>5. StagedAdmissible'
    <3>1. Agree(staged'.commands, queued)
      BY <2>2, <2>3, <2>4 DEF Agree
    <3>2. \A s \in DOMAIN staged'.commands : body.cursor < s /\ s <= body.cursor + MaxFutureCommands
      BY <2>1, <2>2, <2>3, <2>4
    <3>3. SameIdentity(staged', body')
      BY <1>1, <2>3 DEF SameIdentity
    <3> QED
      BY <1>1, <3>1, <3>2, <3>3 DEF StagedAdmissible
  <2>6. RecordsMatch'
    <3>1. receipts = DOMAIN queued \cup DOMAIN staged.commands
      BY QueueIs DEF Host, RecordsMatch, Typed
    <3>2. DOMAIN Queue' = DOMAIN queued \cup DOMAIN staged'.commands
      BY <1>1 DEF Queue, Over
    <3>3. receipts' = DOMAIN Queue'
      BY <1>4, <2>3, <3>1, <3>2
    <3> QED
      BY <1>1, <3>3 DEF Host, RecordsMatch
  <2> QED
    BY <1>1, <2>5, <2>6 DEF Host, Ahead
<1> QED
  BY <1>2, <1>3, <1>4, SubmitIs

LEMMA ResetHost ==
  ASSUME NEW life, Resets(life)
  PROVE  Host'
<1>1. /\ body'.cursor = 0 /\ queued' = <<>> /\ staged' = NoWindow /\ receipts' = {} /\ records' = {} /\ substituted' = {}
  BY DEF Resets, ResetEpoch, NextEpoch, StagingCleared
<1>2. DOMAIN Queue' = {}
  BY <1>1, NoWindowIs, NoCommands DEF Queue, Over
<1> QED
  BY <1>1, <1>2, NoCommands DEF Host, StagedAdmissible, RecordsMatch, Ahead

LEMMA IdleHost ==
  ASSUME Typed, Host, StepIdle
  PROVE  Host'
<1>1. queued' = Queue /\ UNCHANGED <<body, staged, receipts, records, substituted>>
  BY DEF StepIdle, hostVars
<1>2. /\ DOMAIN Queue = DOMAIN queued \cup DOMAIN staged.commands
      /\ \A s \in DOMAIN queued : Queue[s] = queued[s]
      /\ \A s \in DOMAIN staged.commands \ DOMAIN queued : Queue[s] = staged.commands[s]
  BY QueueIs DEF Typed
<1>3. StagedAdmissible'
  <2> SUFFICES ASSUME staged # NoWindow
               PROVE  /\ SameIdentity(staged, body) /\ Agree(staged.commands, Queue)
                      /\ \A s \in DOMAIN staged.commands : body.cursor < s /\ s <= body.cursor + MaxFutureCommands
    BY <1>1 DEF StagedAdmissible, SameIdentity
  <2>1. /\ SameIdentity(staged, body) /\ Agree(staged.commands, queued)
        /\ \A s \in DOMAIN staged.commands : body.cursor < s /\ s <= body.cursor + MaxFutureCommands
    BY DEF Host, StagedAdmissible
  <2> QED
    BY <1>2, <2>1 DEF Agree
<1>4. Ahead'
  <2>1. \A s \in DOMAIN staged.commands : body.cursor < s
    BY NoWindowIs, NoCommands DEF Host, StagedAdmissible
  <2>2. body.cursor \in Nat /\ DOMAIN staged.commands \subseteq Numbers
    BY Sizes, CommandsAre DEF Typed, TypeOK, Snapshot, Window
  <2> QED
    BY <1>1, <1>2, <2>1, <2>2, Sizes DEF Host, Ahead, Numbers
<1>5. RecordsMatch'
  <2>1. DOMAIN Queue' = DOMAIN Queue
    BY <1>1, <1>2 DEF Queue, Over
  <2> QED
    BY <1>1, <2>1 DEF Host, RecordsMatch
<1> QED
  BY <1>3, <1>4, <1>5 DEF Host

LEMMA ResolveHost ==
  ASSUME Typed, Host, StepResolve
  PROVE  Host'
<1> DEFINE n == body.cursor + 1
<1>1. /\ n \in Numbers /\ n \in Nat /\ body.cursor \in Nat /\ MaxFutureCommands \in Nat /\ Retention \in Nat
      /\ body'.cursor = n /\ body'.epoch = body.epoch /\ body'.life = body.life
  <2>1. body.cursor \in Nat /\ MaxFutureCommands \in Nat /\ Retention \in Nat
    BY Sizes DEF Typed, TypeOK, Snapshot
  <2>2. n \in Numbers /\ body'.cursor = n /\ body'.epoch = body.epoch /\ body'.life = body.life
    BY ResolveIs
  <2> QED
    BY <2>1, <2>2
<1>2. /\ DOMAIN Queue = DOMAIN queued \cup DOMAIN staged.commands /\ receipts = DOMAIN Queue
      /\ DOMAIN queued' = DOMAIN Queue \ {n}
      /\ \A s \in DOMAIN queued' : queued'[s] = Queue[s]
  BY ResolveIs, QueueIs DEF Typed, Host, RecordsMatch
<1>3. /\ \A s \in DOMAIN queued : Queue[s] = queued[s]
      /\ \A s \in DOMAIN staged.commands \ DOMAIN queued : Queue[s] = staged.commands[s]
  BY QueueIs DEF Typed
<1>4. /\ staged' # NoWindow => SameIdentity(staged', staged)
      /\ DOMAIN staged'.commands = {s \in DOMAIN staged.commands : s > n}
      /\ \A s \in DOMAIN staged'.commands : staged'.commands[s] = staged.commands[s]
  BY <1>1, ResolveIs, StagedPastIs DEF Typed
<1>5. \A s \in DOMAIN Queue : s \in Nat /\ s > body.cursor
  <2>1. \A s \in DOMAIN staged.commands : body.cursor < s
    BY NoWindowIs, NoCommands DEF Host, StagedAdmissible
  <2>2. DOMAIN Queue \subseteq Numbers
    BY QueueIs, CommandsAre DEF Typed
  <2> QED
    BY <1>1, <1>2, <2>1, <2>2, Sizes DEF Host, Ahead, Numbers
<1> HIDE DEF n
<1>6. Ahead'
  BY <1>1, <1>2, <1>5 DEF Ahead, n
<1>7. StagedAdmissible'
  <2> SUFFICES ASSUME staged' # NoWindow
               PROVE  /\ SameIdentity(staged', body') /\ Agree(staged'.commands, queued')
                      /\ \A s \in DOMAIN staged'.commands : n < s /\ s <= n + MaxFutureCommands
    BY <1>1 DEF StagedAdmissible
  <2>1. staged # NoWindow
    <3> SUFFICES ASSUME staged = NoWindow
                 PROVE  FALSE
      OBVIOUS
    <3>1. Past(staged.commands, n) = <<>>
      BY <1>1, NoWindowIs, NoCommands, PastIs
    <3> QED
      BY <3>1, ResolveIs DEF StagedPast, n
  <2>2. /\ SameIdentity(staged, body) /\ Agree(staged.commands, queued)
        /\ \A s \in DOMAIN staged.commands : s <= body.cursor + MaxFutureCommands
    BY <2>1 DEF Host, StagedAdmissible
  <2>3. SameIdentity(staged', body')
    BY <1>1, <1>4, <2>2 DEF SameIdentity
  <2>4. Agree(staged'.commands, queued')
    BY <1>2, <1>3, <1>4, <2>2 DEF Agree
  <2>5. \A s \in DOMAIN staged'.commands : n < s /\ s <= n + MaxFutureCommands
    BY <1>1, <1>2, <1>4, <1>5, <2>2 DEF n
  <2> QED
    BY <2>3, <2>4, <2>5
<1>8. RecordsMatch'
  <2>1. DOMAIN Queue' = DOMAIN queued' \cup DOMAIN staged'.commands
    BY DEF Queue, Over
  <2>2. receipts' = {s \in receipts : s > n}
    BY ResolveIs DEF n
  <2>3. receipts' = DOMAIN Queue'
    BY <1>1, <1>2, <1>4, <1>5, <2>1, <2>2 DEF n
  <2>4. substituted' = substituted \cup Opened(n) /\ Opened(n) \subseteq {n}
    BY <1>2, ResolveIs DEF Opened, n
  <2>5. records' = {s \in records \cup Opened(n) : s + Retention >= n}
    BY ResolveIs DEF Kept, n
  <2>6. records = {s \in substituted : body.cursor <= s + Retention} /\ substituted \subseteq Numbers
    BY DEF Host, RecordsMatch, Typed, TypeOK
  <2>7. \A s \in substituted : s \in Nat
    BY <2>6, Sizes DEF Numbers
  <2>8. \A s \in substituted : s + Retention >= n => body.cursor <= s + Retention
    BY <1>1, <2>7 DEF n
  <2>9. \A s \in substituted \cup Opened(n) : s + Retention >= n <=> n <= s + Retention
    BY <1>1, <2>4, <2>7
  <2>10. records' = {s \in substituted \cup Opened(n) : n <= s + Retention}
    BY <2>5, <2>6, <2>8, <2>9
  <2> QED
    BY <1>1, <2>3, <2>4, <2>10 DEF RecordsMatch
<1> QED
  BY <1>6, <1>7, <1>8 DEF Host

LEMMA InitHost == Init => Host
<1> SUFFICES ASSUME Init
             PROVE  Host
  OBVIOUS
<1>1. queued = <<>> /\ staged = NoWindow /\ receipts = {} /\ records = {} /\ substituted = {}
  BY DEF Init
<1>2. DOMAIN Queue = {}
  BY <1>1, NoWindowIs, NoCommands DEF Queue, Over
<1> QED
  BY <1>1, <1>2, NoCommands DEF Host, StagedAdmissible, RecordsMatch, Ahead

\* The steps of the Client and of the network.
ClientSteps == RunSimulation \/ SendInput \/ ReceiveSnapshot \/ Interrupt \/ SendWindow \/ LoseWindow

LEMMA StepHost == Typed /\ Host /\ [Next]_vars => Host'
<1> SUFFICES ASSUME Typed, Host, [Next]_vars
             PROVE  Host'
  OBVIOUS
<1>1. CASE ClientSteps \/ UNCHANGED vars
  <2>1. UNCHANGED <<matchVars, hostVars>>
    BY <1>1 DEF ClientSteps, RunSimulation, Run, SendInput, ReceiveSnapshot, Interrupt, SendWindow, LoseWindow, vars
  <2> QED
    BY <2>1, HostKept DEF matchVars, hostVars
<1>2. CASE ReceiveInput
  BY <1>2, SubmitHost DEF ReceiveInput
<1>3. CASE StepRespawn \/ StepRotate
  BY <1>3, ResetsAre, ResetHost DEF Typed
<1> QED
  BY <1>1, <1>2, <1>3, IdleHost, ResolveHost DEF Next, ClientSteps

LEMMA AlwaysHost == Spec => []Host
<1> QED
  BY InitHost, StepHost, AlwaysTyped, PTL DEF Spec

\* Whatever is staged can be handed over at the next tick (PvpMatch::Step, SubmitInput).
THEOREM AlwaysStaged == Spec => []StagedAdmissible
<1>1. Host => StagedAdmissible
  BY DEF Host
<1> QED
  BY <1>1, AlwaysHost, PTL

\* The host's receipts and records are the Match's queue and substitutes
\* (MatchRuntimeHost::TrackSlack).
THEOREM AlwaysRecorded == Spec => []RecordsMatch
<1>1. Host => RecordsMatch
  BY DEF Host
<1> QED
  BY <1>1, AlwaysHost, PTL

-----------------------------------------------------------------------------
(* Authority only goes forward, from the body to the thread that reads it. *)

Chain ==
  /\ Follows(snap, seen) /\ Follows(body, snap) /\ body.epoch >= 1
  /\ IF unread THEN snap.epoch >= 1 ELSE snap = seen
  /\ \A k \in 1..Len(snapshots) :
       snapshots[k].epoch >= 1 /\ Follows(snapshots[k], snap) /\ Follows(body, snapshots[k])
  /\ \A j, k \in 1..Len(snapshots) : j < k => Follows(snapshots[k], snapshots[j])

LEMMA SnapshotIs ==
  ASSUME NEW s \in Snapshot
  PROVE  s.epoch \in Nat /\ s.life \in Nat /\ s.cursor \in Nat
BY Sizes DEF Snapshot

LEMMA FollowsSelf ==
  ASSUME NEW s \in Snapshot
  PROVE  Follows(s, s)
BY SnapshotIs DEF Follows

LEMMA FollowsThrough ==
  ASSUME NEW a \in Snapshot, NEW b \in Snapshot, NEW c \in Snapshot, Follows(b, a), Follows(c, b)
  PROVE  Follows(c, a)
BY SnapshotIs DEF Follows

LEMMA FollowsInEpoch ==
  ASSUME NEW a \in Snapshot, NEW b \in Snapshot, Follows(b, a)
  PROVE  /\ a.epoch <= b.epoch
         /\ a.epoch = b.epoch => a.life = b.life /\ a.cursor <= b.cursor
BY SnapshotIs DEF Follows

LEMMA InitChain == Init => Chain
<1> SUFFICES ASSUME Init
             PROVE  Chain
  OBVIOUS
<1>1. /\ seen = NoSnapshot /\ snap = NoSnapshot /\ unread = FALSE /\ snapshots = <<>> /\ Len(<<>>) = 0
      /\ body.epoch = 1 /\ body.life = 1 /\ body.cursor = 0
  BY DEF Init
<1>2. Follows(snap, seen) /\ Follows(body, snap)
  BY <1>1, NoWindowIs DEF Follows
<1> QED
  BY <1>1, <1>2 DEF Chain

LEMMA ReceiveChain ==
  ASSUME Typed, Chain, ReceiveSnapshot
  PROVE  /\ Chain' /\ snap' = Head(snapshots) /\ Follows(snap', snap) /\ unread' = TRUE
         /\ submitted' = Acknowledged(submitted, snap')
         /\ latest' \in {NoWindow, WindowOf(latest, Acknowledged(latest.commands, snap'))}
         /\ latest' # NoWindow => Acknowledged(latest.commands, snap') # <<>>
<1> DEFINE s == Head(snapshots)
           left == Acknowledged(latest.commands, s)
<1>1. snapshots # <<>> /\ snapshots' = Tail(snapshots) /\ UNCHANGED <<roleVars, inputs, matchVars, hostVars>>
  BY DEF ReceiveSnapshot
<1>2. /\ snapshots \in Seq(Snapshot) /\ seen \in Snapshot /\ snap \in Snapshot /\ body \in Snapshot
  BY DEF Typed, TypeOK
<1>3. /\ s \in Snapshot /\ s = snapshots[1] /\ Len(snapshots) \in Nat /\ 1 \in 1..Len(snapshots)
      /\ Len(Tail(snapshots)) = Len(snapshots) - 1
      /\ \A k \in 1..Len(Tail(snapshots)) : Tail(snapshots)[k] = snapshots[k + 1]
  <2>1. Len(snapshots) \in Nat /\ Len(snapshots) # 0 /\ s = snapshots[1]
    BY <1>1, <1>2
  <2> QED
    BY <1>1, <1>2, <2>1, HeadTailProperties
<1>4. s.epoch >= 1 /\ Follows(s, snap) /\ Follows(body, s)
  BY <1>3 DEF Chain
<1>5. /\ snap' = s /\ unread' = TRUE /\ submitted' = Acknowledged(submitted, s)
      /\ latest' = IF left = <<>> THEN NoWindow ELSE WindowOf(latest, left)
  BY <1>4 DEF ReceiveSnapshot
<1>6. Follows(s, seen)
  BY <1>2, <1>3, <1>4, FollowsThrough DEF Chain
<1> HIDE DEF s, left
<1>7. \A k \in 1..Len(snapshots') :
        /\ snapshots'[k].epoch >= 1 /\ Follows(snapshots'[k], s) /\ Follows(body, snapshots'[k])
        /\ k + 1 \in 2..Len(snapshots) /\ snapshots'[k] = snapshots[k + 1]
  <2> SUFFICES ASSUME NEW k \in 1..Len(snapshots')
               PROVE  /\ snapshots'[k].epoch >= 1 /\ Follows(snapshots'[k], s) /\ Follows(body, snapshots'[k])
                      /\ k + 1 \in 2..Len(snapshots) /\ snapshots'[k] = snapshots[k + 1]
    OBVIOUS
  <2>1. snapshots'[k] = snapshots[k + 1] /\ k + 1 \in 2..Len(snapshots) /\ k + 1 \in 1..Len(snapshots) /\ 1 < k + 1
    BY <1>1, <1>3
  <2> QED
    BY <1>3, <2>1 DEF Chain
<1>8. \A j, k \in 1..Len(snapshots') : j < k => Follows(snapshots'[k], snapshots'[j])
  <2> SUFFICES ASSUME NEW j \in 1..Len(snapshots'), NEW k \in 1..Len(snapshots'), j < k
               PROVE  Follows(snapshots'[k], snapshots'[j])
    OBVIOUS
  <2>1. j + 1 \in 1..Len(snapshots) /\ k + 1 \in 1..Len(snapshots) /\ j + 1 < k + 1
    BY <1>3, <1>7
  <2> QED
    BY <1>7, <2>1 DEF Chain
<1>9. UNCHANGED <<seen, body>>
  BY <1>1 DEF roleVars, matchVars
<1>10. Chain'
  BY <1>4, <1>5, <1>6, <1>7, <1>8, <1>9 DEF Chain
<1> QED
  BY <1>4, <1>5, <1>10 DEF s, left

LEMMA PublishChain ==
  ASSUME Typed, Chain, body' \in Snapshot, Follows(body', body), Publishes, UNCHANGED <<seen, snap, unread>>
  PROVE  Chain'
<1> DEFINE all == Append(snapshots, body')
<1>1. /\ snapshots \in Seq(Snapshot) /\ seen \in Snapshot /\ snap \in Snapshot /\ body \in Snapshot
      /\ Len(snapshots) \in Nat /\ MaxSnapshots \in Nat \ {0}
      /\ \A k \in 1..Len(snapshots) : snapshots[k] \in Snapshot
  <2>1. snapshots \in Seq(Snapshot) /\ seen \in Snapshot /\ snap \in Snapshot /\ body \in Snapshot
    BY DEF Typed, TypeOK
  <2> QED
    BY <2>1, Sizes, LenProperties, ElementOfSeq
<1>2. /\ all \in Seq(Snapshot) /\ Len(all) = Len(snapshots) + 1
      /\ \A k \in 1..Len(snapshots) : all[k] = snapshots[k]
      /\ all[Len(snapshots) + 1] = body'
  BY <1>1, AppendProperties
<1>3. body'.epoch >= 1 /\ Follows(body', snap) /\ Follows(body', body')
  <2>1. Follows(body', snap) /\ Follows(body', body')
    BY <1>1, FollowsThrough, FollowsSelf DEF Chain
  <2>2. body'.epoch >= body.epoch /\ body.epoch >= 1
    BY DEF Follows, Chain
  <2> QED
    BY <1>1, <2>1, <2>2, SnapshotIs
<1> HIDE DEF all
<1>4. ASSUME NEW k \in 1..Len(all)
      PROVE  all[k].epoch >= 1 /\ Follows(all[k], snap) /\ Follows(body', all[k])
  <2>1. CASE k \in 1..Len(snapshots)
    <3>1. snapshots[k].epoch >= 1 /\ Follows(snapshots[k], snap) /\ Follows(body, snapshots[k])
      BY <2>1 DEF Chain
    <3>2. Follows(body', snapshots[k])
      BY <1>1, <2>1, <3>1, FollowsThrough
    <3> QED
      BY <1>2, <2>1, <3>1, <3>2
  <2>2. CASE k = Len(snapshots) + 1
    BY <1>2, <1>3, <2>2
  <2> QED
    BY <1>1, <1>2, <2>1, <2>2
<1>5. ASSUME NEW j \in 1..Len(all), NEW k \in 1..Len(all), j < k
      PROVE  Follows(all[k], all[j])
  <2>1. CASE k \in 1..Len(snapshots)
    <3>1. j \in 1..Len(snapshots)
      BY <1>1, <1>5, <2>1
    <3> QED
      BY <1>2, <1>5, <2>1, <3>1 DEF Chain
  <2>2. CASE k = Len(snapshots) + 1
    BY <1>2, <1>4, <2>2
  <2> QED
    BY <1>1, <1>2, <2>1, <2>2
<1>6. CASE snapshots' = snapshots
  <2>1. \A k \in 1..Len(snapshots) : Follows(body', snapshots[k])
    BY <1>1, <1>2, <1>4
  <2> QED
    BY <1>3, <1>6, <2>1 DEF Chain
<1>7. CASE snapshots' = LastOf(MaxSnapshots, all)
  <2>1. PICK d \in Nat :
          /\ Len(snapshots') + d = Len(all)
          /\ \A k \in 1..Len(snapshots') : snapshots'[k] = all[k + d]
    <3>1. \E d \in Nat :
            /\ Len(LastOf(MaxSnapshots, all)) + d = Len(all)
            /\ \A k \in 1..Len(LastOf(MaxSnapshots, all)) : LastOf(MaxSnapshots, all)[k] = all[k + d]
      BY <1>1, <1>2, LastOfIs
    <3> QED
      BY <1>7, <3>1
  <2>2. Len(snapshots') \in Nat
    BY <1>1, <1>2, <1>7, LastOfIs, LenProperties
  <2>3. \A k \in 1..Len(snapshots') : k + d \in 1..Len(all) /\ snapshots'[k] = all[k + d]
    BY <1>1, <1>2, <2>1, <2>2
  <2>4. \A j, k \in 1..Len(snapshots') : j < k => j + d < k + d
    BY <2>1, <2>2
  <2>5. \A j, k \in 1..Len(snapshots') : j < k => Follows(snapshots'[k], snapshots'[j])
    BY <1>5, <2>3, <2>4
  <2>6. \A k \in 1..Len(snapshots') :
          snapshots'[k].epoch >= 1 /\ Follows(snapshots'[k], snap) /\ Follows(body', snapshots'[k])
    BY <1>4, <2>3
  <2> QED
    BY <1>3, <2>5, <2>6 DEF Chain
<1> QED
  BY <1>6, <1>7 DEF Publishes, all

LEMMA ResetBody ==
  ASSUME Typed, NEW life, Resets(life)
  PROVE  body' \in Snapshot /\ Follows(body', body) /\ body'.epoch = body.epoch + 1
<1>1. /\ body.epoch < MaxEpochs /\ body' = [epoch |-> body.epoch + 1, life |-> life, cursor |-> 0]
      /\ life \in {body.life, body.life + 1}
  BY DEF Resets, ResetEpoch, NextEpoch
<1>2. body.epoch \in 0..MaxEpochs /\ body.life \in 0..MaxEpochs /\ body.life <= body.epoch
  BY DEF Typed, TypeOK, Snapshot
<1> QED
  BY <1>1, <1>2, Sizes DEF Snapshot, Follows

LEMMA StepChain == Typed /\ Chain /\ [Next]_vars => Chain'
<1> SUFFICES ASSUME Typed, Chain, [Next]_vars
             PROVE  Chain'
  OBVIOUS
<1>1. CASE RunSimulation
  <2>1. /\ seen' = IF unread THEN snap ELSE seen
        /\ unread' = FALSE /\ UNCHANGED <<snap, body, snapshots>>
    BY <1>1 DEF RunSimulation, Run, wireVars, matchVars
  <2>2. seen' = snap /\ Follows(snap, snap)
    BY <2>1, FollowsSelf DEF Chain, Typed, TypeOK
  <2> QED
    BY <2>1, <2>2 DEF Chain
<1>2. CASE SendInput \/ Interrupt \/ SendWindow \/ LoseWindow \/ ReceiveInput \/ UNCHANGED vars
  <2>1. UNCHANGED <<seen, snap, unread, body, snapshots>>
    BY <1>2 DEF SendInput, Interrupt, SendWindow, LoseWindow, ReceiveInput, SubmitInput, vars,
                roleVars, workerVars, wireVars, matchVars
  <2> QED
    BY <2>1 DEF Chain
<1>3. CASE StepRespawn \/ StepRotate
  <2>1. PICK life : Resets(life)
    BY <1>3, ResetsAre DEF Typed
  <2>2. Publishes /\ UNCHANGED <<seen, snap, unread>>
    BY <2>1 DEF Resets, ResetEpoch, roleVars, workerVars
  <2> QED
    BY <2>1, <2>2, ResetBody, PublishChain
<1>4. CASE StepIdle
  <2>1. body' = body /\ Publishes /\ UNCHANGED <<seen, snap, unread>>
    BY <1>4 DEF StepIdle, roleVars, workerVars
  <2>2. body' \in Snapshot /\ Follows(body', body)
    BY <2>1, FollowsSelf DEF Typed, TypeOK
  <2> QED
    BY <2>1, <2>2, PublishChain
<1>5. CASE StepResolve
  <2>1. Publishes /\ UNCHANGED <<seen, snap, unread>>
    BY <1>5, ResolveIs DEF roleVars, workerVars
  <2>2. body' \in Snapshot /\ Follows(body', body)
    <3>1. /\ body' \in Snapshot /\ body \in Snapshot
          /\ body'.cursor = body.cursor + 1 /\ body'.epoch = body.epoch /\ body'.life = body.life
      BY <1>5, ResolveIs DEF Typed, TypeOK
    <3> QED
      BY <3>1, SnapshotIs DEF Follows
  <2> QED
    BY <2>1, <2>2, PublishChain
<1> QED
  BY <1>1, <1>2, <1>3, <1>4, <1>5, ReceiveChain DEF Next

LEMMA AlwaysChain == Spec => []Chain
<1> QED
  BY InitChain, StepChain, AlwaysTyped, PTL DEF Spec

-----------------------------------------------------------------------------
(* The prediction, and where commands come from.                           *)

\* The prediction is an interval from the authority it last read, and what is handed over is it.
Predicted ==
  /\ DOMAIN pending = (seen.cursor + 1)..tip /\ seen.cursor <= tip
  /\ handing # NoWindow => handing = WindowOf(seen, pending)

\* No command is ahead of the prediction, and none belongs to an epoch it has not begun.
Made ==
  \A w \in Held : \A s \in DOMAIN w.commands :
    /\ w.epoch <= seen.epoch
    /\ w.epoch = seen.epoch => w.life = seen.life /\ s <= tip

\* A window that is sent has commands, and no more than the prediction may have.
Sized ==
  /\ \A w \in inputs : w.commands # <<>> /\ Cardinality(DOMAIN w.commands) <= MaxPendingCommands
  /\ latest # NoWindow => latest.commands # <<>> /\ Cardinality(DOMAIN latest.commands) <= MaxPendingCommands

\* A command of w is held somewhere.
Drawn(w) ==
  \A s \in DOMAIN w.commands : \E v \in Held :
    SameIdentity(w, v) /\ s \in DOMAIN v.commands /\ v.commands[s] = w.commands[s]

LEMMA HeldDrawn ==
  ASSUME NEW w \in Held
  PROVE  Drawn(w)
BY DEF Drawn, SameIdentity

LEMMA NothingDrawn ==
  ASSUME NEW w, w.commands = <<>>
  PROVE  Drawn(w)
BY NoCommands DEF Drawn

LEMMA AllDrawn ==
  ASSUME inputs' \subseteq inputs \cup {latest}, UNCHANGED <<seen, pending>>,
         Drawn(handing'), Drawn(latest'), Drawn(WindowOf(snap', submitted')),
         Drawn(staged'), Drawn(WindowOf(body', queued'))
  PROVE  \A w \in Held' : Drawn(w)
<1> SUFFICES ASSUME NEW w \in Held'
             PROVE  Drawn(w)
  OBVIOUS
<1>1. CASE w \in inputs'
  <2>1. w \in Held
    BY <1>1 DEF Held
  <2> QED
    BY <2>1, HeldDrawn
<1>2. CASE w = WindowOf(seen, pending)
  <2>1. w \in Held
    BY <1>2 DEF Held
  <2> QED
    BY <2>1, HeldDrawn
<1>3. \/ w \in inputs' \/ w = WindowOf(seen, pending)
      \/ w \in {handing', latest', WindowOf(snap', submitted'), staged', WindowOf(body', queued')}
  BY DEF Held
<1> QED
  BY <1>1, <1>2, <1>3

\* When nothing is made, what is held keeps its content.
LEMMA DrawnKeeps ==
  ASSUME OneContent, Made, UNCHANGED <<seen, tip>>, \A w \in Held' : Drawn(w)
  PROVE  OneContent' /\ Made'
<1>1. OneContent'
  <2> SUFFICES ASSUME NEW v \in Held', NEW w \in Held', v.epoch = w.epoch,
                      NEW s \in DOMAIN v.commands \cap DOMAIN w.commands
               PROVE  v.commands[s] = w.commands[s]
    BY DEF OneContent, Agree
  <2>1. PICK x \in Held : SameIdentity(v, x) /\ s \in DOMAIN x.commands /\ x.commands[s] = v.commands[s]
    BY DEF Drawn
  <2>2. PICK y \in Held : SameIdentity(w, y) /\ s \in DOMAIN y.commands /\ y.commands[s] = w.commands[s]
    BY DEF Drawn
  <2> QED
    BY <2>1, <2>2 DEF OneContent, Agree, SameIdentity
<1>2. Made'
  <2> SUFFICES ASSUME NEW w \in Held', NEW s \in DOMAIN w.commands
               PROVE  w.epoch <= seen.epoch /\ (w.epoch = seen.epoch => w.life = seen.life /\ s <= tip)
    BY DEF Made
  <2>1. PICK x \in Held : SameIdentity(w, x) /\ s \in DOMAIN x.commands
    BY DEF Drawn
  <2> QED
    BY <2>1 DEF Made, SameIdentity
<1> QED
  BY <1>1, <1>2

Contained == Predicted /\ Made /\ Sized /\ OneContent

LEMMA InitContained == Init => Contained
<1> SUFFICES ASSUME Init
             PROVE  Contained
  OBVIOUS
<1>1. /\ seen = NoSnapshot /\ pending = <<>> /\ tip = 0 /\ handing = NoWindow /\ latest = NoWindow /\ submitted = <<>>
      /\ inputs = {} /\ queued = <<>> /\ staged = NoWindow /\ snap = NoSnapshot
  BY DEF Init
<1>2. \A w \in Held : DOMAIN w.commands = {}
  BY <1>1, NoCommands, NoWindowIs DEF Held, WindowOf
<1>3. Made /\ OneContent
  BY <1>2 DEF Made, OneContent, Agree
<1>4. Predicted
  <2>1. DOMAIN pending = {} /\ seen.cursor = 0 /\ (0 + 1)..0 = {}
    BY <1>1, NoCommands, NoWindowIs
  <2> QED
    BY <1>1, <2>1 DEF Predicted
<1> QED
  BY <1>1, <1>3, <1>4 DEF Contained, Sized

\* The numbers a prediction is made of.
LEMMA Cursors ==
  ASSUME Typed, Chain
  PROVE  /\ seen \in Snapshot /\ snap \in Snapshot /\ body \in Snapshot
         /\ seen.epoch \in Nat /\ snap.epoch \in Nat /\ body.epoch \in Nat
         /\ seen.cursor \in Nat /\ snap.cursor \in Nat /\ body.cursor \in Nat /\ tip \in Nat
         /\ seen.epoch <= snap.epoch /\ snap.epoch <= body.epoch
         /\ seen.epoch = snap.epoch => seen.life = snap.life /\ seen.cursor <= snap.cursor
         /\ snap.epoch = body.epoch => snap.life = body.life /\ snap.cursor <= body.cursor
<1>1. seen \in Snapshot /\ snap \in Snapshot /\ body \in Snapshot /\ tip \in Nat
  BY Sizes DEF Typed, TypeOK
<1> QED
  BY <1>1, SnapshotIs, FollowsInEpoch DEF Chain

\* A pass of the role: which authority it reads, and from where it predicts.
LEMMA PassIs ==
  ASSUME Typed, Chain, Predicted, RunSimulation
  PROVE  /\ seen' = snap /\ handing' \in {NoWindow, WindowOf(seen', pending')}
         /\ UNCHANGED <<latest, submitted, snap, wireVars, matchVars, hostVars>>
         /\ pending' \in Commands /\ tip' \in Nat /\ snap.cursor <= tip'
         /\ DOMAIN pending' = (snap.cursor + 1)..tip'
         /\ seen.epoch = snap.epoch =>
              /\ tip <= tip'
              /\ \A s \in DOMAIN pending' : s <= tip => s \in DOMAIN pending /\ pending'[s] = pending[s]
<1>1. PICK n \in 0..CatchUpSteps, content \in Contents : Run(n, content)
  BY DEF RunSimulation
<1>2. /\ seen' = IF unread THEN snap ELSE seen
      /\ seen # NoSnapshot \/ unread
      /\ handing' \in {NoWindow, WindowOf(seen', pending')}
      /\ UNCHANGED <<latest, submitted, snap, wireVars, matchVars, hostVars>>
  BY <1>1 DEF Run
<1>3. seen' = snap
  BY <1>2 DEF Chain
<1>4. /\ pending' \in Commands /\ tip' = BaseTip + n /\ DOMAIN pending' = DOMAIN Base \cup (BaseTip + 1)..tip'
      /\ \A s \in DOMAIN Base : s \notin (BaseTip + 1)..tip' => pending'[s] = Base[s]
  BY <1>1, Predicts DEF Typed
<1>5. /\ BaseTip \in Nat /\ n \in Nat /\ tip' \in Nat /\ BaseTip <= tip' /\ WireCounterMax \in Nat
  <2>1. BaseTip \in 0..WireCounterMax /\ WireCounterMax \in Nat
    BY BaseIs, Sizes DEF Typed
  <2> QED
    BY <1>4, <2>1, Sizes
<1>6. CASE Seeds
  <2>1. DOMAIN Base = (snap.cursor + 1)..BaseTip /\ snap.cursor <= BaseTip
    BY <1>6, BaseIs DEF Typed
  <2>2. DOMAIN pending' = (snap.cursor + 1)..tip' /\ snap.cursor <= tip'
    BY <1>4, <1>5, <2>1, Cursors
  <2>3. seen.epoch = snap.epoch => tip <= snap.cursor
    <3> SUFFICES ASSUME seen.epoch = snap.epoch
                 PROVE  tip <= snap.cursor
      OBVIOUS
    <3>1. unread /\ snap.epoch >= 1
      BY <1>6 DEF Seeds, Chain
    <3>2. seen # NoSnapshot /\ SameIdentity(snap, seen)
      BY <3>1, NoWindowIs, Cursors DEF SameIdentity
    <3>3. snap.cursor > tip \/ snap.cursor = tip
      BY <1>6, <3>2 DEF Seeds, Reseeds
    <3> QED
      BY <3>3, Cursors
  <2>4. seen.epoch = snap.epoch =>
          /\ tip <= tip'
          /\ \A s \in DOMAIN pending' : ~(s <= tip)
    BY <1>5, <2>2, <2>3, Cursors
  <2> QED
    BY <1>2, <1>3, <1>4, <1>5, <2>2, <2>4
<1>7. CASE ~Seeds
  <2>1. BaseTip = tip /\ Base = IF unread THEN Past(pending, snap.cursor) ELSE pending
    BY <1>7, BaseIs DEF Typed
  <2>2. pending \in Commands /\ DOMAIN pending = (seen.cursor + 1)..tip /\ seen.cursor <= tip
    BY DEF Predicted, Typed, TypeOK
  <2>3. /\ DOMAIN Base = (snap.cursor + 1)..tip /\ snap.cursor <= tip
        /\ \A s \in DOMAIN Base : s \in DOMAIN pending /\ Base[s] = pending[s]
    <3>1. CASE unread
      <4>1. snap.cursor <= tip /\ SameIdentity(snap, seen)
        BY <1>7, <3>1, Cursors DEF Seeds, Reseeds
      <4>2. /\ DOMAIN Base = {s \in DOMAIN pending : s > snap.cursor}
            /\ \A s \in DOMAIN Base : Base[s] = pending[s]
        BY <2>1, <2>2, <3>1, Cursors, PastIs
      <4>3. seen.cursor <= snap.cursor
        BY <4>1, Cursors DEF SameIdentity
      <4> QED
        BY <2>2, <4>1, <4>2, <4>3, Cursors
    <3>2. CASE ~unread
      BY <2>1, <2>2, <3>2 DEF Chain
    <3> QED
      BY <3>1, <3>2
  <2>4. DOMAIN pending' = (snap.cursor + 1)..tip' /\ snap.cursor <= tip' /\ tip <= tip'
    <3>1. snap.cursor \in Nat /\ tip \in Nat /\ tip' \in Nat
      BY <1>4, <1>5, Cursors
    <3> HIDE DEF BaseTip
    <3> QED
      BY <1>4, <1>5, <2>1, <2>3, <3>1
  <2>5. ASSUME NEW s \in DOMAIN pending', s <= tip
        PROVE  s \in DOMAIN pending /\ pending'[s] = pending[s]
    <3>1. s \notin (BaseTip + 1)..tip' /\ s \in DOMAIN Base
      BY <1>4, <2>1, <2>4, <2>5, Cursors
    <3> QED
      BY <1>4, <2>3, <3>1
  <2> QED
    BY <1>2, <1>3, <1>4, <1>5, <2>4, <2>5
<1> QED
  BY <1>6, <1>7

LEMMA RunContained ==
  ASSUME Typed, Chain, Contained, RunSimulation
  PROVE  Contained'
<1> DEFINE new == WindowOf(seen', pending')
           Old == inputs \cup {latest, WindowOf(snap, submitted), staged, WindowOf(body, queued)}
<1>1. /\ seen' = snap /\ handing' \in {NoWindow, new}
      /\ UNCHANGED <<latest, submitted, snap, inputs, staged, body, queued>>
      /\ pending' \in Commands /\ tip' \in Nat /\ snap.cursor <= tip'
      /\ DOMAIN pending' = (snap.cursor + 1)..tip'
      /\ seen.epoch = snap.epoch =>
           /\ tip <= tip'
           /\ \A s \in DOMAIN pending' : s <= tip => s \in DOMAIN pending /\ pending'[s] = pending[s]
  BY PassIs DEF Contained, wireVars, matchVars, hostVars
<1>2. new.epoch = snap.epoch /\ new.life = snap.life /\ new.commands = pending'
  BY <1>1 DEF WindowOf
<1>3. Old \subseteq Held /\ Held' \subseteq Old \cup {new, NoWindow} /\ WindowOf(seen, pending) \in Held
  BY <1>1 DEF Held
<1>4. WindowOf(seen, pending).epoch = seen.epoch /\ WindowOf(seen, pending).commands = pending
  BY DEF WindowOf
<1>5. \A s \in DOMAIN NoWindow.commands : FALSE
  BY NoWindowIs, NoCommands
<1> HIDE DEF new, Old
<1>6. ASSUME NEW v \in Held, v.epoch = snap.epoch, NEW s \in DOMAIN v.commands \cap DOMAIN pending'
      PROVE  v.commands[s] = pending'[s]
  <2>1. v.epoch <= seen.epoch /\ (v.epoch = seen.epoch => s <= tip)
    BY DEF Contained, Made
  <2>2. seen.epoch = snap.epoch /\ s <= tip
    BY <1>6, <2>1, Cursors
  <2>3. s \in DOMAIN pending /\ pending'[s] = pending[s]
    BY <1>1, <2>2
  <2> QED
    BY <1>3, <1>4, <1>6, <2>2, <2>3 DEF Contained, OneContent, Agree
<1>7. OneContent'
  <2> SUFFICES ASSUME NEW v \in Held', NEW w \in Held', v.epoch = w.epoch,
                      NEW s \in DOMAIN v.commands \cap DOMAIN w.commands
               PROVE  v.commands[s] = w.commands[s]
    BY DEF OneContent, Agree
  <2>1. v \in Old \cup {new} /\ w \in Old \cup {new}
    BY <1>3, <1>5
  <2>2. CASE v \in Old /\ w \in Old
    BY <1>3, <2>2 DEF Contained, OneContent, Agree
  <2>3. CASE v \in Old /\ w = new
    BY <1>2, <1>3, <1>6, <2>3
  <2>4. CASE v = new /\ w \in Old
    <3>1. w.commands[s] = pending'[s]
      BY <1>2, <1>3, <1>6, <2>4
    <3> QED
      BY <1>2, <2>4, <3>1
  <2> QED
    BY <2>1, <2>2, <2>3, <2>4
<1>8. Made'
  <2> SUFFICES ASSUME NEW w \in Held', NEW s \in DOMAIN w.commands
               PROVE  w.epoch <= snap.epoch /\ (w.epoch = snap.epoch => w.life = snap.life /\ s <= tip')
    BY <1>1 DEF Made
  <2>1. CASE w = new
    BY <1>1, <1>2, <2>1, Cursors
  <2>2. CASE w \in Old
    <3>1. w.epoch <= seen.epoch /\ (w.epoch = seen.epoch => w.life = seen.life /\ s <= tip)
      BY <1>3, <2>2 DEF Contained, Made
    <3>2. w.epoch \in Nat /\ s \in Nat
      <4>1. Old \subseteq Window
        BY WindowIs, Cursors DEF Typed, TypeOK, Old
      <4>2. w.epoch \in 0..MaxEpochs /\ w.commands \in Commands
        BY <2>2, <4>1 DEF Window
      <4> QED
        BY <4>2, CommandsAre, Sizes DEF Numbers
    <3> QED
      BY <1>1, <3>1, <3>2, Cursors
  <2> QED
    BY <1>3, <1>5, <2>1, <2>2
<1>9. Predicted'
  BY <1>1 DEF Predicted, new
<1>10. Sized'
  BY <1>1 DEF Contained, Sized
<1> QED
  BY <1>7, <1>8, <1>9, <1>10 DEF Contained

\* Of a window that is held, what is past a cursor is drawn.
LEMMA PartDrawn ==
  ASSUME NEW w \in Held, NEW x, SameIdentity(x, w), DOMAIN x.commands \subseteq DOMAIN w.commands,
         \A s \in DOMAIN x.commands : x.commands[s] = w.commands[s]
  PROVE  Drawn(x)
BY DEF Drawn

LEMMA SendInputContained ==
  ASSUME Typed, Chain, Contained, SendInput
  PROVE  Contained'
<1> DEFINE commands == Past(handing.commands, snap.cursor)
           window == WindowOf(handing, commands)
<1>1. /\ handing # NoWindow /\ handing' = NoWindow
      /\ UNCHANGED <<seen, pending, tip, snap, inputs, staged, body, queued>>
      /\ \/ UNCHANGED <<latest, submitted>>
         \/ /\ SameIdentity(handing, snap) /\ commands # <<>>
            /\ submitted' = commands /\ latest' = window
  BY DEF SendInput, wireVars, matchVars, hostVars
<1>2. handing \in Window /\ handing \in Held /\ handing = WindowOf(seen, pending) /\ handing.commands \in Commands
  BY <1>1 DEF Held, Typed, TypeOK, Window, Contained, Predicted
<1>3. /\ commands \in Commands /\ DOMAIN commands \subseteq DOMAIN handing.commands
      /\ \A s \in DOMAIN commands : commands[s] = handing.commands[s]
  <2>1. snap.cursor \in Nat
    BY Cursors
  <2>2. DOMAIN Past(handing.commands, snap.cursor) = {s \in DOMAIN handing.commands : s > snap.cursor}
    BY <1>2, <2>1, PastIs
  <2> QED
    BY <1>2, <2>1, <2>2, PastIs
<1> HIDE DEF commands
<1>4. window.commands = commands /\ SameIdentity(window, handing)
  BY <1>2, <1>3, WindowIs
<1> HIDE DEF window
<1>5. Drawn(window) /\ Drawn(NoWindow) /\ Drawn(latest) /\ Drawn(WindowOf(snap, submitted)) /\ Drawn(staged)
      /\ Drawn(WindowOf(body, queued))
  <2>1. Drawn(window)
    BY <1>2, <1>3, <1>4, PartDrawn
  <2>2. {latest, WindowOf(snap, submitted), staged, WindowOf(body, queued)} \subseteq Held
    BY DEF Held
  <2> QED
    BY <2>1, <2>2, HeldDrawn, NothingDrawn, NoWindowIs
<1>6. Drawn(latest') /\ Drawn(WindowOf(snap', submitted'))
  <2>1. CASE UNCHANGED <<latest, submitted>>
    BY <1>1, <1>5, <2>1
  <2>2. CASE SameIdentity(handing, snap) /\ submitted' = commands /\ latest' = window
    <3>1. Drawn(WindowOf(snap, commands))
      <4>1. SameIdentity(WindowOf(snap, commands), handing) /\ WindowOf(snap, commands).commands = commands
        BY <2>2 DEF SameIdentity, WindowOf
      <4> QED
        BY <1>2, <1>3, <4>1, PartDrawn
    <3> QED
      BY <1>1, <1>5, <2>2, <3>1
  <2> QED
    BY <1>1, <2>1, <2>2
<1>7. OneContent' /\ Made'
  <2>1. \A w \in Held' : Drawn(w)
    BY <1>1, <1>5, <1>6, AllDrawn
  <2> QED
    BY <1>1, <2>1, DrawnKeeps DEF Contained
<1>8. Predicted'
  BY <1>1 DEF Contained, Predicted
<1>9. Sized'
  <2>1. Cardinality(DOMAIN commands) <= MaxPendingCommands
    <3>1. handing.commands = pending
      BY <1>2 DEF WindowOf
    <3>2. /\ Cardinality(DOMAIN commands) <= Cardinality(DOMAIN pending)
          /\ Cardinality(DOMAIN pending) \in Nat /\ Cardinality(DOMAIN commands) \in Nat
      BY <1>3, <3>1, CommandsFinite, CommandsAre DEF Typed, TypeOK
    <3> QED
      BY <3>2, Sizes DEF Typed, TypeOK
  <2> QED
    BY <1>1, <1>4, <2>1 DEF Contained, Sized
<1> QED
  BY <1>7, <1>8, <1>9 DEF Contained

LEMMA ReceiveContained ==
  ASSUME Typed, Chain, Contained, ReceiveSnapshot
  PROVE  Contained'
<1> DEFINE left == Acknowledged(latest.commands, snap')
           kept == Acknowledged(submitted, snap')
<1>1. /\ snap' \in Snapshot /\ Follows(snap', snap) /\ submitted' = kept
      /\ latest' \in {NoWindow, WindowOf(latest, left)}
      /\ latest' # NoWindow => left # <<>>
      /\ UNCHANGED <<seen, pending, tip, handing, inputs, staged, body, queued>>
  <2>1. snap' \in Snapshot
    BY ReceiveSnapshotTyped DEF Typed, TypeOK
  <2>2. UNCHANGED <<seen, pending, tip, handing, inputs, staged, body, queued>>
    BY DEF ReceiveSnapshot, roleVars, matchVars, hostVars
  <2> QED
    BY <2>1, <2>2, ReceiveChain
<1>2. latest \in Window /\ latest.commands \in Commands /\ submitted \in Commands /\ snap \in Snapshot
  BY DEF Typed, TypeOK, Window
<1>0. ASSUME NEW f \in Commands
      PROVE  /\ Acknowledged(f, snap') \in Commands /\ DOMAIN Acknowledged(f, snap') \subseteq DOMAIN f
             /\ \A k \in DOMAIN Acknowledged(f, snap') :
                  Acknowledged(f, snap')[k] = f[k] /\ snap'.epoch = snap.epoch
  <2>1. TypeOK /\ snap' \in Snapshot
    BY <1>1 DEF Typed
  <2>2. /\ Acknowledged(f, snap') \in Commands
        /\ DOMAIN Acknowledged(f, snap') = {k \in DOMAIN f : snap'.epoch = snap.epoch /\ k > snap'.cursor}
        /\ \A k \in DOMAIN Acknowledged(f, snap') : Acknowledged(f, snap')[k] = f[k]
    BY <2>1, AcknowledgedIs
  <2> QED
    BY <2>2
<1> HIDE DEF left, kept
<1>3. /\ left \in Commands /\ DOMAIN left \subseteq DOMAIN latest.commands
      /\ \A s \in DOMAIN left : left[s] = latest.commands[s]
  BY <1>0, <1>2 DEF left
<1>4. /\ kept \in Commands /\ DOMAIN kept \subseteq DOMAIN submitted
      /\ \A s \in DOMAIN kept : kept[s] = submitted[s] /\ snap'.epoch = snap.epoch
  BY <1>0, <1>2 DEF kept
<1>5. {latest, WindowOf(snap, submitted), staged, WindowOf(body, queued), handing} \subseteq Held
  BY DEF Held
<1>6. Drawn(WindowOf(latest, left))
  <2>1. SameIdentity(WindowOf(latest, left), latest) /\ WindowOf(latest, left).commands = left
    BY <1>2, <1>3, WindowIs
  <2> QED
    BY <1>3, <1>5, <2>1, PartDrawn
<1>7. Drawn(WindowOf(snap', kept))
  <2>1. WindowOf(snap', kept).commands = kept /\ WindowOf(snap, submitted).commands = submitted
    BY DEF WindowOf
  <2>2. CASE snap'.epoch = snap.epoch
    <3>1. snap'.life = snap.life
      BY <1>1, <1>2, <2>2, FollowsInEpoch
    <3>2. SameIdentity(WindowOf(snap', kept), WindowOf(snap, submitted))
      BY <2>2, <3>1 DEF SameIdentity, WindowOf
    <3> QED
      BY <1>4, <1>5, <2>1, <3>2, PartDrawn
  <2>3. CASE snap'.epoch # snap.epoch
    BY <1>4, <2>1, <2>3 DEF Drawn
  <2> QED
    BY <2>2, <2>3
<1>8. OneContent' /\ Made'
  <2>1. Drawn(latest') /\ Drawn(WindowOf(snap', submitted'))
    BY <1>1, <1>6, <1>7, NothingDrawn, NoWindowIs
  <2>2. Drawn(handing') /\ Drawn(staged') /\ Drawn(WindowOf(body', queued'))
    BY <1>1, <1>5, HeldDrawn
  <2>3. \A w \in Held' : Drawn(w)
    BY <1>1, <2>1, <2>2, AllDrawn
  <2> QED
    BY <1>1, <2>3, DrawnKeeps DEF Contained
<1>9. Predicted'
  BY <1>1 DEF Contained, Predicted
<1>10. Sized'
  <2> SUFFICES ASSUME latest' # NoWindow
               PROVE  latest'.commands # <<>> /\ Cardinality(DOMAIN latest'.commands) <= MaxPendingCommands
    BY <1>1 DEF Contained, Sized
  <2>1. left # <<>> /\ latest'.commands = left /\ DOMAIN left # {}
    <3>1. left # <<>> /\ latest' = WindowOf(latest, left)
      BY <1>1
    <3>2. WindowOf(latest, left).commands = left
      BY <1>2, <1>3, WindowIs
    <3> QED
      BY <1>3, <3>1, <3>2, NoCommands
  <2>2. latest # NoWindow
    BY <1>3, <2>1, NoWindowIs, NoCommands
  <2>3. /\ Cardinality(DOMAIN left) <= Cardinality(DOMAIN latest.commands)
        /\ Cardinality(DOMAIN left) \in Nat /\ Cardinality(DOMAIN latest.commands) \in Nat
    BY <1>2, <1>3, CommandsFinite, CommandsAre
  <2>4. Cardinality(DOMAIN latest.commands) <= MaxPendingCommands
    BY <2>2 DEF Contained, Sized
  <2> QED
    BY <2>1, <2>3, <2>4, Sizes
<1> QED
  BY <1>8, <1>9, <1>10 DEF Contained

\* A step that moves windows about, or nothing.
LEMMA MovedContained ==
  ASSUME Contained, inputs' \subseteq inputs \cup ({latest} \ {NoWindow}),
         UNCHANGED <<seen, pending, tip, handing, latest, submitted, snap>>,
         Drawn(staged'), Drawn(WindowOf(body', queued'))
  PROVE  Contained'
<1>1. Drawn(handing') /\ Drawn(latest') /\ Drawn(WindowOf(snap', submitted'))
  <2>1. {latest, WindowOf(snap, submitted), handing} \subseteq Held
    BY DEF Held
  <2> QED
    BY <2>1, HeldDrawn
<1>2. OneContent' /\ Made'
  <2>1. \A w \in Held' : Drawn(w)
    BY <1>1, AllDrawn
  <2> QED
    BY <2>1, DrawnKeeps DEF Contained
<1>3. Predicted'
  BY DEF Contained, Predicted
<1>4. Sized'
  BY DEF Contained, Sized
<1> QED
  BY <1>2, <1>3, <1>4 DEF Contained

\* The queue and what is staged for it are of the same identity.
LEMMA QueueDrawn ==
  ASSUME Typed, Host, NEW x, SameIdentity(x, body), DOMAIN x.commands \subseteq DOMAIN Queue,
         \A s \in DOMAIN x.commands : x.commands[s] = Queue[s]
  PROVE  Drawn(x)
<1>1. /\ DOMAIN Queue = DOMAIN queued \cup DOMAIN staged.commands
      /\ \A s \in DOMAIN queued : Queue[s] = queued[s]
      /\ \A s \in DOMAIN staged.commands \ DOMAIN queued : Queue[s] = staged.commands[s]
  BY QueueIs DEF Typed
<1>2. WindowOf(body, queued) \in Held /\ staged \in Held
  BY DEF Held
<1>3. WindowOf(body, queued).commands = queued /\ SameIdentity(x, WindowOf(body, queued))
  BY DEF WindowOf, SameIdentity
<1>4. ASSUME NEW s \in DOMAIN staged.commands
      PROVE  SameIdentity(x, staged)
  <2>1. staged # NoWindow
    BY NoWindowIs, NoCommands
  <2> QED
    BY <2>1 DEF Host, StagedAdmissible, SameIdentity
<1> QED
  BY <1>1, <1>2, <1>3, <1>4 DEF Drawn

LEMMA SubmitContained ==
  ASSUME Typed, Host, Contained, NEW w \in inputs, SubmitInput(w)
  PROVE  Contained'
<1> DEFINE news == Past(w.commands, body.cursor)
           window == WindowOf(body, Over(staged.commands, news))
<1>1. /\ inputs' \subseteq inputs
      /\ UNCHANGED <<seen, pending, tip, handing, latest, submitted, snap, body, queued>>
      /\ \/ staged' = staged
         \/ Admissible(w) /\ staged' = window
  BY SubmitIs DEF roleVars, workerVars
<1>2. {staged, WindowOf(body, queued), w} \subseteq Held
  BY DEF Held
<1>3. ASSUME Admissible(w)
      PROVE  Drawn(window)
  <2>1. /\ w.commands \in Commands /\ body.cursor \in Nat /\ staged.commands \in Commands /\ body \in Snapshot
    BY Sizes DEF Typed, TypeOK, Window, Snapshot
  <2>2. /\ news \in Commands /\ DOMAIN news \subseteq DOMAIN w.commands
        /\ \A s \in DOMAIN news : news[s] = w.commands[s]
    <3>1. /\ Past(w.commands, body.cursor) \in Commands
          /\ DOMAIN Past(w.commands, body.cursor) = {s \in DOMAIN w.commands : s > body.cursor}
          /\ \A s \in DOMAIN Past(w.commands, body.cursor) : Past(w.commands, body.cursor)[s] = w.commands[s]
      BY <2>1, PastIs
    <3> QED
      BY <3>1
  <2>3. SameIdentity(w, body)
    BY <1>3 DEF Admissible, AdmitInput
  <2> HIDE DEF news
  <2>4. /\ Over(staged.commands, news) \in Commands
        /\ DOMAIN Over(staged.commands, news) = DOMAIN staged.commands \cup DOMAIN news
        /\ \A s \in DOMAIN staged.commands : Over(staged.commands, news)[s] = staged.commands[s]
        /\ \A s \in DOMAIN news \ DOMAIN staged.commands : Over(staged.commands, news)[s] = news[s]
    BY <2>1, <2>2, OverIs
  <2>5. window.commands = Over(staged.commands, news) /\ SameIdentity(window, body)
    BY <2>1, <2>4, WindowIs
  <2> HIDE DEF window
  <2>6. ASSUME NEW s \in DOMAIN window.commands
        PROVE  \E v \in Held : SameIdentity(window, v) /\ s \in DOMAIN v.commands /\ v.commands[s] = window.commands[s]
    <3>1. CASE s \in DOMAIN staged.commands
      <4>1. staged # NoWindow
        BY <3>1, NoWindowIs, NoCommands
      <4>2. SameIdentity(window, staged)
        BY <2>5, <4>1 DEF Host, StagedAdmissible, SameIdentity
      <4> QED
        BY <1>2, <2>4, <2>5, <3>1, <4>2
    <3>2. CASE s \in DOMAIN news \ DOMAIN staged.commands
      <4>1. SameIdentity(window, w)
        BY <2>3, <2>5 DEF SameIdentity
      <4> QED
        BY <1>2, <2>2, <2>4, <2>5, <3>2, <4>1
    <3> QED
      BY <2>4, <2>5, <3>1, <3>2
  <2> QED
    BY <2>6 DEF Drawn
<1> HIDE DEF window
<1>4. Drawn(staged') /\ Drawn(WindowOf(body', queued'))
  BY <1>1, <1>2, <1>3, HeldDrawn
<1> QED
  BY <1>1, <1>4, MovedContained

LEMMA SimulationContained ==
  ASSUME Typed, Host, Contained, StepRespawn \/ StepRotate \/ StepIdle \/ StepResolve
  PROVE  Contained'
<1>1. staged \in Held
  BY DEF Held
<1>2. CASE StepRespawn \/ StepRotate
  <2>1. PICK life : Resets(life)
    BY <1>2, ResetsAre DEF Typed
  <2>2. queued' = <<>> /\ staged' = NoWindow /\ UNCHANGED <<roleVars, workerVars, inputs>>
    BY <2>1 DEF Resets, ResetEpoch, StagingCleared
  <2>3. Drawn(staged') /\ Drawn(WindowOf(body', queued'))
    BY <2>2, NothingDrawn, NoWindowIs DEF WindowOf
  <2> QED
    BY <2>2, <2>3, MovedContained DEF roleVars, workerVars
<1>3. CASE StepIdle
  <2>1. queued' = Queue /\ UNCHANGED <<roleVars, workerVars, inputs, body, staged>>
    BY <1>3 DEF StepIdle, hostVars
  <2>2. WindowOf(body, Queue).commands = Queue /\ SameIdentity(WindowOf(body, Queue), body)
    BY DEF WindowOf, SameIdentity
  <2>3. Drawn(staged') /\ Drawn(WindowOf(body', queued'))
    BY <1>1, <2>1, <2>2, HeldDrawn, QueueDrawn
  <2> QED
    BY <2>1, <2>3, MovedContained DEF roleVars, workerVars
<1>4. CASE StepResolve
  <2>1. /\ body'.epoch = body.epoch /\ body'.life = body.life /\ body.cursor + 1 \in Nat
        /\ DOMAIN queued' \subseteq DOMAIN Queue /\ \A s \in DOMAIN queued' : queued'[s] = Queue[s]
        /\ staged' = StagedPast(body.cursor + 1)
        /\ UNCHANGED <<roleVars, workerVars, inputs>>
    BY <1>4, ResolveIs DEF Numbers
  <2>2. WindowOf(body', queued').commands = queued' /\ SameIdentity(WindowOf(body', queued'), body)
    BY <2>1 DEF WindowOf, SameIdentity
  <2>3. Drawn(WindowOf(body', queued'))
    BY <2>1, <2>2, QueueDrawn
  <2>4. Drawn(staged')
    <3>1. CASE staged' = NoWindow
      BY <3>1, NothingDrawn, NoWindowIs
    <3>2. CASE staged' # NoWindow
      <4>1. /\ SameIdentity(staged', staged) /\ DOMAIN staged'.commands \subseteq DOMAIN staged.commands
            /\ \A s \in DOMAIN staged'.commands : staged'.commands[s] = staged.commands[s]
        BY <2>1, <3>2, StagedPastIs DEF Typed
      <4> QED
        BY <1>1, <4>1, PartDrawn
    <3> QED
      BY <3>1, <3>2
  <2> QED
    BY <2>1, <2>3, <2>4, MovedContained DEF roleVars, workerVars
<1> QED
  BY <1>2, <1>3, <1>4

LEMMA StepContained == Typed /\ Host /\ Chain /\ Contained /\ [Next]_vars => Contained'
<1> SUFFICES ASSUME Typed, Host, Chain, Contained, [Next]_vars
             PROVE  Contained'
  OBVIOUS
<1>1. CASE Interrupt \/ SendWindow \/ LoseWindow \/ UNCHANGED vars
  <2>1. /\ inputs' \subseteq inputs \cup ({latest} \ {NoWindow})
        /\ UNCHANGED <<seen, pending, tip, handing, latest, submitted, snap, staged, body, queued>>
    BY <1>1 DEF Interrupt, SendWindow, Sent, LoseWindow, vars, roleVars, workerVars, wireVars, matchVars, hostVars
  <2>2. {staged, WindowOf(body, queued)} \subseteq Held
    BY DEF Held
  <2>3. Drawn(staged') /\ Drawn(WindowOf(body', queued'))
    BY <2>1, <2>2, HeldDrawn
  <2> QED
    BY <2>1, <2>3, MovedContained
<1>2. CASE ReceiveInput
  BY <1>2, SubmitContained DEF ReceiveInput
<1> QED
  BY <1>1, <1>2, RunContained, SendInputContained, ReceiveContained, SimulationContained DEF Next

LEMMA AlwaysContained == Spec => []Contained
<1> QED
  BY InitContained, StepContained, AlwaysTyped, AlwaysHost, AlwaysChain, PTL DEF Spec

\* One command identity, one content, wherever it is held (LocalPlayerPrediction::Resume,
\* SendInput, SubmitInput).
THEOREM AlwaysOneContent == Spec => []OneContent
<1>1. Contained => OneContent
  BY DEF Contained
<1> QED
  BY <1>1, AlwaysContained, PTL

-----------------------------------------------------------------------------
(* What follows for the Match and for the Client.                          *)

LEMMA Ready ==
  ASSUME Typed, Host, Chain, Contained
  PROVE  WindowsAdmissible
<1> SUFFICES ASSUME NEW w \in inputs, ~(w.epoch < body.epoch)
             PROVE  Admissible(w)
  BY DEF WindowsAdmissible
<1>1. w \in Held /\ w \in Window /\ w.epoch \in Nat /\ w.commands \in Commands
  <2>1. w \in Held
    BY DEF Held
  <2>2. w \in Window
    BY DEF Typed, TypeOK
  <2> QED
    BY <2>1, <2>2, Sizes DEF Window
<1>2. w.commands # <<>> /\ Cardinality(DOMAIN w.commands) <= MaxPendingCommands
  BY DEF Contained, Sized
<1>3. w.epoch <= seen.epoch
  <2>1. PICK s \in DOMAIN w.commands : TRUE
    BY <1>1, <1>2, NoCommands
  <2> QED
    BY <1>1, <2>1 DEF Contained, Made
<1>4. /\ w.epoch = seen.epoch /\ seen.epoch = snap.epoch /\ snap.epoch = body.epoch
      /\ seen.life = snap.life /\ snap.life = body.life /\ seen.cursor <= snap.cursor /\ snap.cursor <= body.cursor
      /\ seen.cursor \in Nat /\ body.cursor \in Nat /\ snap.cursor \in Nat /\ tip \in Nat
  BY <1>1, <1>3, Cursors
<1>5. \A s \in DOMAIN w.commands : w.life = seen.life /\ s <= tip /\ s \in Nat
  BY <1>1, <1>4, CommandsAre, Sizes DEF Contained, Made, Numbers
<1>6. SameIdentity(w, body)
  <2>1. PICK s \in DOMAIN w.commands : TRUE
    BY <1>1, <1>2, NoCommands
  <2> QED
    BY <1>4, <1>5, <2>1 DEF SameIdentity
<1>7. \A s \in DOMAIN w.commands : s <= body.cursor + MaxFutureCommands
  <2>1. tip <= seen.cursor + MaxPendingCommands
    <3>1. DOMAIN pending = (seen.cursor + 1)..tip
      BY DEF Contained, Predicted
    <3>2. Cardinality(DOMAIN pending) <= MaxPendingCommands
      BY DEF Typed, TypeOK
    <3>3. Cardinality((seen.cursor + 1)..tip) = IF seen.cursor + 1 > tip THEN 0 ELSE tip - (seen.cursor + 1) + 1
      <4>1. seen.cursor + 1 \in Int /\ tip \in Int
        BY <1>4
      <4> QED
        BY <4>1, FS_Interval
    <3> QED
      BY <1>4, <3>1, <3>2, <3>3, Sizes
  <2> QED
    BY <1>4, <1>5, <2>1, Sizes
<1>8. ASSUME NEW v \in Held, v.epoch = body.epoch
      PROVE  Agree(Past(w.commands, body.cursor), v.commands)
  <2>1. Agree(w.commands, v.commands)
    BY <1>1, <1>4, <1>8 DEF Contained, OneContent
  <2> QED
    BY <1>1, <1>4, <2>1, PastIs DEF Agree
<1>9. Agree(Past(w.commands, body.cursor), queued)
  <2>1. WindowOf(body, queued) \in Held /\ WindowOf(body, queued).epoch = body.epoch
        /\ WindowOf(body, queued).commands = queued
    BY DEF Held, WindowOf
  <2> QED
    BY <1>8, <2>1
<1>10. Agree(Past(w.commands, body.cursor), staged.commands)
  <2>1. CASE staged = NoWindow
    BY <2>1, NoWindowIs, NoCommands DEF Agree
  <2>2. CASE staged # NoWindow
    <3>1. staged \in Held /\ staged.epoch = body.epoch
      BY <2>2 DEF Held, Host, StagedAdmissible, SameIdentity
    <3> QED
      BY <1>8, <3>1
  <2> QED
    BY <2>1, <2>2
<1> QED
  BY <1>2, <1>6, <1>7, <1>9, <1>10 DEF Admissible, AdmitInput

\* The Match refuses a window only because its epoch is over (AdmitInput, SubmitInput).
THEOREM AlwaysAdmissible == Spec => []WindowsAdmissible
<1> QED
  BY Ready, AlwaysTyped, AlwaysHost, AlwaysChain, AlwaysContained, PTL

LEMMA Resubmitted ==
  ASSUME Typed, Chain, Contained
  PROVE  SubmittedKept
<1> DEFINE commands == Past(handing.commands, snap.cursor)
<1> SUFFICES ASSUME SameIdentity(handing, snap), commands # <<>>, NEW s \in DOMAIN Past(submitted, snap.cursor)
             PROVE  s \in DOMAIN commands /\ commands[s] = submitted[s]
  BY DEF SubmittedKept
<1>1. /\ handing \in Window /\ handing.commands \in Commands /\ submitted \in Commands /\ snap.cursor \in Nat
      /\ seen.cursor \in Nat /\ tip \in Nat
  <2>1. handing \in Window /\ submitted \in Commands
    BY DEF Typed, TypeOK
  <2>2. handing.commands \in Commands
    BY <2>1 DEF Window
  <2> QED
    BY <2>1, <2>2, Cursors
<1>2. handing # NoWindow
  <2>1. Past(<<>>, snap.cursor) \in Commands /\ DOMAIN Past(<<>>, snap.cursor) \subseteq DOMAIN <<>>
    <3>1. <<>> \in Commands /\ snap.cursor \in Nat
      BY <1>1, NoCommands
    <3>2. DOMAIN Past(<<>>, snap.cursor) = {r \in DOMAIN <<>> : r > snap.cursor}
      BY <3>1, PastIs
    <3>3. Past(<<>>, snap.cursor) \in Commands
      BY <3>1, PastIs
    <3> QED
      BY <3>2, <3>3
  <2> QED
    BY <2>1, NoCommands, NoWindowIs
<1>3. handing = WindowOf(seen, pending) /\ DOMAIN pending = (seen.cursor + 1)..tip
  BY <1>2 DEF Contained, Predicted
<1>4. /\ handing.commands = pending /\ seen.epoch = snap.epoch /\ handing.epoch = snap.epoch
      /\ seen.cursor <= snap.cursor
  <2>1. handing.commands = pending /\ handing.epoch = seen.epoch
    BY <1>3 DEF WindowOf
  <2> QED
    BY <2>1, Cursors DEF SameIdentity
<1>5. s \in DOMAIN submitted /\ s > snap.cursor /\ s \in Nat
  <2>1. DOMAIN Past(submitted, snap.cursor) = {r \in DOMAIN submitted : r > snap.cursor}
    BY <1>1, PastIs
  <2>2. DOMAIN submitted \subseteq Numbers
    BY <1>1, CommandsAre
  <2> QED
    BY <2>1, <2>2, Sizes DEF Numbers
<1>6. handing \in Held /\ WindowOf(snap, submitted) \in Held /\ WindowOf(snap, submitted).epoch = snap.epoch
      /\ WindowOf(snap, submitted).commands = submitted
  BY DEF Held, WindowOf
<1>7. s <= tip
  BY <1>4, <1>5, <1>6 DEF Contained, Made
<1>8. s \in DOMAIN pending
  BY <1>1, <1>3, <1>4, <1>5, <1>7
<1>9. pending[s] = submitted[s]
  BY <1>4, <1>5, <1>6, <1>8 DEF Contained, OneContent, Agree
<1>10. s \in DOMAIN commands /\ commands[s] = pending[s]
  <2>1. DOMAIN commands = {r \in DOMAIN handing.commands : r > snap.cursor}
    BY <1>1, PastIs
  <2>2. \A r \in DOMAIN commands : commands[r] = handing.commands[r]
    BY <1>1, PastIs
  <2> HIDE DEF commands
  <2>3. s \in DOMAIN commands
    BY <1>4, <1>5, <1>8, <2>1
  <2> QED
    BY <1>4, <2>2, <2>3
<1> QED
  BY <1>9, <1>10

LEMMA ReadInOrder ==
  ASSUME Typed, Chain
  PROVE  SnapshotsReconcile
<1> DEFINE read == <<snap>> \o snapshots
<1>1. snapshots \in Seq(Snapshot) /\ Len(snapshots) \in Nat
  BY DEF Typed, TypeOK
<1>2. /\ Len(read) = Len(snapshots) + 1 /\ read[1] = snap
      /\ \A k \in 2..Len(read) : read[k] = snapshots[k - 1]
  <2>1. <<snap>> \in Seq(Snapshot) /\ Len(<<snap>>) = 1
    BY Cursors
  <2> QED
    BY <1>1, <2>1
<1> HIDE DEF read
<1>3. ASSUME NEW k \in 1..(Len(read) - 1)
      PROVE  Follows(read[k + 1], read[k])
  <2>1. k \in 1..Len(snapshots) /\ read[k + 1] = snapshots[k]
    BY <1>1, <1>2
  <2>2. CASE k = 1
    BY <1>2, <2>1, <2>2 DEF Chain
  <2>3. CASE k # 1
    <3>1. k - 1 \in 1..Len(snapshots) /\ k - 1 < k /\ read[k] = snapshots[k - 1]
      BY <1>1, <1>2, <2>1, <2>3
    <3> QED
      BY <2>1, <3>1 DEF Chain
  <2> QED
    BY <2>2, <2>3
<1>4. Follows(snap, seen)
  BY DEF Chain
<1> QED
  BY <1>3, <1>4 DEF SnapshotsReconcile, read

\* No assertion of the Client fails, whatever was lost between the Match, the worker and the
\* simulation (SendInput, LocalPlayerPrediction::Observe).
THEOREM NeverFaults == Spec => []ClientNeverFaults
<1>1. Typed /\ Chain /\ Contained => ClientNeverFaults
  BY Resubmitted, ReadInOrder DEF ClientNeverFaults
<1> QED
  BY <1>1, AlwaysTyped, AlwaysChain, AlwaysContained, PTL

=============================================================================
