------------------------------- MODULE AudioMixer -------------------------------
(***************************************************************************)
(* Engine::Audio::Mixer: submitter threads queue plays, stops and unloads  *)
(* of clips on a ring each, the audio thread takes them in Render, mixes   *)
(* its voices (VoiceMixer) and publishes where they are on a board         *)
(* (PlayheadBoard) that any thread reads.  Nothing is locked: an action is *)
(* the code between two atomic operations that another thread reads.       *)
(*                                                                         *)
(* Frames are counted from the next one to render, so a start below zero   *)
(* is a voice that has started.  Where the clock maps a request (late,     *)
(* now, ahead) is chosen when it is taken; a block is one chunk.  Samples, *)
(* gains, statistics and the clips of the bank, which are never freed, are *)
(* left out, and all submitters have been handed out.                      *)
(***************************************************************************)
EXTENDS Integers, Sequences, FiniteSets, FiniteSetsExt

CONSTANTS
  Submitters,       \* numbered from 1
  ClipSlots,        \* slots of a submitter, numbered from 1
  Voices,           \* numbered from 1
  Capacity,         \* commands a ring holds
  ClipFrames,       \* frames of a clip
  MaxAhead,         \* bound: frames from now to a start or a stop
  MaxBlock,         \* bound: frames of a block
  MaxCommands,      \* bound: commands of a submitter
  MaxReads          \* bound: calls of PlayheadOf

ASSUME NumbersAssumption ==
  /\ \A names \in {Submitters, ClipSlots, Voices} :
       IsFiniteSet(names) /\ names = 1..Cardinality(names) /\ names # {}
  /\ {Capacity, ClipFrames, MaxBlock} \subseteq Nat \ {0}
  /\ {MaxAhead, MaxCommands, MaxReads} \subseteq Nat

VARIABLES
  \* SubmitterSlot, per submitter.
  ring, tail, head,
  writing,          \* its producer has written ring[tail] and not yet stored the tail
  lastSequence,
  \* ClipSlot, per submitter and slot.
  clip,             \* the owner's: state, generation, view (the generation of its samples, or 0)
  lease,            \* the audio thread's: voices, unloadTaken
  handedBack,
  \* The audio thread in Render.
  audio,            \* place: "slot", "command", "head", "mix" or one on the board; its locals
  voices,           \* Voice: active, handle, clip, start, stop, position
  tag, state,       \* PlayheadBoard
  published,
  \* One thread in PlayheadOf.
  reader,           \* place, asked, entry, read; whether the sound was on the board all along
  reads

ringVars == <<ring, tail, head, writing, lastSequence>>
clipVars == <<clip, lease, handedBack>>
boardVars == <<tag, state, published>>
readerVars == <<reader, reads>>
vars == <<ringVars, clipVars, audio, voices, boardVars, readerVars>>

None == <<0, 0>>
NoClip == <<0, 0, 0>>
Handles == Submitters \X (1..MaxCommands)
Clips == (Submitters \X ClipSlots \X (1..(MaxCommands + 1))) \cup {NoClip}
Never == MaxAhead + MaxBlock + 1
Commands == [kind : {"play", "stop", "stopAll", "unload"}, handle : Submitters \X (0..MaxCommands),
             clip : Clips, n : 1..MaxCommands]
NoCommand == [kind |-> "none", handle |-> None, clip |-> NoClip, n |-> 0]
Voice == [active : BOOLEAN, handle : Handles \cup {None}, clip : Clips,
          start : -1..MaxAhead, stop : 0..Never, position : 0..ClipFrames]
BoardState == [handle : Handles \cup {None}, position : 0..ClipFrames, started : BOOLEAN]
IdleVoice == [active |-> FALSE, handle |-> None, clip |-> NoClip, start |-> 0, stop |-> 0, position |-> 0]
NoState == [handle |-> None, position |-> 0, started |-> FALSE]
NoReader == [place |-> "out", asked |-> None, entry |-> 1, read |-> NoState, present |-> FALSE]
Least(a, b) == IF a < b THEN a ELSE b
Most(a, b) == IF a < b THEN b ELSE a

RingTypes ==
  /\ ring \in [Submitters -> [0..(Capacity - 1) -> Commands \cup {NoCommand}]]
  /\ {tail, head} \subseteq [Submitters -> 0..MaxCommands] /\ writing \in [Submitters -> BOOLEAN]
  /\ \A s \in Submitters : tail[s] - head[s] \in 0..Capacity
  /\ lastSequence \in [Submitters -> 0..MaxCommands]

ClipTypes ==
  /\ clip \in [Submitters -> [ClipSlots ->
       [state : {"free", "loaded", "unloading"}, generation : 1..(MaxCommands + 1), view : 0..(MaxCommands + 1)]]]
  /\ lease \in [Submitters -> [ClipSlots -> [voices : 0..Cardinality(Voices), unloadTaken : BOOLEAN]]]
  /\ handedBack \in [Submitters -> [ClipSlots -> BOOLEAN]]

AudioTypes ==
  audio \in [place : {"slot", "command", "head", "mix", "publish", "assign", "name"}, s : Submitters,
             h : 0..MaxCommands, tail : 0..MaxCommands, voice : Voices]

VoiceTypes == voices \in [Voices -> Voice]

BoardTypes ==
  /\ tag \in [Voices -> Handles \cup {None}] /\ published \in [Voices -> Handles \cup {None}]
  /\ state \in [Voices -> BoardState]

ReaderTypes ==
  /\ reader \in [place : {"out", "tag", "state", "again", "found", "missing"}, asked : Handles \cup {None},
       entry : Voices, read : BoardState, present : BOOLEAN]
  /\ reads \in 0..MaxReads

\* Types, the bounds of the rings, and what a voice and a lease can hold.
TypeOK == RingTypes /\ ClipTypes /\ AudioTypes /\ VoiceTypes /\ BoardTypes /\ ReaderTypes

Init ==
  /\ ring = [s \in Submitters |-> [i \in 0..(Capacity - 1) |-> NoCommand]]
  /\ tail = [s \in Submitters |-> 0] /\ head = tail /\ lastSequence = tail
  /\ writing = [s \in Submitters |-> FALSE]
  /\ clip = [s \in Submitters |-> [i \in ClipSlots |-> [state |-> "free", generation |-> 1, view |-> 0]]]
  /\ lease = [s \in Submitters |-> [i \in ClipSlots |-> [voices |-> 0, unloadTaken |-> FALSE]]]
  /\ handedBack = [s \in Submitters |-> [i \in ClipSlots |-> FALSE]]
  /\ audio = [place |-> "slot", s |-> 1, h |-> 0, tail |-> 0, voice |-> 1]
  /\ voices = [v \in Voices |-> IdleVoice]
  /\ tag = [v \in Voices |-> None] /\ published = tag /\ state = [v \in Voices |-> NoState]
  /\ reader = NoReader
  /\ reads = 0

-----------------------------------------------------------------------------
(* A producer, the owner of its submitter.                                 *)

\* Enqueue up to its last store: a full ring refuses, and the call changes nothing.
Write(s, kind, sequence, named) ==
  /\ ~writing[s] /\ tail[s] < MaxCommands
  /\ tail[s] - head[s] < Capacity
  /\ ring' = [ring EXCEPT ![s][tail[s] % Capacity] =
       [kind |-> kind, handle |-> <<s, sequence>>, clip |-> named, n |-> tail[s] + 1]]
  /\ writing' = [writing EXCEPT ![s] = TRUE]
  /\ UNCHANGED <<tail, head, lastSequence, clipVars, audio, voices, boardVars, readerVars>>

\* A clip the submitter may play or unload.
Loaded(s, i) == clip[s][i].state = "loaded"
Named(s, i) == <<s, i, clip[s][i].generation>>

Play(s) ==
  \E i \in ClipSlots : Loaded(s, i) /\ Write(s, "play", lastSequence[s] + 1, Named(s, i))

Stop(s) == \E sequence \in 1..lastSequence[s] : Write(s, "stop", sequence, NoClip)
StopAll(s) == Write(s, "stopAll", 0, NoClip)
UnloadClip(s) == \E i \in ClipSlots : Loaded(s, i) /\ Write(s, "unload", 0, Named(s, i))

\* The tail is stored, and the call returns with its effects on what the owner keeps.
Publish(s) ==
  /\ writing[s]
  /\ writing' = [writing EXCEPT ![s] = FALSE]
  /\ tail' = [tail EXCEPT ![s] = @ + 1]
  /\ LET command == ring[s][tail[s] % Capacity]
         unloaded == command.clip[2]
     IN /\ lastSequence' = [lastSequence EXCEPT ![s] = @ + IF command.kind = "play" THEN 1 ELSE 0]
        /\ clip' = IF command.kind # "unload" THEN clip
                   ELSE [clip EXCEPT ![s][unloaded].state = "unloading", ![s][unloaded].generation = @ + 1]
  /\ UNCHANGED <<ring, head, lease, handedBack, audio, voices, boardVars, readerVars>>

\* What LoadClip frees first.
Reclaimed(s) == {i \in ClipSlots : clip[s][i].state = "unloading" /\ handedBack[s][i]}

\* LoadClip: the samples of handed-back slots are freed; then the first free slot takes the
\* clip, unless the clip is not valid or there is none.  The code looks at the slots one by
\* one (Mixer.cpp:304): a slot that is handed back after the look is left to the next call,
\* and nobody but this thread reads the flags.
LoadClip(s) ==
  /\ ~writing[s]
  /\ handedBack' = [handedBack EXCEPT ![s] = [i \in ClipSlots |-> @[i] /\ i \notin Reclaimed(s)]]
  /\ LET after == [i \in ClipSlots |-> IF i \in Reclaimed(s)
                     THEN [clip[s][i] EXCEPT !.state = "free", !.view = 0] ELSE clip[s][i]]
         free == {i \in ClipSlots : after[i].state = "free"}
     IN \/ clip' = [clip EXCEPT ![s] = after]
        \/ /\ free # {}
           /\ clip' = [clip EXCEPT ![s] =
                [after EXCEPT ![Min(free)].state = "loaded", ![Min(free)].view = after[Min(free)].generation]]
  /\ UNCHANGED <<ringVars, lease, audio, voices, boardVars, readerVars>>

-----------------------------------------------------------------------------
(* The audio thread: Render.                                               *)

NextSlot(s) ==
  IF s + 1 \in Submitters THEN [audio EXCEPT !.place = "slot", !.s = s + 1, !.h = 0, !.tail = 0]
  ELSE [audio EXCEPT !.place = "mix", !.h = 0, !.tail = 0]

LoadTail ==
  /\ audio.place = "slot"
  /\ audio' = IF head[audio.s] = tail[audio.s] THEN NextSlot(audio.s)
              ELSE [audio EXCEPT !.place = "command", !.h = head[audio.s], !.tail = tail[audio.s]]
  /\ UNCHANGED <<ringVars, clipVars, voices, boardVars, readerVars>>

\* The command at the local head, and the next one or the end of the loop.
Taking(command) ==
  /\ audio.place = "command"
  /\ command = ring[audio.s][audio.h % Capacity]
  /\ audio' = [audio EXCEPT !.h = @ + 1, !.place = IF audio.h + 1 = audio.tail THEN "head" ELSE "command"]
  /\ UNCHANGED <<ringVars, boardVars, readerVars>>

FreeVoices == {v \in Voices : ~voices[v].active}

\* The lease of a clip that may be played once more.
Leased(command) ==
  [lease EXCEPT ![command.clip[1]][command.clip[2]].voices = @ + 1]

\* Mutant of TakePlay: a play that found no voice leases its clip all the same.
TakePlayMutant(command) ==
  /\ Taking(command) /\ command.kind = "play"
  /\ lease' = Leased(command)
  /\ IF FreeVoices = {} THEN UNCHANGED voices
     ELSE \E start \in 0..MaxAhead :
            voices' = [voices EXCEPT ![Min(FreeVoices)] =
              [active |-> TRUE, handle |-> command.handle, clip |-> command.clip,
               start |-> start, stop |-> Never, position |-> 0]]
  /\ UNCHANGED <<clip, handedBack>>

\* ScheduleChecked in the first free voice; a play without one is dropped.
TakePlay(command) ==
  /\ Taking(command) /\ command.kind = "play"
  /\ IF FreeVoices = {} THEN UNCHANGED <<voices, lease>>
     ELSE /\ \E start \in 0..MaxAhead :
               voices' = [voices EXCEPT ![Min(FreeVoices)] =
                 [active |-> TRUE, handle |-> command.handle, clip |-> command.clip,
                  start |-> start, stop |-> Never, position |-> 0]]
          /\ lease' = Leased(command)
  /\ UNCHANGED <<clip, handedBack>>

\* HandBack resets the lease.
Fresh == [voices |-> 0, unloadTaken |-> FALSE]

\* Mutant of TakeUnload: the voices that still play the clip are not waited for.
TakeUnloadMutant(command) ==
  /\ Taking(command) /\ command.kind = "unload"
  /\ LET s == command.clip[1] i == command.clip[2]
     IN lease' = [lease EXCEPT ![s][i] = Fresh] /\ handedBack' = [handedBack EXCEPT ![s][i] = TRUE]
  /\ UNCHANGED <<clip, voices>>

TakeUnload(command) ==
  /\ Taking(command) /\ command.kind = "unload"
  /\ LET s == command.clip[1] i == command.clip[2]
     IN IF lease[s][i].voices = 0
        THEN lease' = [lease EXCEPT ![s][i] = Fresh] /\ handedBack' = [handedBack EXCEPT ![s][i] = TRUE]
        ELSE lease' = [lease EXCEPT ![s][i].unloadTaken = TRUE] /\ UNCHANGED handedBack
  /\ UNCHANGED <<clip, voices>>

\* ReleaseEnded, for the voices that have ended: each gives its part of a lease back, and the
\* last one of an unloaded clip its slot.
Release(ending) ==
  LET Left(s, i) == lease[s][i].voices - Cardinality({v \in ending : voices[v].clip[1] = s /\ voices[v].clip[2] = i})
      Returned(s, i) == Left(s, i) = 0 /\ lease[s][i].voices # 0 /\ lease[s][i].unloadTaken
  IN /\ lease' = [s \in Submitters |-> [i \in ClipSlots |->
          IF Returned(s, i) THEN Fresh ELSE [lease[s][i] EXCEPT !.voices = Left(s, i)]]]
     /\ handedBack' = [s \in Submitters |-> [i \in ClipSlots |-> handedBack[s][i] \/ Returned(s, i)]]

\* The voices a stop names: the one of its sound, or all of its submitter.
Stopped(command) ==
  {v \in Voices : /\ voices[v].active
                  /\ IF command.kind = "stop" THEN voices[v].handle = command.handle
                     ELSE voices[v].handle[1] = command.handle[1]}

\* Stop at frame `at', and ReleaseEnded: a voice ends now when the frame is not after its
\* start, or not after the next one; otherwise its earliest stop counts.
TakeStop(command) ==
  /\ Taking(command) /\ command.kind \in {"stop", "stopAll"}
  /\ \E at \in 0..MaxAhead :
       LET ending == {v \in Stopped(command) : at <= Most(voices[v].start, 0)}
       IN /\ Release(ending)
          /\ voices' = [v \in Voices |->
               IF v \in ending THEN IdleVoice
               ELSE IF v \in Stopped(command) THEN [voices[v] EXCEPT !.stop = Least(@, at)]
               ELSE voices[v]]
  /\ UNCHANGED clip

StoreHead ==
  /\ audio.place = "head"
  /\ head' = [head EXCEPT ![audio.s] = audio.h]
  /\ audio' = NextSlot(audio.s)
  /\ UNCHANGED <<ring, tail, writing, lastSequence, clipVars, voices, boardVars, readerVars>>

\* RenderChunk of n frames for one voice: it mixes from its start, or from where it is, to
\* its stop, the end of the clip or of the chunk.
Rendered(voice, n) ==
  LET from == Most(voice.start, 0)
      until == Least(voice.stop, n)
      mixed == Most(Least(until - from, ClipFrames - voice.position), 0)
  IN IF ~voice.active THEN voice
     ELSE IF voice.start >= n THEN
       [voice EXCEPT !.start = @ - n, !.stop = IF @ = Never THEN Never ELSE @ - n]
     ELSE IF voice.position + mixed = ClipFrames \/ from + mixed >= voice.stop THEN IdleVoice
     ELSE [voice EXCEPT !.start = -1, !.stop = IF @ = Never THEN Never ELSE @ - n, !.position = @ + mixed]

\* voices.Render of a block, and ReleaseEnded.
Mix ==
  /\ audio.place = "mix"
  /\ \E n \in 1..MaxBlock :
       /\ voices' = [v \in Voices |-> Rendered(voices[v], n)]
       /\ Release({v \in Voices : voices[v].active /\ ~Rendered(voices[v], n).active})
  /\ audio' = [audio EXCEPT !.place = "publish", !.voice = 1]
  /\ UNCHANGED <<ringVars, clip, boardVars, readerVars>>

-----------------------------------------------------------------------------
(* The board: PublishVoices by the audio thread, store by store, and       *)
(* PlayheadOf by another thread, load by load.                             *)

NextVoice ==
  audio' = IF audio.voice + 1 \in Voices THEN [audio EXCEPT !.place = "publish", !.voice = @ + 1]
           ELSE [audio EXCEPT !.place = "slot", !.s = 1, !.voice = 1]

\* A store of a tag, and whether the sound that is asked for is still on the board.
StoreTag(v, handle) ==
  /\ tag' = [tag EXCEPT ![v] = handle]
  /\ reader' = [reader EXCEPT !.present = @ /\ \E w \in Voices : tag'[w] = reader.asked]

StateOf(v) == [handle |-> voices[v].handle, position |-> voices[v].position, started |-> voices[v].start < 0]

\* An idle voice is cleared, one that still plays its sound published, another assigned.
PublishVoice ==
  LET v == audio.voice
  IN /\ audio.place = "publish"
     /\ \/ /\ ~voices[v].active /\ published[v] = None
           /\ NextVoice /\ UNCHANGED <<boardVars, reader>>
        \/ /\ ~voices[v].active /\ published[v] # None
           /\ StoreTag(v, None) /\ published' = [published EXCEPT ![v] = None]
           /\ NextVoice /\ UNCHANGED state
        \/ /\ voices[v].active /\ published[v] = voices[v].handle
           /\ state' = [state EXCEPT ![v] = StateOf(v)]
           /\ NextVoice /\ UNCHANGED <<tag, published, reader>>
        \/ /\ voices[v].active /\ published[v] # voices[v].handle
           /\ StoreTag(v, None)
           /\ audio' = [audio EXCEPT !.place = "assign"] /\ UNCHANGED <<state, published>>
     /\ UNCHANGED <<ringVars, clipVars, voices, reads>>

AssignState ==
  /\ audio.place = "assign"
  /\ state' = [state EXCEPT ![audio.voice] = StateOf(audio.voice)]
  /\ audio' = [audio EXCEPT !.place = "name"]
  /\ UNCHANGED <<ringVars, clipVars, voices, tag, published, readerVars>>

AssignTag ==
  /\ audio.place = "name"
  /\ StoreTag(audio.voice, voices[audio.voice].handle)
  /\ published' = [published EXCEPT ![audio.voice] = voices[audio.voice].handle]
  /\ NextVoice
  /\ UNCHANGED <<ringVars, clipVars, voices, state, reads>>

\* PlayheadOf of a sound that has a handle.
PlayheadOf ==
  /\ reader.place = "out" /\ reads < MaxReads
  /\ reads' = reads + 1
  /\ \E s \in Submitters : \E sequence \in 1..lastSequence[s] :
       reader' = [place |-> "tag", asked |-> <<s, sequence>>, entry |-> 1, read |-> NoState,
                  present |-> \E v \in Voices : tag[v] = <<s, sequence>>]
  /\ UNCHANGED <<ringVars, clipVars, audio, voices, boardVars>>

Reading(place) == reader.place = place /\ UNCHANGED <<ringVars, clipVars, audio, voices, boardVars, reads>>

ReadTag ==
  /\ Reading("tag")
  /\ reader' = IF tag[reader.entry] = reader.asked THEN [reader EXCEPT !.place = "state"]
               ELSE IF reader.entry + 1 \in Voices THEN [reader EXCEPT !.entry = @ + 1]
               ELSE [reader EXCEPT !.place = "missing"]

ReadState == Reading("state") /\ reader' = [reader EXCEPT !.read = state[reader.entry], !.place = "again"]

\* Mutant of ReadAgain: the tag is not read again.
ReadAgainMutant == Reading("again") /\ reader' = [reader EXCEPT !.place = "found"]

ReadAgain ==
  /\ Reading("again")
  /\ reader' = [reader EXCEPT !.place = IF tag[reader.entry] = reader.asked THEN "found" ELSE "missing"]

ReadReturns == \E place \in {"found", "missing"} : Reading(place) /\ reader' = NoReader

-----------------------------------------------------------------------------

Taken(s) == ring[s][audio.h % Capacity]
Render ==
  \/ LoadTail
  \/ audio.place = "command" /\ (TakePlay(Taken(audio.s)) \/ TakeUnload(Taken(audio.s)) \/ TakeStop(Taken(audio.s)))
  \/ StoreHead \/ Mix
  \/ PublishVoice \/ AssignState \/ AssignTag

Next ==
  \/ \E s \in Submitters : Play(s) \/ Stop(s) \/ StopAll(s) \/ UnloadClip(s) \/ Publish(s) \/ LoadClip(s)
  \/ Render
  \/ PlayheadOf \/ ReadTag \/ ReadState \/ ReadAgain \/ ReadReturns

Spec == Init /\ [][Next]_vars

\* The output device asks for one block after another, and a producer that has written a
\* command stores its tail; nobody is assumed to play, stop, load or unload.
FairSpec == Spec /\ WF_vars(Render) /\ \A s \in Submitters : WF_vars(Publish(s))

-----------------------------------------------------------------------------
(* What the mixer promises.                                                *)

\* What the audio thread reads is what was meant: the ring's element is the command of that
\* number, and a clip's samples are still those of the clip a play or a voice names, never
\* freed or loaded anew (Mixer.cpp:38, "Design Invariant 7").
ReadsValid ==
  LET Alive(c) == c = NoClip \/ clip[c[1]][c[2]].view = c[3]
  IN /\ \A v \in Voices : voices[v].active => Alive(voices[v].clip)
     /\ audio.place = "command" =>
          LET command == Taken(audio.s)
          IN command.n = audio.h + 1 /\ Alive(command.clip)

\* A playhead is that of the sound asked for, although its voice may be given to another
\* meanwhile; and a sound that is on the board throughout is found (PlayheadBoard.hpp:23).
PlayheadExact ==
  /\ reader.place = "found" => reader.read.handle = reader.asked
  /\ reader.place = "missing" => ~reader.present

\* A clip that was unloaded gives its slot back, whatever was playing, stopped or dropped
\* for want of a voice: no lease is forgotten (Mixer.hpp:138).
UnloadsReturn ==
  \A s \in Submitters, i \in ClipSlots : clip[s][i].state = "unloading" ~> handedBack[s][i]

=============================================================================
