-------------------------- MODULE MovementDelivery --------------------------
(***************************************************************************)
(* One player's movement during one stay in the Match: numbered commands   *)
(* predicted by the Client, executed or substituted by the authority, and  *)
(* the epochs that start the numbering again.  The actors:                 *)
(*                                                                         *)
(*   simulation role   drain, reconcile, predict   LocalPlayerPrediction   *)
(*   network worker    snapshots in, windows out   ClientConnection.cpp    *)
(*   Match I/O         admission and staging       MatchRuntimeHost.cpp    *)
(*   Match simulation  Step and Tick               PvpMatch.cpp            *)
(*                                                                         *)
(* Input windows are lost, duplicated and reordered: the Gateway forwards  *)
(* a complete window even when its datagram was overtaken (forwardInput).  *)
(* Snapshots are published or not, and the Client applies newer ticks      *)
(* only: what it reads is a subsequence of what was published.             *)
(*                                                                         *)
(* A command is its sequence and its content, an opaque value; a window is *)
(* the function from its sequences to their contents.  Deadlines, tokens   *)
(* and ages are nondeterministic: a send, a frame or a tick happens when   *)
(* it may.                                                                 *)
(* The host's reset, joining and leaving are RoomLifecycle's.              *)
(***************************************************************************)
EXTENDS Naturals, Sequences, FiniteSets, Functions

CONSTANTS
  MaxPendingCommands,  \* predicted and unacknowledged commands (12)
  MaxFutureCommands,   \* sequences beyond the cursor the Match admits (32)
  InitialCommandLead,  \* neutral commands of a seed (2)
  CatchUpSteps,        \* steps one frame may take (5)
  WireCounterMax,      \* the largest sequence and the largest epoch (2^32 - 1)
  SampleTicks,         \* samples the two fuses look at (30)
  BacklogSum,          \* their sum that clears a backlog (105)
  ResetCooldown,       \* ticks between a reset and the next fuse (60)
  Retention,           \* sequences a substitution record is kept (600)
  Contents,            \* contents of a command made from the player's input
  MaxEpochs,           \* bound: epochs of the stay, for WireCounterMax
  MaxWindows,          \* bound: windows under way
  MaxSnapshots         \* bound: snapshots under way

ASSUME SizesAssumption ==
  /\ MaxPendingCommands \in Nat \ {0} /\ InitialCommandLead \in Nat \ {0}
  /\ InitialCommandLead <= MaxPendingCommands
  /\ MaxPendingCommands <= MaxFutureCommands /\ MaxFutureCommands \in Nat
  /\ CatchUpSteps \in Nat \ {0} /\ WireCounterMax \in Nat \ {0}
ASSUME FusesAssumption ==
  /\ SampleTicks \in Nat \ {0} /\ BacklogSum \in Nat
  /\ ResetCooldown \in Nat /\ Retention \in Nat
ASSUME ContentsAssumption == Contents \cap (0..WireCounterMax) = {}
ASSUME BoundsAssumption ==
  MaxEpochs \in Nat \ {0} /\ MaxWindows \in Nat \ {0} /\ MaxSnapshots \in Nat \ {0}

VARIABLES
  \* The simulation role: LocalPlayerPrediction, used by this thread only.
  seen,          \* the authority it last reconciled with
  pending,       \* pending_: its unacknowledged commands
  tip,           \* current_.lastResolvedCommand: the newest sequence predicted
  handing,       \* the window on its way from Run to SendInput
  \* The worker and its mailboxes, under ClientConnection::Impl::mutex.
  snap,          \* state.snapshot: the newest authority received
  unread,        \* simulationHistory holds it
  interrupted,   \* no snapshot for T_int
  resumed,       \* the one-shot flag of the next DrainSimulation
  latest,        \* latestInput: the window the worker sends
  submitted,     \* submittedCommands: the last window taken, unacknowledged
  \* Between the Client and the Match.
  inputs,        \* windows under way to the Match
  snapshots,     \* snapshots under way to the Client
  \* PvpMatch: the body and the connection.
  body,          \* movementEpoch, lifeGeneration, lastResolvedCommand
  dead,          \* lifeState
  queued,        \* connection.commands
  started,
  scheduled,     \* movementResetScheduled
  samples,       \* backlogSamples and fallbackSamples
  cooldown,      \* ticks until the fuses may fire
  \* MatchRuntimeHost, under mutex_.
  staged,        \* pendingInputs_: a window of the identity it was staged for
  receipts,      \* slack_.receipts: sequences received and not resolved
  records,       \* open substitution records
  arrived,       \* the records a late copy has reached
  \* History.
  substituted    \* sequences of this epoch the Match resolved without a command

roleVars == <<seen, pending, tip, handing>>
workerVars == <<snap, unread, interrupted, resumed, latest, submitted>>
wireVars == <<inputs, snapshots>>
matchVars == <<body, dead, queued, started, scheduled, samples, cooldown>>
hostVars == <<staged, receipts, records, arrived, substituted>>
vars == <<roleVars, workerVars, wireVars, matchVars, hostVars>>

Numbers == 1..WireCounterMax
\* A neutral command of a seed keeps the stance and the aim of the authority it
\* is seeded from: its content is that authority's cursor.
AnyContent == Contents \cup (0..WireCounterMax)
Commands == UNION {[S -> AnyContent] : S \in SUBSET Numbers}
Snapshot == [epoch : 0..MaxEpochs, life : 0..MaxEpochs, cursor : 0..WireCounterMax]
Window == [epoch : 0..MaxEpochs, life : 0..MaxEpochs, commands : Commands]

NoSnapshot == [epoch |-> 0, life |-> 0, cursor |-> 0]
NoWindow == [epoch |-> 0, life |-> 0, commands |-> <<>>]
WindowOf(s, commands) == [epoch |-> s.epoch, life |-> s.life, commands |-> commands]

Lesser(a, b) == IF a < b THEN a ELSE b
\* The commands of f, and of g those f does not have.
Over(f, g) ==
  [s \in DOMAIN f \cup DOMAIN g |-> IF s \in DOMAIN f THEN f[s] ELSE g[s]]
Past(commands, cursor) ==
  Restrict(commands, {s \in DOMAIN commands : s > cursor})
SameIdentity(w, s) == w.epoch = s.epoch /\ w.life = s.life
Agree(f, g) == \A s \in DOMAIN f \cap DOMAIN g : f[s] = g[s]
LastOf(n, queue) ==
  SubSeq(queue, IF Len(queue) > n THEN Len(queue) - n + 1 ELSE 1, Len(queue))

\* Every variable keeps its type; in particular no sequence passes
\* WireCounterMax on either side (PredictStep and Tick stop there) and every
\* mailbox keeps to its size.
TypeOK ==
  /\ seen \in Snapshot /\ snap \in Snapshot
  /\ pending \in Commands /\ Cardinality(DOMAIN pending) <= MaxPendingCommands
  /\ tip \in 0..WireCounterMax
  /\ handing \in Window /\ latest \in Window
  /\ unread \in BOOLEAN /\ interrupted \in BOOLEAN /\ resumed \in BOOLEAN
  /\ submitted \in Commands
  /\ inputs \in SUBSET Window /\ Cardinality(inputs) <= MaxWindows
  /\ snapshots \in Seq(Snapshot) /\ Len(snapshots) <= MaxSnapshots
  /\ body \in Snapshot
  /\ dead \in BOOLEAN /\ started \in BOOLEAN /\ scheduled \in BOOLEAN
  /\ queued \in Commands
  /\ samples \in Seq([pending : Nat, substituted : BOOLEAN])
  /\ Len(samples) <= SampleTicks
  /\ cooldown \in 0..ResetCooldown
  /\ staged \in Window
  /\ receipts \in SUBSET Numbers /\ records \in SUBSET Numbers
  /\ arrived \in SUBSET records
  /\ substituted \in SUBSET Numbers

Init ==
  /\ seen = NoSnapshot /\ pending = <<>> /\ tip = 0 /\ handing = NoWindow
  /\ snap = NoSnapshot /\ unread = FALSE
  /\ interrupted = FALSE /\ resumed = FALSE
  /\ latest = NoWindow /\ submitted = <<>>
  /\ inputs = {} /\ snapshots = <<>>
  /\ body = [epoch |-> 1, life |-> 1, cursor |-> 0]
  /\ dead = FALSE /\ queued = <<>> /\ started = FALSE /\ scheduled = FALSE
  /\ samples = <<>> /\ cooldown = 0
  /\ staged = NoWindow /\ receipts = {} /\ records = {} /\ arrived = {}
  /\ substituted = {}

----------------------------------------------------------------------------
(* The simulation role.                                                    *)

\* LocalPlayerPrediction::Reseeds: the authority is of another epoch or life,
\* or has passed the prediction.
Reseeds == \/ seen = NoSnapshot
           \/ ~SameIdentity(snap, seen)
           \/ snap.cursor > tip

\* Mutant of Seeds: the first snapshot after an interruption always seeds, also
\* below the tip.
SeedsAlways == unread /\ (Reseeds \/ resumed)

\* Observe seeds the prediction anew: by Reconcile, or by Resume when the
\* whole prediction is acknowledged.  Below the tip Resume must not.
Seeds == unread /\ (Reseeds \/ (resumed /\ snap.cursor = tip))

\* The commands SeedLead predicts, and what Reconcile leaves without a seed.
LeadTip == Lesser(snap.cursor + InitialCommandLead, WireCounterMax)
Base == IF Seeds THEN [s \in (snap.cursor + 1)..LeadTip |-> snap.cursor]
        ELSE IF unread THEN Past(pending, snap.cursor)
        ELSE pending
BaseTip == IF Seeds THEN LeadTip ELSE tip

\* Mutant of Room: the prediction runs ahead as far as the frame allows.
RoomUnbounded == Lesser(CatchUpSteps, WireCounterMax - BaseTip)

\* Mutant of Room: the prediction does not look at the counter.
RoomUncounted ==
  IF Cardinality(DOMAIN Base) < MaxPendingCommands
  THEN Lesser(IF Seeds THEN 1 ELSE CatchUpSteps,
              MaxPendingCommands - Cardinality(DOMAIN Base))
  ELSE 0

\* The commands one frame may add: one after a seed, two before the first
\* window has left, and none beyond the window or the counter.
Room ==
  LET authority == IF unread THEN snap ELSE seen
      steps == IF Seeds THEN 1
               ELSE IF authority.cursor = 0 /\ BaseTip <= InitialCommandLead THEN 2
               ELSE CatchUpSteps
      free == IF Cardinality(DOMAIN Base) < MaxPendingCommands
              THEN MaxPendingCommands - Cardinality(DOMAIN Base) ELSE 0
  IN  Lesser(Lesser(CatchUpSteps, steps), Lesser(free, WireCounterMax - BaseTip))

\* One pass of the role: it takes the newest snapshot, reconciles, predicts n
\* commands and, when there is something new past the bootstrap lead, has a
\* window to submit.
Run(n, content) ==
  /\ handing = NoWindow
  /\ seen # NoSnapshot \/ unread
  /\ n <= Room
  /\ seen' = IF unread THEN snap ELSE seen
  /\ pending' = Over([s \in (BaseTip + 1)..(BaseTip + n) |-> content], Base)
  /\ tip' = BaseTip + n
  /\ handing' = IF /\ Seeds \/ n > 0
                   /\ pending' # <<>>
                   /\ ~(seen'.cursor = 0 /\ tip' <= InitialCommandLead)
                THEN WindowOf(seen', pending') ELSE NoWindow
  /\ unread' = FALSE
  /\ resumed' = FALSE
  /\ UNCHANGED <<snap, interrupted, latest, submitted, wireVars, matchVars, hostVars>>

RunSimulation ==
  \E n \in 0..CatchUpSteps, content \in Contents : Run(n, content)

\* SendInput takes the window unless the worker has received authority of
\* another identity, or past all of it, in between.
SendInput ==
  /\ handing # NoWindow
  /\ handing' = NoWindow
  /\ LET commands == Past(handing.commands, snap.cursor)
     IN  IF ~SameIdentity(handing, snap) \/ commands = <<>>
         THEN UNCHANGED <<latest, submitted>>
         ELSE /\ submitted' = commands
              /\ latest' = WindowOf(handing, commands)
  /\ UNCHANGED <<seen, pending, tip, snap, unread, interrupted, resumed,
                 wireVars, matchVars, hostVars>>

----------------------------------------------------------------------------
(* The network worker and the network.                                     *)

\* The check between two snapshots: life and epoch never go back, a new life
\* has a new epoch, and the cursor of an epoch never goes back.
Follows(s, previous) ==
  /\ s.life >= previous.life /\ s.epoch >= previous.epoch
  /\ s.life > previous.life => s.epoch > previous.epoch
  /\ s.epoch = previous.epoch => s.cursor >= previous.cursor

\* What is left of a submitted window when authority s arrives.
Acknowledged(commands, s) ==
  IF s.epoch # snap.epoch THEN <<>> ELSE Past(commands, s.cursor)

\* A newer snapshot: it ends an interruption, acknowledges commands and
\* reaches the simulation together with the flag.
ReceiveSnapshot ==
  /\ snapshots # <<>>
  /\ snapshots' = Tail(snapshots)
  /\ LET s == Head(snapshots)
         left == Acknowledged(latest.commands, s)
     IN  IF ~Follows(s, snap)
         THEN UNCHANGED workerVars
         ELSE /\ snap' = s
              /\ unread' = TRUE
              /\ resumed' = (resumed \/ interrupted)
              /\ interrupted' = FALSE
              /\ submitted' = Acknowledged(submitted, s)
              /\ latest' = IF left = <<>> THEN NoWindow ELSE WindowOf(latest, left)
  /\ UNCHANGED <<roleVars, inputs, matchVars, hostVars>>

\* ConnectionLiveness: T_int has passed since the last snapshot.
Interrupt ==
  /\ snap # NoSnapshot /\ ~interrupted
  /\ interrupted' = TRUE
  /\ UNCHANGED <<roleVars, snap, unread, resumed, latest, submitted, wireVars,
                 matchVars, hostVars>>

\* Mutant of Sent: the window is gone from the mailbox once it is sent.
SentOnce == latest' = NoWindow

\* The worker keeps the window until it is acknowledged or replaced.
Sent == UNCHANGED latest

SendWindow ==
  /\ latest # NoWindow
  /\ latest \in inputs \/ Cardinality(inputs) < MaxWindows
  /\ inputs' = inputs \cup {latest}
  /\ Sent
  /\ UNCHANGED <<roleVars, snap, unread, interrupted, resumed, submitted,
                 snapshots, matchVars, hostVars>>

LoseWindow ==
  /\ \E w \in inputs : inputs' = inputs \ {w}
  /\ UNCHANGED <<roleVars, workerVars, snapshots, matchVars, hostVars>>

----------------------------------------------------------------------------
(* The Match's I/O thread.                                                 *)

\* PvpMatch::AdmitInput: the current identity, nothing too far ahead, no other
\* content than a queued command has.
AdmitInput(w) ==
  /\ w.commands # <<>> /\ Cardinality(DOMAIN w.commands) <= MaxPendingCommands
  /\ SameIdentity(w, body)
  /\ \A s \in DOMAIN w.commands : s <= body.cursor + MaxFutureCommands
  /\ Agree(Past(w.commands, body.cursor), queued)

\* MatchRuntimeHost::SubmitInput also compares with the commands staged.
Admissible(w) ==
  AdmitInput(w) /\ Agree(Past(w.commands, body.cursor), staged.commands)

\* One window reaches the host, and a copy of it may still be under way.  New
\* commands are staged, with their receipts.  The first copy of a command that
\* was substituted closes in on its record: when it is later than N_o the
\* epoch is rotated.
SubmitInput(w) ==
  /\ inputs' \in {inputs, inputs \ {w}}
  /\ IF ~Admissible(w)
     THEN UNCHANGED <<staged, receipts, arrived, scheduled>>
     ELSE LET news == Past(w.commands, body.cursor)
              first == (DOMAIN w.commands \cap records) \ arrived
          IN  /\ staged' = IF news = <<>> THEN staged
                           ELSE WindowOf(body, Over(staged.commands, news))
              /\ receipts' = receipts \cup DOMAIN news
              /\ arrived' = arrived \cup first
              /\ \E late \in BOOLEAN :
                   scheduled' = (scheduled \/ (first # {} /\ late))
  /\ UNCHANGED <<roleVars, workerVars, snapshots, body, dead, queued, started,
                 samples, cooldown, records, substituted>>

ReceiveInput == \E w \in inputs : SubmitInput(w)

----------------------------------------------------------------------------
(* The Match's simulation thread: one tick of Step.                        *)

\* The queue once Step has handed the staging over.  (It hands over only what
\* came since the last tick: the rest of the staging is queued already.)
Queue == Over(queued, staged.commands)

\* Publication of what the tick left, unless it is one that catches up; the
\* newest replaces what the mailboxes have no room for.
Publishes ==
  \/ UNCHANGED snapshots
  \/ snapshots' = LastOf(MaxSnapshots, Append(snapshots, body'))

\* Mutant of NextEpoch: a rotation starts the numbering again and keeps the epoch.
NextEpochKept(life) == [epoch |-> body.epoch, life |-> life, cursor |-> 0]
NextEpoch(life) == [epoch |-> body.epoch + 1, life |-> life, cursor |-> 0]

\* Mutant of StagingCleared: the staging of the old identity stays.
StagingKept == UNCHANGED staged

\* The tick that changes an identity discards the staging of the old one.
StagingCleared == staged' = NoWindow

\* ResetMovementEpoch, and what Step clears with it.  At the last epoch it throws
\* and the Match stops.
ResetEpoch(life) ==
  /\ body.epoch < MaxEpochs
  /\ body' = NextEpoch(life)
  /\ queued' = <<>> /\ started' = FALSE /\ scheduled' = FALSE
  /\ samples' = <<>> /\ cooldown' = ResetCooldown
  /\ StagingCleared
  /\ receipts' = {} /\ records' = {} /\ arrived' = {} /\ substituted' = {}
  /\ UNCHANGED <<roleVars, workerVars, inputs>>

Cooler == IF cooldown = 0 THEN 0 ELSE cooldown - 1

\* The respawn deadline is due and a spawn is free.
StepRespawn ==
  /\ dead
  /\ ResetEpoch(body.life + 1)
  /\ dead' \in BOOLEAN
  /\ Publishes

\* A reset was scheduled, or the sequences are used up.
StepRotate ==
  /\ scheduled \/ (started /\ body.cursor = WireCounterMax)
  /\ ResetEpoch(body.life)
  /\ dead' \in {dead, TRUE}
  /\ Publishes

\* The epoch has not started: command 1 has not come.
StepIdle ==
  /\ ~scheduled /\ ~started /\ 1 \notin DOMAIN Queue
  /\ queued' = Queue
  /\ cooldown' = Cooler
  /\ dead' \in {dead, TRUE}
  /\ UNCHANGED <<roleVars, workerVars, inputs, body, started, scheduled, samples,
                 hostVars>>
  /\ Publishes

ContiguousPending(commands, cursor) ==
  Cardinality({s \in DOMAIN commands : (cursor + 1)..s \subseteq DOMAIN commands})

\* Mutant of Kept: the record at the end of the retention is closed too early.
KeptShort(S, sequence) == {s \in S : s + Retention > sequence}
\* The records within the retention of the newest sequence.
Kept(S, sequence) == {s \in S : s + Retention >= sequence}

\* The two fuses: a whole window of ticks without usable lead, with a
\* substitution and nothing queued; or a whole window of too much lead.
Starved(sample, commands) ==
  /\ Len(sample) = SampleTicks
  /\ \A k \in DOMAIN sample : sample[k].pending = 0
  /\ \E k \in DOMAIN sample : sample[k].substituted
  /\ commands = <<>>
Backlogged(sample) ==
  /\ Len(sample) = SampleTicks
  /\ SumFunction([k \in DOMAIN sample |-> sample[k].pending]) >= BacklogSum

\* TrackSlack opens a record when it has no receipt, and the tick drops from the
\* staging what it resolved.
Opened(sequence) == IF sequence \in receipts THEN {} ELSE {sequence}
StagedPast(sequence) ==
  LET rest == Past(staged.commands, sequence)
  IN  IF rest = <<>> THEN NoWindow ELSE WindowOf(staged, rest)

\* The next sequence is resolved: with its command, or with a substitute.
StepResolve ==
  /\ ~scheduled /\ body.cursor < WireCounterMax
  /\ started \/ 1 \in DOMAIN Queue
  /\ started' = TRUE
  /\ LET sequence == body.cursor + 1
         actual == sequence \in DOMAIN Queue
         left == Restrict(Queue, DOMAIN Queue \ {sequence})
         sample == [pending |-> ContiguousPending(left, sequence),
                    substituted |-> ~actual]
     IN  /\ body' = [body EXCEPT !.cursor = sequence]
         /\ queued' = left
         /\ samples' = LastOf(SampleTicks, Append(samples, sample))
         /\ cooldown' = Cooler
         /\ scheduled' = (Cooler = 0 /\ (Starved(samples', left) \/ Backlogged(samples')))
         /\ staged' = StagedPast(sequence)
         /\ receipts' = {s \in receipts : s > sequence}
         /\ records' = Kept(records \cup Opened(sequence), sequence)
         /\ arrived' = arrived \cap records'
         /\ substituted' = IF actual THEN substituted ELSE substituted \cup {sequence}
  /\ dead' \in {dead, TRUE}
  /\ UNCHANGED <<roleVars, workerVars, inputs>>
  /\ Publishes

Tick == StepRespawn \/ StepRotate \/ StepIdle \/ StepResolve

Next ==
  \/ RunSimulation \/ SendInput
  \/ ReceiveSnapshot \/ Interrupt \/ SendWindow
  \/ LoseWindow
  \/ ReceiveInput
  \/ StepRespawn \/ StepRotate \/ StepIdle \/ StepResolve

Spec == Init /\ [][Next]_vars

----------------------------------------------------------------------------
(* Fairness.  The role's and the worker's timers run, frames take time and  *)
(* so predict, the simulation ticks and publishes.  The network is a fair   *)
(* loss: of the windows that carry an epoch's first command, sent for ever, *)
(* one arrives; what is under way arrives or is lost.                       *)

Opens(w, epoch) == w.epoch = epoch /\ 1 \in DOMAIN w.commands

Fairness ==
  /\ WF_vars(RunSimulation)
  /\ WF_vars(\E n \in 1..CatchUpSteps, content \in Contents : Run(n, content))
  /\ WF_vars(SendInput)
  /\ SF_vars(SendWindow) /\ WF_vars(LoseWindow)
  /\ SF_vars(ReceiveSnapshot)
  /\ WF_vars(Tick) /\ WF_vars(Tick /\ snapshots' # snapshots)
  /\ \A e \in 1..MaxEpochs :
       SF_vars(\E w \in inputs : Opens(w, e) /\ SubmitInput(w))

FairSpec == Spec /\ Fairness

----------------------------------------------------------------------------
(* Properties.                                                             *)

Held == inputs \cup
  {WindowOf(seen, pending), handing, latest, WindowOf(snap, submitted), staged,
   WindowOf(body, queued)}

\* One command identity, one content: whatever is predicted, resumed, resent,
\* staged or queued, a sequence of an epoch has one content everywhere
\* (SendInput's and SubmitInput's comparisons; LocalPlayerPrediction::Resume).
OneContent ==
  \A v, w \in Held : v.epoch = w.epoch => Agree(v.commands, w.commands)

\* The Match refuses a window only because its epoch is over: none is ahead of
\* the Match's epoch, reaches beyond MaxFutureCommands, has too many commands
\* or conflicts with what is queued or staged (AdmitInput, SubmitInput).
WindowsAdmissible ==
  \A w \in inputs : Admissible(w) \/ w.epoch < body.epoch

\* What is staged can always be handed over at the next tick: Step's assertion
\* on the handoff and SubmitInput's on a new identity and on the size of the
\* staging hold, however the epoch rotated in between.
StagedAdmissible ==
  staged # NoWindow =>
    /\ SameIdentity(staged, body)
    /\ Agree(staged.commands, queued)
    /\ \A s \in DOMAIN staged.commands :
         body.cursor < s /\ s <= body.cursor + MaxFutureCommands

SubmittedKept ==
  SameIdentity(handing, snap) =>
    LET commands == Past(handing.commands, snap.cursor)
    IN  commands # <<>> =>
          \A s \in DOMAIN Past(submitted, snap.cursor) :
            s \in DOMAIN commands /\ commands[s] = submitted[s]

SnapshotsReconcile ==
  LET read == <<snap>> \o snapshots
  IN  /\ \A k \in 1..(Len(read) - 1) : Follows(read[k + 1], read[k])
      /\ unread => Follows(snap, seen)

\* No assertion of the Client fails, whatever was lost between the Match, the worker and the
\* simulation. SendInput's: a window of the current identity still has every unacknowledged
\* command of the one before, unchanged. Observe's, on Reconcile: no snapshot goes back for
\* the thread that reads it, and the worker drops none as invalid.
ClientNeverFaults == SubmittedKept /\ SnapshotsReconcile

\* The host's view of the queue is the Match's: it has a receipt for exactly
\* the commands that wait, so a record is opened exactly when the Match
\* substituted, and is open exactly for the retention (TrackSlack, SubmitInput).
RecordsMatch ==
  /\ receipts = DOMAIN Queue
  /\ records = {s \in substituted : body.cursor <= s + Retention}

\* An epoch that begins gets its first command, or is replaced: no reset, loss
\* or interruption leaves the Client and the Match waiting for each other.
EpochStarts ==
  \A e \in 1..MaxEpochs :
    (body.epoch = e /\ ~started) ~> (started \/ body.epoch > e)

=============================================================================
