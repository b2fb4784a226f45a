--------------------------- MODULE ActionDelivery ---------------------------
(***************************************************************************)
(* The delivery of one player's actions (shots and reloads) from the       *)
(* Client's game thread to the authority and of the decisions back, across *)
(* the five actors that touch them:                                        *)
(*                                                                         *)
(*   game thread      SubmitAction, Drain          ClientConnection.cpp    *)
(*   network worker   SendActions, AcceptResults   ClientConnection.cpp    *)
(*   Gateway          the UDP datagrams, runtimeLink's queue to the Match  *)
(*                    and the one results slot     action_delivery.go      *)
(*   Match I/O        ReceiveActions, WriteLane    IpcHost.cpp             *)
(*   Match simulation Step                         MatchRuntimeHost.cpp    *)
(*                                                                         *)
(* Datagrams are lost, duplicated and reordered.  Both ends keep only the  *)
(* newest sequence (Session.CommitSequence in the Gateway, wire::Newer in  *)
(* the Client), so what is read is a subsequence of what was sent: a       *)
(* datagram overtaken by a newer one, and a copy of one already read, are  *)
(* discarded.  `up' and `down' are therefore lossy queues.                 *)
(*                                                                         *)
(* A request is its id: SubmitAction stores its content once and every     *)
(* retransmission copies it.  A decision is its outcome.                   *)
(***************************************************************************)
EXTENDS Naturals, Sequences, FiniteSets

CONSTANTS
  MaxActionWindow,    \* ids one player may have unretired (32 in the code)
  MaxActionBatch,     \* actions or decisions in one message (8)
  ResendFirstSlots,   \* slots of a results frame for the smallest ids (4)
  Outcomes,           \* the decisions PvpMatch::Decide can reach
  Departures,         \* the ways the player may go: "leave", "evict"
  MaxActions,         \* bound: actions submitted in a session
  MaxInFlight         \* bound: datagrams in flight in each direction

ASSUME WindowAssumption == MaxActionWindow \in Nat \ {0}
ASSUME BatchAssumption ==
  /\ MaxActionBatch \in Nat
  /\ ResendFirstSlots \in Nat
  /\ ResendFirstSlots < MaxActionBatch     \* IpcHost.cpp:166
ASSUME OutcomesAssumption == Outcomes \cap {"absent", "waiting", "none"} = {}
ASSUME BoundsAssumption ==
  /\ MaxActions \in Nat
  /\ MaxInFlight \in Nat \ {0}

VARIABLES
  \* The Client's action transport, under ClientConnection::Impl::mutex.
  allocatedThrough,     \* the newest id given to the game
  acknowledgedThrough,  \* the game has consumed every decision up to here
  clientRetired,        \* the Match has forgotten every id up to here
  answers,              \* the decision of each retained action, or "none"
  delivered,            \* retained actions whose decision Drain has returned
  actionSendCursor,     \* the last id SendActions put in a batch
  \* Between the Client and the Match.
  up,                   \* action batches on their way to the Match
  down,                 \* results datagrams on their way to the Client
  slot,                 \* the Gateway's results slot: at most one frame
  \* The Match's host and ledger, under MatchRuntimeHost::mutex_.
  member,               \* "joined", "leaving" (Leave queued) or "gone"
  staged,               \* pendingActions_: requests the next Step hands over
  pendingAck,           \* pendingActionAcknowledgements_, 0 when absent
  ledger,               \* "absent", "waiting" or the decision of each id
  retiredThrough,       \* the ledger has forgotten every id up to here
  fault,                \* the assertion of Step that failed, or "none"
  \* The player's ActionLane, of IpcHost's I/O thread.
  sentRetired,          \* the retirement of the last frame written
  laneCursor,           \* the last id a cycling slot carried
  asked,                \* one more frame is owed to the Client
  \* History.
  verdicts,             \* every decision the Match ever made: <<id, outcome>>
  handed                \* handed[i]: the decisions of i Drain returned, in order

clientVars == <<allocatedThrough, acknowledgedThrough, clientRetired, answers,
                delivered, actionSendCursor>>
hostVars == <<member, staged, pendingAck, ledger, retiredThrough, fault>>
laneVars == <<sentRetired, laneCursor, asked>>
wireVars == <<up, down, slot>>
historyVars == <<verdicts, handed>>
vars == <<clientVars, wireVars, hostVars, laneVars, historyVars>>

Ids == 1..MaxActions
Batch == [shots : SUBSET Ids, ack : 0..MaxActions]
Frame == [retired : 0..MaxActions, decisions : SUBSET (Ids \X Outcomes)]

Larger(a, b) == IF a > b THEN a ELSE b

\* A lossy queue in which at most MaxInFlight messages are under way.
Push(queue, message) ==
  Append(IF Len(queue) = MaxInFlight THEN Tail(queue) ELSE queue, message)

\* The n members of S that a walk upwards from above `cursor', wrapping past
\* the largest, meets first, and the last of them (the cursor itself when there are none).
MetBefore(S, cursor, x) ==
  IF x > cursor THEN {y \in S : cursor < y /\ y < x}
                ELSE {y \in S : cursor < y \/ y < x}
CyclicTake(S, cursor, n) ==
  {x \in S : Cardinality(MetBefore(S, cursor, x)) < n}
CyclicLast(S, cursor, n) ==
  LET taken == CyclicTake(S, cursor, n)
  IN  IF taken = {} THEN {cursor}
      ELSE {x \in taken : \A y \in taken :
              y = x \/ y \in MetBefore(S, cursor, x)}
Smallest(S, n) == CyclicTake(S, 0, n)

\* Every variable of the five actors keeps its type: the ids and cursors stay in
\* 0..MaxActions (no unsigned id of the protocol wraps below zero) and nothing but
\* batches and frames travels (network_protocol.hpp's messages).
TypeOK ==
  /\ allocatedThrough \in 0..MaxActions
  /\ acknowledgedThrough \in 0..MaxActions
  /\ clientRetired \in 0..MaxActions
  /\ answers \in [Ids -> Outcomes \cup {"none"}]
  /\ delivered \in SUBSET Ids
  /\ actionSendCursor \in 0..MaxActions
  /\ up \in Seq(Batch)
  /\ down \in Seq(Frame)
  /\ slot \in Seq(Frame)
  /\ member \in {"joined", "leaving", "gone"}
  /\ staged \in SUBSET Ids
  /\ pendingAck \in 0..MaxActions
  /\ ledger \in [Ids -> Outcomes \cup {"absent", "waiting"}]
  /\ retiredThrough \in 0..MaxActions
  /\ fault \in {"none", "acknowledge", "handoff"}
  /\ sentRetired \in 0..MaxActions
  /\ laneCursor \in 0..MaxActions
  /\ asked \in BOOLEAN
  /\ verdicts \in SUBSET (Ids \X Outcomes)
  /\ handed \in [Ids -> Seq(Outcomes)]

Init ==
  /\ allocatedThrough = 0 /\ acknowledgedThrough = 0 /\ clientRetired = 0
  /\ answers = [i \in Ids |-> "none"]
  /\ delivered = {}
  /\ actionSendCursor = 0
  /\ up = <<>> /\ down = <<>> /\ slot = <<>>
  /\ member = "joined"
  /\ staged = {}
  /\ pendingAck = 0
  /\ ledger = [i \in Ids |-> "absent"]
  /\ retiredThrough = 0
  /\ fault = "none"
  /\ sentRetired = 0 /\ laneCursor = 0 /\ asked = FALSE
  /\ verdicts = {}
  /\ handed = [i \in Ids |-> <<>>]

----------------------------------------------------------------------------
(* The Client: game thread and network worker.                             *)

\* Mutant of Retained: an action is erased when the game has consumed its
\* decision, not when the Match has retired it.
RetainedUntilConsumed == (acknowledgedThrough + 1)..allocatedThrough

\* The keys of Impl::actions: allocated and not yet retired by the Match.
Retained == (clientRetired + 1)..allocatedThrough
Undecided == {i \in Retained : answers[i] = "none"}

\* Mutant of SubmitAction: it trusts the Match to bound the window.
SubmitActionUnbounded ==
  /\ allocatedThrough < MaxActions
  /\ allocatedThrough' = allocatedThrough + 1
  /\ UNCHANGED <<acknowledgedThrough, clientRetired, answers, delivered,
                 actionSendCursor, wireVars, hostVars, laneVars, historyVars>>

\* The game asks for one more action when the window has room.
SubmitAction ==
  /\ allocatedThrough < MaxActions
  /\ Cardinality(Retained) < MaxActionWindow
  /\ allocatedThrough + 1 - clientRetired <= MaxActionWindow
  /\ allocatedThrough' = allocatedThrough + 1
  /\ UNCHANGED <<acknowledgedThrough, clientRetired, answers, delivered,
                 actionSendCursor, wireVars, hostVars, laneVars, historyVars>>

\* Mutant of AcknowledgesUpTo: the newest delivered id is acknowledged, gaps
\* or not.
AcknowledgesNewest(D, n) == n \in D /\ \A i \in D : i <= n

\* The acknowledgement moves to n: the run of delivered ids above the old one
\* ends there.
AcknowledgesUpTo(D, n) ==
  /\ (acknowledgedThrough + 1)..n \subseteq D
  /\ n = allocatedThrough \/ n + 1 \notin D

\* Mutant of Drain: it does not mark what it returns.
DrainUnmarked ==
  /\ LET fresh == {i \in Retained : answers[i] # "none"}
     IN  /\ fresh # {}
         /\ delivered' = fresh
         /\ handed' = [i \in Ids |-> IF i \in fresh
                                        THEN Append(handed[i], answers[i])
                                        ELSE handed[i]]
         /\ acknowledgedThrough' \in acknowledgedThrough..allocatedThrough
         /\ AcknowledgesUpTo(fresh, acknowledgedThrough')
  /\ UNCHANGED <<allocatedThrough, clientRetired, answers, actionSendCursor,
                 wireVars, hostVars, laneVars, verdicts>>

\* The game takes every decision it has not been given; what is contiguous
\* from the acknowledged prefix is acknowledged.
Drain ==
  /\ LET fresh == {i \in Retained : answers[i] # "none" /\ i \notin delivered}
     IN  /\ fresh # {}
         /\ delivered' = delivered \cup fresh
         /\ handed' = [i \in Ids |-> IF i \in fresh
                                        THEN Append(handed[i], answers[i])
                                        ELSE handed[i]]
         /\ acknowledgedThrough' \in acknowledgedThrough..allocatedThrough
         /\ AcknowledgesUpTo(delivered \cup fresh, acknowledgedThrough')
  /\ UNCHANGED <<allocatedThrough, clientRetired, answers, actionSendCursor,
                 wireVars, hostVars, laneVars, verdicts>>

\* Mutant of NextBatch: the acknowledgement is exclusive, and underflows.
NextBatchExclusive ==
  [shots |-> CyclicTake(Undecided, actionSendCursor, MaxActionBatch),
   ack |-> acknowledgedThrough - 1]

\* Up to MaxActionBatch undecided actions, continuing after the last batch,
\* with the acknowledgement.
NextBatch ==
  [shots |-> CyclicTake(Undecided, actionSendCursor, MaxActionBatch),
   ack |-> acknowledgedThrough]

\* The worker's send slot: undecided actions, or an acknowledgement alone while
\* the Match has not retired it.  A batch the Gateway's queue has no room for replaces the
\* oldest (runtimeLink.queueDataLocked).
SendActions ==
  /\ Undecided # {} \/ acknowledgedThrough > clientRetired
  /\ up' = Push(up, NextBatch)
  /\ actionSendCursor' \in CyclicLast(Undecided, actionSendCursor, MaxActionBatch)
  /\ UNCHANGED <<allocatedThrough, acknowledgedThrough, clientRetired, answers,
                 delivered, down, slot, hostVars, laneVars, historyVars>>

\* AcceptResults checks a whole frame before it stores anything.
AcceptsResults(f) ==
  /\ f.retired <= acknowledgedThrough
  /\ Cardinality(f.decisions) <= MaxActionBatch
  /\ \A d \in f.decisions :
       /\ d[1] <= allocatedThrough
       /\ \A e \in f.decisions : d[1] = e[1] => d = e
       /\ d[1] > clientRetired =>
            d[1] \in Retained /\ answers[d[1]] \in {"none", d[2]}

\* The worker reads one results datagram: it stores the decisions of retained
\* actions, then forgets the actions the Match has retired.
AcceptResults ==
  /\ down # <<>>
  /\ down' = Tail(down)
  /\ LET f == Head(down)
         retired == Larger(clientRetired, f.retired)
     IN  IF AcceptsResults(f)
         THEN /\ clientRetired' = retired
              /\ answers' = [i \in Ids |->
                   IF i <= retired THEN "none"
                   ELSE IF i \in Retained /\ \E o \in Outcomes : <<i, o>> \in f.decisions
                        THEN CHOOSE o \in Outcomes : <<i, o>> \in f.decisions
                        ELSE answers[i]]
              /\ delivered' = {i \in delivered : i > retired}
         ELSE UNCHANGED <<clientRetired, answers, delivered>>
  /\ UNCHANGED <<allocatedThrough, acknowledgedThrough, actionSendCursor, up,
                 slot, hostVars, laneVars, historyVars>>

----------------------------------------------------------------------------
(* The network.  The receiver never reads these datagrams: they are lost,  *)
(* or overtaken by a newer sequence.                                       *)

LoseBatch ==
  /\ up # <<>>
  /\ up' = Tail(up)
  /\ UNCHANGED <<clientVars, down, slot, hostVars, laneVars, historyVars>>

LoseResults ==
  /\ down # <<>>
  /\ down' = Tail(down)
  /\ UNCHANGED <<clientVars, up, slot, hostVars, laneVars, historyVars>>

\* The Gateway's one UDP writer takes the player's slot when it is due.
ReleaseSlot ==
  /\ slot # <<>>
  /\ slot' = <<>>
  /\ down' = Push(down, Head(slot))
  /\ UNCHANGED <<clientVars, up, hostVars, laneVars, historyVars>>

----------------------------------------------------------------------------
(* The Match's I/O thread.                                                 *)

\* PvpMatch::CanAcknowledgeActions: every id of the new prefix is decided.
CanAcknowledge(through) ==
  \/ through <= retiredThrough
  \/ /\ through - retiredThrough <= MaxActionWindow
     /\ \A i \in (retiredThrough + 1)..through : ledger[i] \in Outcomes

\* What a batch with this acknowledgement brings the floor to.
Through(ack) == Larger(ack, pendingAck)
Floor(ack) == Larger(retiredThrough, Through(ack))

\* SubmitActionBatch's and CanSubmitActions' conditions: the acknowledgement
\* covers decided actions, and the ledger has a place for every request of the
\* batch and of the staging above the floor.
Admissible(b) ==
  /\ CanAcknowledge(b.ack)
  /\ b.shots # {} =>
       /\ Cardinality(b.shots) <= MaxActionBatch
       /\ Cardinality(staged) <= MaxActionWindow
       /\ CanAcknowledge(Through(b.ack))
       /\ LET merged == {i \in staged \cup b.shots : i > Floor(b.ack)}
              kept == {i \in Ids : i > Floor(b.ack) /\ ledger[i] # "absent"}
          IN  /\ \A i \in merged : i - Floor(b.ack) <= MaxActionWindow
              /\ Cardinality(merged \cup kept) <= MaxActionWindow

\* An accepted batch joins the staging, without what is acknowledged and what
\* has its immutable answer already.
StagedWith(b) ==
  {i \in staged : i > Floor(b.ack)}
    \cup {i \in b.shots : i > Floor(b.ack) /\ ledger[i] \notin Outcomes}

\* IpcHost reads one batch.  A refused batch, and an acknowledgement of what
\* was retired already (the Client has missed it), are answered with a frame.
\* The retirement it compares with is read under a lock of its own, before the
\* submission: a step may have moved it on since (`seen'), never below what the
\* same thread last wrote.
ReceiveActions ==
  /\ up # <<>>
  /\ up' = Tail(up)
  /\ \E seen \in sentRetired..retiredThrough :
       LET b == Head(up)
           missed == b.shots = {} /\ b.ack > 0 /\ b.ack <= seen
       IN  IF member # "joined"
           THEN UNCHANGED <<staged, pendingAck, asked>>
           ELSE IF Admissible(b)
                THEN /\ staged' = StagedWith(b)
                     /\ pendingAck' = IF Through(b.ack) > retiredThrough
                                      THEN Through(b.ack) ELSE pendingAck
                     /\ asked' = (asked \/ missed)
                ELSE /\ asked' = TRUE
                     /\ UNCHANGED <<staged, pendingAck>>
  /\ UNCHANGED <<clientVars, down, slot, member, ledger, retiredThrough, fault,
                 sentRetired, laneCursor, historyVars>>

Decided == {i \in Ids : ledger[i] \in Outcomes}
\* Mutant of LanePending: a retirement already sent still counts.
LanePendingForever == Decided # {} \/ retiredThrough >= sentRetired \/ asked
LanePending == Decided # {} \/ retiredThrough > sentRetired \/ asked

\* The decisions of one frame: the smallest ids first, the other slots cycle
\* through the rest.
First == Smallest(Decided, ResendFirstSlots)
CyclingSlots == MaxActionBatch - ResendFirstSlots
\* Mutant of Chosen: the newest decisions take every slot.
ChosenNewest ==
  {i \in Decided : Cardinality({j \in Decided : j > i}) < MaxActionBatch}
Chosen == First \cup CyclicTake(Decided \ First, laneCursor, CyclingSlots)

\* The lane's frame reaches the Gateway, which keeps the newest.
WriteLane ==
  /\ member = "joined"
  /\ LanePending
  /\ slot' = <<[retired |-> retiredThrough,
                decisions |-> {<<i, ledger[i]>> : i \in Chosen}]>>
  /\ sentRetired' = retiredThrough
  /\ laneCursor' \in CyclicLast(Decided \ First, laneCursor, CyclingSlots)
  /\ asked' = FALSE
  /\ UNCHANGED <<clientVars, up, down, hostVars, historyVars>>

\* The Gateway ends the reservation and queues a Leave behind the player's
\* batches: the Match has read those, and the ones not yet admitted are dropped.
QueueLeave ==
  /\ "leave" \in Departures
  /\ member = "joined"
  /\ member' = "leaving"
  /\ up' = <<>>
  /\ slot' = <<>>
  /\ UNCHANGED <<clientVars, down, staged, pendingAck, ledger, retiredThrough,
                 fault, laneVars, historyVars>>

----------------------------------------------------------------------------
(* The Match's simulation thread.                                          *)

\* Mutant of HandedOver: the acknowledgement moves the floor and erases nothing.
HandedOverUnerased ==
  [i \in Ids |-> IF i \in staged /\ ledger[i] = "absent" THEN "waiting"
                 ELSE ledger[i]]

\* The ledger when the queued acknowledgement has been retired and the staged
\* requests have been handed over: one that is there already keeps its entry.
HandedOver ==
  LET floor == Larger(retiredThrough, pendingAck)
  IN  [i \in Ids |->
        IF i <= floor THEN "absent"
        ELSE IF i \in staged /\ ledger[i] = "absent" THEN "waiting"
        ELSE ledger[i]]

\* The handoff's own CanSubmitActions, after the acknowledgement.
HandoffFits ==
  LET floor == Larger(retiredThrough, pendingAck)
      kept == {i \in Ids : HandedOver[i] # "absent"}
  IN  /\ \A i \in staged : i > floor => i - floor <= MaxActionWindow
      /\ Cardinality(kept) <= MaxActionWindow

\* Mutant of DecideFrom: the scan does not skip the entries that have their
\* decision already.
DecideFromAll(entries) ==
  LET held == {i \in Ids : entries[i] # "absent"}
  IN  UNION {[Smallest(held, n) -> Outcomes] : n \in 0..Cardinality(held)}

\* The player's own actions are decided in ascending order: the ones that are
\* due and not held, up to the first that must wait.
DecideFrom(entries) ==
  LET waiting == {i \in Ids : entries[i] = "waiting"}
  IN  UNION {[Smallest(waiting, n) -> Outcomes] : n \in 0..Cardinality(waiting)}

\* Mutant of Removed: the queued acknowledgement outlives the player.
RemovedButAcknowledging ==
  /\ member' = "gone"
  /\ ledger' = [i \in Ids |-> "absent"]
  /\ staged' = {}
  /\ UNCHANGED pendingAck

\* RemovePlayerState and PvpMatch::Leave.
Removed ==
  /\ member' = "gone"
  /\ ledger' = [i \in Ids |-> "absent"]
  /\ staged' = {}
  /\ pendingAck' = 0

\* The queued Leave is drained before anything else of the step.
StepLeave ==
  /\ member = "leaving"
  /\ Removed
  /\ UNCHANGED <<clientVars, wireVars, retiredThrough, fault, laneVars, historyVars>>

\* The assertion of Step that fails: a queued acknowledgement the Match does
\* not accept (MatchRuntimeHost.cpp:404), or a staged request it has no place
\* for (MatchRuntimeHost.cpp:412).
StepFault ==
  IF pendingAck > 0 /\ ~(member = "joined" /\ CanAcknowledge(pendingAck))
  THEN "acknowledge"
  ELSE IF staged # {} /\ ~(member = "joined" /\ HandoffFits)
  THEN "handoff"
  ELSE "none"

\* One tick with the player in the Match: acknowledgement, handoff, decisions
\* and, when its connection quality has failed, the eviction.
StepTick ==
  /\ member = "joined" \/ pendingAck > 0 \/ staged # {}
  /\ member # "leaving"
  /\ fault = "none"
  /\ fault' = StepFault
  /\ IF StepFault # "none"
     THEN UNCHANGED <<member, staged, pendingAck, ledger, retiredThrough, verdicts>>
     ELSE /\ retiredThrough' = Larger(retiredThrough, pendingAck)
          /\ \E decision \in DecideFrom(HandedOver) :
               /\ verdicts' = verdicts \cup {<<i, decision[i]>> : i \in DOMAIN decision}
               /\ \/ /\ ledger' = [i \in Ids |-> IF i \in DOMAIN decision
                                                 THEN decision[i] ELSE HandedOver[i]]
                     /\ staged' = {}
                     /\ pendingAck' = 0
                     /\ UNCHANGED member
                  \/ /\ "evict" \in Departures
                     /\ Removed
  /\ UNCHANGED <<clientVars, wireVars, laneVars, handed>>

Next ==
  \/ SubmitAction \/ Drain \/ SendActions \/ AcceptResults
  \/ LoseBatch \/ LoseResults \/ ReleaseSlot
  \/ ReceiveActions \/ WriteLane \/ QueueLeave
  \/ StepLeave \/ StepTick

Spec == Init /\ [][Next]_vars

----------------------------------------------------------------------------
(* Fairness.  The game drains every frame, the worker sends and IpcHost     *)
(* writes on their 30 Hz timers, the simulation ticks, and every action the *)
(* Match holds is decided within MaxShotStepLead ticks of its handoff and   *)
(* the holds of the actions before it (PvpMatch::ActionDue, Decide).  The   *)
(* network loses fairly: if messages with news for the receiver keep        *)
(* coming, one with news arrives.  That is less than that each content sent *)
(* for ever arrives: news stays news until it is received.                  *)

\* What a batch may bring: a larger acknowledgement, a request the Match does
\* not hold, or word that the Client missed a retirement.
NewsForMatch(b) ==
  \/ b.ack > Floor(0)
  \/ \E i \in b.shots : i > retiredThrough /\ ledger[i] = "absent" /\ i \notin staged
  \/ b.shots = {} /\ b.ack \in 1..retiredThrough

\* What a frame may bring: a larger retirement, or a decision.
NewsForClient(f) ==
  \/ f.retired > clientRetired
  \/ \E d \in f.decisions : d[1] > clientRetired /\ answers[d[1]] = "none"

Fairness ==
  /\ WF_vars(Drain) /\ WF_vars(SendActions) /\ WF_vars(WriteLane)
  /\ WF_vars(StepTick) /\ WF_vars(StepTick /\ verdicts' # verdicts)
  /\ SF_vars(ReceiveActions /\ NewsForMatch(Head(up)))
  /\ SF_vars(ReleaseSlot /\ NewsForClient(Head(slot)))
  /\ SF_vars(AcceptResults /\ NewsForClient(Head(down)))

FairSpec == Spec /\ Fairness

----------------------------------------------------------------------------
(* Properties.                                                             *)

\* Neither assertion of MatchRuntimeHost::Step can fail: an acknowledgement
\* and a request validated when they arrived are still valid when the step
\* uses them, whatever arrived and whoever left in between.
NoHostFault == fault = "none"

\* The Match never decides an action twice, however often it is retransmitted,
\* also after its decision was retired and forgotten (PvpMatch::Decide).
DecidedOnce ==
  \A d, e \in verdicts : d[1] = e[1] => d = e

\* The Match forgets a decision only when the game has been given it: the
\* ledger holds the only reliable copy (PvpMatch::AcknowledgeActions, Drain).
RetiredOnlyWhenGiven ==
  \A i \in 1..retiredThrough : handed[i] # <<>>

\* The Client never discards a frame of its own session: no loss, overtaking,
\* retirement or repeated answer makes AcceptResults fail.
ResultsNeverRejected ==
  \A k \in 1..Len(down) : AcceptsResults(down[k])

\* The Match never refuses a batch of a Client it holds: the Client's window,
\* counted from the retirement it has seen, always fits the ledger's
\* (IngressStatistics.hpp:48: neither bound can be exceeded).
BatchesAdmissible ==
  member = "joined" => \A k \in 1..Len(up) : Admissible(up[k])

\* Why they hold: what the five actors know of each other.  The four prefixes
\* are nested and span at most one window; a message is never ahead of its
\* sender; the Match's ledger, the Client's answers and what the game was given
\* are views of the same verdicts.
Ordered ==
  /\ clientRetired <= retiredThrough
  /\ retiredThrough <= acknowledgedThrough
  /\ acknowledgedThrough <= allocatedThrough
  /\ allocatedThrough <= clientRetired + MaxActionWindow
  /\ pendingAck <= acknowledgedThrough

BatchSound(b) ==
  /\ b.ack <= acknowledgedThrough
  /\ b.shots \subseteq 1..allocatedThrough
  /\ Cardinality(b.shots) <= MaxActionBatch
FrameSound(f) ==
  /\ f.retired <= retiredThrough
  /\ f.decisions \subseteq verdicts
  /\ Cardinality(f.decisions) <= MaxActionBatch
MessagesSound ==
  /\ \A k \in 1..Len(up) : BatchSound(up[k])
  /\ \A k \in 1..Len(down) : FrameSound(down[k])
  /\ \A k \in 1..Len(slot) : FrameSound(slot[k])

LedgerSound ==
  /\ \A d \in verdicts : d[1] <= allocatedThrough
  /\ \A i \in Ids : ledger[i] \in Outcomes => <<i, ledger[i]>> \in verdicts
  /\ \A i \in Ids : ledger[i] # "absent" =>
       retiredThrough < i /\ i <= allocatedThrough
  /\ \A i \in staged : retiredThrough < i /\ i <= allocatedThrough
  /\ IF member = "gone"
     THEN staged = {} /\ pendingAck = 0
     ELSE \A d \in verdicts : d[1] > retiredThrough => ledger[d[1]] = d[2]

ClientSound ==
  /\ \A i \in Ids : answers[i] # "none" =>
       <<i, answers[i]>> \in verdicts /\ i \in Retained
  /\ \A i \in Ids : handed[i] # <<>> =>
       \E o \in Outcomes : handed[i] = <<o>> /\ <<i, o>> \in verdicts
  /\ \A i \in Ids : handed[i] # <<>> <=> i \in delivered \/ i <= clientRetired
  /\ \A i \in delivered : answers[i] # "none"
  /\ \A i \in 1..acknowledgedThrough : handed[i] # <<>>

\* The five actors' views of the actions agree in all these respects at once:
\* the inductive invariant of the protocol.
Coherent == Ordered /\ MessagesSound /\ DecidedOnce /\ LedgerSound /\ ClientSound

\* ActionService's variables, as functions of this module's.
Service == INSTANCE ActionService WITH
  submitted <- allocatedThrough, answered <- verdicts,
  given <- handed, forgotten <- retiredThrough

\* The protocol implements its promise: whatever is lost, repeated or refused, the
\* game sees each action answered at most once by an immutable answer, and the
\* Match forgets only what the game was given (ActionService).
ServiceSpec == Service!Spec

\* Every action is answered, given to the game and retired on both sides, so
\* a full window opens again and no decision starves behind others in the slots
\* of a frame (IpcHost.cpp:166).  The Client's retirement never goes back, so
\* this says, in a form that is cheap to check, that for every n,
\* allocatedThrough >= n ~> clientRetired >= n.
EveryActionCompletes ==
  \/ []<>(clientRetired = allocatedThrough)
  \/ []<><<clientRetired' > clientRetired>>_vars

\* The retransmission stops: in the end neither side has anything to send, so
\* a due lane with nothing to choose cannot wake writes forever
\* (IpcHost.cpp:207).
Quiesces ==
  <>[](~LanePending /\ Undecided = {} /\ acknowledgedThrough = clientRetired)

=============================================================================
