------------------------ MODULE ActionDeliveryProofs ------------------------
(***************************************************************************)
(* The safety properties of ActionDelivery, for every window, batch size,  *)
(* set of outcomes, number of actions and number of datagrams in flight.   *)
(* The inductive invariant is TypeOK /\ Coherent: each property follows    *)
(* from it in the current state.                                           *)
(***************************************************************************)
EXTENDS ActionDelivery, TLAPS, FiniteSetTheorems

----------------------------------------------------------------------------
(* Helpers of the model.                                                   *)

\* A walk that takes the first n members of a finite set takes members of the
\* set, and at most n of them (SendActions, ActionMessage: MaxActionBatch).
LEMMA CyclicTakeBound ==
  ASSUME NEW S \in SUBSET Nat, IsFiniteSet(S), NEW c \in Nat, NEW n \in Nat
  PROVE  /\ CyclicTake(S, c, n) \subseteq S
         /\ IsFiniteSet(CyclicTake(S, c, n))
         /\ Cardinality(CyclicTake(S, c, n)) <= n
<1> DEFINE taken == CyclicTake(S, c, n)
           left(x) == S \ MetBefore(S, c, x)
           family == {left(x) : x \in taken}
<1>1. taken \subseteq S
  BY DEF CyclicTake
<1>2. IsFiniteSet(taken)
  BY <1>1, FS_Subset
<1>3. CASE taken = {}
  BY <1>1, <1>2, <1>3, FS_EmptySet
<1>4. CASE taken # {}
  <2>1. family \subseteq FiniteSubsetsOf(S)
    BY FS_FiniteSubsetsOfFinite
  <2>2. PICK F \in family : \A G \in family : <<G, F>> \notin StrictSubsetOrdering(S)
    <3>1. family # {}
      BY <1>4
    <3> QED
      BY <2>1, <3>1, FS_StrictSubsetOrderingWellFounded, WFMin
  <2>3. PICK x \in taken : F = left(x)
    OBVIOUS
  \* Nothing else was left when x was met: x is the last one taken.
  <2>4. \A y \in taken : y = x \/ y \in MetBefore(S, c, x)
    <3> SUFFICES ASSUME NEW y \in taken, y # x, y \notin MetBefore(S, c, x)
                 PROVE  FALSE
      OBVIOUS
    <3>1. x \in Nat /\ y \in Nat /\ x \in S /\ y \in S
      BY <1>1
    <3>2. ASSUME NEW z \in MetBefore(S, c, x) PROVE z \in MetBefore(S, c, y)
      <4>1. z \in S /\ z \in Nat
        BY DEF MetBefore
      <4> QED
        BY <3>1, <4>1 DEF MetBefore
    <3>3. x \in MetBefore(S, c, y) /\ x \notin MetBefore(S, c, x)
      BY <3>1 DEF MetBefore
    <3>4. left(y) \subseteq left(x) /\ left(y) # left(x)
      BY <3>1, <3>2, <3>3
    <3>5. left(y) \in SUBSET S /\ left(x) \in SUBSET S /\ left(y) \in family
      OBVIOUS
    <3> QED
      BY <2>2, <2>3, <3>4, <3>5 DEF StrictSubsetOrdering
  <2>5. MetBefore(S, c, x) \subseteq S
    BY DEF MetBefore
  <2>6. IsFiniteSet(MetBefore(S, c, x))
    BY <2>5, FS_Subset
  <2>7. Cardinality(MetBefore(S, c, x)) \in Nat /\ Cardinality(MetBefore(S, c, x)) < n
    BY <2>3, <2>6, FS_CardinalityType DEF CyclicTake
  <2>8. /\ IsFiniteSet(MetBefore(S, c, x) \cup {x})
        /\ Cardinality(MetBefore(S, c, x) \cup {x}) <= Cardinality(MetBefore(S, c, x)) + 1
    <3>1. IsFiniteSet(MetBefore(S, c, x) \cup {x}) /\
          Cardinality(MetBefore(S, c, x) \cup {x}) =
            IF x \in MetBefore(S, c, x) THEN Cardinality(MetBefore(S, c, x))
                                       ELSE Cardinality(MetBefore(S, c, x)) + 1
      BY <2>6, FS_AddElement, Zenon
    <3> QED
      BY <2>7, <3>1
  <2>9. taken \subseteq MetBefore(S, c, x) \cup {x}
    BY <2>4
  <2>10. Cardinality(taken) <= Cardinality(MetBefore(S, c, x) \cup {x})
    BY <2>8, <2>9, FS_Subset
  <2>11. Cardinality(taken) \in Nat /\ Cardinality(MetBefore(S, c, x) \cup {x}) \in Nat
    BY <1>2, <2>8, FS_CardinalityType
  <2> QED
    BY <1>1, <1>2, <2>7, <2>8, <2>10, <2>11
<1> QED
  BY <1>3, <1>4

\* The cursor moves to a member of the set or stays.
LEMMA CyclicLastIn ==
  ASSUME NEW S, NEW c, NEW n
  PROVE  CyclicLast(S, c, n) \subseteq S \cup {c}
BY DEF CyclicLast, CyclicTake

LEMMA AppendElements ==
  ASSUME NEW T, NEW q \in Seq(T), NEW m \in T
  PROVE  /\ Append(q, m) \in Seq(T) /\ Len(Append(q, m)) = Len(q) + 1
         /\ \A k \in 1..Len(Append(q, m)) :
              Append(q, m)[k] = m \/ (k \in 1..Len(q) /\ Append(q, m)[k] = q[k])
OBVIOUS

\* A message enters a lossy queue at its end, and nothing else does.
LEMMA PushElements ==
  ASSUME NEW T, NEW q \in Seq(T), NEW m \in T
  PROVE  /\ Push(q, m) \in Seq(T)
         /\ \A k \in 1..Len(Push(q, m)) :
              Push(q, m)[k] = m \/ \E j \in 1..Len(q) : Push(q, m)[k] = q[j]
<1>1. CASE Len(q) = MaxInFlight
  <2> DEFINE rest == Tail(q)
  <2>1. q # <<>>
    BY <1>1, BoundsAssumption
  <2>2. Push(q, m) = Append(rest, m)
    BY <1>1 DEF Push
  <2>3. rest \in Seq(T) /\ Len(rest) = Len(q) - 1 /\ Len(q) \in Nat
    BY <2>1
  <2>4. \A k \in 1..Len(rest) : rest[k] = q[k + 1] /\ k + 1 \in 1..Len(q)
    BY <2>1, <2>3
  <2> HIDE DEF rest
  <2> QED
    BY <2>2, <2>3, <2>4, AppendElements
<1>2. CASE Len(q) # MaxInFlight
  BY <1>2, AppendElements DEF Push
<1> QED
  BY <1>1, <1>2

\* What is read or lost is the oldest message.
LEMMA TailElements ==
  ASSUME NEW T, NEW q \in Seq(T), q # <<>>
  PROVE  /\ Head(q) \in T /\ Head(q) = q[1] /\ 1 \in 1..Len(q)
         /\ Tail(q) \in Seq(T)
         /\ \A k \in 1..Len(Tail(q)) : \E j \in 1..Len(q) : Tail(q)[k] = q[j]
<1>1. Len(Tail(q)) = Len(q) - 1 /\ Len(q) \in Nat \ {0}
  OBVIOUS
<1>2. \A k \in 1..Len(Tail(q)) : Tail(q)[k] = q[k + 1]
  OBVIOUS
<1> QED
  BY <1>1, <1>2

LEMMA LargerNat ==
  ASSUME NEW a \in Nat, NEW b \in Nat
  PROVE  /\ Larger(a, b) \in {a, b}
         /\ Larger(a, b) >= a /\ Larger(a, b) >= b
BY DEF Larger

\* The ids above a floor that lie within one window of it are no more than a
\* window of ids.
LEMMA WindowCardinality ==
  ASSUME NEW floor \in Nat, NEW top \in Nat, top <= floor + MaxActionWindow,
         NEW S, S \subseteq (floor + 1)..top
  PROVE  IsFiniteSet(S) /\ Cardinality(S) <= MaxActionWindow
<1>1. IsFiniteSet((floor + 1)..top) /\ Cardinality((floor + 1)..top) <= MaxActionWindow
  <2>1. floor + 1 \in Int /\ top \in Int
    OBVIOUS
  <2>2. /\ IsFiniteSet((floor + 1)..top)
        /\ Cardinality((floor + 1)..top) = IF floor + 1 > top THEN 0 ELSE top - (floor + 1) + 1
    BY <2>1, FS_Interval, Zenon
  <2> QED
    BY <2>2, WindowAssumption
<1>2. IsFiniteSet(S) /\ Cardinality(S) <= Cardinality((floor + 1)..top)
  BY <1>1, FS_Subset
<1>3. Cardinality(S) \in Nat /\ Cardinality((floor + 1)..top) \in Nat
  BY <1>1, <1>2, FS_CardinalityType
<1> QED
  BY <1>1, <1>2, <1>3, WindowAssumption

----------------------------------------------------------------------------
(* Type correctness.                                                       *)

\* Every variable keeps its type.
THEOREM TypeCorrect == Spec => []TypeOK
<1>1. Init => TypeOK
  <2> SUFFICES ASSUME Init PROVE TypeOK
    OBVIOUS
  <2>1. <<>> \in Seq(Batch) /\ <<>> \in Seq(Frame) /\ <<>> \in Seq(Outcomes)
    OBVIOUS
  <2> QED
    <3>1. asked \in BOOLEAN
      BY DEF Init
    <3>2. verdicts \in SUBSET (Ids \X Outcomes)
      BY DEF Init
    <3>3. handed \in [Ids -> Seq(Outcomes)]
      BY DEF Init
    <3>4. ledger \in [Ids -> Outcomes \cup {"absent", "waiting"}]
      BY DEF Init
    <3>5. up \in Seq(Batch) /\ down \in Seq(Frame) /\ slot \in Seq(Frame)
      BY <2>1 DEF Init
    <3> QED
      BY <3>1, <3>2, <3>3, <3>4, <3>5, BoundsAssumption DEF Init, TypeOK
<1>2. TypeOK /\ [Next]_vars => TypeOK'
  <2> SUFFICES ASSUME TypeOK, [Next]_vars PROVE TypeOK'
    OBVIOUS
  <2> USE BoundsAssumption
  <2>1. CASE SubmitAction
    BY <2>1 DEF TypeOK, SubmitAction, wireVars, hostVars, laneVars, historyVars
  <2>2. CASE Drain
    <3>1. PICK fresh \in SUBSET Ids :
            /\ \A i \in fresh : answers[i] # "none"
            /\ delivered' = delivered \cup fresh
            /\ handed' = [i \in Ids |-> IF i \in fresh
                                        THEN Append(handed[i], answers[i])
                                        ELSE handed[i]]
      <4> WITNESS {i \in Ids : i \in Retained /\ answers[i] # "none" /\ i \notin delivered}
                    \in SUBSET Ids
      <4>1. {i \in Retained : answers[i] # "none" /\ i \notin delivered} =
            {i \in Ids : i \in Retained /\ answers[i] # "none" /\ i \notin delivered}
        BY DEF Retained, TypeOK, Ids
      <4> QED
        BY <2>2, <4>1 DEF Drain
    <3>2. handed' \in [Ids -> Seq(Outcomes)]
      <4>1. ASSUME NEW i \in fresh
            PROVE  Append(handed[i], answers[i]) \in Seq(Outcomes)
        BY <3>1 DEF TypeOK
      <4> QED
        BY <3>1, <4>1 DEF TypeOK
    <3>3. acknowledgedThrough' \in 0..MaxActions
      BY <2>2 DEF Drain, TypeOK
    <3> QED
      BY <2>2, <3>1, <3>2, <3>3
      DEF TypeOK, Drain, wireVars, hostVars, laneVars
  <2>3. CASE SendActions
    <3>1. NextBatch \in Batch
      BY DEF NextBatch, Batch, TypeOK, CyclicTake, Undecided, Retained, Ids
    <3>2. up' \in Seq(Batch)
      BY <2>3, <3>1, PushElements DEF SendActions, TypeOK
    <3>3. actionSendCursor' \in 0..MaxActions
      <4>1. actionSendCursor' \in Undecided \cup {actionSendCursor}
        BY <2>3, CyclicLastIn DEF SendActions
      <4> QED
        BY <4>1 DEF TypeOK, Undecided, Retained
    <3> QED
      BY <2>3, <3>2, <3>3 DEF TypeOK, SendActions, hostVars, laneVars, historyVars
  <2>4. CASE AcceptResults
    <3>1. down' \in Seq(Frame) /\ Head(down) \in Frame
      BY <2>4, TailElements DEF AcceptResults, TypeOK
    <3>2. Larger(clientRetired, Head(down).retired) \in 0..MaxActions
      BY <3>1 DEF TypeOK, Frame, Larger
    <3>3. \A i \in Ids : (\E o \in Outcomes : <<i, o>> \in Head(down).decisions) =>
            (CHOOSE o \in Outcomes : <<i, o>> \in Head(down).decisions) \in Outcomes
      OBVIOUS
    <3>4. answers' \in [Ids -> Outcomes \cup {"none"}]
      <4>1. CASE ~AcceptsResults(Head(down))
        BY <2>4, <4>1 DEF AcceptResults, TypeOK
      <4>2. CASE AcceptsResults(Head(down))
        <5> DEFINE told(i) == \E o \in Outcomes : <<i, o>> \in Head(down).decisions
                   said(i) == CHOOSE o \in Outcomes : <<i, o>> \in Head(down).decisions
                   retired == Larger(clientRetired, Head(down).retired)
        <5>1. answers' = [i \in Ids |-> IF i <= retired THEN "none"
                                       ELSE IF i \in Retained /\ told(i) THEN said(i)
                                       ELSE answers[i]]
          BY <2>4, <4>2 DEF AcceptResults
        <5>2. \A i \in Ids : told(i) => said(i) \in Outcomes
          BY <3>3
        <5> HIDE DEF told, said, retired
        <5> QED
          BY <5>1, <5>2 DEF TypeOK
      <4> QED
        BY <4>1, <4>2
    <3>5. clientRetired' \in 0..MaxActions /\ delivered' \in SUBSET Ids
      BY <2>4, <3>2 DEF AcceptResults, TypeOK
    <3> QED
      BY <2>4, <3>1, <3>4, <3>5 DEF TypeOK, AcceptResults, hostVars, laneVars, historyVars
  <2>5. CASE LoseBatch
    BY <2>5, TailElements DEF TypeOK, LoseBatch, clientVars, hostVars, laneVars, historyVars
  <2>6. CASE LoseResults
    BY <2>6, TailElements DEF TypeOK, LoseResults, clientVars, hostVars, laneVars, historyVars
  <2>7. CASE ReleaseSlot
    <3>1. Head(slot) \in Frame
      BY <2>7, TailElements DEF ReleaseSlot, TypeOK
    <3>2. down' \in Seq(Frame)
      BY <2>7, <3>1, PushElements DEF ReleaseSlot, TypeOK
    <3> QED
      BY <2>7, <3>2 DEF TypeOK, ReleaseSlot, clientVars, hostVars, laneVars, historyVars
  <2>8. CASE ReceiveActions
    <3>1. up' \in Seq(Batch) /\ Head(up) \in Batch
      BY <2>8, TailElements DEF ReceiveActions, TypeOK
    <3>2. Through(Head(up).ack) \in 0..MaxActions
      BY <3>1 DEF TypeOK, Batch, Through, Larger
    <3>3. StagedWith(Head(up)) \in SUBSET Ids
      BY <3>1 DEF StagedWith, TypeOK, Batch
    <3>4. staged' \in SUBSET Ids /\ pendingAck' \in 0..MaxActions /\ asked' \in BOOLEAN
      BY <2>8, <3>2, <3>3 DEF ReceiveActions, TypeOK
    <3> QED
      BY <2>8, <3>1, <3>4 DEF TypeOK, ReceiveActions, clientVars, historyVars
  <2>9. CASE WriteLane
    <3>1. Chosen \subseteq Decided /\ Decided \subseteq Ids
      BY DEF Chosen, First, Smallest, CyclicTake, Decided
    <3>2. {<<i, ledger[i]>> : i \in Chosen} \subseteq Ids \X Outcomes
      BY <3>1 DEF Decided
    <3>3. slot' \in Seq(Frame)
      BY <2>9, <3>2 DEF WriteLane, TypeOK, Frame
    <3>4. laneCursor' \in 0..MaxActions
      <4>1. laneCursor' \in (Decided \ First) \cup {laneCursor}
        BY <2>9, CyclicLastIn DEF WriteLane
      <4>2. laneCursor \in 0..MaxActions
        BY DEF TypeOK
      <4> HIDE DEF TypeOK
      <4> QED
        BY <3>1, <4>1, <4>2, BoundsAssumption DEF Ids
    <3> QED
      BY <2>9, <3>3, <3>4 DEF TypeOK, WriteLane, clientVars, hostVars, historyVars
  <2>10. CASE QueueLeave
    BY <2>10 DEF TypeOK, QueueLeave, clientVars, laneVars, historyVars
  <2>11. CASE StepLeave
    BY <2>11 DEF TypeOK, StepLeave, Removed, clientVars, wireVars, laneVars, historyVars
  <2>12. CASE StepTick
    <3>1. fault' \in {"none", "acknowledge", "handoff"}
      BY <2>12 DEF StepTick, StepFault
    <3>2. CASE StepFault # "none"
      BY <2>12, <3>1, <3>2 DEF TypeOK, StepTick, clientVars, wireVars, laneVars
    <3>3. CASE StepFault = "none"
      <4>1. HandedOver \in [Ids -> Outcomes \cup {"absent", "waiting"}]
        BY DEF HandedOver, TypeOK
      <4>2. retiredThrough' \in 0..MaxActions
        BY <2>12, <3>3 DEF StepTick, TypeOK, Larger
      <4>3. PICK decision \in DecideFrom(HandedOver) :
              /\ verdicts' = verdicts \cup {<<i, decision[i]>> : i \in DOMAIN decision}
              /\ \/ /\ ledger' = [i \in Ids |-> IF i \in DOMAIN decision
                                                THEN decision[i] ELSE HandedOver[i]]
                    /\ staged' = {} /\ pendingAck' = 0 /\ UNCHANGED member
                 \/ Removed
        BY <2>12, <3>3 DEF StepTick
      <4>4. DOMAIN decision \subseteq Ids /\ \A i \in DOMAIN decision : decision[i] \in Outcomes
        BY DEF DecideFrom, Smallest, CyclicTake
      <4>5. verdicts' \in SUBSET (Ids \X Outcomes)
        BY <4>3, <4>4 DEF TypeOK
      <4>6. /\ member' \in {"joined", "leaving", "gone"}
            /\ ledger' \in [Ids -> Outcomes \cup {"absent", "waiting"}]
            /\ staged' \in SUBSET Ids /\ pendingAck' \in 0..MaxActions
        <5>1. [i \in Ids |-> IF i \in DOMAIN decision THEN decision[i] ELSE HandedOver[i]]
                \in [Ids -> Outcomes \cup {"absent", "waiting"}]
          BY <4>1, <4>4
        <5>2. [i \in Ids |-> "absent"] \in [Ids -> Outcomes \cup {"absent", "waiting"}]
          OBVIOUS
        <5>3. CASE /\ ledger' = [i \in Ids |-> IF i \in DOMAIN decision
                                               THEN decision[i] ELSE HandedOver[i]]
                   /\ staged' = {} /\ pendingAck' = 0 /\ UNCHANGED member
          BY <5>1, <5>3 DEF TypeOK
        <5>4. CASE Removed
          BY <5>2, <5>4 DEF Removed
        <5> QED
          BY <4>3, <5>3, <5>4
      <4> QED
        BY <2>12, <3>1, <4>2, <4>5, <4>6 DEF TypeOK, StepTick, clientVars, wireVars, laneVars
    <3> QED
      BY <3>2, <3>3
  <2>13. CASE UNCHANGED vars
    BY <2>13 DEF TypeOK, vars, clientVars, wireVars, hostVars, laneVars, historyVars
  <2> QED
    BY <2>1, <2>2, <2>3, <2>4, <2>5, <2>6, <2>7, <2>8, <2>9, <2>10, <2>11,
       <2>12, <2>13 DEF Next
<1> QED
  BY <1>1, <1>2, PTL DEF Spec

----------------------------------------------------------------------------
(* The inductive invariant.                                                *)

LEMMA CoherentInit == Init => Coherent
<1> SUFFICES ASSUME Init PROVE Coherent
  OBVIOUS
<1>1. Ordered
  BY WindowAssumption DEF Init, Ordered
<1>2. MessagesSound
  BY DEF Init, MessagesSound
<1>3. DecidedOnce
  BY DEF Init, DecidedOnce
<1>4. LedgerSound
  BY OutcomesAssumption DEF Init, LedgerSound
<1>5. ClientSound
  BY DEF Init, ClientSound, Ids
<1> QED
  BY <1>1, <1>2, <1>3, <1>4, <1>5 DEF Coherent

LEMMA Prefixes ==
  ASSUME TypeOK
  PROVE  /\ MaxActions \in Nat
         /\ allocatedThrough \in Nat /\ allocatedThrough <= MaxActions
         /\ acknowledgedThrough \in Nat /\ acknowledgedThrough <= MaxActions
         /\ clientRetired \in Nat /\ clientRetired <= MaxActions
         /\ retiredThrough \in Nat /\ retiredThrough <= MaxActions
         /\ pendingAck \in Nat /\ pendingAck <= MaxActions
         /\ Retained \subseteq Ids
BY BoundsAssumption DEF TypeOK, Retained, Ids

LEMMA MessageTypes ==
  ASSUME TypeOK
  PROVE  /\ \A k \in 1..Len(up) : up[k] \in Batch /\ up[k].ack \in Nat
         /\ \A k \in 1..Len(down) : down[k] \in Frame /\ down[k].retired \in Nat
         /\ \A k \in 1..Len(slot) : slot[k] \in Frame /\ slot[k].retired \in Nat
<1>1. up \in Seq(Batch) /\ down \in Seq(Frame) /\ slot \in Seq(Frame)
  BY DEF TypeOK
<1>2. /\ \A k \in 1..Len(up) : up[k] \in Batch
      /\ \A k \in 1..Len(down) : down[k] \in Frame
      /\ \A k \in 1..Len(slot) : slot[k] \in Frame
  BY <1>1
<1>3. /\ \A b \in Batch : b.ack \in Nat
      /\ \A f \in Frame : f.retired \in Nat
  BY BoundsAssumption DEF Batch, Frame
<1> QED
  BY <1>2, <1>3

\* A message stays sound while the prefixes and the verdicts only grow, so a
\* step has to answer for the messages it sends.
LEMMA MessagesStep ==
  ASSUME TypeOK, TypeOK', MessagesSound,
         acknowledgedThrough <= acknowledgedThrough',
         allocatedThrough <= allocatedThrough',
         retiredThrough <= retiredThrough',
         verdicts \subseteq verdicts',
         \A k \in 1..Len(up') :
           \/ \E j \in 1..Len(up) : up'[k] = up[j]
           \/ /\ up'[k].ack <= acknowledgedThrough'
              /\ up'[k].shots \subseteq 1..allocatedThrough'
              /\ Cardinality(up'[k].shots) <= MaxActionBatch,
         \A k \in 1..Len(down') :
           \/ \E j \in 1..Len(down) : down'[k] = down[j]
           \/ \E j \in 1..Len(slot) : down'[k] = slot[j],
         \A k \in 1..Len(slot') :
           \/ \E j \in 1..Len(slot) : slot'[k] = slot[j]
           \/ /\ slot'[k].retired <= retiredThrough'
              /\ slot'[k].decisions \subseteq verdicts'
              /\ Cardinality(slot'[k].decisions) <= MaxActionBatch
  PROVE  MessagesSound'
<1> USE BoundsAssumption
<1>1. /\ acknowledgedThrough \in Nat /\ acknowledgedThrough' \in Nat
      /\ allocatedThrough \in Nat /\ allocatedThrough' \in Nat
      /\ retiredThrough \in Nat /\ retiredThrough' \in Nat
  BY DEF TypeOK
<1>2. \A k \in 1..Len(up) : up[k].ack \in Nat
  BY MessageTypes
<1>3. /\ \A k \in 1..Len(down) : down[k].retired \in Nat
      /\ \A k \in 1..Len(slot) : slot[k].retired \in Nat
  BY MessageTypes
<1>4. ASSUME NEW k \in 1..Len(up')
      PROVE  /\ up'[k].ack <= acknowledgedThrough'
             /\ up'[k].shots \subseteq 1..allocatedThrough'
             /\ Cardinality(up'[k].shots) <= MaxActionBatch
  <2>1. CASE \E j \in 1..Len(up) : up'[k] = up[j]
    <3>1. PICK j \in 1..Len(up) : up'[k] = up[j]
      BY <2>1
    <3>2. BatchSound(up[j]) /\ up[j].ack \in Nat
      BY <1>2 DEF MessagesSound
    <3>3. 1..allocatedThrough \subseteq 1..allocatedThrough'
      BY <1>1
    <3> QED
      BY <1>1, <3>1, <3>2, <3>3 DEF BatchSound
  <2> QED
    BY <2>1
<1>5. \A j \in 1..Len(down) : down[j].retired <= retiredThrough' /\ FrameSound(down[j])
  BY <1>1, <1>3 DEF MessagesSound, FrameSound
<1>6. \A j \in 1..Len(slot) : slot[j].retired <= retiredThrough' /\ FrameSound(slot[j])
  BY <1>1, <1>3 DEF MessagesSound, FrameSound
<1>7. ASSUME NEW k \in 1..Len(down')
      PROVE  /\ down'[k].retired <= retiredThrough'
             /\ down'[k].decisions \subseteq verdicts'
             /\ Cardinality(down'[k].decisions) <= MaxActionBatch
  <2>1. CASE \E j \in 1..Len(down) : down'[k] = down[j]
    BY <2>1, <1>5 DEF FrameSound
  <2>2. CASE \E j \in 1..Len(slot) : down'[k] = slot[j]
    BY <2>2, <1>6 DEF FrameSound
  <2> QED
    BY <2>1, <2>2
<1>8. ASSUME NEW k \in 1..Len(slot')
      PROVE  /\ slot'[k].retired <= retiredThrough'
             /\ slot'[k].decisions \subseteq verdicts'
             /\ Cardinality(slot'[k].decisions) <= MaxActionBatch
  <2>1. CASE \E j \in 1..Len(slot) : slot'[k] = slot[j]
    BY <2>1, <1>6 DEF FrameSound
  <2> QED
    BY <2>1
<1> QED
  BY <1>4, <1>7, <1>8 DEF MessagesSound, BatchSound, FrameSound

\* The game's actions: a new id extends the last prefix inside the window.
LEMMA SubmitActionKeeps ==
  ASSUME TypeOK, TypeOK', Coherent, SubmitAction PROVE Coherent'
<1> USE BoundsAssumption DEF SubmitAction, wireVars, hostVars, laneVars, historyVars
<1>1. Ordered'
  BY WindowAssumption DEF TypeOK, Coherent, Ordered
<1>2. MessagesSound'
  BY MessagesStep DEF TypeOK, Coherent
<1>3. DecidedOnce'
  BY DEF Coherent, DecidedOnce
<1>4. LedgerSound'
  BY DEF TypeOK, Coherent, LedgerSound, Ids
<1>5. ClientSound'
  <2>1. Retained \subseteq Retained'
    BY DEF TypeOK, Retained
  <2>2. UNCHANGED <<acknowledgedThrough, clientRetired, answers, delivered, handed, verdicts>>
    OBVIOUS
  <2> QED
    BY <2>1, <2>2, Zenon DEF Coherent, ClientSound
<1> QED
  BY <1>1, <1>2, <1>3, <1>4, <1>5 DEF Coherent

\* Drain gives only what has not been given, and acknowledges a prefix of it.
LEMMA DrainKeeps ==
  ASSUME TypeOK, TypeOK', Coherent, Drain PROVE Coherent'
<1> USE BoundsAssumption
<1> DEFINE fresh == {i \in Retained : answers[i] # "none" /\ i \notin delivered}
<1>1. /\ delivered' = delivered \cup fresh
      /\ handed' = [i \in Ids |-> IF i \in fresh THEN Append(handed[i], answers[i])
                                  ELSE handed[i]]
      /\ acknowledgedThrough' \in acknowledgedThrough..allocatedThrough
      /\ (acknowledgedThrough + 1)..acknowledgedThrough' \subseteq delivered \cup fresh
      /\ UNCHANGED <<allocatedThrough, clientRetired, answers, actionSendCursor,
                     up, down, slot, hostVars, verdicts>>
  BY DEF Drain, AcknowledgesUpTo, wireVars
<1>2. fresh \subseteq Ids
  BY Prefixes
<1>3. Ordered'
  BY <1>1 DEF TypeOK, Coherent, Ordered, hostVars
<1>4. MessagesSound'
  BY <1>1, MessagesStep DEF TypeOK, Coherent, hostVars
<1>5. DecidedOnce'
  BY <1>1 DEF Coherent, DecidedOnce
<1>6. LedgerSound'
  BY <1>1 DEF Coherent, LedgerSound, hostVars
<1>7. ClientSound'
  <2>1. \A i \in Ids : answers'[i] # "none" =>
          <<i, answers'[i]>> \in verdicts' /\ i \in Retained'
    BY <1>1 DEF Coherent, ClientSound, Retained
  <2>2. ASSUME NEW i \in fresh
        PROVE  /\ answers[i] \in Outcomes
               /\ handed'[i] = <<answers[i]>>
               /\ <<i, answers[i]>> \in verdicts
    <3>1. i \in Ids /\ answers[i] # "none" /\ i \notin delivered /\ ~(i <= clientRetired)
      BY <1>2, Prefixes DEF Retained
    <3>2. answers[i] \in Outcomes /\ <<i, answers[i]>> \in verdicts
      BY <3>1 DEF TypeOK, Coherent, ClientSound
    <3>3. handed[i] = <<>>
      BY <3>1 DEF Coherent, ClientSound
    <3>4. handed'[i] = Append(handed[i], answers[i])
      BY <1>1, <3>1
    <3> QED
      BY <3>2, <3>3, <3>4
  <2>3. \A i \in Ids \ fresh : handed'[i] = handed[i]
    BY <1>1
  <2>4. \A i \in Ids : handed'[i] # <<>> =>
          \E o \in Outcomes : handed'[i] = <<o>> /\ <<i, o>> \in verdicts'
    BY <1>1, <2>2, <2>3 DEF Coherent, ClientSound
  <2>5. \A i \in Ids : handed'[i] # <<>> <=> i \in delivered' \/ i <= clientRetired'
    BY <1>1, <2>2, <2>3 DEF Coherent, ClientSound
  <2>6. \A i \in delivered' : answers'[i] # "none"
    BY <1>1 DEF Coherent, ClientSound
  <2>7. \A i \in 1..acknowledgedThrough' : handed'[i] # <<>>
    <3> SUFFICES ASSUME NEW i \in 1..acknowledgedThrough' PROVE handed'[i] # <<>>
      OBVIOUS
    <3>1. i \in Ids
      BY <1>1 DEF TypeOK, Ids
    <3>2. CASE i <= acknowledgedThrough
      <4>1. i \in 1..acknowledgedThrough
        BY <3>2 DEF TypeOK
      <4>2. handed[i] # <<>>
        BY <4>1 DEF Coherent, ClientSound
      <4>3. i \in delivered \/ i <= clientRetired
        BY <3>1, <4>2 DEF Coherent, ClientSound
      <4> QED
        BY <1>1, <2>5, <3>1, <4>3
    <3>3. CASE i > acknowledgedThrough
      <4>1. i \in delivered'
        BY <1>1, <3>3 DEF TypeOK
      <4> QED
        BY <3>1, <4>1, <2>5
    <3> QED
      BY <3>2, <3>3, <1>1 DEF TypeOK
  <2> QED
    BY <2>1, <2>4, <2>5, <2>6, <2>7 DEF ClientSound
<1> QED
  BY <1>3, <1>4, <1>5, <1>6, <1>7 DEF Coherent

LEMMA BatchPushed ==
  ASSUME up \in Seq(Batch), NextBatch \in Batch
  PROVE  \A k \in 1..Len(Push(up, NextBatch)) :
           Push(up, NextBatch)[k] = NextBatch \/
           \E j \in 1..Len(up) : Push(up, NextBatch)[k] = up[j]
BY PushElements

LEMMA FramePushed ==
  ASSUME down \in Seq(Frame), NEW f \in Frame
  PROVE  \A k \in 1..Len(Push(down, f)) :
           Push(down, f)[k] = f \/
           \E j \in 1..Len(down) : Push(down, f)[k] = down[j]
BY PushElements

\* Every batch the worker sends names retained actions, a batch of them at
\* most, and the acknowledgement of that moment.
LEMMA SendActionsKeeps ==
  ASSUME TypeOK, TypeOK', Coherent, SendActions PROVE Coherent'
<1>1. UNCHANGED <<allocatedThrough, acknowledgedThrough, clientRetired, answers,
                  delivered, down, slot, hostVars, historyVars>>
  BY DEF SendActions
<1>2. IsFiniteSet(Undecided) /\ Undecided \in SUBSET Nat
  <2>1. IsFiniteSet(Retained)
    BY Prefixes, FS_Interval DEF Retained
  <2>2. Undecided \subseteq Retained
    BY DEF Undecided
  <2> QED
    BY <2>1, <2>2, FS_Subset, Prefixes DEF Ids
<1>3. /\ NextBatch.ack = acknowledgedThrough
      /\ NextBatch.shots \subseteq 1..allocatedThrough
      /\ Cardinality(NextBatch.shots) <= MaxActionBatch
  <2>1. actionSendCursor \in Nat
    BY BoundsAssumption DEF TypeOK
  <2>2. /\ NextBatch.shots \subseteq Undecided
        /\ Cardinality(NextBatch.shots) <= MaxActionBatch
    BY <1>2, <2>1, CyclicTakeBound, BatchAssumption DEF NextBatch
  <2> QED
    BY <2>2, Prefixes DEF NextBatch, Undecided, Retained
<1>4. NextBatch \in Batch
  <2>1. NextBatch.shots \in SUBSET Ids /\ NextBatch.ack \in 0..MaxActions
    BY <1>3, Prefixes DEF Ids
  <2> QED
    BY <2>1 DEF NextBatch, Batch
<1>5. \A k \in 1..Len(up') : up'[k] = NextBatch \/ \E j \in 1..Len(up) : up'[k] = up[j]
  <2>1. up \in Seq(Batch) /\ up' = Push(up, NextBatch)
    BY DEF SendActions, TypeOK
  <2>2. \A k \in 1..Len(Push(up, NextBatch)) :
          \/ Push(up, NextBatch)[k] = NextBatch
          \/ \E j \in 1..Len(up) : Push(up, NextBatch)[k] = up[j]
    BY <1>4, <2>1, BatchPushed, Zenon
  <2> QED
    BY <2>1, <2>2
<1>6. \A k \in 1..Len(up') :
        \/ \E j \in 1..Len(up) : up'[k] = up[j]
        \/ /\ up'[k].ack <= acknowledgedThrough'
           /\ up'[k].shots \subseteq 1..allocatedThrough'
           /\ Cardinality(up'[k].shots) <= MaxActionBatch
  <2> SUFFICES ASSUME NEW k \in 1..Len(up'), up'[k] = NextBatch
               PROVE  /\ up'[k].ack <= acknowledgedThrough'
                      /\ up'[k].shots \subseteq 1..allocatedThrough'
                      /\ Cardinality(up'[k].shots) <= MaxActionBatch
    BY <1>5
  <2> QED
    BY <1>1, <1>3, Prefixes
<1>7. MessagesSound'
  BY <1>1, <1>6, MessagesStep, Prefixes DEF Coherent, hostVars, historyVars
<1> QED
  BY <1>1, <1>7
  DEF Coherent, Ordered, DecidedOnce, LedgerSound, ClientSound, Retained, hostVars, historyVars

\* A message that is lost leaves the others as they are.
LEMMA LossKeeps ==
  ASSUME TypeOK, TypeOK', Coherent, LoseBatch \/ LoseResults PROVE Coherent'
<1>1. UNCHANGED <<allocatedThrough, acknowledgedThrough, clientRetired, answers,
                  delivered, slot, hostVars, historyVars>>
  BY DEF LoseBatch, LoseResults, clientVars
<1>2. /\ \A k \in 1..Len(up') : \E j \in 1..Len(up) : up'[k] = up[j]
      /\ \A k \in 1..Len(down') : \E j \in 1..Len(down) : down'[k] = down[j]
  <2>1. up \in Seq(Batch) /\ down \in Seq(Frame)
    BY DEF TypeOK
  <2>2. CASE LoseBatch
    BY <2>1, <2>2, TailElements DEF LoseBatch
  <2>3. CASE LoseResults
    BY <2>1, <2>3, TailElements DEF LoseResults
  <2> QED
    BY <2>2, <2>3
<1>3. MessagesSound'
  BY <1>1, <1>2, MessagesStep, Prefixes DEF Coherent, hostVars, historyVars
<1> QED
  BY <1>1, <1>3
  DEF Coherent, Ordered, DecidedOnce, LedgerSound, ClientSound, Retained, hostVars, historyVars

\* The slot's frame goes on its way.
LEMMA ReleaseSlotKeeps ==
  ASSUME TypeOK, TypeOK', Coherent, ReleaseSlot PROVE Coherent'
<1>1. UNCHANGED <<allocatedThrough, acknowledgedThrough, clientRetired, answers,
                  delivered, up, hostVars, historyVars>>
  BY DEF ReleaseSlot, clientVars
<1>2. Head(slot) \in Frame /\ Head(slot) = slot[1] /\ 1 \in 1..Len(slot)
  BY TailElements DEF ReleaseSlot, TypeOK
<1>3. \A k \in 1..Len(down') :
        down'[k] = slot[1] \/ \E j \in 1..Len(down) : down'[k] = down[j]
  <2>1. down \in Seq(Frame) /\ down' = Push(down, slot[1])
    BY <1>2 DEF ReleaseSlot, TypeOK
  <2>2. slot[1] \in Frame
    BY <1>2
  <2>3. \A k \in 1..Len(Push(down, slot[1])) :
          \/ Push(down, slot[1])[k] = slot[1]
          \/ \E j \in 1..Len(down) : Push(down, slot[1])[k] = down[j]
    BY <2>1, <2>2, FramePushed, Zenon
  <2> QED
    BY <2>1, <2>3
<1>4. \A k \in 1..Len(slot') : FALSE
  BY DEF ReleaseSlot
<1>5. MessagesSound'
  BY <1>1, <1>2, <1>3, <1>4, MessagesStep, Prefixes DEF Coherent, hostVars, historyVars
<1> QED
  BY <1>1, <1>5
  DEF Coherent, Ordered, DecidedOnce, LedgerSound, ClientSound, Retained, hostVars, historyVars

\* A frame tells the Client decisions the Match has made, and retires what the
\* game has consumed.
LEMMA AcceptResultsKeeps ==
  ASSUME TypeOK, TypeOK', Coherent, AcceptResults PROVE Coherent'
<1> DEFINE f == Head(down)
           retired == Larger(clientRetired, f.retired)
           told(i) == \E o \in Outcomes : <<i, o>> \in f.decisions
           said(i) == CHOOSE o \in Outcomes : <<i, o>> \in f.decisions
<1>1. UNCHANGED <<allocatedThrough, acknowledgedThrough, up, slot, hostVars, historyVars>>
  BY DEF AcceptResults
<1>2. /\ f = down[1] /\ 1 \in 1..Len(down)
      /\ \A k \in 1..Len(down') : \E j \in 1..Len(down) : down'[k] = down[j]
  <2>1. down # <<>> /\ down' = Tail(down)
    BY DEF AcceptResults
  <2>2. down \in Seq(Frame)
    BY DEF TypeOK
  <2> QED
    BY <2>1, <2>2, TailElements
<1>3. MessagesSound'
  BY <1>1, <1>2, MessagesStep, Prefixes DEF Coherent, hostVars, historyVars
<1>4. f.retired <= retiredThrough /\ f.decisions \subseteq verdicts /\ f.retired \in Nat
  BY <1>2, MessageTypes DEF Coherent, MessagesSound, FrameSound
<1>5. CASE ~AcceptsResults(f)
  <2>1. UNCHANGED <<clientRetired, answers, delivered>>
    BY <1>5 DEF AcceptResults
  <2> QED
    BY <1>1, <1>3, <2>1
    DEF Coherent, Ordered, DecidedOnce, LedgerSound, ClientSound, Retained, hostVars, historyVars
<1>6. CASE AcceptsResults(f)
  <2>1. /\ clientRetired' = retired
        /\ answers' = [i \in Ids |-> IF i <= retired THEN "none"
                                     ELSE IF i \in Retained /\ told(i) THEN said(i)
                                     ELSE answers[i]]
        /\ delivered' = {i \in delivered : i > retired}
    BY <1>6 DEF AcceptResults
  <2>2. retired \in Nat /\ clientRetired <= retired /\ retired <= retiredThrough
    BY <1>4, Prefixes DEF Larger, Coherent, Ordered
  <2>3. Ordered'
    BY <1>1, <2>1, <2>2, Prefixes, WindowAssumption DEF Coherent, Ordered, hostVars
  <2>4. DecidedOnce' /\ LedgerSound'
    BY <1>1 DEF Coherent, DecidedOnce, LedgerSound, hostVars, historyVars
  <2>5. \A i \in Ids : told(i) => said(i) \in Outcomes /\ <<i, said(i)>> \in verdicts
    BY <1>4
  <2> HIDE DEF told, said, f, retired
  <2>6. ClientSound'
    <3>1. ASSUME NEW i \in Ids, answers'[i] # "none"
          PROVE  <<i, answers'[i]>> \in verdicts' /\ i \in Retained'
      <4>1. ~(i <= retired) /\ (\/ i \in Retained /\ told(i) /\ answers'[i] = said(i)
                                \/ answers'[i] = answers[i])
        BY <2>1, <3>1
      <4>2. i \in Retained /\ <<i, answers'[i]>> \in verdicts
        BY <2>5, <3>1, <4>1 DEF Coherent, ClientSound
      <4> QED
        BY <1>1, <2>1, <2>2, <4>1, <4>2, Prefixes DEF Retained, historyVars
    <3>2. \A i \in Ids : handed'[i] # <<>> =>
            \E o \in Outcomes : handed'[i] = <<o>> /\ <<i, o>> \in verdicts'
      BY <1>1 DEF Coherent, ClientSound, historyVars
    <3>3. \A i \in 1..acknowledgedThrough' : handed'[i] # <<>>
      BY <1>1 DEF Coherent, ClientSound, historyVars
    <3>4. ASSUME NEW i \in Ids
          PROVE  handed'[i] # <<>> <=> i \in delivered' \/ i <= clientRetired'
      <4>1. handed'[i] = handed[i] /\ i \in Nat /\ i >= 1
        BY <1>1 DEF historyVars, Ids
      <4>2. i <= retired => handed[i] # <<>>
        BY <2>2, <4>1, Prefixes DEF Coherent, ClientSound, Ordered
      <4>3. handed[i] # <<>> <=> i \in delivered \/ i <= clientRetired
        BY DEF Coherent, ClientSound
      <4> QED
        BY <2>1, <2>2, <4>1, <4>2, <4>3, Prefixes
    <3>5. ASSUME NEW i \in delivered' PROVE answers'[i] # "none"
      <4>1. i \in delivered /\ i \in Ids /\ i > retired /\ answers[i] # "none"
        BY <2>1 DEF TypeOK, Coherent, ClientSound
      <4>2. answers'[i] \in {said(i), answers[i]} /\ (answers'[i] # answers[i] => told(i))
        BY <2>1, <2>2, <4>1 DEF Ids
      <4> QED
        BY <2>5, <4>1, <4>2, OutcomesAssumption
    <3> QED
      BY <3>1, <3>2, <3>3, <3>4, <3>5 DEF ClientSound
  <2> QED
    BY <1>3, <2>3, <2>4, <2>6 DEF Coherent
<1> QED
  BY <1>5, <1>6

----------------------------------------------------------------------------
(* The Match.                                                              *)

\* An admitted batch stages undecided ids above the floor, and queues no more
\* than the Client has acknowledged.
LEMMA ReceiveActionsKeeps ==
  ASSUME TypeOK, TypeOK', Coherent, ReceiveActions PROVE Coherent'
<1> DEFINE b == Head(up)
<1>1. UNCHANGED <<allocatedThrough, acknowledgedThrough, clientRetired, answers, delivered,
                  down, slot, member, ledger, retiredThrough, historyVars>>
  BY DEF ReceiveActions, clientVars
<1>2. /\ b = up[1] /\ 1 \in 1..Len(up)
      /\ \A k \in 1..Len(up') : \E j \in 1..Len(up) : up'[k] = up[j]
  <2>1. up # <<>> /\ up' = Tail(up)
    BY DEF ReceiveActions
  <2>2. up \in Seq(Batch)
    BY DEF TypeOK
  <2> QED
    BY <2>1, <2>2, TailElements
<1>3. MessagesSound'
  BY <1>1, <1>2, MessagesStep, Prefixes DEF Coherent, historyVars
<1>4. b.ack \in Nat /\ b.ack <= acknowledgedThrough /\ b.shots \subseteq 1..allocatedThrough
  BY <1>2, MessageTypes DEF Coherent, MessagesSound, BatchSound
<1>5. \/ UNCHANGED <<staged, pendingAck>>
      \/ /\ member = "joined"
         /\ staged' = StagedWith(b)
         /\ pendingAck' \in {Through(b.ack), pendingAck}
  BY DEF ReceiveActions
<1> HIDE DEF b
<1>6. Through(b.ack) \in Nat /\ Through(b.ack) <= acknowledgedThrough
  BY <1>4, Prefixes DEF Through, Larger, Coherent, Ordered
<1>7. Ordered'
  BY <1>1, <1>5, <1>6 DEF Coherent, Ordered
<1>8. LedgerSound'
  <2>1. \A i \in staged' : retiredThrough < i /\ i <= allocatedThrough
    <3>1. retiredThrough <= Floor(b.ack) /\ Floor(b.ack) \in Nat
      BY <1>6, Prefixes DEF Floor, Larger
    <3>2. StagedWith(b) \subseteq {i \in staged \cup b.shots : i > Floor(b.ack)}
      BY DEF StagedWith
    <3>3. staged \subseteq Nat
      BY DEF TypeOK, Ids
    <3>4. \A i \in staged : retiredThrough < i /\ i <= allocatedThrough
      BY DEF Coherent, LedgerSound
    <3>5. \A i \in StagedWith(b) : retiredThrough < i /\ i <= allocatedThrough
      <4> SUFFICES ASSUME NEW i \in StagedWith(b)
                   PROVE  retiredThrough < i /\ i <= allocatedThrough
        OBVIOUS
      <4>1. i \in staged \cup b.shots /\ i > Floor(b.ack)
        BY <3>2
      <4>2. i \in staged \/ i \in 1..allocatedThrough
        BY <1>4, <4>1
      <4>3. i \in Nat
        <5>1. i \in staged => i \in Nat
          BY <3>3
        <5> QED
          BY <4>2, <5>1
      <4> QED
        BY <3>1, <3>4, <4>1, <4>2, <4>3, Prefixes
    <3> QED
      BY <1>5, <3>4, <3>5
  <2>2. member = "gone" => staged' = {} /\ pendingAck' = 0
    BY <1>5 DEF Coherent, LedgerSound
  <2> QED
    BY <1>1, <2>1, <2>2 DEF Coherent, LedgerSound, historyVars
<1> QED
  BY <1>1, <1>3, <1>7, <1>8
  DEF Coherent, DecidedOnce, ClientSound, Retained, historyVars

\* A frame holds decisions of the ledger, a batch of them at most.
LEMMA WriteLaneKeeps ==
  ASSUME TypeOK, TypeOK', Coherent, WriteLane PROVE Coherent'
<1>1. UNCHANGED <<allocatedThrough, acknowledgedThrough, clientRetired, answers,
                  delivered, up, down, hostVars, historyVars>>
  BY DEF WriteLane, clientVars
<1>2. IsFiniteSet(Decided) /\ Decided \in SUBSET Nat
  <2>1. Decided \subseteq 1..MaxActions
    BY DEF Decided, Ids
  <2>2. IsFiniteSet(1..MaxActions)
    BY FS_Interval, BoundsAssumption
  <2>3. IsFiniteSet(Decided)
    BY <2>1, <2>2, FS_Subset, Zenon
  <2> QED
    BY <2>1, <2>3, BoundsAssumption
<1>3. Chosen \subseteq Decided /\ IsFiniteSet(Chosen) /\ Cardinality(Chosen) <= MaxActionBatch
  <2> DEFINE cycling == CyclicTake(Decided \ First, laneCursor, CyclingSlots)
  <2>1. ResendFirstSlots \in Nat /\ CyclingSlots \in Nat /\
        ResendFirstSlots + CyclingSlots = MaxActionBatch
    BY BatchAssumption DEF CyclingSlots
  <2>2. /\ First \subseteq Decided /\ IsFiniteSet(First)
        /\ Cardinality(First) <= ResendFirstSlots
    BY <1>2, <2>1, CyclicTakeBound DEF First, Smallest
  <2>3. laneCursor \in Nat
    BY BoundsAssumption DEF TypeOK
  <2>4. IsFiniteSet(Decided \ First) /\ Decided \ First \in SUBSET Nat
    BY <1>2, FS_Subset
  <2>5. /\ cycling \subseteq Decided /\ IsFiniteSet(cycling)
        /\ Cardinality(cycling) <= CyclingSlots
    BY <2>1, <2>3, <2>4, CyclicTakeBound
  <2> HIDE DEF cycling
  <2>6. /\ IsFiniteSet(First \cup cycling)
        /\ Cardinality(First \cup cycling) =
             Cardinality(First) + Cardinality(cycling) - Cardinality(First \cap cycling)
    BY <2>2, <2>5, FS_Union
  <2>7. Cardinality(First \cap cycling) \in Nat /\ Cardinality(First) \in Nat
        /\ Cardinality(cycling) \in Nat
    <3>1. IsFiniteSet(First \cap cycling)
      BY <2>2, FS_Intersection
    <3> QED
      BY <2>2, <2>5, <3>1, FS_CardinalityType
  <2>8. Chosen = First \cup cycling
    BY DEF Chosen, cycling
  <2> QED
    BY <2>1, <2>2, <2>5, <2>6, <2>7, <2>8
<1> DEFINE told == {<<i, ledger[i]>> : i \in Chosen}
<1>4. told \subseteq verdicts
  BY <1>3 DEF Decided, Coherent, LedgerSound
<1>5. Cardinality(told) <= MaxActionBatch
  <2> DEFINE tell == [i \in Chosen |-> <<i, ledger[i]>>]
  <2>1. tell \in Surjection(Chosen, told)
    BY DEF Surjection
  <2>2. IsFiniteSet(told) /\ Cardinality(told) <= Cardinality(Chosen)
    BY <1>3, <2>1, FS_Surjection
  <2>3. Cardinality(told) \in Nat /\ Cardinality(Chosen) \in Nat
    BY <1>3, <2>2, FS_CardinalityType
  <2> QED
    BY <1>3, <2>2, <2>3, BatchAssumption
<1>6. slot' = <<[retired |-> retiredThrough, decisions |-> told]>>
  BY DEF WriteLane
<1> HIDE DEF told
<1>7. \A k \in 1..Len(slot') :
        /\ slot'[k].retired <= retiredThrough'
        /\ slot'[k].decisions \subseteq verdicts'
        /\ Cardinality(slot'[k].decisions) <= MaxActionBatch
  <2>1. \A k \in 1..Len(slot') : slot'[k] = [retired |-> retiredThrough, decisions |-> told]
    BY <1>6
  <2> QED
    BY <1>1, <1>4, <1>5, <2>1, Prefixes DEF hostVars, historyVars
<1>8. MessagesSound'
  BY <1>1, <1>7, MessagesStep, Prefixes DEF Coherent, hostVars, historyVars
<1> QED
  BY <1>1, <1>8
  DEF Coherent, Ordered, DecidedOnce, LedgerSound, ClientSound, Retained, hostVars, historyVars

\* A departure takes the player's messages, then its staging and its ledger.
LEMMA DepartureKeeps ==
  ASSUME TypeOK, TypeOK', Coherent, QueueLeave \/ StepLeave PROVE Coherent'
<1>1. UNCHANGED <<allocatedThrough, acknowledgedThrough, clientRetired, answers,
                  delivered, down, retiredThrough, historyVars>>
  BY DEF QueueLeave, StepLeave, clientVars, wireVars
<1>2. /\ \A k \in 1..Len(up') : \E j \in 1..Len(up) : up'[k] = up[j]
      /\ \A k \in 1..Len(slot') : \E j \in 1..Len(slot) : slot'[k] = slot[j]
  <2>1. up' \in {up, <<>>} /\ slot' \in {slot, <<>>}
    BY DEF QueueLeave, StepLeave, wireVars
  <2> QED
    BY <2>1
<1>3. MessagesSound'
  BY <1>1, <1>2, MessagesStep, Prefixes DEF Coherent, historyVars
<1>4. pendingAck' \in {pendingAck, 0}
  BY DEF QueueLeave, StepLeave, Removed
<1>5. Ordered'
  BY <1>1, <1>4, Prefixes DEF Coherent, Ordered
<1>6. LedgerSound'
  <2>1. CASE QueueLeave
    BY <1>1, <2>1 DEF QueueLeave, Coherent, LedgerSound, historyVars
  <2>2. CASE StepLeave
    BY <1>1, <2>2, OutcomesAssumption DEF StepLeave, Removed, Coherent, LedgerSound, historyVars
  <2> QED
    BY <2>1, <2>2
<1> QED
  BY <1>1, <1>3, <1>5, <1>6
  DEF Coherent, DecidedOnce, ClientSound, Retained, historyVars

\* An acknowledgement of what the game was given is one the ledger accepts.
LEMMA AcknowledgementHolds ==
  ASSUME TypeOK, Coherent, member # "gone", NEW n \in Nat, n <= acknowledgedThrough
  PROVE  CanAcknowledge(n)
<1>1. n - retiredThrough <= MaxActionWindow
  BY Prefixes, WindowAssumption DEF Coherent, Ordered
<1>2. ASSUME NEW i \in (retiredThrough + 1)..n PROVE ledger[i] \in Outcomes
  <2>1. i \in 1..acknowledgedThrough /\ i \in Ids /\ i > retiredThrough
    BY Prefixes DEF Ids
  <2>2. PICK o \in Outcomes : <<i, o>> \in verdicts
    BY <2>1 DEF Coherent, ClientSound
  <2>3. ledger[i] = o
    BY <2>1, <2>2 DEF Coherent, LedgerSound
  <2> QED
    BY <2>3
<1> QED
  BY <1>1, <1>2, Prefixes DEF CanAcknowledge

\* Step's two assertions hold: what was staged is still valid when it is used.
LEMMA NoStepFault ==
  ASSUME TypeOK, Coherent, member # "leaving"
  PROVE  StepFault = "none"
<1>1. CASE member = "gone"
  <2>1. staged = {} /\ pendingAck = 0
    BY <1>1 DEF Coherent, LedgerSound
  <2> QED
    BY <2>1 DEF StepFault
<1>2. CASE member = "joined"
  <2> DEFINE floor == Larger(retiredThrough, pendingAck)
             kept == {i \in Ids : HandedOver[i] # "absent"}
  <2>1. CanAcknowledge(pendingAck)
    BY <1>2, AcknowledgementHolds, Prefixes DEF Coherent, Ordered
  <2>2. /\ floor \in Nat /\ retiredThrough <= floor
        /\ allocatedThrough <= floor + MaxActionWindow
    BY Prefixes, WindowAssumption DEF Larger, Coherent, Ordered
  <2>3. \A i \in staged : i \in Nat /\ i <= allocatedThrough
    BY DEF TypeOK, Ids, Coherent, LedgerSound
  <2>4. kept \subseteq (floor + 1)..allocatedThrough
    <3> SUFFICES ASSUME NEW i \in Ids, HandedOver[i] # "absent"
                 PROVE  i \in (floor + 1)..allocatedThrough
      OBVIOUS
    <3>1. ~(i <= floor) /\ (i \in staged \/ ledger[i] # "absent")
      BY DEF HandedOver
    <3>2. i <= allocatedThrough
      BY <2>3, <3>1 DEF Coherent, LedgerSound
    <3> QED
      BY <2>2, <3>1, <3>2, Prefixes DEF Ids
  <2>5. Cardinality(kept) <= MaxActionWindow
    BY <2>2, <2>4, WindowCardinality, Prefixes
  <2>6. \A i \in staged : i > floor => i - floor <= MaxActionWindow
    BY <2>2, <2>3, WindowAssumption, Prefixes
  <2>7. HandoffFits
    BY <2>5, <2>6 DEF HandoffFits
  <2> QED
    BY <1>2, <2>1, <2>7 DEF StepFault
<1> QED
  BY <1>1, <1>2 DEF TypeOK

\* A tick retires what is acknowledged, hands over what is staged and decides
\* only actions that have no verdict.
LEMMA StepTickKeeps ==
  ASSUME TypeOK, TypeOK', Coherent, StepTick PROVE Coherent'
<1> DEFINE floor == Larger(retiredThrough, pendingAck)
<1>1. StepFault = "none"
  BY NoStepFault DEF StepTick
<1>2. member = "joined"
  BY DEF StepTick, TypeOK, Coherent, LedgerSound
<1>3. UNCHANGED <<allocatedThrough, acknowledgedThrough, clientRetired, answers,
                  delivered, up, down, slot, handed>>
  BY DEF StepTick, clientVars, wireVars
<1>4. /\ retiredThrough' = floor /\ floor \in Nat
      /\ retiredThrough <= floor /\ floor <= acknowledgedThrough
  BY <1>1, Prefixes DEF StepTick, Larger, Coherent, Ordered
<1>5. PICK decision \in DecideFrom(HandedOver) :
        /\ verdicts' = verdicts \cup {<<i, decision[i]>> : i \in DOMAIN decision}
        /\ \/ /\ ledger' = [i \in Ids |-> IF i \in DOMAIN decision
                                          THEN decision[i] ELSE HandedOver[i]]
              /\ staged' = {} /\ pendingAck' = 0 /\ UNCHANGED member
           \/ Removed
  BY <1>1 DEF StepTick
<1>6. /\ DOMAIN decision \subseteq {i \in Ids : HandedOver[i] = "waiting"}
      /\ \A i \in DOMAIN decision : decision[i] \in Outcomes
  BY DEF DecideFrom, Smallest, CyclicTake
<1> HIDE DEF floor
\* What is in the ledger after the handoff.
<1>7. ASSUME NEW i \in Ids
      PROVE  /\ HandedOver[i] # "absent" => floor < i /\ i <= allocatedThrough
             /\ HandedOver[i] \in Outcomes => HandedOver[i] = ledger[i]
             /\ i > floor /\ ledger[i] \in Outcomes => HandedOver[i] = ledger[i]
  <2>1. HandedOver[i] = IF i <= floor THEN "absent"
                        ELSE IF i \in staged /\ ledger[i] = "absent" THEN "waiting"
                        ELSE ledger[i]
    BY DEF HandedOver, floor
  <2>2. i \in staged \/ ledger[i] # "absent" => i <= allocatedThrough
    BY DEF Coherent, LedgerSound
  <2> QED
    BY <1>4, <2>1, <2>2, OutcomesAssumption DEF Ids
\* Nothing that waits has a verdict.
<1>8. ASSUME NEW i \in DOMAIN decision
      PROVE  /\ \A d \in verdicts : d[1] # i
             /\ floor < i /\ i <= allocatedThrough /\ i \in Ids
  <2>1. i \in Ids /\ HandedOver[i] = "waiting" /\ floor < i /\ i <= allocatedThrough
    BY <1>6, <1>7
  <2>2. ASSUME NEW d \in verdicts, d[1] = i PROVE FALSE
    <3>1. d[2] \in Outcomes
      BY DEF TypeOK
    <3>2. ledger[i] = d[2]
      BY <1>2, <1>4, <2>1, <2>2, Prefixes DEF Coherent, LedgerSound, Ids
    <3> QED
      BY <1>7, <2>1, <3>1, <3>2, OutcomesAssumption
  <2> QED
    BY <2>1, <2>2
<1>9. Ordered'
  <2>1. pendingAck' = 0
    BY <1>5 DEF Removed
  <2> QED
    BY <1>3, <1>4, <2>1, Prefixes DEF Coherent, Ordered
<1>10. MessagesSound'
  BY <1>3, <1>4, <1>5, MessagesStep, Prefixes DEF Coherent
<1>11. DecidedOnce'
  <2> SUFFICES ASSUME NEW d \in verdicts', NEW e \in verdicts', d[1] = e[1]
               PROVE  d = e
    BY DEF DecidedOnce
  <2>1. CASE d \in verdicts /\ e \in verdicts
    BY <2>1 DEF Coherent, DecidedOnce
  <2>2. CASE d \notin verdicts \/ e \notin verdicts
    BY <1>5, <1>8, <2>2
  <2> QED
    BY <2>1, <2>2
<1>12. LedgerSound'
  <2>1. \A d \in verdicts' : d[1] <= allocatedThrough'
    BY <1>3, <1>5, <1>8 DEF Coherent, LedgerSound
  <2>2. staged' = {} /\ pendingAck' = 0
    BY <1>5 DEF Removed
  <2>3. CASE Removed
    BY <2>1, <2>2, <2>3, OutcomesAssumption DEF Removed, LedgerSound
  <2>4. CASE /\ ledger' = [i \in Ids |-> IF i \in DOMAIN decision
                                         THEN decision[i] ELSE HandedOver[i]]
             /\ UNCHANGED member
    <3>1. ASSUME NEW i \in Ids, ledger'[i] \in Outcomes
          PROVE  <<i, ledger'[i]>> \in verdicts'
      BY <1>5, <1>7, <2>4, <3>1 DEF Coherent, LedgerSound
    <3>2. ASSUME NEW i \in Ids, ledger'[i] # "absent"
          PROVE  retiredThrough' < i /\ i <= allocatedThrough'
      BY <1>3, <1>4, <1>7, <1>8, <2>4, <3>2
    <3>3. ASSUME NEW d \in verdicts', d[1] > retiredThrough'
          PROVE  ledger'[d[1]] = d[2]
      <4>1. CASE d \in verdicts
        <5>1. d[1] \in Ids /\ d[2] \in Outcomes
          BY <4>1 DEF TypeOK
        <5>2. ledger[d[1]] = d[2]
          BY <1>2, <1>4, <3>3, <4>1, <5>1, Prefixes DEF Coherent, LedgerSound, Ids
        <5>3. d[1] \notin DOMAIN decision
          BY <1>8, <4>1
        <5> QED
          BY <1>4, <1>7, <2>4, <3>3, <5>1, <5>2, <5>3
      <4>2. CASE d \notin verdicts
        BY <1>5, <1>8, <2>4, <4>2
      <4> QED
        BY <4>1, <4>2
    <3> QED
      BY <1>2, <2>1, <2>2, <2>4, <3>1, <3>2, <3>3 DEF LedgerSound
  <2> QED
    BY <1>5, <2>3, <2>4
<1>13. ClientSound'
  BY <1>3, <1>5 DEF Coherent, ClientSound, Retained
<1> QED
  BY <1>9, <1>10, <1>11, <1>12, <1>13 DEF Coherent

----------------------------------------------------------------------------
(* The theorems.                                                           *)

LEMMA CoherentNext == TypeOK /\ TypeOK' /\ Coherent /\ [Next]_vars => Coherent'
<1> SUFFICES ASSUME TypeOK, TypeOK', Coherent, [Next]_vars PROVE Coherent'
  OBVIOUS
<1>1. CASE SubmitAction
  BY <1>1, SubmitActionKeeps
<1>2. CASE Drain
  BY <1>2, DrainKeeps
<1>3. CASE SendActions
  BY <1>3, SendActionsKeeps
<1>4. CASE AcceptResults
  BY <1>4, AcceptResultsKeeps
<1>5. CASE LoseBatch \/ LoseResults
  BY <1>5, LossKeeps
<1>6. CASE ReleaseSlot
  BY <1>6, ReleaseSlotKeeps
<1>7. CASE ReceiveActions
  BY <1>7, ReceiveActionsKeeps
<1>8. CASE WriteLane
  BY <1>8, WriteLaneKeeps
<1>9. CASE QueueLeave \/ StepLeave
  BY <1>9, DepartureKeeps
<1>10. CASE StepTick
  BY <1>10, StepTickKeeps
<1>11. CASE UNCHANGED vars
  <2>1. UNCHANGED <<clientVars, wireVars, hostVars, historyVars>>
    BY <1>11 DEF vars
  <2>2. MessagesSound'
    BY <2>1 DEF Coherent, MessagesSound, BatchSound, FrameSound, clientVars, wireVars,
                hostVars, historyVars
  <2> QED
    BY <2>1, <2>2
    DEF Coherent, Ordered, DecidedOnce, LedgerSound, ClientSound, Retained,
        clientVars, hostVars, historyVars
<1> QED
  BY <1>1, <1>2, <1>3, <1>4, <1>5, <1>6, <1>7, <1>8, <1>9, <1>10, <1>11 DEF Next

\* The knowledge the five actors have of each other stays coherent whatever is
\* lost, repeated or reordered and whoever leaves.
THEOREM AlwaysCoherent == Spec => []Coherent
<1>1. Spec => []TypeOK
  BY TypeCorrect
<1> QED
  BY <1>1, CoherentInit, CoherentNext, PTL DEF Spec

\* No action is ever decided twice, though its request is sent until it is
\* answered and the ledger forgets the answer (PvpMatch::Decide).
THEOREM NeverDecidedTwice == Spec => []DecidedOnce
<1>1. Coherent => DecidedOnce
  BY DEF Coherent
<1> QED
  BY <1>1, AlwaysCoherent, PTL

\* The Match forgets a decision only when the game has it: the one reliable
\* copy is never the one that is dropped.
THEOREM NeverForgottenEarly == Spec => []RetiredOnlyWhenGiven
<1>1. TypeOK /\ Coherent => RetiredOnlyWhenGiven
  <2> SUFFICES ASSUME TypeOK, Coherent, NEW i \in 1..retiredThrough PROVE handed[i] # <<>>
    BY DEF RetiredOnlyWhenGiven
  <2>1. i \in 1..acknowledgedThrough
    BY Prefixes DEF Coherent, Ordered
  <2> QED
    BY <2>1 DEF Coherent, ClientSound
<1> QED
  BY <1>1, TypeCorrect, AlwaysCoherent, PTL

\* A frame of the session never fails the Client's validation.
THEOREM FramesAccepted == Spec => []ResultsNeverRejected
<1>1. TypeOK /\ Coherent => ResultsNeverRejected
  <2> SUFFICES ASSUME TypeOK, Coherent, NEW k \in 1..Len(down)
               PROVE  AcceptsResults(down[k])
    BY DEF ResultsNeverRejected
  <2> DEFINE f == down[k]
  <2>1. /\ f.retired <= retiredThrough /\ f.decisions \subseteq verdicts
        /\ Cardinality(f.decisions) <= MaxActionBatch /\ f.retired \in Nat
    BY MessageTypes DEF Coherent, MessagesSound, FrameSound
  <2>2. f.retired <= acknowledgedThrough
    BY <2>1, Prefixes DEF Coherent, Ordered
  <2> HIDE DEF f
  <2>3. ASSUME NEW d \in f.decisions
        PROVE  /\ d[1] <= allocatedThrough
               /\ \A e \in f.decisions : d[1] = e[1] => d = e
    BY <2>1 DEF Coherent, LedgerSound, DecidedOnce
  <2>4. ASSUME NEW d \in f.decisions, d[1] > clientRetired
        PROVE  d[1] \in Retained /\ answers[d[1]] \in {"none", d[2]}
    <3>1. d \in verdicts /\ d[1] \in Ids
      BY <2>1 DEF TypeOK
    <3>2. d[1] \in Retained
      BY <2>3, <2>4, <3>1, Prefixes DEF Retained, Ids
    <3>3. ASSUME answers[d[1]] # "none" PROVE answers[d[1]] = d[2]
      <4>1. <<d[1], answers[d[1]]>> \in verdicts
        BY <3>1, <3>3 DEF Coherent, ClientSound
      <4>2. <<d[1], answers[d[1]]>> = d
        BY <3>1, <4>1 DEF Coherent, DecidedOnce
      <4> QED
        BY <4>2
    <3> QED
      BY <3>2, <3>3
  <2>5. AcceptsResults(f)
    BY <2>1, <2>2, <2>3, <2>4 DEF AcceptsResults
  <2> QED
    BY <2>5 DEF f
<1> QED
  BY <1>1, TypeCorrect, AlwaysCoherent, PTL

\* Neither assertion of MatchRuntimeHost::Step can fail.
THEOREM StepNeverFaults == Spec => []NoHostFault
<1>1. Init => NoHostFault
  BY DEF Init, NoHostFault
<1>2. TypeOK /\ Coherent /\ NoHostFault /\ [Next]_vars => NoHostFault'
  <2> SUFFICES ASSUME TypeOK, Coherent, NoHostFault, [Next]_vars PROVE fault' = "none"
    BY DEF NoHostFault
  <2>1. CASE StepTick
    BY <2>1, NoStepFault DEF StepTick
  <2>2. CASE ~StepTick
    BY <2>2 DEF Next, NoHostFault, vars, hostVars, SubmitAction, Drain, SendActions,
      AcceptResults, LoseBatch, LoseResults, ReleaseSlot, ReceiveActions, WriteLane,
      QueueLeave, StepLeave
  <2> QED
    BY <2>1, <2>2
<1> QED
  BY <1>1, <1>2, TypeCorrect, AlwaysCoherent, PTL DEF Spec

\* The Match never refuses a batch of a player it holds.
THEOREM BatchesAdmitted == Spec => []BatchesAdmissible
<1>1. TypeOK /\ Coherent => BatchesAdmissible
  <2> SUFFICES ASSUME TypeOK, Coherent, member = "joined", NEW k \in 1..Len(up)
               PROVE  Admissible(up[k])
    BY DEF BatchesAdmissible
  <2> DEFINE b == up[k]
             merged == {i \in staged \cup b.shots : i > Floor(b.ack)}
             kept == {i \in Ids : i > Floor(b.ack) /\ ledger[i] # "absent"}
  <2>1. /\ b.ack \in Nat /\ b.ack <= acknowledgedThrough
        /\ b.shots \subseteq 1..allocatedThrough /\ Cardinality(b.shots) <= MaxActionBatch
    BY MessageTypes DEF Coherent, MessagesSound, BatchSound
  <2> HIDE DEF b
  <2>2. Through(b.ack) \in Nat /\ Through(b.ack) <= acknowledgedThrough
    BY <2>1, Prefixes DEF Through, Larger, Coherent, Ordered
  <2>3. CanAcknowledge(b.ack) /\ CanAcknowledge(Through(b.ack))
    BY <2>1, <2>2, AcknowledgementHolds
  <2>4. /\ Floor(b.ack) \in Nat
        /\ allocatedThrough <= Floor(b.ack) + MaxActionWindow
    BY <2>2, Prefixes, WindowAssumption DEF Floor, Larger, Coherent, Ordered
  <2>5. Cardinality(staged) <= MaxActionWindow
    <3>1. staged \subseteq (retiredThrough + 1)..allocatedThrough
      BY Prefixes DEF TypeOK, Ids, Coherent, LedgerSound
    <3>2. allocatedThrough <= retiredThrough + MaxActionWindow
      BY Prefixes, WindowAssumption DEF Coherent, Ordered
    <3> QED
      BY <3>1, <3>2, WindowCardinality, Prefixes
  <2>6. /\ \A i \in staged \cup b.shots : i \in Nat /\ i <= allocatedThrough
        /\ \A i \in kept : i \in Nat /\ i <= allocatedThrough
    <3>1. \A i \in staged : i \in Nat /\ i <= allocatedThrough
      BY DEF TypeOK, Ids, Coherent, LedgerSound
    <3>2. \A i \in b.shots : i \in Nat /\ i <= allocatedThrough
      BY <2>1, Prefixes
    <3>3. \A i \in kept : i \in Nat /\ i <= allocatedThrough
      BY DEF Ids, Coherent, LedgerSound
    <3> QED
      BY <3>1, <3>2, <3>3
  <2>7. merged \cup kept \subseteq (Floor(b.ack) + 1)..allocatedThrough
    BY <2>4, <2>6, Prefixes
  <2>8. Cardinality(merged \cup kept) <= MaxActionWindow
    BY <2>4, <2>7, WindowCardinality, Prefixes
  <2>9. \A i \in merged : i - Floor(b.ack) <= MaxActionWindow
    BY <2>4, <2>6, Prefixes, WindowAssumption
  <2>10. Admissible(b)
    BY <2>1, <2>3, <2>5, <2>8, <2>9 DEF Admissible
  <2> QED
    BY <2>10 DEF b
<1> QED
  BY <1>1, TypeCorrect, AlwaysCoherent, PTL

\* The protocol implements the service: an action is answered at most once, its
\* answer is given at most once, and forgotten only after that.
THEOREM ImplementsService == Spec => ServiceSpec
<1>1. Init => Service!Init
  BY DEF Init, Service!Init, Ids, Service!Ids
<1>2. TypeOK /\ TypeOK' /\ Coherent /\ Coherent' /\ [Next]_vars
        => [Service!Next]_(Service!vars)
  <2> SUFFICES ASSUME TypeOK, TypeOK', Coherent, Coherent', [Next]_vars
               PROVE  Service!Next \/ UNCHANGED Service!vars
    OBVIOUS
  <2>1. CASE SubmitAction
    <3>1. Service!Submit
      BY <2>1 DEF SubmitAction, Service!Submit, hostVars, historyVars
    <3> QED
      BY <3>1 DEF Service!Next
  <2>2. CASE Drain
    <3>1. UNCHANGED <<allocatedThrough, verdicts, retiredThrough>>
      BY <2>2 DEF Drain, hostVars
    <3>2. \A i \in Ids : handed[i] # <<>> => handed'[i] = handed[i]
      <4> SUFFICES ASSUME NEW i \in Ids, handed[i] # <<>> PROVE handed'[i] = handed[i]
        OBVIOUS
      <4>1. i \in delivered \/ i <= clientRetired
        BY DEF Coherent, ClientSound
      <4>2. i \notin {j \in Retained : answers[j] # "none" /\ j \notin delivered}
        BY <4>1, Prefixes DEF Retained
      <4> QED
        BY <2>2, <4>2 DEF Drain
    <3>3. \A i \in Ids : handed'[i] # <<>> =>
            \E o \in Outcomes : handed'[i] = <<o>> /\ <<i, o>> \in verdicts
      BY <3>1 DEF Coherent, ClientSound
    <3>4. handed' \in [Ids -> {<<>>} \cup {<<o>> : o \in Outcomes}]
      BY <3>3 DEF TypeOK
    <3>5. Service!Give
      BY <3>1, <3>2, <3>3, <3>4 DEF Service!Give, Ids, Service!Ids
    <3> QED
      BY <3>5 DEF Service!Next
  <2>3. CASE StepTick
    <3>1. StepFault = "none"
      BY <2>3, NoStepFault DEF StepTick
    <3>2. UNCHANGED <<allocatedThrough, acknowledgedThrough, handed>>
      BY <2>3 DEF StepTick, clientVars
    <3>3. /\ retiredThrough' \in retiredThrough..allocatedThrough
          /\ \A i \in 1..retiredThrough' : handed[i] # <<>>
      <4>1. /\ retiredThrough' \in Nat /\ retiredThrough <= retiredThrough'
            /\ retiredThrough' <= acknowledgedThrough
        BY <2>3, <3>1, Prefixes DEF StepTick, Larger, Coherent, Ordered
      <4>2. \A i \in 1..acknowledgedThrough : handed[i] # <<>>
        BY DEF Coherent, ClientSound
      <4> QED
        BY <4>1, <4>2, Prefixes DEF Coherent, Ordered
    <3>4. verdicts \subseteq verdicts'
      BY <2>3, <3>1 DEF StepTick
    <3>5. verdicts' \subseteq (1..allocatedThrough) \X Outcomes
      <4> SUFFICES ASSUME NEW d \in verdicts'
                   PROVE  d \in (1..allocatedThrough) \X Outcomes
        OBVIOUS
      <4>1. d \in Ids \X Outcomes
        BY DEF TypeOK
      <4>2. d[1] <= allocatedThrough
        BY <3>2 DEF Coherent, LedgerSound
      <4>3. d[1] \in 1..allocatedThrough
        BY <4>1, <4>2, Prefixes DEF Ids
      <4> QED
        BY <4>1, <4>3
    <3>6. \A d, e \in verdicts' : d[1] = e[1] => d = e
      BY DEF Coherent, DecidedOnce
    <3>7. Service!Authority
      BY <3>2, <3>3, <3>4, <3>5, <3>6 DEF Service!Authority
    <3> QED
      BY <3>7 DEF Service!Next
  <2>4. CASE ~(SubmitAction \/ Drain \/ StepTick)
    <3>1. UNCHANGED <<allocatedThrough, verdicts, handed, retiredThrough>>
      BY <2>4 DEF Next, vars, clientVars, hostVars, historyVars, SendActions,
        AcceptResults, LoseBatch, LoseResults, ReleaseSlot, ReceiveActions, WriteLane,
        QueueLeave, StepLeave
    <3> QED
      BY <3>1 DEF Service!vars
  <2> QED
    BY <2>1, <2>2, <2>3, <2>4
<1> QED
  BY <1>1, <1>2, TypeCorrect, AlwaysCoherent, PTL DEF Spec, ServiceSpec, Service!Spec

=============================================================================
