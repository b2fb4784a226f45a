------------------------ MODULE RoomLifecycleProofs ------------------------
(***************************************************************************)
(* Proofs about RoomLifecycle, for any number of processes, players and    *)
(* queued controls: the types with the bounds of the queues; that the      *)
(* reset handshake between IpcHost and MatchRuntimeHost keeps the players  *)
(* of successive Gateway processes apart; that no contract fails; that     *)
(* the whole implements RoomService; and that the two ends agree: a room   *)
(* is full only after a loss, and each end knows the members of the other  *)
(* but for what is on its way.  The first two need TypeOK /\ Handshake     *)
(* only.  The next two need RoomInv, which follows the one Join of each    *)
(* player from the Gateway's queue to its answer.  The last two need       *)
(* AgreeInv, which follows the order of all a process asks along the line  *)
(* from its queue to the host, and each answer on its way back.            *)
(***************************************************************************)
EXTENDS MCRoomLifecycle, TLAPS, FiniteSetTheorems

\* Everything the host holds came by connection g.
HostOf(g) ==
  /\ \A m \in members : m.from = g
  /\ \A k \in 1..Len(controls) : controls[k].from = g
  /\ \A k \in 1..Len(results) : results[k].from = g
  /\ \A k \in 1..Len(evictions) : evictions[k].from = g

HostEmpty == members = {} /\ controls = <<>> /\ results = <<>> /\ evictions = <<>>

\* Where the reset stands in each phase of IpcHost.
Handshake ==
  /\ phase = "Accepting" => HostEmpty /\ ~pendingReset
  /\ phase = "Resetting" => HostEmpty
  /\ phase = "Closing" /\ resetDone => HostEmpty
  /\ phase \in {"Resetting", "Closing"} => pendingReset # resetDone
  /\ phase = "Connected" => ~pendingReset /\ ~resetDone /\ HostOf(connection)
  /\ fault # "reset pending"

----------------------------------------------------------------------------
(* Helpers.                                                                *)

\* A function takes no more values than it has arguments.
LEMMA Image ==
  ASSUME NEW S, IsFiniteSet(S), NEW f, f = [x \in S |-> f[x]]
  PROVE  /\ IsFiniteSet({f[x] : x \in S})
         /\ Cardinality({f[x] : x \in S}) <= Cardinality(S)
<1> DEFINE T == {f[x] : x \in S}
<1>1. f \in Surjection(S, T)
  BY DEF Surjection
<1> QED
  BY <1>1, FS_Surjection

LEMMA Interval ==
  ASSUME NEW n \in Nat
  PROVE  IsFiniteSet(1..n) /\ Cardinality(1..n) = n
<1>1. 1 \in Int /\ n \in Int
  OBVIOUS
<1>2. IsFiniteSet(1..n) /\ Cardinality(1..n) = IF 1 > n THEN 0 ELSE n - 1 + 1
  BY <1>1, FS_Interval, Zenon
<1> QED
  BY <1>2

\* The number requestSequence gives a control is one of Requests and fresh: there
\* are more of them than controls, results and joins that can be under way.
LEMMA FreshRequest ==
  ASSUME HostTypes, IpcTypes, Len(controls) + Len(results) < MaximumControls
  PROVE  /\ NewRequest \in Requests
         /\ \A j \in joins : j[1] # NewRequest
         /\ \A k \in 1..Len(controls) : controls[k].request # NewRequest
         /\ \A k \in 1..Len(results) : results[k].request # NewRequest
<1> USE BoundsAssumption
<1> DEFINE inJoins == {j[1] : j \in joins}
           inControls == {controls[k].request : k \in 1..Len(controls)}
           inResults == {results[k].request : k \in 1..Len(results)}
           taken == inJoins \cup inControls \cup inResults
<1>1. Len(controls) \in Nat /\ Len(results) \in Nat
  BY DEF HostTypes
<1>2. IsFiniteSet(joins)
  <2>1. IsFiniteSet(Requests) /\ IsFiniteSet(Ids)
    BY Interval DEF Requests, Ids
  <2>2. IsFiniteSet(Requests \X Ids)
    BY <2>1, FS_Product
  <2> QED
    BY <2>2, FS_Subset DEF IpcTypes
<1>3. IsFiniteSet(inJoins) /\ Cardinality(inJoins) <= MaxPendingJoins
  <2> DEFINE f == [j \in joins |-> j[1]]
  <2>1. IsFiniteSet(inJoins) /\ Cardinality(inJoins) <= Cardinality(joins)
    <3>1. f = [j \in joins |-> f[j]] /\ inJoins = {f[j] : j \in joins}
      OBVIOUS
    <3> HIDE DEF f, inJoins
    <3> QED
      BY <1>2, <3>1, Image, Zenon
  <2>2. Cardinality(inJoins) \in Nat /\ Cardinality(joins) \in Nat
    BY <1>2, <2>1, FS_CardinalityType
  <2> QED
    BY <2>1, <2>2 DEF IpcTypes
<1>4. IsFiniteSet(inControls) /\ Cardinality(inControls) <= Len(controls)
  <2> DEFINE f == [k \in 1..Len(controls) |-> controls[k].request]
  <2>1. IsFiniteSet(1..Len(controls)) /\ Cardinality(1..Len(controls)) = Len(controls)
    BY <1>1, Interval
  <2>2. f = [k \in 1..Len(controls) |-> f[k]] /\ inControls = {f[k] : k \in 1..Len(controls)}
    OBVIOUS
  <2> HIDE DEF f, inControls
  <2>3. IsFiniteSet(inControls) /\ Cardinality(inControls) <= Cardinality(1..Len(controls))
    BY <2>1, <2>2, Image, Zenon
  <2> QED
    BY <2>1, <2>3
<1>5. IsFiniteSet(inResults) /\ Cardinality(inResults) <= Len(results)
  <2> DEFINE f == [k \in 1..Len(results) |-> results[k].request]
  <2>1. IsFiniteSet(1..Len(results)) /\ Cardinality(1..Len(results)) = Len(results)
    BY <1>1, Interval
  <2>2. f = [k \in 1..Len(results) |-> f[k]] /\ inResults = {f[k] : k \in 1..Len(results)}
    OBVIOUS
  <2> HIDE DEF f, inResults
  <2>3. IsFiniteSet(inResults) /\ Cardinality(inResults) <= Cardinality(1..Len(results))
    BY <2>1, <2>2, Image, Zenon
  <2> QED
    BY <2>1, <2>3
<1>6. IsFiniteSet(inJoins \cup inControls)
  BY <1>3, <1>4, FS_Union
<1>7. IsFiniteSet(taken) /\ Cardinality(taken) < MaximumControls + MaxPendingJoins
  <2>1. /\ Cardinality(inJoins) \in Nat /\ Cardinality(inControls) \in Nat
        /\ Cardinality(inResults) \in Nat
    BY <1>3, <1>4, <1>5, FS_CardinalityType
  <2>2. Cardinality(inJoins \cup inControls) <= Cardinality(inJoins) + Cardinality(inControls)
    <3>1. Cardinality(inJoins \cap inControls) \in Nat
      BY <1>3, FS_Intersection, FS_CardinalityType
    <3>2. Cardinality(inJoins \cup inControls) =
            Cardinality(inJoins) + Cardinality(inControls) - Cardinality(inJoins \cap inControls)
      BY <1>3, <1>4, FS_Union
    <3> QED
      BY <2>1, <3>1, <3>2
  <2>3. Cardinality(inJoins \cup inControls) \in Nat
    BY <1>6, FS_CardinalityType
  <2>4. /\ IsFiniteSet(taken)
        /\ Cardinality(taken) <= Cardinality(inJoins \cup inControls) + Cardinality(inResults)
    <3>1. Cardinality((inJoins \cup inControls) \cap inResults) \in Nat
      BY <1>6, FS_Intersection, FS_CardinalityType
    <3>2. /\ IsFiniteSet(taken)
          /\ Cardinality(taken) = Cardinality(inJoins \cup inControls) + Cardinality(inResults)
                                    - Cardinality((inJoins \cup inControls) \cap inResults)
      BY <1>5, <1>6, FS_Union
    <3> QED
      BY <2>1, <2>3, <3>1, <3>2
  <2>5. Cardinality(taken) \in Nat
    BY <2>4, FS_CardinalityType
  <2> HIDE DEF taken, inJoins, inControls, inResults
  <2> QED
    BY <1>1, <1>3, <1>4, <1>5, <2>1, <2>2, <2>3, <2>4, <2>5
<1>8. \E n \in Requests : n \notin taken
  <2>1. IsFiniteSet(Requests) /\ Cardinality(Requests) = MaximumControls + MaxPendingJoins
    BY Interval DEF Requests
  <2>2. ~(Requests \subseteq taken)
    <3> SUFFICES ASSUME Requests \subseteq taken PROVE FALSE
      OBVIOUS
    <3>1. Cardinality(Requests) <= Cardinality(taken)
      BY <1>7, FS_Subset
    <3>2. Cardinality(taken) \in Nat
      BY <1>7, FS_CardinalityType
    <3> QED
      BY <1>7, <2>1, <3>1, <3>2
  <2> QED
    BY <2>2
<1>9. \E n \in Requests :
        /\ \A j \in joins : j[1] # n
        /\ \A k \in 1..Len(controls) : controls[k].request # n
        /\ \A k \in 1..Len(results) : results[k].request # n
  BY <1>8
<1> QED
  BY <1>9 DEF NewRequest

LEMMA PrefixTypes ==
  ASSUME NEW S, NEW s \in Seq(S), NEW p \in Prefixes(s)
  PROVE  p \in Seq(S)
<1>1. PICK n \in 0..Len(s) : p = SubSeq(s, 1, n)
  BY DEF Prefixes
<1>2. n \in Nat /\ Len(s) \in Nat /\ s \in [1..Len(s) -> S]
  OBVIOUS
<1>3. p = [i \in 1..n |-> s[i]]
  BY <1>1, <1>2
<1> QED
  BY <1>2, <1>3

LEMMA CloseLinkTypes ==
  ASSUME TypeOK, generation > 0, CloseLink
  PROVE  /\ queue' = <<>>
         /\ closedBy' \in [Generations -> SUBSET {"gateway", "match"}]
         /\ up' \in [Generations -> Seq(Asks)]
<1>1. generation \in Generations
  BY BoundsAssumption DEF TypeOK, GatewayTypes, Generations
<1>2. up[generation] \in Seq(Asks)
  BY <1>1 DEF TypeOK, WireTypes
<1>3. closedBy' \in [Generations -> SUBSET {"gateway", "match"}]
  BY <1>1 DEF CloseLink, TypeOK, WireTypes
<1>4. PICK kept \in Prefixes(up[generation]) : up' = [up EXCEPT ![generation] = kept]
  BY DEF CloseLink
<1>5. kept \in Seq(Asks)
  BY <1>2, PrefixTypes
<1> QED
  BY <1>1, <1>3, <1>4, <1>5 DEF CloseLink, TypeOK, WireTypes

LEMMA CloseTypes ==
  ASSUME TypeOK, phase = "Connected", Close
  PROVE  /\ phase' = "Closing" /\ connection' = 0 /\ io' = "idle" /\ joins' = {}
         /\ outgoing' = <<>> /\ pendingReset' = TRUE /\ resetDone' = FALSE
         /\ fault' = IF pendingReset THEN "reset pending" ELSE fault
         /\ closedBy' \in [Generations -> SUBSET {"gateway", "match"}]
         /\ up' \in [Generations -> Seq(Asks)]
         /\ down' \in [Generations -> Seq(Answers)]
<1>1. connection \in Generations
  BY BoundsAssumption DEF TypeOK, IpcTypes, Generations
<1>2. down[connection] \in Seq(Answers)
  BY <1>1 DEF TypeOK, WireTypes
<1>3. /\ closedBy' \in [Generations -> SUBSET {"gateway", "match"}]
      /\ up' \in [Generations -> Seq(Asks)]
  BY <1>1 DEF Close, TypeOK, WireTypes
<1>4. PICK kept \in Prefixes(down[connection]) : down' = [down EXCEPT ![connection] = kept]
  BY DEF Close
<1>5. kept \in Seq(Answers)
  BY <1>2, PrefixTypes
<1>6. down' \in [Generations -> Seq(Answers)]
  BY <1>1, <1>4, <1>5 DEF TypeOK, WireTypes
<1> QED
  BY <1>3, <1>6 DEF Close, RequestReset

LEMMA SendControlTypes ==
  ASSUME TypeOK, NEW m \in Asks, generation \in Generations, SendControl(m)
  PROVE  /\ queue' \in Seq(Asks) /\ Len(queue') <= MaxQueuedControls
         /\ failing' \in BOOLEAN
         /\ overflowed' \in SUBSET Generations
<1>1. CASE LinkOpen /\ Len(queue) < MaxQueuedControls
  <2>1. queue' = Append(queue, m) /\ failing' = failing /\ overflowed' = overflowed
    BY <1>1 DEF SendControl
  <2>2. queue \in Seq(Asks) /\ failing \in BOOLEAN /\ overflowed \in SUBSET Generations
    BY DEF TypeOK, GatewayTypes, HistoryTypes
  <2>3. Append(queue, m) \in Seq(Asks) /\ Len(Append(queue, m)) = Len(queue) + 1
    BY <2>2
  <2> QED
    BY <1>1, <2>1, <2>2, <2>3, BoundsAssumption
<1>2. CASE ~(LinkOpen /\ Len(queue) < MaxQueuedControls)
  BY <1>2 DEF SendControl, TypeOK, GatewayTypes, HistoryTypes
<1> QED
  BY <1>1, <1>2

----------------------------------------------------------------------------
(* The types, action by action.                                            *)

LEMMA GenerationTypes ==
  ASSUME TypeOK, gateway # "down"
  PROVE  generation > 0 /\ generation \in Generations
BY BoundsAssumption DEF TypeOK, GatewayTypes, Generations

LEMMA StartGatewayTypes == TypeOK /\ StartGateway => TypeOK'
<1> SUFFICES ASSUME TypeOK, StartGateway PROVE TypeOK'
  OBVIOUS
<1> USE BoundsAssumption DEF TypeOK
<1>1. generation' \in Generations /\ generation' > 0
  BY DEF StartGateway, GatewayTypes, Generations
<1>2. GatewayTypes'
  <2>1. generation' \in 0..MaxGenerations /\ nextPlayer' \in 0..MaxIds
    BY <1>1 DEF StartGateway, Generations
  <2> QED
    BY <1>1, <2>1 DEF StartGateway, GatewayTypes
<1>3. WireTypes'
  BY <1>1 DEF StartGateway, WireTypes
<1>4. IpcTypes' /\ HostTypes' /\ HistoryTypes'
  <2>1. UNCHANGED <<ipcVars, hostVars, historyVars>>
    BY DEF StartGateway
  <2>2. IpcTypes' /\ HistoryTypes'
    BY <2>1 DEF IpcTypes, HistoryTypes, ipcVars, historyVars
  <2>3. HostTypes'
    BY <2>1 DEF HostTypes, hostVars
  <2> QED
    BY <2>2, <2>3
<1> QED
  BY <1>2, <1>3, <1>4

LEMMA ReadReadyTypes == TypeOK /\ ReadReady => TypeOK'
<1> SUFFICES ASSUME TypeOK, ReadReady PROVE TypeOK'
  OBVIOUS
<1> USE DEF TypeOK
<1>1. generation \in Generations /\ generation > 0
  BY GenerationTypes DEF ReadReady
<1>2. GatewayTypes'
  BY <1>1 DEF ReadReady, GatewayTypes
<1>3. WireTypes'
  BY <1>1 DEF ReadReady, WireTypes
<1>4. IpcTypes' /\ HostTypes' /\ HistoryTypes'
  <2>1. UNCHANGED <<ipcVars, hostVars, historyVars>>
    BY DEF ReadReady
  <2>2. IpcTypes' /\ HistoryTypes'
    BY <2>1 DEF IpcTypes, HistoryTypes, ipcVars, historyVars
  <2>3. HostTypes'
    BY <2>1 DEF HostTypes, hostVars
  <2> QED
    BY <2>2, <2>3
<1> QED
  BY <1>2, <1>3, <1>4

LEMMA StopGatewayTypes == TypeOK /\ StopGateway => TypeOK'
<1> SUFFICES ASSUME TypeOK, StopGateway PROVE TypeOK'
  OBVIOUS
<1>1. generation \in Generations /\ generation > 0
  BY GenerationTypes DEF StopGateway
<1>2. /\ queue' = <<>>
      /\ closedBy' \in [Generations -> SUBSET {"gateway", "match"}]
      /\ up' \in [Generations -> Seq(Asks)]
  BY <1>1, CloseLinkTypes DEF StopGateway
<1>3. GatewayTypes'
  <2>1. Len(<<>>) <= MaxQueuedControls /\ <<>> \in Seq(Asks)
    BY BoundsAssumption
  <2> QED
    BY <1>2, <2>1 DEF StopGateway, TypeOK, GatewayTypes, NoReservation
<1>4. WireTypes'
  <2>1. <<>> \in Seq(Answers)
    OBVIOUS
  <2> QED
    BY <1>1, <1>2, <2>1 DEF StopGateway, TypeOK, WireTypes
<1>5. IpcTypes' /\ HostTypes' /\ HistoryTypes'
  <2>1. UNCHANGED <<ipcVars, hostVars, historyVars>>
    BY DEF StopGateway
  <2>2. IpcTypes' /\ HistoryTypes'
    BY <2>1 DEF TypeOK, IpcTypes, HistoryTypes, ipcVars, historyVars
  <2>3. HostTypes'
    BY <2>1 DEF TypeOK, HostTypes, hostVars
  <2> QED
    BY <2>2, <2>3
<1> QED
  BY <1>3, <1>4, <1>5 DEF TypeOK

LEMMA ReserveTypes == TypeOK /\ Reserve => TypeOK'
<1> SUFFICES ASSUME TypeOK, Reserve PROVE TypeOK'
  OBVIOUS
<1> USE DEF TypeOK
<1>1. GatewayTypes'
  <2>1. nextPlayer' \in 0..MaxIds
    BY BoundsAssumption DEF Reserve, GatewayTypes
  <2> QED
    BY <2>1 DEF Reserve, GatewayTypes
<1>2. WireTypes'
  BY DEF Reserve, WireTypes, wireVars
<1>3. IpcTypes' /\ HostTypes' /\ HistoryTypes'
  <2>1. UNCHANGED <<ipcVars, hostVars, historyVars>>
    BY DEF Reserve
  <2>2. IpcTypes' /\ HistoryTypes'
    BY <2>1 DEF IpcTypes, HistoryTypes, ipcVars, historyVars
  <2>3. HostTypes'
    BY <2>1 DEF HostTypes, hostVars
  <2> QED
    BY <2>2, <2>3
<1> QED
  BY <1>1, <1>2, <1>3

LEMMA FirstHelloTypes ==
  ASSUME TypeOK, NEW i \in Ids, FirstHello(i)
  PROVE  TypeOK'
<1>1. generation \in Generations
  BY GenerationTypes DEF FirstHello
<1>2. Msg("join", i) \in Asks
  BY DEF Msg, Asks
<1>3. /\ queue' \in Seq(Asks) /\ Len(queue') <= MaxQueuedControls
      /\ failing' \in BOOLEAN /\ overflowed' \in SUBSET Generations
  BY <1>1, <1>2, SendControlTypes DEF FirstHello
<1>4. GatewayTypes'
  BY <1>3 DEF FirstHello, TypeOK, GatewayTypes
<1>5. WireTypes'
  BY DEF FirstHello, TypeOK, WireTypes, wireVars
<1>6. IpcTypes' /\ HostTypes'
  BY DEF FirstHello, TypeOK, IpcTypes, HostTypes, ipcVars, hostVars
<1>7. HistoryTypes'
  BY <1>3 DEF FirstHello, TypeOK, HistoryTypes
<1> QED
  BY <1>4, <1>5, <1>6, <1>7 DEF TypeOK

LEMMA EndReservationTypes ==
  ASSUME TypeOK, NEW i \in Ids, EndReservation(i)
  PROVE  TypeOK'
<1>1. generation \in Generations
  BY GenerationTypes DEF EndReservation
<1>2. Msg("leave", i) \in Asks
  BY DEF Msg, Asks
<1>3. /\ queue' \in Seq(Asks) /\ Len(queue') <= MaxQueuedControls
      /\ failing' \in BOOLEAN /\ overflowed' \in SUBSET Generations
  <2>1. CASE reservation[i] # "reserved"
    BY <1>1, <1>2, <2>1, SendControlTypes DEF EndReservation
  <2>2. CASE reservation[i] = "reserved"
    BY <2>2 DEF EndReservation, TypeOK, GatewayTypes, HistoryTypes
  <2> QED
    BY <2>1, <2>2
<1>4. GatewayTypes'
  BY <1>3 DEF EndReservation, TypeOK, GatewayTypes
<1>5. WireTypes'
  BY DEF EndReservation, TypeOK, WireTypes, wireVars
<1>6. IpcTypes' /\ HostTypes'
  BY DEF EndReservation, TypeOK, IpcTypes, HostTypes, ipcVars, hostVars
<1>7. HistoryTypes'
  BY <1>3 DEF EndReservation, TypeOK, HistoryTypes
<1> QED
  BY <1>4, <1>5, <1>6, <1>7 DEF TypeOK

LEMMA ReadRuntimeTypes == TypeOK /\ ReadRuntime => TypeOK'
<1> SUFFICES ASSUME TypeOK, ReadRuntime PROVE TypeOK'
  OBVIOUS
<1>1. generation \in Generations
  BY GenerationTypes DEF ReadRuntime
<1>2. /\ reservation' \in [Ids -> {"none", "reserved", "joining", "active"}]
      /\ failing' \in BOOLEAN
      /\ fault' \in {"none", "second join result", "unknown result", "reset pending"}
  <2> DEFINE m == Head(down[generation])
  <2>1. /\ reservation \in [Ids -> {"none", "reserved", "joining", "active"}]
        /\ failing \in BOOLEAN
        /\ fault \in {"none", "second join result", "unknown result", "reset pending"}
    BY DEF TypeOK, GatewayTypes, HistoryTypes
  <2>2. CASE m.kind = "joined" /\ Answered(m.player, "active")
    BY <2>1, <2>2 DEF Answered
  <2>3. CASE m.kind = "rejected" /\ Answered(m.player, "none")
    BY <2>1, <2>3 DEF Answered
  <2>4. CASE /\ m.kind = "evicted"
             /\ reservation' = [reservation EXCEPT ![m.player] = "none"]
             /\ UNCHANGED <<failing, fault>>
    BY <2>1, <2>4
  <2> QED
    BY <2>2, <2>3, <2>4 DEF ReadRuntime
<1>3. GatewayTypes'
  BY <1>2 DEF ReadRuntime, TypeOK, GatewayTypes
<1>4. WireTypes'
  BY <1>1 DEF ReadRuntime, TypeOK, WireTypes
<1>5. IpcTypes' /\ HostTypes'
  BY DEF ReadRuntime, TypeOK, IpcTypes, HostTypes, ipcVars, hostVars
<1>6. HistoryTypes'
  BY <1>2 DEF ReadRuntime, TypeOK, HistoryTypes
<1> QED
  BY <1>3, <1>4, <1>5, <1>6 DEF TypeOK

LEMMA WriteQueueTypes == TypeOK /\ WriteQueue => TypeOK'
<1> SUFFICES ASSUME TypeOK, WriteQueue PROVE TypeOK'
  OBVIOUS
<1>1. generation \in Generations
  BY GenerationTypes DEF WriteQueue
<1>2. up' \in [Generations -> Seq(Asks)]
  <2>1. up[generation] \in Seq(Asks) /\ queue \in Seq(Asks) /\ up \in [Generations -> Seq(Asks)]
    BY <1>1 DEF TypeOK, GatewayTypes, WireTypes
  <2>2. up[generation] \o queue \in Seq(Asks)
    BY <2>1
  <2> QED
    BY <1>1, <2>1, <2>2 DEF WriteQueue
<1>3. GatewayTypes'
  <2>1. Len(<<>>) <= MaxQueuedControls /\ <<>> \in Seq(Asks)
    BY BoundsAssumption
  <2> QED
    BY <2>1 DEF WriteQueue, TypeOK, GatewayTypes
<1>4. WireTypes'
  BY <1>2 DEF WriteQueue, TypeOK, WireTypes
<1>5. IpcTypes' /\ HostTypes' /\ HistoryTypes'
  <2>1. UNCHANGED <<ipcVars, hostVars, historyVars>>
    BY DEF WriteQueue
  <2>2. IpcTypes' /\ HistoryTypes'
    BY <2>1 DEF TypeOK, IpcTypes, HistoryTypes, ipcVars, historyVars
  <2>3. HostTypes'
    BY <2>1 DEF TypeOK, HostTypes, hostVars
  <2> QED
    BY <2>2, <2>3
<1> QED
  BY <1>3, <1>4, <1>5 DEF TypeOK

LEMMA FailLinkTypes == TypeOK /\ FailLink => TypeOK'
<1> SUFFICES ASSUME TypeOK, FailLink PROVE TypeOK'
  OBVIOUS
<1>1. generation \in Generations /\ generation > 0
  BY GenerationTypes DEF FailLink
<1>2. /\ queue' = <<>>
      /\ closedBy' \in [Generations -> SUBSET {"gateway", "match"}]
      /\ up' \in [Generations -> Seq(Asks)]
  BY <1>1, CloseLinkTypes DEF FailLink
<1>3. GatewayTypes'
  <2>1. Len(<<>>) <= MaxQueuedControls /\ <<>> \in Seq(Asks)
    BY BoundsAssumption
  <2> QED
    BY <1>2, <2>1 DEF FailLink, TypeOK, GatewayTypes
<1>4. down' \in [Generations -> Seq(Answers)]
  <2>1. PICK kept \in {n \in 0..1 : n <= Len(down[generation])} :
          down' = [down EXCEPT ![generation] = SubSeq(@, 1, kept)]
    BY DEF FailLink
  <2>2. down \in [Generations -> Seq(Answers)] /\ down[generation] \in Seq(Answers)
    BY <1>1 DEF TypeOK, WireTypes
  <2>3. SubSeq(down[generation], 1, kept) \in Prefixes(down[generation])
    BY <2>2 DEF Prefixes
  <2>4. SubSeq(down[generation], 1, kept) \in Seq(Answers)
    BY <2>2, <2>3, PrefixTypes
  <2> QED
    BY <2>1, <2>2, <2>4
<1>5. WireTypes'
  BY <1>2, <1>4 DEF FailLink, TypeOK, WireTypes
<1>6. IpcTypes' /\ HostTypes' /\ HistoryTypes'
  <2>1. UNCHANGED <<ipcVars, hostVars, historyVars>>
    BY DEF FailLink
  <2>2. IpcTypes' /\ HistoryTypes'
    BY <2>1 DEF TypeOK, IpcTypes, HistoryTypes, ipcVars, historyVars
  <2>3. HostTypes'
    BY <2>1 DEF TypeOK, HostTypes, hostVars
  <2> QED
    BY <2>2, <2>3
<1> QED
  BY <1>3, <1>5, <1>6 DEF TypeOK

LEMMA RuntimeFailedTypes == TypeOK /\ RuntimeFailed => TypeOK'
<1> SUFFICES ASSUME TypeOK, RuntimeFailed PROVE TypeOK'
  OBVIOUS
<1>1. generation \in Generations /\ generation > 0
  BY GenerationTypes DEF RuntimeFailed
<1>2. /\ queue' \in Seq(Asks) /\ Len(queue') <= MaxQueuedControls
      /\ closedBy' \in [Generations -> SUBSET {"gateway", "match"}]
      /\ up' \in [Generations -> Seq(Asks)]
  <2>1. CASE LinkOpen
    <3>1. Len(<<>>) <= MaxQueuedControls /\ <<>> \in Seq(Asks)
      BY BoundsAssumption
    <3>2. CloseLink
      BY <2>1 DEF RuntimeFailed
    <3> QED
      BY <1>1, <3>1, <3>2, CloseLinkTypes
  <2>2. CASE ~LinkOpen
    BY <2>2 DEF RuntimeFailed, TypeOK, GatewayTypes, WireTypes
  <2> QED
    BY <2>1, <2>2
<1>3. GatewayTypes'
  BY <1>2 DEF RuntimeFailed, TypeOK, GatewayTypes, NoReservation
<1>4. WireTypes'
  <2>1. <<>> \in Seq(Answers)
    OBVIOUS
  <2> QED
    BY <1>1, <1>2, <2>1 DEF RuntimeFailed, TypeOK, WireTypes
<1>5. IpcTypes' /\ HostTypes' /\ HistoryTypes'
  <2>1. UNCHANGED <<ipcVars, hostVars, historyVars>>
    BY DEF RuntimeFailed
  <2>2. IpcTypes' /\ HistoryTypes'
    BY <2>1 DEF TypeOK, IpcTypes, HistoryTypes, ipcVars, historyVars
  <2>3. HostTypes'
    BY <2>1 DEF TypeOK, HostTypes, hostVars
  <2> QED
    BY <2>2, <2>3
<1> QED
  BY <1>3, <1>4, <1>5 DEF TypeOK

\* What the Match's side of the connection ends: Close, with the queues that
\* the handler emptied.
LEMMA ClosedTypes ==
  ASSUME TypeOK, phase = "Connected", Close,
         controls' \in {controls, <<>>}, results' \in {results, <<>>},
         evictions' \in {evictions, <<>>},
         posted' \in BOOLEAN,
         UNCHANGED <<gatewayVars, backlog, stepping, members, seated, overflowed, refusedFull>>
  PROVE  TypeOK'
<1>1. GatewayTypes'
  BY DEF TypeOK, GatewayTypes, gatewayVars
<1>2. WireTypes'
  BY CloseTypes DEF TypeOK, WireTypes
<1>3. IpcTypes'
  <2>1. Cardinality({}) = 0
    BY FS_EmptySet
  <2>2. Cardinality({}) <= MaxPendingJoins /\ 0 <= MaxPendingControls
    BY <2>1, BoundsAssumption
  <2>3. <<>> \in Seq(Answers) /\ Len(<<>>) = 0 /\ 0 \in 0..MaxGenerations
    BY BoundsAssumption
  <2> QED
    BY CloseTypes, <2>2, <2>3 DEF IpcTypes
<1>4. HostTypes'
  <2>1. /\ controls \in Seq(Control) /\ results \in Seq(Result)
        /\ Len(controls) + Len(results) <= MaximumControls /\ MaximumControls \in Nat
        /\ evictions \in Seq(Seats)
    BY BoundsAssumption DEF TypeOK, HostTypes
  <2>2. /\ controls' \in Seq(Control) /\ results' \in Seq(Result)
        /\ Len(controls') <= Len(controls) /\ Len(results') <= Len(results)
        /\ evictions' \in Seq(Seats)
    <3>1. Len(controls) \in Nat /\ Len(results) \in Nat
      BY <2>1
    <3>2. controls' \in Seq(Control) /\ Len(controls') <= Len(controls)
      <4>1. CASE controls' = controls
        BY <2>1, <3>1, <4>1
      <4>2. CASE controls' = <<>>
        BY <3>1, <4>2
      <4> QED
        BY <4>1, <4>2, Zenon
    <3>3. results' \in Seq(Result) /\ Len(results') <= Len(results)
      <4>1. CASE results' = results
        BY <2>1, <3>1, <4>1
      <4>2. CASE results' = <<>>
        BY <3>1, <4>2
      <4> QED
        BY <4>1, <4>2, Zenon
    <3>4. evictions' \in Seq(Seats)
      <4>1. CASE evictions' = evictions
        BY <2>1, <4>1
      <4>2. CASE evictions' = <<>>
        BY <4>2
      <4> QED
        BY <4>1, <4>2, Zenon
    <3> QED
      BY <3>2, <3>3, <3>4
  <2>3. Len(controls') + Len(results') <= MaximumControls
    BY <2>1, <2>2
  <2> QED
    BY CloseTypes, <2>2, <2>3 DEF TypeOK, HostTypes
<1>5. HistoryTypes'
  BY CloseTypes DEF TypeOK, HistoryTypes
<1> QED
  BY <1>1, <1>2, <1>3, <1>4, <1>5 DEF TypeOK

LEMMA AcceptTypes == TypeOK /\ Accept => TypeOK'
<1> SUFFICES ASSUME TypeOK, Accept PROVE TypeOK'
  OBVIOUS
<1>1. backlog' \in Seq(Generations) /\ connection' \in Generations
  BY DEF Accept, TypeOK, WireTypes
<1>2. GatewayTypes'
  BY DEF Accept, TypeOK, GatewayTypes, gatewayVars
<1>3. WireTypes'
  BY <1>1 DEF Accept, TypeOK, WireTypes
<1>4. IpcTypes'
  <2>1. connection' \in 0..MaxGenerations /\ connection' > 0
    BY <1>1, BoundsAssumption DEF Generations
  <2> QED
    BY <2>1 DEF Accept, TypeOK, IpcTypes
<1>5. HostTypes'
  BY DEF Accept, RequestReset, TypeOK, HostTypes
<1>6. HistoryTypes'
  BY DEF Accept, RequestReset, TypeOK, HistoryTypes
<1> QED
  BY <1>2, <1>3, <1>4, <1>5, <1>6 DEF TypeOK

LEMMA CheckResetTypes == TypeOK /\ CheckReset => TypeOK'
<1> SUFFICES ASSUME TypeOK, CheckReset PROVE TypeOK'
  OBVIOUS
<1>1. GatewayTypes' /\ WireTypes'
  BY DEF CheckReset, TypeOK, GatewayTypes, WireTypes, gatewayVars, wireVars
<1>2. /\ phase' \in {"Accepting", "Resetting", "Connected", "Closing"}
      /\ phase' \in {"Resetting", "Connected"} => phase = "Resetting"
      /\ io' \in {"idle", "reading", "pumping", "evicting"}
      /\ resetDone' \in BOOLEAN
      /\ outgoing' = outgoing \/ outgoing' = <<Msg("ready", 0)>>
  BY DEF CheckReset, TypeOK, IpcTypes, HostTypes
<1>3. IpcTypes'
  <2>1. Msg("ready", 0) \in Answers
    BY DEF Msg, Answers
  <2>2. /\ <<Msg("ready", 0)>> \in Seq(Answers)
        /\ Len(<<Msg("ready", 0)>>) <= MaxPendingControls
    BY <2>1, BoundsAssumption
  <2>3. outgoing' \in Seq(Answers) /\ Len(outgoing') <= MaxPendingControls
    BY <1>2, <2>2 DEF TypeOK, IpcTypes
  <2> QED
    BY <1>2, <2>3 DEF CheckReset, TypeOK, IpcTypes
<1>4. HostTypes' /\ HistoryTypes'
  BY <1>2 DEF CheckReset, TypeOK, HostTypes, HistoryTypes, historyVars
<1> QED
  BY <1>1, <1>3, <1>4 DEF TypeOK

LEMMA ReceiveTypes == TypeOK /\ Receive => TypeOK'
<1> SUFFICES ASSUME TypeOK, Receive PROVE TypeOK'
  OBVIOUS
<1> DEFINE m == Head(up[connection])
           join == m.kind = "join"
           full == join /\ Cardinality(joins) >= MaxPendingJoins
           control == [request |-> NewRequest, player |-> m.player,
                       kind |-> m.kind, from |-> connection]
<1>1. connection \in Generations
  BY BoundsAssumption DEF Receive, TypeOK, IpcTypes, Generations
<1>2. up[connection] \in Seq(Asks) /\ m \in Asks /\ Tail(up[connection]) \in Seq(Asks)
  BY <1>1 DEF Receive, TypeOK, WireTypes
<1>3. CASE full \/ ~HostTakes
  <2>1. Close /\ UNCHANGED controls
    BY <1>3 DEF Receive
  <2> QED
    BY <2>1, ClosedTypes DEF Receive, TypeOK, IpcTypes
<1>4. CASE ~(full \/ ~HostTakes)
  <2>1. /\ controls' = Append(controls, control)
        /\ joins' = IF join THEN joins \cup {<<NewRequest, m.player>>} ELSE joins
        /\ up' = [up EXCEPT ![connection] = Tail(@)]
        /\ io' \in {"pumping"} \cup (IF Len(up[connection]) > 1 THEN {"reading"} ELSE {})
        /\ Stay
    BY <1>4 DEF Receive
  <2>2. Len(controls) + Len(results) < MaximumControls
    BY <1>4 DEF HostTakes
  <2>3. NewRequest \in Requests
    BY <2>2, FreshRequest DEF TypeOK
  <2>4. m.kind \in {"join", "leave"} /\ m.player \in Ids
    BY <1>2 DEF Asks
  <2>5. control \in Control
    BY <1>1, <2>3, <2>4 DEF Control
  <2>6. GatewayTypes'
    BY DEF Receive, TypeOK, GatewayTypes, gatewayVars
  <2>7. WireTypes'
    BY <1>1, <1>2, <2>1 DEF Receive, Stay, TypeOK, WireTypes
  <2>8. joins' \in SUBSET (Requests \X Ids) /\ Cardinality(joins') <= MaxPendingJoins
    <3>1. CASE ~join
      BY <2>1, <3>1 DEF TypeOK, IpcTypes
    <3>2. CASE join
      <4>1. IsFiniteSet(joins)
        <5>1. IsFiniteSet(Requests) /\ IsFiniteSet(Ids)
          BY Interval, BoundsAssumption DEF Requests, Ids
        <5>2. IsFiniteSet(Requests \X Ids)
          BY <5>1, FS_Product
        <5> QED
          BY <5>2, FS_Subset DEF TypeOK, IpcTypes
      <4>2. Cardinality(joins) \in Nat
        BY <4>1, FS_CardinalityType
      <4>3. Cardinality(joins) < MaxPendingJoins
        BY <1>4, <3>2, <4>2, BoundsAssumption
      <4>4. Cardinality(joins \cup {<<NewRequest, m.player>>}) \in
              {Cardinality(joins), Cardinality(joins) + 1}
        BY <4>1, FS_AddElement
      <4>5. Cardinality(joins \cup {<<NewRequest, m.player>>}) <= MaxPendingJoins
        BY <4>2, <4>3, <4>4, BoundsAssumption
      <4>6. joins \cup {<<NewRequest, m.player>>} \in SUBSET (Requests \X Ids)
        BY <2>3, <2>4 DEF TypeOK, IpcTypes
      <4> QED
        BY <2>1, <3>2, <4>5, <4>6
    <3> QED
      BY <3>1, <3>2
  <2>9. IpcTypes'
    BY <2>1, <2>8 DEF Receive, Stay, TypeOK, IpcTypes
  <2>10. HostTypes'
    <3>1. /\ controls \in Seq(Control) /\ Len(controls) \in Nat
          /\ results \in Seq(Result) /\ Len(results) \in Nat
      BY DEF TypeOK, HostTypes
    <3>2. controls' \in Seq(Control) /\ Len(controls') = Len(controls) + 1
      BY <2>1, <2>5, <3>1
    <3>3. Len(controls') + Len(results) <= MaximumControls
      BY <2>2, <3>1, <3>2, BoundsAssumption
    <3> QED
      BY <2>1, <3>2, <3>3 DEF Receive, Stay, TypeOK, HostTypes
  <2>11. HistoryTypes'
    BY <2>1 DEF Receive, Stay, TypeOK, HistoryTypes
  <2> QED
    BY <2>6, <2>7, <2>9, <2>10, <2>11 DEF TypeOK
<1> QED
  BY <1>3, <1>4

LEMMA EndSessionTypes == TypeOK /\ EndSession => TypeOK'
BY ClosedTypes DEF EndSession, TypeOK, IpcTypes

\* What a Pump relays are answers.
LEMMA RelayedTypes ==
  ASSUME TypeOK, NEW relayed \in Relayed
  PROVE  relayed \in Seq(Answers)
<1>1. PICK places \in [1..Cardinality(Waiting) -> Waiting] :
        relayed = [n \in 1..Cardinality(Waiting) |-> Relay(results[places[n]])]
  BY DEF Relayed
<1>2. Cardinality(Waiting) \in Nat
  <2>1. Len(results) \in Nat
    BY DEF TypeOK, HostTypes
  <2>2. IsFiniteSet(1..Len(results))
    BY <2>1, Interval
  <2>3. IsFiniteSet(Waiting)
    BY <2>2, FS_Subset DEF Waiting
  <2> QED
    BY <2>3, FS_CardinalityType
<1>3. \A k \in Waiting : Relay(results[k]) \in Answers
  <2> SUFFICES ASSUME NEW k \in Waiting PROVE Relay(results[k]) \in Answers
    OBVIOUS
  <2>1. results[k] \in Result
    BY DEF Waiting, TypeOK, HostTypes
  <2>2. results[k].player \in Ids
    BY <2>1 DEF Result
  <2> QED
    BY <2>2 DEF Relay, Msg, Answers
<1>4. \A n \in 1..Cardinality(Waiting) : Relay(results[places[n]]) \in Answers
  BY <1>3
<1> HIDE DEF Waiting
<1> QED
  BY <1>1, <1>2, <1>4

LEMMA PumpResultsTypes == TypeOK /\ PumpResults => TypeOK'
<1> SUFFICES ASSUME TypeOK, PumpResults PROVE TypeOK'
  OBVIOUS
<1>1. PICK relayed \in Relayed :
        IF Len(outgoing \o relayed) > MaxPendingControls
        THEN Close
        ELSE /\ outgoing' = outgoing \o relayed
             /\ joins' = {j \in joins : \A k \in 1..Len(results) : results[k].request # j[1]}
             /\ fault' = IF \E k \in 1..Len(results) :
                               ~Waits(results[k]) /\ results[k].kind # "leave"
                         THEN "unknown result" ELSE fault
             /\ io' = "evicting"
             /\ UNCHANGED <<phase, connection, closedBy, up, down, pendingReset, resetDone>>
  BY DEF PumpResults
<1>2. posted' \in BOOLEAN /\ phase = "Connected"
  BY DEF PumpResults, TypeOK, IpcTypes
<1>3. CASE Len(outgoing \o relayed) > MaxPendingControls
  BY <1>1, <1>2, <1>3, ClosedTypes DEF PumpResults
<1>4. CASE ~(Len(outgoing \o relayed) > MaxPendingControls)
  <2>1. GatewayTypes' /\ WireTypes'
    BY <1>1, <1>4 DEF PumpResults, TypeOK, GatewayTypes, WireTypes, gatewayVars
  <2>2. outgoing' \in Seq(Answers) /\ Len(outgoing') <= MaxPendingControls
    <3>1. relayed \in Seq(Answers) /\ outgoing \in Seq(Answers)
      BY RelayedTypes DEF TypeOK, IpcTypes
    <3>2. outgoing \o relayed \in Seq(Answers) /\ Len(outgoing \o relayed) \in Nat
      BY <3>1
    <3>3. outgoing' = outgoing \o relayed
      BY <1>1, <1>4
    <3> QED
      BY <1>4, <3>2, <3>3, BoundsAssumption
  <2>3. joins' \in SUBSET (Requests \X Ids) /\ Cardinality(joins') <= MaxPendingJoins
    <3>1. joins' \subseteq joins
      BY <1>1, <1>4
    <3>2. IsFiniteSet(joins)
      <4>1. IsFiniteSet(Requests) /\ IsFiniteSet(Ids)
        BY Interval, BoundsAssumption DEF Requests, Ids
      <4>2. IsFiniteSet(Requests \X Ids)
        BY <4>1, FS_Product
      <4> QED
        BY <4>2, FS_Subset DEF TypeOK, IpcTypes
    <3>3. /\ Cardinality(joins') <= Cardinality(joins)
          /\ Cardinality(joins') \in Nat /\ Cardinality(joins) \in Nat
      BY <3>1, <3>2, FS_Subset, FS_CardinalityType
    <3> QED
      BY <3>1, <3>3, BoundsAssumption DEF TypeOK, IpcTypes
  <2>4. IpcTypes'
    BY <1>1, <1>2, <1>4, <2>2, <2>3 DEF TypeOK, IpcTypes
  <2>5. HostTypes'
    <3>1. results' = <<>> /\ controls' = controls
      BY DEF PumpResults
    <3>2. Len(controls') + Len(results') <= MaximumControls /\ results' \in Seq(Result)
      BY <3>1, BoundsAssumption DEF TypeOK, HostTypes
    <3> QED
      BY <1>1, <1>4, <3>1, <3>2 DEF PumpResults, TypeOK, HostTypes
  <2>6. HistoryTypes'
    BY <1>1, <1>4 DEF PumpResults, TypeOK, HistoryTypes
  <2> QED
    BY <2>1, <2>4, <2>5, <2>6 DEF TypeOK
<1> QED
  BY <1>3, <1>4

LEMMA PumpEvictionsTypes == TypeOK /\ PumpEvictions => TypeOK'
<1> SUFFICES ASSUME TypeOK, PumpEvictions PROVE TypeOK'
  OBVIOUS
<1> DEFINE news == [k \in 1..Len(evictions) |-> Msg("evicted", evictions[k].player)]
           sent == outgoing \o news
<1>1. CASE Len(sent) > MaxPendingControls
  <2>1. Close
    BY <1>1 DEF PumpEvictions
  <2> QED
    BY <2>1, ClosedTypes DEF PumpEvictions, TypeOK, IpcTypes
<1>2. CASE ~(Len(sent) > MaxPendingControls)
  <2>1. /\ outgoing' = sent /\ io' = "idle"
        /\ UNCHANGED <<phase, connection, closedBy, joins, up, down, pendingReset,
                       resetDone, fault>>
    BY <1>2 DEF PumpEvictions
  <2>2. GatewayTypes' /\ WireTypes'
    BY <2>1 DEF PumpEvictions, TypeOK, GatewayTypes, WireTypes, gatewayVars
  <2>3. news \in Seq(Answers)
    <3>1. Len(evictions) \in Nat /\ \A k \in 1..Len(evictions) : evictions[k] \in Seats
      BY DEF TypeOK, HostTypes
    <3>2. \A k \in 1..Len(evictions) : Msg("evicted", evictions[k].player) \in Answers
      BY <3>1 DEF Seats, Msg, Answers
    <3> QED
      BY <3>1, <3>2
  <2>4. outgoing' \in Seq(Answers) /\ Len(outgoing') <= MaxPendingControls
    <3>1. outgoing \in Seq(Answers)
      BY DEF TypeOK, IpcTypes
    <3> HIDE DEF news
    <3>2. sent \in Seq(Answers) /\ Len(sent) \in Nat
      BY <2>3, <3>1
    <3> QED
      BY <1>2, <2>1, <3>2, BoundsAssumption
  <2>5. IpcTypes'
    BY <2>1, <2>4 DEF PumpEvictions, TypeOK, IpcTypes
  <2>6. HostTypes'
    <3>1. evictions' = <<>> /\ <<>> \in Seq(Seats)
      BY DEF PumpEvictions
    <3> QED
      BY <2>1, <3>1 DEF PumpEvictions, TypeOK, HostTypes
  <2>7. HistoryTypes'
    BY <2>1 DEF PumpEvictions, TypeOK, HistoryTypes
  <2> QED
    BY <2>2, <2>5, <2>6, <2>7 DEF TypeOK
<1> QED
  BY <1>1, <1>2

LEMMA WriteTypes == TypeOK /\ Write => TypeOK'
<1> SUFFICES ASSUME TypeOK, Write PROVE TypeOK'
  OBVIOUS
<1>1. connection \in Generations
  BY BoundsAssumption DEF Write, TypeOK, IpcTypes, Generations
<1>2. /\ outgoing \in Seq(Answers) /\ Head(outgoing) \in Answers
      /\ Tail(outgoing) \in Seq(Answers) /\ Len(Tail(outgoing)) = Len(outgoing) - 1
  BY DEF Write, TypeOK, IpcTypes
<1>3. GatewayTypes'
  BY DEF Write, TypeOK, GatewayTypes, gatewayVars
<1>4. WireTypes'
  <2>1. down[connection] \in Seq(Answers)
    BY <1>1 DEF TypeOK, WireTypes
  <2>2. Append(down[connection], Head(outgoing)) \in Seq(Answers)
    BY <1>2, <2>1
  <2> QED
    BY <1>1, <2>2 DEF Write, TypeOK, WireTypes
<1>5. IpcTypes'
  <2>1. outgoing' \in Seq(Answers) /\ Len(outgoing') <= MaxPendingControls
    BY <1>2, BoundsAssumption DEF Write, TypeOK, IpcTypes
  <2> QED
    BY <2>1 DEF Write, TypeOK, IpcTypes
<1>6. HostTypes' /\ HistoryTypes'
  BY DEF Write, TypeOK, HostTypes, HistoryTypes, hostVars, historyVars
<1> QED
  BY <1>3, <1>4, <1>5, <1>6 DEF TypeOK

LEMMA StepResetTypes == TypeOK /\ StepReset => TypeOK'
<1> SUFFICES ASSUME TypeOK, StepReset PROVE TypeOK'
  OBVIOUS
<1>1. GatewayTypes' /\ WireTypes' /\ HistoryTypes'
  BY DEF StepReset, TypeOK, GatewayTypes, WireTypes, HistoryTypes, gatewayVars, wireVars,
         historyVars
<1>2. IpcTypes'
  BY DEF StepReset, TypeOK, IpcTypes
<1>3. HostTypes'
  <2>1. Cardinality({}) <= MaxPlayers /\ 0 <= MaximumControls
    BY FS_EmptySet, BoundsAssumption
  <2>2. Len(<<>>) + Len(<<>>) <= MaximumControls
    BY BoundsAssumption
  <2>3. /\ controls' = <<>> /\ results' = <<>> /\ evictions' = <<>> /\ members' = {}
        /\ pendingReset' \in BOOLEAN /\ resetDone' \in BOOLEAN /\ stepping' \in BOOLEAN
    BY DEF StepReset, TypeOK, HostTypes
  <2>4. <<>> \in Seq(Control) /\ <<>> \in Seq(Result) /\ <<>> \in Seq(Seats)
    OBVIOUS
  <2> QED
    BY <2>1, <2>2, <2>3, <2>4 DEF HostTypes
<1> QED
  BY <1>1, <1>2, <1>3 DEF TypeOK

\* There are finitely many players.
LEMMA SeatsFinite == IsFiniteSet(Seats)
<1> DEFINE f == [x \in Ids \X Generations |-> [player |-> x[1], from |-> x[2]]]
<1>1. IsFiniteSet(Ids \X Generations)
  <2>1. IsFiniteSet(Ids) /\ IsFiniteSet(Generations)
    BY Interval, BoundsAssumption DEF Ids, Generations
  <2> QED
    BY <2>1, FS_Product
<1>2. Seats \subseteq {f[x] : x \in Ids \X Generations}
  <2> SUFFICES ASSUME NEW s \in Seats
               PROVE  s \in {f[x] : x \in Ids \X Generations}
    OBVIOUS
  <2>1. <<s.player, s.from>> \in Ids \X Generations
    BY DEF Seats
  <2>2. s = [player |-> s.player, from |-> s.from]
    BY DEF Seats
  <2> QED
    BY <2>1, <2>2
<1>3. f = [x \in Ids \X Generations |-> f[x]]
  OBVIOUS
<1> DEFINE Pairs == Ids \X Generations
<1> HIDE DEF f, Pairs
<1>4. IsFiniteSet({f[x] : x \in Pairs})
  <2>1. IsFiniteSet(Pairs) /\ f = [x \in Pairs |-> f[x]]
    BY <1>1, <1>3 DEF Pairs
  <2> QED
    BY <2>1, Image, Zenon
<1> QED
  BY <1>2, <1>4, FS_Subset DEF Pairs

LEMMA StepControlTypes == TypeOK /\ StepControl => TypeOK'
<1> SUFFICES ASSUME TypeOK, StepControl PROVE TypeOK'
  OBVIOUS
<1> DEFINE c == Head(controls)
           seat == [player |-> c.player, from |-> c.from]
           Answer(accepted) == [request |-> c.request, player |-> c.player,
                                kind |-> c.kind, from |-> c.from, accepted |-> accepted]
<1>1. /\ controls \in Seq(Control) /\ controls # <<>> /\ results \in Seq(Result)
      /\ Len(controls) + Len(results) <= MaximumControls
      /\ members \in SUBSET Seats /\ Cardinality(members) <= MaxPlayers
      /\ seated \in SUBSET Seats /\ refusedFull \in SUBSET Generations
  BY DEF StepControl, TypeOK, HostTypes, HistoryTypes
<1>2. c \in Control /\ controls' \in Seq(Control) /\ Len(controls') = Len(controls) - 1
  BY <1>1 DEF StepControl
<1>3. seat \in Seats /\ c.from \in Generations
  BY <1>2 DEF Control, Seats
<1>4. IsFiniteSet(members) /\ Cardinality(members) \in Nat
  BY <1>1, SeatsFinite, FS_Subset, FS_CardinalityType
<1>5. /\ \E accepted \in BOOLEAN : results' = Append(results, Answer(accepted))
      /\ \/ /\ members' = {m \in members : m.player # c.player}
            /\ UNCHANGED <<seated, refusedFull>>
         \/ /\ members' = IF Present(c.player) THEN members ELSE members \cup {seat}
            /\ Present(c.player) \/ ~Full
            /\ seated' = seated \cup members' /\ UNCHANGED refusedFull
         \/ /\ refusedFull' = IF Full THEN refusedFull \cup {c.from} ELSE refusedFull
            /\ UNCHANGED <<members, seated>>
  BY DEF StepControl
<1>6. results' \in Seq(Result) /\ Len(controls') + Len(results') <= MaximumControls
  <2>1. PICK accepted \in BOOLEAN : results' = Append(results, Answer(accepted))
    BY <1>5
  <2>2. Answer(accepted) \in Result
    BY <1>2 DEF Control, Result
  <2> HIDE DEF Answer, c
  <2>3. results' \in Seq(Result) /\ Len(results') = Len(results) + 1
    BY <1>1, <2>1, <2>2
  <2> QED
    BY <1>1, <1>2, <2>3, BoundsAssumption
<1>7. members' \in SUBSET Seats /\ Cardinality(members') <= MaxPlayers
  <2>1. CASE members' \subseteq members
    <3>1. Cardinality(members') <= Cardinality(members) /\ Cardinality(members') \in Nat
      BY <1>4, <2>1, FS_Subset, FS_CardinalityType
    <3> QED
      BY <1>1, <1>4, <2>1, <3>1, BoundsAssumption
  <2>2. CASE members' = members \cup {seat} /\ ~Full
    <3>1. Cardinality(members') \in {Cardinality(members), Cardinality(members) + 1}
      BY <1>4, <2>2, FS_AddElement
    <3> QED
      BY <1>1, <1>3, <1>4, <2>2, <3>1, BoundsAssumption DEF Full
  <2> QED
    BY <1>5, <2>1, <2>2
<1>8. seated' \in SUBSET Seats /\ refusedFull' \in SUBSET Generations
  BY <1>1, <1>3, <1>5, <1>7
<1>9. GatewayTypes' /\ WireTypes' /\ IpcTypes'
  BY DEF StepControl, TypeOK, GatewayTypes, WireTypes, IpcTypes, gatewayVars, wireVars,
         ipcVars
<1>10. HostTypes'
  BY <1>2, <1>6, <1>7 DEF StepControl, TypeOK, HostTypes
<1>11. HistoryTypes'
  BY <1>8 DEF StepControl, TypeOK, HistoryTypes
<1> QED
  BY <1>9, <1>10, <1>11 DEF TypeOK

LEMMA StepEndTypes == TypeOK /\ StepEnd => TypeOK'
<1> SUFFICES ASSUME TypeOK, StepEnd PROVE TypeOK'
  OBVIOUS
<1>1. PICK evicted \in {{}} \cup {{m} : m \in members} :
        /\ evictions' = IF evicted = {} THEN evictions
                        ELSE Append(evictions, CHOOSE m \in evicted : TRUE)
        /\ members' = members \ evicted
  BY DEF StepEnd
<1>2. evictions' \in Seq(Seats)
  <2>1. evictions \in Seq(Seats) /\ members \subseteq Seats
    BY DEF TypeOK, HostTypes
  <2>2. CASE evicted = {}
    BY <1>1, <2>1, <2>2
  <2>3. CASE evicted # {}
    <3>1. (CHOOSE m \in evicted : TRUE) \in evicted /\ evicted \subseteq members
      BY <2>3
    <3> QED
      BY <1>1, <2>1, <2>3, <3>1
  <2> QED
    BY <2>2, <2>3
<1>3. members' \in SUBSET Seats /\ Cardinality(members') <= MaxPlayers
  <2>1. members \subseteq Seats /\ members' \subseteq members
    BY <1>1 DEF TypeOK, HostTypes
  <2>2. IsFiniteSet(members) /\ Cardinality(members) \in Nat
    BY <2>1, SeatsFinite, FS_Subset, FS_CardinalityType
  <2>3. Cardinality(members') <= Cardinality(members) /\ Cardinality(members') \in Nat
    BY <2>1, <2>2, FS_Subset, FS_CardinalityType
  <2> QED
    BY <2>1, <2>2, <2>3, BoundsAssumption DEF TypeOK, HostTypes
<1>4. GatewayTypes' /\ WireTypes' /\ HistoryTypes'
  BY DEF StepEnd, TypeOK, GatewayTypes, WireTypes, HistoryTypes, gatewayVars, wireVars,
         historyVars
<1>5. IpcTypes' /\ HostTypes'
  BY <1>2, <1>3 DEF StepEnd, TypeOK, IpcTypes, HostTypes
<1> QED
  BY <1>4, <1>5 DEF TypeOK

LEMMA NextTypes == TypeOK /\ [Next]_vars => TypeOK'
<1> SUFFICES ASSUME TypeOK, [Next]_vars PROVE TypeOK'
  OBVIOUS
<1>1. CASE GatewayNext
  BY <1>1, StartGatewayTypes, ReadReadyTypes, StopGatewayTypes, ReserveTypes,
     FirstHelloTypes, EndReservationTypes, ReadRuntimeTypes, WriteQueueTypes,
     FailLinkTypes, RuntimeFailedTypes DEF GatewayNext
<1>2. CASE IpcNext
  BY <1>2, AcceptTypes, CheckResetTypes, ReceiveTypes, EndSessionTypes,
     PumpResultsTypes, PumpEvictionsTypes, WriteTypes DEF IpcNext
<1>3. CASE HostNext
  BY <1>3, StepResetTypes, StepControlTypes, StepEndTypes DEF HostNext
<1>4. CASE UNCHANGED vars
  <2>1. UNCHANGED <<gatewayVars, wireVars, ipcVars, hostVars, historyVars>>
    BY <1>4 DEF vars
  <2>2. GatewayTypes' /\ WireTypes' /\ IpcTypes'
    BY <2>1 DEF gatewayVars, wireVars, ipcVars, TypeOK, GatewayTypes, WireTypes, IpcTypes
  <2>3. HostTypes' /\ HistoryTypes'
    BY <2>1 DEF hostVars, historyVars, TypeOK, HostTypes, HistoryTypes
  <2> QED
    BY <2>2, <2>3 DEF TypeOK
<1> QED
  BY <1>1, <1>2, <1>3, <1>4 DEF Next

LEMMA InitTypes == Init => TypeOK
<1> SUFFICES ASSUME Init PROVE TypeOK
  OBVIOUS
<1>1. /\ Cardinality({}) = 0 /\ 0 <= MaxPlayers /\ 0 <= MaxPendingJoins
      /\ 0 <= MaxQueuedControls /\ 0 <= MaxPendingControls /\ 0 <= MaximumControls
      /\ 0 \in 0..MaxGenerations /\ 0 \in 0..MaxIds /\ Len(<<>>) = 0 /\ 0 + 0 = 0
      /\ <<>> \in Seq(Asks) /\ <<>> \in Seq(Answers) /\ <<>> \in Seq(Control)
      /\ <<>> \in Seq(Result) /\ <<>> \in Seq(Seats)
  BY FS_EmptySet, BoundsAssumption
<1>2. GatewayTypes
  BY <1>1 DEF Init, GatewayTypes
<1>3. WireTypes
  BY DEF Init, WireTypes
<1>4. IpcTypes
  BY <1>1 DEF Init, IpcTypes
<1>5. HostTypes
  BY <1>1 DEF Init, HostTypes
<1>6. HistoryTypes
  BY DEF Init, HistoryTypes
<1> QED
  BY <1>2, <1>3, <1>4, <1>5, <1>6 DEF TypeOK

\* Every variable keeps its type and every queue of controls, results and joins its
\* bound, however many processes, players and queued controls there are: in particular
\* the host never holds more than MaximumControls (QueueControl) and the session never more
\* joins and controls than it allows.
THEOREM RoomTypeCorrect == Spec => []TypeOK
BY InitTypes, NextTypes, PTL DEF Spec

----------------------------------------------------------------------------
(* The reset handshake.                                                    *)

\* The Gateway touches nothing of the host but, in ReadRuntime, the fault
\* of another kind.
LEMMA GatewayHandshake ==
  ASSUME TypeOK, Handshake, GatewayNext
  PROVE  Handshake'
<1>1. UNCHANGED <<phase, connection, pendingReset, resetDone, controls, results, evictions,
                  members>>
  BY DEF GatewayNext, StartGateway, ReadReady, StopGateway, Reserve, FirstHello,
         EndReservation, ReadRuntime, WriteQueue, FailLink, RuntimeFailed, ipcVars, hostVars
<1>2. fault' = fault \/ fault' = "second join result"
  <2>1. CASE ReadRuntime
    BY <2>1 DEF ReadRuntime, Answered
  <2>2. CASE ~ReadRuntime
    BY <2>2 DEF GatewayNext, StartGateway, ReadReady, StopGateway, Reserve, FirstHello,
         EndReservation, WriteQueue, FailLink, RuntimeFailed, historyVars
  <2> QED
    BY <2>1, <2>2
<1> QED
  BY <1>1, <1>2 DEF Handshake, HostEmpty, HostOf

\* Close requests the reset of a session in which none was pending.
LEMMA CloseHandshake ==
  ASSUME TypeOK, Handshake, phase = "Connected", Close
  PROVE  Handshake'
BY DEF Close, RequestReset, Handshake

LEMMA AcceptHandshake == Handshake /\ Accept => Handshake'
BY DEF Handshake, Accept, RequestReset, HostEmpty

\* Only a completed reset leaves Resetting and Closing, and the host is empty then.
LEMMA CheckResetHandshake == TypeOK /\ Handshake /\ CheckReset => Handshake'
<1> SUFFICES ASSUME TypeOK, Handshake, CheckReset PROVE Handshake'
  OBVIOUS
<1>1. UNCHANGED <<connection, pendingReset, controls, results, evictions, members, fault>>
  BY DEF CheckReset, historyVars
<1>2. CASE ~resetDone
  BY <1>1, <1>2 DEF CheckReset, Handshake, HostEmpty, HostOf
<1>3. CASE resetDone
  <2>1. HostEmpty /\ ~pendingReset
    BY <1>3 DEF CheckReset, Handshake, TypeOK, HostTypes
  <2>2. HostEmpty' /\ ~pendingReset' /\ ~resetDone' /\ HostOf(connection)'
    BY <1>1, <1>3, <2>1 DEF CheckReset, HostEmpty, HostOf
  <2> QED
    BY <1>1, <1>3, <2>2 DEF CheckReset, Handshake
<1> QED
  BY <1>2, <1>3

\* A control that is queued carries the connection that is open.
LEMMA ReceiveHandshake == TypeOK /\ Handshake /\ Receive => Handshake'
<1> SUFFICES ASSUME TypeOK, Handshake, Receive PROVE Handshake'
  OBVIOUS
<1>1. CASE Close
  BY <1>1, CloseHandshake DEF Receive
<1>2. CASE ~Close
  <2>1. /\ UNCHANGED <<phase, connection, pendingReset, resetDone, results, evictions,
                       members, fault>>
        /\ phase = "Connected"
        /\ \E c : controls' = Append(controls, c) /\ c.from = connection
    <3>1. Stay /\ controls' = Append(controls,
                    [request |-> NewRequest, player |-> Head(up[connection]).player,
                     kind |-> Head(up[connection]).kind, from |-> connection])
      BY <1>2 DEF Receive
    <3> QED
      BY <3>1 DEF Receive, Stay
  <2>2. PICK c : controls' = Append(controls, c) /\ c.from = connection
    BY <2>1
  <2>3. controls \in Seq(Control) /\ HostOf(connection)
    BY <2>1 DEF Handshake, TypeOK, HostTypes
  <2>4. \A k \in 1..Len(controls') : controls'[k].from = connection
    BY <2>2, <2>3 DEF HostOf
  <2> QED
    BY <2>1, <2>3, <2>4 DEF Handshake, HostOf
<1> QED
  BY <1>1, <1>2

LEMMA PumpHandshake ==
  ASSUME TypeOK, Handshake, PumpResults \/ PumpEvictions
  PROVE  Handshake'
<1>1. phase = "Connected"
  BY DEF PumpResults, PumpEvictions
<1>2. CASE Close
  BY <1>1, <1>2, CloseHandshake
<1>3. CASE ~Close
  <2>1. /\ UNCHANGED <<phase, connection, pendingReset, resetDone, controls, members>>
        /\ results' \in {results, <<>>} /\ evictions' \in {evictions, <<>>}
        /\ fault' \in {fault, "unknown result"}
    BY <1>3 DEF PumpResults, PumpEvictions
  <2>2. HostOf(connection)'
    <3>1. HostOf(connection)
      BY <1>1 DEF Handshake
    <3>2. \A k \in 1..Len(results') : results'[k].from = connection
      <4>1. CASE results' = results
        BY <3>1, <4>1 DEF HostOf
      <4>2. CASE results' = <<>>
        BY <4>2
      <4> QED
        BY <2>1, <4>1, <4>2, Zenon
    <3>3. \A k \in 1..Len(evictions') : evictions'[k].from = connection
      <4>1. CASE evictions' = evictions
        BY <3>1, <4>1 DEF HostOf
      <4>2. CASE evictions' = <<>>
        BY <4>2
      <4> QED
        BY <2>1, <4>1, <4>2, Zenon
    <3> QED
      BY <2>1, <3>1, <3>2, <3>3 DEF HostOf
  <2> QED
    BY <1>1, <2>1, <2>2 DEF Handshake
<1> QED
  BY <1>2, <1>3

LEMMA StepResetHandshake == TypeOK /\ Handshake /\ StepReset => Handshake'
<1> SUFFICES ASSUME TypeOK, Handshake, StepReset PROVE Handshake'
  OBVIOUS
<1>1. HostEmpty' /\ ~pendingReset' /\ resetDone' /\ UNCHANGED <<phase, connection, fault>>
  BY DEF StepReset, HostEmpty, historyVars
<1>2. phase # "Connected"
  BY DEF StepReset, Handshake
<1> QED
  BY <1>1, <1>2 DEF Handshake

\* A step seats and answers the players of the controls it was given.
LEMMA StepControlHost ==
  ASSUME TypeOK, StepControl, NEW g, HostOf(g)
  PROVE  HostOf(g)'
<1> DEFINE c == Head(controls)
           seat == [player |-> c.player, from |-> c.from]
           Answer(accepted) == [request |-> c.request, player |-> c.player,
                                kind |-> c.kind, from |-> c.from, accepted |-> accepted]
<1>1. controls \in Seq(Control) /\ results \in Seq(Result) /\ controls # <<>> /\ UNCHANGED evictions
  BY DEF StepControl, TypeOK, HostTypes
<1>2. c.from = g
  BY <1>1 DEF HostOf
<1>3. \A k \in 1..Len(controls') : controls'[k].from = g
  <2>1. controls' = Tail(controls)
    BY DEF StepControl
  <2> QED
    BY <1>1, <2>1 DEF HostOf
<1>4. \A k \in 1..Len(results') : results'[k].from = g
  <2>1. PICK accepted \in BOOLEAN : results' = Append(results, Answer(accepted))
    BY DEF StepControl
  <2>2. Answer(accepted).from = g
    BY <1>2
  <2> HIDE DEF Answer
  <2> QED
    BY <1>1, <2>1, <2>2 DEF HostOf
<1>5. \A m \in members' : m.from = g
  <2>1. members' \subseteq members \cup {seat}
    BY DEF StepControl
  <2>2. seat.from = g
    BY <1>2
  <2> QED
    BY <2>1, <2>2 DEF HostOf
<1> QED
  BY <1>1, <1>3, <1>4, <1>5 DEF HostOf

\* With an empty host there is no control.
LEMMA StepControlHandshake == TypeOK /\ Handshake /\ StepControl => Handshake'
<1> SUFFICES ASSUME TypeOK, Handshake, StepControl PROVE Handshake'
  OBVIOUS
<1>1. /\ UNCHANGED <<phase, connection, pendingReset, resetDone, evictions, fault>>
      /\ controls # <<>> /\ ~HostEmpty
  BY DEF StepControl, ipcVars, HostEmpty
<1>2. phase # "Accepting" /\ phase # "Resetting" /\ ~(phase = "Closing" /\ resetDone)
  BY <1>1 DEF Handshake
<1>3. CASE phase = "Closing"
  BY <1>1, <1>2, <1>3 DEF Handshake
<1>4. CASE phase = "Connected"
  <2>1. HostOf(connection)'
    BY <1>1, <1>4, StepControlHost DEF Handshake, HostOf
  <2> QED
    BY <1>1, <1>4, <2>1 DEF Handshake
<1> QED
  BY <1>2, <1>3, <1>4 DEF TypeOK, IpcTypes

\* An eviction names a player of the Match.
LEMMA StepEndHost ==
  ASSUME TypeOK, StepEnd, NEW g, HostOf(g)
  PROVE  HostOf(g)'
<1>1. UNCHANGED <<controls, results>> /\ evictions \in Seq(Seats)
  BY DEF StepEnd, TypeOK, HostTypes
<1>2. PICK evicted \in {{}} \cup {{m} : m \in members} :
        /\ evictions' = IF evicted = {} THEN evictions
                        ELSE Append(evictions, CHOOSE m \in evicted : TRUE)
        /\ members' = members \ evicted
  BY DEF StepEnd
<1>3. CASE evicted = {}
  BY <1>1, <1>2, <1>3 DEF HostOf
<1>4. CASE evicted # {}
  <2> DEFINE gone == CHOOSE m \in evicted : TRUE
  <2>1. gone \in members
    BY <1>2, <1>4
  <2>2. gone.from = g
    BY <2>1 DEF HostOf
  <2> HIDE DEF gone
  <2>3. evictions' = Append(evictions, gone)
    BY <1>2, <1>4 DEF gone
  <2>4. \A k \in 1..Len(evictions') : evictions'[k].from = g
    BY <1>1, <2>2, <2>3 DEF HostOf
  <2> QED
    BY <1>1, <1>2, <2>4 DEF HostOf
<1> QED
  BY <1>3, <1>4

LEMMA StepEndHandshake == TypeOK /\ Handshake /\ StepEnd => Handshake'
<1> SUFFICES ASSUME TypeOK, Handshake, StepEnd PROVE Handshake'
  OBVIOUS
<1>1. UNCHANGED <<phase, connection, pendingReset, resetDone, controls, results, fault>>
  BY DEF StepEnd, historyVars
<1>2. HostEmpty => HostEmpty'
  <2>1. members = {} => evictions' = evictions /\ members' = {}
    BY DEF StepEnd
  <2> QED
    BY <1>1, <2>1 DEF HostEmpty
<1>3. phase = "Connected" => HostOf(connection)'
  BY <1>1, StepEndHost DEF Handshake, HostOf
<1> QED
  BY <1>1, <1>2, <1>3 DEF Handshake

LEMMA NextHandshake == TypeOK /\ Handshake /\ [Next]_vars => Handshake'
<1> SUFFICES ASSUME TypeOK, Handshake, [Next]_vars PROVE Handshake'
  OBVIOUS
<1>1. CASE GatewayNext
  BY <1>1, GatewayHandshake
<1>2. CASE EndSession
  BY <1>2, CloseHandshake DEF EndSession
<1>3. CASE Write
  BY <1>3 DEF Write, hostVars, historyVars, Handshake, HostEmpty, HostOf
<1>4. CASE UNCHANGED vars
  BY <1>4 DEF vars, ipcVars, hostVars, historyVars, Handshake, HostEmpty, HostOf
<1> QED
  BY <1>1, <1>2, <1>3, <1>4, AcceptHandshake, CheckResetHandshake, ReceiveHandshake,
     PumpHandshake, StepResetHandshake, StepControlHandshake, StepEndHandshake
     DEF Next, IpcNext, HostNext

LEMMA AlwaysHandshake == Spec => [](TypeOK /\ Handshake)
<1>1. Init => TypeOK /\ Handshake
  BY InitTypes DEF Init, Handshake, HostEmpty
<1>2. TypeOK /\ Handshake /\ [Next]_vars => (TypeOK /\ Handshake)'
  BY NextTypes, NextHandshake
<1> QED
  BY <1>1, <1>2, PTL DEF Spec

\* Players of two Gateway processes never meet: what the Match holds while it serves a
\* connection came by that connection, and it holds nothing when it accepts
\* the next one, for any number of processes and however the resets, steps
\* and disconnections interleave.
THEOREM OwnGeneration == Spec => []OnlyOwnGeneration
<1>1. TypeOK /\ Handshake => OnlyOwnGeneration
  <2> SUFFICES ASSUME TypeOK, Handshake, phase # "Closing"
               PROVE  {m.from : m \in members}
                        \cup {controls[k].from : k \in 1..Len(controls)}
                        \cup {results[k].from : k \in 1..Len(results)}
                        \cup {evictions[k].from : k \in 1..Len(evictions)}
                        \subseteq {connection}
    BY DEF OnlyOwnGeneration
  <2>1. HostOf(connection)
    <3>1. HostEmpty => HostOf(connection)
      BY DEF HostEmpty, HostOf
    <3> QED
      BY <3>1 DEF Handshake, TypeOK, IpcTypes
  <2> QED
    BY <2>1 DEF HostOf
<1> QED
  BY <1>1, AlwaysHandshake, PTL

----------------------------------------------------------------------------
(* One Join of a player, wherever it is.                                   *)

Has(s, M) == \E k \in 1..Len(s) : s[k] \in M
Once(s, M) == \A j, k \in 1..Len(s) : s[j] \in M /\ s[k] \in M => j = k

JoinAsk(i) == {Msg("join", i)}
JoinAnswer(i) == {Msg("joined", i), Msg("rejected", i)}
JoinControl(i, g) == {c \in Control : c.kind = "join" /\ c.player = i /\ c.from = g}
JoinResult(i, g) == {r \in Result : r.kind = "join" /\ r.player = i /\ r.from = g}

\* The places of the Join of player i of process g, and then of its answer.
Queued(i, g) == g = generation /\ Has(queue, JoinAsk(i))
Written(i, g) == Has(up[g], JoinAsk(i))
Taken(i, g) == Has(controls, JoinControl(i, g))
Decided(i, g) == Has(results, JoinResult(i, g))
Relaying(i, g) == g = connection /\ Has(outgoing, JoinAnswer(i))
Replied(i, g) == Has(down[g], JoinAnswer(i))
Sat(i, g) == [player |-> i, from |-> g] \in seated

\* No Join of the player has been sent yet; the player is active.
Unasked(i, g) ==
  g > generation \/ (g = generation /\ (i > nextPlayer \/ reservation[i] = "reserved"))
Settled(i, g) == g = generation /\ reservation[i] = "active"

\* In one place at most: whoever is in a place is in none of those behind it.
Apart(i, g) ==
  /\ Unasked(i, g) => ~Queued(i, g) /\ ~Written(i, g) /\ ~Taken(i, g) /\ ~Decided(i, g)
                        /\ ~Relaying(i, g) /\ ~Replied(i, g) /\ ~Sat(i, g)
  /\ Queued(i, g) => ~Written(i, g) /\ ~Taken(i, g) /\ ~Decided(i, g)
                        /\ ~Relaying(i, g) /\ ~Replied(i, g) /\ ~Sat(i, g)
  /\ Written(i, g) => ~Taken(i, g) /\ ~Decided(i, g) /\ ~Relaying(i, g) /\ ~Replied(i, g) /\ ~Sat(i, g)
  /\ Taken(i, g) => ~Decided(i, g) /\ ~Relaying(i, g) /\ ~Replied(i, g) /\ ~Sat(i, g)
  /\ Decided(i, g) => ~Relaying(i, g) /\ ~Replied(i, g)
  /\ Relaying(i, g) => ~Replied(i, g)
  /\ Settled(i, g) => ~Queued(i, g) /\ ~Written(i, g) /\ ~Taken(i, g) /\ ~Decided(i, g)
                        /\ ~Relaying(i, g) /\ ~Replied(i, g)

\* And there only once.
Singles(i, g) ==
  /\ g = generation => Once(queue, JoinAsk(i))
  /\ Once(up[g], JoinAsk(i))
  /\ Once(controls, JoinControl(i, g))
  /\ Once(results, JoinResult(i, g))
  /\ g = connection => Once(outgoing, JoinAnswer(i))
  /\ Once(down[g], JoinAnswer(i))

OneJoin == \A g \in Generations, i \in Ids : Apart(i, g) /\ Singles(i, g)

\* Players are numbered as they are reserved; a process that is down and a session that is
\* over have nothing; and a session waits for the results of exactly the Joins among its
\* controls and results.
Awaited ==
  /\ \A i \in Ids : reservation[i] # "none" => i <= nextPlayer
  /\ gateway = "down" => queue = <<>> /\ reservation = NoReservation
  /\ phase # "Connected" => outgoing = <<>> /\ joins = {}
  /\ phase = "Connected" =>
       /\ \A k \in 1..Len(controls) : controls[k].kind = "join" <=> Waits(controls[k])
       /\ \A k \in 1..Len(results) : results[k].kind = "join" <=> Waits(results[k])
       /\ \A j, k \in 1..Len(controls) : controls[j].request = controls[k].request => j = k
       /\ \A j, k \in 1..Len(results) : results[j].request = results[k].request => j = k
       /\ \A j \in 1..Len(controls), k \in 1..Len(results) : controls[j].request # results[k].request

LEMMA Appended ==
  ASSUME NEW S, NEW s \in Seq(S), NEW e, NEW M
  PROVE  /\ Has(Append(s, e), M) => Has(s, M) \/ e \in M
         /\ Once(s, M) /\ (e \in M => ~Has(s, M)) => Once(Append(s, e), M)
<1>1. /\ Len(s) \in Nat /\ Len(Append(s, e)) = Len(s) + 1
      /\ \A k \in 1..Len(Append(s, e)) : Append(s, e)[k] = IF k = Len(s) + 1 THEN e ELSE s[k]
  OBVIOUS
<1>2. \A k \in 1..Len(Append(s, e)) : k = Len(s) + 1 \/ k \in 1..Len(s)
  BY <1>1
<1> QED
  BY <1>1, <1>2 DEF Has, Once

LEMMA Shortened ==
  ASSUME NEW S, NEW s \in Seq(S), s # <<>>, NEW M
  PROVE  /\ Has(Tail(s), M) => Has(s, M)
         /\ Head(s) \in M => Has(s, M)
         /\ Once(s, M) => Once(Tail(s), M)
         /\ Once(s, M) /\ Head(s) \in M => ~Has(Tail(s), M)
<1>1. /\ Len(s) \in Nat /\ Len(s) > 0 /\ Len(Tail(s)) = Len(s) - 1 /\ Head(s) = s[1]
      /\ \A k \in 1..Len(Tail(s)) : Tail(s)[k] = s[k + 1]
  OBVIOUS
<1>2. \A k \in 1..Len(Tail(s)) : k + 1 \in 1..Len(s) /\ k + 1 # 1 /\ k \in Nat
  BY <1>1
<1>3. 1 \in 1..Len(s)
  BY <1>1
<1> HIDE DEF Has, Once
<1>4. Has(Tail(s), M) => Has(s, M)
  BY <1>1, <1>2 DEF Has
<1>5. Once(s, M) => Once(Tail(s), M)
  <2> SUFFICES ASSUME Once(s, M), NEW j \in 1..Len(Tail(s)), NEW k \in 1..Len(Tail(s)),
                      Tail(s)[j] \in M, Tail(s)[k] \in M
               PROVE  j = k
    BY DEF Once
  <2>1. j + 1 = k + 1
    BY <1>1, <1>2 DEF Once
  <2> QED
    BY <1>2, <2>1
<1>6. Once(s, M) /\ Head(s) \in M => ~Has(Tail(s), M)
  <2> SUFFICES ASSUME Once(s, M), s[1] \in M, NEW k \in 1..Len(Tail(s)), Tail(s)[k] \in M
               PROVE  FALSE
    BY <1>1 DEF Has
  <2> QED
    BY <1>1, <1>2, <1>3 DEF Once
<1> QED
  BY <1>1, <1>3, <1>4, <1>5, <1>6 DEF Has

LEMMA Linked ==
  ASSUME NEW S, NEW s \in Seq(S), NEW t \in Seq(S), NEW M
  PROVE  /\ Has(s \o t, M) => Has(s, M) \/ Has(t, M)
         /\ Once(s, M) /\ Once(t, M) /\ (Has(t, M) => ~Has(s, M)) => Once(s \o t, M)
<1>1. /\ Len(s) \in Nat /\ Len(t) \in Nat /\ Len(s \o t) = Len(s) + Len(t)
      /\ \A k \in 1..Len(s \o t) : (s \o t)[k] = IF k <= Len(s) THEN s[k] ELSE t[k - Len(s)]
  OBVIOUS
<1>2. \A k \in 1..Len(s \o t) : /\ k \in Nat
                                /\ (k <= Len(s) /\ k \in 1..Len(s)) \/ (k > Len(s) /\ k - Len(s) \in 1..Len(t))
  BY <1>1
<1>3. Has(s \o t, M) => Has(s, M) \/ Has(t, M)
  BY <1>1, <1>2 DEF Has
<1>4. Once(s, M) /\ Once(t, M) /\ (Has(t, M) => ~Has(s, M)) => Once(s \o t, M)
  <2> SUFFICES ASSUME Once(s, M), Once(t, M), Has(t, M) => ~Has(s, M),
                      NEW j \in 1..Len(s \o t), NEW k \in 1..Len(s \o t), (s \o t)[j] \in M, (s \o t)[k] \in M
               PROVE  j = k
    BY DEF Once
  <2>1. CASE j <= Len(s) /\ k <= Len(s)
    BY <1>1, <1>2, <2>1 DEF Once
  <2>2. CASE j > Len(s) /\ k > Len(s)
    <3>1. j - Len(s) = k - Len(s)
      BY <1>1, <1>2, <2>2 DEF Once
    <3> QED
      BY <1>1, <1>2, <3>1
  <2>3. CASE (j <= Len(s) /\ k > Len(s)) \/ (j > Len(s) /\ k <= Len(s))
    <3>1. Has(s, M) /\ Has(t, M)
      BY <1>1, <1>2, <2>3 DEF Has
    <3> QED
      BY <3>1
  <2> QED
    BY <1>1, <1>2, <2>1, <2>2, <2>3
<1> QED
  BY <1>3, <1>4

LEMMA Cut ==
  ASSUME NEW S, NEW s \in Seq(S), NEW p \in Prefixes(s), NEW M
  PROVE  /\ Has(p, M) => Has(s, M)
         /\ Once(s, M) => Once(p, M)
<1>1. PICK n \in 0..Len(s) : p = SubSeq(s, 1, n)
  BY DEF Prefixes
<1>2. Len(p) = n /\ n \in 0..Len(s) /\ Len(s) \in Nat /\ \A k \in 1..n : p[k] = s[k]
  BY <1>1
<1>3. \A k \in 1..Len(p) : k \in 1..Len(s)
  BY <1>2
<1> QED
  BY <1>2, <1>3 DEF Has, Once

LEMMA Nothing ==
  ASSUME NEW M
  PROVE  ~Has(<<>>, M) /\ Once(<<>>, M)
<1>1. Len(<<>>) = 0 /\ 1..0 = {}
  OBVIOUS
<1> QED
  BY <1>1 DEF Has, Once

LEMMA KindsDiffer ==
  ASSUME NEW i, NEW j
  PROVE  /\ Msg("join", i) \in JoinAsk(j) <=> i = j
         /\ Msg("leave", i) \notin JoinAsk(j)
         /\ Msg("evicted", i) \notin JoinAnswer(j) /\ Msg("ready", i) \notin JoinAnswer(j)
         /\ Msg("joined", i) \in JoinAnswer(j) <=> i = j
         /\ Msg("rejected", i) \in JoinAnswer(j) <=> i = j
BY DEF Msg, JoinAsk, JoinAnswer

\* A step after which every place has what it had before, or less.
LEMMA FewerPlaces ==
  ASSUME NEW i, NEW g, Apart(i, g),
         Queued(i, g)' => Queued(i, g), Written(i, g)' => Written(i, g), Taken(i, g)' => Taken(i, g),
         Decided(i, g)' => Decided(i, g), Relaying(i, g)' => Relaying(i, g), Replied(i, g)' => Replied(i, g),
         Sat(i, g)' => Sat(i, g), Unasked(i, g)' => Unasked(i, g), Settled(i, g)' => Settled(i, g)
  PROVE  Apart(i, g)'
BY DEF Apart

LEMMA Replaced ==
  ASSUME NEW S, NEW f \in [Generations -> Seq(S)], NEW h \in Generations, NEW s, NEW M,
         Has(s, M) => Has(f[h], M), Once(f[h], M) => Once(s, M), NEW g \in Generations
  PROVE  /\ Has([f EXCEPT ![h] = s][g], M) => Has(f[g], M)
         /\ Once(f[g], M) => Once([f EXCEPT ![h] = s][g], M)
<1>1. CASE g = h
  BY <1>1
<1>2. CASE g # h
  BY <1>2
<1> QED
  BY <1>1, <1>2

\* The Gateway's end closes: nothing new is on its way.
LEMMA CloseLinkFewer ==
  ASSUME TypeOK, generation \in Generations, CloseLink, NEW g \in Generations, NEW M
  PROVE  /\ queue' = <<>>
         /\ Has(up'[g], M) => Has(up[g], M)
         /\ Once(up[g], M) => Once(up'[g], M)
<1>1. up \in [Generations -> Seq(Asks)] /\ up[generation] \in Seq(Asks)
  BY DEF TypeOK, WireTypes
<1>2. PICK kept \in Prefixes(up[generation]) : up' = [up EXCEPT ![generation] = kept]
  BY DEF CloseLink
<1>3. /\ Has(kept, M) => Has(up[generation], M)
      /\ Once(up[generation], M) => Once(kept, M)
  BY <1>1, Cut
<1>4. queue' = <<>>
  BY DEF CloseLink
<1> QED
  BY <1>1, <1>2, <1>3, <1>4, Replaced

\* A step of the Gateway after which no Join or answer is anywhere it was not.
LEMMA GatewayFewer ==
  ASSUME OneJoin, UNCHANGED <<connection, outgoing, controls, results, seated>>,
         \A g \in Generations, i \in Ids :
           /\ Queued(i, g)' => Queued(i, g)
           /\ Unasked(i, g)' => Unasked(i, g)
           /\ Settled(i, g)' => Settled(i, g)
           /\ Has(up[g], JoinAsk(i))' => Has(up[g], JoinAsk(i))
           /\ Once(up[g], JoinAsk(i)) => Once(up[g], JoinAsk(i))'
           /\ Has(down[g], JoinAnswer(i))' => Has(down[g], JoinAnswer(i))
           /\ Once(down[g], JoinAnswer(i)) => Once(down[g], JoinAnswer(i))'
           /\ (g = generation => Once(queue, JoinAsk(i))) => (g = generation => Once(queue, JoinAsk(i)))'
  PROVE  OneJoin'
<1> SUFFICES ASSUME NEW g \in Generations, NEW i \in Ids
             PROVE  Apart(i, g)' /\ Singles(i, g)'
  BY DEF OneJoin
<1>1. Apart(i, g) /\ Singles(i, g)
  BY DEF OneJoin
<1>2. Singles(i, g)'
  BY <1>1 DEF Singles, JoinControl, JoinResult
<1>3. /\ Queued(i, g)' => Queued(i, g)
      /\ Written(i, g)' => Written(i, g)
      /\ Taken(i, g)' => Taken(i, g)
      /\ Decided(i, g)' => Decided(i, g)
      /\ Relaying(i, g)' => Relaying(i, g)
      /\ Replied(i, g)' => Replied(i, g)
      /\ Sat(i, g)' => Sat(i, g)
      /\ Unasked(i, g)' => Unasked(i, g)
      /\ Settled(i, g)' => Settled(i, g)
  BY DEF Written, Taken, Decided, Relaying, Replied, Sat
<1> QED
  BY <1>1, <1>2, <1>3, FewerPlaces

LEMMA StartGatewayJoin ==
  ASSUME TypeOK, OneJoin, Awaited, StartGateway
  PROVE  OneJoin'
<1>1. /\ gateway = "down" /\ queue = <<>> /\ reservation = NoReservation
      /\ generation' = generation + 1 /\ nextPlayer' = 0 /\ generation \in Nat
      /\ UNCHANGED <<reservation, queue, up, down, connection, outgoing, controls, results, seated>>
  BY BoundsAssumption DEF StartGateway, Awaited, TypeOK, GatewayTypes, ipcVars, hostVars, historyVars
<1>2. ASSUME NEW g \in Generations, NEW i \in Ids
      PROVE  /\ ~Queued(i, g)' /\ Once(queue', JoinAsk(i))
             /\ Unasked(i, g)' => Unasked(i, g)
             /\ ~Settled(i, g)'
  <2>1. ~Queued(i, g)' /\ Once(queue', JoinAsk(i))
    BY <1>1, Nothing DEF Queued
  <2>2. reservation[i] = "none" /\ i > 0 /\ g \in Nat
    BY <1>1 DEF NoReservation, Ids, Generations
  <2> QED
    BY <1>1, <2>1, <2>2 DEF Unasked, Settled
<1> QED
  BY <1>1, <1>2, GatewayFewer

LEMMA ReadReadyJoin ==
  ASSUME TypeOK, OneJoin, ReadReady
  PROVE  OneJoin'
<1>1. /\ generation \in Generations /\ down[generation] # <<>>
      /\ down' = [down EXCEPT ![generation] = Tail(down[generation])]
      /\ UNCHANGED <<generation, reservation, nextPlayer, queue, up, connection, outgoing, controls, results, seated>>
  BY GenerationTypes DEF ReadReady, ipcVars, hostVars, historyVars
<1>2. down \in [Generations -> Seq(Answers)] /\ down[generation] \in Seq(Answers)
  BY <1>1 DEF TypeOK, WireTypes
<1>3. ASSUME NEW g \in Generations, NEW M
      PROVE  (Has(down'[g], M) => Has(down[g], M)) /\ (Once(down[g], M) => Once(down'[g], M))
  BY <1>1, <1>2, Shortened, Replaced
<1> QED
  BY <1>1, <1>3, GatewayFewer DEF Queued, Unasked, Settled, JoinAsk, JoinAnswer

LEMMA StopGatewayJoin ==
  ASSUME TypeOK, OneJoin, StopGateway \/ RuntimeFailed
  PROVE  OneJoin'
<1>1. /\ generation \in Generations /\ reservation' = NoReservation
      /\ down' = [down EXCEPT ![generation] = <<>>]
      /\ UNCHANGED <<generation, nextPlayer, connection, outgoing, controls, results, seated>>
      /\ CloseLink \/ UNCHANGED <<queue, up>>
  BY GenerationTypes DEF StopGateway, RuntimeFailed, ipcVars, hostVars, historyVars
<1>2. down \in [Generations -> Seq(Answers)]
  BY DEF TypeOK, WireTypes
<1>3. ASSUME NEW g \in Generations, NEW M
      PROVE  (Has(down'[g], M) => Has(down[g], M)) /\ (Once(down[g], M) => Once(down'[g], M))
  BY <1>1, <1>2, Nothing, Replaced
<1>4. ASSUME NEW g \in Generations, NEW M
      PROVE  /\ (Has(up'[g], M) => Has(up[g], M)) /\ (Once(up[g], M) => Once(up'[g], M))
             /\ (Has(queue', M) => Has(queue, M)) /\ (Once(queue, M) => Once(queue', M))
  BY <1>1, CloseLinkFewer, Nothing
<1>5. \A i \in Ids : reservation'[i] = "none"
  BY <1>1 DEF NoReservation
<1> QED
  BY <1>1, <1>3, <1>4, <1>5, GatewayFewer DEF Queued, Unasked, Settled, JoinAsk, JoinAnswer

LEMMA FailLinkJoin ==
  ASSUME TypeOK, OneJoin, FailLink
  PROVE  OneJoin'
<1>1. /\ generation \in Generations /\ CloseLink
      /\ UNCHANGED <<generation, nextPlayer, reservation, connection, outgoing, controls, results, seated>>
  BY GenerationTypes DEF FailLink, ipcVars, hostVars, historyVars
<1>2. down \in [Generations -> Seq(Answers)] /\ down[generation] \in Seq(Answers)
  BY <1>1 DEF TypeOK, WireTypes
<1>3. PICK p \in Prefixes(down[generation]) : down' = [down EXCEPT ![generation] = p]
  <2>1. PICK kept \in {n \in 0..1 : n <= Len(down[generation])} :
          down' = [down EXCEPT ![generation] = SubSeq(down[generation], 1, kept)]
    BY DEF FailLink
  <2>2. kept \in 0..Len(down[generation])
    BY <1>2
  <2> QED
    BY <2>1, <2>2 DEF Prefixes
<1>4. ASSUME NEW g \in Generations, NEW M
      PROVE  /\ (Has(down'[g], M) => Has(down[g], M)) /\ (Once(down[g], M) => Once(down'[g], M))
             /\ (Has(up'[g], M) => Has(up[g], M)) /\ (Once(up[g], M) => Once(up'[g], M))
             /\ (Has(queue', M) => Has(queue, M)) /\ (Once(queue, M) => Once(queue', M))
  <2>1. (Has(p, M) => Has(down[generation], M)) /\ (Once(down[generation], M) => Once(p, M))
    BY <1>2, Cut
  <2>2. (Has(down'[g], M) => Has(down[g], M)) /\ (Once(down[g], M) => Once(down'[g], M))
    BY <1>1, <1>2, <1>3, <2>1, Replaced
  <2> QED
    BY <1>1, <2>2, CloseLinkFewer, Nothing
<1> QED
  BY <1>1, <1>4, GatewayFewer DEF Queued, Unasked, Settled, JoinAsk, JoinAnswer

LEMMA ReserveJoin ==
  ASSUME TypeOK, OneJoin, Reserve
  PROVE  OneJoin'
<1>1. /\ nextPlayer' = nextPlayer + 1 /\ nextPlayer \in Nat
      /\ reservation \in [Ids -> {"none", "reserved", "joining", "active"}]
      /\ reservation' = [reservation EXCEPT ![nextPlayer + 1] = "reserved"]
      /\ UNCHANGED <<generation, queue, up, down, connection, outgoing, controls, results, seated>>
  BY BoundsAssumption DEF Reserve, TypeOK, GatewayTypes, wireVars, ipcVars, hostVars, historyVars
<1>2. ASSUME NEW g \in Generations, NEW i \in Ids
      PROVE  (Unasked(i, g)' => Unasked(i, g)) /\ (Settled(i, g)' => Settled(i, g))
  <2>1. i \in Nat /\ (i = nextPlayer + 1 => i > nextPlayer) /\ (i > nextPlayer + 1 => i > nextPlayer)
    BY <1>1 DEF Ids
  <2>2. i # nextPlayer + 1 => reservation'[i] = reservation[i]
    BY <1>1
  <2>3. i = nextPlayer + 1 => reservation'[i] = "reserved"
    BY <1>1
  <2> QED
    BY <1>1, <2>1, <2>2, <2>3 DEF Unasked, Settled
<1> QED
  BY <1>1, <1>2, GatewayFewer DEF Queued, JoinAsk, JoinAnswer

LEMMA EndReservationJoin ==
  ASSUME TypeOK, OneJoin, NEW p \in Ids, EndReservation(p)
  PROVE  OneJoin'
<1>1. /\ reservation \in [Ids -> {"none", "reserved", "joining", "active"}] /\ queue \in Seq(Asks)
      /\ reservation' = [reservation EXCEPT ![p] = "none"]
      /\ UNCHANGED <<generation, nextPlayer, up, down, connection, outgoing, controls, results, seated>>
      /\ queue' = queue \/ queue' = Append(queue, Msg("leave", p))
  BY DEF EndReservation, SendControl, TypeOK, GatewayTypes, wireVars, ipcVars, hostVars
<1>2. ASSUME NEW g \in Generations, NEW i \in Ids
      PROVE  /\ Has(queue', JoinAsk(i)) => Has(queue, JoinAsk(i))
             /\ Once(queue, JoinAsk(i)) => Once(queue', JoinAsk(i))
             /\ Unasked(i, g)' => Unasked(i, g)
             /\ Settled(i, g)' => Settled(i, g)
  <2>1. Msg("leave", p) \notin JoinAsk(i)
    BY KindsDiffer
  <2>2. /\ Has(queue', JoinAsk(i)) => Has(queue, JoinAsk(i))
        /\ Once(queue, JoinAsk(i)) => Once(queue', JoinAsk(i))
    BY <1>1, <2>1, Appended
  <2>3. reservation'[i] \in {"none", reservation[i]}
    BY <1>1
  <2> QED
    BY <1>1, <2>2, <2>3 DEF Unasked, Settled
<1> QED
  BY <1>1, <1>2, GatewayFewer DEF Queued, JoinAsk, JoinAnswer

LEMMA FirstHelloJoin ==
  ASSUME TypeOK, OneJoin, Awaited, NEW p \in Ids, FirstHello(p)
  PROVE  OneJoin'
<1>1. /\ reservation \in [Ids -> {"none", "reserved", "joining", "active"}] /\ queue \in Seq(Asks)
      /\ reservation[p] = "reserved" /\ reservation' = [reservation EXCEPT ![p] = "joining"]
      /\ UNCHANGED <<generation, nextPlayer, up, down, connection, outgoing, controls, results, seated>>
      /\ queue' = queue \/ queue' = Append(queue, Msg("join", p))
  BY DEF FirstHello, SendControl, TypeOK, GatewayTypes, wireVars, ipcVars, hostVars
<1> SUFFICES ASSUME NEW g \in Generations, NEW i \in Ids
             PROVE  Apart(i, g)' /\ Singles(i, g)'
  BY DEF OneJoin
<1>2. Apart(i, g) /\ Singles(i, g)
  BY DEF OneJoin
<1>3. /\ Written(i, g)' = Written(i, g) /\ Taken(i, g)' = Taken(i, g) /\ Decided(i, g)' = Decided(i, g)
      /\ Relaying(i, g)' = Relaying(i, g) /\ Replied(i, g)' = Replied(i, g) /\ Sat(i, g)' = Sat(i, g)
  BY <1>1 DEF Written, Taken, Decided, Relaying, Replied, Sat
<1>4. Has(queue', JoinAsk(i)) => Has(queue, JoinAsk(i)) \/ i = p
  <2>1. CASE queue' = queue
    BY <2>1
  <2>2. CASE queue' = Append(queue, Msg("join", p))
    <3>1. Has(queue', JoinAsk(i)) => Has(queue, JoinAsk(i)) \/ Msg("join", p) \in JoinAsk(i)
      BY <1>1, <2>2, Appended
    <3> QED
      BY <3>1, KindsDiffer
  <2> QED
    BY <1>1, <2>1, <2>2
<1>5. CASE g = generation /\ i = p
  <2>1. Unasked(i, g)
    BY <1>1, <1>5 DEF Unasked
  <2>2. Once(queue', JoinAsk(i))
    <3>1. ~Has(queue, JoinAsk(i))
      BY <1>2, <1>5, <2>1 DEF Apart, Queued
    <3>2. Once(queue, JoinAsk(i))
      BY <1>2, <1>5 DEF Singles
    <3>3. CASE queue' = Append(queue, Msg("join", p))
      BY <1>1, <3>1, <3>2, <3>3, Appended
    <3> QED
      BY <1>1, <3>2, <3>3
  <2>3. ~Unasked(i, g)' /\ ~Settled(i, g)'
    <3>1. reservation'[i] = "joining" /\ i <= nextPlayer
      BY <1>1, <1>5 DEF Awaited
    <3>2. nextPlayer \in Nat /\ i \in Nat /\ generation \in Nat
      BY BoundsAssumption DEF TypeOK, GatewayTypes, Ids
    <3> QED
      BY <1>1, <1>5, <3>1, <3>2 DEF Unasked, Settled
  <2>4. Apart(i, g)'
    BY <1>2, <1>3, <2>1, <2>3 DEF Apart
  <2>5. Singles(i, g)'
    BY <1>1, <1>2, <2>2 DEF Singles, JoinControl, JoinResult, JoinAsk, JoinAnswer
  <2> QED
    BY <2>4, <2>5
<1>6. CASE ~(g = generation /\ i = p)
  <2>1. g = generation => (Has(queue', JoinAsk(i)) => Has(queue, JoinAsk(i))) /\ Once(queue', JoinAsk(i))
    <3> SUFFICES ASSUME g = generation
                 PROVE  (Has(queue', JoinAsk(i)) => Has(queue, JoinAsk(i))) /\ Once(queue', JoinAsk(i))
      OBVIOUS
    <3>1. Msg("join", p) \notin JoinAsk(i)
      BY <1>6, KindsDiffer
    <3>2. Once(queue, JoinAsk(i))
      BY <1>2 DEF Singles
    <3> QED
      BY <1>1, <3>1, <3>2, Appended
  <2>2. Queued(i, g)' => Queued(i, g)
    BY <1>1, <2>1 DEF Queued, JoinAsk
  <2>3. (Unasked(i, g)' => Unasked(i, g)) /\ (Settled(i, g)' => Settled(i, g))
    BY <1>1, <1>6 DEF Unasked, Settled
  <2>4. Apart(i, g)'
    BY <1>2, <1>3, <2>2, <2>3, FewerPlaces
  <2>5. Singles(i, g)'
    BY <1>1, <1>2, <2>1 DEF Singles, JoinControl, JoinResult, JoinAsk, JoinAnswer
  <2> QED
    BY <2>4, <2>5
<1> QED
  BY <1>5, <1>6

LEMMA WriteQueueJoin ==
  ASSUME TypeOK, OneJoin, WriteQueue
  PROVE  OneJoin'
<1>1. /\ generation \in Generations /\ queue' = <<>>
      /\ up' = up \/ up' = [up EXCEPT ![generation] = up[generation] \o queue]
      /\ UNCHANGED <<generation, nextPlayer, reservation, down, connection, outgoing, controls, results, seated>>
  BY GenerationTypes DEF WriteQueue, ipcVars, hostVars, historyVars
<1>2. up \in [Generations -> Seq(Asks)] /\ up[generation] \in Seq(Asks) /\ queue \in Seq(Asks)
  BY <1>1 DEF TypeOK, WireTypes, GatewayTypes
<1> SUFFICES ASSUME NEW g \in Generations, NEW i \in Ids
             PROVE  Apart(i, g)' /\ Singles(i, g)'
  BY DEF OneJoin
<1>3. Apart(i, g) /\ Singles(i, g)
  BY DEF OneJoin
<1>4. /\ Taken(i, g)' = Taken(i, g) /\ Decided(i, g)' = Decided(i, g)
      /\ Relaying(i, g)' = Relaying(i, g) /\ Replied(i, g)' = Replied(i, g) /\ Sat(i, g)' = Sat(i, g)
      /\ Unasked(i, g)' = Unasked(i, g) /\ Settled(i, g)' = Settled(i, g)
  BY <1>1 DEF Taken, Decided, Relaying, Replied, Sat, Unasked, Settled
<1>5. ~Queued(i, g)' /\ Once(queue', JoinAsk(i))
  BY <1>1, Nothing DEF Queued, JoinAsk
<1>6. (Has(up'[g], JoinAsk(i)) => Written(i, g) \/ Queued(i, g)) /\ Once(up'[g], JoinAsk(i))
  <2>1. CASE up'[g] = up[g]
    BY <1>3, <2>1 DEF Singles, Written
  <2>2. CASE g = generation /\ up'[g] = up[generation] \o queue
    <3>1. Once(up[generation], JoinAsk(i)) /\ Once(queue, JoinAsk(i))
      BY <1>3, <2>2 DEF Singles
    <3>2. Has(queue, JoinAsk(i)) => ~Has(up[generation], JoinAsk(i))
      BY <1>3, <2>2 DEF Apart, Queued, Written
    <3>3. Has(up'[g], JoinAsk(i)) => Has(up[generation], JoinAsk(i)) \/ Has(queue, JoinAsk(i))
      BY <1>2, <2>2, Linked
    <3>4. Once(up'[g], JoinAsk(i))
      BY <1>2, <2>2, <3>1, <3>2, Linked
    <3> QED
      BY <2>2, <3>3, <3>4 DEF Written, Queued
  <2> QED
    BY <1>1, <1>2, <2>1, <2>2
<1>7. Written(i, g)' => Written(i, g) \/ Queued(i, g)
  BY <1>6 DEF Written, JoinAsk
<1>8. Apart(i, g)'
  BY <1>3, <1>4, <1>5, <1>7 DEF Apart
<1>9. Singles(i, g)'
  BY <1>1, <1>3, <1>5, <1>6 DEF Singles, JoinControl, JoinResult, JoinAsk, JoinAnswer
<1> QED
  BY <1>8, <1>9

\* An answer finds its player joining, or gone.
LEMMA ReadRuntimeJoin ==
  ASSUME TypeOK, OneJoin, ReadRuntime
  PROVE  OneJoin' /\ fault' = fault
<1> DEFINE m == Head(down[generation])
<1>1. /\ generation \in Generations /\ down[generation] # <<>>
      /\ down' = [down EXCEPT ![generation] = Tail(down[generation])]
      /\ UNCHANGED <<generation, nextPlayer, queue, up, connection, outgoing, controls, results, seated>>
      /\ reservation \in [Ids -> {"none", "reserved", "joining", "active"}]
  BY GenerationTypes DEF ReadRuntime, ipcVars, hostVars, TypeOK, GatewayTypes
<1>2. down \in [Generations -> Seq(Answers)] /\ down[generation] \in Seq(Answers)
  BY <1>1 DEF TypeOK, WireTypes
<1>3. m \in Answers
  BY <1>1, <1>2
<1>4. ASSUME NEW g \in Generations, NEW M
      PROVE  /\ Has(down'[g], M) => Has(down[g], M)
             /\ Once(down[g], M) => Once(down'[g], M)
             /\ g = generation /\ m \in M => Has(down[g], M)
             /\ g = generation /\ m \in M /\ Once(down[g], M) => ~Has(down'[g], M)
  <2>1. /\ Has(Tail(down[generation]), M) => Has(down[generation], M)
        /\ m \in M => Has(down[generation], M)
        /\ Once(down[generation], M) => Once(Tail(down[generation]), M)
        /\ Once(down[generation], M) /\ m \in M => ~Has(Tail(down[generation]), M)
    BY <1>1, <1>2, Shortened
  <2>2. down'[g] = IF g = generation THEN Tail(down[generation]) ELSE down[g]
    BY <1>1, <1>2
  <2> QED
    BY <2>1, <2>2
<1>5. \/ m.kind = "joined" /\ Answered(m.player, "active")
      \/ m.kind = "rejected" /\ Answered(m.player, "none")
      \/ /\ m.kind = "evicted"
         /\ reservation' = [reservation EXCEPT ![m.player] = "none"]
         /\ UNCHANGED <<failing, fault>>
  BY DEF ReadRuntime
<1>6. m.kind \in {"joined", "rejected", "evicted"} => m.player \in Ids /\ m = Msg(m.kind, m.player)
  BY <1>3 DEF Answers, Msg
<1> HIDE DEF m
<1>7. CASE m.kind \in {"joined", "rejected"}
  <2>1. m.player \in Ids /\ m \in JoinAnswer(m.player) /\ \A i \in Ids : m \in JoinAnswer(i) <=> i = m.player
    BY <1>6, <1>7, KindsDiffer
  <2>2. Apart(m.player, generation) /\ Singles(m.player, generation)
    BY <1>1, <2>1 DEF OneJoin
  <2>3. Replied(m.player, generation)
    BY <1>1, <1>4, <2>1 DEF Replied
  <2>4. ~Unasked(m.player, generation) /\ ~Settled(m.player, generation)
    BY <2>2, <2>3 DEF Apart
  <2>5. reservation[m.player] \in {"joining", "none"}
    BY <1>1, <2>1, <2>4 DEF Unasked, Settled
  <2>6. /\ fault' = fault
        /\ \/ reservation' = reservation
           \/ reservation' = [reservation EXCEPT ![m.player] = "active"]
           \/ reservation' = [reservation EXCEPT ![m.player] = "none"]
    BY <1>1, <1>5, <1>7, <2>1, <2>5 DEF Answered
  <2>7. ASSUME NEW g \in Generations, NEW i \in Ids
        PROVE  Apart(i, g)' /\ Singles(i, g)'
    <3>1. Apart(i, g) /\ Singles(i, g)
      BY DEF OneJoin
    <3>2. /\ Queued(i, g)' = Queued(i, g) /\ Written(i, g)' = Written(i, g)
          /\ Taken(i, g)' = Taken(i, g) /\ Decided(i, g)' = Decided(i, g)
          /\ Relaying(i, g)' = Relaying(i, g) /\ Sat(i, g)' = Sat(i, g)
      BY <1>1 DEF Queued, Written, Taken, Decided, Relaying, Sat
    <3>3. Replied(i, g)' => Replied(i, g)
      BY <1>4 DEF Replied, JoinAnswer
    <3>4. Unasked(i, g)' => Unasked(i, g)
      BY <1>1, <2>1, <2>6 DEF Unasked
    <3>5. Singles(i, g)'
      BY <1>1, <1>4, <3>1 DEF Singles, JoinControl, JoinResult, JoinAsk, JoinAnswer
    <3>6. CASE g = generation /\ i = m.player
      <4>1. ~Replied(i, g)'
        BY <1>4, <2>1, <3>1, <3>6 DEF Singles, Replied, JoinAnswer
      <4>2. /\ ~Queued(i, g) /\ ~Written(i, g) /\ ~Taken(i, g) /\ ~Decided(i, g) /\ ~Relaying(i, g)
            /\ ~Unasked(i, g)
        BY <2>2, <2>3, <3>6 DEF Apart
      <4> QED
        BY <3>2, <3>4, <3>5, <4>1, <4>2 DEF Apart
    <3>7. CASE ~(g = generation /\ i = m.player)
      <4>1. Settled(i, g)' => Settled(i, g)
        BY <1>1, <2>1, <2>6, <3>7 DEF Settled
      <4> QED
        BY <3>1, <3>2, <3>3, <3>4, <3>5, <4>1, FewerPlaces
    <3> QED
      BY <3>6, <3>7
  <2> QED
    BY <2>6, <2>7 DEF OneJoin
<1>8. CASE m.kind = "evicted"
  <2>1. fault' = fault /\ reservation' = [reservation EXCEPT ![m.player] = "none"]
    BY <1>5, <1>8
  <2> QED
    BY <1>1, <1>4, <2>1, GatewayFewer DEF Queued, Unasked, Settled, JoinAsk, JoinAnswer
<1> QED
  BY <1>5, <1>7, <1>8

----------------------------------------------------------------------------
(* The same for the Match.                                                 *)

\* The host's content came by one connection, also while that closes, and whoever is in
\* the room is recorded.
Company ==
  /\ \E g \in 0..MaxGenerations : HostOf(g)
  /\ members \subseteq seated

\* A step of the Match after which no Join or answer is anywhere it was not.
LEMMA MatchFewer ==
  ASSUME OneJoin, UNCHANGED gatewayVars,
         \A g \in Generations, i \in Ids :
           /\ Relaying(i, g)' => Relaying(i, g)
           /\ (g = connection => Once(outgoing, JoinAnswer(i))) => (g = connection => Once(outgoing, JoinAnswer(i)))'
           /\ Sat(i, g)' => Sat(i, g)
           /\ Has(up'[g], JoinAsk(i)) => Has(up[g], JoinAsk(i))
           /\ Once(up[g], JoinAsk(i)) => Once(up'[g], JoinAsk(i))
           /\ Has(down'[g], JoinAnswer(i)) => Has(down[g], JoinAnswer(i))
           /\ Once(down[g], JoinAnswer(i)) => Once(down'[g], JoinAnswer(i))
           /\ Has(controls', JoinControl(i, g)) => Has(controls, JoinControl(i, g))
           /\ Once(controls, JoinControl(i, g)) => Once(controls', JoinControl(i, g))
           /\ Has(results', JoinResult(i, g)) => Has(results, JoinResult(i, g))
           /\ Once(results, JoinResult(i, g)) => Once(results', JoinResult(i, g))
  PROVE  OneJoin'
<1> SUFFICES ASSUME NEW g \in Generations, NEW i \in Ids
             PROVE  Apart(i, g)' /\ Singles(i, g)'
  BY DEF OneJoin
<1>1. Apart(i, g) /\ Singles(i, g)
  BY DEF OneJoin
<1>2. Singles(i, g)'
  BY <1>1 DEF Singles, JoinControl, JoinResult, JoinAsk, JoinAnswer, gatewayVars
<1>3. /\ Queued(i, g)' => Queued(i, g)
      /\ Written(i, g)' => Written(i, g)
      /\ Taken(i, g)' => Taken(i, g)
      /\ Decided(i, g)' => Decided(i, g)
      /\ Relaying(i, g)' => Relaying(i, g)
      /\ Replied(i, g)' => Replied(i, g)
      /\ Sat(i, g)' => Sat(i, g)
      /\ Unasked(i, g)' => Unasked(i, g)
      /\ Settled(i, g)' => Settled(i, g)
  BY DEF Queued, Written, Taken, Decided, Replied, Unasked, Settled, gatewayVars, JoinControl, JoinResult, JoinAsk,
     JoinAnswer
<1> QED
  BY <1>1, <1>2, <1>3, FewerPlaces

\* A session that closes leaves nothing behind but what the host has.
LEMMA CloseJoin ==
  ASSUME TypeOK, OneJoin, phase = "Connected", Close,
         UNCHANGED <<gatewayVars, controls, seated>>, results' \in {results, <<>>}
  PROVE  OneJoin'
<1>1. connection \in Generations /\ connection' = 0 /\ outgoing' = <<>> /\ up' = [up EXCEPT ![connection] = <<>>]
  BY BoundsAssumption DEF TypeOK, IpcTypes, Generations, Close
<1>2. up \in [Generations -> Seq(Asks)] /\ down \in [Generations -> Seq(Answers)] /\ down[connection] \in Seq(Answers)
  BY <1>1 DEF TypeOK, WireTypes
<1>3. PICK kept \in Prefixes(down[connection]) : down' = [down EXCEPT ![connection] = kept]
  BY DEF Close
<1>4. ASSUME NEW g \in Generations, NEW M
      PROVE  /\ (Has(up'[g], M) => Has(up[g], M)) /\ (Once(up[g], M) => Once(up'[g], M))
             /\ (Has(down'[g], M) => Has(down[g], M)) /\ (Once(down[g], M) => Once(down'[g], M))
             /\ (Has(results', M) => Has(results, M)) /\ (Once(results, M) => Once(results', M))
  <2>1. (Has(kept, M) => Has(down[connection], M)) /\ (Once(down[connection], M) => Once(kept, M))
    BY <1>2, Cut
  <2>2. (Has(down'[g], M) => Has(down[g], M)) /\ (Once(down[g], M) => Once(down'[g], M))
    BY <1>1, <1>2, <1>3, <2>1, Replaced
  <2>3. (Has(up'[g], M) => Has(up[g], M)) /\ (Once(up[g], M) => Once(up'[g], M))
    BY <1>1, <1>2, Nothing, Replaced
  <2> QED
    BY <2>2, <2>3, Nothing
<1>5. \A g \in Generations, i \in Ids :
        /\ ~Relaying(i, g)'
        /\ (g = connection => Once(outgoing, JoinAnswer(i)))'
        /\ Sat(i, g)' => Sat(i, g)
  BY <1>1, Nothing DEF Relaying, Sat, JoinAnswer, Generations
<1> QED
  BY <1>4, <1>5, MatchFewer

LEMMA AcceptJoin ==
  ASSUME TypeOK, OneJoin, Awaited, Accept
  PROVE  OneJoin'
<1>1. /\ outgoing' = <<>>
      /\ UNCHANGED <<gatewayVars, up, down, controls, results, seated>>
  BY DEF Accept, Awaited
<1>2. \A g \in Generations, i \in Ids :
        /\ ~Relaying(i, g)'
        /\ (g = connection => Once(outgoing, JoinAnswer(i)))'
        /\ Sat(i, g)' => Sat(i, g)
  BY <1>1, Nothing DEF Relaying, Sat, JoinAnswer
<1> QED
  BY <1>1, <1>2, MatchFewer

LEMMA CheckResetJoin ==
  ASSUME TypeOK, OneJoin, Awaited, CheckReset
  PROVE  OneJoin'
<1>1. /\ outgoing' \in {outgoing, <<Msg("ready", 0)>>}
      /\ UNCHANGED <<gatewayVars, up, down, connection, controls, results, seated>>
  BY DEF CheckReset, wireVars, historyVars
<1>2. ASSUME NEW i \in Ids
      PROVE  /\ Has(outgoing', JoinAnswer(i)) => Has(outgoing, JoinAnswer(i))
             /\ Once(outgoing, JoinAnswer(i)) => Once(outgoing', JoinAnswer(i))
  <2>1. Msg("ready", 0) \notin JoinAnswer(i) /\ Len(<<Msg("ready", 0)>>) = 1 /\ <<Msg("ready", 0)>>[1] = Msg("ready", 0)
    BY KindsDiffer
  <2>2. ~Has(<<Msg("ready", 0)>>, JoinAnswer(i)) /\ Once(<<Msg("ready", 0)>>, JoinAnswer(i))
    BY <2>1 DEF Has, Once
  <2> QED
    BY <1>1, <2>2
<1> QED
  BY <1>1, <1>2, MatchFewer DEF Relaying, Sat, JoinAnswer

\* A Join that is read is among the controls.
LEMMA ReceiveJoin ==
  ASSUME TypeOK, OneJoin, Receive
  PROVE  OneJoin'
<1> DEFINE m == Head(up[connection])
           control == [request |-> NewRequest, player |-> m.player, kind |-> m.kind, from |-> connection]
<1>1. connection \in Generations /\ phase = "Connected" /\ up[connection] # <<>>
      /\ UNCHANGED <<gatewayVars, results, seated>>
  BY BoundsAssumption DEF Receive, TypeOK, IpcTypes, Generations
<1>2. up \in [Generations -> Seq(Asks)] /\ up[connection] \in Seq(Asks) /\ m \in Asks /\ controls \in Seq(Control)
  BY <1>1 DEF TypeOK, WireTypes, HostTypes
<1>3. \/ Close /\ UNCHANGED controls
      \/ /\ controls' = Append(controls, control) /\ up' = [up EXCEPT ![connection] = Tail(up[connection])]
         /\ UNCHANGED <<connection, outgoing, down>>
  BY DEF Receive, Stay
<1>4. m.kind = "join" => m = Msg("join", m.player)
  BY <1>2 DEF Asks, Msg
<1>5. ASSUME NEW g, NEW i, control \in JoinControl(i, g)
      PROVE  m \in JoinAsk(i) /\ g = connection
  BY <1>4, <1>5 DEF JoinControl, JoinAsk
<1> HIDE DEF m, control
<1>6. CASE Close /\ UNCHANGED controls
  BY <1>1, <1>6, CloseJoin
<1>7. CASE /\ controls' = Append(controls, control) /\ up' = [up EXCEPT ![connection] = Tail(up[connection])]
           /\ UNCHANGED <<connection, outgoing, down>>
  <2> SUFFICES ASSUME NEW g \in Generations, NEW i \in Ids
               PROVE  Apart(i, g)' /\ Singles(i, g)'
    BY DEF OneJoin
  <2>1. Apart(i, g) /\ Singles(i, g)
    BY DEF OneJoin
  <2>2. /\ Queued(i, g)' = Queued(i, g) /\ Decided(i, g)' = Decided(i, g)
        /\ Relaying(i, g)' = Relaying(i, g) /\ Replied(i, g)' = Replied(i, g) /\ Sat(i, g)' = Sat(i, g)
        /\ Unasked(i, g)' = Unasked(i, g) /\ Settled(i, g)' = Settled(i, g)
    BY <1>1, <1>7 DEF Queued, Decided, Relaying, Replied, Sat, Unasked, Settled, gatewayVars
  <2>3. up'[g] = IF g = connection THEN Tail(up[connection]) ELSE up[g]
    BY <1>1, <1>2, <1>7
  <2>4. (Has(up'[g], JoinAsk(i)) => Has(up[g], JoinAsk(i))) /\ Once(up'[g], JoinAsk(i))
    BY <1>1, <1>2, <2>1, <2>3, Shortened DEF Singles
  <2>5. /\ Has(controls', JoinControl(i, g)) => Has(controls, JoinControl(i, g)) \/ control \in JoinControl(i, g)
        /\ Once(controls, JoinControl(i, g)) /\ (control \in JoinControl(i, g) => ~Has(controls, JoinControl(i, g)))
             => Once(controls', JoinControl(i, g))
    BY <1>2, <1>7, Appended
  <2>6. CASE control \in JoinControl(i, g)
    <3>1. m \in JoinAsk(i) /\ g = connection
      BY <1>5, <2>6
    <3>2. Has(up[g], JoinAsk(i)) /\ ~Has(up'[g], JoinAsk(i))
      BY <1>1, <1>2, <2>1, <2>3, <3>1, Shortened DEF Singles, m
    <3>3. Written(i, g) /\ ~Written(i, g)'
      BY <3>2 DEF Written, JoinAsk
    <3>4. Once(controls', JoinControl(i, g))
      BY <2>1, <2>5, <3>3 DEF Apart, Singles, Taken
    <3>5. Apart(i, g)'
      BY <2>1, <2>2, <3>3 DEF Apart
    <3> QED
      BY <1>1, <1>7, <2>1, <2>4, <3>4, <3>5 DEF Singles, gatewayVars, JoinControl, JoinResult, JoinAsk, JoinAnswer
  <2>7. CASE control \notin JoinControl(i, g)
    <3>1. (Taken(i, g)' => Taken(i, g)) /\ Once(controls', JoinControl(i, g))
      BY <2>1, <2>5, <2>7 DEF Taken, Singles, JoinControl
    <3>2. Written(i, g)' => Written(i, g)
      BY <2>4 DEF Written, JoinAsk
    <3>3. Apart(i, g)'
      BY <2>1, <2>2, <3>1, <3>2, FewerPlaces
    <3> QED
      BY <1>1, <1>7, <2>1, <2>4, <3>1, <3>3 DEF Singles, gatewayVars, JoinControl, JoinResult, JoinAsk, JoinAnswer
  <2> QED
    BY <2>6, <2>7
<1> QED
  BY <1>3, <1>6, <1>7

\* What a Pump relays are the answers of the Joins among the results, each once.
LEMMA RelayedIs ==
  ASSUME TypeOK, Awaited, phase = "Connected", HostOf(connection), NEW relayed \in Relayed, NEW i \in Ids
  PROVE  /\ Has(relayed, JoinAnswer(i)) => Has(results, JoinResult(i, connection))
         /\ Once(results, JoinResult(i, connection)) => Once(relayed, JoinAnswer(i))
<1> DEFINE n == Cardinality(Waiting)
<1>1. PICK places \in [1..n -> Waiting] :
        /\ \A j, k \in 1..n : j < k => places[j] < places[k]
        /\ relayed = [k \in 1..n |-> Relay(results[places[k]])]
  BY DEF Relayed
<1>2. n \in Nat
  <2>1. Len(results) \in Nat
    BY DEF TypeOK, HostTypes
  <2>2. IsFiniteSet(1..Len(results))
    BY <2>1, Interval
  <2>3. IsFiniteSet(Waiting)
    BY <2>2, FS_Subset DEF Waiting
  <2> QED
    BY <2>3, FS_CardinalityType
<1> HIDE DEF n
<1>3. Len(relayed) = n /\ \A k \in 1..n : relayed[k] = Relay(results[places[k]])
  BY <1>1, <1>2
<1>4. ASSUME NEW k \in 1..n, relayed[k] \in JoinAnswer(i)
      PROVE  places[k] \in 1..Len(results) /\ results[places[k]] \in JoinResult(i, connection)
  <2>1. places[k] \in 1..Len(results) /\ Waits(results[places[k]])
    BY <1>1 DEF Waiting
  <2>2. results[places[k]] \in Result /\ results[places[k]].from = connection
    BY <2>1 DEF TypeOK, HostTypes, HostOf
  <2>3. results[places[k]].kind = "join"
    BY <2>1 DEF Awaited
  <2>4. results[places[k]].player = i
    BY <1>3, <1>4 DEF Relay, Msg, JoinAnswer
  <2> QED
    BY <2>1, <2>2, <2>3, <2>4 DEF JoinResult
<1>5. Has(relayed, JoinAnswer(i)) => Has(results, JoinResult(i, connection))
  BY <1>3, <1>4 DEF Has
<1>6. Once(results, JoinResult(i, connection)) => Once(relayed, JoinAnswer(i))
  <2> SUFFICES ASSUME Once(results, JoinResult(i, connection)), NEW j \in 1..n, NEW k \in 1..n,
                      relayed[j] \in JoinAnswer(i), relayed[k] \in JoinAnswer(i)
               PROVE  j = k
    BY <1>3 DEF Once
  <2>1. places[j] = places[k] /\ places[j] \in Nat /\ j \in Nat /\ k \in Nat
    BY <1>2, <1>4 DEF Once
  <2> QED
    BY <1>1, <2>1
<1> QED
  BY <1>5, <1>6

LEMMA PumpResultsJoin ==
  ASSUME TypeOK, Handshake, OneJoin, Awaited, PumpResults
  PROVE  OneJoin'
<1>1. PICK relayed \in Relayed :
        \/ Close
        \/ outgoing' = outgoing \o relayed /\ UNCHANGED <<connection, up, down>>
  BY DEF PumpResults
<1>2. /\ phase = "Connected" /\ HostOf(connection) /\ results' = <<>> /\ connection \in Generations
      /\ UNCHANGED <<gatewayVars, controls, seated>>
  <2>1. phase = "Connected" /\ results' = <<>> /\ UNCHANGED <<gatewayVars, controls, seated>>
    BY DEF PumpResults
  <2>2. connection \in Generations
    BY <2>1, BoundsAssumption DEF TypeOK, IpcTypes, Generations
  <2> QED
    BY <2>1, <2>2 DEF Handshake
<1>3. relayed \in Seq(Answers) /\ outgoing \in Seq(Answers)
  BY RelayedTypes DEF TypeOK, IpcTypes
<1>4. CASE Close
  BY <1>2, <1>4, CloseJoin
<1>5. CASE outgoing' = outgoing \o relayed /\ UNCHANGED <<connection, up, down>>
  <2> SUFFICES ASSUME NEW g \in Generations, NEW i \in Ids
               PROVE  Apart(i, g)' /\ Singles(i, g)'
    BY DEF OneJoin
  <2>1. Apart(i, g) /\ Singles(i, g)
    BY DEF OneJoin
  <2>2. /\ Queued(i, g)' = Queued(i, g) /\ Written(i, g)' = Written(i, g) /\ Taken(i, g)' = Taken(i, g)
        /\ Replied(i, g)' = Replied(i, g) /\ Sat(i, g)' = Sat(i, g)
        /\ Unasked(i, g)' = Unasked(i, g) /\ Settled(i, g)' = Settled(i, g)
    BY <1>2, <1>5 DEF Queued, Written, Taken, Replied, Sat, Unasked, Settled, gatewayVars
  <2>3. ~Decided(i, g)' /\ Once(results', JoinResult(i, g))
    BY <1>2, Nothing DEF Decided, JoinResult
  <2>4. g = connection =>
          (Has(outgoing', JoinAnswer(i)) => Relaying(i, g) \/ Decided(i, g)) /\ Once(outgoing', JoinAnswer(i))
    <3> SUFFICES ASSUME g = connection
                 PROVE  /\ Has(outgoing', JoinAnswer(i)) => Relaying(i, g) \/ Decided(i, g)
                        /\ Once(outgoing', JoinAnswer(i))
      OBVIOUS
    <3>1. (Has(relayed, JoinAnswer(i)) => Decided(i, g)) /\ Once(relayed, JoinAnswer(i))
      BY <1>2, <2>1, RelayedIs DEF Decided, Singles
    <3>2. Once(outgoing, JoinAnswer(i)) /\ (Has(relayed, JoinAnswer(i)) => ~Has(outgoing, JoinAnswer(i)))
      BY <2>1, <3>1 DEF Singles, Apart, Relaying
    <3>3. /\ Has(outgoing', JoinAnswer(i)) => Has(outgoing, JoinAnswer(i)) \/ Has(relayed, JoinAnswer(i))
          /\ Once(outgoing', JoinAnswer(i))
      BY <1>3, <1>5, <3>1, <3>2, Linked
    <3> QED
      BY <3>1, <3>3 DEF Relaying
  <2>5. Relaying(i, g)' => Relaying(i, g) \/ Decided(i, g)
    BY <1>5, <2>4 DEF Relaying, JoinAnswer
  <2>6. Apart(i, g)'
    BY <2>1, <2>2, <2>3, <2>5 DEF Apart
  <2>7. Singles(i, g)'
    BY <1>2, <1>5, <2>1, <2>3, <2>4 DEF Singles, gatewayVars, JoinControl, JoinResult, JoinAsk, JoinAnswer
  <2> QED
    BY <2>6, <2>7
<1> QED
  BY <1>1, <1>4, <1>5

\* A notice of an eviction is no answer.
LEMMA PumpEvictionsJoin ==
  ASSUME TypeOK, OneJoin, PumpEvictions
  PROVE  OneJoin'
<1> DEFINE notices == [k \in 1..Len(evictions) |-> Msg("evicted", evictions[k].player)]
<1>1. /\ phase = "Connected" /\ UNCHANGED <<gatewayVars, controls, results, seated>>
      /\ \/ Close
         \/ outgoing' = outgoing \o notices /\ UNCHANGED <<connection, up, down>>
  BY DEF PumpEvictions
<1>2. notices \in Seq(Answers) /\ outgoing \in Seq(Answers)
  <2>1. evictions \in Seq(Seats) /\ Len(evictions) \in Nat /\ outgoing \in Seq(Answers)
    BY DEF TypeOK, HostTypes, IpcTypes
  <2>2. \A k \in 1..Len(evictions) : Msg("evicted", evictions[k].player) \in Answers
    <3> SUFFICES ASSUME NEW k \in 1..Len(evictions)
                 PROVE  Msg("evicted", evictions[k].player) \in Answers
      OBVIOUS
    <3>1. evictions[k] \in Seats
      BY <2>1
    <3> QED
      BY <3>1 DEF Seats, Msg, Answers
  <2> QED
    BY <2>1, <2>2
<1>3. ASSUME NEW i \in Ids
      PROVE  ~Has(notices, JoinAnswer(i)) /\ Once(notices, JoinAnswer(i))
  <2>1. Len(evictions) \in Nat
    BY DEF TypeOK, HostTypes
  <2>2. \A k \in 1..Len(notices) : notices[k] \notin JoinAnswer(i)
    BY <2>1, KindsDiffer
  <2> QED
    BY <2>2 DEF Has, Once
<1> HIDE DEF notices
<1>4. CASE Close
  BY <1>1, <1>4, CloseJoin
<1>5. CASE outgoing' = outgoing \o notices /\ UNCHANGED <<connection, up, down>>
  <2>1. ASSUME NEW i \in Ids
        PROVE  /\ Has(outgoing', JoinAnswer(i)) => Has(outgoing, JoinAnswer(i))
               /\ Once(outgoing, JoinAnswer(i)) => Once(outgoing', JoinAnswer(i))
    BY <1>2, <1>3, <1>5, Linked
  <2> QED
    BY <1>1, <1>5, <2>1, MatchFewer DEF Relaying, Sat, JoinAnswer
<1> QED
  BY <1>1, <1>4, <1>5

LEMMA WriteJoin ==
  ASSUME TypeOK, OneJoin, Write
  PROVE  OneJoin'
<1>1. /\ connection \in Generations /\ outgoing # <<>> /\ outgoing' = Tail(outgoing)
      /\ down' = down \/ down' = [down EXCEPT ![connection] = Append(down[connection], Head(outgoing))]
      /\ UNCHANGED <<gatewayVars, up, connection, controls, results, seated>>
  BY BoundsAssumption DEF Write, TypeOK, IpcTypes, Generations, hostVars, historyVars
<1>2. down \in [Generations -> Seq(Answers)] /\ down[connection] \in Seq(Answers) /\ outgoing \in Seq(Answers)
  BY <1>1 DEF TypeOK, WireTypes, IpcTypes
<1> SUFFICES ASSUME NEW g \in Generations, NEW i \in Ids
             PROVE  Apart(i, g)' /\ Singles(i, g)'
  BY DEF OneJoin
<1>3. Apart(i, g) /\ Singles(i, g)
  BY DEF OneJoin
<1>4. /\ Queued(i, g)' = Queued(i, g) /\ Written(i, g)' = Written(i, g) /\ Taken(i, g)' = Taken(i, g)
      /\ Decided(i, g)' = Decided(i, g) /\ Sat(i, g)' = Sat(i, g)
      /\ Unasked(i, g)' = Unasked(i, g) /\ Settled(i, g)' = Settled(i, g)
  BY <1>1 DEF Queued, Written, Taken, Decided, Sat, Unasked, Settled, gatewayVars
<1>5. /\ Has(outgoing', JoinAnswer(i)) => Has(outgoing, JoinAnswer(i))
      /\ g = connection => Once(outgoing', JoinAnswer(i))
      /\ g = connection /\ Head(outgoing) \in JoinAnswer(i) =>
           Has(outgoing, JoinAnswer(i)) /\ ~Has(outgoing', JoinAnswer(i))
  BY <1>1, <1>2, <1>3, Shortened DEF Singles
<1>6. \/ down'[g] = down[g]
      \/ g = connection /\ down'[g] = Append(down[connection], Head(outgoing))
  BY <1>1, <1>2
<1>7. CASE g = connection /\ Head(outgoing) \in JoinAnswer(i)
  <2>1. Relaying(i, g) /\ ~Relaying(i, g)'
    BY <1>1, <1>5, <1>7 DEF Relaying, JoinAnswer
  <2>2. ~Has(down[g], JoinAnswer(i))
    BY <1>3, <2>1 DEF Apart, Replied
  <2>3. Once(down[g], JoinAnswer(i))
    BY <1>3 DEF Singles
  <2>4. Once(down'[g], JoinAnswer(i))
    <3>1. Once(Append(down[connection], Head(outgoing)), JoinAnswer(i))
      BY <1>2, <1>7, <2>2, <2>3, Appended
    <3> QED
      BY <1>6, <2>3, <3>1
  <2>5. Apart(i, g)'
    BY <1>3, <1>4, <2>1 DEF Apart
  <2> QED
    BY <1>1, <1>3, <1>5, <2>4, <2>5 DEF Singles, gatewayVars, JoinControl, JoinResult, JoinAsk, JoinAnswer
<1>8. CASE ~(g = connection /\ Head(outgoing) \in JoinAnswer(i))
  <2>1. (Has(down'[g], JoinAnswer(i)) => Has(down[g], JoinAnswer(i))) /\ Once(down'[g], JoinAnswer(i))
    <3>1. Once(down[g], JoinAnswer(i))
      BY <1>3 DEF Singles
    <3> QED
      BY <1>2, <1>6, <1>8, <3>1, Appended
  <2>2. (Replied(i, g)' => Replied(i, g)) /\ (Relaying(i, g)' => Relaying(i, g))
    BY <1>1, <1>5, <2>1 DEF Replied, Relaying, JoinAnswer
  <2>3. Apart(i, g)'
    BY <1>3, <1>4, <2>2, FewerPlaces
  <2> QED
    BY <1>1, <1>3, <1>5, <2>1, <2>3 DEF Singles, gatewayVars, JoinControl, JoinResult, JoinAsk, JoinAnswer
<1> QED
  BY <1>7, <1>8

LEMMA StepResetJoin ==
  ASSUME OneJoin, StepReset
  PROVE  OneJoin'
<1>1. /\ controls' = <<>> /\ results' = <<>>
      /\ UNCHANGED <<gatewayVars, up, down, connection, outgoing, seated>>
  BY DEF StepReset, wireVars, historyVars
<1> QED
  BY <1>1, Nothing, MatchFewer DEF Relaying, Sat, JoinAnswer

LEMMA StepEndJoin ==
  ASSUME OneJoin, StepEnd
  PROVE  OneJoin'
<1>1. UNCHANGED <<gatewayVars, up, down, connection, outgoing, controls, results, seated>>
  BY DEF StepEnd, wireVars, historyVars
<1> QED
  BY <1>1, MatchFewer DEF Relaying, Sat, JoinAnswer

\* The Join that is decided is among the results; who is seated by it was never seated.
LEMMA StepControlJoin ==
  ASSUME TypeOK, OneJoin, Company, StepControl
  PROVE  OneJoin'
<1> DEFINE c == Head(controls)
           seat == [player |-> c.player, from |-> c.from]
           Answer(accepted) == [request |-> c.request, player |-> c.player,
                                kind |-> c.kind, from |-> c.from, accepted |-> accepted]
<1>1. /\ controls \in Seq(Control) /\ controls # <<>> /\ results \in Seq(Result) /\ controls' = Tail(controls)
      /\ UNCHANGED <<gatewayVars, up, down, connection, outgoing>>
  BY DEF StepControl, TypeOK, HostTypes, wireVars, ipcVars
<1>2. c \in Control
  BY <1>1
<1>3. PICK accepted \in BOOLEAN : results' = Append(results, Answer(accepted))
  BY DEF StepControl
<1>4. seated' = seated \/ (c.kind = "join" /\ seated' \subseteq seated \cup {seat})
  BY DEF StepControl, Company
<1>5. ASSUME NEW g, NEW i
      PROVE  /\ Answer(accepted) \in JoinResult(i, g) => c \in JoinControl(i, g)
             /\ c.kind = "join" /\ [player |-> i, from |-> g] = seat => c \in JoinControl(i, g)
  BY <1>2 DEF JoinResult, JoinControl
<1> DEFINE answer == Answer(accepted)
<1> HIDE DEF c, seat, Answer
<1> SUFFICES ASSUME NEW g \in Generations, NEW i \in Ids
             PROVE  Apart(i, g)' /\ Singles(i, g)'
  BY DEF OneJoin
<1>6. Apart(i, g) /\ Singles(i, g)
  BY DEF OneJoin
<1>7. /\ Queued(i, g)' = Queued(i, g) /\ Written(i, g)' = Written(i, g)
      /\ Relaying(i, g)' = Relaying(i, g) /\ Replied(i, g)' = Replied(i, g)
      /\ Unasked(i, g)' = Unasked(i, g) /\ Settled(i, g)' = Settled(i, g)
  BY <1>1 DEF Queued, Written, Relaying, Replied, Unasked, Settled, gatewayVars
<1>8. /\ Has(controls', JoinControl(i, g)) => Has(controls, JoinControl(i, g))
      /\ Once(controls', JoinControl(i, g))
      /\ c \in JoinControl(i, g) => Has(controls, JoinControl(i, g)) /\ ~Has(controls', JoinControl(i, g))
  BY <1>1, <1>6, Shortened DEF Singles, c
<1>9. /\ Has(results', JoinResult(i, g)) => Has(results, JoinResult(i, g)) \/ answer \in JoinResult(i, g)
      /\ (answer \in JoinResult(i, g) => ~Has(results, JoinResult(i, g))) => Once(results', JoinResult(i, g))
  <2>1. Once(results, JoinResult(i, g))
    BY <1>6 DEF Singles
  <2> QED
    BY <1>1, <1>3, <2>1, Appended
<1>10. CASE c \in JoinControl(i, g)
  <2>1. Taken(i, g) /\ ~Taken(i, g)'
    BY <1>8, <1>10 DEF Taken, JoinControl
  <2>2. Once(results', JoinResult(i, g))
    BY <1>6, <1>9, <2>1 DEF Apart, Decided
  <2>3. Apart(i, g)'
    BY <1>6, <1>7, <2>1 DEF Apart
  <2> QED
    BY <1>1, <1>6, <1>8, <2>2, <2>3 DEF Singles, gatewayVars, JoinControl, JoinResult, JoinAsk, JoinAnswer
<1>11. CASE c \notin JoinControl(i, g)
  <2>1. answer \notin JoinResult(i, g)
    BY <1>5, <1>11
  <2>2. Once(results', JoinResult(i, g)) /\ (Decided(i, g)' => Decided(i, g))
    BY <1>9, <2>1 DEF Decided, JoinResult
  <2>3. Sat(i, g)' => Sat(i, g)
    BY <1>4, <1>5, <1>11 DEF Sat
  <2>4. Taken(i, g)' => Taken(i, g)
    BY <1>8 DEF Taken, JoinControl
  <2>5. Apart(i, g)'
    BY <1>6, <1>7, <2>2, <2>3, <2>4, FewerPlaces
  <2> QED
    BY <1>1, <1>6, <1>8, <2>2, <2>5 DEF Singles, gatewayVars, JoinControl, JoinResult, JoinAsk, JoinAnswer
<1> QED
  BY <1>10, <1>11

----------------------------------------------------------------------------
(* Who waits for what.                                                     *)

LEMMA GatewayAwaited ==
  ASSUME TypeOK, Awaited, GatewayNext
  PROVE  Awaited'
<1>1. UNCHANGED <<phase, outgoing, joins, controls, results>>
  BY DEF GatewayNext, StartGateway, ReadReady, StopGateway, Reserve, FirstHello,
         EndReservation, ReadRuntime, WriteQueue, FailLink, RuntimeFailed, ipcVars, hostVars
<1>2. /\ nextPlayer \in Nat /\ reservation \in [Ids -> {"none", "reserved", "joining", "active"}]
      /\ \A i \in Ids : reservation[i] # "none" => i <= nextPlayer
      /\ \A i \in Ids : i \in Nat
  BY BoundsAssumption DEF TypeOK, GatewayTypes, Awaited, Ids
<1>3. (gateway = "down" => queue = <<>> /\ reservation = NoReservation)'
      /\ \A i \in Ids : reservation'[i] # "none" => i <= nextPlayer'
  <2>1. CASE StartGateway
    <3>1. \A i \in Ids : reservation'[i] = "none"
      BY <2>1 DEF StartGateway, Awaited, NoReservation
    <3> QED
      BY <2>1, <3>1 DEF StartGateway
  <2>2. CASE StopGateway \/ RuntimeFailed
    BY <2>2 DEF StopGateway, RuntimeFailed, CloseLink, NoReservation
  <2>3. CASE Reserve
    <3>1. nextPlayer' = nextPlayer + 1 /\ gateway' = "serving"
          /\ reservation' = [reservation EXCEPT ![nextPlayer + 1] = "reserved"]
      BY <2>3 DEF Reserve
    <3> QED
      BY <1>2, <3>1
  <2>4. CASE \E p \in Ids : FirstHello(p) \/ EndReservation(p)
    <3>1. PICK p \in Ids : FirstHello(p) \/ EndReservation(p)
      BY <2>4
    <3>2. nextPlayer' = nextPlayer /\ gateway' = "serving"
          /\ reservation' \in {[reservation EXCEPT ![p] = "joining"], [reservation EXCEPT ![p] = "none"]}
          /\ reservation[p] # "none"
      BY <3>1 DEF FirstHello, EndReservation, Reserved
    <3> QED
      BY <1>2, <3>2
  <2>5. CASE ReadRuntime
    <3> DEFINE m == Head(down[generation])
    <3>1. nextPlayer' = nextPlayer /\ gateway' = "serving"
      BY <2>5 DEF ReadRuntime
    <3>2. \A i \in Ids : reservation'[i] # "none" => reservation[i] # "none"
      <4>1. \/ reservation' = reservation
            \/ reservation' = [reservation EXCEPT ![m.player] = "none"]
            \/ \E answer : reservation' = [reservation EXCEPT ![m.player] = IF @ = "joining" THEN answer ELSE @]
        BY <2>5 DEF ReadRuntime, Answered
      <4> QED
        BY <1>2, <4>1
    <3> QED
      BY <1>2, <3>1, <3>2
  <2>6. CASE ReadReady \/ WriteQueue \/ FailLink
    BY <1>2, <2>6 DEF ReadReady, WriteQueue, FailLink
  <2> QED
    BY <2>1, <2>2, <2>3, <2>4, <2>5, <2>6 DEF GatewayNext
<1>4. \A r : Waits(r)' <=> \E j \in joins : j[1] = r.request
  BY <1>1 DEF Waits
<1>5. (phase # "Connected" => outgoing = <<>> /\ joins = {})'
  BY <1>1 DEF Awaited
<1> QED
  BY <1>1, <1>3, <1>4, <1>5 DEF Awaited, Waits

\* What the session waits for.
Expected ==
  /\ \A k \in 1..Len(controls) : controls[k].kind = "join" <=> Waits(controls[k])
  /\ \A k \in 1..Len(results) : results[k].kind = "join" <=> Waits(results[k])
  /\ \A j, k \in 1..Len(controls) : controls[j].request = controls[k].request => j = k
  /\ \A j, k \in 1..Len(results) : results[j].request = results[k].request => j = k
  /\ \A j \in 1..Len(controls), k \in 1..Len(results) : controls[j].request # results[k].request

LEMMA AwaitedIs ==
  Awaited <=>
    /\ \A i \in Ids : reservation[i] # "none" => i <= nextPlayer
    /\ gateway = "down" => queue = <<>> /\ reservation = NoReservation
    /\ phase # "Connected" => outgoing = <<>> /\ joins = {}
    /\ phase = "Connected" => Expected
BY DEF Awaited, Expected

LEMMA MatchAwaited ==
  ASSUME Awaited, UNCHANGED gatewayVars,
         phase' # "Connected" => outgoing' = <<>> /\ joins' = {},
         phase' = "Connected" => Expected'
  PROVE  Awaited'
<1>1. /\ \A i \in Ids : reservation'[i] # "none" => i <= nextPlayer'
      /\ gateway' = "down" => queue' = <<>> /\ reservation' = NoReservation
  BY DEF Awaited, gatewayVars
<1> QED
  BY <1>1 DEF Awaited, Expected

LEMMA CloseAwaited ==
  ASSUME Awaited, UNCHANGED gatewayVars, Close
  PROVE  Awaited'
<1>1. phase' = "Closing" /\ outgoing' = <<>> /\ joins' = {}
  BY DEF Close
<1> QED
  BY <1>1, MatchAwaited

LEMMA ReceiveAwaited ==
  ASSUME TypeOK, Awaited, Receive
  PROVE  Awaited'
<1> DEFINE m == Head(up[connection])
           n == NewRequest
           control == [request |-> n, player |-> m.player, kind |-> m.kind, from |-> connection]
<1>1. phase = "Connected" /\ UNCHANGED <<gatewayVars, results>>
  BY DEF Receive
<1>2. \/ Close
      \/ /\ HostTakes /\ controls' = Append(controls, control)
         /\ joins' = IF m.kind = "join" THEN joins \cup {<<n, m.player>>} ELSE joins
         /\ UNCHANGED <<phase, outgoing>>
  BY DEF Receive, Stay
<1>3. CASE Close
  BY <1>1, <1>3, CloseAwaited
<1>4. CASE /\ HostTakes /\ controls' = Append(controls, control)
           /\ joins' = IF m.kind = "join" THEN joins \cup {<<n, m.player>>} ELSE joins
           /\ UNCHANGED <<phase, outgoing>>
  <2>1. /\ \A j \in joins : j[1] # n
        /\ \A k \in 1..Len(controls) : controls[k].request # n
        /\ \A k \in 1..Len(results) : results[k].request # n
    BY <1>4, FreshRequest DEF HostTakes, TypeOK
  <2>2. Expected
    BY <1>1, AwaitedIs
  <2>3. controls \in Seq(Control) /\ Len(controls) \in Nat
    BY DEF TypeOK, HostTypes
  <2> HIDE DEF n, m
  <2>4. /\ Len(controls') = Len(controls) + 1
        /\ \A k \in 1..Len(controls) : controls'[k] = controls[k]
        /\ controls'[Len(controls) + 1] = control
        /\ \A k \in 1..Len(controls') : k \in 1..Len(controls) \/ k = Len(controls) + 1
    BY <1>4, <2>3
  <2>5. control.request = n /\ control.kind = m.kind
    OBVIOUS
  <2> HIDE DEF control
  <2>6. ASSUME NEW r, r.request # n
        PROVE  (\E j \in joins' : j[1] = r.request) <=> Waits(r)
    BY <1>4, <2>6 DEF Waits
  <2>7. (\E j \in joins' : j[1] = n) <=> m.kind = "join"
    <3>1. CASE m.kind = "join"
      <4>1. <<n, m.player>> \in joins' /\ <<n, m.player>>[1] = n
        BY <1>4, <3>1
      <4> QED
        BY <3>1, <4>1
    <3>2. CASE m.kind # "join"
      BY <1>4, <2>1, <3>2
    <3> QED
      BY <3>1, <3>2
  <2>8. \A k \in 1..Len(controls') : controls'[k].kind = "join" <=> \E j \in joins' : j[1] = controls'[k].request
    BY <2>1, <2>2, <2>4, <2>5, <2>6, <2>7 DEF Expected
  <2>9. \A k \in 1..Len(results) : results[k].kind = "join" <=> \E j \in joins' : j[1] = results[k].request
    BY <2>1, <2>2, <2>6 DEF Expected
  <2>10. /\ \A j, k \in 1..Len(controls') : controls'[j].request = controls'[k].request => j = k
         /\ \A j \in 1..Len(controls'), k \in 1..Len(results) : controls'[j].request # results[k].request
    BY <2>1, <2>2, <2>4, <2>5 DEF Expected
  <2>11. Expected'
    BY <1>1, <2>2, <2>8, <2>9, <2>10 DEF Expected, Waits
  <2> QED
    BY <1>1, <1>4, <2>11, MatchAwaited
<1> QED
  BY <1>2, <1>3, <1>4

LEMMA PumpResultsAwaited ==
  ASSUME TypeOK, Awaited, PumpResults
  PROVE  Awaited'
<1>1. phase = "Connected" /\ results' = <<>> /\ UNCHANGED <<gatewayVars, controls>>
  BY DEF PumpResults
<1>2. \/ Close
      \/ /\ joins' = {j \in joins : \A k \in 1..Len(results) : results[k].request # j[1]}
         /\ phase' = phase
  BY DEF PumpResults
<1>3. CASE Close
  BY <1>1, <1>3, CloseAwaited
<1>4. CASE /\ joins' = {j \in joins : \A k \in 1..Len(results) : results[k].request # j[1]}
           /\ phase' = phase
  <2>1. Expected
    BY <1>1, AwaitedIs
  <2>2. \A k \in 1..Len(controls) :
          (\E j \in joins' : j[1] = controls[k].request) <=> Waits(controls[k])
    BY <1>4, <2>1 DEF Expected, Waits
  <2>3. Len(results') = 0
    BY <1>1
  <2>4. Expected'
    BY <1>1, <2>1, <2>2, <2>3 DEF Expected, Waits
  <2> QED
    BY <1>1, <1>4, <2>4, MatchAwaited
<1> QED
  BY <1>2, <1>3, <1>4

LEMMA StepControlAwaited ==
  ASSUME TypeOK, Awaited, StepControl
  PROVE  Awaited'
<1> DEFINE c == Head(controls)
           Answer(accepted) == [request |-> c.request, player |-> c.player,
                                kind |-> c.kind, from |-> c.from, accepted |-> accepted]
<1>1. /\ controls \in Seq(Control) /\ controls # <<>> /\ results \in Seq(Result) /\ controls' = Tail(controls)
      /\ UNCHANGED <<gatewayVars, phase, outgoing, joins>>
  BY DEF StepControl, TypeOK, HostTypes, ipcVars
<1>2. PICK accepted \in BOOLEAN : results' = Append(results, Answer(accepted))
  BY DEF StepControl
<1>3. CASE phase # "Connected"
  BY <1>1, <1>3, MatchAwaited, AwaitedIs
<1>4. CASE phase = "Connected"
  <2>1. Expected
    BY <1>4, AwaitedIs
  <2>2. /\ Len(controls) \in Nat /\ Len(controls') = Len(controls) - 1 /\ c = controls[1] /\ 1 \in 1..Len(controls)
        /\ \A k \in 1..Len(controls') : controls'[k] = controls[k + 1]
    BY <1>1
  <2>3. \A k \in 1..Len(controls') : k + 1 \in 1..Len(controls) /\ k + 1 # 1 /\ k \in Nat
    BY <2>2
  <2> DEFINE answer == Answer(accepted)
  <2>4. answer.request = c.request /\ answer.kind = c.kind
    OBVIOUS
  <2> HIDE DEF c, Answer, answer
  <2>5. /\ Len(results) \in Nat /\ Len(results') = Len(results) + 1 /\ results'[Len(results) + 1] = answer
        /\ \A k \in 1..Len(results) : results'[k] = results[k]
        /\ \A k \in 1..Len(results') : k \in 1..Len(results) \/ k = Len(results) + 1
    BY <1>1, <1>2 DEF answer
  <2>6. \A k \in 1..Len(controls') : controls'[k].kind = "join" <=> Waits(controls'[k])
    BY <2>1, <2>2, <2>3 DEF Expected
  <2>7. \A k \in 1..Len(results') : results'[k].kind = "join" <=> Waits(results'[k])
    <3>1. answer.kind = "join" <=> Waits(answer)
      BY <2>1, <2>2, <2>4 DEF Expected, Waits
    <3> QED
      BY <2>1, <2>5, <3>1 DEF Expected
  <2>8. \A j, k \in 1..Len(controls') : controls'[j].request = controls'[k].request => j = k
    <3> SUFFICES ASSUME NEW j \in 1..Len(controls'), NEW k \in 1..Len(controls'),
                        controls'[j].request = controls'[k].request
                 PROVE  j = k
      OBVIOUS
    <3>1. j + 1 = k + 1
      BY <2>1, <2>2, <2>3 DEF Expected
    <3> QED
      BY <2>3, <3>1
  <2>9. \A j, k \in 1..Len(results') : results'[j].request = results'[k].request => j = k
    BY <2>1, <2>2, <2>4, <2>5 DEF Expected
  <2>10. \A j \in 1..Len(controls'), k \in 1..Len(results') : controls'[j].request # results'[k].request
    <3> SUFFICES ASSUME NEW j \in 1..Len(controls'), NEW k \in 1..Len(results')
                 PROVE  controls'[j].request # results'[k].request
      OBVIOUS
    <3>1. controls'[j] = controls[j + 1] /\ j + 1 \in 1..Len(controls) /\ j + 1 # 1
      BY <2>2, <2>3
    <3>2. CASE k \in 1..Len(results)
      BY <2>1, <2>5, <3>1, <3>2 DEF Expected
    <3>3. CASE k = Len(results) + 1
      BY <2>1, <2>2, <2>4, <2>5, <3>1, <3>3 DEF Expected
    <3> QED
      BY <2>5, <3>2, <3>3
  <2>11. Expected'
    BY <1>1, <2>6, <2>7, <2>8, <2>9, <2>10 DEF Expected, Waits
  <2> QED
    BY <1>1, <1>4, <2>11, MatchAwaited
<1> QED
  BY <1>3, <1>4

LEMMA NextAwaited ==
  ASSUME TypeOK, Handshake, Awaited, [Next]_vars
  PROVE  Awaited'
<1>1. CASE GatewayNext
  BY <1>1, GatewayAwaited
<1>2. CASE Accept
  BY <1>2, MatchAwaited DEF Accept, Awaited
<1>3. CASE CheckReset
  <2>1. UNCHANGED <<gatewayVars, joins, controls, results>> /\ phase # "Connected" /\ outgoing = <<>> /\ joins = {}
    BY <1>3 DEF CheckReset, Awaited
  <2>2. CASE phase' = "Connected"
    <3>1. controls = <<>> /\ results = <<>>
      BY <1>3, <2>1, <2>2 DEF CheckReset, Handshake, HostEmpty
    <3>2. Len(controls') = 0 /\ Len(results') = 0
      BY <2>1, <3>1
    <3>3. Expected'
      BY <3>2 DEF Expected
    <3> QED
      BY <2>1, <2>2, <3>3, MatchAwaited
  <2>3. CASE phase' # "Connected"
    <3>1. outgoing' = <<>> /\ joins' = {}
      BY <1>3, <2>1, <2>3 DEF CheckReset
    <3> QED
      BY <2>1, <2>3, <3>1, MatchAwaited
  <2> QED
    BY <2>2, <2>3
<1>4. CASE EndSession
  BY <1>4, CloseAwaited DEF EndSession
<1>5. CASE PumpEvictions
  <2>1. CASE Close
    BY <1>5, <2>1, CloseAwaited DEF PumpEvictions
  <2>2. CASE ~Close
    BY <1>5, <2>2, MatchAwaited, AwaitedIs DEF PumpEvictions, Expected, Waits
  <2> QED
    BY <2>1, <2>2
<1>6. CASE Write
  BY <1>6, MatchAwaited, AwaitedIs DEF Write, hostVars, Expected, Waits
<1>7. CASE StepReset
  BY <1>7, MatchAwaited, AwaitedIs DEF StepReset, Handshake
<1>8. CASE StepEnd
  BY <1>8, MatchAwaited, AwaitedIs DEF StepEnd, Expected, Waits
<1>9. CASE UNCHANGED vars
  BY <1>9, MatchAwaited, AwaitedIs DEF vars, ipcVars, hostVars, Expected, Waits
<1> QED
  BY <1>1, <1>2, <1>3, <1>4, <1>5, <1>6, <1>7, <1>8, <1>9, ReceiveAwaited, PumpResultsAwaited,
     StepControlAwaited DEF Next, IpcNext, HostNext

LEMMA NextJoin ==
  ASSUME TypeOK, Handshake, OneJoin, Awaited, Company, [Next]_vars
  PROVE  OneJoin'
<1>1. CASE GatewayNext
  BY <1>1, StartGatewayJoin, ReadReadyJoin, StopGatewayJoin, ReserveJoin, FirstHelloJoin, EndReservationJoin,
     ReadRuntimeJoin, WriteQueueJoin, FailLinkJoin DEF GatewayNext
<1>2. CASE EndSession
  BY <1>2, CloseJoin DEF EndSession
<1>3. CASE UNCHANGED vars
  <2>1. UNCHANGED <<gatewayVars, up, down, connection, outgoing, controls, results, seated>>
    BY <1>3 DEF vars, wireVars, ipcVars, hostVars, historyVars
  <2> QED
    BY <2>1, MatchFewer DEF Relaying, Sat, JoinAnswer
<1> QED
  BY <1>1, <1>2, <1>3, AcceptJoin, CheckResetJoin, ReceiveJoin, PumpResultsJoin, PumpEvictionsJoin, WriteJoin,
     StepResetJoin, StepControlJoin, StepEndJoin DEF Next, IpcNext, HostNext

----------------------------------------------------------------------------
(* The company in the room.                                                *)

\* Until the reset that ends it has run, the content of the host stays of one connection.
LEMMA NextHost ==
  ASSUME TypeOK, Handshake, Company, [Next]_vars
  PROVE  \E g \in 0..MaxGenerations : HostOf(g)'
<1>1. Handshake' /\ TypeOK'
  BY NextTypes, NextHandshake
<1>2. HostEmpty' => HostOf(0)' /\ 0 \in 0..MaxGenerations
  BY BoundsAssumption DEF HostEmpty, HostOf
<1>3. CASE phase' \in {"Accepting", "Resetting"}
  BY <1>1, <1>2, <1>3 DEF Handshake
<1>4. CASE phase' = "Connected"
  <2>1. HostOf(connection)' /\ connection' \in 0..MaxGenerations
    BY <1>1, <1>4 DEF Handshake, TypeOK, IpcTypes
  <2> QED
    BY <2>1 DEF HostOf
<1>5. CASE phase' = "Closing"
  <2>1. PICK g \in 0..MaxGenerations : HostOf(g)
    BY DEF Company
  <2>2. CASE StepControl \/ StepEnd
    BY <2>1, <2>2, StepControlHost, StepEndHost
  <2>3. CASE StepReset
    BY <1>2, <2>3 DEF StepReset, HostEmpty
  <2>4. CASE GatewayNext
    <3>1. UNCHANGED hostVars
      BY <2>4 DEF GatewayNext, StartGateway, ReadReady, StopGateway, Reserve, FirstHello,
         EndReservation, ReadRuntime, WriteQueue, FailLink, RuntimeFailed
    <3> QED
      BY <2>1, <3>1 DEF hostVars, HostOf
  <2>5. CASE IpcNext \/ UNCHANGED vars
    <3>1. /\ UNCHANGED <<members, controls>>
          /\ results' \in {results, <<>>} /\ evictions' \in {evictions, <<>>}
      BY <1>5, <2>5 DEF IpcNext, Accept, CheckReset, Receive, EndSession, PumpResults, PumpEvictions, Write, Close,
         Stay, vars, hostVars
    <3>2. /\ \A k \in 1..Len(results') : results'[k].from = g
          /\ \A k \in 1..Len(evictions') : evictions'[k].from = g
      <4>1. Len(<<>>) = 0
        OBVIOUS
      <4> QED
        BY <2>1, <3>1, <4>1 DEF HostOf
    <3> QED
      BY <2>1, <3>1, <3>2 DEF HostOf
  <2> QED
    BY <2>2, <2>3, <2>4, <2>5 DEF Next, HostNext
<1> QED
  BY <1>1, <1>3, <1>4, <1>5 DEF TypeOK, IpcTypes

LEMMA NextCompany ==
  ASSUME TypeOK, Handshake, Company, [Next]_vars
  PROVE  Company'
<1>1. members' \subseteq seated'
  <2>1. members \subseteq seated
    BY DEF Company
  <2>2. CASE StepControl
    BY <2>1, <2>2 DEF StepControl
  <2>3. CASE StepEnd \/ StepReset
    BY <2>1, <2>3 DEF StepEnd, StepReset, historyVars
  <2>4. CASE GatewayNext \/ IpcNext \/ UNCHANGED vars
    <3>1. UNCHANGED <<members, seated>>
      BY <2>4 DEF GatewayNext, StartGateway, ReadReady, StopGateway, Reserve, FirstHello, EndReservation, ReadRuntime,
         WriteQueue, FailLink, RuntimeFailed, IpcNext, Accept, CheckReset, Receive, EndSession, PumpResults,
         PumpEvictions, Write, vars, hostVars, historyVars
    <3> QED
      BY <2>1, <3>1
  <2> QED
    BY <2>2, <2>3, <2>4 DEF Next, HostNext
<1> QED
  BY <1>1, NextHost DEF Company

\* No contract fails: a result finds its player joining or gone, a result the session does
\* not know is a Leave's, and no reset is requested while one is pending.
LEMMA NextNoFault ==
  ASSUME TypeOK, Handshake, OneJoin, Awaited, NoFault, [Next]_vars
  PROVE  NoFault'
<1>1. CASE ReadRuntime
  BY <1>1, ReadRuntimeJoin DEF NoFault
<1>2. CASE PumpResults
  <2>1. phase = "Connected" /\ ~pendingReset
    BY <1>2 DEF PumpResults, Handshake
  <2>2. ~(\E k \in 1..Len(results) : ~Waits(results[k]) /\ results[k].kind # "leave")
    <3>1. \A k \in 1..Len(results) : results[k].kind \in {"join", "leave"}
      <4> SUFFICES ASSUME NEW k \in 1..Len(results) PROVE results[k].kind \in {"join", "leave"}
        OBVIOUS
      <4>1. results \in Seq(Result)
        BY DEF TypeOK, HostTypes
      <4>2. results[k] \in Result
        BY <4>1
      <4> QED
        BY <4>2 DEF Result
    <3> QED
      BY <2>1, <3>1 DEF Awaited
  <2>3. Close \/ fault' = fault
    BY <1>2, <2>2 DEF PumpResults
  <2> QED
    BY <2>1, <2>3 DEF Close, RequestReset, NoFault
<1>3. CASE Accept \/ Receive \/ EndSession \/ PumpEvictions
  <2>1. ~pendingReset
    BY <1>3 DEF Accept, Receive, EndSession, PumpEvictions, Handshake
  <2>2. RequestReset \/ UNCHANGED fault
    BY <1>3 DEF Accept, Receive, EndSession, PumpEvictions, Close, Stay
  <2> QED
    BY <2>1, <2>2 DEF RequestReset, NoFault
<1>4. CASE \/ StartGateway \/ ReadReady \/ StopGateway \/ Reserve \/ (\E i \in Ids : FirstHello(i) \/ EndReservation(i))
           \/ WriteQueue \/ FailLink \/ RuntimeFailed \/ CheckReset \/ Write \/ HostNext \/ UNCHANGED vars
  BY <1>4 DEF StartGateway, ReadReady, StopGateway, Reserve, FirstHello, EndReservation, WriteQueue, FailLink,
     RuntimeFailed, CheckReset, Write, HostNext, StepReset, StepControl, StepEnd, vars, historyVars, NoFault
<1> QED
  BY <1>1, <1>2, <1>3, <1>4 DEF Next, GatewayNext, IpcNext

RoomInv == TypeOK /\ Handshake /\ OneJoin /\ Awaited /\ Company /\ NoFault

LEMMA InitRoom == Init => RoomInv
<1> SUFFICES ASSUME Init PROVE RoomInv
  OBVIOUS
<1>1. TypeOK /\ Handshake
  BY InitTypes DEF Init, Handshake, HostEmpty
<1>2. OneJoin
  <2> SUFFICES ASSUME NEW g \in Generations, NEW i \in Ids
               PROVE  Apart(i, g) /\ Singles(i, g)
    BY DEF OneJoin
  <2>1. /\ queue = <<>> /\ up[g] = <<>> /\ down[g] = <<>> /\ controls = <<>> /\ results = <<>> /\ outgoing = <<>>
        /\ seated = {} /\ reservation[i] = "none"
    BY DEF Init
  <2>2. Singles(i, g)
    BY <2>1, Nothing DEF Singles
  <2>3. /\ ~Queued(i, g) /\ ~Written(i, g) /\ ~Taken(i, g) /\ ~Decided(i, g) /\ ~Relaying(i, g)
        /\ ~Replied(i, g) /\ ~Sat(i, g)
    BY <2>1, Nothing DEF Queued, Written, Taken, Decided, Relaying, Replied, Sat
  <2> QED
    BY <2>2, <2>3 DEF Apart
<1>3. Awaited
  BY DEF Init, Awaited, NoReservation
<1>4. Company
  <2>1. HostOf(0) /\ 0 \in 0..MaxGenerations
    BY BoundsAssumption DEF Init, HostOf
  <2> QED
    BY <2>1 DEF Company, Init
<1> QED
  BY <1>1, <1>2, <1>3, <1>4 DEF RoomInv, NoFault, Init

LEMMA NextRoom == RoomInv /\ [Next]_vars => RoomInv'
BY NextTypes, NextHandshake, NextJoin, NextAwaited, NextCompany, NextNoFault DEF RoomInv

LEMMA AlwaysRoom == Spec => []RoomInv
BY InitRoom, NextRoom, PTL DEF Spec

\* No result reaches a player that is not joining (server.go:686-690), every result the session
\* does not know is a Leave's (IpcHost.cpp:720), and no reset is requested while one is pending
\* (MatchRuntimeHost.cpp:766), however processes, connections and steps interleave.
THEOREM AlwaysNoFault == Spec => []NoFault
<1>1. RoomInv => NoFault
  BY DEF RoomInv
<1> QED
  BY <1>1, AlwaysRoom, PTL

----------------------------------------------------------------------------
(* The room's promise.                                                     *)

LEMMA StepControlServes ==
  ASSUME RoomInv, StepControl
  PROVE  Service!Next \/ UNCHANGED <<members, seated>>
<1> DEFINE c == Head(controls)
           seat == [player |-> c.player, from |-> c.from]
<1>1. controls \in Seq(Control) /\ controls # <<>> /\ c \in Control /\ c = controls[1] /\ 1 \in 1..Len(controls)
      /\ members \in SUBSET Seats /\ members \subseteq seated
  BY DEF StepControl, RoomInv, TypeOK, HostTypes, Company
<1>2. PICK g \in 0..MaxGenerations : HostOf(g)
  BY DEF RoomInv, Company
<1>3. c.from = g /\ (\A m \in members : m.from = g) /\ c.player \in Ids /\ c.from \in Generations
  BY <1>1, <1>2 DEF HostOf, Control
<1>4. \/ c.kind = "leave" /\ members' = {m \in members : m.player # c.player} /\ UNCHANGED seated
      \/ /\ c.kind = "join"
         /\ Present(c.player) \/ ~Full
         /\ members' = IF Present(c.player) THEN members ELSE members \cup {seat}
         /\ seated' = seated \cup members'
      \/ UNCHANGED <<members, seated>>
  BY DEF StepControl
<1>5. CASE c.kind = "leave" /\ members' = {m \in members : m.player # c.player} /\ UNCHANGED seated
  <2>1. CASE seat \in members
    <3>1. \A m \in members : m.player = c.player <=> m = seat
      BY <1>1, <1>3 DEF Seats
    <3>2. members' = members \ {seat}
      BY <1>5, <3>1
    <3> QED
      BY <1>5, <2>1, <3>2 DEF Service!Next, Service!Stand
  <2>2. CASE seat \notin members
    <3>1. \A m \in members : m.player # c.player
      BY <1>1, <1>3, <2>2 DEF Seats
    <3> QED
      BY <1>5, <3>1
  <2> QED
    BY <2>1, <2>2
<1>6. CASE /\ c.kind = "join"
           /\ Present(c.player) \/ ~Full
           /\ members' = IF Present(c.player) THEN members ELSE members \cup {seat}
           /\ seated' = seated \cup members'
  <2>1. CASE Present(c.player)
    BY <1>1, <1>6, <2>1
  <2>2. CASE ~Present(c.player)
    <3>1. seat \notin seated
      <4>1. Apart(c.player, c.from)
        BY <1>3 DEF RoomInv, OneJoin
      <4>2. c \in JoinControl(c.player, c.from)
        BY <1>1, <1>6 DEF JoinControl, Control
      <4>3. controls[1] \in JoinControl(c.player, c.from)
        BY <1>1, <4>2
      <4>4. Taken(c.player, c.from)
        BY <1>1, <4>3 DEF Taken, Has
      <4> QED
        BY <4>1, <4>4 DEF Apart, Sat
    <3>2. Cardinality(members) < MaxPlayers
      <4>1. Cardinality(members) \in Nat
        BY <1>1, SeatsFinite, FS_Subset, FS_CardinalityType
      <4> QED
        BY <1>6, <2>2, <4>1, BoundsAssumption DEF Full
    <3>3. \A other \in members : other.from = seat.from /\ other.player # seat.player
      BY <1>3, <2>2 DEF Present
    <3>4. seat \in Seats
      BY <1>3 DEF Seats
    <3>5. members' = members \cup {seat} /\ seated' = seated \cup {seat}
      BY <1>1, <1>6, <2>2
    <3> HIDE DEF seat
    <3>6. Service!Cardinality(members) = Cardinality(members)
      BY DEF Service!Cardinality, Cardinality
    <3>7. Service!Sit(seat)
      BY <3>1, <3>2, <3>3, <3>5, <3>6 DEF Service!Sit
    <3> QED
      BY <3>4, <3>7 DEF Service!Next
  <2> QED
    BY <2>1, <2>2
<1> QED
  BY <1>4, <1>5, <1>6

LEMMA NextServes ==
  ASSUME RoomInv, [Next]_vars
  PROVE  [Service!Next]_<<members, seated>>
<1>1. CASE StepReset
  <2>1. members' = members \ members /\ seated' = seated
    BY <1>1 DEF StepReset, historyVars
  <2> QED
    BY <2>1 DEF Service!Next, Service!Stand
<1>2. CASE StepEnd
  <2>1. PICK evicted \in {{}} \cup {{m} : m \in members} : members' = members \ evicted
    BY <1>2 DEF StepEnd
  <2>2. seated' = seated
    BY <1>2 DEF StepEnd, historyVars
  <2>3. CASE evicted = {}
    BY <2>1, <2>2, <2>3
  <2>4. CASE evicted # {}
    <3>1. PICK m \in members : evicted = {m}
      BY <2>1, <2>4
    <3> QED
      BY <2>1, <2>2, <3>1 DEF Service!Next, Service!Stand
  <2> QED
    BY <2>3, <2>4
<1>3. CASE GatewayNext \/ IpcNext \/ UNCHANGED vars
  BY <1>3 DEF GatewayNext, StartGateway, ReadReady, StopGateway, Reserve, FirstHello, EndReservation, ReadRuntime,
     WriteQueue, FailLink, RuntimeFailed, IpcNext, Accept, CheckReset, Receive, EndSession, PumpResults,
     PumpEvictions, Write, vars, hostVars, historyVars
<1> QED
  BY <1>1, <1>2, <1>3, StepControlServes DEF Next, HostNext

\* The Match as a whole keeps the room's promise: whoever is seated was never seated before, in a
\* free seat, beside players of the same process only (PvpMatch::Join behind IpcHost and Server).
THEOREM ImplementsRoom == Spec => ServiceSpec
<1>1. Init => Service!Init
  BY DEF Init, Service!Init
<1>2. RoomInv /\ [Next]_vars => [Service!Next]_<<members, seated>>
  BY NextServes
<1> QED
  BY <1>1, <1>2, AlwaysRoom, PTL DEF Spec, ServiceSpec, Service!Spec

----------------------------------------------------------------------------
(* Connections in the order of the processes.                              *)

\* The Match accepts each process once, and closes only what it has accepted; no step is
\* under way while a reset is pending.
InTurn ==
  /\ connection <= generation
  /\ phase \in {"Accepting", "Closing"} => connection = 0
  /\ \A k \in 1..Len(backlog) : backlog[k] <= generation /\ backlog[k] # connection
  /\ \A j, k \in 1..Len(backlog) : backlog[j] = backlog[k] => j = k
  /\ \A g \in Generations : "match" \in closedBy[g] =>
       g <= generation /\ g # connection /\ \A k \in 1..Len(backlog) : backlog[k] # g
  /\ pendingReset => ~stepping

\* A process whose session has not begun has asked nothing and heard nothing.
Unbegun(g) ==
  \/ g > generation
  \/ \E k \in 1..Len(backlog) : backlog[k] = g
  \/ g = connection /\ phase = "Resetting"

Unheard ==
  \A g \in Generations : Unbegun(g) =>
    /\ up[g] = <<>> /\ down[g] = <<>> /\ g \notin overflowed
    /\ g = generation => gateway \in {"dialing", "down"} /\ queue = <<>>

\* The Gateway reserves no more than the room seats.
FewReserved == Cardinality(Reserved) <= MaxPlayers

LEMMA BacklogIs ==
  ASSUME TypeOK
  PROVE  Len(backlog) \in Nat /\ \A k \in 1..Len(backlog) : backlog[k] \in Generations /\ backlog[k] \in Nat \ {0}
<1>1. backlog \in Seq(Generations)
  BY DEF TypeOK, WireTypes
<1>2. Len(backlog) \in Nat /\ \A k \in 1..Len(backlog) : backlog[k] \in Generations
  BY <1>1
<1> QED
  BY <1>2, BoundsAssumption DEF Generations

\* What InTurn reads, while the Match accepts and closes nothing.
LEMMA TurnKept ==
  ASSUME InTurn, UNCHANGED <<generation, backlog, connection>>,
         phase' \in {"Accepting", "Closing"} => phase \in {"Accepting", "Closing"},
         \A g \in Generations : "match" \in closedBy'[g] => "match" \in closedBy[g],
         pendingReset' => ~stepping'
  PROVE  InTurn'
BY DEF InTurn

LEMMA CloseTurn ==
  ASSUME TypeOK, InTurn, phase = "Connected", ~stepping, Close, UNCHANGED <<generation, backlog, stepping>>
  PROVE  InTurn'
<1>0. connection' = 0 /\ phase' = "Closing" /\ closedBy' = [closedBy EXCEPT ![connection] = @ \cup {"match"}]
  BY DEF Close
<1>1. connection \in Generations /\ connection \in Nat
  BY BoundsAssumption DEF TypeOK, IpcTypes, Generations
<1>2. closedBy \in [Generations -> SUBSET {"gateway", "match"}] /\ generation \in Nat
  BY BoundsAssumption DEF TypeOK, WireTypes, GatewayTypes
<1>3. \A k \in 1..Len(backlog) : backlog[k] # 0
  BY BacklogIs
<1>4. ASSUME NEW g \in Generations, "match" \in closedBy'[g]
      PROVE  g <= generation /\ g # 0 /\ \A k \in 1..Len(backlog) : backlog[k] # g
  <2>1. CASE g = connection
    BY <1>1, <2>1 DEF InTurn, Generations
  <2>2. CASE g # connection
    <3>1. "match" \in closedBy[g]
      BY <1>0, <1>1, <1>2, <1>4, <2>2
    <3> QED
      BY <3>1 DEF InTurn, Generations
  <2> QED
    BY <2>1, <2>2
<1> QED
  BY <1>0, <1>2, <1>3, <1>4 DEF InTurn

LEMMA GatewayTurn ==
  ASSUME TypeOK, InTurn, GatewayNext
  PROVE  InTurn'
<1>1. UNCHANGED <<connection, phase, pendingReset, stepping>>
  BY DEF GatewayNext, StartGateway, ReadReady, StopGateway, Reserve, FirstHello, EndReservation, ReadRuntime,
         WriteQueue, FailLink, RuntimeFailed, ipcVars, hostVars
<1>2. CASE StartGateway
  <2>1. /\ generation \in Nat /\ generation' = generation + 1 /\ closedBy' = closedBy /\ connection \in Nat
        /\ backlog \in Seq(Generations) /\ backlog' = Append(backlog, generation + 1)
    BY <1>2, BoundsAssumption DEF StartGateway, TypeOK, GatewayTypes, WireTypes, IpcTypes
  <2>2. /\ Len(backlog) \in Nat /\ Len(backlog') = Len(backlog) + 1
        /\ \A k \in 1..Len(backlog') :
             \/ k = Len(backlog) + 1 /\ backlog'[k] = generation + 1
             \/ k \in 1..Len(backlog) /\ backlog'[k] = backlog[k]
    BY <2>1
  <2>3. \A k \in 1..Len(backlog) : backlog[k] \in Nat /\ backlog[k] <= generation
    BY BacklogIs DEF InTurn
  <2>4. \A k \in 1..Len(backlog') : backlog'[k] <= generation' /\ backlog'[k] # connection
    BY <2>1, <2>2, <2>3 DEF InTurn
  <2>5. \A j, k \in 1..Len(backlog') : backlog'[j] = backlog'[k] => j = k
    <3> SUFFICES ASSUME NEW j \in 1..Len(backlog'), NEW k \in 1..Len(backlog'), backlog'[j] = backlog'[k]
                 PROVE  j = k
      OBVIOUS
    <3>1. CASE j = Len(backlog) + 1 \/ k = Len(backlog) + 1
      BY <2>1, <2>2, <2>3, <3>1
    <3>2. CASE j \in 1..Len(backlog) /\ k \in 1..Len(backlog)
      BY <2>2, <3>2 DEF InTurn
    <3> QED
      BY <2>2, <3>1, <3>2
  <2>6. \A g \in Generations : "match" \in closedBy'[g] =>
          g <= generation' /\ g # connection /\ \A k \in 1..Len(backlog') : backlog'[k] # g
    <3> SUFFICES ASSUME NEW g \in Generations, "match" \in closedBy[g]
                 PROVE  g <= generation' /\ g # connection /\ \A k \in 1..Len(backlog') : backlog'[k] # g
      BY <2>1
    <3>1. g <= generation /\ g # connection /\ (\A k \in 1..Len(backlog) : backlog[k] # g) /\ g \in Nat
      BY DEF InTurn, Generations
    <3> QED
      BY <2>1, <2>2, <3>1
  <2>7. connection <= generation'
    BY <2>1 DEF InTurn
  <2> QED
    BY <1>1, <2>4, <2>5, <2>6, <2>7 DEF InTurn
<1>3. CASE ~StartGateway
  <2>1. UNCHANGED <<generation, backlog>>
    BY <1>3 DEF GatewayNext, ReadReady, StopGateway, Reserve, FirstHello, EndReservation, ReadRuntime,
       WriteQueue, FailLink, RuntimeFailed, CloseLink, wireVars
  <2>2. closedBy' = closedBy \/ closedBy' = [closedBy EXCEPT ![generation] = @ \cup {"gateway"}]
    BY <1>3 DEF GatewayNext, ReadReady, StopGateway, Reserve, FirstHello, EndReservation, ReadRuntime,
       WriteQueue, FailLink, RuntimeFailed, CloseLink, wireVars
  <2>3. \A g \in Generations : "match" \in closedBy'[g] => "match" \in closedBy[g]
    BY <2>2 DEF TypeOK, WireTypes
  <2>4. pendingReset' => ~stepping'
    BY <1>1 DEF InTurn
  <2> QED
    BY <1>1, <2>1, <2>3, <2>4, TurnKept
<1> QED
  BY <1>2, <1>3

LEMMA NextTurn ==
  ASSUME TypeOK, InTurn, [Next]_vars
  PROVE  InTurn'
<1>1. CASE GatewayNext
  BY <1>1, GatewayTurn
<1>2. CASE Accept
  <2>1. /\ phase' = "Resetting" /\ backlog # <<>> /\ backlog \in Seq(Generations) /\ connection' = Head(backlog)
        /\ backlog' = Tail(backlog) /\ generation' = generation /\ closedBy' = closedBy /\ ~stepping'
    BY <1>2 DEF Accept, HostFree, gatewayVars, TypeOK, WireTypes
  <2>2. /\ Len(backlog) \in Nat /\ Len(backlog) > 0 /\ connection' = backlog[1] /\ 1 \in 1..Len(backlog)
        /\ \A k \in 1..Len(backlog') : backlog'[k] = backlog[k + 1] /\ k + 1 \in 1..Len(backlog) /\ k + 1 # 1 /\ k \in Nat
    BY <2>1
  <2>3. \A k \in 1..Len(backlog') : backlog'[k] <= generation /\ backlog'[k] # connection'
    BY <2>2 DEF InTurn
  <2>4. \A j, k \in 1..Len(backlog') : backlog'[j] = backlog'[k] => j = k
    <3> SUFFICES ASSUME NEW j \in 1..Len(backlog'), NEW k \in 1..Len(backlog'), backlog'[j] = backlog'[k]
                 PROVE  j = k
      OBVIOUS
    <3>1. j + 1 = k + 1
      BY <2>2 DEF InTurn
    <3> QED
      BY <2>2, <3>1
  <2>5. connection' <= generation
    BY <2>2 DEF InTurn
  <2>6. \A g \in Generations : "match" \in closedBy[g] =>
          g <= generation /\ g # connection' /\ \A k \in 1..Len(backlog') : backlog'[k] # g
    BY <2>2 DEF InTurn
  <2> QED
    BY <2>1, <2>3, <2>4, <2>5, <2>6 DEF InTurn
<1>3. CASE CheckReset
  BY <1>3, TurnKept DEF CheckReset, gatewayVars, wireVars, InTurn
<1>4. CASE Receive \/ EndSession \/ PumpResults \/ PumpEvictions
  <2>1. phase = "Connected" /\ ~stepping /\ UNCHANGED <<generation, backlog, stepping>>
    BY <1>4 DEF Receive, EndSession, PumpResults, PumpEvictions, HostFree, gatewayVars
  <2>2. CASE Close
    BY <2>1, <2>2, CloseTurn
  <2>3. CASE UNCHANGED <<connection, phase, closedBy, pendingReset>>
    BY <2>1, <2>3, TurnKept DEF InTurn
  <2> QED
    BY <1>4, <2>2, <2>3 DEF Receive, EndSession, PumpResults, PumpEvictions, Stay
<1>5. CASE Write \/ UNCHANGED vars
  BY <1>5, TurnKept DEF Write, vars, gatewayVars, wireVars, ipcVars, hostVars, InTurn
<1>6. CASE HostNext
  <2>1. UNCHANGED <<generation, backlog, connection, phase, closedBy>>
    BY <1>6 DEF HostNext, StepReset, StepControl, StepEnd, gatewayVars, wireVars, ipcVars
  <2>2. pendingReset' => ~stepping'
    BY <1>6 DEF HostNext, StepReset, StepControl, StepEnd, InTurn
  <2> QED
    BY <2>1, <2>2, TurnKept
<1> QED
  BY <1>1, <1>2, <1>3, <1>4, <1>5, <1>6 DEF Next, IpcNext

\* A process whose session has begun: what it does touches nothing that is Unbegun.
LEMMA NextUnheard ==
  ASSUME TypeOK, InTurn, Awaited, Unheard, [Next]_vars
  PROVE  Unheard'
<1> SUFFICES ASSUME NEW g \in Generations, Unbegun(g)'
             PROVE  /\ up'[g] = <<>> /\ down'[g] = <<>> /\ g \notin overflowed'
                    /\ g = generation' => gateway' \in {"dialing", "down"} /\ queue' = <<>>
  BY DEF Unheard
<1>1. /\ up \in [Generations -> Seq(Asks)] /\ down \in [Generations -> Seq(Answers)]
      /\ generation \in Nat /\ connection \in Nat /\ g \in Nat /\ g # 0
  BY BoundsAssumption DEF TypeOK, WireTypes, GatewayTypes, IpcTypes, Generations
<1>2. Unbegun(g) => /\ up[g] = <<>> /\ down[g] = <<>> /\ g \notin overflowed
                    /\ g = generation => gateway \in {"dialing", "down"} /\ queue = <<>>
  BY DEF Unheard
<1>3. CASE StartGateway
  <2>1. /\ generation' = generation + 1 /\ backlog' = Append(backlog, generation + 1) /\ backlog \in Seq(Generations)
        /\ gateway = "down" /\ gateway' = "dialing" /\ UNCHANGED <<queue, up, down, overflowed, connection, phase>>
    BY <1>3 DEF StartGateway, ipcVars, historyVars, TypeOK, WireTypes
  <2>2. Unbegun(g)
    <3>1. ASSUME NEW k \in 1..Len(backlog'), backlog'[k] = g
          PROVE  g > generation \/ \E j \in 1..Len(backlog) : backlog[j] = g
      <4>1. \/ k = Len(backlog) + 1 /\ g = generation + 1
            \/ k \in 1..Len(backlog) /\ backlog[k] = g
        BY <2>1, <3>1
      <4> QED
        BY <1>1, <4>1
    <3>2. g > generation' => g > generation
      BY <1>1, <2>1
    <3> QED
      BY <2>1, <3>1, <3>2 DEF Unbegun
  <2>3. queue = <<>>
    BY <2>1 DEF Awaited
  <2> QED
    BY <1>2, <2>1, <2>2, <2>3
<1>4. CASE GatewayNext /\ ~StartGateway
  <2>1. UNCHANGED <<generation, backlog, connection, phase>>
    BY <1>4 DEF GatewayNext, ReadReady, StopGateway, Reserve, FirstHello, EndReservation, ReadRuntime,
       WriteQueue, FailLink, RuntimeFailed, CloseLink, wireVars, ipcVars
  <2>2. Unbegun(g)
    BY <2>1 DEF Unbegun
  <2>3. CASE g # generation
    <3>1. /\ up' = up \/ \E e : up' = [up EXCEPT ![generation] = e]
          /\ down' = down \/ \E e : down' = [down EXCEPT ![generation] = e]
          /\ overflowed' \subseteq overflowed \cup {generation}
      BY <1>4 DEF GatewayNext, ReadReady, StopGateway, Reserve, FirstHello, EndReservation, ReadRuntime,
         WriteQueue, FailLink, RuntimeFailed, CloseLink, SendControl, wireVars, historyVars
    <3>2. up'[g] = up[g] /\ down'[g] = down[g]
      BY <1>1, <2>3, <3>1
    <3> QED
      BY <1>2, <2>1, <2>2, <2>3, <3>1, <3>2
  <2>4. CASE g = generation
    <3>1. up[generation] = <<>> /\ down[generation] = <<>> /\ gateway \in {"dialing", "down"} /\ queue = <<>>
      BY <1>2, <2>2, <2>4
    <3>2. StopGateway
      BY <1>4, <3>1 DEF GatewayNext, ReadReady, Reserve, FirstHello, EndReservation, ReadRuntime,
         WriteQueue, FailLink, RuntimeFailed
    <3>3. PICK kept \in Prefixes(up[generation]) : up' = [up EXCEPT ![generation] = kept]
      BY <3>2 DEF StopGateway, CloseLink
    <3>4. kept = <<>>
      <4>1. PICK n \in 0..Len(<<>>) : kept = SubSeq(<<>>, 1, n)
        BY <3>1, <3>3 DEF Prefixes
      <4>2. n = 0 /\ SubSeq(<<>>, 1, 0) = <<>>
        BY <4>1
      <4> QED
        BY <4>1, <4>2
    <3>5. down' = [down EXCEPT ![generation] = <<>>] /\ overflowed' = overflowed /\ gateway' = "down" /\ queue' = <<>>
      BY <3>2 DEF StopGateway, CloseLink, historyVars
    <3> QED
      BY <1>1, <1>2, <2>2, <2>4, <3>3, <3>4, <3>5
  <2> QED
    BY <2>3, <2>4
<1>5. CASE Accept
  <2>1. /\ backlog # <<>> /\ backlog \in Seq(Generations) /\ connection' = Head(backlog) /\ backlog' = Tail(backlog)
        /\ UNCHANGED <<generation, gateway, queue, up, down, overflowed>>
    BY <1>5 DEF Accept, gatewayVars, TypeOK, WireTypes
  <2>2. /\ connection' = backlog[1] /\ 1 \in 1..Len(backlog)
        /\ \A k \in 1..Len(backlog') : backlog'[k] = backlog[k + 1] /\ k + 1 \in 1..Len(backlog)
    BY <2>1
  <2>3. Unbegun(g)
    BY <2>1, <2>2 DEF Unbegun
  <2> QED
    BY <1>2, <2>1, <2>3
<1>6. CASE CheckReset \/ HostNext \/ UNCHANGED vars
  <2>1. /\ UNCHANGED <<generation, backlog, connection, gateway, queue, up, down, overflowed>>
        /\ phase' = "Resetting" => phase = "Resetting"
    BY <1>6 DEF CheckReset, HostNext, StepReset, StepControl, StepEnd, vars, gatewayVars, wireVars, ipcVars, historyVars
  <2>2. Unbegun(g)
    BY <2>1 DEF Unbegun
  <2> QED
    BY <1>2, <2>1, <2>2
<1>7. CASE Receive \/ EndSession \/ PumpResults \/ PumpEvictions \/ Write
  <2>1. phase = "Connected" /\ UNCHANGED <<generation, backlog, gateway, queue, overflowed>>
    BY <1>7 DEF Receive, EndSession, PumpResults, PumpEvictions, Write, gatewayVars, historyVars
  <2>2. /\ up' = up \/ \E e : up' = [up EXCEPT ![connection] = e]
        /\ down' = down \/ \E e : down' = [down EXCEPT ![connection] = e]
        /\ phase' \in {"Connected", "Closing"}
    BY <1>7 DEF Receive, EndSession, PumpResults, PumpEvictions, Write, Close, Stay
  <2>3. Unbegun(g)
    BY <2>1, <2>2 DEF Unbegun
  <2>4. g # connection
    BY <1>1, <2>1, <2>3 DEF Unbegun, InTurn
  <2>5. up'[g] = up[g] /\ down'[g] = down[g]
    BY <1>1, <2>2, <2>4
  <2> QED
    BY <1>2, <2>1, <2>3, <2>5
<1> QED
  BY <1>3, <1>4, <1>5, <1>6, <1>7 DEF Next, IpcNext

LEMMA NextFewReserved ==
  ASSUME TypeOK, FewReserved, [Next]_vars
  PROVE  FewReserved'
<1>1. IsFiniteSet(Ids) /\ Reserved \subseteq Ids /\ IsFiniteSet(Reserved) /\ Cardinality(Reserved) \in Nat
      /\ reservation \in [Ids -> {"none", "reserved", "joining", "active"}]
  <2>1. IsFiniteSet(Ids)
    BY BoundsAssumption, FS_Interval DEF Ids
  <2>2. Reserved \subseteq Ids
    BY DEF Reserved
  <2> QED
    BY <2>1, <2>2, FS_Subset, FS_CardinalityType DEF TypeOK, GatewayTypes
<1>2. CASE Reserve
  <2>1. /\ Cardinality(Reserved) < MaxPlayers
        /\ reservation' = [reservation EXCEPT ![nextPlayer + 1] = "reserved"]
    BY <1>2 DEF Reserve
  <2>2. Reserved' \subseteq Reserved \cup {nextPlayer + 1}
    BY <1>1, <2>1 DEF Reserved
  <2>3. IsFiniteSet(Reserved \cup {nextPlayer + 1}) /\ Cardinality(Reserved \cup {nextPlayer + 1}) <= Cardinality(Reserved) + 1
        /\ Cardinality(Reserved \cup {nextPlayer + 1}) \in Nat
    BY <1>1, FS_AddElement, FS_CardinalityType
  <2>4. Cardinality(Reserved') <= Cardinality(Reserved \cup {nextPlayer + 1}) /\ Cardinality(Reserved') \in Nat
    BY <2>2, <2>3, FS_Subset, FS_CardinalityType
  <2>5. MaxPlayers \in Nat
    BY BoundsAssumption
  <2> QED
    BY <1>1, <2>1, <2>3, <2>4, <2>5 DEF FewReserved
<1>3. CASE ~Reserve
  <2>1. Reserved' \subseteq Reserved
    <3>1. CASE StopGateway \/ RuntimeFailed
      BY <3>1 DEF StopGateway, RuntimeFailed, NoReservation, Reserved
    <3>2. CASE \E p \in Ids : FirstHello(p) \/ EndReservation(p)
      BY <1>1, <3>2 DEF FirstHello, EndReservation, Reserved
    <3>3. CASE ReadRuntime
      <4>1. \/ reservation' = reservation
            \/ \E p : reservation' = [reservation EXCEPT ![p] = "none"]
            \/ \E p : reservation[p] = "joining" /\ \E answer : reservation' = [reservation EXCEPT ![p] = answer]
            \/ \E p : reservation[p] # "joining" /\ reservation' = [reservation EXCEPT ![p] = @]
        BY <3>3 DEF ReadRuntime, Answered
      <4> QED
        BY <1>1, <4>1 DEF Reserved
    <3>4. CASE UNCHANGED reservation
      BY <3>4 DEF Reserved
    <3> QED
      BY <1>3, <3>1, <3>2, <3>3, <3>4 DEF Next, GatewayNext, IpcNext, HostNext, StartGateway, ReadReady, WriteQueue,
         FailLink, Accept, CheckReset, Receive, EndSession, PumpResults, PumpEvictions, Write, StepReset, StepControl,
         StepEnd, gatewayVars, vars
  <2>2. Cardinality(Reserved') <= Cardinality(Reserved) /\ Cardinality(Reserved') \in Nat
    BY <1>1, <2>1, FS_Subset, FS_CardinalityType
  <2> QED
    BY <1>1, <2>2, BoundsAssumption DEF FewReserved
<1> QED
  BY <1>2, <1>3

----------------------------------------------------------------------------
(* The asks that the room has not taken.                                   *)

\* In order: the controls, what is written, and what is queued.
Line(c, u, q) ==
  [k \in 1..(Len(c) + Len(u) + Len(q)) |->
     IF k <= Len(c) THEN Msg(c[k].kind, c[k].player)
     ELSE IF k <= Len(c) + Len(u) THEN u[k - Len(c)] ELSE q[k - (Len(c) + Len(u))]]

\* Player i is in the room when it held the players M and has taken k asks of line s.
In(s, M, i, k) ==
  \/ \E j \in 1..k : s[j] = Msg("join", i) /\ \A l \in (j + 1)..k : s[l] # Msg("leave", i)
  \/ i \in M /\ \A l \in 1..k : s[l] # Msg("leave", i)

\* However many are taken, the room seats everyone.
Room(s, M, k) == {i \in Ids : In(s, M, i, k)}
Fits(s, M) == \A k \in 0..Len(s) : Cardinality(Room(s, M, k)) <= MaxPlayers

LEMMA LineIs ==
  ASSUME NEW c \in Seq(Control), NEW u \in Seq(Asks), NEW q \in Seq(Asks)
  PROVE  /\ Len(c) \in Nat /\ Len(u) \in Nat /\ Len(q) \in Nat
         /\ Len(Line(c, u, q)) = Len(c) + Len(u) + Len(q)
         /\ \A k \in 1..(Len(c) + Len(u) + Len(q)) : Line(c, u, q)[k] =
              IF k <= Len(c) THEN Msg(c[k].kind, c[k].player)
              ELSE IF k <= Len(c) + Len(u) THEN u[k - Len(c)] ELSE q[k - (Len(c) + Len(u))]
         /\ Line(c, u, q) \in Seq(Asks)
<1>1. Len(c) \in Nat /\ Len(u) \in Nat /\ Len(q) \in Nat
  OBVIOUS
<1> DEFINE n == Len(c) + Len(u) + Len(q)
<1>2. n \in Nat
  BY <1>1
<1>3. \A k \in 1..Len(c) : Msg(c[k].kind, c[k].player) \in Asks
  <2> SUFFICES ASSUME NEW k \in 1..Len(c) PROVE Msg(c[k].kind, c[k].player) \in Asks
    OBVIOUS
  <2>1. c[k] \in Control
    OBVIOUS
  <2> QED
    BY <2>1 DEF Control, Asks, Msg
<1>4. \A k \in 1..Len(u) : u[k] \in Asks
  OBVIOUS
<1>5. \A k \in 1..Len(q) : q[k] \in Asks
  OBVIOUS
<1>6. ASSUME NEW k \in 1..n
      PROVE  (IF k <= Len(c) THEN Msg(c[k].kind, c[k].player)
              ELSE IF k <= Len(c) + Len(u) THEN u[k - Len(c)] ELSE q[k - (Len(c) + Len(u))]) \in Asks
  BY <1>1, <1>3, <1>4, <1>5
<1>7. Line(c, u, q) = [k \in 1..n |-> IF k <= Len(c) THEN Msg(c[k].kind, c[k].player)
                         ELSE IF k <= Len(c) + Len(u) THEN u[k - Len(c)] ELSE q[k - (Len(c) + Len(u))]]
  BY DEF Line
<1> HIDE DEF n
<1>8. Line(c, u, q) \in [1..n -> Asks]
  BY <1>6, <1>7
<1>9. Line(c, u, q) \in Seq(Asks) /\ Len(Line(c, u, q)) = n
  BY <1>2, <1>8
<1> QED
  BY <1>1, <1>7, <1>9 DEF n

LEMMA SameLine ==
  ASSUME NEW S, NEW s \in Seq(S), NEW t \in Seq(S), Len(s) = Len(t), \A k \in 1..Len(s) : s[k] = t[k]
  PROVE  s = t
<1>1. s = [k \in 1..Len(s) |-> s[k]] /\ t = [k \in 1..Len(t) |-> t[k]]
  OBVIOUS
<1> QED
  BY <1>1

\* One more is asked.
LEMMA LineAsked ==
  ASSUME NEW c \in Seq(Control), NEW u \in Seq(Asks), NEW q \in Seq(Asks), NEW m \in Asks
  PROVE  Line(c, u, Append(q, m)) = Append(Line(c, u, q), m)
<1>1. /\ Append(q, m) \in Seq(Asks) /\ Len(Append(q, m)) = Len(q) + 1 /\ Len(q) \in Nat
      /\ \A k \in 1..(Len(q) + 1) : Append(q, m)[k] = IF k <= Len(q) THEN q[k] ELSE m
  OBVIOUS
<1> DEFINE s == Line(c, u, q)
           t == Line(c, u, Append(q, m))
<1>2. /\ s \in Seq(Asks) /\ Len(s) = Len(c) + Len(u) + Len(q) /\ Len(c) \in Nat /\ Len(u) \in Nat
      /\ \A k \in 1..Len(s) : s[k] =
           IF k <= Len(c) THEN Msg(c[k].kind, c[k].player)
           ELSE IF k <= Len(c) + Len(u) THEN u[k - Len(c)] ELSE q[k - (Len(c) + Len(u))]
  BY LineIs
<1>3. /\ t \in Seq(Asks) /\ Len(t) = Len(c) + Len(u) + (Len(q) + 1)
      /\ \A k \in 1..Len(t) : t[k] =
           IF k <= Len(c) THEN Msg(c[k].kind, c[k].player)
           ELSE IF k <= Len(c) + Len(u) THEN u[k - Len(c)] ELSE Append(q, m)[k - (Len(c) + Len(u))]
  <2> DEFINE r == Append(q, m)
  <2>1. r \in Seq(Asks) /\ Len(r) = Len(q) + 1
    BY <1>1
  <2> HIDE DEF r
  <2>2. /\ Line(c, u, r) \in Seq(Asks) /\ Len(Line(c, u, r)) = Len(c) + Len(u) + Len(r)
        /\ \A k \in 1..(Len(c) + Len(u) + Len(r)) : Line(c, u, r)[k] =
             IF k <= Len(c) THEN Msg(c[k].kind, c[k].player)
             ELSE IF k <= Len(c) + Len(u) THEN u[k - Len(c)] ELSE r[k - (Len(c) + Len(u))]
    BY <2>1, LineIs
  <2> QED
    BY <2>1, <2>2 DEF r
<1> HIDE DEF s, t
<1>4. /\ Append(s, m) \in Seq(Asks) /\ Len(Append(s, m)) = Len(s) + 1
      /\ \A k \in 1..Len(s) : Append(s, m)[k] = s[k]
      /\ Append(s, m)[Len(s) + 1] = m
  <2>1. s \in Seq(Asks)
    BY <1>2
  <2> QED
    BY <2>1
<1>5. ASSUME NEW k \in 1..Len(t)
      PROVE  t[k] = Append(s, m)[k]
  <2>1. CASE k \in 1..Len(s)
    <3>1. k <= Len(c) + Len(u) \/ k - (Len(c) + Len(u)) \in 1..Len(q)
      BY <1>1, <1>2, <2>1
    <3>2. k > Len(c) + Len(u) => Append(q, m)[k - (Len(c) + Len(u))] = q[k - (Len(c) + Len(u))]
      BY <1>1, <1>2, <2>1, <3>1
    <3>3. t[k] = IF k <= Len(c) THEN Msg(c[k].kind, c[k].player)
                 ELSE IF k <= Len(c) + Len(u) THEN u[k - Len(c)] ELSE Append(q, m)[k - (Len(c) + Len(u))]
      BY <1>3
    <3>4. t[k] = IF k <= Len(c) THEN Msg(c[k].kind, c[k].player)
                 ELSE IF k <= Len(c) + Len(u) THEN u[k - Len(c)] ELSE q[k - (Len(c) + Len(u))]
      <4>1. CASE k > Len(c) + Len(u)
        BY <3>2, <3>3, <4>1
      <4>2. CASE ~(k > Len(c) + Len(u))
        <5>1. k <= Len(c) + Len(u)
          BY <1>2, <2>1, <4>2
        <5> QED
          BY <3>3, <5>1
      <4> QED
        BY <4>1, <4>2
    <3>5. t[k] = s[k]
      BY <1>2, <2>1, <3>4
    <3> QED
      BY <1>4, <2>1, <3>5
  <2>2. CASE k = Len(s) + 1
    <3>1. k - (Len(c) + Len(u)) = Len(q) + 1 /\ k > Len(c) + Len(u) /\ k > Len(c)
      BY <1>1, <1>2, <2>2
    <3>2. t[k] = Append(q, m)[Len(q) + 1]
      BY <1>1, <1>2, <1>3, <3>1
    <3> QED
      BY <1>1, <1>4, <2>2, <3>2
  <2>3. k \in 1..Len(s) \/ k = Len(s) + 1
    BY <1>1, <1>2, <1>3
  <2> QED
    BY <2>1, <2>2, <2>3
<1>6. Len(t) = Len(Append(s, m))
  BY <1>1, <1>2, <1>3, <1>4
<1>7. t = Append(s, m)
  BY <1>3, <1>4, <1>5, <1>6, SameLine
<1> QED
  BY <1>7 DEF s, t

\* The writer writes the queue.
LEMMA LineWritten ==
  ASSUME NEW c \in Seq(Control), NEW u \in Seq(Asks), NEW q \in Seq(Asks)
  PROVE  Line(c, u \o q, <<>>) = Line(c, u, q)
<1>1. /\ u \o q \in Seq(Asks) /\ Len(u \o q) = Len(u) + Len(q) /\ Len(u) \in Nat /\ Len(q) \in Nat
      /\ \A k \in 1..Len(u) + Len(q) : (u \o q)[k] = IF k <= Len(u) THEN u[k] ELSE q[k - Len(u)]
      /\ <<>> \in Seq(Asks) /\ Len(<<>>) = 0
  OBVIOUS
<1> DEFINE s == Line(c, u, q)
           t == Line(c, u \o q, <<>>)
<1>2. /\ s \in Seq(Asks) /\ Len(s) = Len(c) + Len(u) + Len(q) /\ Len(c) \in Nat
      /\ \A k \in 1..Len(s) : s[k] =
           IF k <= Len(c) THEN Msg(c[k].kind, c[k].player)
           ELSE IF k <= Len(c) + Len(u) THEN u[k - Len(c)] ELSE q[k - (Len(c) + Len(u))]
  BY LineIs
<1>3. /\ t \in Seq(Asks) /\ Len(t) = Len(c) + (Len(u) + Len(q)) + 0
      /\ \A k \in 1..Len(t) : t[k] =
           IF k <= Len(c) THEN Msg(c[k].kind, c[k].player)
           ELSE IF k <= Len(c) + (Len(u) + Len(q)) THEN (u \o q)[k - Len(c)]
           ELSE <<>>[k - (Len(c) + (Len(u) + Len(q)))]
  <2> DEFINE r == u \o q
             e == <<>>
  <2>1. r \in Seq(Asks) /\ Len(r) = Len(u) + Len(q) /\ e \in Seq(Asks) /\ Len(e) = 0
    BY <1>1
  <2> HIDE DEF r, e
  <2>2. /\ Line(c, r, e) \in Seq(Asks) /\ Len(Line(c, r, e)) = Len(c) + Len(r) + Len(e)
        /\ \A k \in 1..(Len(c) + Len(r) + Len(e)) : Line(c, r, e)[k] =
             IF k <= Len(c) THEN Msg(c[k].kind, c[k].player)
             ELSE IF k <= Len(c) + Len(r) THEN r[k - Len(c)] ELSE e[k - (Len(c) + Len(r))]
    BY <2>1, LineIs
  <2> QED
    BY <2>1, <2>2 DEF r, e
<1> HIDE DEF s, t
<1>4. Len(t) = Len(s)
  BY <1>1, <1>2, <1>3
<1>5. ASSUME NEW k \in 1..Len(t)
      PROVE  t[k] = s[k]
  <2>1. CASE k <= Len(c)
    BY <1>2, <1>3, <1>4, <2>1
  <2>2. CASE k > Len(c)
    <3>1. /\ k - Len(c) \in 1..Len(u) + Len(q) /\ k <= Len(c) + (Len(u) + Len(q)) /\ ~(k <= Len(c))
          /\ (k - Len(c)) - Len(u) = k - (Len(c) + Len(u))
          /\ k - Len(c) <= Len(u) <=> k <= Len(c) + Len(u)
      BY <1>1, <1>2, <1>3, <2>2
    <3>2. t[k] = (u \o q)[k - Len(c)]
      BY <1>3, <3>1
    <3>3. t[k] = IF k - Len(c) <= Len(u) THEN u[k - Len(c)] ELSE q[(k - Len(c)) - Len(u)]
      BY <1>1, <3>1, <3>2
    <3> QED
      BY <1>2, <1>4, <3>1, <3>3
  <2> QED
    BY <1>2, <1>3, <2>1, <2>2
<1>6. t = s
  BY <1>2, <1>3, <1>4, <1>5, SameLine
<1> QED
  BY <1>6 DEF s, t

\* The host takes what was written first.
LEMMA LineReceived ==
  ASSUME NEW c \in Seq(Control), NEW u \in Seq(Asks), NEW q \in Seq(Asks), NEW x \in Control,
         u # <<>>, Msg(x.kind, x.player) = Head(u)
  PROVE  Line(Append(c, x), Tail(u), q) = Line(c, u, q)
<1>1. /\ Tail(u) \in Seq(Asks) /\ Len(Tail(u)) = Len(u) - 1 /\ Len(u) \in Nat /\ Len(u) > 0 /\ Head(u) = u[1]
      /\ \A k \in 1..Len(u) - 1 : Tail(u)[k] = u[k + 1]
      /\ Append(c, x) \in Seq(Control) /\ Len(Append(c, x)) = Len(c) + 1 /\ Len(c) \in Nat
      /\ \A k \in 1..Len(c) : Append(c, x)[k] = c[k]
      /\ Append(c, x)[Len(c) + 1] = x
  OBVIOUS
<1> DEFINE s == Line(c, u, q)
           t == Line(Append(c, x), Tail(u), q)
<1>2. /\ s \in Seq(Asks) /\ Len(s) = Len(c) + Len(u) + Len(q) /\ Len(q) \in Nat
      /\ \A k \in 1..Len(s) : s[k] =
           IF k <= Len(c) THEN Msg(c[k].kind, c[k].player)
           ELSE IF k <= Len(c) + Len(u) THEN u[k - Len(c)] ELSE q[k - (Len(c) + Len(u))]
  BY LineIs
<1>3. /\ t \in Seq(Asks) /\ Len(t) = (Len(c) + 1) + (Len(u) - 1) + Len(q)
      /\ \A k \in 1..Len(t) : t[k] =
           IF k <= Len(c) + 1 THEN Msg(Append(c, x)[k].kind, Append(c, x)[k].player)
           ELSE IF k <= (Len(c) + 1) + (Len(u) - 1) THEN Tail(u)[k - (Len(c) + 1)]
           ELSE q[k - ((Len(c) + 1) + (Len(u) - 1))]
  <2> DEFINE r == Append(c, x)
             v == Tail(u)
  <2>1. r \in Seq(Control) /\ Len(r) = Len(c) + 1 /\ v \in Seq(Asks) /\ Len(v) = Len(u) - 1
    BY <1>1
  <2> HIDE DEF r, v
  <2>2. /\ Line(r, v, q) \in Seq(Asks) /\ Len(Line(r, v, q)) = Len(r) + Len(v) + Len(q)
        /\ \A k \in 1..(Len(r) + Len(v) + Len(q)) : Line(r, v, q)[k] =
             IF k <= Len(r) THEN Msg(r[k].kind, r[k].player)
             ELSE IF k <= Len(r) + Len(v) THEN v[k - Len(r)] ELSE q[k - (Len(r) + Len(v))]
    BY <2>1, LineIs
  <2> QED
    BY <2>1, <2>2 DEF r, v
<1> HIDE DEF s, t
<1>4. Len(t) = Len(s) /\ (Len(c) + 1) + (Len(u) - 1) = Len(c) + Len(u)
  BY <1>1, <1>2, <1>3
<1>5. ASSUME NEW k \in 1..Len(t)
      PROVE  t[k] = s[k]
  <2>1. CASE k <= Len(c)
    <3>1. k \in 1..Len(c) /\ k <= Len(c) + 1
      BY <1>1, <1>2, <1>4, <2>1
    <3>2. s[k] = Msg(c[k].kind, c[k].player)
      BY <1>2, <1>4, <3>1
    <3>3. t[k] = Msg(Append(c, x)[k].kind, Append(c, x)[k].player)
      BY <1>3, <3>1
    <3>4. Append(c, x)[k] = c[k]
      BY <1>1, <3>1
    <3> QED
      BY <3>2, <3>3, <3>4
  <2>2. CASE k = Len(c) + 1
    <3>1. ~(k <= Len(c)) /\ k <= Len(c) + Len(u) /\ k - Len(c) = 1 /\ k <= Len(c) + 1
      BY <1>1, <2>2
    <3>2. s[k] = u[1]
      BY <1>2, <1>4, <3>1
    <3>3. t[k] = Msg(x.kind, x.player)
      BY <1>1, <1>3, <2>2, <3>1
    <3> QED
      BY <1>1, <3>2, <3>3
  <2>3. CASE k > Len(c) + 1 /\ k <= Len(c) + Len(u)
    <3>1. ~(k <= Len(c)) /\ ~(k <= Len(c) + 1) /\ k - (Len(c) + 1) \in 1..Len(u) - 1 /\ (k - (Len(c) + 1)) + 1 = k - Len(c)
      BY <1>1, <1>2, <1>4, <2>3
    <3>2. t[k] = Tail(u)[k - (Len(c) + 1)]
      BY <1>3, <1>4, <2>3, <3>1
    <3>3. s[k] = u[k - Len(c)]
      BY <1>2, <1>4, <2>3, <3>1
    <3> QED
      BY <1>1, <3>1, <3>2, <3>3
  <2>4. CASE k > Len(c) + Len(u)
    <3>1. ~(k <= Len(c)) /\ ~(k <= Len(c) + 1) /\ ~(k <= Len(c) + Len(u))
      BY <1>1, <1>2, <1>4, <2>4
    <3> QED
      BY <1>2, <1>3, <1>4, <3>1
  <2> QED
    BY <1>1, <1>2, <1>4, <2>1, <2>2, <2>3, <2>4
<1>6. t = s
  BY <1>2, <1>3, <1>4, <1>5, SameLine
<1> QED
  BY <1>6 DEF s, t

\* The tick takes a control.
LEMMA LineTail ==
  ASSUME NEW c \in Seq(Control), NEW u \in Seq(Asks), NEW q \in Seq(Asks), c # <<>>
  PROVE  /\ Line(c, u, q) # <<>> /\ Line(c, u, q)[1] = Msg(Head(c).kind, Head(c).player)
         /\ Line(Tail(c), u, q) = Tail(Line(c, u, q))
<1>1. /\ Tail(c) \in Seq(Control) /\ Len(Tail(c)) = Len(c) - 1 /\ Len(c) \in Nat /\ Len(c) > 0 /\ Head(c) = c[1]
      /\ \A k \in 1..Len(c) - 1 : Tail(c)[k] = c[k + 1]
  OBVIOUS
<1> DEFINE r == Tail(c)
           s == Line(c, u, q)
           t == Line(r, u, q)
<1>2. /\ s \in Seq(Asks) /\ Len(s) = Len(c) + Len(u) + Len(q) /\ Len(u) \in Nat /\ Len(q) \in Nat
      /\ \A k \in 1..Len(s) : s[k] =
           IF k <= Len(c) THEN Msg(c[k].kind, c[k].player)
           ELSE IF k <= Len(c) + Len(u) THEN u[k - Len(c)] ELSE q[k - (Len(c) + Len(u))]
  BY LineIs
<1> HIDE DEF r
<1>3. /\ t \in Seq(Asks) /\ Len(t) = Len(r) + Len(u) + Len(q)
      /\ \A k \in 1..Len(t) : t[k] =
           IF k <= Len(r) THEN Msg(r[k].kind, r[k].player)
           ELSE IF k <= Len(r) + Len(u) THEN u[k - Len(r)] ELSE q[k - (Len(r) + Len(u))]
  <2>1. r \in Seq(Control)
    BY <1>1 DEF r
  <2>2. /\ Line(r, u, q) \in Seq(Asks) /\ Len(Line(r, u, q)) = Len(r) + Len(u) + Len(q)
        /\ \A k \in 1..(Len(r) + Len(u) + Len(q)) : Line(r, u, q)[k] =
             IF k <= Len(r) THEN Msg(r[k].kind, r[k].player)
             ELSE IF k <= Len(r) + Len(u) THEN u[k - Len(r)] ELSE q[k - (Len(r) + Len(u))]
    BY <2>1, LineIs
  <2> QED
    BY <2>2
<1>4. Len(r) = Len(c) - 1 /\ \A k \in 1..Len(c) - 1 : r[k] = c[k + 1]
  BY <1>1 DEF r
<1> HIDE DEF s, t
<1>5. s # <<>> /\ s[1] = Msg(Head(c).kind, Head(c).player)
  <2>1. 1 \in 1..Len(s) /\ 1 <= Len(c)
    BY <1>1, <1>2
  <2>2. Len(<<>>) = 0
    OBVIOUS
  <2> QED
    BY <1>1, <1>2, <2>1, <2>2
<1>6. /\ Tail(s) \in Seq(Asks) /\ Len(Tail(s)) = Len(s) - 1
      /\ \A k \in 1..Len(Tail(s)) : Tail(s)[k] = s[k + 1]
  BY <1>2, <1>5
<1>7. Len(t) = Len(Tail(s))
  BY <1>1, <1>2, <1>3, <1>4, <1>6
<1>8. ASSUME NEW k \in 1..Len(t)
      PROVE  t[k] = Tail(s)[k]
  <2>1. /\ k + 1 \in 1..Len(s) /\ k \in Nat /\ Tail(s)[k] = s[k + 1]
        /\ k <= Len(r) <=> k + 1 <= Len(c)
        /\ k <= Len(r) + Len(u) <=> k + 1 <= Len(c) + Len(u)
        /\ k - Len(r) = (k + 1) - Len(c) /\ k - (Len(r) + Len(u)) = (k + 1) - (Len(c) + Len(u))
    BY <1>1, <1>2, <1>4, <1>6, <1>7
  <2>2. CASE k <= Len(r)
    <3>1. k \in 1..Len(c) - 1
      BY <1>1, <1>4, <2>1, <2>2
    <3> QED
      BY <1>2, <1>3, <1>4, <2>1, <2>2, <3>1
  <2>3. CASE ~(k <= Len(r))
    BY <1>2, <1>3, <2>1, <2>3
  <2> QED
    BY <2>2, <2>3
<1>9. t = Tail(s)
  BY <1>3, <1>6, <1>7, <1>8, SameLine
<1> QED
  BY <1>5, <1>9 DEF s, t, r

Begins(t, s) == Len(t) <= Len(s) /\ \A k \in 1..Len(t) : t[k] = s[k]

\* A link that closes loses the end of the line.
LEMMA LineCut ==
  ASSUME NEW c \in Seq(Control), NEW u \in Seq(Asks), NEW q \in Seq(Asks), NEW p \in Prefixes(u)
  PROVE  Begins(Line(c, p, <<>>), Line(c, u, q))
<1>1. PICK n \in 0..Len(u) : p = SubSeq(u, 1, n)
  BY DEF Prefixes
<1>2. Len(p) = n /\ n \in Nat /\ n <= Len(u) /\ Len(u) \in Nat /\ p \in Seq(Asks) /\ \A k \in 1..n : p[k] = u[k]
  BY <1>1
<1> DEFINE e == <<>>
           s == Line(c, u, q)
           t == Line(c, p, e)
<1>3. e \in Seq(Asks) /\ Len(e) = 0
  OBVIOUS
<1> HIDE DEF e
<1>4. /\ s \in Seq(Asks) /\ Len(s) = Len(c) + Len(u) + Len(q) /\ Len(c) \in Nat /\ Len(q) \in Nat
      /\ \A k \in 1..Len(s) : s[k] =
           IF k <= Len(c) THEN Msg(c[k].kind, c[k].player)
           ELSE IF k <= Len(c) + Len(u) THEN u[k - Len(c)] ELSE q[k - (Len(c) + Len(u))]
  BY LineIs
<1>5. /\ Len(t) = Len(c) + Len(p) + Len(e)
      /\ \A k \in 1..Len(t) : t[k] =
           IF k <= Len(c) THEN Msg(c[k].kind, c[k].player)
           ELSE IF k <= Len(c) + Len(p) THEN p[k - Len(c)] ELSE e[k - (Len(c) + Len(p))]
  <2>1. p \in Seq(Asks) /\ e \in Seq(Asks)
    BY <1>2, <1>3
  <2>2. /\ Len(Line(c, p, e)) = Len(c) + Len(p) + Len(e)
        /\ \A k \in 1..(Len(c) + Len(p) + Len(e)) : Line(c, p, e)[k] =
             IF k <= Len(c) THEN Msg(c[k].kind, c[k].player)
             ELSE IF k <= Len(c) + Len(p) THEN p[k - Len(c)] ELSE e[k - (Len(c) + Len(p))]
    BY <2>1, LineIs
  <2> QED
    BY <2>2
<1> HIDE DEF s, t
<1>6. Len(t) = Len(c) + n
  BY <1>2, <1>3, <1>4, <1>5
<1>7. ASSUME NEW k \in 1..Len(t)
      PROVE  t[k] = s[k]
  <2>1. k \in Nat /\ k \in 1..Len(s) /\ k <= Len(c) + Len(p) /\ k <= Len(c) + Len(u)
    BY <1>2, <1>4, <1>6
  <2>2. CASE k <= Len(c)
    BY <1>4, <1>5, <2>1, <2>2
  <2>3. CASE ~(k <= Len(c))
    <3>1. k - Len(c) \in 1..n
      BY <1>4, <1>6, <2>1, <2>3
    <3> QED
      BY <1>2, <1>4, <1>5, <2>1, <2>3, <3>1
  <2> QED
    BY <2>2, <2>3
<1>8. Len(t) <= Len(s)
  BY <1>2, <1>4, <1>6
<1> QED
  BY <1>7, <1>8 DEF Begins, s, t, e

LEMMA LineEmpty == Line(<<>>, <<>>, <<>>) = <<>>
<1> DEFINE e == <<>>
<1>1. e \in Seq(Asks) /\ e \in Seq(Control) /\ Len(e) = 0
  OBVIOUS
<1> HIDE DEF e
<1>2. Line(e, e, e) \in Seq(Asks) /\ Len(Line(e, e, e)) = Len(e) + Len(e) + Len(e)
  BY <1>1, LineIs
<1>3. Line(e, e, e) = e
  <2>1. Len(Line(e, e, e)) = 0
    BY <1>1, <1>2
  <2> QED
    BY <1>2, <2>1 DEF e
<1> QED
  BY <1>3 DEF e

\* The rest of the line, from the room that its first ask left.
LEMMA InTail ==
  ASSUME NEW s \in Seq(Asks), s # <<>>, NEW M, NEW N, \A i \in N : In(s, M, i, 1), NEW i, NEW k \in Nat, k < Len(s),
         In(Tail(s), N, i, k)
  PROVE  In(s, M, i, k + 1)
<1>1. /\ Len(s) \in Nat /\ Len(Tail(s)) = Len(s) - 1
      /\ \A l \in 1..k : Tail(s)[l] = s[l + 1]
  OBVIOUS
<1>2. CASE \E j \in 1..k : Tail(s)[j] = Msg("join", i) /\ \A l \in (j + 1)..k : Tail(s)[l] # Msg("leave", i)
  <2>1. PICK j \in 1..k : Tail(s)[j] = Msg("join", i) /\ \A l \in (j + 1)..k : Tail(s)[l] # Msg("leave", i)
    BY <1>2
  <2>2. j + 1 \in 1..(k + 1) /\ s[j + 1] = Msg("join", i)
    BY <1>1, <2>1
  <2>3. ASSUME NEW l \in ((j + 1) + 1)..(k + 1)
        PROVE  s[l] # Msg("leave", i)
    <3>1. l - 1 \in (j + 1)..k /\ l - 1 \in 1..k /\ (l - 1) + 1 = l
      OBVIOUS
    <3> QED
      BY <1>1, <2>1, <3>1
  <2> QED
    BY <2>2, <2>3 DEF In
<1>3. CASE i \in N /\ \A l \in 1..k : Tail(s)[l] # Msg("leave", i)
  <2>1. ASSUME NEW l \in 2..(k + 1)
        PROVE  s[l] # Msg("leave", i)
    <3>1. l - 1 \in 1..k /\ (l - 1) + 1 = l
      OBVIOUS
    <3> QED
      BY <1>1, <1>3, <3>1
  <2>2. In(s, M, i, 1)
    BY <1>3
  <2>3. CASE s[1] = Msg("join", i)
    <3>1. 1 \in 1..(k + 1) /\ 1 + 1 = 2
      OBVIOUS
    <3> QED
      BY <2>1, <2>3, <3>1 DEF In
  <2>4. CASE s[1] # Msg("join", i)
    <3>1. i \in M /\ s[1] # Msg("leave", i)
      <4>1. \A j \in 1..1 : j = 1
        OBVIOUS
      <4>2. 1 \in 1..1
        OBVIOUS
      <4> QED
        BY <2>2, <2>4, <4>1, <4>2 DEF In
    <3>2. \A l \in 1..(k + 1) : l = 1 \/ l \in 2..(k + 1)
      OBVIOUS
    <3> QED
      BY <2>1, <3>1, <3>2 DEF In
  <2> QED
    BY <2>3, <2>4
<1> QED
  BY <1>2, <1>3 DEF In

LEMMA InBegun ==
  ASSUME NEW s \in Seq(Asks), NEW t, Begins(t, s), NEW M, NEW i, NEW k \in Nat, k <= Len(t), Len(t) \in Nat
  PROVE  In(t, M, i, k) <=> In(s, M, i, k)
<1>1. \A j \in 1..k : t[j] = s[j]
  BY DEF Begins
<1>2. \A j \in 1..k : \A l \in (j + 1)..k : l \in 1..k
  OBVIOUS
<1> QED
  BY <1>1, <1>2 DEF In

LEMMA InAppended ==
  ASSUME NEW s \in Seq(Asks), NEW m \in Asks, NEW M, NEW i, In(Append(s, m), M, i, Len(s) + 1)
  PROVE  m = Msg("join", i) \/ (In(s, M, i, Len(s)) /\ m # Msg("leave", i))
<1>1. /\ Len(s) \in Nat /\ Append(s, m)[Len(s) + 1] = m
      /\ \A k \in 1..Len(s) : Append(s, m)[k] = s[k]
  OBVIOUS
<1> DEFINE t == Append(s, m)
           n == Len(s)
<1> SUFFICES ASSUME m # Msg("join", i)
             PROVE  In(s, M, i, n) /\ m # Msg("leave", i)
  OBVIOUS
<1> HIDE DEF t
<1>2. t[n + 1] = m /\ \A k \in 1..n : t[k] = s[k]
  BY <1>1 DEF t
<1>3. CASE \E j \in 1..(n + 1) : t[j] = Msg("join", i) /\ \A l \in (j + 1)..(n + 1) : t[l] # Msg("leave", i)
  <2>1. PICK j \in 1..(n + 1) : t[j] = Msg("join", i) /\ \A l \in (j + 1)..(n + 1) : t[l] # Msg("leave", i)
    BY <1>3
  <2>2. j # n + 1
    BY <1>2, <2>1
  <2>3. j \in 1..n /\ n + 1 \in (j + 1)..(n + 1) /\ \A l \in (j + 1)..n : l \in (j + 1)..(n + 1) /\ l \in 1..n
    BY <1>1, <2>2
  <2> QED
    BY <1>2, <2>1, <2>3 DEF In
<1>4. CASE i \in M /\ \A l \in 1..(n + 1) : t[l] # Msg("leave", i)
  <2>1. n + 1 \in 1..(n + 1) /\ \A l \in 1..n : l \in 1..(n + 1)
    BY <1>1
  <2> QED
    BY <1>2, <1>4, <2>1 DEF In
<1>5. In(t, M, i, n + 1)
  BY DEF t
<1> QED
  BY <1>3, <1>4, <1>5 DEF In

LEMMA FewerFit ==
  ASSUME NEW R \in SUBSET Ids, NEW T \in SUBSET R, Cardinality(R) <= MaxPlayers
  PROVE  Cardinality(T) <= MaxPlayers
<1>1. IsFiniteSet(Ids)
  BY BoundsAssumption, FS_Interval DEF Ids
<1>2. IsFiniteSet(R) /\ Cardinality(T) <= Cardinality(R)
  BY <1>1, FS_Subset
<1>3. Cardinality(R) \in Nat /\ Cardinality(T) \in Nat
  BY <1>1, FS_Subset, FS_CardinalityType
<1> QED
  BY <1>2, <1>3, BoundsAssumption

LEMMA FitsTail ==
  ASSUME NEW s \in Seq(Asks), s # <<>>, NEW M, NEW N, \A i \in N : In(s, M, i, 1), Fits(s, M)
  PROVE  Fits(Tail(s), N)
<1> SUFFICES ASSUME NEW k \in 0..Len(Tail(s))
             PROVE  Cardinality(Room(Tail(s), N, k)) <= MaxPlayers
  BY DEF Fits
<1>1. k \in Nat /\ k < Len(s) /\ k + 1 \in 0..Len(s)
  <2>1. Len(s) \in Nat /\ Len(Tail(s)) = Len(s) - 1
    OBVIOUS
  <2> QED
    BY <2>1
<1>2. Room(Tail(s), N, k) \subseteq Room(s, M, k + 1)
  BY <1>1, InTail DEF Room
<1>3. Cardinality(Room(s, M, k + 1)) <= MaxPlayers
  BY <1>1 DEF Fits
<1>4. Room(s, M, k + 1) \subseteq Ids
  BY DEF Room
<1> QED
  BY <1>2, <1>3, <1>4, FewerFit

LEMMA FitsBegun ==
  ASSUME NEW s \in Seq(Asks), NEW t \in Seq(Asks), Begins(t, s), NEW M, NEW N \in SUBSET M, Fits(s, M)
  PROVE  Fits(t, N)
<1> SUFFICES ASSUME NEW k \in 0..Len(t)
             PROVE  Cardinality(Room(t, N, k)) <= MaxPlayers
  BY DEF Fits
<1>1. k \in Nat /\ k <= Len(t) /\ Len(t) \in Nat /\ k \in 0..Len(s)
  BY DEF Begins
<1>2. \A i : In(t, N, i, k) => In(s, N, i, k)
  BY <1>1, InBegun
<1>3. \A i : In(s, N, i, k) => In(s, M, i, k)
  BY DEF In
<1>4. Room(t, N, k) \subseteq Room(s, M, k) /\ Room(s, M, k) \subseteq Ids
  BY <1>2, <1>3 DEF Room
<1>5. Cardinality(Room(s, M, k)) <= MaxPlayers
  BY <1>1 DEF Fits
<1> QED
  BY <1>4, <1>5, FewerFit

LEMMA FitsAppended ==
  ASSUME NEW s \in Seq(Asks), NEW m \in Asks, NEW M, Fits(s, M), NEW R \in SUBSET Ids, Cardinality(R) <= MaxPlayers,
         Room(Append(s, m), M, Len(s) + 1) \subseteq R
  PROVE  Fits(Append(s, m), M)
<1>1. Len(s) \in Nat /\ Len(Append(s, m)) = Len(s) + 1 /\ Append(s, m) \in Seq(Asks) /\ Begins(s, Append(s, m))
  BY DEF Begins
<1> SUFFICES ASSUME NEW k \in 0..(Len(s) + 1)
             PROVE  Cardinality(Room(Append(s, m), M, k)) <= MaxPlayers
  BY <1>1 DEF Fits
<1>2. CASE k \in 0..Len(s)
  <2> DEFINE r == Append(s, m)
  <2>0. r \in Seq(Asks) /\ Begins(s, r) /\ k \in Nat /\ k <= Len(s)
    BY <1>1, <1>2
  <2> HIDE DEF r
  <2>1. \A i : In(s, M, i, k) <=> In(r, M, i, k)
    BY <1>1, <2>0, InBegun
  <2>2. Room(Append(s, m), M, k) = Room(s, M, k)
    BY <2>1 DEF Room, r
  <2> QED
    BY <1>2, <2>2 DEF Fits
<1>3. CASE k = Len(s) + 1
  BY <1>3, FewerFit
<1> QED
  BY <1>1, <1>2, <1>3

LEMMA FitsEmpty == Fits(<<>>, {})
<1>1. Len(<<>>) = 0 /\ \A k \in 0..0 : k = 0
  OBVIOUS
<1>2. \A j, l : ~(j \in 1..0)
  OBVIOUS
<1>3. \A i : ~In(<<>>, {}, i, 0)
  BY <1>2 DEF In
<1>4. Room(<<>>, {}, 0) = {}
  BY <1>3 DEF Room
<1>5. Cardinality({}) <= MaxPlayers
  BY FS_EmptySet, BoundsAssumption
<1> QED
  BY <1>1, <1>4, <1>5 DEF Fits

----------------------------------------------------------------------------
(* The asks and the room of the session.                                   *)

Players == {m.player : m \in members}
QueueOf == IF connection = generation THEN queue ELSE <<>>
Asked == Line(controls, up[connection], QueueOf)
InSession == phase = "Connected" /\ connection = generation

\* A process that waits for its session has reserved nothing.
Idle == gateway = "dialing" => reservation = NoReservation

LEMMA AskedIs ==
  ASSUME TypeOK, phase = "Connected"
  PROVE  /\ connection \in Generations /\ connection \in Nat /\ connection # 0
         /\ controls \in Seq(Control) /\ up[connection] \in Seq(Asks) /\ queue \in Seq(Asks) /\ QueueOf \in Seq(Asks)
         /\ Asked \in Seq(Asks) /\ Len(Asked) \in Nat /\ up \in [Generations -> Seq(Asks)]
<1>1. connection \in Generations /\ connection \in Nat /\ connection # 0
  BY BoundsAssumption DEF TypeOK, IpcTypes, Generations
<1>2. controls \in Seq(Control) /\ up \in [Generations -> Seq(Asks)] /\ up[connection] \in Seq(Asks) /\ queue \in Seq(Asks)
  BY <1>1 DEF TypeOK, HostTypes, WireTypes, GatewayTypes
<1>3. <<>> \in Seq(Asks)
  OBVIOUS
<1>4. QueueOf \in Seq(Asks)
  BY <1>2, <1>3 DEF QueueOf
<1>5. Asked \in Seq(Asks)
  BY <1>2, <1>4, LineIs DEF Asked
<1>6. Len(Asked) \in Nat
  BY <1>5
<1> QED
  BY <1>1, <1>2, <1>4, <1>5, <1>6

\* A Gateway's end that closes.
LEMMA AskedCut ==
  ASSUME TypeOK, phase = "Connected", CloseLink \/ UNCHANGED <<queue, up>>,
         UNCHANGED <<controls, connection, generation>>
  PROVE  Begins(Asked', Asked) /\ Asked' \in Seq(Asks)
<1>0. /\ connection \in Generations /\ controls \in Seq(Control) /\ up[connection] \in Seq(Asks)
      /\ QueueOf \in Seq(Asks) /\ Asked \in Seq(Asks) /\ Len(Asked) \in Nat /\ up \in [Generations -> Seq(Asks)]
  BY AskedIs
<1>1. CASE UNCHANGED <<queue, up>>
  <2>1. Asked' = Asked
    BY <1>1 DEF Asked, QueueOf
  <2> QED
    BY <1>0, <2>1 DEF Begins
<1>2. CASE CloseLink
  <2>1. queue' = <<>> /\ QueueOf' = <<>>
    BY <1>2 DEF CloseLink, QueueOf
  <2>2. PICK kept \in Prefixes(up[generation]) : up' = [up EXCEPT ![generation] = kept]
    BY <1>2 DEF CloseLink
  <2>3. CASE connection = generation
    <3>1. up'[connection] = kept /\ kept \in Prefixes(up[connection])
      BY <1>0, <2>2, <2>3
    <3>2. Begins(Line(controls, kept, <<>>), Line(controls, up[connection], QueueOf))
      BY <1>0, <3>1, LineCut
    <3>3. Asked' = Line(controls, kept, <<>>)
      BY <2>1, <3>1 DEF Asked
    <3>4. Line(controls, kept, <<>>) \in Seq(Asks)
      <4> DEFINE e == <<>>
      <4>1. e \in Seq(Asks)
        OBVIOUS
      <4>2. kept \in Seq(Asks)
        <5> DEFINE w == up[connection]
        <5>1. w \in Seq(Asks) /\ kept \in Prefixes(w)
          BY <1>0, <3>1
        <5> HIDE DEF w
        <5>2. PICK n \in 0..Len(w) : kept = SubSeq(w, 1, n)
          BY <5>1 DEF Prefixes
        <5> QED
          BY <5>1, <5>2
      <4> HIDE DEF e
      <4>3. Line(controls, kept, e) \in Seq(Asks)
        BY <1>0, <4>1, <4>2, LineIs
      <4> QED
        BY <4>3 DEF e
    <3> QED
      BY <3>2, <3>3, <3>4 DEF Asked
  <2>4. CASE connection # generation
    <3>1. up'[connection] = up[connection] /\ QueueOf = <<>>
      BY <1>0, <2>2, <2>4 DEF QueueOf
    <3>2. Asked' = Asked
      BY <2>1, <3>1 DEF Asked
    <3> QED
      BY <1>0, <3>2 DEF Begins
  <2> QED
    BY <2>3, <2>4
<1> QED
  BY <1>1, <1>2

\* A control that the link takes is asked last.
LEMMA AskedSent ==
  ASSUME TypeOK, phase = "Connected", NEW m \in Asks, SendControl(m),
         UNCHANGED <<controls, up, connection, generation>>
  PROVE  \/ LinkOpen /\ connection = generation /\ Asked' = Append(Asked, m) /\ UNCHANGED overflowed
         \/ Asked' = Asked /\ (connection = generation => connection \in overflowed')
<1>0. /\ controls \in Seq(Control) /\ up[connection] \in Seq(Asks) /\ queue \in Seq(Asks)
  BY AskedIs
<1>1. CASE LinkOpen /\ queue' = Append(queue, m) /\ UNCHANGED overflowed /\ connection = generation
  <2>1. QueueOf' = Append(queue, m) /\ QueueOf = queue
    BY <1>1 DEF QueueOf
  <2>2. Line(controls, up[connection], Append(queue, m)) = Append(Line(controls, up[connection], queue), m)
    BY <1>0, LineAsked
  <2> QED
    BY <1>1, <2>1, <2>2 DEF Asked
<1>2. CASE connection # generation
  <2>1. QueueOf' = QueueOf
    BY <1>2 DEF QueueOf
  <2> QED
    BY <1>2, <2>1 DEF Asked
<1>3. CASE UNCHANGED queue /\ overflowed' = overflowed \cup {generation} /\ connection = generation
  BY <1>3 DEF Asked, QueueOf
<1> QED
  BY <1>1, <1>2, <1>3 DEF SendControl

\* The writer moves the asks on.
LEMMA AskedWritten ==
  ASSUME TypeOK, InTurn, phase = "Connected", WriteQueue
  PROVE  Asked' = Asked
<1>0. /\ connection \in Generations /\ controls \in Seq(Control) /\ up[connection] \in Seq(Asks) /\ queue \in Seq(Asks)
      /\ up \in [Generations -> Seq(Asks)]
  BY AskedIs
<1>1. UNCHANGED <<controls, connection, generation>> /\ queue' = <<>>
      /\ up' = IF "match" \in closedBy[generation] THEN up ELSE [up EXCEPT ![generation] = up[generation] \o queue]
  BY DEF WriteQueue, ipcVars, hostVars
<1>2. CASE connection = generation
  <2>1. "match" \notin closedBy[generation]
    BY <1>0, <1>2 DEF InTurn
  <2>2. up'[connection] = up[connection] \o queue
    BY <1>0, <1>1, <1>2, <2>1
  <2>3. Line(controls, up[connection] \o queue, <<>>) = Line(controls, up[connection], queue)
    BY <1>0, LineWritten
  <2> QED
    BY <1>1, <1>2, <2>2, <2>3 DEF Asked, QueueOf
<1>3. CASE connection # generation
  <2>1. up'[connection] = up[connection]
    BY <1>0, <1>1, <1>3
  <2> QED
    BY <1>1, <1>3, <2>1 DEF Asked, QueueOf
<1> QED
  BY <1>2, <1>3

\* The host takes an ask for a control.
LEMMA AskedReceived ==
  ASSUME TypeOK, Receive, phase' = "Connected"
  PROVE  Asked' = Asked
<1>1. phase = "Connected"
  BY DEF Receive
<1>2. /\ connection \in Generations /\ controls \in Seq(Control) /\ up[connection] \in Seq(Asks) /\ QueueOf \in Seq(Asks)
      /\ up \in [Generations -> Seq(Asks)]
  BY <1>1, AskedIs
<1> DEFINE m == Head(up[connection])
           control == [request |-> NewRequest, player |-> m.player, kind |-> m.kind, from |-> connection]
<1>3. /\ up[connection] # <<>> /\ controls' = Append(controls, control)
      /\ up' = [up EXCEPT ![connection] = Tail(up[connection])] /\ UNCHANGED <<connection, generation, queue>>
      /\ HostTakes
  BY DEF Receive, Close, Stay, gatewayVars
<1>4. m \in Asks
  BY <1>2, <1>3
<1>5. NewRequest \in Requests
  <2>1. Len(controls) + Len(results) < MaximumControls
    BY <1>3 DEF HostTakes
  <2> QED
    BY <2>1, FreshRequest DEF TypeOK
<1>6. control \in Control /\ Msg(control.kind, control.player) = m
  BY <1>2, <1>4, <1>5 DEF Control, Asks, Msg
<1> HIDE DEF m, control
<1>7. Line(Append(controls, control), Tail(up[connection]), QueueOf) = Line(controls, up[connection], QueueOf)
  BY <1>2, <1>3, <1>6, LineReceived DEF m
<1>8. up'[connection] = Tail(up[connection]) /\ QueueOf' = QueueOf
  BY <1>2, <1>3 DEF QueueOf
<1> QED
  BY <1>3, <1>7, <1>8 DEF Asked

\* The tick takes a control, and the room is what that leaves.
LEMMA AskedTaken ==
  ASSUME TypeOK, phase = "Connected", StepControl
  PROVE  /\ Asked # <<>> /\ Asked[1] = Msg(Head(controls).kind, Head(controls).player) /\ Asked' = Tail(Asked)
         /\ \A i \in Players' : In(Asked, Players, i, 1)
<1>1. /\ controls \in Seq(Control) /\ up[connection] \in Seq(Asks) /\ QueueOf \in Seq(Asks) /\ controls # <<>>
      /\ controls' = Tail(controls) /\ UNCHANGED <<connection, generation, queue, up>>
  BY AskedIs DEF StepControl, gatewayVars, wireVars, ipcVars
<1>2. /\ Asked # <<>> /\ Asked[1] = Msg(Head(controls).kind, Head(controls).player) /\ Asked' = Tail(Asked)
  BY <1>1, LineTail DEF Asked, QueueOf
<1>3. 1 \in 1..1 /\ (\A l \in 1..1 : l = 1) /\ \A l : ~(l \in (1 + 1)..1)
  OBVIOUS
<1>4. ASSUME NEW m \in members'
      PROVE  In(Asked, Players, m.player, 1)
  <2>1. CASE Head(controls).kind = "leave"
    <3>1. m \in members /\ m.player # Head(controls).player
      BY <1>4, <2>1 DEF StepControl
    <3>2. m.player \in Players /\ Asked[1] # Msg("leave", m.player)
      BY <1>2, <3>1 DEF Players, Msg
    <3> QED
      BY <1>3, <3>2 DEF In
  <2>2. CASE Head(controls).kind = "join" /\ m \in members
    <3>1. m.player \in Players /\ Asked[1] # Msg("leave", m.player)
      BY <1>2, <2>2 DEF Players, Msg
    <3> QED
      BY <1>3, <3>1 DEF In
  <2>3. CASE Head(controls).kind = "join" /\ m \notin members
    <3>1. m.player = Head(controls).player
      BY <1>4, <2>3 DEF StepControl
    <3>2. Asked[1] = Msg("join", m.player)
      BY <1>2, <2>3, <3>1
    <3> QED
      BY <1>3, <3>2 DEF In
  <2>4. Head(controls) \in Control
    BY <1>1
  <2> QED
    BY <2>1, <2>2, <2>3, <2>4 DEF Control
<1> QED
  BY <1>2, <1>4 DEF Players

----------------------------------------------------------------------------
(* What each step does to the asks and to the room.                        *)

\* How a step that leaves the Match connected moves the asks and the room.
Opens == phase = "Resetting" /\ CheckReset /\ Asked' = <<>> /\ members' = {}
Sends(i, m) ==
  /\ UNCHANGED <<members, connection, generation>>
  /\ \/ LinkOpen /\ connection = generation /\ Asked' = Append(Asked, m) /\ UNCHANGED overflowed
     \/ Asked' = Asked /\ (connection = generation => connection \in overflowed')
Keeps == Asked' = Asked /\ UNCHANGED <<members, connection>>
Cuts ==
  /\ StopGateway \/ FailLink \/ RuntimeFailed
  /\ Begins(Asked', Asked) /\ Asked' \in Seq(Asks)
  /\ UNCHANGED <<members, connection, generation, overflowed>>
Takes == StepControl /\ UNCHANGED <<connection, generation, overflowed>>
Ends == StepEnd /\ Asked' = Asked /\ members' \subseteq members /\ UNCHANGED <<connection, generation, overflowed>>

LEMMA Moves ==
  ASSUME RoomInv, InTurn, Unheard, phase' = "Connected", [Next]_vars
  PROVE  \/ Opens
         \/ /\ phase = "Connected"
            /\ \/ \E i \in Ids : FirstHello(i) /\ Sends(i, Msg("join", i))
               \/ \E i \in Ids : EndReservation(i) /\ reservation[i] # "reserved" /\ Sends(i, Msg("leave", i))
               \/ \E i \in Ids : EndReservation(i) /\ reservation[i] = "reserved" /\ Keeps
               \/ (StartGateway \/ ReadReady \/ Reserve \/ ReadRuntime \/ WriteQueue) /\ Keeps
               \/ (Receive \/ PumpResults \/ PumpEvictions \/ Write \/ UNCHANGED vars) /\ Keeps
               \/ Cuts \/ Takes \/ Ends
<1>0. TypeOK /\ Handshake /\ Awaited
  BY DEF RoomInv
<1>1. CASE Accept \/ EndSession
  BY <1>1 DEF Accept, EndSession, Close
<1>2. CASE CheckReset
  <2>1. phase = "Resetting" /\ UNCHANGED <<connection, generation, queue, up, controls, members>>
    BY <1>2 DEF CheckReset, gatewayVars, wireVars
  <2>2. controls = <<>> /\ members = {}
    BY <1>0, <2>1 DEF Handshake, HostEmpty
  <2>3. connection \in Generations
    BY <1>0, <2>1, BoundsAssumption DEF TypeOK, IpcTypes, Generations
  <2>4. up[connection] = <<>> /\ (connection = generation => queue = <<>>)
    BY <2>1, <2>3 DEF Unheard, Unbegun
  <2>5. Asked' = Line(<<>>, <<>>, <<>>)
    BY <2>1, <2>2, <2>4 DEF Asked, QueueOf
  <2> QED
    BY <1>2, <2>1, <2>2, <2>5, LineEmpty DEF Opens
<1>3. CASE StepReset
  BY <1>0, <1>3 DEF StepReset, Handshake
<1>4. CASE Receive \/ PumpResults \/ PumpEvictions \/ Write \/ UNCHANGED vars
  <2>1. UNCHANGED <<members, generation, queue>>
    BY <1>4 DEF Receive, PumpResults, PumpEvictions, Write, vars, gatewayVars, hostVars
  <2>2. phase = "Connected" /\ connection' = connection
    BY <1>4 DEF Receive, PumpResults, PumpEvictions, Write, Close, Stay, vars, ipcVars
  <2>3. Asked' = Asked
    <3>1. CASE Receive
      BY <1>0, <3>1, AskedReceived
    <3>2. CASE PumpResults \/ PumpEvictions \/ Write \/ UNCHANGED vars
      <4>1. UNCHANGED <<up, controls>>
        BY <3>2 DEF PumpResults, PumpEvictions, Write, Close, vars, hostVars, wireVars
      <4> QED
        BY <2>1, <2>2, <4>1 DEF Asked, QueueOf
    <3> QED
      BY <1>4, <3>1, <3>2
  <2> QED
    BY <1>4, <2>1, <2>2, <2>3 DEF Keeps
<1>5. CASE GatewayNext
  <2>1. phase = "Connected" /\ UNCHANGED <<connection, members, controls, phase>>
    BY <1>5 DEF GatewayNext, StartGateway, ReadReady, StopGateway, Reserve, FirstHello, EndReservation, ReadRuntime,
       WriteQueue, FailLink, RuntimeFailed, ipcVars, hostVars
  <2>2. CASE StartGateway
    <3>1. queue = <<>> /\ queue' = queue /\ up' = up /\ generation' = generation + 1
      BY <1>0, <2>2 DEF StartGateway, Awaited
    <3>2. connection <= generation /\ connection \in Nat /\ generation \in Nat
      BY <1>0, BoundsAssumption DEF TypeOK, IpcTypes, GatewayTypes, InTurn
    <3>3. connection # generation + 1
      BY <3>2
    <3>4. QueueOf = <<>> /\ QueueOf' = <<>>
      BY <2>1, <3>1, <3>3 DEF QueueOf
    <3>5. Asked' = Asked
      BY <2>1, <3>1, <3>4 DEF Asked
    <3> QED
      BY <2>1, <2>2, <3>5 DEF Keeps
  <2>3. CASE ReadReady \/ Reserve \/ ReadRuntime
    <3>1. UNCHANGED <<generation, queue, up>>
      BY <2>3 DEF ReadReady, Reserve, ReadRuntime, wireVars
    <3>2. Asked' = Asked
      BY <2>1, <3>1 DEF Asked, QueueOf
    <3> QED
      BY <2>1, <2>3, <3>2 DEF Keeps
  <2>4. CASE WriteQueue
    BY <1>0, <2>1, <2>4, AskedWritten DEF Keeps
  <2>5. CASE StopGateway \/ FailLink \/ RuntimeFailed
    <3>1. CloseLink \/ UNCHANGED <<queue, up>>
      BY <2>5 DEF StopGateway, FailLink, RuntimeFailed
    <3>2. UNCHANGED <<generation, overflowed>>
      BY <2>5 DEF StopGateway, FailLink, RuntimeFailed, historyVars
    <3> QED
      BY <1>0, <2>1, <2>5, <3>1, <3>2, AskedCut DEF Cuts
  <2>6. ASSUME NEW i \in Ids, FirstHello(i)
        PROVE  Sends(i, Msg("join", i))
    <3>1. SendControl(Msg("join", i)) /\ UNCHANGED <<generation, up>> /\ Msg("join", i) \in Asks
      BY <2>6 DEF FirstHello, wireVars, Msg, Asks
    <3> QED
      BY <1>0, <2>1, <3>1, AskedSent DEF Sends
  <2>7. ASSUME NEW i \in Ids, EndReservation(i)
        PROVE  \/ reservation[i] # "reserved" /\ Sends(i, Msg("leave", i))
               \/ reservation[i] = "reserved" /\ Keeps
    <3>1. UNCHANGED <<generation, up>> /\ Msg("leave", i) \in Asks
      BY <2>7 DEF EndReservation, wireVars, Msg, Asks
    <3>2. CASE reservation[i] # "reserved"
      <4>1. SendControl(Msg("leave", i))
        BY <2>7, <3>2 DEF EndReservation
      <4> QED
        BY <1>0, <2>1, <3>1, <3>2, <4>1, AskedSent DEF Sends
    <3>3. CASE reservation[i] = "reserved"
      <4>1. queue' = queue
        BY <2>7, <3>3 DEF EndReservation
      <4> QED
        BY <2>1, <3>1, <3>3, <4>1 DEF Keeps, Asked, QueueOf
    <3> QED
      BY <3>2, <3>3
  <2> QED
    BY <1>5, <2>1, <2>2, <2>3, <2>4, <2>5, <2>6, <2>7 DEF GatewayNext
<1>6. CASE StepControl
  BY <1>6 DEF StepControl, Takes, gatewayVars, ipcVars
<1>7. CASE StepEnd
  <2>1. members' \subseteq members
    BY <1>7 DEF StepEnd
  <2>2. UNCHANGED <<generation, queue, up, connection, controls, overflowed, phase>>
    BY <1>7 DEF StepEnd, gatewayVars, wireVars, historyVars
  <2> QED
    BY <1>7, <2>1, <2>2 DEF Ends, Asked, QueueOf
<1>8. CASE StepControl
  BY <1>6, <1>8 DEF StepControl, ipcVars
<1> QED
  BY <1>1, <1>2, <1>3, <1>4, <1>5, <1>6, <1>7 DEF Next, IpcNext, HostNext, StepControl, StepEnd, ipcVars

----------------------------------------------------------------------------
(* Seats for everyone who is asked for.                                    *)

\* The Gateway's end of the session's connection is open, and the Gateway serves it.
Live == InSession /\ gateway \in {"dialing", "serving"} /\ LinkOpen

\* However far the asks are taken, there is a seat for everyone.
SeatsSuffice == phase = "Connected" /\ connection \notin overflowed => Fits(Asked, Players)

\* Once all are taken, only players that the Gateway serves are left.
Served ==
  Live /\ connection \notin overflowed =>
    \A i \in Ids : In(Asked, Players, i, Len(Asked)) => reservation[i] \in {"joining", "active"}

\* Who leaves is not served any more.
LeaversGone ==
  InSession => \A i \in Ids : Has(Asked, {Msg("leave", i)}) => reservation[i] = "none" /\ i <= nextPlayer

LEMMA LossesStay ==
  ASSUME [Next]_vars
  PROVE  overflowed \subseteq overflowed'
BY DEF Next, GatewayNext, StartGateway, ReadReady, StopGateway, Reserve, FirstHello, EndReservation, ReadRuntime,
   WriteQueue, FailLink, RuntimeFailed, IpcNext, Accept, CheckReset, Receive, EndSession, PumpResults, PumpEvictions,
   Write, HostNext, StepReset, StepControl, StepEnd, SendControl, vars, historyVars

LEMMA NextSeatsSuffice ==
  ASSUME RoomInv, InTurn, Unheard, FewReserved, SeatsSuffice, Served, [Next]_vars
  PROVE  SeatsSuffice'
<1> SUFFICES ASSUME phase' = "Connected", connection' \notin overflowed'
             PROVE  Fits(Asked', Players')
  BY DEF SeatsSuffice
<1>0. TypeOK /\ TypeOK'
  BY NextTypes DEF RoomInv
<1>1. CASE Opens
  BY <1>1, FitsEmpty DEF Opens, Players
<1> SUFFICES ASSUME phase = "Connected", ~Opens
             PROVE  Fits(Asked', Players')
  BY <1>1, Moves
<1>2. connection' = connection
  BY Moves DEF Sends, Keeps, Cuts, Takes, Ends
<1>3. Fits(Asked, Players) /\ Asked \in Seq(Asks) /\ Len(Asked) \in Nat
  <2>1. connection \notin overflowed
    BY <1>2, LossesStay
  <2> QED
    BY <1>0, <2>1, AskedIs DEF SeatsSuffice
<1>4. CASE Keeps
  BY <1>3, <1>4 DEF Keeps, Players
<1>5. CASE Cuts
  <2>1. Players' \in SUBSET Players /\ Begins(Asked', Asked) /\ Asked' \in Seq(Asks)
    BY <1>5 DEF Cuts, Players
  <2> QED
    BY <1>3, <2>1, FitsBegun
<1>6. CASE Takes
  <2>1. StepControl
    BY <1>6 DEF Takes
  <2>2. Asked # <<>> /\ Asked' = Tail(Asked) /\ \A i \in Players' : In(Asked, Players, i, 1)
    BY <1>0, <2>1, AskedTaken
  <2> QED
    BY <1>3, <2>2, FitsTail
<1>7. CASE Ends
  <2>1. Players' \in SUBSET Players /\ Begins(Asked', Asked) /\ Asked' \in Seq(Asks)
    BY <1>3, <1>7 DEF Ends, Players, Begins
  <2> QED
    BY <1>3, <2>1, FitsBegun
<1>8. ASSUME NEW i \in Ids, FirstHello(i), Sends(i, Msg("join", i))
      PROVE  Fits(Asked', Players')
  <2>1. \/ LinkOpen /\ connection = generation /\ Asked' = Append(Asked, Msg("join", i)) /\ UNCHANGED overflowed
        \/ Asked' = Asked
    BY <1>8 DEF Sends
  <2>2. Players' = Players
    BY <1>8 DEF Sends, Players
  <2>3. CASE LinkOpen /\ connection = generation /\ Asked' = Append(Asked, Msg("join", i)) /\ UNCHANGED overflowed
    <3>1. gateway = "serving" /\ reservation[i] = "reserved"
      BY <1>8 DEF FirstHello
    <3>2. \A j \in Ids : In(Asked, Players, j, Len(Asked)) => reservation[j] \in {"joining", "active"}
      BY <1>2, <2>3, <3>1 DEF Served, Live, InSession
    <3>3. Msg("join", i) \in Asks
      BY DEF Msg, Asks
    <3>4. \A j \in Ids : Msg("join", i) = Msg("join", j) => j = i
      BY DEF Msg
    <3>5. \A j \in Ids : In(Append(Asked, Msg("join", i)), Players, j, Len(Asked) + 1) =>
            reservation[j] \in {"reserved", "joining", "active"}
      <4> SUFFICES ASSUME NEW j \in Ids, In(Append(Asked, Msg("join", i)), Players, j, Len(Asked) + 1)
                   PROVE  reservation[j] \in {"reserved", "joining", "active"}
        OBVIOUS
      <4>1. Msg("join", i) = Msg("join", j) \/ In(Asked, Players, j, Len(Asked))
        BY <1>3, <3>3, InAppended
      <4> QED
        BY <3>1, <3>2, <3>4, <4>1
    <3>6. Room(Append(Asked, Msg("join", i)), Players, Len(Asked) + 1) \subseteq Reserved /\ Reserved \subseteq Ids
      BY <3>5 DEF Room, Reserved
    <3>7. Fits(Append(Asked, Msg("join", i)), Players)
      BY <1>3, <3>3, <3>6, FitsAppended DEF FewReserved
    <3> QED
      BY <2>2, <2>3, <3>7
  <2> QED
    BY <1>3, <2>1, <2>2, <2>3
<1>9. ASSUME NEW i \in Ids, EndReservation(i), Sends(i, Msg("leave", i))
      PROVE  Fits(Asked', Players')
  <2>1. Asked' = Append(Asked, Msg("leave", i)) \/ Asked' = Asked
    BY <1>9 DEF Sends
  <2>2. Players' = Players
    BY <1>9 DEF Sends, Players
  <2>3. CASE Asked' = Append(Asked, Msg("leave", i))
    <3>1. Msg("leave", i) \in Asks /\ \A j : Msg("leave", i) # Msg("join", j)
      BY DEF Msg, Asks
    <3>2. Room(Append(Asked, Msg("leave", i)), Players, Len(Asked) + 1) \subseteq Room(Asked, Players, Len(Asked))
      <4> SUFFICES ASSUME NEW j \in Ids, In(Append(Asked, Msg("leave", i)), Players, j, Len(Asked) + 1)
                   PROVE  In(Asked, Players, j, Len(Asked))
        BY DEF Room
      <4> QED
        BY <1>3, <3>1, InAppended
    <3>3. Cardinality(Room(Asked, Players, Len(Asked))) <= MaxPlayers /\ Room(Asked, Players, Len(Asked)) \subseteq Ids
      BY <1>3 DEF Fits, Room
    <3>4. Fits(Append(Asked, Msg("leave", i)), Players)
      BY <1>3, <3>1, <3>2, <3>3, FitsAppended
    <3> QED
      BY <2>2, <2>3, <3>4
  <2> QED
    BY <1>3, <2>1, <2>2, <2>3
<1> QED
  BY <1>4, <1>5, <1>6, <1>7, <1>8, <1>9, Moves

\* A link that is open has been open since its session began.
LEMMA StillLive ==
  ASSUME TypeOK, InTurn, phase = "Connected", connection' = connection, Live', [Next]_vars
  PROVE  Live /\ UNCHANGED generation /\ ~StartGateway /\ ~StopGateway /\ ~FailLink /\ ~RuntimeFailed
<1>1. connection' = generation' /\ gateway' \in {"dialing", "serving"} /\ LinkOpen'
  BY DEF Live, InSession
<1>2. connection <= generation /\ connection \in Nat /\ generation \in Nat /\ connection \in Generations
      /\ closedBy \in [Generations -> SUBSET {"gateway", "match"}]
  BY AskedIs, BoundsAssumption DEF TypeOK, IpcTypes, GatewayTypes, WireTypes, InTurn
<1>3. ~StartGateway
  <2> SUFFICES ASSUME StartGateway PROVE FALSE
    OBVIOUS
  <2>1. generation' = generation + 1
    BY DEF StartGateway
  <2> QED
    BY <1>1, <1>2, <2>1
<1>4. ~StopGateway /\ ~RuntimeFailed
  BY <1>1 DEF StopGateway, RuntimeFailed
<1>5. generation' = generation
  BY <1>3 DEF Next, GatewayNext, ReadReady, StopGateway, Reserve, FirstHello, EndReservation, ReadRuntime,
     WriteQueue, FailLink, RuntimeFailed, IpcNext, Accept, CheckReset, Receive, EndSession, PumpResults, PumpEvictions,
     Write, HostNext, StepReset, StepControl, StepEnd, vars, gatewayVars
<1>6. ~FailLink
  <2> SUFFICES ASSUME FailLink PROVE FALSE
    OBVIOUS
  <2>1. closedBy' = [closedBy EXCEPT ![generation] = @ \cup {"gateway"}]
    BY DEF FailLink, CloseLink
  <2> QED
    BY <1>1, <1>2, <1>5, <2>1 DEF LinkOpen
<1>7. gateway \in {"dialing", "serving"}
  BY <1>1, <1>3, <1>4, <1>6 DEF Next, GatewayNext, ReadReady, Reserve, FirstHello, EndReservation, ReadRuntime,
     WriteQueue, IpcNext, Accept, CheckReset, Receive, EndSession, PumpResults, PumpEvictions,
     Write, HostNext, StepReset, StepControl, StepEnd, vars, gatewayVars
<1>8. LinkOpen
  <2>1. \A g \in Generations : "gateway" \in closedBy[g] => "gateway" \in closedBy'[g]
    <3>1. closedBy' = closedBy \/ closedBy' = [closedBy EXCEPT ![connection] = @ \cup {"match"}]
      BY <1>3, <1>4, <1>6 DEF Next, GatewayNext, ReadReady, Reserve, FirstHello, EndReservation, ReadRuntime,
         WriteQueue, IpcNext, Accept, CheckReset, Receive, EndSession, PumpResults, PumpEvictions, Close, Stay,
         Write, HostNext, StepReset, StepControl, StepEnd, vars, wireVars
    <3> QED
      BY <1>2, <3>1
  <2> QED
    BY <1>1, <1>2, <1>5, <2>1 DEF LinkOpen
<1> QED
  BY <1>1, <1>3, <1>4, <1>5, <1>6, <1>7, <1>8 DEF Live, InSession

LEMMA EmptyRoom ==
  ASSUME NEW i
  PROVE  ~In(<<>>, {}, i, Len(<<>>)) /\ ~Has(<<>>, {Msg("leave", i)})
<1>1. Len(<<>>) = 0 /\ \A j : ~(j \in 1..0)
  OBVIOUS
<1> QED
  BY <1>1 DEF In, Has

\* A player whose refusal is on its way to the Gateway has no ask before the room and is not in it,
\* and a player whose eviction is on its way is not in it.
Refused(i) ==
  \/ \E k \in 1..Len(results) : results[k].kind = "join" /\ results[k].player = i /\ ~results[k].accepted
  \/ Has(outgoing, {Msg("rejected", i)})
  \/ Has(down[connection], {Msg("rejected", i)})
Evicted(i) ==
  \/ \E k \in 1..Len(evictions) : evictions[k].player = i
  \/ Has(outgoing, {Msg("evicted", i)})
  \/ Has(down[connection], {Msg("evicted", i)})
Outside ==
  phase = "Connected" => \A i \in Ids :
    /\ Refused(i) => i \notin Players
    /\ Evicted(i) => i \notin Players /\ [player |-> i, from |-> connection] \in seated

LEMMA NotAsked ==
  ASSUME RoomInv, InSession, NEW i \in Ids,
         Replied(i, connection) \/ Sat(i, connection), i \notin Players
  PROVE  ~In(Asked, Players, i, Len(Asked))
<1>1. TypeOK /\ phase = "Connected" /\ Apart(i, connection) /\ HostOf(connection) /\ connection \in Generations
  <2>1. TypeOK /\ phase = "Connected"
    BY DEF RoomInv, InSession
  <2>2. connection \in Generations
    BY <2>1, AskedIs
  <2> QED
    BY <2>1, <2>2 DEF RoomInv, OneJoin, Handshake
<1>2. ~Queued(i, connection) /\ ~Written(i, connection) /\ ~Taken(i, connection)
  BY <1>1 DEF Apart
<1>3. /\ controls \in Seq(Control) /\ up[connection] \in Seq(Asks) /\ QueueOf \in Seq(Asks) /\ QueueOf = queue
      /\ Len(Asked) \in Nat
  BY <1>1, AskedIs DEF QueueOf, InSession
<1>4. ASSUME NEW k \in 1..Len(Asked)
      PROVE  Asked[k] # Msg("join", i)
  <2>1. /\ Len(controls) \in Nat /\ Len(up[connection]) \in Nat /\ Len(queue) \in Nat
        /\ Len(Asked) = Len(controls) + Len(up[connection]) + Len(queue)
        /\ Asked[k] = IF k <= Len(controls) THEN Msg(controls[k].kind, controls[k].player)
                      ELSE IF k <= Len(controls) + Len(up[connection]) THEN up[connection][k - Len(controls)]
                      ELSE queue[k - (Len(controls) + Len(up[connection]))]
    <3> DEFINE u == up[connection]
    <3>1. u \in Seq(Asks) /\ queue \in Seq(Asks) /\ Asked = Line(controls, u, queue)
      BY <1>3 DEF Asked
    <3> HIDE DEF u
    <3>2. /\ Len(controls) \in Nat /\ Len(u) \in Nat /\ Len(queue) \in Nat
          /\ Len(Line(controls, u, queue)) = Len(controls) + Len(u) + Len(queue)
          /\ \A l \in 1..(Len(controls) + Len(u) + Len(queue)) : Line(controls, u, queue)[l] =
                IF l <= Len(controls) THEN Msg(controls[l].kind, controls[l].player)
                ELSE IF l <= Len(controls) + Len(u) THEN u[l - Len(controls)]
                ELSE queue[l - (Len(controls) + Len(u))]
      <4>1. controls \in Seq(Control)
        BY <1>3
      <4> QED
        BY <3>1, <4>1, LineIs
    <3>3. Len(Asked) = Len(controls) + Len(u) + Len(queue)
      BY <3>1, <3>2
    <3> QED
      BY <3>1, <3>2, <3>3 DEF u
  <2>2. CASE k <= Len(controls)
    <3>1. k \in 1..Len(controls) /\ controls[k] \in Control /\ controls[k].from = connection
      BY <1>1, <1>3, <2>1, <2>2 DEF HostOf
    <3>2. controls[k] \notin JoinControl(i, connection)
      BY <1>2, <3>1 DEF Taken, Has
    <3> QED
      BY <2>1, <2>2, <3>1, <3>2 DEF JoinControl, Msg
  <2>3. CASE ~(k <= Len(controls)) /\ k <= Len(controls) + Len(up[connection])
    <3>1. k - Len(controls) \in 1..Len(up[connection])
      BY <2>1, <2>3
    <3>2. up[connection][k - Len(controls)] # Msg("join", i)
      BY <1>2, <3>1 DEF Written, Has, JoinAsk
    <3> QED
      BY <2>1, <2>3, <3>2
  <2>4. CASE ~(k <= Len(controls)) /\ ~(k <= Len(controls) + Len(up[connection]))
    <3>1. k - (Len(controls) + Len(up[connection])) \in 1..Len(queue)
      BY <2>1, <2>4
    <3>2. queue[k - (Len(controls) + Len(up[connection]))] # Msg("join", i)
      BY <1>2, <3>1 DEF Queued, Has, JoinAsk, InSession
    <3> QED
      BY <2>1, <2>4, <3>2
  <2> QED
    BY <2>2, <2>3, <2>4
<1> QED
  BY <1>4 DEF In

LEMMA ReadServed ==
  ASSUME RoomInv, Served, Outside, Live, connection \notin overflowed, ReadRuntime, Asked' = Asked, UNCHANGED members,
         NEW i \in Ids, In(Asked, Players, i, Len(Asked))
  PROVE  reservation'[i] \in {"joining", "active"}
<1> DEFINE m == Head(down[generation])
<1>1. /\ InSession /\ phase = "Connected" /\ connection = generation /\ TypeOK
      /\ reservation[i] \in {"joining", "active"} /\ connection \in Generations
      /\ reservation \in [Ids -> {"none", "reserved", "joining", "active"}]
  <2>1. InSession /\ phase = "Connected" /\ connection = generation /\ TypeOK
    BY DEF Live, InSession, RoomInv
  <2> QED
    BY <2>1, AskedIs DEF Served, TypeOK, GatewayTypes
<1>2. /\ down[connection] # <<>> /\ m \in Answers /\ m = down[connection][1] /\ 1 \in 1..Len(down[connection])
  <2>1. down[connection] \in Seq(Answers) /\ down[connection] # <<>>
    BY <1>1 DEF ReadRuntime, TypeOK, WireTypes
  <2> QED
    BY <1>1, <2>1
<1> HIDE DEF m
<1>3. \/ m.kind = "joined" /\ Answered(m.player, "active")
      \/ m.kind = "rejected" /\ Answered(m.player, "none")
      \/ m.kind = "evicted" /\ reservation' = [reservation EXCEPT ![m.player] = "none"]
  BY DEF ReadRuntime, m
<1>4. CASE m.kind = "joined"
  BY <1>1, <1>3, <1>4 DEF Answered
<1>5. CASE m.kind = "rejected" /\ m.player = i
  <2>1. m = Msg("rejected", i)
    BY <1>2, <1>5 DEF Answers, Msg
  <2>2. Refused(i) /\ Replied(i, connection)
    BY <1>2, <2>1 DEF Refused, Replied, Has, JoinAnswer
  <2> QED
    BY <1>1, <2>2, NotAsked DEF Outside
<1>6. CASE m.kind = "evicted" /\ m.player = i
  <2>1. m = Msg("evicted", i)
    BY <1>2, <1>6 DEF Answers, Msg
  <2>2. Evicted(i)
    BY <1>2, <2>1 DEF Evicted, Has
  <2>3. i \notin Players /\ Sat(i, connection)
    BY <1>1, <2>2 DEF Outside, Sat
  <2> QED
    BY <1>1, <2>3, NotAsked
<1>7. CASE m.kind \in {"rejected", "evicted"} /\ m.player # i
  <2>1. reservation'[i] = reservation[i]
    BY <1>1, <1>3, <1>7 DEF Answered
  <2> QED
    BY <1>1, <2>1
<1> QED
  BY <1>3, <1>4, <1>5, <1>6, <1>7

LEMMA NextServed ==
  ASSUME RoomInv, InTurn, Unheard, Served, Outside, [Next]_vars
  PROVE  Served'
<1> SUFFICES ASSUME Live', connection' \notin overflowed', NEW i \in Ids, In(Asked', Players', i, Len(Asked'))
             PROVE  reservation'[i] \in {"joining", "active"}
  BY DEF Served
<1>0. TypeOK /\ phase' = "Connected"
  BY DEF RoomInv, Live, InSession
<1>1. CASE Opens
  BY <1>1, EmptyRoom DEF Opens, Players
<1> SUFFICES ASSUME phase = "Connected", ~Opens
             PROVE  reservation'[i] \in {"joining", "active"}
  BY <1>0, <1>1, Moves
<1>2. connection' = connection
  BY <1>0, Moves DEF Sends, Keeps, Cuts, Takes, Ends
<1>3. Live /\ UNCHANGED generation /\ ~StartGateway /\ ~Cuts
  BY <1>0, <1>2, StillLive DEF Cuts
<1>4. /\ connection \notin overflowed /\ Asked \in Seq(Asks) /\ Len(Asked) \in Nat
      /\ reservation \in [Ids -> {"none", "reserved", "joining", "active"}]
  <2>1. connection \notin overflowed
    BY <1>2, LossesStay
  <2> QED
    BY <1>0, <2>1, AskedIs DEF TypeOK, GatewayTypes
<1>5. \A j \in Ids : In(Asked, Players, j, Len(Asked)) => reservation[j] \in {"joining", "active"}
  BY <1>3, <1>4 DEF Served
<1>6. ASSUME Keeps
      PROVE  In(Asked, Players, i, Len(Asked)) /\ reservation[i] \in {"joining", "active"}
  BY <1>5, <1>6 DEF Keeps, Players
<1>7. CASE (Receive \/ PumpResults \/ PumpEvictions \/ Write \/ UNCHANGED vars) /\ Keeps
  <2>1. reservation' = reservation
    BY <1>7 DEF Receive, PumpResults, PumpEvictions, Write, vars, gatewayVars
  <2> QED
    BY <1>6, <1>7, <2>1
<1>8. CASE (ReadReady \/ WriteQueue) /\ Keeps
  BY <1>6, <1>8 DEF ReadReady, WriteQueue
<1>9. CASE Reserve /\ Keeps
  <2>1. reservation' = [reservation EXCEPT ![nextPlayer + 1] = "reserved"] /\ nextPlayer \in Nat
    BY <1>0, <1>9, BoundsAssumption DEF Reserve, TypeOK, GatewayTypes
  <2>2. reservation[i] \in {"joining", "active"}
    BY <1>6, <1>9
  <2>3. i <= nextPlayer /\ i \in Nat
    BY <2>2 DEF RoomInv, Awaited, Ids
  <2>4. i # nextPlayer + 1
    BY <2>1, <2>3
  <2> QED
    BY <1>4, <2>1, <2>2, <2>4
<1>10. CASE ReadRuntime /\ Keeps
  <2>1. In(Asked, Players, i, Len(Asked)) /\ Asked' = Asked /\ UNCHANGED members
    BY <1>6, <1>10 DEF Keeps
  <2> QED
    BY <1>3, <1>4, <1>10, <2>1, ReadServed
<1>11. CASE Takes
  <2>1. StepControl
    BY <1>11 DEF Takes
  <2>2. Asked # <<>> /\ Asked' = Tail(Asked) /\ \A j \in Players' : In(Asked, Players, j, 1)
    BY <1>0, <2>1, AskedTaken
  <2>3. Len(Asked') \in Nat /\ Len(Asked') < Len(Asked) /\ Len(Asked') + 1 = Len(Asked)
    <3>1. Len(Tail(Asked)) = Len(Asked) - 1 /\ Len(Asked) > 0
      BY <1>4, <2>2
    <3> QED
      BY <1>4, <2>2, <3>1
  <2>4. In(Tail(Asked), Players', i, Len(Asked'))
    BY <2>2
  <2>5. In(Asked, Players, i, Len(Asked') + 1)
    BY <1>4, <2>2, <2>3, <2>4, InTail
  <2>6. reservation' = reservation
    BY <2>1 DEF StepControl, gatewayVars
  <2> QED
    BY <1>5, <2>3, <2>5, <2>6
<1>12. CASE Ends
  <2>1. Asked' = Asked /\ members' \subseteq members /\ reservation' = reservation
    BY <1>12 DEF Ends, StepEnd, gatewayVars
  <2>2. In(Asked, Players, i, Len(Asked))
    BY <2>1 DEF In, Players
  <2> QED
    BY <1>5, <2>1, <2>2
<1>13. ASSUME NEW p \in Ids, FirstHello(p), Sends(p, Msg("join", p))
       PROVE  reservation'[i] \in {"joining", "active"}
  <2>1. reservation' = [reservation EXCEPT ![p] = "joining"]
    BY <1>13 DEF FirstHello
  <2>2. CASE i = p
    BY <1>4, <2>1, <2>2
  <2>3. CASE i # p
    <3>1. In(Asked, Players, i, Len(Asked))
      <4>1. Players' = Players /\ Msg("join", p) \in Asks /\ Msg("join", p) # Msg("join", i)
        BY <1>13, <2>3 DEF Sends, Players, Msg, Asks
      <4>2. CASE Asked' = Append(Asked, Msg("join", p))
        <5>1. Len(Asked') = Len(Asked) + 1
          BY <1>4, <4>2
        <5>2. In(Append(Asked, Msg("join", p)), Players, i, Len(Asked) + 1)
          BY <4>1, <4>2, <5>1
        <5> QED
          BY <1>4, <4>1, <5>2, InAppended
      <4>3. CASE Asked' = Asked
        BY <4>1, <4>3
      <4> QED
        BY <1>13, <4>2, <4>3 DEF Sends
    <3> QED
      BY <1>4, <1>5, <2>1, <2>3, <3>1
  <2> QED
    BY <2>2, <2>3
<1>14. ASSUME NEW p \in Ids, EndReservation(p), reservation[p] # "reserved", Sends(p, Msg("leave", p))
       PROVE  reservation'[i] \in {"joining", "active"}
  <2>1. reservation' = [reservation EXCEPT ![p] = "none"]
    BY <1>14 DEF EndReservation
  <2>2. Asked' = Append(Asked, Msg("leave", p)) /\ Players' = Players /\ Msg("leave", p) \in Asks
        /\ Msg("leave", p) # Msg("join", i)
    BY <1>2, <1>3, <1>14 DEF Sends, Players, Msg, Asks, Live, InSession
  <2>3. In(Append(Asked, Msg("leave", p)), Players, i, Len(Asked) + 1)
    <3>1. Len(Asked') = Len(Asked) + 1
      BY <1>4, <2>2
    <3> QED
      BY <2>2, <3>1
  <2>4. In(Asked, Players, i, Len(Asked)) /\ i # p
    BY <1>4, <2>2, <2>3, InAppended
  <2> QED
    BY <1>4, <1>5, <2>1, <2>4
<1>15. ASSUME NEW p \in Ids, EndReservation(p), reservation[p] = "reserved", Keeps
       PROVE  reservation'[i] \in {"joining", "active"}
  <2>1. reservation' = [reservation EXCEPT ![p] = "none"]
    BY <1>15 DEF EndReservation
  <2>2. reservation[i] \in {"joining", "active"}
    BY <1>6, <1>15
  <2> QED
    BY <1>4, <1>15, <2>1, <2>2
<1> QED
  BY <1>0, <1>3, <1>7, <1>8, <1>9, <1>10, <1>11, <1>12, <1>13, <1>14, <1>15, Moves

LEMMA StillSession ==
  ASSUME TypeOK, InTurn, phase = "Connected", connection' = connection, InSession', [Next]_vars
  PROVE  InSession /\ UNCHANGED generation /\ ~StartGateway
<1>1. connection <= generation /\ connection \in Nat /\ generation \in Nat /\ connection = generation'
  BY AskedIs, BoundsAssumption DEF TypeOK, IpcTypes, GatewayTypes, InTurn, InSession
<1>2. generation' = generation \/ generation' = generation + 1
  BY DEF Next, GatewayNext, StartGateway, ReadReady, StopGateway, Reserve, FirstHello, EndReservation, ReadRuntime,
     WriteQueue, FailLink, RuntimeFailed, IpcNext, Accept, CheckReset, Receive, EndSession, PumpResults, PumpEvictions,
     Write, HostNext, StepReset, StepControl, StepEnd, vars, gatewayVars
<1>3. generation' = generation
  BY <1>1, <1>2
<1> QED
  BY <1>1, <1>3 DEF InSession, StartGateway

LEMMA NextLeaversGone ==
  ASSUME RoomInv, InTurn, Unheard, LeaversGone, [Next]_vars
  PROVE  LeaversGone'
<1> SUFFICES ASSUME InSession', NEW i \in Ids, Has(Asked', {Msg("leave", i)})
             PROVE  reservation'[i] = "none" /\ i <= nextPlayer'
  BY DEF LeaversGone
<1>0. TypeOK /\ phase' = "Connected" /\ Awaited
  BY DEF RoomInv, InSession
<1>1. CASE Opens
  BY <1>1, EmptyRoom DEF Opens
<1> SUFFICES ASSUME phase = "Connected", ~Opens
             PROVE  reservation'[i] = "none" /\ i <= nextPlayer'
  BY <1>0, <1>1, Moves
<1>2. connection' = connection
  BY <1>0, Moves DEF Sends, Keeps, Cuts, Takes, Ends
<1>3. InSession /\ UNCHANGED generation /\ ~StartGateway
  BY <1>0, <1>2, StillSession
<1>4. /\ Asked \in Seq(Asks) /\ Len(Asked) \in Nat /\ nextPlayer \in Nat /\ i \in Nat
      /\ reservation \in [Ids -> {"none", "reserved", "joining", "active"}]
  BY <1>0, AskedIs, BoundsAssumption DEF TypeOK, GatewayTypes, Ids
<1>5. Has(Asked, {Msg("leave", i)}) => reservation[i] = "none" /\ i <= nextPlayer
  BY <1>3 DEF LeaversGone
<1>6. CASE Keeps
  <2>1. reservation[i] = "none" /\ i <= nextPlayer
    BY <1>5, <1>6 DEF Keeps
  <2>2. CASE Receive \/ PumpResults \/ PumpEvictions \/ Write \/ UNCHANGED vars \/ ReadReady \/ WriteQueue
    BY <2>1, <2>2 DEF Receive, PumpResults, PumpEvictions, Write, vars, gatewayVars, ReadReady, WriteQueue
  <2>3. CASE Reserve
    <3>1. reservation' = [reservation EXCEPT ![nextPlayer + 1] = "reserved"] /\ nextPlayer' = nextPlayer + 1
      BY <2>3 DEF Reserve
    <3> QED
      BY <1>4, <2>1, <3>1
  <2>4. CASE ReadRuntime
    <3>1. nextPlayer' = nextPlayer
          /\ \/ reservation' = reservation
             \/ \E p : reservation' = [reservation EXCEPT ![p] = "none"]
             \/ \E p, a : reservation' = [reservation EXCEPT ![p] = IF @ = "joining" THEN a ELSE @]
      BY <2>4 DEF ReadRuntime, Answered
    <3> QED
      BY <1>4, <2>1, <3>1
  <2>5. CASE \E p \in Ids : EndReservation(p)
    BY <1>4, <2>1, <2>5 DEF EndReservation
  <2>6. CASE \E p \in Ids : FirstHello(p)
    BY <1>4, <2>1, <2>6 DEF FirstHello
  <2>7. CASE Cuts \/ Takes \/ Ends
    BY <1>4, <2>1, <2>7 DEF Cuts, Takes, Ends, StopGateway, FailLink, RuntimeFailed, StepControl, StepEnd, gatewayVars,
       NoReservation
  <2> QED
    BY <1>0, <1>3, <2>2, <2>3, <2>4, <2>5, <2>6, <2>7, Moves
<1>7. CASE Cuts
  <2>1. Has(Asked, {Msg("leave", i)})
    BY <1>4, <1>7 DEF Cuts, Begins, Has
  <2> QED
    BY <1>4, <1>5, <1>7, <2>1 DEF Cuts, StopGateway, FailLink, RuntimeFailed, NoReservation
<1>8. CASE Takes
  <2>1. StepControl /\ UNCHANGED <<reservation, nextPlayer>>
    BY <1>8 DEF Takes, StepControl, gatewayVars
  <2>2. Asked # <<>> /\ Asked' = Tail(Asked)
    BY <1>0, <2>1, AskedTaken
  <2>3. Has(Tail(Asked), {Msg("leave", i)}) => Has(Asked, {Msg("leave", i)})
    BY <1>4, <2>2, Shortened
  <2> QED
    BY <1>5, <2>1, <2>2, <2>3
<1>9. CASE Ends
  BY <1>5, <1>9 DEF Ends, StepEnd, gatewayVars
<1>10. ASSUME NEW p \in Ids, FirstHello(p), Sends(p, Msg("join", p))
       PROVE  reservation'[i] = "none" /\ i <= nextPlayer'
  <2>1. reservation' = [reservation EXCEPT ![p] = "joining"] /\ reservation[p] = "reserved" /\ nextPlayer' = nextPlayer
    BY <1>10 DEF FirstHello
  <2>2. Has(Asked, {Msg("leave", i)})
    <3>1. Msg("join", p) \notin {Msg("leave", i)}
      BY DEF Msg
    <3>2. Has(Append(Asked, Msg("join", p)), {Msg("leave", i)}) => Has(Asked, {Msg("leave", i)})
      BY <1>4, <3>1, Appended
    <3> QED
      BY <1>10, <3>2 DEF Sends
  <2> QED
    BY <1>4, <1>5, <2>1, <2>2
<1>11. ASSUME NEW p \in Ids, EndReservation(p), reservation[p] # "reserved", Sends(p, Msg("leave", p))
       PROVE  reservation'[i] = "none" /\ i <= nextPlayer'
  <2>1. reservation' = [reservation EXCEPT ![p] = "none"] /\ reservation[p] # "none" /\ nextPlayer' = nextPlayer
    BY <1>11 DEF EndReservation, Reserved
  <2>2. CASE i = p
    BY <1>0, <1>4, <2>1, <2>2 DEF Awaited
  <2>3. CASE i # p
    <3>1. Msg("leave", p) \notin {Msg("leave", i)}
      BY <2>3 DEF Msg
    <3>2. Has(Append(Asked, Msg("leave", p)), {Msg("leave", i)}) => Has(Asked, {Msg("leave", i)})
      BY <1>4, <3>1, Appended
    <3>3. Has(Asked, {Msg("leave", i)})
      BY <1>11, <3>2 DEF Sends
    <3> QED
      BY <1>4, <1>5, <2>1, <3>3
  <2> QED
    BY <2>2, <2>3
<1> QED
  BY <1>0, <1>6, <1>7, <1>8, <1>9, <1>10, <1>11, Moves

LEMMA NextIdle ==
  ASSUME TypeOK, Awaited, Idle, [Next]_vars
  PROVE  Idle'
<1> SUFFICES ASSUME gateway' = "dialing" PROVE reservation' = NoReservation
  BY DEF Idle, NoReservation
<1>1. CASE StartGateway
  BY <1>1 DEF StartGateway, Awaited
<1>2. CASE ~StartGateway
  <2>1. gateway = "dialing" /\ reservation' = reservation
    BY <1>2 DEF Next, GatewayNext, ReadReady, StopGateway, Reserve, FirstHello, EndReservation, ReadRuntime,
     WriteQueue, FailLink, RuntimeFailed, IpcNext, Accept, CheckReset, Receive, EndSession, PumpResults, PumpEvictions,
     Write, HostNext, StepReset, StepControl, StepEnd, vars, gatewayVars
  <2> QED
    BY <2>1 DEF Idle
<1> QED
  BY <1>1, <1>2

----------------------------------------------------------------------------
(* What the Match tells the Gateway of its players.                        *)

LEMMA DownFewer ==
  ASSUME TypeOK, GatewayNext, NEW g \in Generations, NEW M, Has(down'[g], M)
  PROVE  Has(down[g], M)
<1>1. down \in [Generations -> Seq(Answers)] /\ down[g] \in Seq(Answers)
  BY DEF TypeOK, WireTypes
<1>2. \/ down' = down
      \/ down' = [down EXCEPT ![generation] = <<>>]
      \/ down[generation] # <<>> /\ down' = [down EXCEPT ![generation] = Tail(@)]
      \/ \E kept \in {n \in 0..1 : n <= Len(down[generation])} : down' = [down EXCEPT ![generation] = SubSeq(@, 1, kept)]
  BY DEF GatewayNext, StartGateway, ReadReady, StopGateway, Reserve, FirstHello, EndReservation, ReadRuntime,
     WriteQueue, FailLink, RuntimeFailed, wireVars
<1>3. CASE g # generation \/ down' = down
  <2>1. down'[g] = down[g]
    BY <1>1, <1>2, <1>3
  <2> QED
    BY <2>1
<1>4. CASE g = generation /\ down' = [down EXCEPT ![generation] = <<>>]
  BY <1>1, <1>4, Nothing
<1>5. CASE g = generation /\ down[generation] # <<>> /\ down' = [down EXCEPT ![generation] = Tail(@)]
  <2>1. down'[g] = Tail(down[g]) /\ down[g] # <<>>
    BY <1>1, <1>5
  <2> QED
    BY <1>1, <2>1, Shortened
<1>6. CASE g = generation /\ \E kept \in {n \in 0..1 : n <= Len(down[generation])} :
                               down' = [down EXCEPT ![generation] = SubSeq(@, 1, kept)]
  <2>1. PICK kept \in 0..1 : kept <= Len(down[g]) /\ down'[g] = SubSeq(down[g], 1, kept)
    BY <1>1, <1>6
  <2>2. down'[g] \in Prefixes(down[g])
    <3>1. kept \in 0..Len(down[g])
      BY <1>1, <2>1
    <3> QED
      BY <2>1, <3>1 DEF Prefixes
  <2> QED
    BY <1>1, <2>2, Cut
<1> QED
  BY <1>2, <1>3, <1>4, <1>5, <1>6

LEMMA RelayedFrom ==
  ASSUME TypeOK, Awaited, phase = "Connected", NEW relayed \in Relayed
  PROVE  /\ relayed \in Seq(Answers)
         /\ \A k \in 1..Len(relayed) : \E r \in 1..Len(results) :
              results[r].kind = "join" /\ relayed[k] = Relay(results[r])
<1> DEFINE n == Cardinality(Waiting)
<1>1. PICK places \in [1..n -> Waiting] : relayed = [k \in 1..n |-> Relay(results[places[k]])]
  BY DEF Relayed
<1>2. n \in Nat
  <2>1. Len(results) \in Nat
    BY DEF TypeOK, HostTypes
  <2>2. IsFiniteSet(1..Len(results))
    BY <2>1, Interval
  <2>3. IsFiniteSet(Waiting)
    BY <2>2, FS_Subset DEF Waiting
  <2> QED
    BY <2>3, FS_CardinalityType
<1> HIDE DEF n
<1>3. Len(relayed) = n /\ \A k \in 1..n : relayed[k] = Relay(results[places[k]])
  BY <1>1, <1>2
<1>4. ASSUME NEW k \in 1..Len(relayed)
      PROVE  \E r \in 1..Len(results) : results[r].kind = "join" /\ relayed[k] = Relay(results[r])
  <2>1. places[k] \in 1..Len(results) /\ Waits(results[places[k]])
    BY <1>1, <1>3 DEF Waiting
  <2>2. results[places[k]].kind = "join"
    BY <2>1 DEF Awaited
  <2> QED
    BY <1>3, <2>1, <2>2
<1>5. relayed \in Seq(Answers)
  BY RelayedTypes
<1> QED
  BY <1>4, <1>5

\* The player's Join was accepted, and the Gateway has not read of it.
Accepted(i) ==
  \/ \E k \in 1..Len(results) : results[k].kind = "join" /\ results[k].player = i /\ results[k].accepted
  \/ Has(outgoing, {Msg("joined", i)})
  \/ Has(down[connection], {Msg("joined", i)})

\* The step says nothing new of the players.
Tells == \A i \in Ids :
  /\ Refused(i)' => Refused(i)
  /\ Evicted(i)' => Evicted(i)
  /\ Accepted(i)' => Accepted(i)

LEMMA Extended ==
  ASSUME NEW S, NEW s \in Seq(S), NEW t \in Seq(S), NEW e \in S, NEW M
  PROVE  /\ Has(s, M) \/ Has(t, M) => Has(s \o t, M)
         /\ Has(s, M) \/ e \in M => Has(Append(s, e), M)
         /\ s # <<>> /\ Has(s, M) => Head(s) \in M \/ Has(Tail(s), M)
<1>1. /\ Len(s) \in Nat /\ Len(t) \in Nat /\ Len(s \o t) = Len(s) + Len(t) /\ Len(Append(s, e)) = Len(s) + 1
      /\ \A k \in 1..Len(s) : (s \o t)[k] = s[k] /\ Append(s, e)[k] = s[k]
      /\ Append(s, e)[Len(s) + 1] = e
  OBVIOUS
<1>2. ASSUME NEW k \in 1..Len(t)
      PROVE  (s \o t)[Len(s) + k] = t[k]
  BY <1>1
<1>3. ASSUME NEW k \in 1..Len(s), s[k] \in M
      PROVE  Has(s \o t, M) /\ Has(Append(s, e), M)
  <2>1. k \in 1..Len(s \o t) /\ k \in 1..Len(Append(s, e))
    BY <1>1
  <2> QED
    BY <1>1, <1>3, <2>1 DEF Has
<1>4. ASSUME NEW k \in 1..Len(t), t[k] \in M
      PROVE  Has(s \o t, M)
  <2>1. Len(s) + k \in 1..Len(s \o t)
    BY <1>1
  <2> QED
    BY <1>2, <1>4, <2>1 DEF Has
<1>5. e \in M => Has(Append(s, e), M)
  <2>1. Len(s) + 1 \in 1..Len(Append(s, e))
    BY <1>1
  <2> QED
    BY <1>1, <2>1 DEF Has
<1>6. ASSUME s # <<>>, NEW k \in 1..Len(s), s[k] \in M
      PROVE  Head(s) \in M \/ Has(Tail(s), M)
  <2>1. Head(s) = s[1] /\ Len(Tail(s)) = Len(s) - 1 /\ \A l \in 1..Len(s) - 1 : Tail(s)[l] = s[l + 1]
    BY <1>6
  <2>2. CASE k # 1
    <3>1. k - 1 \in 1..Len(s) - 1 /\ (k - 1) + 1 = k
      BY <1>1, <2>2
    <3> QED
      BY <1>6, <2>1, <3>1 DEF Has
  <2> QED
    BY <1>6, <2>1, <2>2
<1> QED
  BY <1>3, <1>4, <1>5, <1>6 DEF Has

LEMMA GatewayTells ==
  ASSUME TypeOK, phase = "Connected", GatewayNext
  PROVE  Tells
<1>1. UNCHANGED <<connection, results, outgoing, evictions>> /\ connection \in Generations
  BY AskedIs DEF GatewayNext, StartGateway, ReadReady, StopGateway, Reserve, FirstHello, EndReservation, ReadRuntime,
     WriteQueue, FailLink, RuntimeFailed, ipcVars, hostVars
<1>2. \A M : Has(down'[connection], M) => Has(down[connection], M)
  BY <1>1, DownFewer
<1> QED
  BY <1>1, <1>2 DEF Tells, Refused, Evicted, Accepted

\* The notices of a Pump.
LEMMA NoticesAre ==
  ASSUME TypeOK
  PROVE  LET notices == [k \in 1..Len(evictions) |-> Msg("evicted", evictions[k].player)]
         IN  /\ notices \in Seq(Answers) /\ Len(notices) = Len(evictions)
             /\ \A k \in 1..Len(evictions) : notices[k] = Msg("evicted", evictions[k].player)
<1>1. evictions \in Seq(Seats) /\ Len(evictions) \in Nat
  BY DEF TypeOK, HostTypes
<1>2. ASSUME NEW k \in 1..Len(evictions)
      PROVE  Msg("evicted", evictions[k].player) \in Answers
  <2>1. evictions[k] \in Seats
    BY <1>1
  <2> QED
    BY <2>1 DEF Seats, Msg, Answers
<1> QED
  BY <1>1, <1>2

\* What the I/O thread takes from the host it says to the Gateway, and what it
\* writes to an open link arrives.
LEMMA IpcTells ==
  ASSUME TypeOK, Awaited, Receive \/ PumpResults \/ PumpEvictions \/ Write \/ UNCHANGED vars, phase' = "Connected"
  PROVE  /\ Tells
         /\ "gateway" \notin closedBy[connection] => \A i \in Ids : Evicted(i) => Evicted(i)'
<1>0. phase = "Connected" /\ connection' = connection
  BY DEF Receive, PumpResults, PumpEvictions, Write, Close, Stay, vars, ipcVars
<1>1. /\ connection \in Generations /\ down \in [Generations -> Seq(Answers)] /\ down[connection] \in Seq(Answers)
      /\ outgoing \in Seq(Answers) /\ results \in Seq(Result)
  BY <1>0, AskedIs DEF TypeOK, WireTypes, IpcTypes, HostTypes
<1>2. CASE Receive \/ UNCHANGED vars
  <2>1. UNCHANGED <<results, evictions, outgoing, down>>
    BY <1>2 DEF Receive, Close, Stay, vars, wireVars, ipcVars, hostVars
  <2> QED
    BY <1>0, <2>1 DEF Tells, Refused, Evicted, Accepted
<1>3. CASE PumpResults
  <2>1. PICK relayed \in Relayed : outgoing' = outgoing \o relayed
    BY <1>3 DEF PumpResults, Close
  <2>2. results' = <<>> /\ UNCHANGED <<evictions, down>>
    BY <1>3 DEF PumpResults, Close
  <2>3. /\ relayed \in Seq(Answers)
        /\ \A k \in 1..Len(relayed) : \E r \in 1..Len(results) :
             results[r].kind = "join" /\ relayed[k] = Relay(results[r])
    BY <1>0, RelayedFrom
  <2>4. \A M : Has(outgoing', M) => Has(outgoing, M) \/ Has(relayed, M)
    BY <1>1, <2>1, <2>3, Linked
  <2>5. \A M : Has(outgoing, M) => Has(outgoing', M)
    <3>1. Msg("ready", 0) \in Answers
      BY DEF Msg, Answers
    <3> QED
      BY <1>1, <2>1, <2>3, <3>1, Extended
  <2>6. ASSUME NEW i \in Ids
        PROVE  /\ Has(relayed, {Msg("rejected", i)}) => Refused(i)
               /\ Has(relayed, {Msg("joined", i)}) => Accepted(i)
               /\ ~Has(relayed, {Msg("evicted", i)})
    <3> SUFFICES ASSUME NEW k \in 1..Len(relayed)
                 PROVE  /\ relayed[k] = Msg("rejected", i) => Refused(i)
                        /\ relayed[k] = Msg("joined", i) => Accepted(i)
                        /\ relayed[k] # Msg("evicted", i)
      BY DEF Has
    <3>1. PICK r \in 1..Len(results) : results[r].kind = "join" /\ relayed[k] = Relay(results[r])
      BY <2>3
    <3>2. \/ results[r].accepted /\ relayed[k] = Msg("joined", results[r].player)
          \/ ~results[r].accepted /\ relayed[k] = Msg("rejected", results[r].player)
      BY <3>1 DEF Relay
    <3>3. \A p, q : Msg(p, results[r].player) = Msg(q, i) => p = q /\ results[r].player = i
      BY DEF Msg
    <3> QED
      BY <3>1, <3>2, <3>3 DEF Refused, Accepted
  <2>7. Len(<<>>) = 0 /\ \A k : ~(k \in 1..0)
    OBVIOUS
  <2> QED
    BY <1>0, <2>2, <2>4, <2>5, <2>6, <2>7 DEF Tells, Refused, Evicted, Accepted
<1>4. CASE PumpEvictions
  <2> DEFINE notices == [k \in 1..Len(evictions) |-> Msg("evicted", evictions[k].player)]
  <2>1. outgoing' = outgoing \o notices /\ evictions' = <<>> /\ UNCHANGED <<results, down>>
    BY <1>4 DEF PumpEvictions, Close
  <2>2. /\ notices \in Seq(Answers) /\ Len(notices) = Len(evictions)
        /\ \A k \in 1..Len(evictions) : notices[k] = Msg("evicted", evictions[k].player)
    BY NoticesAre
  <2> HIDE DEF notices
  <2>3. \A M : Has(outgoing', M) => Has(outgoing, M) \/ Has(notices, M)
    BY <1>1, <2>1, <2>2, Linked
  <2>4. \A M : Has(outgoing, M) \/ Has(notices, M) => Has(outgoing', M)
    <3>1. Msg("ready", 0) \in Answers
      BY DEF Msg, Answers
    <3> QED
      BY <1>1, <2>1, <2>2, <3>1, Extended
  <2>5. ASSUME NEW i \in Ids
        PROVE  /\ ~Has(notices, {Msg("rejected", i)}) /\ ~Has(notices, {Msg("joined", i)})
               /\ Has(notices, {Msg("evicted", i)}) <=> \E k \in 1..Len(evictions) : evictions[k].player = i
    <3>1. \A p, q, j : Msg(p, j) = Msg(q, i) <=> p = q /\ j = i
      BY DEF Msg
    <3> QED
      BY <2>2, <3>1 DEF Has
  <2>6. Len(<<>>) = 0 /\ \A k : ~(k \in 1..0)
    OBVIOUS
  <2> QED
    BY <1>0, <2>1, <2>3, <2>4, <2>5, <2>6 DEF Tells, Refused, Evicted, Accepted
<1>5. CASE Write
  <2>1. /\ outgoing # <<>> /\ outgoing' = Tail(outgoing) /\ UNCHANGED <<results, evictions>>
        /\ down' = IF "gateway" \in closedBy[connection] THEN down
                   ELSE [down EXCEPT ![connection] = Append(down[connection], Head(outgoing))]
    BY <1>5 DEF Write, hostVars
  <2>2. Head(outgoing) \in Answers
    BY <1>1, <2>1
  <2>3. \A M : /\ Has(outgoing', M) => Has(outgoing, M)
               /\ Head(outgoing) \in M => Has(outgoing, M)
    BY <1>1, <2>1, Shortened
  <2>4. down'[connection] = IF "gateway" \in closedBy[connection] THEN down[connection]
                            ELSE Append(down[connection], Head(outgoing))
    BY <1>1, <2>1
  <2>5. \A M : Has(down'[connection], M) => Has(down[connection], M) \/ Has(outgoing, M)
    <3>1. \A M : Has(Append(down[connection], Head(outgoing)), M) => Has(down[connection], M) \/ Head(outgoing) \in M
      BY <1>1, Appended
    <3> QED
      BY <2>3, <2>4, <3>1
  <2>6. "gateway" \notin closedBy[connection] =>
          \A M : Has(outgoing, M) \/ Has(down[connection], M) => Has(outgoing', M) \/ Has(down'[connection], M)
    <3>1. \A M : Has(outgoing, M) => Head(outgoing) \in M \/ Has(Tail(outgoing), M)
      BY <1>1, <2>1, <2>2, Extended
    <3>2. \A M : Has(down[connection], M) \/ Head(outgoing) \in M => Has(Append(down[connection], Head(outgoing)), M)
      BY <1>1, <2>2, Extended
    <3> QED
      BY <2>1, <2>4, <3>1, <3>2
  <2> QED
    BY <1>0, <2>1, <2>3, <2>5, <2>6 DEF Tells, Refused, Evicted, Accepted
<1> QED
  BY <1>2, <1>3, <1>4, <1>5

LEMMA AnswerPlaces ==
  ASSUME TypeOK, Handshake, phase = "Connected", NEW i \in Ids, Refused(i) \/ Accepted(i)
  PROVE  Decided(i, connection) \/ Relaying(i, connection) \/ Replied(i, connection)
<1>1. results \in Seq(Result) /\ \A k \in 1..Len(results) : results[k].from = connection
  BY DEF TypeOK, HostTypes, Handshake, HostOf
<1>2. ASSUME NEW k \in 1..Len(results), results[k].kind = "join", results[k].player = i
      PROVE  Decided(i, connection)
  <2>1. results[k] \in Result /\ results[k].from = connection
    BY <1>1
  <2> QED
    BY <1>2, <2>1 DEF Decided, Has, JoinResult
<1>3. Has(outgoing, {Msg("rejected", i)}) \/ Has(outgoing, {Msg("joined", i)}) => Relaying(i, connection)
  BY DEF Relaying, Has, JoinAnswer
<1>4. Has(down[connection], {Msg("rejected", i)}) \/ Has(down[connection], {Msg("joined", i)}) => Replied(i, connection)
  BY DEF Replied, Has, JoinAnswer
<1> QED
  BY <1>2, <1>3, <1>4 DEF Refused, Accepted

\* A session begins with nothing said but Ready.
LEMMA OpensSilent ==
  ASSUME RoomInv, Unheard, Opens, phase' = "Connected", NEW i \in Ids
  PROVE  ~Accepted(i)' /\ ~Evicted(i)'
<1>1. /\ outgoing' = <<Msg("ready", 0)>>
      /\ UNCHANGED <<results, evictions, down, connection, generation>> /\ phase = "Resetting"
  BY DEF Opens, CheckReset, gatewayVars, wireVars
<1>2. results = <<>> /\ evictions = <<>>
  BY <1>1 DEF RoomInv, Handshake, HostEmpty
<1>3. connection \in Generations
  BY <1>1, BoundsAssumption DEF RoomInv, TypeOK, IpcTypes, Generations
<1>4. down[connection] = <<>>
  BY <1>1, <1>3 DEF Unheard, Unbegun
<1>5. ~Has(outgoing', {Msg("joined", i)}) /\ ~Has(outgoing', {Msg("evicted", i)})
  <2>1. Msg("ready", 0) \notin {Msg("joined", i), Msg("evicted", i)}
    BY DEF Msg
  <2>2. Len(<<Msg("ready", 0)>>) = 1 /\ <<Msg("ready", 0)>>[1] = Msg("ready", 0) /\ \A k \in 1..1 : k = 1
    OBVIOUS
  <2> QED
    BY <1>1, <2>1, <2>2 DEF Has
<1>6. Len(<<>>) = 0 /\ \A k : ~(k \in 1..0)
  OBVIOUS
<1> QED
  BY <1>1, <1>2, <1>4, <1>5, <1>6 DEF Accepted, Evicted, Has

LEMMA StepControlOutside ==
  ASSUME RoomInv, Outside, phase = "Connected", StepControl, NEW i \in Ids
  PROVE  /\ Refused(i)' => i \notin Players'
         /\ Evicted(i)' => i \notin Players' /\ [player |-> i, from |-> connection'] \in seated'
<1> DEFINE c == Head(controls)
           answer(accepted) == [request |-> c.request, player |-> c.player, kind |-> c.kind, from |-> c.from,
                                accepted |-> accepted]
<1>0. TypeOK /\ Handshake
  BY DEF RoomInv
<1>1. /\ controls \in Seq(Control) /\ controls # <<>> /\ results \in Seq(Result)
      /\ UNCHANGED <<connection, evictions, outgoing, down>>
  BY <1>0 DEF StepControl, TypeOK, HostTypes, ipcVars, wireVars
<1>2. c \in Control /\ c = controls[1] /\ 1 \in 1..Len(controls)
  BY <1>1
<1>3. Evicted(i)' <=> Evicted(i)
  BY <1>1 DEF Evicted
<1>4. members \subseteq seated
  BY DEF RoomInv, Company
<1>5. seated \subseteq seated'
  BY <1>4 DEF StepControl
<1>6. ASSUME i \in Players', i \notin Players
      PROVE  ~Refused(i)' /\ ~Evicted(i)'
  <2>1. PICK m \in members' : m.player = i /\ m \notin members
    BY <1>6 DEF Players
  <2>2. c.kind = "join" /\ c.player = i /\ results' = Append(results, answer(TRUE))
    BY <2>1 DEF StepControl
  <2>3. c.from = connection
    BY <1>0, <1>2 DEF Handshake, HostOf
  <2>4. connection \in Generations
    BY <1>0, AskedIs
  <2>5. Taken(i, connection)
    <3>1. controls[1] \in JoinControl(i, connection)
      BY <1>2, <2>2, <2>3 DEF JoinControl
    <3> QED
      BY <1>2, <3>1 DEF Taken, Has
  <2>6. ~Decided(i, connection) /\ ~Relaying(i, connection) /\ ~Replied(i, connection) /\ ~Sat(i, connection)
    BY <2>4, <2>5 DEF RoomInv, OneJoin, Apart
  <2>7. ~Refused(i)
    BY <1>0, <2>6, AnswerPlaces
  <2>8. ~Refused(i)'
    <3>1. ASSUME NEW k \in 1..Len(results'), results'[k].kind = "join", results'[k].player = i, ~results'[k].accepted
          PROVE  FALSE
      <4>1. \/ k \in 1..Len(results) /\ results'[k] = results[k]
            \/ results'[k] = answer(TRUE)
        BY <1>1, <2>2
      <4> QED
        BY <2>7, <3>1, <4>1 DEF Refused
    <3> QED
      BY <1>1, <2>7, <3>1 DEF Refused
  <2>9. ~Evicted(i)
    BY <2>6 DEF Outside, Sat
  <2> QED
    BY <1>3, <2>8, <2>9
<1>7. ASSUME i \in Players', i \in Players
      PROVE  ~Refused(i)' /\ ~Evicted(i)'
  <2>1. ~Refused(i) /\ ~Evicted(i)
    BY <1>7 DEF Outside
  <2>2. PICK accepted \in BOOLEAN :
          /\ results' = Append(results, answer(accepted))
          /\ ~accepted => ~Present(c.player)
    BY DEF StepControl
  <2>3. Present(i)
    BY <1>7 DEF Players, Present
  <2>4. ~Refused(i)'
    <3>1. ASSUME NEW k \in 1..Len(results'), results'[k].kind = "join", results'[k].player = i, ~results'[k].accepted
          PROVE  FALSE
      <4>1. \/ k \in 1..Len(results) /\ results'[k] = results[k]
            \/ results'[k] = answer(accepted)
        BY <1>1, <2>2
      <4> QED
        BY <2>1, <2>2, <2>3, <3>1, <4>1 DEF Refused
    <3> QED
      BY <1>1, <2>1, <3>1 DEF Refused
  <2> QED
    BY <1>3, <2>1, <2>4
<1>8. Evicted(i)' => [player |-> i, from |-> connection'] \in seated'
  BY <1>1, <1>3, <1>5 DEF Outside
<1> QED
  BY <1>6, <1>7, <1>8

LEMMA StepEndOutside ==
  ASSUME RoomInv, Outside, phase = "Connected", StepEnd, NEW i \in Ids
  PROVE  /\ Refused(i)' => i \notin Players'
         /\ Evicted(i)' => i \notin Players' /\ [player |-> i, from |-> connection'] \in seated'
<1>0. TypeOK /\ HostOf(connection) /\ members \subseteq seated /\ members \subseteq Seats
  BY DEF RoomInv, TypeOK, HostTypes, Handshake, Company
<1>1. UNCHANGED <<connection, results, outgoing, down, seated>> /\ evictions \in Seq(Seats)
  BY <1>0 DEF StepEnd, wireVars, historyVars, TypeOK, HostTypes
<1>2. PICK evicted \in {{}} \cup {{m} : m \in members} :
        /\ evictions' = IF evicted = {} THEN evictions
                        ELSE Append(evictions, CHOOSE m \in evicted : TRUE)
        /\ members' = members \ evicted
  BY DEF StepEnd
<1>3. Refused(i)' => i \notin Players'
  BY <1>1, <1>2 DEF Refused, Players, Outside
<1>4. CASE evicted = {}
  BY <1>1, <1>2, <1>3, <1>4 DEF Evicted, Players, Outside
<1>5. CASE evicted # {}
  <2> DEFINE gone == CHOOSE m \in evicted : TRUE
  <2>1. gone \in members /\ evicted = {gone}
    BY <1>2, <1>5
  <2> HIDE DEF gone
  <2>2. evictions' = Append(evictions, gone) /\ members' = members \ {gone}
    BY <1>2, <1>5, <2>1 DEF gone
  <2>3. gone = [player |-> gone.player, from |-> connection] /\ \A m \in members : m = [player |-> m.player, from |-> connection]
    <3>1. \A m \in members : m \in Seats /\ m.from = connection
      BY <1>0 DEF HostOf
    <3> QED
      BY <2>1, <3>1 DEF Seats
  <2>4. Evicted(i)' => Evicted(i) \/ gone.player = i
    <3>1. ASSUME NEW k \in 1..Len(evictions'), evictions'[k].player = i
          PROVE  Evicted(i) \/ gone.player = i
      <4>1. \/ k \in 1..Len(evictions) /\ evictions'[k] = evictions[k]
            \/ evictions'[k] = gone
        BY <1>1, <2>2
      <4> QED
        BY <3>1, <4>1 DEF Evicted
    <3> QED
      BY <1>1, <3>1 DEF Evicted
  <2>5. gone.player \notin Players'
    BY <2>2, <2>3 DEF Players
  <2>6. Players' \subseteq Players
    BY <2>2 DEF Players
  <2> QED
    BY <1>0, <1>1, <1>3, <2>1, <2>3, <2>4, <2>5, <2>6 DEF Outside
<1> QED
  BY <1>4, <1>5

LEMMA NextOutside ==
  ASSUME RoomInv, InTurn, Unheard, Outside, [Next]_vars
  PROVE  Outside'
<1> SUFFICES ASSUME phase' = "Connected", NEW i \in Ids
             PROVE  /\ Refused(i)' => i \notin Players'
                    /\ Evicted(i)' => i \notin Players' /\ [player |-> i, from |-> connection'] \in seated'
  BY DEF Outside
<1>0. TypeOK /\ Awaited
  BY DEF RoomInv
<1>1. CASE Opens
  BY <1>1, OpensSilent DEF Opens, Players
<1>2. ASSUME phase = "Connected", Tells, UNCHANGED <<members, seated, connection>>
      PROVE  /\ Refused(i)' => i \notin Players'
             /\ Evicted(i)' => i \notin Players' /\ [player |-> i, from |-> connection'] \in seated'
  BY <1>2 DEF Tells, Outside, Players
<1>3. CASE phase = "Connected" /\ GatewayNext
  <2>1. UNCHANGED <<members, seated, connection>>
    BY <1>3 DEF GatewayNext, StartGateway, ReadReady, StopGateway, Reserve, FirstHello, EndReservation, ReadRuntime,
       WriteQueue, FailLink, RuntimeFailed, ipcVars, hostVars, historyVars
  <2> QED
    BY <1>0, <1>2, <1>3, <2>1, GatewayTells
<1>4. CASE Receive \/ PumpResults \/ PumpEvictions \/ Write \/ UNCHANGED vars
  <2>1. UNCHANGED <<members, seated, connection>> /\ phase = "Connected"
    BY <1>4 DEF Receive, PumpResults, PumpEvictions, Write, Close, Stay, vars, ipcVars, hostVars, historyVars
  <2> QED
    BY <1>0, <1>2, <1>4, <2>1, IpcTells
<1>5. CASE phase = "Connected" /\ (Takes \/ Ends)
  BY <1>5, StepControlOutside, StepEndOutside DEF Takes, Ends
<1> QED
  BY <1>1, <1>3, <1>4, <1>5, Moves DEF GatewayNext, Cuts

----------------------------------------------------------------------------
(* Whom the Gateway serves as active is in the room, or hears that he is not. *)

Granted(i) == reservation[i] = "active" \/ (reservation[i] = "joining" /\ Accepted(i))
Hosted == Live => \A i \in Ids : Granted(i) => i \in Players \/ Evicted(i)

\* The Gateway reads of a player: who was granted and is told no more of it was told of
\* his eviction.
LEMMA ReadHosted ==
  ASSUME RoomInv, Hosted, Live, ReadRuntime, UNCHANGED <<members, connection>>, NEW i \in Ids, Granted(i)'
  PROVE  i \in Players' \/ Evicted(i)'
<1> DEFINE m == Head(down[generation])
<1>1. /\ connection = generation /\ connection \in Generations /\ phase = "Connected"
      /\ reservation \in [Ids -> {"none", "reserved", "joining", "active"}]
      /\ down \in [Generations -> Seq(Answers)] /\ down[connection] \in Seq(Answers)
  BY AskedIs DEF Live, InSession, RoomInv, TypeOK, GatewayTypes, WireTypes
<1>2. /\ down[connection] # <<>> /\ m = Head(down[connection]) /\ down' = [down EXCEPT ![connection] = Tail(down[connection])]
      /\ UNCHANGED <<results, outgoing, evictions>> /\ GatewayNext
  BY <1>1 DEF ReadRuntime, ipcVars, hostVars, GatewayNext
<1>3. m \in Answers /\ down'[connection] = Tail(down[connection])
  BY <1>1, <1>2
<1> HIDE DEF m
<1>4. \/ m.kind = "joined" /\ Answered(m.player, "active")
      \/ m.kind = "rejected" /\ Answered(m.player, "none")
      \/ m.kind = "evicted" /\ reservation' = [reservation EXCEPT ![m.player] = "none"]
  BY DEF ReadRuntime, m
<1>5. Accepted(i)' => Accepted(i)
  BY <1>1, <1>2, GatewayTells DEF Tells, RoomInv
<1>6. Granted(i)
  <2>1. CASE m.kind = "joined"
    <3>1. CASE m.player = i /\ reservation[i] = "joining"
      <4>1. m = Msg("joined", i)
        BY <1>3, <2>1, <3>1 DEF Answers, Msg
      <4>2. Accepted(i)
        <5>1. Has(down[connection], {Msg("joined", i)})
          BY <1>1, <1>2, <4>1, Shortened
        <5> QED
          BY <5>1 DEF Accepted
      <4> QED
        BY <3>1, <4>2 DEF Granted
    <3>2. CASE ~(m.player = i /\ reservation[i] = "joining")
      <4>1. reservation'[i] = reservation[i]
        BY <1>1, <1>4, <2>1, <3>2 DEF Answered
      <4> QED
        BY <1>5, <4>1 DEF Granted
    <3> QED
      BY <3>1, <3>2
  <2>2. CASE m.kind # "joined"
    <3>1. reservation'[i] = reservation[i] \/ reservation'[i] = "none"
      BY <1>1, <1>4, <2>2 DEF Answered
    <3> QED
      BY <1>5, <3>1 DEF Granted
  <2> QED
    BY <2>1, <2>2
<1>7. i \in Players \/ Evicted(i)
  BY <1>6 DEF Hosted
<1>8. CASE Evicted(i)
  <2>1. CASE m = Msg("evicted", i)
    <3>1. reservation'[i] = "none"
      BY <1>1, <1>4, <2>1 DEF Msg
    <3> QED
      BY <3>1 DEF Granted
  <2>2. CASE m # Msg("evicted", i)
    <3>1. Has(down[connection], {Msg("evicted", i)}) => Has(Tail(down[connection]), {Msg("evicted", i)})
      BY <1>1, <1>2, <1>3, <2>2, Extended
    <3> QED
      BY <1>2, <1>3, <1>8, <3>1 DEF Evicted
  <2> QED
    BY <2>1, <2>2
<1> QED
  BY <1>7, <1>8 DEF Players

LEMMA StepControlHosted ==
  ASSUME RoomInv, Hosted, LeaversGone, Live, StepControl, NEW i \in Ids, Granted(i)'
  PROVE  i \in Players' \/ Evicted(i)'
<1> DEFINE c == Head(controls)
           answer(accepted) == [request |-> c.request, player |-> c.player, kind |-> c.kind, from |-> c.from,
                                accepted |-> accepted]
<1>0. TypeOK /\ Handshake /\ InSession /\ phase = "Connected"
  BY DEF RoomInv, Live, InSession
<1>1. /\ controls \in Seq(Control) /\ controls # <<>> /\ results \in Seq(Result)
      /\ UNCHANGED <<connection, evictions, outgoing, down, reservation>>
  BY <1>0 DEF StepControl, TypeOK, HostTypes, ipcVars, wireVars, gatewayVars
<1>2. c \in Control
  BY <1>1
<1>3. Evicted(i)' <=> Evicted(i)
  BY <1>1 DEF Evicted
<1>4. PICK accepted \in BOOLEAN :
        /\ results' = Append(results, answer(accepted))
        /\ c.kind = "join" /\ accepted =>
             members' = IF Present(c.player) THEN members ELSE members \cup {[player |-> c.player, from |-> c.from]}
  BY DEF StepControl
<1>5. CASE c.kind = "join" /\ c.player = i /\ accepted
  BY <1>4, <1>5 DEF Present, Players
<1>6. CASE ~(c.kind = "join" /\ c.player = i /\ accepted)
  <2>2. Accepted(i)' => Accepted(i)
    <3>1. ASSUME NEW k \in 1..Len(results'), results'[k].kind = "join", results'[k].player = i, results'[k].accepted
          PROVE  Accepted(i)
      <4>1. \/ k \in 1..Len(results) /\ results'[k] = results[k]
            \/ results'[k] = answer(accepted)
        BY <1>1, <1>4
      <4> QED
        BY <1>6, <3>1, <4>1 DEF Accepted
    <3> QED
      BY <1>1, <3>1 DEF Accepted
  <2>3. Granted(i)
    BY <1>1, <2>2 DEF Granted
  <2>4. i \in Players \/ Evicted(i)
    BY <2>3 DEF Hosted
  <2>5. CASE i \in Players
    <3>1. ~(c.kind = "leave" /\ c.player = i)
      <4> SUFFICES ASSUME c.kind = "leave", c.player = i PROVE FALSE
        OBVIOUS
      <4>1. Asked # <<>> /\ Asked[1] = Msg("leave", i) /\ Asked \in Seq(Asks)
        BY <1>0, AskedIs, AskedTaken
      <4>2. 1 \in 1..Len(Asked)
        BY <4>1
      <4>3. Has(Asked, {Msg("leave", i)})
        BY <4>1, <4>2 DEF Has
      <4>4. reservation[i] = "none"
        BY <1>0, <4>3 DEF LeaversGone
      <4> QED
        BY <2>3, <4>4 DEF Granted
    <3>2. \A m \in members : m.player = i => m \in members'
      BY <3>1 DEF StepControl
    <3> QED
      BY <2>5, <3>2 DEF Players
  <2> QED
    BY <1>3, <2>4, <2>5
<1> QED
  BY <1>5, <1>6

LEMMA StepEndHosted ==
  ASSUME RoomInv, Hosted, Live, StepEnd, NEW i \in Ids, Granted(i)'
  PROVE  i \in Players' \/ Evicted(i)'
<1>1. UNCHANGED <<connection, results, outgoing, down, reservation>> /\ evictions \in Seq(Seats)
  BY DEF StepEnd, wireVars, gatewayVars, RoomInv, TypeOK, HostTypes
<1>2. PICK evicted \in {{}} \cup {{m} : m \in members} :
        /\ evictions' = IF evicted = {} THEN evictions
                        ELSE Append(evictions, CHOOSE m \in evicted : TRUE)
        /\ members' = members \ evicted
  BY DEF StepEnd
<1>3. Granted(i)
  BY <1>1 DEF Granted, Accepted
<1>4. i \in Players \/ Evicted(i)
  BY <1>3 DEF Hosted
<1>5. CASE evicted = {}
  BY <1>1, <1>2, <1>4, <1>5 DEF Players, Evicted
<1>6. CASE evicted # {}
  <2> DEFINE gone == CHOOSE m \in evicted : TRUE
  <2>1. evicted = {gone}
    BY <1>2, <1>6
  <2> HIDE DEF gone
  <2>2. evictions' = Append(evictions, gone) /\ members' = members \ {gone}
    BY <1>2, <1>6, <2>1 DEF gone
  <2>3. /\ Len(evictions') = Len(evictions) + 1 /\ Len(evictions) \in Nat /\ evictions'[Len(evictions) + 1] = gone
        /\ \A k \in 1..Len(evictions) : evictions'[k] = evictions[k] /\ k \in 1..Len(evictions')
    BY <1>1, <2>2
  <2>4. Evicted(i) => Evicted(i)'
    BY <1>1, <2>3 DEF Evicted
  <2>5. gone.player = i => Evicted(i)'
    <3>1. Len(evictions) + 1 \in 1..Len(evictions')
      BY <2>3
    <3> QED
      BY <2>3, <3>1 DEF Evicted
  <2> QED
    BY <1>4, <2>2, <2>4, <2>5 DEF Players
<1> QED
  BY <1>5, <1>6

\* The player of a new Join has no answer on its way.
LEMMA FirstHelloHosted ==
  ASSUME RoomInv, Live, NEW p \in Ids, reservation[p] = "reserved"
  PROVE  ~Accepted(p)
<1>1. connection = generation /\ connection \in Generations /\ TypeOK /\ Handshake /\ phase = "Connected"
  BY AskedIs DEF Live, InSession, RoomInv
<1>2. Unasked(p, connection)
  BY <1>1 DEF Unasked
<1>3. ~Decided(p, connection) /\ ~Relaying(p, connection) /\ ~Replied(p, connection)
  BY <1>1, <1>2 DEF RoomInv, OneJoin, Apart
<1> QED
  BY <1>1, <1>3, AnswerPlaces

LEMMA NextHosted ==
  ASSUME RoomInv, InTurn, Unheard, Idle, LeaversGone, Hosted, [Next]_vars
  PROVE  Hosted'
<1> SUFFICES ASSUME Live', NEW i \in Ids, Granted(i)'
             PROVE  i \in Players' \/ Evicted(i)'
  BY DEF Hosted
<1>0. TypeOK /\ Awaited /\ phase' = "Connected"
  BY DEF RoomInv, Live, InSession
<1>1. CASE Opens
  <2>1. UNCHANGED <<reservation, gateway, connection, generation>> /\ phase = "Resetting"
    BY <1>1 DEF Opens, CheckReset, gatewayVars
  <2>2. reservation[i] = "active"
    BY <1>0, <1>1, <2>1, OpensSilent DEF Granted
  <2>3. connection \in Generations /\ connection = generation
    <3>1. connection' = generation'
      BY DEF Live, InSession
    <3>2. connection \in 1..MaxGenerations
      BY <1>0, <2>1, BoundsAssumption DEF TypeOK, IpcTypes
    <3> QED
      BY <2>1, <3>1, <3>2 DEF Generations
  <2>4. gateway \in {"dialing", "down"}
    BY <2>1, <2>3 DEF Unheard, Unbegun
  <2>5. reservation = NoReservation
    BY <2>1, <2>4 DEF Idle, Live
  <2> QED
    BY <2>2, <2>5 DEF NoReservation
<1> SUFFICES ASSUME phase = "Connected", ~Opens
             PROVE  i \in Players' \/ Evicted(i)'
  BY <1>0, <1>1, Moves
<1>2. connection' = connection
  BY <1>0, Moves DEF Sends, Keeps, Cuts, Takes, Ends
<1>3. Live /\ UNCHANGED generation /\ ~StartGateway /\ ~Cuts
  BY <1>0, <1>2, StillLive DEF Cuts
<1>4. /\ reservation \in [Ids -> {"none", "reserved", "joining", "active"}]
      /\ connection \in Generations /\ connection = generation /\ "gateway" \notin closedBy[connection]
  BY <1>0, <1>3, AskedIs DEF TypeOK, GatewayTypes, Live, InSession, LinkOpen
<1>5. Granted(i) => i \in Players \/ Evicted(i)
  BY <1>3 DEF Hosted
<1>6. CASE (Receive \/ PumpResults \/ PumpEvictions \/ Write \/ UNCHANGED vars) /\ Keeps
  <2>1. reservation' = reservation
    BY <1>6 DEF Receive, PumpResults, PumpEvictions, Write, vars, gatewayVars
  <2>2. Tells /\ (Evicted(i) => Evicted(i)')
    BY <1>0, <1>4, <1>6, IpcTells
  <2>3. Granted(i)
    BY <2>1, <2>2 DEF Granted, Tells
  <2> QED
    BY <1>5, <1>6, <2>2, <2>3 DEF Keeps, Players
<1>7. CASE ReadRuntime /\ Keeps
  BY <1>3, <1>7, ReadHosted DEF Keeps
<1>8. CASE ReadReady /\ Keeps
  <2>1. reservation' = reservation /\ gateway = "dialing"
    BY <1>8 DEF ReadReady
  <2> QED
    BY <2>1 DEF Idle, NoReservation, Granted
<1>9. CASE Takes \/ Ends
  BY <1>3, <1>9, StepControlHosted, StepEndHosted DEF Takes, Ends
<1>10. ASSUME GatewayNext, UNCHANGED <<members, down>>,
              \/ reservation'[i] = reservation[i]
              \/ reservation'[i] \in {"none", "reserved"}
              \/ reservation'[i] = "joining" /\ reservation[i] = "reserved"
       PROVE  i \in Players' \/ Evicted(i)'
  <2>1. UNCHANGED <<results, evictions, outgoing>>
    BY <1>10 DEF GatewayNext, StartGateway, ReadReady, StopGateway, Reserve, FirstHello, EndReservation, ReadRuntime,
       WriteQueue, FailLink, RuntimeFailed, ipcVars, hostVars
  <2>2. (Accepted(i)' <=> Accepted(i)) /\ (Evicted(i)' <=> Evicted(i)) /\ Players' = Players
    BY <1>2, <1>10, <2>1 DEF Accepted, Evicted, Players
  <2>3. Granted(i)
    BY <1>3, <1>10, <2>2, FirstHelloHosted DEF Granted
  <2> QED
    BY <1>5, <2>2, <2>3
<1>11. CASE (Reserve \/ WriteQueue) /\ Keeps
  <2>1. UNCHANGED <<members, down>> /\ GatewayNext
    BY <1>11 DEF Keeps, Reserve, WriteQueue, wireVars, GatewayNext
  <2>2. reservation'[i] = reservation[i] \/ reservation'[i] = "reserved"
    BY <1>4, <1>11 DEF Reserve, WriteQueue
  <2> QED
    BY <1>10, <2>1, <2>2
<1>12. CASE \E p \in Ids : FirstHello(p) \/ EndReservation(p)
  <2>1. PICK p \in Ids : FirstHello(p) \/ EndReservation(p)
    BY <1>12
  <2>2. UNCHANGED <<members, down>> /\ GatewayNext
    BY <2>1 DEF FirstHello, EndReservation, wireVars, hostVars, GatewayNext
  <2>3. \/ reservation'[i] = reservation[i] \/ reservation'[i] = "none"
        \/ reservation'[i] = "joining" /\ reservation[i] = "reserved"
    BY <1>4, <2>1 DEF FirstHello, EndReservation
  <2> QED
    BY <1>10, <2>2, <2>3
<1> QED
  BY <1>0, <1>3, <1>6, <1>7, <1>8, <1>9, <1>11, <1>12, Moves

----------------------------------------------------------------------------
(* The two ends agree.                                                     *)

AgreeInv ==
  /\ RoomInv /\ InTurn /\ Unheard /\ FewReserved /\ Idle
  /\ SeatsSuffice /\ Served /\ LeaversGone /\ Outside /\ Hosted
  /\ FullOnlyAfterLoss

LEMMA NextFull ==
  ASSUME RoomInv, InTurn, SeatsSuffice, FullOnlyAfterLoss, [Next]_vars
  PROVE  FullOnlyAfterLoss'
<1> DEFINE c == Head(controls)
<1>0. TypeOK /\ Handshake
  BY DEF RoomInv
<1>1. overflowed \subseteq overflowed'
  BY LossesStay
<1>2. CASE UNCHANGED refusedFull
  BY <1>1, <1>2 DEF FullOnlyAfterLoss
<1>3. CASE /\ StepControl /\ c.kind = "join" /\ ~Present(c.player) /\ Full
           /\ refusedFull' = refusedFull \cup {c.from}
  <2>1. controls # <<>> /\ controls \in Seq(Control) /\ (stepping \/ ~pendingReset)
    BY <1>0, <1>3 DEF StepControl, TypeOK, HostTypes
  <2>2. phase = "Connected"
    <3>1. ~HostEmpty
      BY <2>1 DEF HostEmpty
    <3>2. phase = "Closing" => pendingReset
      BY <1>0, <3>1 DEF Handshake, TypeOK, HostTypes
    <3>3. phase # "Closing"
      BY <2>1, <3>2 DEF InTurn
    <3> QED
      BY <1>0, <3>1, <3>3 DEF Handshake, TypeOK, IpcTypes
  <2>3. c \in Control /\ c = controls[1] /\ 1 \in 1..Len(controls)
    BY <2>1
  <2>4. c.from = connection /\ (\A m \in members : m.from = connection) /\ c.player \in Ids /\ members \subseteq Seats
    BY <1>0, <2>2, <2>3 DEF Handshake, HostOf, Control, TypeOK, HostTypes
  <2>5. connection \in overflowed
    <3> SUFFICES ASSUME connection \notin overflowed PROVE FALSE
      OBVIOUS
    <3>1. Fits(Asked, Players) /\ Asked # <<>> /\ Asked \in Seq(Asks) /\ Asked[1] = Msg("join", c.player)
      BY <1>0, <1>3, <2>2, AskedIs, AskedTaken DEF SeatsSuffice
    <3>2. Cardinality(Room(Asked, Players, 1)) <= MaxPlayers
      <4>1. 1 \in 0..Len(Asked)
        BY <3>1
      <4> QED
        BY <3>1, <4>1 DEF Fits
    <3>3. IsFiniteSet(Players) /\ Players \subseteq Ids
      <4>1. Players \subseteq Ids
        BY <2>4 DEF Players, Seats
      <4>2. IsFiniteSet(Ids)
        BY BoundsAssumption, FS_Interval DEF Ids
      <4> QED
        BY <4>1, <4>2, FS_Subset
    <3>4. Cardinality(members) <= Cardinality(Players)
      <4> DEFINE f == [p \in Players |-> [player |-> p, from |-> connection]]
      <4>1. members = {f[p] : p \in Players}
        <5>1. \A m \in members : m = [player |-> m.player, from |-> connection]
          BY <2>4 DEF Seats
        <5>2. \A m \in members : m.player \in Players /\ f[m.player] = m
          BY <5>1 DEF Players
        <5>3. \A p \in Players : f[p] \in members
          BY <5>1 DEF Players
        <5> QED
          BY <5>2, <5>3
      <4>2. f = [p \in Players |-> f[p]]
        OBVIOUS
      <4> HIDE DEF f
      <4>3. Cardinality({f[p] : p \in Players}) <= Cardinality(Players)
        BY <3>3, <4>2, Image, Zenon
      <4> QED
        BY <4>1, <4>3
    <3>5. Players \cup {c.player} \subseteq Room(Asked, Players, 1) /\ Room(Asked, Players, 1) \subseteq Ids
      <4>1. 1 \in 1..1 /\ (\A l \in 1..1 : l = 1) /\ \A l : ~(l \in (1 + 1)..1)
        OBVIOUS
      <4>2. \A p \in Players : Asked[1] # Msg("leave", p)
        BY <3>1 DEF Msg
      <4>3. \A p \in Players : In(Asked, Players, p, 1)
        BY <4>1, <4>2 DEF In
      <4>4. In(Asked, Players, c.player, 1)
        BY <3>1, <4>1 DEF In
      <4> QED
        BY <2>4, <3>3, <4>3, <4>4 DEF Room
    <3>6. c.player \notin Players
      BY <1>3 DEF Present, Players
    <3>7. Cardinality(Players \cup {c.player}) = Cardinality(Players) + 1 /\ IsFiniteSet(Players \cup {c.player})
      BY <3>3, <3>6, FS_AddElement
    <3>8. Cardinality(Players \cup {c.player}) <= MaxPlayers
      BY <2>4, <3>2, <3>3, <3>5, FewerFit
    <3>9. Cardinality(Players) \in Nat /\ Cardinality(members) \in Nat /\ Cardinality(members) >= MaxPlayers
      <4>1. IsFiniteSet(members)
        BY <2>4, SeatsFinite, FS_Subset
      <4> QED
        BY <1>3, <3>3, <4>1, FS_CardinalityType DEF Full
    <3> QED
      BY <3>4, <3>7, <3>8, <3>9, BoundsAssumption
  <2> QED
    BY <1>1, <1>3, <2>4, <2>5 DEF FullOnlyAfterLoss
<1>4. \/ UNCHANGED refusedFull
      \/ /\ StepControl /\ c.kind = "join" /\ ~Present(c.player) /\ Full
         /\ refusedFull' = refusedFull \cup {c.from}
  BY DEF Next, GatewayNext, StartGateway, ReadReady, StopGateway, Reserve, FirstHello, EndReservation, ReadRuntime,
   WriteQueue, FailLink, RuntimeFailed, IpcNext, Accept, CheckReset, Receive, EndSession, PumpResults, PumpEvictions,
   Write, HostNext, StepReset, StepControl, StepEnd, vars, historyVars
<1> QED
  BY <1>2, <1>3, <1>4

LEMMA InitAgree == Init => AgreeInv
<1> SUFFICES ASSUME Init PROVE AgreeInv
  OBVIOUS
<1>1. RoomInv
  BY InitRoom
<1>2. Len(<<>>) = 0 /\ \A k : ~(k \in 1..0)
  OBVIOUS
<1>3. InTurn
  BY <1>2 DEF Init, InTurn
<1>4. Unheard
  BY DEF Init, Unheard
<1>5. FewReserved
  <2>1. Reserved = {} /\ Cardinality({}) = 0
    BY FS_EmptySet DEF Init, Reserved
  <2> QED
    BY <2>1, BoundsAssumption DEF FewReserved
<1>6. Idle /\ SeatsSuffice /\ Served /\ LeaversGone /\ Outside /\ Hosted /\ FullOnlyAfterLoss
  BY DEF Init, Idle, SeatsSuffice, Served, LeaversGone, Outside, Hosted, FullOnlyAfterLoss, Live, InSession
<1> QED
  BY <1>1, <1>3, <1>4, <1>5, <1>6 DEF AgreeInv

LEMMA NextAgree == AgreeInv /\ [Next]_vars => AgreeInv'
<1> SUFFICES ASSUME AgreeInv, [Next]_vars PROVE AgreeInv'
  OBVIOUS
<1>1. /\ RoomInv /\ InTurn /\ Unheard /\ FewReserved /\ Idle
      /\ SeatsSuffice /\ Served /\ LeaversGone /\ Outside /\ Hosted /\ FullOnlyAfterLoss
      /\ TypeOK /\ Awaited
  BY DEF AgreeInv, RoomInv
<1>2. RoomInv' /\ InTurn' /\ Unheard' /\ FewReserved' /\ Idle'
  BY <1>1, NextRoom, NextTurn, NextUnheard, NextFewReserved, NextIdle
<1>3. SeatsSuffice' /\ Served' /\ LeaversGone' /\ Outside' /\ Hosted' /\ FullOnlyAfterLoss'
  BY <1>1, NextSeatsSuffice, NextServed, NextLeaversGone, NextOutside, NextHosted, NextFull
<1> QED
  BY <1>2, <1>3 DEF AgreeInv

LEMMA AlwaysAgree == Spec => []AgreeInv
BY InitAgree, NextAgree, PTL DEF Spec

\* A Join is refused as match_full only behind a control that was lost: Server.reserveSlot counts
\* what it has given, and the Leave of a seat is asked before the Join that takes it.
THEOREM FullAfterLoss == Spec => []FullOnlyAfterLoss
<1>1. AgreeInv => FullOnlyAfterLoss
  BY DEF AgreeInv
<1> QED
  BY <1>1, AlwaysAgree, PTL

LEMMA AskedLeave ==
  ASSUME TypeOK, InSession, NEW i, Has(Asked, {Msg("leave", i)})
  PROVE  Holds(queue, "leave", i) \/ Holds(up[generation], "leave", i) \/ Holds(controls, "leave", i)
<1> DEFINE u == up[connection]
<1>1. phase = "Connected" /\ connection = generation
  BY DEF InSession
<1>2. controls \in Seq(Control) /\ u \in Seq(Asks) /\ queue \in Seq(Asks) /\ Asked = Line(controls, u, queue)
  BY <1>1, AskedIs DEF Asked, QueueOf
<1> HIDE DEF u
<1>3. /\ Len(controls) \in Nat /\ Len(u) \in Nat /\ Len(queue) \in Nat
      /\ Len(Line(controls, u, queue)) = Len(controls) + Len(u) + Len(queue)
      /\ \A l \in 1..(Len(controls) + Len(u) + Len(queue)) : Line(controls, u, queue)[l] =
            IF l <= Len(controls) THEN Msg(controls[l].kind, controls[l].player)
            ELSE IF l <= Len(controls) + Len(u) THEN u[l - Len(controls)]
            ELSE queue[l - (Len(controls) + Len(u))]
  BY <1>2, LineIs
<1>4. PICK k \in 1..(Len(controls) + Len(u) + Len(queue)) : Line(controls, u, queue)[k] = Msg("leave", i)
  BY <1>2, <1>3 DEF Has
<1>5. \A p, j : Msg(p, j) = Msg("leave", i) => p = "leave" /\ j = i
  BY DEF Msg
<1>6. Msg("leave", i).kind = "leave" /\ Msg("leave", i).player = i
  BY DEF Msg
<1>7. CASE k <= Len(controls)
  <2>1. k \in 1..Len(controls) /\ Msg(controls[k].kind, controls[k].player) = Msg("leave", i)
    BY <1>3, <1>4, <1>7
  <2> QED
    BY <1>5, <2>1 DEF Holds
<1>8. CASE ~(k <= Len(controls)) /\ k <= Len(controls) + Len(u)
  <2>1. k - Len(controls) \in 1..Len(u) /\ u[k - Len(controls)] = Msg("leave", i)
    BY <1>3, <1>4, <1>8
  <2>2. Holds(u, "leave", i)
    BY <1>6, <2>1 DEF Holds
  <2> QED
    BY <1>1, <2>2 DEF u
<1>9. CASE ~(k <= Len(controls)) /\ ~(k <= Len(controls) + Len(u))
  <2>1. k - (Len(controls) + Len(u)) \in 1..Len(queue) /\ queue[k - (Len(controls) + Len(u))] = Msg("leave", i)
    BY <1>3, <1>4, <1>9
  <2> QED
    BY <1>6, <2>1 DEF Holds
<1> QED
  BY <1>7, <1>8, <1>9

\* While the link is healthy no seat is taken by a ghost and no Client plays on without an entity:
\* a member of the Match is a player the Gateway serves, or its Leave is on its way; an active
\* player is a member, or the notice of its eviction is on its way (server.go and PvpMatch).
THEOREM EndsAgree == Spec => []MembersAgree
<1>1. AgreeInv => MembersAgree
  <2> SUFFICES ASSUME AgreeInv, Healthy
               PROVE  NoGhostMember /\ ActiveIsMember
    BY DEF MembersAgree
  <2>1. TypeOK /\ InTurn /\ Unheard /\ Served /\ Hosted
    BY DEF AgreeInv, RoomInv
  <2>2. connection = generation /\ generation \in Generations /\ gateway = "serving"
    BY <2>1, GenerationTypes DEF Healthy
  <2>3. Live /\ connection \notin overflowed
    <3>1. phase # "Resetting"
      BY <2>1, <2>2 DEF Unheard, Unbegun
    <3>2. phase \notin {"Accepting", "Closing"}
      BY <2>1, <2>2 DEF InTurn, Generations
    <3>3. phase = "Connected"
      BY <2>1, <3>1, <3>2 DEF TypeOK, IpcTypes
    <3> QED
      BY <2>2, <3>3 DEF Live, InSession, LinkOpen, Healthy, Generations
  <2>4. NoGhostMember
    <3> SUFFICES ASSUME NEW m \in members
                 PROVE  \/ reservation[m.player] \in {"joining", "active"}
                        \/ Holds(queue, "leave", m.player)
                        \/ Holds(up[generation], "leave", m.player)
                        \/ Holds(controls, "leave", m.player)
      BY DEF NoGhostMember
    <3>1. m.player \in Players /\ m.player \in Ids
      BY <2>1 DEF Players, TypeOK, HostTypes, Seats
    <3>2. CASE In(Asked, Players, m.player, Len(Asked))
      BY <2>1, <2>3, <3>1, <3>2 DEF Served
    <3>3. CASE ~In(Asked, Players, m.player, Len(Asked))
      <4>1. Has(Asked, {Msg("leave", m.player)})
        BY <3>1, <3>3 DEF In, Has
      <4> QED
        BY <2>1, <2>3, <4>1, AskedLeave DEF Live
    <3> QED
      BY <3>2, <3>3
  <2>5. ActiveIsMember
    <3> SUFFICES ASSUME NEW i \in Ids, reservation[i] = "active"
                 PROVE  \/ Present(i)
                        \/ \E k \in 1..Len(evictions) : evictions[k].player = i
                        \/ Holds(outgoing, "evicted", i)
                        \/ Holds(down[generation], "evicted", i)
      BY DEF ActiveIsMember
    <3>1. i \in Players \/ Evicted(i)
      BY <2>1, <2>3 DEF Hosted, Granted
    <3>2. Msg("evicted", i).kind = "evicted" /\ Msg("evicted", i).player = i
      BY DEF Msg
    <3>3. \A s : Has(s, {Msg("evicted", i)}) => Holds(s, "evicted", i)
      BY <3>2 DEF Has, Holds
    <3> QED
      BY <2>2, <3>1, <3>3 DEF Players, Present, Evicted
  <2> QED
    BY <2>4, <2>5
<1> QED
  BY <1>1, AlwaysAgree, PTL
=============================================================================
