--------------------------- MODULE RoomLifecycle ---------------------------
(***************************************************************************)
(* The life of the room: Gateway processes that start, serve, fail and are *)
(* started again; the IPC connection between each and the Match; and the   *)
(* Match's players.  The actors:                                           *)
(*                                                                         *)
(*   Gateway        reservations and their controls       server.go        *)
(*   link           the control queue and its writer      runtime_link.go  *)
(*   Match I/O      one connection at a time, reset before and after each  *)
(*                                                        IpcHost.cpp      *)
(*   Match role     controls, evictions and resets, at tick boundaries     *)
(*                                                 MatchRuntimeHost.cpp    *)
(*                                                                         *)
(* Each Gateway process dials once (connectRuntime), so its number names   *)
(* its connection as well.  It numbers its players from 1: two processes   *)
(* use the same ids for different players.  The records of the Match carry *)
(* `from', the connection they came by, which the program does not have:   *)
(* it is a history of the model, and no guard reads it.                    *)
(***************************************************************************)
EXTENDS Naturals, Sequences, FiniteSets

CONSTANTS
  MaxPlayers,          \* seats in the Match (4)
  MaxQueuedControls,   \* controls the link holds unwritten (64)
  MaximumControls,     \* controls and unread results the host holds (64)
  MaxPendingJoins,     \* joins of a session without a result (64)
  MaxPendingControls,  \* controls the session holds unwritten (64)
  MaxGenerations,      \* bound: Gateway processes
  MaxIds               \* bound: player ids one of them allocates

ASSUME BoundsAssumption ==
  /\ MaxPlayers \in Nat \ {0}
  /\ MaxQueuedControls \in Nat \ {0}
  /\ MaximumControls \in Nat \ {0}
  /\ MaxPendingJoins \in Nat \ {0}
  /\ MaxPendingControls \in Nat \ {0}
  /\ MaxGenerations \in Nat
  /\ MaxIds \in Nat

VARIABLES
  \* The Gateway process: Server and runtimeLink.
  generation,       \* the newest process, 0 before the first
  gateway,          \* "down", "dialing", "serving" or "failed"
  failing,          \* runtimeFailed is on its way
  reservation,      \* the phase of each player id
  nextPlayer,       \* the newest id allocated
  queue,            \* the link's controls that the writer has not taken
  \* The connections.
  backlog,          \* dialed and not accepted
  up,               \* up[g]: what g has written and the Match has not read
  down,             \* down[g]: what the Match has written and g has not read
  closedBy,         \* closedBy[g]: the ends that have closed
  \* IpcHost, on its one I/O thread.
  phase,            \* "Accepting", "Resetting", "Connected" or "Closing"
  connection,       \* the connection of the session, or 0
  io,               \* what the handler under way does next, or "idle"
  posted,           \* a Pump is posted (pumpPosted)
  joins,            \* session.joins: <<request, player>> without a result
  outgoing,         \* session.controls
  \* MatchRuntimeHost, under its mutex.
  pendingReset, resetDone,
  stepping,         \* Step holds the mutex
  controls, results, evictions,
  members,          \* PvpMatch's connections_
  \* History.
  fault,            \* the contract or assertion that failed, or "none"
  seated,           \* every <<connection, player>> that was ever a member
  overflowed,       \* the connections that lost a control: queue full or closed
  refusedFull       \* the connections to which a Join was refused as match_full

gatewayVars == <<generation, gateway, failing, reservation, nextPlayer, queue>>
wireVars == <<backlog, up, down, closedBy>>
ipcVars == <<phase, connection, io, posted, joins, outgoing>>
hostVars == <<pendingReset, resetDone, stepping, controls, results, evictions, members>>
historyVars == <<fault, seated, overflowed, refusedFull>>
vars == <<gatewayVars, wireVars, ipcVars, hostVars, historyVars>>

Generations == 1..MaxGenerations
Ids == 1..MaxIds
Requests == 1..(MaximumControls + MaxPendingJoins)
Asks == [kind : {"join", "leave"}, player : Ids]
Answers == [kind : {"joined", "rejected", "evicted"}, player : Ids]
             \cup {[kind |-> "ready", player |-> 0]}
Control == [request : Requests, player : Ids, kind : {"join", "leave"},
            from : Generations]
Result == [request : Requests, player : Ids, kind : {"join", "leave"},
           from : Generations, accepted : BOOLEAN]
Seats == [player : Ids, from : Generations]

Reserved == {i \in Ids : reservation[i] \in {"reserved", "joining", "active"}}
Msg(kind, i) == [kind |-> kind, player |-> i]
Prefixes(s) == {SubSeq(s, 1, n) : n \in 0..Len(s)}

GatewayTypes ==
  /\ generation \in 0..MaxGenerations
  /\ gateway \in {"down", "dialing", "serving", "failed"}
  /\ gateway # "down" => generation > 0
  /\ failing \in BOOLEAN
  /\ reservation \in [Ids -> {"none", "reserved", "joining", "active"}]
  /\ nextPlayer \in 0..MaxIds
  /\ queue \in Seq(Asks) /\ Len(queue) <= MaxQueuedControls

WireTypes ==
  /\ backlog \in Seq(Generations)
  /\ up \in [Generations -> Seq(Asks)]
  /\ down \in [Generations -> Seq(Answers)]
  /\ closedBy \in [Generations -> SUBSET {"gateway", "match"}]

IpcTypes ==
  /\ phase \in {"Accepting", "Resetting", "Connected", "Closing"}
  /\ connection \in 0..MaxGenerations
  /\ phase \in {"Resetting", "Connected"} => connection > 0
  /\ io \in {"idle", "reading", "pumping", "evicting"}
  /\ posted \in BOOLEAN
  /\ joins \in SUBSET (Requests \X Ids) /\ Cardinality(joins) <= MaxPendingJoins
  /\ outgoing \in Seq(Answers) /\ Len(outgoing) <= MaxPendingControls

HostTypes ==
  /\ pendingReset \in BOOLEAN /\ resetDone \in BOOLEAN /\ stepping \in BOOLEAN
  /\ controls \in Seq(Control) /\ results \in Seq(Result)
  /\ Len(controls) + Len(results) <= MaximumControls
  /\ evictions \in Seq(Seats)
  /\ members \in SUBSET Seats /\ Cardinality(members) <= MaxPlayers

HistoryTypes ==
  /\ fault \in {"none", "second join result", "unknown result", "reset pending"}
  /\ seated \in SUBSET Seats
  /\ overflowed \in SUBSET Generations
  /\ refusedFull \in SUBSET Generations

\* Every variable keeps its type, and every queue of controls, results and joins
\* its bound (the bounds of server.go's link, IpcHost.cpp and MatchRuntimeHost.cpp).
TypeOK == GatewayTypes /\ WireTypes /\ IpcTypes /\ HostTypes /\ HistoryTypes

Init ==
  /\ generation = 0 /\ gateway = "down" /\ failing = FALSE
  /\ reservation = [i \in Ids |-> "none"] /\ nextPlayer = 0 /\ queue = <<>>
  /\ backlog = <<>>
  /\ up = [g \in Generations |-> <<>>] /\ down = [g \in Generations |-> <<>>]
  /\ closedBy = [g \in Generations |-> {}]
  /\ phase = "Accepting" /\ connection = 0 /\ io = "idle" /\ posted = FALSE
  /\ joins = {} /\ outgoing = <<>>
  /\ pendingReset = FALSE /\ resetDone = FALSE /\ stepping = FALSE
  /\ controls = <<>> /\ results = <<>> /\ evictions = <<>> /\ members = {}
  /\ fault = "none" /\ seated = {} /\ overflowed = {} /\ refusedFull = {}

----------------------------------------------------------------------------
(* The Gateway.  Its handlers run under Server.mu.                         *)

LinkOpen == generation > 0 /\ "gateway" \notin closedBy[generation]
NoReservation == [i \in Ids |-> "none"]

\* The Gateway's end closes: its queue is discarded, and of what is on its way the Match
\* may read any prefix (the pass the writer was in is abandoned) but no less than
\* the frame it has in its buffer already.
CloseLink ==
  /\ queue' = <<>>
  /\ closedBy' = [closedBy EXCEPT ![generation] = @ \cup {"gateway"}]
  /\ \E kept \in Prefixes(up[generation]) :
       /\ io = "reading" /\ connection = generation => kept # <<>>
       /\ up' = [up EXCEPT ![generation] = kept]

\* A process starts and dials the Match; it has no reservation.
StartGateway ==
  /\ gateway = "down"
  /\ generation < MaxGenerations
  /\ generation' = generation + 1
  /\ gateway' = "dialing"
  /\ failing' = FALSE
  /\ nextPlayer' = 0
  /\ backlog' = Append(backlog, generation + 1)
  /\ UNCHANGED <<reservation, queue, up, down, closedBy, ipcVars, hostVars,
                 historyVars>>

\* connectRuntime's first frame is Ready.
ReadReady ==
  /\ gateway = "dialing"
  /\ down[generation] # <<>>
  /\ Head(down[generation]).kind = "ready"
  /\ gateway' = "serving"
  /\ down' = [down EXCEPT ![generation] = Tail(@)]
  /\ UNCHANGED <<generation, failing, reservation, nextPlayer, queue, backlog, up,
                 closedBy, ipcVars, hostVars, historyVars>>

\* The process ends, told to or not: also when Ready does not arrive in time.
StopGateway ==
  /\ gateway # "down"
  /\ gateway' = "down"
  /\ failing' = FALSE
  /\ reservation' = NoReservation
  /\ CloseLink
  /\ down' = [down EXCEPT ![generation] = <<>>]
  /\ UNCHANGED <<generation, nextPlayer, backlog, ipcVars, hostVars, historyVars>>

\* reserveSlot.
Reserve ==
  /\ gateway = "serving"
  /\ nextPlayer < MaxIds
  /\ Cardinality(Reserved) < MaxPlayers
  /\ nextPlayer' = nextPlayer + 1
  /\ reservation' = [reservation EXCEPT ![nextPlayer + 1] = "reserved"]
  /\ UNCHANGED <<generation, gateway, failing, queue, wireVars, ipcVars, hostVars,
                 historyVars>>

\* runtimeLink.control: a closed link and a full queue refuse the control, and
\* the caller then fails the runtime, after it has released Server.mu.
SendControl(m) ==
  IF LinkOpen /\ Len(queue) < MaxQueuedControls
  THEN /\ queue' = Append(queue, m)
       /\ UNCHANGED <<failing, overflowed>>
  ELSE /\ failing' = TRUE
       /\ overflowed' = overflowed \cup {generation}
       /\ UNCHANGED queue

\* Mutant of FirstHello: a Hello before the result sends another Join.
HelloAgain(i) ==
  /\ gateway = "serving"
  /\ reservation[i] \in {"reserved", "joining"}
  /\ reservation' = [reservation EXCEPT ![i] = "joining"]
  /\ SendControl(Msg("join", i))
  /\ UNCHANGED <<generation, gateway, nextPlayer, wireVars, ipcVars, hostVars,
                 fault, seated, refusedFull>>

\* The first verified Hello of a reservation asks the Match for a seat.
FirstHello(i) ==
  /\ gateway = "serving"
  /\ reservation[i] = "reserved"
  /\ reservation' = [reservation EXCEPT ![i] = "joining"]
  /\ SendControl(Msg("join", i))
  /\ UNCHANGED <<generation, gateway, nextPlayer, wireVars, ipcVars, hostVars,
                 fault, seated, refusedFull>>

\* Mutant of EndReservation: only an active player has something to leave.
EndReservationActive(i) ==
  /\ gateway = "serving"
  /\ i \in Reserved
  /\ reservation' = [reservation EXCEPT ![i] = "none"]
  /\ IF reservation[i] = "active" THEN SendControl(Msg("leave", i))
                                  ELSE UNCHANGED <<queue, failing, overflowed>>
  /\ UNCHANGED <<generation, gateway, nextPlayer, wireVars, ipcVars, hostVars,
                 fault, seated, refusedFull>>

\* leaveRoom, and expireAt for one player whose session or join timed out: a
\* reservation the Match may know of leaves it.
EndReservation(i) ==
  /\ gateway = "serving"
  /\ i \in Reserved
  /\ reservation' = [reservation EXCEPT ![i] = "none"]
  /\ IF reservation[i] # "reserved" THEN SendControl(Msg("leave", i))
                                    ELSE UNCHANGED <<queue, failing, overflowed>>
  /\ UNCHANGED <<generation, gateway, nextPlayer, wireVars, ipcVars, hostVars,
                 fault, seated, refusedFull>>

\* runtimeMessage for one frame.  A result of a player who is gone is ignored,
\* and one of a player who is not joining breaks the contract.
Answered(i, answer) ==
  IF reservation[i] \in {"joining", "none"}
  THEN /\ reservation' = [reservation EXCEPT ![i] = IF @ = "joining" THEN answer ELSE @]
       /\ UNCHANGED <<failing, fault>>
  ELSE /\ failing' = TRUE
       /\ fault' = "second join result"
       /\ UNCHANGED reservation

ReadRuntime ==
  /\ gateway = "serving"
  /\ down[generation] # <<>>
  /\ down' = [down EXCEPT ![generation] = Tail(@)]
  /\ LET m == Head(down[generation])
     IN  \/ m.kind = "joined" /\ Answered(m.player, "active")
         \/ m.kind = "rejected" /\ Answered(m.player, "none")
         \/ /\ m.kind = "evicted"
            /\ reservation' = [reservation EXCEPT ![m.player] = "none"]
            /\ UNCHANGED <<failing, fault>>
  /\ UNCHANGED <<generation, gateway, nextPlayer, queue, backlog, up, closedBy,
                 ipcVars, hostVars, seated, overflowed, refusedFull>>

\* The writer takes the queue and writes it in order.
WriteQueue ==
  /\ gateway = "serving"
  /\ LinkOpen
  /\ queue # <<>>
  /\ queue' = <<>>
  /\ up' = IF "match" \in closedBy[generation] THEN up
           ELSE [up EXCEPT ![generation] = @ \o queue]
  /\ UNCHANGED <<generation, gateway, failing, reservation, nextPlayer, backlog,
                 down, closedBy, ipcVars, hostVars, historyVars>>

\* The link's reader or writer fails: end of file, a deadline, silence.  It
\* closes the link first and then reports the failure; the reader may still
\* have one frame in hand.
FailLink ==
  /\ gateway = "serving"
  /\ LinkOpen
  /\ failing' = TRUE
  /\ CloseLink
  /\ \E kept \in {n \in 0..1 : n <= Len(down[generation])} :
       down' = [down EXCEPT ![generation] = SubSeq(@, 1, kept)]
  /\ UNCHANGED <<generation, gateway, reservation, nextPlayer, backlog, ipcVars,
                 hostVars, historyVars>>

\* runtimeFailed: the reservations go first, then the link closes.  The room
\* stays unavailable until the process is started again.
RuntimeFailed ==
  /\ gateway = "serving"
  /\ failing
  /\ gateway' = "failed"
  /\ reservation' = NoReservation
  /\ IF LinkOpen THEN CloseLink ELSE UNCHANGED <<queue, closedBy, up>>
  /\ down' = [down EXCEPT ![generation] = <<>>]
  /\ failing' = FALSE
  /\ UNCHANGED <<generation, nextPlayer, backlog, ipcVars, hostVars, historyVars>>

----------------------------------------------------------------------------
(* The Match's I/O thread.                                                 *)

\* The host's mutex is free.
HostFree == ~stepping

\* MatchRuntimeHost::RequestReset, which refuses a second one.
RequestReset ==
  /\ pendingReset' = TRUE
  /\ resetDone' = FALSE
  /\ fault' = IF pendingReset THEN "reset pending" ELSE fault

\* A connection is accepted: the Match is reset before its session begins.
Accept ==
  /\ phase = "Accepting" /\ io = "idle" /\ HostFree
  /\ backlog # <<>>
  /\ backlog' = Tail(backlog)
  /\ connection' = Head(backlog)
  /\ phase' = "Resetting"
  /\ RequestReset
  /\ UNCHANGED <<gatewayVars, up, down, closedBy, io, posted, joins,
                 outgoing, stepping, controls, results,
                 evictions, members, seated, overflowed, refusedFull>>

\* Mutant of CheckReset: it does not wait for the reset.
CheckResetAtOnce ==
  /\ phase \in {"Resetting", "Closing"} /\ io = "idle"
  /\ \/ /\ phase = "Resetting"
        /\ phase' = "Connected"
        /\ io' = "pumping"
        /\ outgoing' = <<Msg("ready", 0)>>
     \/ /\ phase = "Closing"
        /\ phase' = "Accepting"
        /\ UNCHANGED <<io, outgoing>>
  /\ UNCHANGED <<gatewayVars, wireVars, connection, posted, joins, hostVars,
                 historyVars>>

\* The posted Pump finds the reset completed: a session begins with Ready, or
\* the next connection is accepted.
CheckReset ==
  /\ phase \in {"Resetting", "Closing"} /\ io = "idle"
  /\ posted
  /\ posted' = FALSE
  /\ IF resetDone
     THEN /\ resetDone' = FALSE
          /\ \/ /\ phase = "Resetting"
                /\ phase' = "Connected"
                /\ io' = "pumping"
                /\ outgoing' = <<Msg("ready", 0)>>
             \/ /\ phase = "Closing"
                /\ phase' = "Accepting"
                /\ UNCHANGED <<io, outgoing>>
     ELSE UNCHANGED <<resetDone, phase, io, outgoing>>
  /\ UNCHANGED <<gatewayVars, wireVars, connection, joins,
                 pendingReset, stepping, controls, results, evictions, members,
                 historyVars>>

\* Close: the session is discarded and the Match reset.  Of what is on its way
\* the Gateway may still read any prefix.
Close ==
  /\ phase' = "Closing"
  /\ connection' = 0
  /\ io' = "idle"
  /\ joins' = {}
  /\ outgoing' = <<>>
  /\ closedBy' = [closedBy EXCEPT ![connection] = @ \cup {"match"}]
  /\ up' = [up EXCEPT ![connection] = <<>>]
  /\ \E kept \in Prefixes(down[connection]) : down' = [down EXCEPT ![connection] = kept]
  /\ RequestReset

Stay == UNCHANGED <<phase, connection, outgoing, closedBy, down, pendingReset,
                    resetDone, fault>>

\* Mutant of HostTakes: the unread results are not counted.
HostTakesWhileUnread == ~pendingReset /\ Len(controls) < MaximumControls

\* QueueControl's conditions.
HostTakes == ~pendingReset /\ Len(controls) + Len(results) < MaximumControls

\* requestSequence only ever grows, over all connections: the number it gives
\* is one that no control, result or join under way carries.
NewRequest ==
  CHOOSE n \in Requests :
    /\ \A j \in joins : j[1] # n
    /\ \A k \in 1..Len(controls) : controls[k].request # n
    /\ \A k \in 1..Len(results) : results[k].request # n

\* Receive for one frame.  The Pump that ends the handler follows when the
\* chunk that was read holds no more of them.
Receive ==
  /\ phase = "Connected" /\ io \in {"idle", "reading"} /\ HostFree
  /\ up[connection] # <<>>
  /\ LET m == Head(up[connection])
         join == m.kind = "join"
         full == join /\ Cardinality(joins) >= MaxPendingJoins
     IN  IF full \/ ~HostTakes
         THEN Close /\ UNCHANGED controls
         ELSE /\ controls' = Append(controls,
                   [request |-> NewRequest, player |-> m.player,
                    kind |-> m.kind, from |-> connection])
              /\ joins' = IF join THEN joins \cup {<<NewRequest, m.player>>} ELSE joins
              /\ up' = [up EXCEPT ![connection] = Tail(@)]
              /\ io' \in {"pumping"} \cup (IF Len(up[connection]) > 1 THEN {"reading"} ELSE {})
              /\ Stay
  /\ UNCHANGED <<gatewayVars, backlog, posted, stepping, results, evictions, members,
                 seated, overflowed, refusedFull>>

\* The read ends the session: end of file behind everything the Gateway's end
\* delivered, or an error of the socket at any time.
EndSession ==
  /\ phase = "Connected" /\ io = "idle" /\ HostFree
  /\ Close
  /\ UNCHANGED <<gatewayVars, backlog, posted, stepping, controls,
                 results, evictions, members, seated, overflowed, refusedFull>>

ReadEnd ==
  /\ connection > 0
  /\ "gateway" \in closedBy[connection] /\ up[connection] = <<>>
  /\ EndSession

Waits(r) == \E j \in joins : j[1] = r.request

\* A result as the frame the session relays.
Relay(r) == Msg(IF r.accepted THEN "joined" ELSE "rejected", r.player)

\* The results of the joins that wait for one, in order (the one enumeration of
\* their places that ascends); a Leave's is not relayed.
Waiting == {k \in 1..Len(results) : Waits(results[k])}
Relayed ==
  {[n \in 1..Cardinality(Waiting) |-> Relay(results[places[n]])] :
     places \in {f \in [1..Cardinality(Waiting) -> Waiting] :
                  \A m, n \in 1..Cardinality(Waiting) : m < n => f[m] < f[n]}}

\* Pump takes the control results: a posted Pump, or the one that ends a handler.
PumpResults ==
  /\ phase = "Connected" /\ HostFree
  /\ \/ io = "pumping" /\ UNCHANGED posted
     \/ io = "idle" /\ posted /\ posted' = FALSE
  /\ \E relayed \in Relayed :
       IF Len(outgoing \o relayed) > MaxPendingControls
       THEN Close
       ELSE /\ outgoing' = outgoing \o relayed
            /\ joins' = {j \in joins : \A k \in 1..Len(results) : results[k].request # j[1]}
            /\ fault' = IF \E k \in 1..Len(results) :
                              ~Waits(results[k]) /\ results[k].kind # "leave"
                        THEN "unknown result" ELSE fault
            /\ io' = "evicting"
            /\ UNCHANGED <<phase, connection, closedBy, up, down, pendingReset, resetDone>>
  /\ results' = <<>>
  /\ UNCHANGED <<gatewayVars, backlog, stepping, controls,
                 evictions, members, seated, overflowed, refusedFull>>

\* The same Pump then takes the evictions; a step may have passed in between.
PumpEvictions ==
  /\ phase = "Connected" /\ io = "evicting" /\ HostFree
  /\ LET sent == outgoing \o [k \in 1..Len(evictions) |-> Msg("evicted", evictions[k].player)]
     IN  IF Len(sent) > MaxPendingControls
         THEN Close
         ELSE /\ outgoing' = sent
              /\ io' = "idle"
              /\ UNCHANGED <<phase, connection, closedBy, joins, up, down, pendingReset,
                             resetDone, fault>>
  /\ evictions' = <<>>
  /\ UNCHANGED <<gatewayVars, backlog, posted, stepping, controls,
                 results, members, seated, overflowed, refusedFull>>

\* The socket takes one control; the handler ends in a Pump.
Write ==
  /\ phase = "Connected" /\ io = "idle"
  /\ outgoing # <<>>
  /\ outgoing' = Tail(outgoing)
  /\ down' = IF "gateway" \in closedBy[connection] THEN down
             ELSE [down EXCEPT ![connection] = Append(@, Head(outgoing))]
  /\ io' = "pumping"
  /\ UNCHANGED <<gatewayVars, backlog, up, closedBy, phase, connection, posted,
                 joins, hostVars, historyVars>>

----------------------------------------------------------------------------
(* The Match's simulation role.  A step holds the mutex from its first     *)
(* control to its end.                                                     *)

\* The requested reset, at the start of a step, which then ticks nothing.
StepReset ==
  /\ pendingReset /\ ~stepping
  /\ controls' = <<>> /\ results' = <<>> /\ evictions' = <<>> /\ members' = {}
  /\ pendingReset' = FALSE
  /\ resetDone' = TRUE
  /\ posted' = TRUE
  /\ UNCHANGED <<gatewayVars, wireVars, phase, connection, io, joins,
                 outgoing, stepping, historyVars>>

\* PvpMatch::Join and Leave know a player by its id.
Present(i) == \E m \in members : m.player = i

Full == Cardinality(members) >= MaxPlayers

\* One control of the tick.  A player who is there already is accepted again; a spawn may be blocked by where the others stand.
StepControl ==
  /\ controls # <<>>
  /\ stepping \/ ~pendingReset
  /\ stepping' = TRUE
  /\ controls' = Tail(controls)
  /\ LET c == Head(controls)
         seat == [player |-> c.player, from |-> c.from]
         Answer(accepted) ==
           results' = Append(results, [request |-> c.request, player |-> c.player,
                        kind |-> c.kind, from |-> c.from, accepted |-> accepted])
     IN  \/ /\ c.kind = "leave"
            /\ members' = {m \in members : m.player # c.player}
            /\ Answer(TRUE)
            /\ UNCHANGED <<seated, refusedFull>>
         \/ /\ c.kind = "join"
            /\ Present(c.player) \/ ~Full
            /\ members' = IF Present(c.player) THEN members ELSE members \cup {seat}
            /\ seated' = seated \cup members'
            /\ Answer(TRUE)
            /\ UNCHANGED refusedFull
         \/ /\ c.kind = "join" /\ ~Present(c.player)
            /\ refusedFull' = IF Full THEN refusedFull \cup {c.from} ELSE refusedFull
            /\ Answer(FALSE)
            /\ UNCHANGED <<members, seated>>
  /\ UNCHANGED <<gatewayVars, wireVars, ipcVars, pendingReset, resetDone, evictions,
                 fault, overflowed>>

\* Mutant of StepEnd: the evicted player stays in the Match.
StepEndKeeping ==
  /\ controls = <<>>
  /\ stepping \/ ~pendingReset
  /\ \E evicted \in {{}} \cup {{m} : m \in members} :
       /\ stepping \/ evicted # {}
       /\ evictions' = IF evicted = {} THEN evictions
                       ELSE Append(evictions, CHOOSE m \in evicted : TRUE)
  /\ stepping' = FALSE
  /\ posted' = TRUE
  /\ UNCHANGED <<gatewayVars, wireVars, phase, connection, io, joins,
                 outgoing, pendingReset, resetDone, controls,
                 results, members, historyVars>>

\* Mutant of StepEnd: only evictions wake the I/O thread.
StepEndUnposted ==
  /\ controls = <<>>
  /\ stepping \/ ~pendingReset
  /\ \E evicted \in {{}} \cup {{m} : m \in members} :
       /\ stepping \/ evicted # {}
       /\ evictions' = IF evicted = {} THEN evictions
                       ELSE Append(evictions, CHOOSE m \in evicted : TRUE)
       /\ members' = members \ evicted
       /\ posted' = (posted \/ evicted # {})
  /\ stepping' = FALSE
  /\ UNCHANGED <<gatewayVars, wireVars, phase, connection, io, joins, outgoing,
                 pendingReset, resetDone, controls, results, historyVars>>

\* The tick ends: JudgeConnectionQuality may evict (two players in one tick are
\* two ticks here), the mutex is released and a Pump posted.
StepEnd ==
  /\ controls = <<>>
  /\ stepping \/ ~pendingReset
  /\ \E evicted \in {{}} \cup {{m} : m \in members} :
       /\ stepping \/ evicted # {}
       /\ evictions' = IF evicted = {} THEN evictions
                       ELSE Append(evictions, CHOOSE m \in evicted : TRUE)
       /\ members' = members \ evicted
  /\ stepping' = FALSE
  /\ posted' = TRUE
  /\ UNCHANGED <<gatewayVars, wireVars, phase, connection, io, joins,
                 outgoing, pendingReset, resetDone, controls,
                 results, historyVars>>

----------------------------------------------------------------------------
GatewayNext ==
  \/ StartGateway \/ ReadReady \/ StopGateway \/ Reserve
  \/ \E i \in Ids : FirstHello(i) \/ EndReservation(i)
  \/ ReadRuntime \/ WriteQueue \/ FailLink \/ RuntimeFailed

IpcNext ==
  Accept \/ CheckReset \/ Receive \/ EndSession \/ PumpResults \/ PumpEvictions \/ Write

HostNext == StepReset \/ StepControl \/ StepEnd

Next == GatewayNext \/ IpcNext \/ HostNext

Spec == Init /\ [][Next]_vars

\* The process that dials gives up when the connection ends without Ready.
DialEnds == gateway = "dialing" /\ "match" \in closedBy[generation]
              /\ down[generation] = <<>> /\ StopGateway

\* The link's reader reads everything up to the end of file.
ReadEof == generation > 0 /\ "match" \in closedBy[generation]
             /\ down[generation] = <<>> /\ FailLink

\* Every goroutine, the I/O thread and the simulation role keep running; no
\* Client, process or socket has to do anything.
Fairness ==
  /\ WF_vars(ReadReady) /\ WF_vars(DialEnds) /\ WF_vars(ReadRuntime)
  /\ WF_vars(WriteQueue) /\ WF_vars(ReadEof) /\ WF_vars(RuntimeFailed)
  /\ WF_vars(Accept) /\ WF_vars(CheckReset) /\ WF_vars(Receive) /\ WF_vars(ReadEnd)
  /\ WF_vars(PumpResults) /\ WF_vars(PumpEvictions) /\ WF_vars(Write)
  /\ WF_vars(StepReset) /\ WF_vars(StepControl) /\ WF_vars(stepping /\ StepEnd)

FairSpec == Spec /\ Fairness
=============================================================================
