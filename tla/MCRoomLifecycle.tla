-------------------------- MODULE MCRoomLifecycle --------------------------
(***************************************************************************)
(* The properties of the room's life, and the refinement to RoomService.   *)
(***************************************************************************)
EXTENDS RoomLifecycle

Service == INSTANCE RoomService WITH Capacity <- MaxPlayers, room <- members

\* The Match as a whole implements the room's promise: see RoomService.tla.
ServiceSpec == Service!Spec

\* No result reaches a player that is not joining (server.go:686-690), every result the
\* session does not know is a Leave's (IpcHost.cpp:720), no reset is
\* requested while one is pending (MatchRuntimeHost.cpp:766).
NoFault == fault = "none"

\* What the Match holds while it serves a connection came by that connection, and
\* it holds nothing when it accepts the next one: ids used again by a
\* restarted Gateway never meet the players of the one before.
OnlyOwnGeneration ==
  LET from == {m.from : m \in members}
                \cup {controls[k].from : k \in 1..Len(controls)}
                \cup {results[k].from : k \in 1..Len(results)}
                \cup {evictions[k].from : k \in 1..Len(evictions)}
  IN  phase # "Closing" => from \subseteq {connection}

\* The Gateway reserves no more seats than the Match has, and a Leave precedes
\* the Join that takes its seat: the Match refuses a Join as full only when a
\* control was lost because the link was failing.
FullOnlyAfterLoss == refusedFull \subseteq overflowed

Holds(s, kind, i) == \E k \in 1..Len(s) : s[k].kind = kind /\ s[k].player = i

\* Both ends of the serving Gateway's connection are open and it lost nothing.
Healthy ==
  /\ gateway = "serving" /\ connection = generation
  /\ closedBy[generation] = {}
  /\ generation \notin overflowed

\* While the link is healthy the two ends agree on the players: one of the Match is one the
\* Gateway serves, or a Leave is on its way; one the Gateway serves as active is in the
\* Match, or the notice of its eviction is on its way. No seat is taken by a ghost, and no
\* Client plays on without an entity.
NoGhostMember ==
  \A m \in members :
    \/ reservation[m.player] \in {"joining", "active"}
    \/ Holds(queue, "leave", m.player)
    \/ Holds(up[generation], "leave", m.player)
    \/ Holds(controls, "leave", m.player)

ActiveIsMember ==
  \A i \in Ids : reservation[i] = "active" =>
    \/ Present(i)
    \/ \E k \in 1..Len(evictions) : evictions[k].player = i
    \/ Holds(outgoing, "evicted", i)
    \/ Holds(down[generation], "evicted", i)

MembersAgree == Healthy => NoGhostMember /\ ActiveIsMember

\* A process that dials is served, or its connection ends: the reset before its session
\* always completes, and the I/O thread hears of it. A Join is answered, or the player or
\* the process is gone: no result is lost between the tick, the posted Pump and the socket.
RequestsAnswered ==
  /\ gateway = "dialing" ~> gateway # "dialing"
  /\ \A i \in Ids : reservation[i] = "joining" ~> reservation[i] # "joining"

\* A player nobody serves any more leaves the Match, however its end came about: a
\* Leave, an expiry, a lost control, a failed link or a stopped process.
Unserved(s) ==
  /\ s \in members
  /\ \/ s.from < generation
     \/ gateway \in {"down", "failed"}
     \/ reservation[s.player] = "none"
GhostsLeave == \A s \in Seats : Unserved(s) ~> s \notin members
=============================================================================
