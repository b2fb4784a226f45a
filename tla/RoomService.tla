---------------------------- MODULE RoomService ----------------------------
(***************************************************************************)
(* What the room promises the players of every Gateway process that serves *)
(* it in turn: a player is seated at most once, the seats never exceed the *)
(* capacity, and the players of two processes are never in the room        *)
(* together, although a process that is started again numbers its players  *)
(* from 1 again.                                                           *)
(***************************************************************************)
EXTENDS Naturals, FiniteSets

CONSTANTS
  Seats,      \* the players: records with the id `player' and the process `from'
  Capacity    \* seats in the room

VARIABLES
  room,       \* the players in the room
  seated      \* the players that have ever been in it

Init == room = {} /\ seated = {}

Sit(s) ==
  /\ s \notin seated
  /\ Cardinality(room) < Capacity
  /\ \A other \in room : other.from = s.from /\ other.player # s.player
  /\ room' = room \cup {s}
  /\ seated' = seated \cup {s}

\* One player leaves, or the end of a process's connection empties the room.
Stand(leavers) ==
  /\ room' = room \ leavers
  /\ UNCHANGED seated

Next ==
  \/ \E s \in Seats : Sit(s)
  \/ \E s \in room : Stand({s})
  \/ Stand(room)

Spec == Init /\ [][Next]_<<room, seated>>
=============================================================================
