---------------------------- MODULE ActionService ----------------------------
(***************************************************************************)
(* What the action protocol of object_fps_pvp promises the game, without   *)
(* its datagrams, queues, staging or cursors.  The game asks for actions   *)
(* (a shot or a reload) with consecutive ids.  The authority answers each  *)
(* of them at most once, the game is given every answer at most once, and  *)
(* the authority forgets an answer only when the game has been given it    *)
(* and every smaller one.                                                  *)
(***************************************************************************)
EXTENDS Naturals, Sequences

CONSTANTS
  MaxActions,   \* bound: the actions one session submits
  Outcomes      \* the answers the authority can give

VARIABLES
  submitted,    \* the actions 1..submitted have been asked for
  answered,     \* the answers given, as pairs <<id, outcome>>
  given,        \* given[i]: the answers of i the game was given, in order
  forgotten     \* the answers of 1..forgotten are forgotten

vars == <<submitted, answered, given, forgotten>>

Ids == 1..MaxActions

Init ==
  /\ submitted = 0
  /\ answered = {}
  /\ given = [i \in Ids |-> <<>>]
  /\ forgotten = 0

Submit ==
  /\ submitted < MaxActions
  /\ submitted' = submitted + 1
  /\ UNCHANGED <<answered, given, forgotten>>

\* One step of the authority: it forgets a prefix the game has consumed and
\* answers some of the actions nobody has answered.
Authority ==
  /\ forgotten' \in forgotten..submitted
  /\ \A i \in 1..forgotten' : given[i] # <<>>
  /\ answered \subseteq answered'
  /\ answered' \subseteq (1..submitted) \X Outcomes
  /\ \A d, e \in answered' : d[1] = e[1] => d = e
  /\ UNCHANGED <<submitted, given>>

\* The game is given answers it has not had.
Give ==
  /\ given' \in [Ids -> {<<>>} \cup {<<o>> : o \in Outcomes}]
  /\ \A i \in Ids : given'[i] # given[i] =>
       given[i] = <<>> /\ \E o \in Outcomes : given'[i] = <<o>> /\ <<i, o>> \in answered
  /\ UNCHANGED <<submitted, answered, forgotten>>

Next == Submit \/ Authority \/ Give

Spec == Init /\ [][Next]_vars

=============================================================================
