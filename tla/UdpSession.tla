------------------------------ MODULE UdpSession ------------------------------
(***************************************************************************)
(* One UDP session of a Client whose address may change: session.go in the *)
(* Gateway (endpoint, rebinding, sequence, expiry), the Hello timer and    *)
(* the packet sequence of ClientConnection.cpp, and a network that delays, *)
(* reorders, repeats and loses datagrams.                                  *)
(*                                                                         *)
(* Time is counted in ticks.  lastVerified and lastSeen are kept as ages;  *)
(* a datagram is under way for at most Latency ticks.  The Client sends at *)
(* most one datagram in a tick, a Hello whenever one is due.  Sequences    *)
(* wrap at Modulus (2^32 in the code); `lag', how many datagrams ago the   *)
(* Client sent one, is history that no handler reads.                      *)
(*                                                                         *)
(* A session that is full of tokens and one that is not differ only in     *)
(* what `rate' answers, so a refusal may come at any time and counts as a  *)
(* disturbance, like a loss and a change of address.                       *)
(***************************************************************************)
EXTENDS Integers, FiniteSets

CONSTANTS
  Addresses,        \* the Client's possible addresses
  HelloInterval,    \* ticks between two Hellos (250 ms)
  Silence,          \* connectionInterruptedAfter, T_int (500 ms)
  Settings          \* of a deployment: modulus, timeout, latency

ASSUME SettingsAssumption ==
  \A c \in Settings :
    /\ {c.modulus, c.timeout, c.latency} \subseteq Nat /\ c.timeout # 0
    /\ c.modulus % 2 = 0 /\ c.timeout + c.latency + 1 < c.modulus \div 2
ASSUME TimesAssumption == {HelloInterval, Silence} \subseteq Nat \ {0}
ASSUME AddressesAssumption == "none" \notin Addresses

VARIABLES
  setting,          \* one of Settings, for the whole behaviour
  \* The Client.
  address,          \* where its datagrams come from now
  sentSequence,     \* of its last datagram
  helloAge,         \* ticks since its last Hello
  sent,             \* it has sent a datagram in this tick
  \* The network: [type, sequence, from, age, lag].
  network,
  \* session.Session, under Server.mu and its own.
  endpoint, sequence, hasSequence,
  verifiedAge,      \* now - lastVerified, up to Silence
  seenAge,          \* now - lastSeen
  removed,          \* expireAt has removed the player
  \* History.
  sequenceLag,      \* the lag of the committed datagram
  calm,             \* ticks since the last disturbance
  rough             \* ticks from the first to the last disturbance of the spell

clientVars == <<address, sentSequence, helloAge, sent>>
sessionVars == <<endpoint, sequence, hasSequence, verifiedAge, seenAge, removed>>
vars == <<setting, clientVars, network, sessionVars, sequenceLag, calm, rough>>

Modulus == setting.modulus      \* sequences are 0..Modulus-1
Timeout == setting.timeout      \* sessionTimeout, T_max (5 s)
Latency == setting.latency      \* bound: ticks a datagram is under way

\* After this many ticks without a disturbance the session is where the Client is.
Settle == Silence + HelloInterval + 2 * Latency

\* Types, and the lags that keep two sequences under way within half of the numbers.
TypeOK ==
  /\ setting \in Settings
  /\ address \in Addresses /\ endpoint \in Addresses \cup {"none"}
  /\ {sentSequence, sequence} \subseteq 0..(Modulus - 1)
  /\ helloAge \in 0..HelloInterval /\ sent \in BOOLEAN
  /\ \A d \in network :
       /\ d.type \in {"Hello", "Input"} /\ d.from \in Addresses /\ d.age \in 0..Latency
       /\ d.sequence = (sentSequence - d.lag) % Modulus
  /\ hasSequence => sequence = (sentSequence - sequenceLag) % Modulus /\ sequenceLag < Modulus \div 2
  /\ verifiedAge \in 0..Silence /\ seenAge \in 0..Timeout
  /\ {hasSequence, removed} \subseteq BOOLEAN
  /\ calm \in 0..Settle /\ rough \in 0..Timeout

Init ==
  /\ setting \in Settings
  /\ address \in Addresses
  /\ sentSequence = 0 /\ helloAge = HelloInterval /\ sent = FALSE
  /\ network = {}
  /\ endpoint = "none" /\ sequence = 0 /\ hasSequence = FALSE
  /\ verifiedAge = Silence /\ seenAge = 0 /\ removed = FALSE
  /\ sequenceLag = 0
  /\ calm = 0 /\ rough = 0

Least(a, b) == IF a < b THEN a ELSE b

\* framing.NewerSequence: the difference as a signed number is positive.
NewerSequence(next, previous) == (next - previous) % Modulus \in 1..(Modulus \div 2 - 1)

\* The history of disturbances: a new spell begins after Settle calm ticks.
Disturbed ==
  /\ calm' = 0
  /\ rough' = IF calm = Settle THEN 0 ELSE Least(rough + calm, Timeout)
Undisturbed == UNCHANGED <<calm, rough>>

-----------------------------------------------------------------------------
(* The Client and the network.                                             *)

\* Send: every kind takes the next number of one sequence.
Send(type) ==
  /\ ~sent /\ ~removed
  /\ sent' = TRUE
  /\ sentSequence' = (sentSequence + 1) % Modulus
  /\ network' = {[d EXCEPT !.lag = @ + 1] : d \in network} \cup
       {[type |-> type, sequence |-> sentSequence', from |-> address, age |-> 0, lag |-> 0]}
  /\ sequenceLag' = sequenceLag + 1
  /\ UNCHANGED <<address, sessionVars>>
  /\ Undisturbed

SendHello == helloAge >= HelloInterval /\ helloAge' = 0 /\ Send("Hello")
SendInput == helloAge < HelloInterval /\ endpoint # "none" /\ UNCHANGED helloAge /\ Send("Input")

\* The Client's socket, or a translator on the way, gets another address.
Move ==
  /\ \E a \in Addresses \ {address} : address' = a
  /\ Disturbed
  /\ UNCHANGED <<sentSequence, helloAge, sent, network, sessionVars, sequenceLag>>

Lose(d) ==
  /\ network' = network \ {d}
  /\ Disturbed
  /\ UNCHANGED <<clientVars, sessionVars, sequenceLag>>

-----------------------------------------------------------------------------
(* The Gateway's UDP reader; a repeated datagram stays in the network.     *)

Arrive(d) == network' \in {network, network \ {d}} /\ ~removed

\* The sequence and the liveness of a fresh datagram.
Commit(d) ==
  IF ~hasSequence \/ NewerSequence(d.sequence, sequence)
  THEN /\ sequence' = d.sequence /\ hasSequence' = TRUE /\ seenAge' = 0
       /\ sequenceLag' = d.lag
  ELSE UNCHANGED <<sequence, hasSequence, seenAge, sequenceLag>>

Moving(d) == endpoint # "none" /\ endpoint # d.from

\* Mutant of MayRebind: the Hello need not be newer than the session.
MayRebindMutant(d) == hasSequence /\ verifiedAge >= Silence /\ seenAge < Timeout

\* HelloRebinding's conditions for a Hello from another endpoint.
MayRebind(d) ==
  /\ hasSequence /\ NewerSequence(d.sequence, sequence)
  /\ verifiedAge >= Silence /\ seenAge < Timeout

HelloUnauthorized(d) ==
  /\ d.type = "Hello" /\ Moving(d) /\ ~MayRebind(d)
  /\ Arrive(d) /\ Undisturbed
  /\ UNCHANGED <<clientVars, sessionVars, sequenceLag>>

HelloAdmitted(d) ==
  /\ d.type = "Hello" /\ (Moving(d) => MayRebind(d))
  /\ Arrive(d) /\ Undisturbed
  /\ verifiedAge' = 0
  /\ endpoint' = d.from
  /\ Commit(d)
  /\ UNCHANGED <<clientVars, removed>>

\* The rate limit refuses: only the bound endpoint has been verified before it.
HelloLimited(d) ==
  /\ d.type = "Hello" /\ (Moving(d) => MayRebind(d))
  /\ Arrive(d) /\ Disturbed
  /\ verifiedAge' = IF Moving(d) THEN verifiedAge ELSE 0
  /\ UNCHANGED <<clientVars, endpoint, sequence, hasSequence, seenAge, removed, sequenceLag>>

\* Admit, and CommitSequence once the payload has been decoded; a stale window is still
\* forwarded (MovementDelivery), but commits nothing.
InputAdmitted(d) ==
  /\ d.type = "Input" /\ endpoint = d.from
  /\ Arrive(d) /\ Undisturbed
  /\ verifiedAge' = 0
  /\ Commit(d)
  /\ UNCHANGED <<clientVars, endpoint, removed>>

InputLimited(d) ==
  /\ d.type = "Input" /\ endpoint = d.from
  /\ Arrive(d) /\ Disturbed
  /\ verifiedAge' = 0
  /\ UNCHANGED <<clientVars, endpoint, sequence, hasSequence, seenAge, removed, sequenceLag>>

\* Mutant of InputUnauthorized: a signed packet is activity, wherever it comes from.
InputUnauthorizedMutant(d) ==
  /\ d.type = "Input" /\ endpoint # d.from
  /\ Arrive(d) /\ Undisturbed
  /\ verifiedAge' = 0
  /\ UNCHANGED <<clientVars, endpoint, sequence, hasSequence, seenAge, removed, sequenceLag>>

InputUnauthorized(d) ==
  /\ d.type = "Input" /\ endpoint # d.from
  /\ Arrive(d) /\ Undisturbed
  /\ UNCHANGED <<clientVars, sessionVars, sequenceLag>>

\* expireAt, on its timer.
Expire ==
  /\ ~removed /\ seenAge >= Timeout
  /\ removed' = TRUE
  /\ network' = {}
  /\ UNCHANGED <<clientVars, endpoint, sequence, hasSequence, verifiedAge, seenAge, sequenceLag, calm, rough>>

\* One tick passes: nothing that is due is left undone.
Tick ==
  /\ ~removed /\ seenAge < Timeout /\ helloAge < HelloInterval
  /\ \A d \in network : d.age < Latency
  /\ network' = {[d EXCEPT !.age = @ + 1] : d \in network}
  /\ helloAge' = helloAge + 1
  /\ sent' = FALSE
  /\ verifiedAge' = Least(verifiedAge + 1, Silence)
  /\ seenAge' = seenAge + 1
  /\ calm' = Least(calm + 1, Settle)
  /\ UNCHANGED <<address, sentSequence, endpoint, sequence, hasSequence, removed, sequenceLag, rough>>

Next ==
  /\ UNCHANGED setting
  /\ \/ SendHello \/ SendInput \/ Move
     \/ \E d \in network :
          \/ Lose(d)
          \/ HelloUnauthorized(d) \/ HelloAdmitted(d) \/ HelloLimited(d)
          \/ InputAdmitted(d) \/ InputLimited(d) \/ InputUnauthorized(d)
     \/ Expire \/ Tick

Spec == Init /\ [][Next]_vars

-----------------------------------------------------------------------------
(* What the session promises.                                              *)

\* Although datagrams overtake each other and the numbers wrap, the session only follows a
\* datagram the Client sent after the one it holds: none is committed twice, and a Hello from
\* an address the Client left, still under way, does not take the session back there
\* (session.go:98, 146).
FollowsForward ==
  [][hasSequence /\ <<endpoint, sequence>>' # <<endpoint, sequence>> => sequenceLag' < sequenceLag]_vars

\* Settle ticks after the last disturbance the session is at the Client's address and hears
\* it, so a change of address is healed by one silence and one Hello; and it expires only
\* when the disturbances went on for what is left of the timeout (session.go:98).
SurvivesMove ==
  /\ calm = Settle /\ ~removed => endpoint = address /\ seenAge <= HelloInterval + Latency
  /\ removed => rough + Settle + HelloInterval + Latency >= Timeout

=============================================================================
