---------------------------- MODULE UdpSessionProofs ----------------------------
(***************************************************************************)
(* That a session only follows its Client forward (UdpSession), for every  *)
(* even modulus, and every timeout and latency that together stay below    *)
(* half of it.  The inductive invariant is TypeOK with Paced: the Client   *)
(* sends once in a tick, so a datagram's lag is at most its age, and what  *)
(* the session holds lags by its silence and the latency.                  *)
(***************************************************************************)
EXTENDS UdpSession, TLAPS

-----------------------------------------------------------------------------
(* Remainders of a modulus that is not a number the provers know.          *)

LEMMA ModRange ==
  ASSUME NEW a \in Int, NEW m \in Nat \ {0}
  PROVE  a % m \in 0..(m - 1)
OBVIOUS

LEMMA DivMod ==
  ASSUME NEW a \in Int, NEW m \in Nat \ {0}
  PROVE  a \div m \in Int /\ a = (m * (a \div m)) + (a % m)
OBVIOUS

\* The remainder is the only number of its range that differs by a multiple.
LEMMA ModUnique ==
  ASSUME NEW m \in Nat \ {0}, NEW q \in Int, NEW r \in 0..(m - 1)
  PROVE  ((m * q) + r) % m = r
<1> DEFINE a == (m * q) + r
           s == a % m
           d == a \div m
<1>1. a \in Int
  OBVIOUS
<1>2. s \in 0..(m - 1)
  BY <1>1, ModRange
<1>3. d \in Int /\ a = (m * d) + s
  BY <1>1, DivMod
<1> HIDE DEF a, s, d
<1>4. a = (m * q) + r
  BY DEF a
<1>5. /\ q - d \in Int /\ m * q \in Int /\ m * d \in Int
      /\ m * (q - d) = (m * q) - (m * d)
  BY <1>3
<1>6. m * (q - d) = s - r
  BY <1>2, <1>3, <1>4, <1>5
<1>7. q - d < 1
  <2> SUFFICES ASSUME q - d >= 1
               PROVE  FALSE
    BY <1>5
  <2>1. m * (q - d) >= m
    BY <1>5
  <2> QED
    BY <1>2, <1>6, <2>1
<1>8. q - d > -1
  <2> SUFFICES ASSUME q - d <= -1
               PROVE  FALSE
    BY <1>5
  <2>1. m * (q - d) <= -m
    BY <1>5
  <2> QED
    BY <1>2, <1>6, <2>1
<1>9. m * q = m * d
  <2>1. q = d
    BY <1>3, <1>7, <1>8
  <2> QED
    BY <2>1
<1>10. r = s
  BY <1>2, <1>3, <1>4, <1>5, <1>9
<1> QED
  BY <1>10 DEF s, a

LEMMA ModOfRange ==
  ASSUME NEW m \in Nat \ {0}, NEW r \in 0..(m - 1)
  PROVE  r % m = r /\ r \in Int /\ r - 0 = r
<1>1. m * 0 = 0 /\ 0 \in Int /\ r \in Int
  OBVIOUS
<1>2. (m * 0) + r = r
  BY <1>1
<1> QED
  BY <1>1, <1>2, ModUnique

\* A multiple does not change the remainder.
LEMMA ModShift ==
  ASSUME NEW m \in Nat \ {0}, NEW a \in Int, NEW b \in Int, NEW k \in Int, a = b + (m * k)
  PROVE  a % m = b % m
<1> DEFINE d == b \div m
           r == b % m
<1>1. d \in Int /\ b = (m * d) + r /\ r \in 0..(m - 1)
  BY DivMod, ModRange
<1> HIDE DEF d, r
<1>2. d + k \in Int /\ m * (d + k) = (m * d) + (m * k) /\ m * d \in Int /\ m * k \in Int
  BY <1>1
<1>3. a = (m * (d + k)) + r
  BY <1>1, <1>2
<1>4. a % m = r
  BY <1>1, <1>2, <1>3, ModUnique
<1> QED
  BY <1>4 DEF r

\* Differences of remainders.
LEMMA ModDifference ==
  ASSUME NEW m \in Nat \ {0}, NEW a \in Int, NEW b \in Int
  PROVE  ((a % m) - (b % m)) % m = (a - b) % m
<1> DEFINE c == a \div m
           d == b \div m
           r == a % m
           s == b % m
<1>1. /\ c \in Int /\ a = (m * c) + r /\ r \in 0..(m - 1)
      /\ d \in Int /\ b = (m * d) + s /\ s \in 0..(m - 1)
  BY DivMod, ModRange
<1> HIDE DEF c, d, r, s
<1>2. d - c \in Int /\ m * (d - c) = (m * d) - (m * c) /\ m * d \in Int /\ m * c \in Int
  BY <1>1
<1>3. r - s \in Int /\ a - b \in Int /\ r - s = (a - b) + (m * (d - c))
  BY <1>1, <1>2
<1>4. (r - s) % m = (a - b) % m
  BY <1>2, <1>3, ModShift
<1> QED
  BY <1>4 DEF r, s

\* The same for one remainder.
LEMMA ModOfDifference ==
  ASSUME NEW m \in Nat \ {0}, NEW a \in Int, NEW b \in Int
  PROVE  ((a % m) - b) % m = (a - b) % m
<1> DEFINE c == a \div m
           r == a % m
<1>1. c \in Int /\ a = (m * c) + r /\ r \in 0..(m - 1)
  BY DivMod, ModRange
<1> HIDE DEF c, r
<1>2. -c \in Int /\ m * (-c) = -(m * c) /\ m * c \in Int
  BY <1>1
<1>3. r - b \in Int /\ a - b \in Int /\ r - b = (a - b) + (m * (-c))
  BY <1>1, <1>2
<1>4. (r - b) % m = (a - b) % m
  BY <1>2, <1>3, ModShift
<1> QED
  BY <1>4 DEF r

-----------------------------------------------------------------------------
(* The session.                                                            *)

Half == Modulus \div 2
Datagrams == [type : {"Hello", "Input"}, sequence : 0..(Modulus - 1), from : Addresses,
              age : 0..Latency, lag : Nat]

\* What the Client may still send in this tick.
Pause == IF sent THEN 0 ELSE 1

Paced ==
  /\ network \subseteq Datagrams
  /\ sequenceLag \in Nat
  /\ \A d \in network : d.lag + Pause <= d.age
  /\ hasSequence => sequenceLag + Pause <= seenAge + Latency /\ endpoint # "none"

IInv == TypeOK /\ Paced

-----------------------------------------------------------------------------
(* Serial numbers.                                                         *)

LEMMA SettingFacts ==
  ASSUME setting \in Settings
  PROVE  /\ Modulus \in Nat \ {0} /\ Timeout \in Nat \ {0} /\ Latency \in Nat /\ Half \in Nat
         /\ Modulus = 2 * Half /\ Timeout + Latency + 1 < Half
<1>1. /\ {Modulus, Timeout, Latency} \subseteq Nat /\ Timeout # 0
      /\ Modulus % 2 = 0 /\ Timeout + Latency + 1 < Modulus \div 2
  BY SettingsAssumption DEF Modulus, Timeout, Latency
<1> QED
  BY <1>1 DEF Half

\* Of two numbers that lag by less than half, only the one sent later is newer.
LEMMA NewerIsLater ==
  ASSUME setting \in Settings, NEW s \in Int, NEW x \in Nat, NEW y \in Nat, x < Half, y < Half,
         NewerSequence((s - x) % Modulus, (s - y) % Modulus)
  PROVE  x < y
<1> DEFINE m == Modulus
           h == Half
<1>1. m \in Nat \ {0} /\ h \in Nat /\ m = 2 * h /\ h # 0
  BY SettingFacts
<1>2. (((s - x) % m) - ((s - y) % m)) % m \in 1..(h - 1)
  BY DEF NewerSequence, Half
<1>3. x < h /\ y < h
  OBVIOUS
<1> HIDE DEF m, h
<1>4. (y - x) % m \in 1..(h - 1)
  <2>1. s - x \in Int /\ s - y \in Int /\ (s - x) - (s - y) = y - x
    OBVIOUS
  <2>2. (((s - x) % m) - ((s - y) % m)) % m = ((s - x) - (s - y)) % m
    BY <1>1, <2>1, ModDifference
  <2> QED
    BY <1>2, <2>1, <2>2
<1> SUFFICES ASSUME y <= x
             PROVE  FALSE
  OBVIOUS
<1>5. CASE x = y
  <2>1. 0 \in 0..(m - 1) /\ 0 \in Int /\ (m * 0) + 0 = 0 /\ y - x = 0
    BY <1>1, <1>5
  <2>2. 0 % m = 0
    BY <1>1, <2>1, ModUnique
  <2> QED
    BY <1>4, <2>1, <2>2
<1>6. CASE y < x
  <2> DEFINE r == m + (y - x)
  <2>1. r \in 0..(m - 1) /\ r > h /\ -1 \in Int
    BY <1>1, <1>3, <1>6
  <2>2. m * (-1) = -m
    BY <1>1
  <2>3. (m * (-1)) + r = y - x
    BY <1>1, <2>2
  <2> HIDE DEF r
  <2>4. (y - x) % m = r
    BY <1>1, <2>1, <2>3, ModUnique
  <2> QED
    BY <1>1, <1>4, <2>1, <2>4
<1> QED
  BY <1>5, <1>6

\* A datagram keeps its number while the Client sends another.
LEMMA LagGrows ==
  ASSUME setting \in Settings, NEW s \in Int, NEW lag \in Nat
  PROVE  (((s + 1) % Modulus) - (lag + 1)) % Modulus = (s - lag) % Modulus
<1>1. Modulus \in Nat \ {0} /\ s + 1 \in Int /\ lag + 1 \in Int /\ (s + 1) - (lag + 1) = s - lag
  BY SettingFacts
<1>2. (((s + 1) % Modulus) - (lag + 1)) % Modulus = ((s + 1) - (lag + 1)) % Modulus
  BY <1>1, ModOfDifference
<1> QED
  BY <1>1, <1>2

\* What is under way, and what the session holds, lags by less than half.
LEMMA LagsBelowHalf ==
  ASSUME IInv
  PROVE  /\ \A d \in network : d.lag < Half /\ d.lag \in Nat /\ d.lag + Pause <= Latency
         /\ hasSequence => sequenceLag < Half
<1>1. /\ Timeout \in Nat /\ Latency \in Nat /\ Half \in Nat /\ Timeout + Latency + 1 < Half
      /\ Pause \in {0, 1}
  BY SettingFacts DEF IInv, TypeOK, Pause
<1>2. /\ \A d \in network : d.lag \in Nat /\ d.age \in 0..Latency /\ d.lag + Pause <= d.age
      /\ sequenceLag \in Nat /\ seenAge \in 0..Timeout
      /\ hasSequence => sequenceLag + Pause <= seenAge + Latency
  BY DEF IInv, TypeOK, Paced, Datagrams
<1> QED
  BY <1>1, <1>2

-----------------------------------------------------------------------------
(* The steps.                                                              *)

LEMMA LeastBounds ==
  ASSUME NEW a \in Nat, NEW b \in Nat
  PROVE  Least(a, b) \in 0..b /\ Least(a, b) <= a
BY DEF Least

\* The history of disturbances keeps its type.
LEMMA HistoryType ==
  ASSUME TypeOK, UNCHANGED setting, Disturbed \/ Undisturbed
  PROVE  calm' \in 0..Settle' /\ rough' \in 0..Timeout' /\ Settle' = Settle /\ Timeout' = Timeout
<1>1. /\ Settle \in Nat /\ Timeout \in Nat /\ calm \in Nat /\ calm \in 0..Settle
      /\ rough \in Nat /\ rough \in 0..Timeout
  <2>1. {HelloInterval, Silence} \subseteq Nat /\ Latency \in Nat /\ Timeout \in Nat
    BY SettingFacts, TimesAssumption DEF TypeOK
  <2>2. Settle \in Nat
    BY <2>1 DEF Settle
  <2> QED
    BY <2>1, <2>2 DEF TypeOK
<1>2. Settle' = Settle /\ Timeout' = Timeout
  BY DEF Settle, Timeout, Latency
<1>3. CASE Disturbed
  <2>1. Least(rough + calm, Timeout) \in 0..Timeout
    <3>1. rough + calm \in Nat
      BY <1>1
    <3> QED
      BY <1>1, <3>1, LeastBounds
  <2> QED
    BY <1>1, <1>2, <1>3, <2>1 DEF Disturbed
<1>4. CASE Undisturbed
  BY <1>1, <1>2, <1>4 DEF Undisturbed
<1> QED
  BY <1>3, <1>4

\* The setting stays, and what is derived from it.
LEMMA SettingStays ==
  ASSUME UNCHANGED setting
  PROVE  /\ Modulus' = Modulus /\ Timeout' = Timeout /\ Latency' = Latency /\ Half' = Half /\ Settle' = Settle
BY DEF Modulus, Timeout, Latency, Half, Settle

LEMMA SendKeeps ==
  ASSUME IInv, UNCHANGED setting, SendHello \/ SendInput
  PROVE  IInv'
<1>1. PICK type \in {"Hello", "Input"} : Send(type) /\ helloAge' \in {0, helloAge}
  BY DEF SendHello, SendInput
<1> DEFINE new == [type |-> type, sequence |-> sentSequence', from |-> address, age |-> 0, lag |-> 0]
           Later(d) == [d EXCEPT !.lag = @ + 1]
<1>2. /\ ~sent /\ sent' = TRUE /\ sentSequence' = (sentSequence + 1) % Modulus
      /\ network' = {Later(d) : d \in network} \cup {new}
      /\ sequenceLag' = sequenceLag + 1
      /\ UNCHANGED <<setting, address, endpoint, sequence, hasSequence, verifiedAge, seenAge, removed>>
      /\ Undisturbed
  BY <1>1 DEF Send, sessionVars
<1>3. /\ setting \in Settings /\ sentSequence \in Int /\ sequenceLag \in Nat /\ Modulus \in Nat \ {0}
      /\ Latency \in Nat /\ Timeout \in Nat /\ Half \in Nat /\ Timeout + Latency + 1 < Half
      /\ address \in Addresses /\ seenAge \in 0..Timeout /\ HelloInterval \in Nat
  BY SettingFacts, TimesAssumption DEF IInv, TypeOK, Paced
<1>4. sentSequence' \in 0..(Modulus - 1)
  <2>1. sentSequence + 1 \in Int
    BY <1>3
  <2> QED
    BY <1>2, <1>3, <2>1, ModRange
<1>5. Pause = 1 /\ Pause' = 0
  BY <1>2 DEF Pause
<1>6. \A d \in network :
        /\ d \in Datagrams /\ d.lag + 1 <= d.age
        /\ d.sequence = (sentSequence - d.lag) % Modulus
  BY <1>5 DEF IInv, TypeOK, Paced
<1>7. ASSUME NEW d \in network
      PROVE  /\ Later(d) \in Datagrams /\ Later(d).lag <= Later(d).age
             /\ Later(d).sequence = (sentSequence' - Later(d).lag) % Modulus
  <2>1. d.lag \in Nat /\ d.lag + 1 \in Nat
    BY <1>6 DEF Datagrams
  <2>2. /\ Later(d) \in Datagrams /\ Later(d).lag = d.lag + 1 /\ Later(d).age = d.age
        /\ Later(d).sequence = d.sequence
    BY <1>6, <2>1 DEF Datagrams
  <2>3. (((sentSequence + 1) % Modulus) - (d.lag + 1)) % Modulus = (sentSequence - d.lag) % Modulus
    BY <1>3, <2>1, LagGrows
  <2> HIDE DEF Later
  <2> QED
    BY <1>2, <1>6, <2>2, <2>3
<1>8. /\ new \in Datagrams /\ new.lag <= new.age /\ new.lag = 0
      /\ new.sequence = (sentSequence' - new.lag) % Modulus
  <2>1. new \in Datagrams /\ new.lag = 0 /\ new.age = 0 /\ new.sequence = sentSequence'
    BY <1>3, <1>4 DEF Datagrams
  <2>2. sentSequence' % Modulus = sentSequence' /\ sentSequence' - 0 = sentSequence'
    BY <1>3, <1>4, ModOfRange
  <2> HIDE DEF new
  <2> QED
    BY <2>1, <2>2
<1> HIDE DEF new, Later
<1>9. \A d \in network' : /\ d \in Datagrams /\ d.lag <= d.age
                          /\ d.sequence = (sentSequence' - d.lag) % Modulus
  BY <1>2, <1>7, <1>8
<1>10. hasSequence => /\ sequenceLag' <= seenAge + Latency /\ sequenceLag' < Half /\ endpoint # "none"
                      /\ sequence = (sentSequence' - sequenceLag') % Modulus
  <2> SUFFICES ASSUME hasSequence
               PROVE  /\ sequenceLag' <= seenAge + Latency /\ sequenceLag' < Half /\ endpoint # "none"
                      /\ sequence = (sentSequence' - sequenceLag') % Modulus
    OBVIOUS
  <2>1. sequenceLag + 1 <= seenAge + Latency /\ endpoint # "none"
    BY <1>5 DEF IInv, Paced
  <2>2. sequence = (sentSequence - sequenceLag) % Modulus
    BY DEF IInv, TypeOK
  <2>3. (((sentSequence + 1) % Modulus) - (sequenceLag + 1)) % Modulus = (sentSequence - sequenceLag) % Modulus
    BY <1>3, LagGrows
  <2> QED
    BY <1>2, <1>3, <2>1, <2>2, <2>3
<1>11. Paced'
  <2>1. Datagrams' = Datagrams /\ Latency' = Latency
    BY SettingStays DEF Datagrams
  <2>2. \A d \in network' : d.lag + Pause' <= d.age
    <3> SUFFICES ASSUME NEW d \in network'
                 PROVE  d.lag + Pause' <= d.age
      OBVIOUS
    <3>1. d.lag \in Nat /\ d.lag <= d.age
      BY <1>9 DEF Datagrams
    <3> QED
      BY <1>5, <3>1
  <2>3. sequenceLag' \in Nat /\ sequenceLag' + Pause' = sequenceLag'
    BY <1>2, <1>3, <1>5
  <2>4. network' \subseteq Datagrams
    BY <1>9
  <2> QED
    BY <1>2, <1>10, <2>1, <2>2, <2>3, <2>4 DEF Paced
<1>12. TypeOK'
  <2>1. Modulus' = Modulus /\ Latency' = Latency /\ Timeout' = Timeout /\ Modulus' \div 2 = Half
    BY SettingStays DEF Half
  <2>2. calm' \in 0..Settle' /\ rough' \in 0..Timeout'
    BY <1>2, HistoryType DEF IInv
  <2>3. helloAge' \in 0..HelloInterval
    BY <1>1, <1>3 DEF IInv, TypeOK
  <2>4. /\ \A d \in network' :
            /\ d.type \in {"Hello", "Input"} /\ d.from \in Addresses /\ d.age \in 0..Latency
            /\ d.sequence = (sentSequence' - d.lag) % Modulus
    BY <1>9 DEF Datagrams
  <2> QED
    BY <1>2, <1>4, <1>10, <2>1, <2>2, <2>3, <2>4 DEF IInv, TypeOK
<1> QED
  BY <1>11, <1>12 DEF IInv

\* A step that sends nothing and lets no time pass: it may lose datagrams, move, verify the
\* endpoint or commit a datagram that is newer, or the first.
LEMMA SameTickKeeps ==
  ASSUME IInv, UNCHANGED <<setting, sentSequence, sent, helloAge>>,
         network' \subseteq network,
         address' \in Addresses, endpoint' \in Addresses \cup {"none"},
         verifiedAge' \in {0, verifiedAge}, removed' \in BOOLEAN,
         \/ UNCHANGED <<sequence, hasSequence, seenAge, sequenceLag>>
         \/ \E d \in network :
              sequence' = d.sequence /\ hasSequence' = TRUE /\ seenAge' = 0 /\ sequenceLag' = d.lag,
         hasSequence' => endpoint' # "none",
         Disturbed \/ Undisturbed
  PROVE  IInv'
<1>1. /\ setting \in Settings /\ Latency \in Nat /\ Timeout \in Nat \ {0} /\ Modulus \in Nat \ {0}
      /\ Silence \in Nat
  BY SettingFacts, TimesAssumption DEF IInv, TypeOK
<1>2. /\ Modulus' = Modulus /\ Latency' = Latency /\ Timeout' = Timeout /\ Half' = Half
      /\ Datagrams' = Datagrams /\ Pause' = Pause
  BY SettingStays DEF Datagrams, Pause
<1>3. calm' \in 0..Settle' /\ rough' \in 0..Timeout'
  BY HistoryType DEF IInv
<1>4. /\ sequenceLag' \in Nat /\ seenAge' \in 0..Timeout /\ sequence' \in 0..(Modulus - 1) /\ hasSequence' \in BOOLEAN
      /\ hasSequence' => /\ sequence' = (sentSequence - sequenceLag') % Modulus /\ sequenceLag' < Half
                         /\ sequenceLag' + Pause <= seenAge' + Latency
  <2>1. CASE UNCHANGED <<sequence, hasSequence, seenAge, sequenceLag>>
    BY <2>1, LagsBelowHalf DEF IInv, TypeOK, Paced
  <2>2. ASSUME NEW d \in network, sequence' = d.sequence /\ hasSequence' = TRUE /\ seenAge' = 0 /\ sequenceLag' = d.lag
        PROVE  <1>4!1 /\ <1>4!2
    <3>1. /\ d \in Datagrams /\ d.lag < Half /\ d.lag + Pause <= Latency
          /\ d.sequence = (sentSequence - d.lag) % Modulus
      BY LagsBelowHalf DEF IInv, TypeOK, Paced
    <3>2. d.lag \in Nat /\ d.sequence \in 0..(Modulus - 1) /\ 0 \in 0..Timeout /\ 0 + Latency = Latency
      BY <1>1, <3>1 DEF Datagrams
    <3> QED
      BY <2>2, <3>1, <3>2
  <2> QED
    BY <2>1, <2>2
<1>5. Paced'
  BY <1>2, <1>4 DEF IInv, Paced
<1>6. TypeOK'
  <2>1. verifiedAge' \in 0..Silence
    BY <1>1 DEF IInv, TypeOK
  <2>2. \A d \in network' :
          /\ d.type \in {"Hello", "Input"} /\ d.from \in Addresses /\ d.age \in 0..Latency
          /\ d.sequence = (sentSequence - d.lag) % Modulus
    BY DEF IInv, TypeOK
  <2>3. Modulus \div 2 = Half
    BY DEF Half
  <2> QED
    BY <1>2, <1>3, <1>4, <2>1, <2>2, <2>3 DEF IInv, TypeOK
<1> QED
  BY <1>5, <1>6 DEF IInv

\* One tick: every age grows.
LEMMA TickKeeps ==
  ASSUME IInv, UNCHANGED setting, Tick
  PROVE  IInv'
<1> DEFINE Older(d) == [d EXCEPT !.age = @ + 1]
<1>1. /\ seenAge < Timeout /\ helloAge < HelloInterval /\ \A d \in network : d.age < Latency
      /\ network' = {Older(d) : d \in network}
      /\ helloAge' = helloAge + 1 /\ sent' = FALSE
      /\ verifiedAge' = Least(verifiedAge + 1, Silence)
      /\ seenAge' = seenAge + 1
      /\ calm' = Least(calm + 1, Settle)
      /\ UNCHANGED <<setting, address, sentSequence, endpoint, sequence, hasSequence, removed, sequenceLag, rough>>
  BY DEF Tick
<1>2. /\ Latency \in Nat /\ Timeout \in Nat /\ HelloInterval \in Nat /\ Silence \in Nat /\ Settle \in Nat
      /\ seenAge \in Nat /\ helloAge \in Nat /\ calm \in Nat /\ verifiedAge \in Nat /\ Pause \in {0, 1} /\ Pause' = 1
      /\ sequenceLag \in Nat
  <2>1. /\ Latency \in Nat /\ Timeout \in Nat /\ HelloInterval \in Nat /\ Silence \in Nat
    BY SettingFacts, TimesAssumption DEF IInv, TypeOK
  <2>2. Settle \in Nat
    BY <2>1 DEF Settle
  <2> QED
    BY <1>1, <2>1, <2>2 DEF IInv, TypeOK, Paced, Pause
<1>3. /\ Modulus' = Modulus /\ Latency' = Latency /\ Timeout' = Timeout /\ Half' = Half /\ Settle' = Settle
      /\ Datagrams' = Datagrams
  BY <1>1, SettingStays DEF Datagrams
<1>4. ASSUME NEW d \in network
      PROVE  /\ Older(d) \in Datagrams /\ Older(d).lag + 1 <= Older(d).age
             /\ Older(d).sequence = (sentSequence - Older(d).lag) % Modulus
  <2>1. d \in Datagrams /\ d.lag + Pause <= d.age /\ d.sequence = (sentSequence - d.lag) % Modulus
    BY DEF IInv, TypeOK, Paced
  <2>2. d.age \in Nat /\ d.lag \in Nat /\ d.age + 1 \in 0..Latency
    BY <1>1, <1>2, <2>1 DEF Datagrams
  <2>3. Older(d) \in Datagrams /\ Older(d).lag = d.lag /\ Older(d).age = d.age + 1 /\ Older(d).sequence = d.sequence
    BY <2>1, <2>2 DEF Datagrams
  <2> HIDE DEF Older
  <2> QED
    BY <1>2, <2>1, <2>2, <2>3
<1> HIDE DEF Older
<1>5. \A d \in network' : /\ d \in Datagrams /\ d.lag + 1 <= d.age
                          /\ d.sequence = (sentSequence - d.lag) % Modulus
  BY <1>1, <1>4
<1>6. Paced'
  <2>1. hasSequence => sequenceLag + 1 <= seenAge + 1 + Latency /\ endpoint # "none"
    BY <1>2 DEF IInv, Paced
  <2> QED
    BY <1>1, <1>2, <1>3, <1>5, <2>1 DEF Paced
<1>7. TypeOK'
  <2>1. /\ verifiedAge' \in 0..Silence /\ calm' \in 0..Settle /\ seenAge' \in 0..Timeout
        /\ helloAge' \in 0..HelloInterval
    <3>1. verifiedAge + 1 \in Nat /\ calm + 1 \in Nat
      BY <1>2
    <3> QED
      BY <1>1, <1>2, <3>1, LeastBounds
  <2>2. \A d \in network' :
          /\ d.type \in {"Hello", "Input"} /\ d.from \in Addresses /\ d.age \in 0..Latency
          /\ d.sequence = (sentSequence - d.lag) % Modulus
    BY <1>5 DEF Datagrams
  <2>3. Modulus' \div 2 = Modulus \div 2
    BY <1>3
  <2> QED
    BY <1>1, <1>3, <2>1, <2>2, <2>3 DEF IInv, TypeOK
<1> QED
  BY <1>6, <1>7 DEF IInv

\* A datagram the session takes up, a Hello or an Input.
Admitted(d) ==
  /\ Moving(d) => MayRebind(d)
  /\ Arrive(d) /\ Undisturbed
  /\ verifiedAge' = 0
  /\ endpoint' = d.from
  /\ Commit(d)
  /\ UNCHANGED <<clientVars, removed>>

\* A datagram it refuses.
Unauthorized(d) ==
  /\ endpoint # d.from /\ (d.type = "Hello" => Moving(d) /\ ~MayRebind(d))
  /\ Arrive(d) /\ Undisturbed
  /\ UNCHANGED <<clientVars, sessionVars, sequenceLag>>

\* A disturbance.
Disturbance ==
  /\ network' \subseteq network /\ address' \in Addresses /\ Disturbed
  /\ verifiedAge' \in {0, verifiedAge}
  /\ UNCHANGED <<sentSequence, helloAge, sent, endpoint, sequence, hasSequence, seenAge, removed, sequenceLag>>

\* The steps of the Gateway's reader, of the network and of a moving Client, by what they do.
LEMMA Kinds ==
  ASSUME IInv, [Next]_vars
  PROVE  /\ UNCHANGED setting
         /\ \/ SendHello \/ SendInput \/ Tick \/ Expire \/ UNCHANGED vars \/ Disturbance
            \/ \E d \in network : Admitted(d) \/ Unauthorized(d)
<1>1. CASE UNCHANGED vars
  BY <1>1 DEF vars
<1>2. address \in Addresses /\ "none" \notin Addresses /\ \A d \in network : d.from \in Addresses
  BY AddressesAssumption DEF IInv, TypeOK
<1>3. ASSUME Move
      PROVE  Disturbance
  BY <1>3, <1>2 DEF Move, Disturbance, sessionVars
<1>4. ASSUME NEW d \in network, Lose(d) \/ HelloLimited(d) \/ InputLimited(d)
      PROVE  Disturbance
  BY <1>2, <1>4 DEF Lose, HelloLimited, InputLimited, Arrive, Disturbance, clientVars, sessionVars
<1>5. ASSUME NEW d \in network, HelloAdmitted(d) \/ InputAdmitted(d)
      PROVE  Admitted(d)
  BY <1>5 DEF HelloAdmitted, InputAdmitted, Admitted, Moving
<1>6. ASSUME NEW d \in network, HelloUnauthorized(d) \/ InputUnauthorized(d)
      PROVE  Unauthorized(d)
  BY <1>6 DEF HelloUnauthorized, InputUnauthorized, Unauthorized, Moving
<1>7. CASE Next
  <2>1. UNCHANGED setting
    BY <1>7 DEF Next
  <2>2. \/ SendHello \/ SendInput \/ Move \/ Expire \/ Tick
        \/ \E d \in network :
             Lose(d) \/ HelloUnauthorized(d) \/ HelloAdmitted(d) \/ HelloLimited(d)
             \/ InputAdmitted(d) \/ InputLimited(d) \/ InputUnauthorized(d)
    BY <1>7 DEF Next
  <2>3. ASSUME NEW d \in network,
               Lose(d) \/ HelloUnauthorized(d) \/ HelloAdmitted(d) \/ HelloLimited(d)
               \/ InputAdmitted(d) \/ InputLimited(d) \/ InputUnauthorized(d)
        PROVE  Disturbance \/ Admitted(d) \/ Unauthorized(d)
    BY <1>4, <1>5, <1>6, <2>3
  <2>4. CASE \E d \in network :
               Lose(d) \/ HelloUnauthorized(d) \/ HelloAdmitted(d) \/ HelloLimited(d)
               \/ InputAdmitted(d) \/ InputLimited(d) \/ InputUnauthorized(d)
    <3>1. PICK d \in network : Disturbance \/ Admitted(d) \/ Unauthorized(d)
      BY <2>3, <2>4
    <3> QED
      BY <2>1, <3>1
  <2>5. CASE SendHello \/ SendInput \/ Move \/ Expire \/ Tick
    BY <1>3, <2>1, <2>5
  <2> QED
    BY <2>2, <2>4, <2>5
<1> QED
  BY <1>1, <1>7

LEMMA InitIInv == Init => IInv
<1> SUFFICES ASSUME Init
             PROVE  IInv
  OBVIOUS
<1>1. /\ Modulus \in Nat \ {0} /\ Timeout \in Nat /\ Latency \in Nat /\ HelloInterval \in Nat /\ Silence \in Nat
      /\ Settle \in Nat
  <2>1. Modulus \in Nat \ {0} /\ Timeout \in Nat /\ Latency \in Nat /\ HelloInterval \in Nat /\ Silence \in Nat
    BY SettingFacts, TimesAssumption DEF Init
  <2> QED
    BY <2>1 DEF Settle
<1>2. TypeOK
  <2>1. /\ 0 \in 0..(Modulus - 1) /\ helloAge \in 0..HelloInterval /\ verifiedAge \in 0..Silence
        /\ seenAge \in 0..Timeout /\ calm \in 0..Settle /\ rough \in 0..Timeout
    BY <1>1 DEF Init
  <2>2. /\ setting \in Settings /\ address \in Addresses /\ endpoint = "none" /\ sentSequence = 0 /\ sequence = 0
        /\ sent = FALSE /\ hasSequence = FALSE /\ removed = FALSE /\ network = {}
    BY DEF Init
  <2> QED
    BY <2>1, <2>2 DEF TypeOK
<1>3. Paced
  BY DEF Init, Paced
<1> QED
  BY <1>2, <1>3 DEF IInv

LEMMA StepIInv == IInv /\ [Next]_vars => IInv'
<1> SUFFICES ASSUME IInv, [Next]_vars
             PROVE  IInv'
  OBVIOUS
<1>1. UNCHANGED setting
  BY Kinds
<1>2. address \in Addresses /\ endpoint \in Addresses \cup {"none"} /\ removed \in BOOLEAN /\ "none" \notin Addresses
  BY AddressesAssumption DEF IInv, TypeOK
<1>3. hasSequence => endpoint # "none"
  BY DEF IInv, Paced
<1>4. CASE SendHello \/ SendInput
  BY <1>1, <1>4, SendKeeps
<1>5. CASE Tick
  BY <1>1, <1>5, TickKeeps
<1>6. CASE Expire
  <2>1. /\ network' = {} /\ removed' = TRUE
        /\ UNCHANGED <<address, sentSequence, helloAge, sent, endpoint, sequence, hasSequence, verifiedAge, seenAge,
                       sequenceLag>>
        /\ Undisturbed
    BY <1>6 DEF Expire, clientVars, Undisturbed
  <2> QED
    BY <1>1, <1>2, <1>3, <2>1, SameTickKeeps
<1>7. CASE Disturbance
  BY <1>1, <1>2, <1>3, <1>7, SameTickKeeps DEF Disturbance
<1>8. ASSUME NEW d \in network, Admitted(d)
      PROVE  IInv'
  <2>1. d.from \in Addresses
    BY DEF IInv, TypeOK
  <2>2. /\ network' \subseteq network /\ endpoint' = d.from /\ verifiedAge' = 0 /\ Undisturbed
        /\ UNCHANGED <<address, sentSequence, helloAge, sent, removed>>
    BY <1>8 DEF Admitted, Arrive, clientVars
  <2>3. \/ UNCHANGED <<sequence, hasSequence, seenAge, sequenceLag>>
        \/ \E e \in network :
             sequence' = e.sequence /\ hasSequence' = TRUE /\ seenAge' = 0 /\ sequenceLag' = e.lag
    BY <1>8 DEF Admitted, Commit
  <2> QED
    BY <1>1, <1>2, <2>1, <2>2, <2>3, SameTickKeeps
<1>9. ASSUME NEW d \in network, Unauthorized(d)
      PROVE  IInv'
  <2>1. /\ network' \subseteq network /\ Undisturbed
        /\ UNCHANGED <<address, sentSequence, helloAge, sent, endpoint, sequence, hasSequence, verifiedAge, seenAge,
                       removed, sequenceLag>>
    BY <1>9 DEF Unauthorized, Arrive, clientVars, sessionVars
  <2> QED
    BY <1>1, <1>2, <1>3, <2>1, SameTickKeeps
<1>10. CASE UNCHANGED vars
  <2>1. UNCHANGED <<network, address, sentSequence, helloAge, sent, endpoint, sequence, hasSequence, verifiedAge, seenAge,
                    removed, sequenceLag>> /\ Undisturbed
    BY <1>10 DEF vars, clientVars, sessionVars, Undisturbed
  <2> QED
    BY <1>1, <1>2, <1>3, <2>1, SameTickKeeps
<1> QED
  BY <1>4, <1>5, <1>6, <1>7, <1>8, <1>9, <1>10, Kinds

LEMMA AlwaysIInv == Spec => []IInv
<1> QED
  BY InitIInv, StepIInv, PTL DEF Spec

\* The session's variables keep their types; the lag of what it holds stays below half of the
\* numbers, so a wrap of the sequence is never mistaken for an old number (session.go:146).
THEOREM SessionTypeCorrect == Spec => []TypeOK
<1>1. IInv => TypeOK
  BY DEF IInv
<1> QED
  BY <1>1, AlwaysIInv, PTL

\* The session only follows a datagram the Client sent after the one it holds, over wraps,
\* repetitions and rebindings (session.go:98, 146).
THEOREM AlwaysForward == Spec => FollowsForward
<1>1. IInv /\ [Next]_vars =>
        [hasSequence /\ <<endpoint, sequence>>' # <<endpoint, sequence>> => sequenceLag' < sequenceLag]_vars
  <2> SUFFICES ASSUME IInv, [Next]_vars, hasSequence, <<endpoint, sequence>>' # <<endpoint, sequence>>
               PROVE  sequenceLag' < sequenceLag
    OBVIOUS
  <2>1. PICK d \in network : Admitted(d)
    <3>1. ~(SendHello \/ SendInput \/ Tick \/ Expire \/ Disturbance \/ UNCHANGED vars)
      BY DEF SendHello, SendInput, Send, Tick, Expire, Disturbance, vars, sessionVars
    <3>2. \A d \in network : ~Unauthorized(d)
      BY DEF Unauthorized, sessionVars
    <3> QED
      BY <3>1, <3>2, Kinds
  <2>2. endpoint # "none"
    BY DEF IInv, Paced
  <2>3. NewerSequence(d.sequence, sequence)
    <3>1. CASE endpoint' # endpoint
      BY <2>1, <2>2, <3>1 DEF Admitted, Moving, MayRebind
    <3>2. CASE sequence' # sequence
      BY <2>1, <3>2 DEF Admitted, Commit
    <3> QED
      BY <3>1, <3>2
  <2>4. sequenceLag' = d.lag
    BY <2>1, <2>3 DEF Admitted, Commit
  <2>5. /\ setting \in Settings /\ sentSequence \in Int /\ d.lag \in Nat /\ sequenceLag \in Nat
        /\ d.lag < Half /\ sequenceLag < Half
        /\ d.sequence = (sentSequence - d.lag) % Modulus /\ sequence = (sentSequence - sequenceLag) % Modulus
    <3>1. sentSequence \in 0..(Modulus - 1) /\ Modulus \in Nat
      BY SettingFacts DEF IInv, TypeOK
    <3> QED
      BY <3>1, LagsBelowHalf DEF IInv, TypeOK, Paced
  <2> QED
    BY <2>3, <2>4, <2>5, NewerIsLater
<1> QED
  BY <1>1, AlwaysIInv, PTL DEF Spec, FollowsForward

-----------------------------------------------------------------------------
(* The healing of a session: what the Client's last Hellos are sure to do. *)

\* After so many calm ticks nothing from an earlier address verifies the endpoint, and the
\* silence a rebinding waits for is over.
Quiet == Latency + Silence

\* The Hellos under way from where the Client is.
Hellos == {d \in network : d.type = "Hello" /\ d.from = address}

InOrder == \A d, e \in network : d.age < e.age => d.lag < e.lag
Old == \A d \in network : d.from # address => d.age >= calm

\* A session that is elsewhere is silent, or nearly, and a Hello sent since the Client came
\* to its address is newer than what the session holds.
Elsewhere ==
  endpoint \notin {address, "none"} =>
    /\ verifiedAge = Silence \/ verifiedAge + Latency >= calm
    /\ \A d \in network : d.from = address /\ d.age < calm => d.lag < sequenceLag

\* The Hello that will bring the session to the Client is due, or under way.
Coming ==
  ~removed /\ endpoint # address =>
    /\ calm < Settle
    /\ calm >= Quiet /\ seenAge < Timeout =>
         \/ helloAge > calm - Quiet
         \/ \E h \in Hellos : h.age <= calm - Quiet /\ h.age + HelloInterval > calm - Quiet

\* A session at the Client's address has taken up its last Hello, or will take up the one before.
Heard ==
  ~removed /\ endpoint = address =>
    \/ seenAge <= helloAge \/ calm <= helloAge
    \/ \E h \in Hellos :
         h.lag < sequenceLag /\ (seenAge <= h.age + HelloInterval \/ calm <= h.age + HelloInterval)

\* What the session has not heard is accounted for by the spell of disturbances.
Spell ==
  /\ ~removed => seenAge <= rough + calm + HelloInterval + Latency
  /\ removed => /\ rough + Settle + HelloInterval + Latency >= Timeout
                /\ calm = Settle => Timeout <= HelloInterval + Latency

Bound == endpoint # "none" => hasSequence

Healing == InOrder /\ Old /\ Elsewhere /\ Coming /\ Heard /\ Spell /\ Bound

LEMMA Times ==
  ASSUME IInv
  PROVE  /\ HelloInterval \in Nat \ {0} /\ Silence \in Nat \ {0} /\ Latency \in Nat /\ Timeout \in Nat \ {0}
         /\ Quiet = Latency + Silence /\ Settle = Quiet + HelloInterval + Latency
         /\ calm \in 0..Settle /\ rough \in 0..Timeout /\ seenAge \in 0..Timeout
         /\ verifiedAge \in 0..Silence /\ helloAge \in 0..HelloInterval /\ sequenceLag \in Nat
         /\ \A d \in network : d.age \in 0..Latency /\ d.lag \in Nat
<1>1. HelloInterval \in Nat \ {0} /\ Silence \in Nat \ {0} /\ Latency \in Nat /\ Timeout \in Nat \ {0}
  BY SettingFacts, TimesAssumption DEF IInv, TypeOK
<1>2. Quiet = Latency + Silence /\ Settle = Quiet + HelloInterval + Latency
  BY <1>1 DEF Quiet, Settle
<1> QED
  BY <1>1, <1>2 DEF IInv, TypeOK, Paced, Datagrams

\* Of two numbers under way, the one sent later is newer.
LEMMA LaterIsNewer ==
  ASSUME IInv, hasSequence, NEW d \in network, d.lag < sequenceLag
  PROVE  NewerSequence(d.sequence, sequence)
<1> DEFINE m == Modulus
           x == d.lag
           y == sequenceLag
           s == sentSequence
<1>1. m \in Nat \ {0} /\ Half \in Nat /\ m = 2 * Half
  BY SettingFacts DEF IInv, TypeOK
<1>2. x \in Nat /\ y \in Nat /\ y < Half /\ x < y
  BY LagsBelowHalf DEF IInv, Paced
<1>3. s \in Int /\ d.sequence = (s - x) % m /\ sequence = (s - y) % m
  <2>1. s \in 0..(m - 1)
    BY DEF IInv, TypeOK
  <2>2. s \in Int
    BY <1>1, <2>1
  <2> QED
    BY <2>2 DEF IInv, TypeOK
<1> HIDE DEF m, x, y, s
<1>4. s - x \in Int /\ s - y \in Int /\ (s - x) - (s - y) = y - x
  BY <1>2, <1>3
<1>5. (((s - x) % m) - ((s - y) % m)) % m = ((s - x) - (s - y)) % m
  BY <1>1, <1>4, ModDifference
<1>6. y - x \in 0..(m - 1) /\ y - x \in 1..(Half - 1)
  BY <1>1, <1>2
<1>7. (y - x) % m = y - x
  BY <1>1, <1>6, ModOfRange
<1>8. (d.sequence - sequence) % m \in 1..(Half - 1)
  BY <1>3, <1>4, <1>5, <1>6, <1>7
<1> QED
  BY <1>8 DEF NewerSequence, Half, m

\* Settle calm ticks leave no other outcome.
LEMMA SettledHears ==
  ASSUME IInv, Healing, ~removed, calm = Settle
  PROVE  endpoint = address /\ seenAge <= HelloInterval + Latency
<1>1. endpoint = address
  BY Times DEF Healing, Coming
<1>2. CASE seenAge <= helloAge \/ calm <= helloAge
  BY <1>1, <1>2, Times
<1>3. CASE \E h \in Hellos :
             seenAge <= h.age + HelloInterval \/ calm <= h.age + HelloInterval
  <2>1. PICK h \in network : seenAge <= h.age + HelloInterval \/ calm <= h.age + HelloInterval
    BY <1>3 DEF Hellos
  <2> QED
    BY <1>1, <2>1, Times
<1> QED
  BY <1>1, <1>2, <1>3 DEF Healing, Heard

LEMMA InitHealing == Init => Healing
<1> SUFFICES ASSUME Init
             PROVE  Healing
  OBVIOUS
<1>1. IInv
  BY InitIInv
<1>2. /\ network = {} /\ endpoint = "none" /\ removed = FALSE /\ seenAge = 0 /\ calm = 0 /\ rough = 0
      /\ hasSequence = FALSE
  BY DEF Init
<1>3. Coming /\ Spell /\ Heard
  BY <1>1, <1>2, Times DEF Coming, Spell, Heard
<1> QED
  BY <1>2, <1>3 DEF Healing, InOrder, Old, Elsewhere, Bound

\* What the steps leave alone, and the derived times.
LEMMA TimesStay ==
  ASSUME UNCHANGED setting
  PROVE  Settle' = Settle /\ Quiet' = Quiet /\ Latency' = Latency /\ Timeout' = Timeout
BY SettingStays DEF Quiet

\* A disturbance begins a new account.
LEMMA DisturbanceHeals ==
  ASSUME IInv, Healing, UNCHANGED setting, Disturbance
  PROVE  Healing'
<1>1. /\ network' \subseteq network /\ calm' = 0
      /\ rough' = IF calm = Settle THEN 0 ELSE Least(rough + calm, Timeout)
      /\ UNCHANGED <<endpoint, hasSequence, seenAge, removed, sequenceLag, helloAge>>
  BY DEF Disturbance, Disturbed
<1>2. Settle' = Settle /\ Quiet' = Quiet /\ Latency' = Latency /\ Timeout' = Timeout
  BY TimesStay
<1>3. InOrder'
  BY <1>1 DEF Healing, InOrder
<1>4. Old'
  BY <1>1, Times DEF Old
<1>5. Elsewhere'
  <2>1. verifiedAge' \in {0, verifiedAge} /\ verifiedAge' + Latency >= 0
    BY Times DEF Disturbance
  <2>2. \A d \in network' : ~(d.age < 0)
    BY <1>1, Times
  <2> QED
    BY <1>1, <1>2, <2>1, <2>2 DEF Elsewhere
<1>6. Coming'
  BY <1>1, <1>2, Times DEF Coming
<1>7. Heard'
  BY <1>1, Times DEF Heard
<1>8. Spell'
  <2>1. CASE calm = Settle
    BY <1>1, <1>2, <2>1, Times, SettledHears DEF Healing, Spell
  <2>2. CASE calm # Settle
    <3>1. rough' \in {rough + calm, Timeout} /\ (rough' = Timeout \/ rough' = rough + calm)
      BY <1>1, <2>2 DEF Least
    <3> QED
      BY <1>1, <1>2, <2>2, <3>1, Times DEF Healing, Spell
  <2> QED
    BY <2>1, <2>2
<1>9. Bound'
  BY <1>1 DEF Healing, Bound
<1> QED
  BY <1>3, <1>4, <1>5, <1>6, <1>7, <1>8, <1>9 DEF Healing

LEMMA ExpireHeals ==
  ASSUME IInv, Healing, UNCHANGED setting, Expire
  PROVE  Healing'
<1>1. /\ ~removed /\ seenAge >= Timeout /\ removed' = TRUE /\ network' = {}
      /\ UNCHANGED <<address, endpoint, hasSequence, verifiedAge, calm, rough, sequenceLag>>
  BY DEF Expire, clientVars
<1>2. Settle' = Settle /\ Quiet' = Quiet /\ Latency' = Latency /\ Timeout' = Timeout
  BY TimesStay
<1>3. Spell'
  <2>1. calm = Settle => Timeout <= HelloInterval + Latency
    BY <1>1, Times, SettledHears
  <2>2. rough + Settle + HelloInterval + Latency >= Timeout
    BY <1>1, Times DEF Healing, Spell
  <2> QED
    BY <1>1, <1>2, <2>1, <2>2 DEF Spell
<1>4. InOrder' /\ Old' /\ Coming' /\ Heard'
  BY <1>1 DEF InOrder, Old, Coming, Heard
<1>5. Elsewhere'
  BY <1>1, <1>2 DEF Healing, Elsewhere
<1>6. Bound'
  BY <1>1 DEF Healing, Bound
<1> QED
  BY <1>3, <1>4, <1>5, <1>6 DEF Healing

LEMMA StutterHeals ==
  ASSUME Healing, UNCHANGED setting, UNCHANGED vars
  PROVE  Healing'
<1>1. /\ UNCHANGED <<setting, address, sentSequence, helloAge, sent, network, endpoint, sequence, hasSequence,
                     verifiedAge, seenAge, removed, sequenceLag, calm, rough>>
      /\ Settle' = Settle /\ Quiet' = Quiet /\ Latency' = Latency /\ Timeout' = Timeout
  BY TimesStay DEF vars, clientVars, sessionVars
<1>2. Hellos' = Hellos
  BY <1>1 DEF Hellos
<1> QED
  BY <1>1, <1>2 DEF Healing, InOrder, Old, Elsewhere, Coming, Heard, Spell, Bound

\* A Hello from the Client's address is not refused when it is the one that is to be taken up.
LEMMA RefusalHeals ==
  ASSUME IInv, Healing, UNCHANGED setting, NEW d \in network, Unauthorized(d)
  PROVE  Healing'
<1>1. /\ network' \in {network, network \ {d}} /\ endpoint # d.from
      /\ d.type = "Hello" => Moving(d) /\ ~MayRebind(d)
      /\ UNCHANGED <<address, helloAge, endpoint, sequence, hasSequence, verifiedAge, seenAge, removed, sequenceLag,
                     calm, rough>>
  BY DEF Unauthorized, Arrive, clientVars, sessionVars, Undisturbed
<1>2. Settle' = Settle /\ Quiet' = Quiet /\ Latency' = Latency /\ Timeout' = Timeout
  BY TimesStay
<1>3. InOrder' /\ Old'
  BY <1>1 DEF Healing, InOrder, Old
<1>4. Elsewhere'
  BY <1>1, <1>2 DEF Healing, Elsewhere
<1>5. Coming'
  <2> SUFFICES ASSUME ~removed, endpoint # address
               PROVE  /\ calm < Settle
                      /\ calm >= Quiet /\ seenAge < Timeout =>
                           \/ helloAge > calm - Quiet
                           \/ \E h \in Hellos' : h.age <= calm - Quiet /\ h.age + HelloInterval > calm - Quiet
    BY <1>1, <1>2 DEF Coming
  <2>1. calm < Settle
    BY DEF Healing, Coming
  <2>2. ASSUME calm >= Quiet, seenAge < Timeout, NEW h \in Hellos, h.age <= calm - Quiet
        PROVE  h # d
    <3> SUFFICES ASSUME h = d
                 PROVE  FALSE
      OBVIOUS
    <3>1. d.type = "Hello" /\ d.from = address /\ d.age <= calm - Quiet
      BY <2>2 DEF Hellos
    <3>2. endpoint \notin {address, "none"} /\ hasSequence
      BY <1>1, <3>1 DEF Moving, Healing, Bound
    <3>3. d.age < calm /\ verifiedAge >= Silence
      <4>1. verifiedAge = Silence \/ verifiedAge + Latency >= calm
        BY <3>2 DEF Healing, Elsewhere
      <4>2. d.age \in Nat /\ calm \in Nat /\ verifiedAge \in Nat /\ Quiet = Latency + Silence
        BY Times
      <4>3. Latency \in Nat /\ Silence \in Nat \ {0}
        BY Times
      <4> QED
        BY <2>2, <3>1, <4>1, <4>2, <4>3
    <3>4. d.lag < sequenceLag
      BY <3>1, <3>2, <3>3 DEF Healing, Elsewhere
    <3>5. MayRebind(d)
      BY <2>2, <3>2, <3>3, <3>4, LaterIsNewer DEF MayRebind
    <3> QED
      BY <1>1, <3>1, <3>5
  <2>3. \A h \in Hellos : h # d => h \in Hellos'
    BY <1>1 DEF Hellos
  <2>4. ASSUME calm >= Quiet, seenAge < Timeout, ~(helloAge > calm - Quiet)
        PROVE  \E h \in Hellos' : h.age <= calm - Quiet /\ h.age + HelloInterval > calm - Quiet
    <3>1. PICK h \in Hellos : h.age <= calm - Quiet /\ h.age + HelloInterval > calm - Quiet
      BY <2>4 DEF Healing, Coming
    <3> QED
      BY <2>2, <2>3, <2>4, <3>1
  <2> QED
    BY <2>1, <2>4
<1>6. Heard'
  <2>1. ASSUME endpoint = address, NEW h \in Hellos
        PROVE  h \in Hellos'
    BY <1>1, <2>1 DEF Hellos
  <2> QED
    BY <1>1, <2>1 DEF Healing, Heard
<1>7. Spell' /\ Bound'
  BY <1>1, <1>2 DEF Healing, Spell, Bound
<1> QED
  BY <1>3, <1>4, <1>5, <1>6, <1>7 DEF Healing

\* A datagram that is taken up.
LEMMA AdmissionHeals ==
  ASSUME IInv, Healing, UNCHANGED setting, NEW d \in network, Admitted(d)
  PROVE  Healing'
<1> DEFINE Newer == ~hasSequence \/ NewerSequence(d.sequence, sequence)
<1>1. /\ network' \in {network, network \ {d}} /\ ~removed /\ endpoint' = d.from /\ verifiedAge' = 0
      /\ Newer => seenAge' = 0 /\ sequenceLag' = d.lag /\ hasSequence' = TRUE
      /\ ~Newer => UNCHANGED <<hasSequence, seenAge, sequenceLag>>
      /\ UNCHANGED <<address, helloAge, removed, calm, rough>>
  BY DEF Admitted, Arrive, Commit, clientVars, Undisturbed
<1>2. Settle' = Settle /\ Quiet' = Quiet /\ Latency' = Latency /\ Timeout' = Timeout
  BY TimesStay
<1>3. ~Newer => hasSequence /\ endpoint = d.from /\ ~(d.lag < sequenceLag)
  <2> SUFFICES ASSUME ~Newer
               PROVE  hasSequence /\ endpoint = d.from /\ ~(d.lag < sequenceLag)
    OBVIOUS
  <2>1. hasSequence /\ ~NewerSequence(d.sequence, sequence)
    OBVIOUS
  <2>2. endpoint # "none"
    BY <2>1 DEF IInv, Paced
  <2> QED
    BY <2>1, <2>2, LaterIsNewer DEF Admitted, Moving, MayRebind
<1> HIDE DEF Newer
<1>4. InOrder' /\ Old'
  BY <1>1 DEF Healing, InOrder, Old
<1>5. d.from # address => calm <= d.age
  BY DEF Healing, Old
<1>6. Elsewhere'
  <2> SUFFICES ASSUME d.from # address
               PROVE  /\ Latency >= calm
                      /\ \A e \in network : e.from = address /\ e.age < calm => e.lag < sequenceLag'
    BY <1>1, <1>2, Times DEF Elsewhere
  <2>1. calm <= d.age /\ d.age <= Latency
    BY <1>5, Times
  <2>2. ASSUME NEW e \in network, e.from = address, e.age < calm
        PROVE  e.lag < sequenceLag'
    <3>1. CASE Newer
      <4>1. e.age < d.age
        BY <1>5, <2>2, Times
      <4> QED
        BY <1>1, <3>1, <4>1 DEF Healing, InOrder
    <3>2. CASE ~Newer
      <4>1. endpoint \notin {address, "none"}
        BY <1>3, <3>2 DEF IInv, Paced
      <4> QED
        BY <1>1, <2>2, <3>2, <4>1 DEF Healing, Elsewhere
    <3> QED
      BY <3>1, <3>2
  <2> QED
    BY <2>1, <2>2, Times
<1>7. Coming'
  <2>1. d.from # address => calm < Quiet /\ calm < Settle
    BY <1>5, Times
  <2> QED
    BY <1>1, <1>2, <2>1, Times DEF Coming
<1>8. Heard'
  <2>1. CASE Newer
    BY <1>1, <2>1, Times DEF Heard
  <2>2. CASE ~Newer
    <3> SUFFICES ASSUME endpoint = address
                 PROVE  \/ seenAge <= helloAge \/ calm <= helloAge
                        \/ \E h \in Hellos' :
                             /\ h.lag < sequenceLag
                             /\ seenAge <= h.age + HelloInterval \/ calm <= h.age + HelloInterval
      BY <1>1, <1>3, <2>2 DEF Heard
    <3>1. ASSUME NEW h \in Hellos, h.lag < sequenceLag
          PROVE  h \in Hellos'
      BY <1>1, <1>3, <2>2, <3>1 DEF Hellos
    <3>2. \/ seenAge <= helloAge \/ calm <= helloAge
          \/ \E h \in Hellos :
               h.lag < sequenceLag /\ (seenAge <= h.age + HelloInterval \/ calm <= h.age + HelloInterval)
      BY <1>1 DEF Healing, Heard
    <3> QED
      BY <3>1, <3>2
  <2> QED
    BY <2>1, <2>2
<1>9. Spell'
  <2>1. seenAge' \in {0, seenAge} /\ seenAge <= rough + calm + HelloInterval + Latency
    BY <1>1 DEF Healing, Spell
  <2> QED
    BY <1>1, <1>2, <2>1, Times DEF Spell
<1>10. Bound'
  BY <1>1, <1>3 DEF Bound
<1> QED
  BY <1>4, <1>6, <1>7, <1>8, <1>9, <1>10 DEF Healing

\* A datagram is sent: a Hello takes the place of the one that was due.
LEMMA SendHeals ==
  ASSUME IInv, Healing, UNCHANGED setting, SendHello \/ SendInput
  PROVE  Healing'
<1>1. PICK type \in {"Hello", "Input"} :
        /\ Send(type) /\ helloAge' \in {0, helloAge}
        /\ helloAge' # helloAge => type = "Hello" /\ helloAge >= HelloInterval /\ helloAge' = 0
  BY DEF SendHello, SendInput
<1> DEFINE new == [type |-> type, sequence |-> sentSequence', from |-> address, age |-> 0, lag |-> 0]
           Later(d) == [d EXCEPT !.lag = @ + 1]
<1>2. /\ network' = {Later(d) : d \in network} \cup {new}
      /\ sequenceLag' = sequenceLag + 1
      /\ UNCHANGED <<address, endpoint, hasSequence, verifiedAge, seenAge, removed, calm, rough>>
  BY <1>1 DEF Send, sessionVars, Undisturbed
<1>3. Settle' = Settle /\ Quiet' = Quiet /\ Latency' = Latency /\ Timeout' = Timeout
  BY TimesStay
<1>4. ASSUME NEW d \in network
      PROVE  /\ Later(d).type = d.type /\ Later(d).from = d.from /\ Later(d).age = d.age
             /\ Later(d).lag = d.lag + 1 /\ Later(d) \in network'
  <2>1. d \in Datagrams
    BY DEF IInv, Paced
  <2> QED
    BY <1>2, <2>1 DEF Datagrams
<1>5. new.type = type /\ new.from = address /\ new.age = 0 /\ new.lag = 0 /\ new \in network'
  BY <1>2
<1> HIDE DEF new, Later
<1>6. ASSUME NEW d \in network'
      PROVE  \/ d = new
             \/ \E e \in network : d = Later(e)
  BY <1>2
<1>7. InOrder'
  <2> SUFFICES ASSUME NEW d \in network', NEW e \in network', d.age < e.age
               PROVE  d.lag < e.lag
    BY DEF InOrder
  <2>1. e # new
    <3> SUFFICES ASSUME e = new
                 PROVE  FALSE
      OBVIOUS
    <3>1. d.age \in Nat
      BY <1>4, <1>5, <1>6, Times
    <3> QED
      BY <1>5, <3>1
  <2>2. PICK y \in network : e = Later(y)
    BY <1>6, <2>1
  <2>3. CASE d = new
    BY <1>4, <1>5, <2>2, <2>3, Times
  <2>4. CASE \E x \in network : d = Later(x)
    <3>1. PICK x \in network : d = Later(x)
      BY <2>4
    <3>2. x.age < y.age
      BY <1>4, <2>2, <3>1
    <3>3. x.lag < y.lag
      BY <3>2 DEF Healing, InOrder
    <3> QED
      BY <1>4, <2>2, <3>1, <3>3, Times
  <2> QED
    BY <1>6, <2>3, <2>4
<1>8. Old'
  <2> SUFFICES ASSUME NEW d \in network', d.from # address
               PROVE  d.age >= calm
    BY <1>2 DEF Old
  <2>1. PICK x \in network : d = Later(x)
    BY <1>5, <1>6
  <2> QED
    BY <1>4, <2>1 DEF Healing, Old
<1>9. Elsewhere'
  <2> SUFFICES ASSUME endpoint \notin {address, "none"}
               PROVE  /\ verifiedAge = Silence \/ verifiedAge + Latency >= calm
                      /\ \A d \in network' : d.from = address /\ d.age < calm => d.lag < sequenceLag'
    BY <1>2, <1>3 DEF Elsewhere
  <2>1. ASSUME NEW d \in network', d.from = address, d.age < calm
        PROVE  d.lag < sequenceLag'
    <3>1. CASE d = new
      BY <1>2, <1>5, <3>1, Times
    <3>2. CASE \E x \in network : d = Later(x)
      <4>1. PICK x \in network : d = Later(x)
        BY <3>2
      <4>2. x.lag < sequenceLag
        BY <1>4, <2>1, <4>1 DEF Healing, Elsewhere
      <4> QED
        BY <1>2, <1>4, <4>1, <4>2, Times
    <3> QED
      BY <1>6, <3>1, <3>2
  <2> QED
    BY <2>1 DEF Healing, Elsewhere
<1>10. ASSUME NEW h \in Hellos
       PROVE  Later(h) \in Hellos' /\ Later(h).age = h.age /\ Later(h).lag = h.lag + 1
  BY <1>2, <1>4 DEF Hellos
<1>11. helloAge' # helloAge => new \in Hellos' /\ helloAge = HelloInterval
  BY <1>1, <1>2, <1>5, Times DEF Hellos
<1>12. Coming'
  <2> SUFFICES ASSUME ~removed, endpoint # address
               PROVE  /\ calm < Settle
                      /\ calm >= Quiet /\ seenAge < Timeout =>
                           \/ helloAge' > calm - Quiet
                           \/ \E h \in Hellos' : h.age <= calm - Quiet /\ h.age + HelloInterval > calm - Quiet
    BY <1>2, <1>3 DEF Coming
  <2>1. calm < Settle
    BY DEF Healing, Coming
  <2>2. ASSUME calm >= Quiet, seenAge < Timeout, ~(helloAge' > calm - Quiet)
        PROVE  \E h \in Hellos' : h.age <= calm - Quiet /\ h.age + HelloInterval > calm - Quiet
    <3>1. CASE helloAge > calm - Quiet
      <4>1. new \in Hellos' /\ helloAge = HelloInterval
        BY <1>11, <2>2, <3>1
      <4>2. new.age <= calm - Quiet /\ new.age + HelloInterval > calm - Quiet
        BY <1>5, <2>2, <3>1, <4>1, Times
      <4> QED
        BY <4>1, <4>2
    <3>2. CASE \E h \in Hellos : h.age <= calm - Quiet /\ h.age + HelloInterval > calm - Quiet
      <4>1. PICK h \in Hellos : h.age <= calm - Quiet /\ h.age + HelloInterval > calm - Quiet
        BY <3>2
      <4> QED
        BY <1>10, <4>1
    <3> QED
      BY <2>2, <3>1, <3>2 DEF Healing, Coming
  <2> QED
    BY <2>1, <2>2
<1>13. Heard'
  <2> SUFFICES ASSUME ~removed, endpoint = address
               PROVE  \/ seenAge <= helloAge' \/ calm <= helloAge'
                      \/ \E h \in Hellos' :
                           /\ h.lag < sequenceLag + 1
                           /\ seenAge <= h.age + HelloInterval \/ calm <= h.age + HelloInterval
    BY <1>2 DEF Heard
  <2>1. CASE (seenAge <= helloAge \/ calm <= helloAge) /\ helloAge' # helloAge
    <3>1. new \in Hellos' /\ helloAge = HelloInterval /\ new.lag = 0 /\ new.age = 0
      BY <1>5, <1>11, <2>1
    <3>2. new.lag < sequenceLag + 1 /\ new.age + HelloInterval = HelloInterval
      BY <3>1, Times
    <3> QED
      BY <2>1, <3>1, <3>2
  <2>2. CASE \E h \in Hellos :
               h.lag < sequenceLag /\ (seenAge <= h.age + HelloInterval \/ calm <= h.age + HelloInterval)
    <3>1. PICK h \in Hellos :
            h.lag < sequenceLag /\ (seenAge <= h.age + HelloInterval \/ calm <= h.age + HelloInterval)
      BY <2>2
    <3>2. h.lag \in Nat /\ sequenceLag \in Nat
      BY Times DEF Hellos
    <3>3. Later(h).lag < sequenceLag + 1
      BY <1>10, <3>1, <3>2
    <3> QED
      BY <1>10, <3>1, <3>3
  <2> QED
    BY <2>1, <2>2 DEF Healing, Heard
<1>14. Spell' /\ Bound'
  BY <1>2, <1>3 DEF Healing, Spell, Bound
<1> QED
  BY <1>7, <1>8, <1>9, <1>12, <1>13, <1>14 DEF Healing

\* One tick: what is due is done before it, so the account moves with the ages.
LEMMA TickHeals ==
  ASSUME IInv, Healing, UNCHANGED setting, Tick
  PROVE  Healing'
<1> DEFINE Older(d) == [d EXCEPT !.age = @ + 1]
<1>1. /\ ~removed /\ seenAge < Timeout /\ helloAge < HelloInterval /\ \A d \in network : d.age < Latency
      /\ network' = {Older(d) : d \in network}
      /\ helloAge' = helloAge + 1 /\ seenAge' = seenAge + 1
      /\ verifiedAge' = Least(verifiedAge + 1, Silence) /\ calm' = Least(calm + 1, Settle)
      /\ UNCHANGED <<address, endpoint, hasSequence, removed, sequenceLag, rough>>
  BY DEF Tick
<1>2. Settle' = Settle /\ Quiet' = Quiet /\ Latency' = Latency /\ Timeout' = Timeout
  BY TimesStay
<1>3. /\ calm' <= calm + 1 /\ calm' \in Nat
      /\ calm < Settle => calm' = calm + 1
      /\ calm = Settle => calm' = Settle
  BY <1>1, Times DEF Least
<1>4. ASSUME NEW d \in network
      PROVE  /\ Older(d).type = d.type /\ Older(d).from = d.from /\ Older(d).age = d.age + 1
             /\ Older(d).lag = d.lag /\ Older(d) \in network'
  <2>1. d \in Datagrams
    BY DEF IInv, Paced
  <2> QED
    BY <1>1, <2>1 DEF Datagrams
<1> HIDE DEF Older
<1>5. \A d \in network' : \E e \in network : d = Older(e)
  BY <1>1
<1>6. InOrder'
  <2> SUFFICES ASSUME NEW d \in network', NEW e \in network', d.age < e.age
               PROVE  d.lag < e.lag
    BY DEF InOrder
  <2>1. PICK x \in network, y \in network : d = Older(x) /\ e = Older(y)
    BY <1>5
  <2>2. x.age < y.age
    BY <1>4, <2>1, Times
  <2> QED
    BY <1>4, <2>1, <2>2 DEF Healing, InOrder
<1>7. Old'
  <2> SUFFICES ASSUME NEW d \in network', d.from # address
               PROVE  d.age >= calm'
    BY <1>1 DEF Old
  <2>1. PICK x \in network : d = Older(x)
    BY <1>5
  <2>2. x.age >= calm
    BY <1>4, <2>1 DEF Healing, Old
  <2> QED
    BY <1>3, <1>4, <2>1, <2>2, Times
<1>8. Elsewhere'
  <2> SUFFICES ASSUME endpoint \notin {address, "none"}
               PROVE  /\ verifiedAge' = Silence \/ verifiedAge' + Latency >= calm'
                      /\ \A d \in network' : d.from = address /\ d.age < calm' => d.lag < sequenceLag
    BY <1>1, <1>2 DEF Elsewhere
  <2>1. verifiedAge' = Silence \/ verifiedAge' + Latency >= calm'
    <3>1. verifiedAge = Silence \/ verifiedAge + Latency >= calm
      BY DEF Healing, Elsewhere
    <3>2. verifiedAge' = Silence \/ verifiedAge' = verifiedAge + 1
      BY <1>1 DEF Least
    <3>3. verifiedAge = Silence => verifiedAge' = Silence
      BY <1>1, Times DEF Least
    <3> QED
      BY <1>3, <3>1, <3>2, <3>3, Times
  <2>2. ASSUME NEW d \in network', d.from = address, d.age < calm'
        PROVE  d.lag < sequenceLag
    <3>1. PICK x \in network : d = Older(x)
      BY <1>5
    <3>2. x.from = address /\ x.age < calm
      BY <1>3, <1>4, <2>2, <3>1, Times
    <3> QED
      BY <1>4, <3>1, <3>2 DEF Healing, Elsewhere
  <2> QED
    BY <2>1, <2>2
<1>9. ASSUME NEW h \in Hellos
      PROVE  Older(h) \in Hellos' /\ Older(h).age = h.age + 1 /\ Older(h).lag = h.lag /\ h.age \in Nat /\ h.age < Latency
  BY <1>1, <1>4, Times DEF Hellos
<1>10. Coming'
  <2> SUFFICES ASSUME endpoint # address
               PROVE  /\ calm' < Settle
                      /\ calm' >= Quiet /\ seenAge' < Timeout =>
                           \/ helloAge' > calm' - Quiet
                           \/ \E h \in Hellos' : h.age <= calm' - Quiet /\ h.age + HelloInterval > calm' - Quiet
    BY <1>1, <1>2 DEF Coming
  <2>1. calm < Settle /\ calm' = calm + 1
    BY <1>1, <1>3 DEF Healing, Coming
  <2>2. calm >= Quiet =>
          \/ helloAge > calm - Quiet
          \/ \E h \in Hellos : h.age <= calm - Quiet /\ h.age + HelloInterval > calm - Quiet
    BY <1>1 DEF Healing, Coming
  <2>3. calm' < Settle
    <3> SUFFICES ASSUME calm + 1 = Settle
                 PROVE  FALSE
      BY <2>1, Times
    <3>1. calm >= Quiet /\ calm - Quiet = HelloInterval + Latency - 1
      BY Times
    <3>2. ~(helloAge > calm - Quiet)
      BY <1>1, <3>1, Times
    <3>3. PICK h \in Hellos : h.age + HelloInterval > calm - Quiet
      BY <2>2, <3>1, <3>2
    <3> QED
      BY <1>9, <3>1, <3>3, Times
  <2>4. ASSUME calm' >= Quiet
        PROVE  \/ helloAge' > calm' - Quiet
               \/ \E h \in Hellos' : h.age <= calm' - Quiet /\ h.age + HelloInterval > calm' - Quiet
    <3>1. CASE calm < Quiet
      <4>1. calm' - Quiet = 0
        BY <2>1, <2>4, <3>1, Times
      <4> QED
        BY <1>1, <4>1, Times
    <3>2. CASE calm >= Quiet /\ helloAge > calm - Quiet
      BY <1>1, <2>1, <3>2, Times
    <3>3. CASE calm >= Quiet /\ \E h \in Hellos : h.age <= calm - Quiet /\ h.age + HelloInterval > calm - Quiet
      <4>1. PICK h \in Hellos : h.age <= calm - Quiet /\ h.age + HelloInterval > calm - Quiet
        BY <3>3
      <4>2. Older(h).age <= calm' - Quiet /\ Older(h).age + HelloInterval > calm' - Quiet
        BY <1>9, <2>1, <4>1, Times
      <4> QED
        BY <1>9, <4>2
    <3>4. calm < Quiet \/ calm >= Quiet
      BY Times
    <3> QED
      BY <2>2, <3>1, <3>2, <3>3, <3>4
  <2> QED
    BY <2>3, <2>4
<1>11. Heard'
  <2> SUFFICES ASSUME endpoint = address
               PROVE  \/ seenAge' <= helloAge' \/ calm' <= helloAge'
                      \/ \E h \in Hellos' :
                           /\ h.lag < sequenceLag
                           /\ seenAge' <= h.age + HelloInterval \/ calm' <= h.age + HelloInterval
    BY <1>1 DEF Heard
  <2>1. CASE seenAge <= helloAge \/ calm <= helloAge
    BY <1>1, <1>3, <2>1, Times
  <2>2. CASE \E h \in Hellos :
               h.lag < sequenceLag /\ (seenAge <= h.age + HelloInterval \/ calm <= h.age + HelloInterval)
    <3>1. PICK h \in Hellos :
            h.lag < sequenceLag /\ (seenAge <= h.age + HelloInterval \/ calm <= h.age + HelloInterval)
      BY <2>2
    <3>2. /\ Older(h).lag < sequenceLag
          /\ seenAge' <= Older(h).age + HelloInterval \/ calm' <= Older(h).age + HelloInterval
      BY <1>1, <1>3, <1>9, <3>1, Times
    <3> QED
      BY <1>9, <3>2
  <2> QED
    BY <1>1, <2>1, <2>2 DEF Healing, Heard
<1>12. Spell'
  <2>1. CASE calm < Settle
    <3>1. seenAge <= rough + calm + HelloInterval + Latency
      BY <1>1 DEF Healing, Spell
    <3> QED
      BY <1>1, <1>2, <1>3, <2>1, <3>1, Times DEF Spell
  <2>2. CASE calm = Settle
    <3>1. seenAge <= HelloInterval + Latency
      BY <1>1, <2>2, SettledHears
    <3> QED
      BY <1>1, <1>2, <1>3, <2>2, <3>1, Times DEF Spell
  <2> QED
    BY <2>1, <2>2, Times
<1>13. Bound'
  BY <1>1 DEF Healing, Bound
<1> QED
  BY <1>6, <1>7, <1>8, <1>10, <1>11, <1>12, <1>13 DEF Healing

LEMMA StepHealing == IInv /\ Healing /\ [Next]_vars => Healing'
BY Kinds, SendHeals, TickHeals, ExpireHeals, StutterHeals, DisturbanceHeals, AdmissionHeals, RefusalHeals

\* Settle ticks after the last disturbance the session is at the Client's address and has
\* heard it within one Hello; it expires only when the spell lasted for what the timeout
\* leaves (session.go:98).
THEOREM AlwaysSurvives == Spec => []SurvivesMove
<1>1. Spec => []Healing
  BY InitHealing, StepHealing, AlwaysIInv, PTL DEF Spec
<1>2. IInv /\ Healing => SurvivesMove
  BY SettledHears DEF Healing, Spell, SurvivesMove
<1> QED
  BY <1>1, <1>2, AlwaysIInv, PTL

=============================================================================
