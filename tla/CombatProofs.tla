---------------------------- MODULE CombatProofs ----------------------------
(***************************************************************************)
(* What the players may rely on (Combat), for every number of players,     *)
(* points, damages, ticks and actions.  The inductive invariant is         *)
(* TypeOK with five parts: the columns cover the players, the slots that   *)
(* are left are the actions that are left, every life is consistent in     *)
(* the middle of a tick, no action is behind its deadline, and a hold ends *)
(* with the cooldown it waits for, or early.                               *)
(***************************************************************************)
EXTENDS Combat, TLAPS, FiniteSetTheorems, WellFoundedInduction

\* Every set of naturals has a least element.
LEMMA LeastOfNaturals ==
  ASSUME NEW S, S \subseteq Nat, S # {}
  PROVE  \E x \in S : \A y \in S : x <= y
<1> DEFINE R == {ss \in Nat \X Nat : ss[1] < ss[2]}
<1>1. IsWellFoundedOn(R, Nat)
  BY NatLessThanWellFounded DEF OpToRel
<1>2. \E x \in S : \A y \in S : ~(<<y, x>> \in R)
  <2> HIDE DEF R
  <2> QED
    BY <1>1, WFMin
<1>3. \A x, y \in Nat : ~(<<y, x>> \in R) => x <= y
  OBVIOUS
<1> QED
  BY <1>2, <1>3

Columns == DOMAIN pending = Players /\ DOMAIN accepted = Players

\* ResolveActions visits a player that does not wait as often as it has undecided actions.
SlotsOf(p) == {s \in slots : s[2] = p}
Visits ==
  /\ slots = {} => waiting = {}
  /\ slots # {} => tick > 0
  /\ \A p \in Players : slots # {} /\ p \notin waiting =>
       /\ IsFiniteSet(SlotsOf(p))
       /\ Cardinality(SlotsOf(p)) = Cardinality(DOMAIN pending[p])

\* SnapshotValid's facts, which hold after every decision, and what makes them inductive: a
\* life begins before its hits, and a hit costs a point.
LifeOf(b, c, p, t) ==
  /\ (c.hp = 0) <=> ~b.alive
  /\ c.generation = b.generation
  /\ b.since <= t
  /\ b.alive => b.respawn = 0
  /\ ~b.alive => b.since # 0 /\ b.respawn > b.since /\ c.damaged = b.since
  /\ c.reload # 0 => b.alive /\ c.reloadStart # 0 /\ c.reloadStart <= t /\ c.reloadEnd > t
  /\ c.reload = 0 => c.reloadStart = 0 /\ c.reloadEnd = 0
  /\ (c.lastShot = 0) <=> (c.lastShotTick = 0)
  /\ c.lastShotTick <= t
  /\ (c.damaged = 0) <=> (c.hits = 0)
  /\ (c.damaged = 0) <=> (c.attacker = 0)
  /\ (c.damaged = 0) <=> (c.part = 0)
  /\ c.damaged # 0 => b.since <= c.damaged /\ c.damaged <= t /\ c.attacker # p
  /\ c.hits + c.hp <= MaximumHp
Lives == \A p \in Players : LifeOf(body[p], combat[p], p, tick)

\* The last tick at which action id of a player with the accepted ticks f waits.
UpTo(f, id) == {i \in DOMAIN f : i <= id}
Newest(f, id) == Max({f[i] : i \in UpTo(f, id)})
Latest(f, id) == Newest(f, id) + MaxShotStepLead
Deadline(f, id) == Newest(f, id) + MaxShotStepLead + HoldLimit * Holdings(UpTo(f, id))

\* A player's next action cannot be decided in this tick.
Blocked(p) == LET e == pending[p][NextAction(p)] IN ~e.due \/ tick < e.holdUntil

\* An action of player p with the entry e, accepted at `since', is due in time and held once,
\* to its deadline at the latest.
InTime(e, since, deadline) ==
  /\ ~e.due => tick < since + MaxShotStepLead
  /\ e.held => e.due /\ e.holdUntil <= deadline
  /\ ~e.held => e.holdUntil = 0

OnTime(p, id) == InTime(pending[p][id], accepted[p][id], Deadline(accepted[p], id))

\* No hold can bridge the cooldown.
Slow == CooldownTicks > MaxShotHoldTicks

\* A player's next action will not be held: its cooldown is over or too long, or, when a hold
\* can bridge any cooldown, it has been held.
Spent(p) ==
  IF Slow THEN combat[p].next <= tick \/ combat[p].next > tick + HoldLimit
  ELSE pending[p][NextAction(p)].held

\* The next action of a player whose turn may come: it can still be held, or will not be.
OnTurn(p) ==
  LET d == Deadline(accepted[p], NextAction(p))
  IN tick <= d /\ (Spent(p) \/ tick + HoldLimit <= d)

TimelyOf(p) ==
  /\ \A id \in DOMAIN pending[p] : OnTime(p, id)
  /\ DOMAIN pending[p] # {} => Blocked(p) \/ (~Idle /\ p \notin waiting /\ OnTurn(p))

Timely == \A p \in Players : TimelyOf(p)

\* The hold of player p's action id, with the entry e: it began less than a hold ago and ends
\* with the cooldown, or early enough for another one; and early enough when a smaller action
\* has come, which was accepted after the hold began.
HoldOf(p, id, e) ==
  /\ e.holdUntil <= tick + HoldLimit
  /\ combat[p].next <= e.holdUntil \/ e.holdUntil <= Latest(accepted[p], id)
  /\ (\E m \in DOMAIN pending[p] : m < id) => e.holdUntil <= Latest(accepted[p], id)
HoldsOf(p) == \A id \in DOMAIN pending[p] : pending[p][id].held => HoldOf(p, id, pending[p][id])
Holdup == \A p \in Players : HoldsOf(p)

IInv == TypeOK /\ Columns /\ Visits /\ Lives /\ Timely /\ Holdup

-----------------------------------------------------------------------------
(* Numbers.                                                                *)

\* Max is the greatest element of a bounded set of naturals.
LEMMA GreatestOfNaturals ==
  ASSUME NEW S, S \subseteq Nat, S # {}, NEW b \in Nat, \A x \in S : x <= b
  PROVE  Max(S) \in S /\ \A x \in S : x <= Max(S)
<1> DEFINE Bounds == {n \in Nat : \A x \in S : x <= n}
<1>1. PICK m \in Bounds : \A n \in Bounds : m <= n
  <2>1. b \in Bounds
    OBVIOUS
  <2> HIDE DEF Bounds
  <2>2. Bounds \subseteq Nat
    BY DEF Bounds
  <2> QED
    BY <2>1, <2>2, LeastOfNaturals
<1>2. m \in S
  <2> SUFFICES ASSUME m \notin S PROVE FALSE
    OBVIOUS
  <2>1. m \in Nat /\ \A x \in S : x < m
    OBVIOUS
  <2>2. m - 1 \in Nat
    <3>1. PICK x \in S : TRUE
      OBVIOUS
    <3> QED
      BY <2>1, <3>1
  <2>3. m - 1 \in Bounds
    BY <2>1, <2>2
  <2> QED
    BY <1>1, <2>1, <2>3
<1>3. \E x \in S : \A y \in S : x >= y
  BY <1>2
<1>4. Max(S) \in S /\ \A y \in S : Max(S) >= y
  BY <1>3 DEF Max
<1> QED
  BY <1>4

\* The bound of a hold is a number, at most the lead bound; a slow cooldown is beyond it.
LEMMA HoldIsNat ==
  /\ HoldLimit \in Nat /\ HoldLimit <= MaxShotStepLead
  /\ Slow => HoldLimit < CooldownTicks
  BY RulesAssumption DEF HoldLimit, Least, Slow

\* Actions give at least one hold, and a slow cooldown one.
LEMMA HoldingsType ==
  ASSUME NEW S, IsFiniteSet(S), S # {}
  PROVE  /\ Holdings(S) \in Nat /\ Holdings(S) # 0
         /\ Slow => Holdings(S) = 1
         /\ ~Slow => Holdings(S) = Cardinality(S)
<1>1. Cardinality(S) \in Nat /\ Cardinality(S) # 0
  BY FS_CardinalityType, FS_EmptySet
<1> QED
  BY <1>1 DEF Holdings, Slow

\* The deadline of an action is behind its acceptance by the lead and a hold.
LEMMA DeadlineAfter ==
  ASSUME NEW f, DOMAIN f \subseteq 1..MaxActions, NEW b \in Nat, \A i \in DOMAIN f : f[i] \in 0..b,
         NEW n \in DOMAIN f
  PROVE  /\ IsFiniteSet(UpTo(f, n)) /\ Newest(f, n) \in Nat
         /\ \A i \in UpTo(f, n) : f[i] <= Newest(f, n)
         /\ Deadline(f, n) \in Nat
         /\ Latest(f, n) \in Nat /\ f[n] + MaxShotStepLead <= Latest(f, n)
         /\ Latest(f, n) + HoldLimit <= Deadline(f, n)
<1> DEFINE S == {f[i] : i \in UpTo(f, n)}
<1>0. MaxActions \in Nat /\ MaxShotStepLead \in Nat
  BY RulesAssumption
<1>1. n \in UpTo(f, n) /\ UpTo(f, n) \subseteq 1..MaxActions
  BY DEF UpTo
<1>2. IsFiniteSet(UpTo(f, n))
  <2>1. IsFiniteSet(1..MaxActions)
    BY <1>0, FS_Interval
  <2> QED
    BY <1>1, <2>1, FS_Subset
<1>3. S \subseteq Nat /\ S # {} /\ \A x \in S : x <= b
  BY <1>1 DEF UpTo
<1>4. Max(S) \in S /\ \A x \in S : x <= Max(S)
  <2> HIDE DEF S
  <2> QED
    BY <1>3, GreatestOfNaturals
<1>5. Newest(f, n) \in Nat /\ \A i \in UpTo(f, n) : f[i] <= Newest(f, n)
  BY <1>3, <1>4 DEF Newest
<1>6. Holdings(UpTo(f, n)) \in Nat /\ Holdings(UpTo(f, n)) # 0
  BY <1>1, <1>2, HoldingsType
<1>7. \A h, k \in Nat : k # 0 => h * k \in Nat /\ h <= h * k
  OBVIOUS
<1>8. HoldLimit * Holdings(UpTo(f, n)) \in Nat /\ HoldLimit <= HoldLimit * Holdings(UpTo(f, n))
  BY <1>6, <1>7, HoldIsNat
<1> QED
  BY <1>0, <1>1, <1>2, <1>5, <1>8, HoldIsNat DEF Deadline, Latest

\* A later action, or the same one when more have been accepted, has a deadline no earlier,
\* and a later one has a whole hold more when a hold can bridge the cooldown.
LEMMA DeadlineGrows ==
  ASSUME NEW f, NEW g, NEW b \in Nat,
         DOMAIN f \subseteq DOMAIN g, DOMAIN g \subseteq 1..MaxActions,
         \A i \in DOMAIN f : g[i] = f[i], \A i \in DOMAIN g : g[i] \in 0..b,
         NEW m \in DOMAIN f, NEW n \in DOMAIN g, m <= n
  PROVE  /\ Deadline(f, m) \in Nat /\ Deadline(g, n) \in Nat
         /\ Latest(f, m) \in Nat /\ Latest(g, n) \in Nat
         /\ Latest(f, m) <= Latest(g, n)
         /\ Deadline(f, m) <= Deadline(g, n)
         /\ m # n /\ ~Slow => Deadline(f, m) + HoldLimit <= Deadline(g, n)
<1> DEFINE F == UpTo(f, m)
           G == UpTo(g, n)
<1>0. MaxActions \in Nat /\ MaxShotStepLead \in Nat /\ m \in Nat /\ n \in Nat
  BY RulesAssumption
<1>1. F \subseteq G /\ m \in F /\ n \in G /\ (m # n => n \notin F)
  <2>1. \A i \in DOMAIN f : i \in Nat
    BY <1>0
  <2> QED
    BY <1>0, <2>1 DEF UpTo
<1>2. /\ IsFiniteSet(F) /\ Newest(f, m) \in Nat /\ Deadline(f, m) \in Nat
      /\ \A i \in F : f[i] <= Newest(f, m)
  BY DeadlineAfter
<1>3. /\ IsFiniteSet(G) /\ Newest(g, n) \in Nat /\ Deadline(g, n) \in Nat
      /\ \A i \in G : g[i] <= Newest(g, n)
  BY DeadlineAfter
<1>4. Newest(f, m) <= Newest(g, n)
  <2>1. \E i \in F : Newest(f, m) = f[i]
    <3> DEFINE S == {f[i] : i \in F}
    <3>1. S \subseteq Nat /\ S # {} /\ \A x \in S : x <= b
      BY <1>1 DEF UpTo
    <3>2. Max(S) \in S
      <4> HIDE DEF S
      <4> QED
        BY <3>1, GreatestOfNaturals
    <3> QED
      BY <3>2 DEF Newest
  <2>2. \A i \in F : i \in G /\ g[i] = f[i]
    BY <1>1 DEF UpTo
  <2> QED
    BY <1>2, <1>3, <2>1, <2>2
<1>5. /\ Holdings(F) \in Nat /\ Holdings(G) \in Nat /\ Holdings(F) <= Holdings(G)
      /\ m # n /\ ~Slow => Holdings(F) < Holdings(G)
  <2>1. Cardinality(F) \in Nat /\ Cardinality(G) \in Nat
    BY <1>2, <1>3, FS_CardinalityType
  <2>2. Cardinality(F) <= Cardinality(G) /\ (Cardinality(G) = Cardinality(F) => G = F)
    BY <1>1, <1>3, FS_Subset
  <2>3. /\ Holdings(F) \in Nat /\ Holdings(G) \in Nat
        /\ Slow => Holdings(F) = 1 /\ Holdings(G) = 1
        /\ ~Slow => Holdings(F) = Cardinality(F) /\ Holdings(G) = Cardinality(G)
    <3>1. IsFiniteSet(F) /\ F # {} /\ IsFiniteSet(G) /\ G # {}
      BY <1>1, <1>2, <1>3
    <3> HIDE DEF F, G
    <3> QED
      BY <3>1, HoldingsType
  <2> QED
    BY <1>1, <2>1, <2>2, <2>3
<1>6. \A h, j, k \in Nat : /\ h * j \in Nat /\ h * k \in Nat
                           /\ j <= k => h * j <= h * k
                           /\ j < k => h * j + h <= h * k
  <2>1. \A h, j, d \in Nat : h * (j + d) = h * j + h * d /\ h * d \in Nat /\ h * j \in Nat
    OBVIOUS
  <2>2. \A h, d \in Nat : d # 0 => h <= h * d
    OBVIOUS
  <2> TAKE h, j, k \in Nat
  <2>3. j <= k => k - j \in Nat /\ j + (k - j) = k
    OBVIOUS
  <2>4. j <= k => h * k = h * j + h * (k - j) /\ h * (k - j) \in Nat
    BY <2>1, <2>3
  <2>5. j < k => h <= h * (k - j)
    BY <2>2, <2>3
  <2>6. h * j \in Nat /\ h * k \in Nat
    OBVIOUS
  <2> QED
    BY <2>4, <2>5, <2>6
<1> DEFINE hF == HoldLimit * Holdings(F)
           hG == HoldLimit * Holdings(G)
<1>7. hF \in Nat /\ hG \in Nat /\ hF <= hG /\ (m # n /\ ~Slow => hF + HoldLimit <= hG)
  BY <1>5, <1>6, HoldIsNat
<1>8. Deadline(f, m) = Newest(f, m) + MaxShotStepLead + hF /\ Deadline(g, n) = Newest(g, n) + MaxShotStepLead + hG
  BY DEF Deadline
<1> HIDE DEF hF, hG
<1> QED
  BY <1>0, <1>2, <1>3, <1>4, <1>7, <1>8, HoldIsNat DEF Latest

-----------------------------------------------------------------------------
(* A turn of ResolveActions.                                               *)

\* The next action of a player that has any is its least.
LEMMA NextActionLeast ==
  ASSUME TypeOK, NEW p \in Players, DOMAIN pending[p] # {}
  PROVE  NextAction(p) \in DOMAIN pending[p] /\ \A id \in DOMAIN pending[p] : NextAction(p) <= id
<1>1. DOMAIN pending[p] \subseteq Nat
  <2>1. DOMAIN pending[p] \subseteq 1..MaxActions /\ MaxActions \in Nat
    BY RulesAssumption DEF TypeOK
  <2> QED
    BY <2>1
<1>2. \E x \in DOMAIN pending[p] : \A y \in DOMAIN pending[p] : x <= y
  BY <1>1, LeastOfNaturals
<1> QED
  BY <1>2 DEF NextAction

\* A player's undecided actions are finitely many.
LEMMA PendingFinite ==
  ASSUME TypeOK, NEW p \in Players
  PROVE  IsFiniteSet(DOMAIN pending[p]) /\ Cardinality(DOMAIN pending[p]) \in Nat
<1>1. DOMAIN pending[p] \subseteq 1..MaxActions
  BY DEF TypeOK
<1>2. IsFiniteSet(1..MaxActions)
  BY FS_Interval, RulesAssumption
<1>3. IsFiniteSet(DOMAIN pending[p])
  BY <1>1, <1>2, FS_Subset
<1> QED
  BY <1>3, FS_CardinalityType

\* A player whose slot it is and who does not wait has an action left.
LEMMA OnePending ==
  ASSUME TypeOK, Visits, NEW s \in slots, s[2] \notin waiting
  PROVE  s[2] \in Players /\ DOMAIN pending[s[2]] # {}
<1>1. s[2] \in Players /\ s \in SlotsOf(s[2]) /\ slots # {}
  BY DEF TypeOK, SlotsOf
<1>2. IsFiniteSet(SlotsOf(s[2])) /\ Cardinality(SlotsOf(s[2])) = Cardinality(DOMAIN pending[s[2]])
  BY <1>1 DEF Visits
<1>3. Cardinality(SlotsOf(s[2])) # 0
  BY <1>1, <1>2, FS_EmptySet
<1> QED
  BY <1>1, <1>2, <1>3, FS_EmptySet

\* A decision takes the next action away from its player, and no other.
LEMMA DecidedTakes ==
  ASSUME Columns, NEW p \in Players, Decided(p)
  PROVE  /\ DOMAIN pending' = Players
         /\ DOMAIN pending'[p] = DOMAIN pending[p] \ {NextAction(p)}
         /\ \A id \in DOMAIN pending'[p] : pending'[p][id] = pending[p][id]
         /\ \A q \in Players \ {p} : pending'[q] = pending[q]
  BY DEF Columns, Decided

\* What a turn does to the entries: it decides the next action, holds it, or leaves it.
Held(p) == pending' = [pending EXCEPT ![p][NextAction(p)] = [@ EXCEPT !.held = TRUE, !.holdUntil = combat[p].next]]

LEMMA HeldKeeps ==
  ASSUME TypeOK, Columns, NEW p \in Players, DOMAIN pending[p] # {}, Held(p)
  PROVE  /\ DOMAIN pending' = Players
         /\ DOMAIN pending'[p] = DOMAIN pending[p]
         /\ pending'[p][NextAction(p)] =
              [pending[p][NextAction(p)] EXCEPT !.held = TRUE, !.holdUntil = combat[p].next]
         /\ \A id \in DOMAIN pending[p] \ {NextAction(p)} : pending'[p][id] = pending[p][id]
         /\ \A q \in Players \ {p} : pending'[q] = pending[q]
<1>1. NextAction(p) \in DOMAIN pending[p]
  BY NextActionLeast
<1> QED
  BY <1>1 DEF Columns, Held

\* Every turn is one of three, as far as the slots and the entries go.
Decides(s) == Turn(s, {}) /\ Ready(s[2]) /\ Decided(s[2])
Keeps(s) == Turn(s, {s[2]}) /\ ~Ready(s[2]) /\ UNCHANGED pending
Postpones(s) ==
  /\ Turn(s, {s[2]}) /\ Ready(s[2]) /\ Held(s[2])
  /\ Holds(s[2], pending[s[2]][NextAction(s[2])])

LEMMA TurnKinds ==
  ASSUME NEW s \in slots, Wait(s) \/ Hold(s) \/ Reject(s) \/ Reload(s) \/ Miss(s) \/ Hit(s)
  PROVE  Decides(s) \/ Keeps(s) \/ Postpones(s)
  BY DEF Wait, Hold, Reject, Reload, Miss, Hit, Decides, Keeps, Postpones, Held

\* And it moves no cooldown but its player's, by a decision, a whole one on.
Cools(s) ==
  \A q \in Players :
    \/ combat'[q].next = combat[q].next
    \/ q = s[2] /\ Decides(s) /\ combat'[q].next = tick + CooldownTicks

LEMMA TurnCools ==
  ASSUME TypeOK, NEW s \in slots, Wait(s) \/ Hold(s) \/ Reject(s) \/ Reload(s) \/ Miss(s) \/ Hit(s)
  PROVE  Cools(s)
<1>1. s[2] \in Players /\ combat \in [Players -> Combats]
  BY DEF TypeOK
<1>2. \A q \in Players : combat[q] \in Combats
  BY <1>1
<1>3. CASE Wait(s) \/ Hold(s) \/ Reject(s)
  BY <1>3 DEF Wait, Hold, Reject, Cools
<1>4. CASE Reload(s)
  BY <1>1, <1>2, <1>4 DEF Reload, Cools, Combats
<1>5. CASE Miss(s)
  <2>1. Decides(s) /\ combat' = [combat EXCEPT ![s[2]] = Shot(@, NextAction(s[2]))]
    BY <1>5 DEF Miss, Decides
  <2> QED
    BY <1>1, <1>2, <2>1 DEF Cools, Shot, Combats
<1>6. CASE Hit(s)
  <2>1. PICK q \in Players \ {s[2]}, part \in PartDamages :
          combat' = [combat EXCEPT ![s[2]] = Shot(@, NextAction(s[2])), ![q] = Hurt(@, s[2], part)]
    BY <1>6 DEF Hit
  <2>2. Decides(s)
    BY <1>6 DEF Hit, Decides
  <2>3. Hurt(combat[q], s[2], part).next = combat[q].next
    BY <1>2 DEF Hurt, Marked, NotReloading, Combats
  <2>4. Shot(combat[s[2]], NextAction(s[2])).next = tick + CooldownTicks
    BY <1>1, <1>2 DEF Shot, Combats
  <2>5. \A r \in Players : combat'[r].next = IF r = s[2] THEN tick + CooldownTicks ELSE combat[r].next
    <3> DEFINE sh == Shot(combat[s[2]], NextAction(s[2]))
               hu == Hurt(combat[q], s[2], part)
    <3>1. combat' = [combat EXCEPT ![s[2]] = sh, ![q] = hu]
      BY <1>1, <2>1
    <3>2. sh.next = tick + CooldownTicks /\ hu.next = combat[q].next
      BY <2>3, <2>4
    <3> HIDE DEF sh, hu
    <3> QED
      BY <1>1, <3>1, <3>2
  <2> QED
    BY <2>2, <2>5 DEF Cools
<1> QED
  BY <1>3, <1>4, <1>5, <1>6

\* After a turn the slots of whoever does not wait are still its actions, so nobody but the
\* waiting has an action left when the slots are at their end.
LEMMA TurnVisits ==
  ASSUME TypeOK, Columns, Visits, NEW s \in slots, Decides(s) \/ Keeps(s) \/ Postpones(s)
  PROVE  /\ Visits'
         /\ \A q \in Players : slots' = {} /\ q \notin waiting /\ DOMAIN pending'[q] # {} =>
              q = s[2] /\ (Keeps(s) \/ Postpones(s))
<1> DEFINE p == s[2]
<1>1. p \in Players /\ slots' = slots \ {s} /\ tick' = tick
  BY DEF TypeOK, Decides, Keeps, Postpones, Turn
<1>2. ASSUME NEW q \in Players, q \notin waiting, q # p \/ Decides(s)
      PROVE  IsFiniteSet(SlotsOf(q)') /\ Cardinality(SlotsOf(q)') = Cardinality(DOMAIN pending'[q])
  <2>1. IsFiniteSet(SlotsOf(q)) /\ Cardinality(SlotsOf(q)) = Cardinality(DOMAIN pending[q])
    BY <1>2 DEF Visits
  <2>2. CASE q # p
    <3>1. SlotsOf(q)' = SlotsOf(q)
      BY <1>1, <2>2 DEF SlotsOf
    <3>2. pending'[q] = pending[q]
      <4>1. CASE Decides(s)
        BY <1>1, <2>2, <4>1, DecidedTakes DEF Decides
      <4>2. CASE Keeps(s)
        BY <4>2 DEF Keeps
      <4>3. CASE Postpones(s)
        BY <1>1, <2>2, <4>3 DEF Postpones, Held, Columns
      <4> QED
        BY <4>1, <4>2, <4>3
    <3> QED
      BY <2>1, <3>1, <3>2
  <2>3. CASE q = p /\ Decides(s)
    <3>1. SlotsOf(q)' = SlotsOf(q) \ {s} /\ s \in SlotsOf(q)
      BY <1>1, <2>3 DEF SlotsOf
    <3>2. IsFiniteSet(SlotsOf(q)') /\ Cardinality(SlotsOf(q)') = Cardinality(SlotsOf(q)) - 1
      BY <2>1, <3>1, FS_RemoveElement
    <3>3. NextAction(q) \in DOMAIN pending[q]
      <4>1. DOMAIN pending[q] # {}
        BY <1>2, <2>3, OnePending
      <4> QED
        BY <4>1, NextActionLeast
    <3>4. DOMAIN pending'[q] = DOMAIN pending[q] \ {NextAction(q)}
      BY <1>1, <2>3, DecidedTakes DEF Decides
    <3>5. Cardinality(DOMAIN pending'[q]) = Cardinality(DOMAIN pending[q]) - 1
      BY <3>3, <3>4, PendingFinite, FS_RemoveElement
    <3> QED
      BY <2>1, <3>2, <3>5
  <2> QED
    BY <1>2, <2>2, <2>3
<1>3. waiting \subseteq waiting' \/ slots' = {}
  BY DEF Decides, Keeps, Postpones, Turn
<1>4. slots' # {} /\ (Keeps(s) \/ Postpones(s)) => p \in waiting'
  BY DEF Keeps, Postpones, Turn
<1>5. Visits'
  <2>1. slots' = {} => waiting' = {}
    BY DEF Decides, Keeps, Postpones, Turn
  <2>2. slots' # {} => tick' > 0
    BY <1>1 DEF Visits
  <2>3. ASSUME NEW q \in Players, slots' # {}, q \notin waiting'
        PROVE  IsFiniteSet(SlotsOf(q)') /\ Cardinality(SlotsOf(q)') = Cardinality(DOMAIN pending'[q])
    BY <1>2, <1>3, <1>4, <2>3
  <2> QED
    BY <2>1, <2>2, <2>3 DEF Visits
<1>6. ASSUME NEW q \in Players, slots' = {}, q \notin waiting, DOMAIN pending'[q] # {}
      PROVE  q = p /\ (Keeps(s) \/ Postpones(s))
  <2> SUFFICES ASSUME q # p \/ Decides(s) PROVE FALSE
    OBVIOUS
  <2>1. IsFiniteSet(SlotsOf(q)') /\ Cardinality(SlotsOf(q)') = Cardinality(DOMAIN pending'[q])
    BY <1>2, <1>6
  <2>2. SlotsOf(q)' = {}
    BY <1>6 DEF SlotsOf
  <2>3. IsFiniteSet(DOMAIN pending'[q])
    <3>1. DOMAIN pending'[q] \subseteq DOMAIN pending[q]
      <4>1. CASE q # p
        BY <1>1, <4>1, DecidedTakes DEF Decides, Keeps, Postpones, Held, Columns
      <4>2. CASE q = p /\ Decides(s)
        BY <1>1, <4>2, DecidedTakes DEF Decides
      <4> QED
        BY <4>1, <4>2
    <3> QED
      BY <3>1, PendingFinite, FS_Subset
  <2> QED
    BY <1>6, <2>1, <2>2, <2>3, FS_EmptySet
<1> QED
  BY <1>5, <1>6

-----------------------------------------------------------------------------
(* Submit.                                                                 *)

\* What Submit does to the two columns of its player.
LEMMA SubmitEffect ==
  ASSUME TypeOK, Columns, NEW p \in Players, NEW id \in 1..MaxActions, Submit(p, id)
  PROVE  /\ DOMAIN accepted' = Players /\ DOMAIN pending' = Players
         /\ DOMAIN accepted'[p] = DOMAIN accepted[p] \cup {id}
         /\ DOMAIN pending'[p] = DOMAIN pending[p] \cup {id}
         /\ accepted'[p][id] = tick + 1 /\ id \notin DOMAIN accepted[p]
         /\ DOMAIN accepted'[p] \subseteq 1..MaxActions
         /\ \A i \in DOMAIN accepted'[p] : accepted'[p][i] \in 0..(tick + 1)
         /\ \A i \in DOMAIN accepted[p] : accepted'[p][i] = accepted[p][i]
         /\ \A i \in DOMAIN pending[p] : pending'[p][i] = pending[p][i]
         /\ pending'[p][id] \in Entries
         /\ ~pending'[p][id].due /\ ~pending'[p][id].held /\ pending'[p][id].holdUntil = 0
         /\ \A q \in Players \ {p} : accepted'[q] = accepted[q] /\ pending'[q] = pending[q]
<1>1. id \notin DOMAIN accepted[p] /\ DOMAIN pending[p] \subseteq DOMAIN accepted[p]
  BY DEF Submit, TypeOK
<1>2. /\ DOMAIN accepted' = Players
      /\ DOMAIN accepted'[p] = DOMAIN accepted[p] \cup {id}
      /\ accepted'[p][id] = tick + 1
      /\ \A i \in DOMAIN accepted[p] : accepted'[p][i] = accepted[p][i]
      /\ \A q \in Players \ {p} : accepted'[q] = accepted[q]
  BY <1>1 DEF Submit, Columns
<1>3. PICK kind \in Kinds, life \in 1..(body[p].generation + 1), fresh \in BOOLEAN, ahead \in 0..MaxShotStepLead :
        /\ ~fresh => kind = "shot"
        /\ life < body[p].generation => ~fresh /\ ahead = 0
        /\ pending' = [pending EXCEPT ![p] = [i \in DOMAIN @ \cup {id} |->
             IF i = id THEN [kind |-> kind, life |-> life, fresh |-> fresh, ahead |-> ahead,
                             due |-> FALSE, held |-> FALSE, holdUntil |-> 0]
             ELSE @[i]]]
  BY Zenon DEF Submit
<1>4. life \in Nat \ {0}
  BY DEF TypeOK, Bodies
<1>5. /\ DOMAIN pending' = Players
      /\ DOMAIN pending'[p] = DOMAIN pending[p] \cup {id}
      /\ pending'[p][id] = [kind |-> kind, life |-> life, fresh |-> fresh, ahead |-> ahead,
                            due |-> FALSE, held |-> FALSE, holdUntil |-> 0]
      /\ \A i \in DOMAIN pending[p] : pending'[p][i] = pending[p][i]
      /\ \A q \in Players \ {p} : pending'[q] = pending[q]
  BY <1>1, <1>3 DEF Columns
<1>6. pending'[p][id] \in Entries
  BY <1>4, <1>5 DEF Entries
<1>7. /\ DOMAIN accepted'[p] \subseteq 1..MaxActions
      /\ \A i \in DOMAIN accepted'[p] : accepted'[p][i] \in 0..(tick + 1)
  <2>1. /\ tick \in Nat /\ DOMAIN accepted[p] \subseteq 1..MaxActions
        /\ \A i \in DOMAIN accepted[p] : accepted[p][i] \in 1..(tick + 1)
    BY RulesAssumption DEF TypeOK
  <2>2. ASSUME NEW i \in DOMAIN accepted'[p] PROVE accepted'[p][i] \in 0..(tick + 1)
    <3>1. CASE i = id
      BY <1>2, <2>1, <3>1
    <3>2. CASE i # id
      BY <1>2, <2>1, <3>2
    <3> QED
      BY <3>1, <3>2
  <2> QED
    BY <1>2, <2>1, <2>2
<1> QED
  BY <1>1, <1>2, <1>5, <1>6, <1>7

\* An admitted action is neither due nor held, and moves no deadline forward.
LEMMA SubmitKeeps ==
  ASSUME IInv, NEW p \in Players, NEW id \in 1..MaxActions, Submit(p, id)
  PROVE  IInv'
<1> USE DEF IInv
<1>0. UNCHANGED <<tick, body, combat, slots, waiting>> /\ Idle
  BY DEF Submit
<1>1. /\ tick \in 0..MaxTick /\ MaxTick \in Nat /\ tick \in Nat
      /\ MaxShotStepLead \in Nat \ {0} /\ MaxActions \in Nat
  BY RulesAssumption DEF TypeOK
<1>2. TypeOK'
  <2>1. ASSUME NEW q \in Players
        PROVE  /\ DOMAIN pending'[q] \subseteq DOMAIN accepted'[q] /\ DOMAIN accepted'[q] \subseteq 1..MaxActions
               /\ \A i \in DOMAIN accepted'[q] : accepted'[q][i] \in 1..(tick' + 1)
               /\ \A i \in DOMAIN pending'[q] : pending'[q][i] \in Entries
    <3>1. CASE q = p
      BY <1>0, <1>1, <3>1, SubmitEffect DEF TypeOK
    <3>2. CASE q # p
      BY <1>0, <3>2, SubmitEffect DEF TypeOK
    <3> QED
      BY <3>1, <3>2
  <2> QED
    BY <1>0, <2>1 DEF TypeOK, Idle
<1>3. Columns'
  BY SubmitEffect DEF Columns
<1>4. Visits'
  BY <1>0 DEF Visits, Idle
<1>5. Lives'
  BY <1>0 DEF Lives, LifeOf
<1>6. Timely'
  <2> SUFFICES ASSUME NEW q \in Players
               PROVE  /\ \A i \in DOMAIN pending'[q] : OnTime(q, i)'
                      /\ DOMAIN pending'[q] # {} => Blocked(q)'
    BY <1>0 DEF Timely, TimelyOf, Idle
  <2>1. CASE q # p
    <3>1. accepted'[q] = accepted[q] /\ pending'[q] = pending[q]
      BY <2>1, SubmitEffect
    <3>2. NextAction(q)' = NextAction(q)
      BY <3>1 DEF NextAction
    <3> QED
      BY <1>0, <3>1, <3>2 DEF Timely, TimelyOf, OnTime, InTime, Blocked
  <2>2. CASE q = p
    <3>1. ASSUME NEW i \in DOMAIN pending[p]
          PROVE  OnTime(p, i)'
      <4>1. i \in DOMAIN accepted[p] /\ i \in DOMAIN accepted'[p] /\ i \in Nat
        BY SubmitEffect, <1>1 DEF TypeOK
      <4>2. Deadline(accepted[p], i) <= Deadline(accepted'[p], i)
            /\ Deadline(accepted[p], i) \in Nat /\ Deadline(accepted'[p], i) \in Nat
        <5>1. /\ DOMAIN accepted[p] \subseteq DOMAIN accepted'[p] /\ DOMAIN accepted'[p] \subseteq 1..MaxActions
              /\ \A j \in DOMAIN accepted[p] : accepted'[p][j] = accepted[p][j]
              /\ \A j \in DOMAIN accepted'[p] : accepted'[p][j] \in 0..(tick + 1)
          BY SubmitEffect
        <5> HIDE DEF IInv
        <5> QED
          BY <1>1, <4>1, <5>1, DeadlineGrows
      <4>3. pending'[p][i] = pending[p][i] /\ accepted'[p][i] = accepted[p][i] /\ tick' = tick
        BY <1>0, <4>1, SubmitEffect
      <4>4. OnTime(p, i)
        BY DEF Timely, TimelyOf
      <4>5. pending[p][i].holdUntil \in Nat
        BY DEF TypeOK, Entries
      <4> QED
        BY <4>2, <4>3, <4>4, <4>5 DEF OnTime, InTime
    <3>2. OnTime(p, id)'
      BY <1>0, <1>1, SubmitEffect DEF OnTime, InTime
    <3>3. Blocked(p)'
      <4>1. NextAction(p)' \in DOMAIN pending'[p] /\ \A i \in DOMAIN pending'[p] : NextAction(p)' <= i
        <5>1. \E x \in DOMAIN pending'[p] : \A y \in DOMAIN pending'[p] : x <= y
          <6>1. DOMAIN pending'[p] \subseteq Nat /\ DOMAIN pending'[p] # {}
            BY <1>1, SubmitEffect DEF TypeOK
          <6> QED
            BY <6>1, LeastOfNaturals
        <5> QED
          BY <5>1 DEF NextAction
      <4>2. CASE NextAction(p)' = id
        BY <4>2, SubmitEffect DEF Blocked
      <4>3. CASE NextAction(p)' # id
        <5>1. NextAction(p)' \in DOMAIN pending[p] /\ \A i \in DOMAIN pending[p] : NextAction(p)' <= i
          BY <4>1, <4>3, SubmitEffect
        <5>2. NextAction(p) \in DOMAIN pending[p] /\ \A i \in DOMAIN pending[p] : NextAction(p) <= i
          BY <5>1, NextActionLeast
        <5>3. NextAction(p)' = NextAction(p)
          <6>1. NextAction(p) \in Nat /\ NextAction(p)' \in Nat
            BY <1>1, <5>1, <5>2 DEF TypeOK
          <6> QED
            BY <5>1, <5>2, <6>1
        <5>4. Blocked(p)
          BY <1>0, <5>1 DEF Timely, TimelyOf
        <5> QED
          BY <1>0, <5>2, <5>3, <5>4, SubmitEffect DEF Blocked
      <4> QED
        BY <4>2, <4>3
    <3> QED
      BY <2>2, <3>1, <3>2, <3>3, SubmitEffect
  <2> QED
    BY <2>1, <2>2
<1>7. Holdup'
  <2> SUFFICES ASSUME NEW q \in Players, NEW i \in DOMAIN pending'[q], pending'[q][i].held
               PROVE  HoldOf(q, i, pending[q][i])'
    BY DEF Holdup, HoldsOf
  <2>1. CASE q # p
    <3>1. accepted'[q] = accepted[q] /\ pending'[q] = pending[q]
      BY <2>1, SubmitEffect
    <3>2. HoldOf(q, i, pending[q][i])
      BY <3>1 DEF Holdup, HoldsOf
    <3>3. Latest(accepted[q], i)' = Latest(accepted[q], i)
      BY <3>1 DEF Latest, Newest, UpTo
    <3> HIDE DEF IInv
    <3> QED
      BY <1>0, <3>1, <3>2, <3>3 DEF HoldOf
  <2>2. CASE q = p
    <3>1. i # id /\ i \in DOMAIN pending[p] /\ pending'[p][i] = pending[p][i]
      BY <2>2, SubmitEffect
    <3>2. HoldOf(p, i, pending[p][i])
      BY <2>2, <3>1 DEF Holdup, HoldsOf
    <3>3. i \in DOMAIN accepted[p] /\ i \in DOMAIN accepted'[p] /\ i \in Nat
      BY <3>1, SubmitEffect, <1>1 DEF TypeOK
    <3>4. /\ DOMAIN accepted[p] \subseteq DOMAIN accepted'[p] /\ DOMAIN accepted'[p] \subseteq 1..MaxActions
          /\ \A j \in DOMAIN accepted[p] : accepted'[p][j] = accepted[p][j]
          /\ \A j \in DOMAIN accepted'[p] : accepted'[p][j] \in 0..(tick + 1)
      BY SubmitEffect
    <3>5. id \in DOMAIN accepted'[p] /\ accepted'[p][id] = tick + 1 /\ tick + 1 \in Nat
      BY <1>1, SubmitEffect
    <3>6. pending[p][i].holdUntil \in Nat /\ combat[p].next \in Nat
      BY <3>1 DEF TypeOK, Entries, Combats
    <3>7. DOMAIN pending'[p] = DOMAIN pending[p] \cup {id}
      BY SubmitEffect
    <3> HIDE DEF IInv
    <3>8. /\ Latest(accepted[p], i) \in Nat /\ Latest(accepted'[p], i) \in Nat
          /\ Latest(accepted[p], i) <= Latest(accepted'[p], i)
      BY <3>3, <3>4, <3>5, DeadlineGrows
    <3>9. id < i => tick + 1 + MaxShotStepLead <= Latest(accepted'[p], i)
      <4>1. Newest(accepted'[p], i) \in Nat /\ \A j \in UpTo(accepted'[p], i) : accepted'[p][j] <= Newest(accepted'[p], i)
        BY <3>3, <3>4, <3>5, DeadlineAfter
      <4>2. id < i => id \in UpTo(accepted'[p], i)
        BY <3>3, <3>5 DEF UpTo
      <4> QED
        BY <1>1, <3>5, <4>1, <4>2 DEF Latest
    <3>10. pending[p][i].holdUntil <= tick + HoldLimit
      BY <3>2 DEF HoldOf
    <3>11. id < i => pending[p][i].holdUntil <= Latest(accepted'[p], i)
      BY <1>1, <3>6, <3>8, <3>9, <3>10, HoldIsNat
    <3>12. \A l \in Nat : l = Latest(accepted[p], i) /\ pending[p][i].holdUntil <= l
                           => pending[p][i].holdUntil <= Latest(accepted'[p], i)
      BY <3>6, <3>8
    <3> QED
      BY <1>0, <2>2, <3>1, <3>2, <3>7, <3>8, <3>11, <3>12 DEF HoldOf
  <2> QED
    BY <2>1, <2>2
<1> QED
  BY <1>2, <1>3, <1>4, <1>5, <1>6, <1>7

-----------------------------------------------------------------------------
(* Begin.                                                                  *)

\* What Begin does to the entries: none comes or goes, one that was due stays due, and one
\* that has waited for its lead becomes due.
LEMMA BeginEffect ==
  ASSUME TypeOK, Columns, Begin
  PROVE  /\ DOMAIN pending' = Players
         /\ \A p \in Players :
              /\ DOMAIN pending'[p] = DOMAIN pending[p]
              /\ \A id \in DOMAIN pending[p] :
                   LET e == pending[p][id] f == pending'[p][id]
                   IN /\ f \in Entries /\ f.held = e.held /\ f.holdUntil = e.holdUntil
                      /\ e.due => f.due
                      /\ ~f.due => ~(tick' - accepted[p][id] >= MaxShotStepLead)
<1>1. PICK movement \in [Players -> {"advanced", "still", "restarted"}] :
        pending' = [p \in Players |-> [id \in DOMAIN pending[p] |->
          LET e == [pending[p][id] EXCEPT !.ahead =
                     IF accepted[p][id] = tick' THEN @ ELSE Moved(@, movement[p])]
          IN [e EXCEPT !.due = @ \/ ActionDue(tick', body'[p].generation, e, accepted[p][id])]]]
  BY DEF Begin
<1> SUFFICES ASSUME NEW p \in Players, NEW id \in DOMAIN pending[p]
             PROVE  LET e == pending[p][id] f == pending'[p][id]
                    IN /\ f \in Entries /\ f.held = e.held /\ f.holdUntil = e.holdUntil
                       /\ e.due => f.due
                       /\ ~f.due => ~(tick' - accepted[p][id] >= MaxShotStepLead)
  BY <1>1
<1> DEFINE e == pending[p][id]
           moved == IF accepted[p][id] = tick' THEN e.ahead ELSE Moved(e.ahead, movement[p])
           m == [e EXCEPT !.ahead = moved]
           isDue == ActionDue(tick', body'[p].generation, m, accepted[p][id])
<1>2. e \in Entries
  BY DEF TypeOK
<1>3. moved \in 0..MaxShotStepLead
  <2>1. e.ahead \in 0..MaxShotStepLead /\ MaxShotStepLead \in Nat
    BY <1>2, RulesAssumption DEF Entries
  <2>2. movement[p] \in {"advanced", "still", "restarted"}
    OBVIOUS
  <2> QED
    BY <2>1, <2>2 DEF Moved
<1>4. pending'[p][id] = [m EXCEPT !.due = @ \/ isDue]
  BY <1>1
<1>5. m \in Entries /\ m.held = e.held /\ m.holdUntil = e.holdUntil /\ m.due = e.due
  BY <1>2, <1>3 DEF Entries
<1>6. isDue \in BOOLEAN /\ (tick' - accepted[p][id] >= MaxShotStepLead => isDue)
  BY DEF ActionDue
<1> HIDE DEF e, m, isDue, moved
<1>7. pending'[p][id] \in Entries
  BY <1>4, <1>5, <1>6 DEF Entries
<1>8. pending'[p][id].due = (e.due \/ isDue)
  BY <1>4, <1>5 DEF Entries
<1>9. pending'[p][id].held = e.held /\ pending'[p][id].holdUntil = e.holdUntil
  BY <1>4, <1>5 DEF Entries
<1> QED
  BY <1>6, <1>7, <1>8, <1>9 DEF e

\* Without its reload the columns keep their types and the other columns their values.
Others == {"generation", "hp", "ammo", "next", "lastShot", "lastShotTick", "damaged", "hits", "attacker", "part"}

LEMMA NotReloadingType ==
  ASSUME NEW c \in Combats
  PROVE  /\ NotReloading(c) \in Combats
         /\ NotReloading(c).reload = 0 /\ NotReloading(c).reloadStart = 0 /\ NotReloading(c).reloadEnd = 0
         /\ \A f \in Others : NotReloading(c)[f] = c[f]
<1> DEFINE d == NotReloading(c)
<1>1. 0 \in 0..MaxActions /\ 0 \in Nat
  BY RulesAssumption
<1>2. c \in Combats /\ d = [c EXCEPT !.reload = 0, !.reloadStart = 0, !.reloadEnd = 0]
  BY DEF NotReloading
<1>3. d \in Combats /\ d.reload = 0 /\ d.reloadStart = 0 /\ d.reloadEnd = 0
  <2> HIDE DEF d
  <2> QED
    BY <1>1, <1>2 DEF Combats
<1>4. \A f \in Others : d[f] = c[f]
  <2> HIDE DEF d
  <2> QED
    BY <1>2 DEF Combats, Others
<1> QED
  BY <1>3, <1>4

\* Begin: a respawn starts a consistent life, a due reload ends, and every player's next action,
\* blocked until now, gets its turn in time.
LEMMA BeginKeeps ==
  ASSUME IInv, Begin
  PROVE  IInv'
<1> USE DEF IInv
<1>0. /\ accepted' = accepted /\ Idle /\ waiting' = {} /\ tick < MaxTick /\ tick' = tick + 1
      /\ slots' = {<<accepted[x[1]][x[2]], x[1], x[2]>> : x \in ActionsOf(pending)}
  BY DEF Begin
<1>1. /\ tick \in 0..MaxTick /\ MaxTick \in Nat /\ tick \in Nat /\ tick' = tick + 1 /\ tick' \in 0..MaxTick
      /\ MaxShotStepLead \in Nat \ {0} /\ MaxActions \in Nat /\ MaximumHp \in Nat \ {0} /\ MagazineCapacity \in Nat
      /\ accepted' = accepted /\ Idle /\ waiting' = {}
  BY <1>0, RulesAssumption DEF TypeOK
<1>2. PICK respawned \in SUBSET {p \in Players : ~body[p].alive /\ tick' >= body[p].respawn} :
        body' = Reborn(tick', respawned) /\ combat' = Reloaded(tick', respawned)
  BY DEF Begin
<1>3. ASSUME NEW p \in Players
      PROVE  /\ body'[p] \in Bodies /\ combat'[p] \in Combats
             /\ LifeOf(body[p], combat[p], p, tick) => LifeOf(body'[p], combat'[p], p, tick')
  <2>1. body[p] \in Bodies /\ combat[p] \in Combats
    BY DEF TypeOK
  <2>2. CASE p \in respawned
    <3>1. /\ body'[p] = [alive |-> TRUE, generation |-> body[p].generation + 1, since |-> tick', respawn |-> 0]
          /\ combat'[p] = Fresh(body[p].generation + 1)
      BY <1>2, <2>2 DEF Reborn, Reloaded
    <3>2. body'[p] \in Bodies
      BY <1>1, <2>1, <3>1 DEF Bodies
    <3>3. combat'[p] \in Combats
      BY <1>1, <2>1, <3>1 DEF Fresh, Bodies, Combats
    <3>4. LifeOf(body'[p], combat'[p], p, tick')
      BY <1>1, <3>1 DEF Fresh, LifeOf
    <3> QED
      BY <3>2, <3>3, <3>4
  <2>3. CASE p \notin respawned
    <3>1. body'[p] = body[p]
      BY <1>2, <2>3 DEF Reborn
    <3>2. CASE body[p].alive /\ combat[p].reload # 0 /\ tick' >= combat[p].reloadEnd
      <4>1. combat'[p] = [NotReloading(combat[p]) EXCEPT !.ammo = MagazineCapacity]
        BY <1>2, <2>3, <3>2 DEF Reloaded
      <4>2. combat'[p] \in Combats
        BY <1>1, <2>1, <4>1, NotReloadingType DEF Combats
      <4>3. LifeOf(body[p], combat[p], p, tick) => LifeOf(body[p], combat'[p], p, tick')
        <5>1. /\ NotReloading(combat[p]) \in Combats /\ \A f \in Others : NotReloading(combat[p])[f] = combat[p][f]
              /\ NotReloading(combat[p]).reload = 0 /\ NotReloading(combat[p]).reloadStart = 0
              /\ NotReloading(combat[p]).reloadEnd = 0
          BY <2>1, NotReloadingType
        <5> HIDE DEF IInv
        <5>2. /\ \A f \in Others \ {"ammo"} : combat'[p][f] = combat[p][f]
              /\ combat'[p].reload = 0 /\ combat'[p].reloadStart = 0 /\ combat'[p].reloadEnd = 0
          BY <4>1, <5>1 DEF Combats, Others
        <5> QED
          BY <1>1, <2>1, <5>2 DEF Bodies, Combats, LifeOf, Others
      <4> QED
        BY <2>1, <3>1, <4>2, <4>3
    <3>3. CASE ~(body[p].alive /\ combat[p].reload # 0 /\ tick' >= combat[p].reloadEnd)
      <4>1. combat'[p] = combat[p]
        BY <1>2, <2>3, <3>3 DEF Reloaded
      <4>2. LifeOf(body[p], combat[p], p, tick) => LifeOf(body[p], combat[p], p, tick')
        BY <1>1, <2>1, <3>3 DEF Bodies, Combats, LifeOf
      <4> QED
        BY <2>1, <3>1, <4>1, <4>2
    <3> QED
      BY <3>2, <3>3
  <2> QED
    BY <2>2, <2>3
<1>4. /\ DOMAIN pending' = Players
      /\ \A p \in Players : DOMAIN pending'[p] = DOMAIN pending[p]
  BY BeginEffect
<1>5. TypeOK'
  <2>1. body' \in [Players -> Bodies] /\ combat' \in [Players -> Combats]
    BY <1>2, <1>3 DEF Reborn, Reloaded
  <2>2. ASSUME NEW p \in Players
        PROVE  /\ DOMAIN pending'[p] \subseteq DOMAIN accepted'[p] /\ DOMAIN accepted'[p] \subseteq 1..MaxActions
               /\ \A id \in DOMAIN accepted'[p] : accepted'[p][id] \in 1..(tick' + 1)
               /\ \A id \in DOMAIN pending'[p] : pending'[p][id] \in Entries
    BY <1>1, BeginEffect DEF TypeOK
  <2>3. \A s \in slots' : s[2] \in Players /\ s[3] \in DOMAIN accepted'[s[2]]
    BY <1>0, <1>1 DEF ActionsOf, TypeOK
  <2> QED
    BY <1>1, <2>1, <2>2, <2>3 DEF TypeOK
<1>6. Columns'
  BY <1>1, <1>4 DEF Columns
<1>7. ASSUME NEW p \in Players
      PROVE  /\ SlotsOf(p)' = {<<accepted[p][id], p, id>> : id \in DOMAIN pending[p]}
             /\ IsFiniteSet(SlotsOf(p)') /\ Cardinality(SlotsOf(p)') = Cardinality(DOMAIN pending'[p])
  <2>1. DOMAIN pending[p] \subseteq 1..MaxActions
    BY DEF TypeOK
  <2>2. SlotsOf(p)' = {<<accepted[p][id], p, id>> : id \in DOMAIN pending[p]}
    <3>1. ASSUME NEW x \in SlotsOf(p)'
          PROVE  \E id \in DOMAIN pending[p] : x = <<accepted[p][id], p, id>>
      <4>1. PICK y \in ActionsOf(pending) : x = <<accepted[y[1]][y[2]], y[1], y[2]>>
        BY <1>0, <3>1 DEF SlotsOf
      <4>2. y[1] = p
        BY <3>1, <4>1 DEF SlotsOf
      <4>3. y[2] \in DOMAIN pending[p]
        BY <4>1, <4>2 DEF ActionsOf
      <4> QED
        BY <4>1, <4>2, <4>3
    <3>2. ASSUME NEW id \in DOMAIN pending[p]
          PROVE  <<accepted[p][id], p, id>> \in SlotsOf(p)'
      <4>1. <<p, id>> \in ActionsOf(pending)
        BY <2>1 DEF ActionsOf
      <4> QED
        BY <1>0, <4>1 DEF SlotsOf
    <3> QED
      BY <3>1, <3>2
  <2> DEFINE f == [id \in DOMAIN pending[p] |-> <<accepted[p][id], p, id>>]
  <2>3. f \in Bijection(DOMAIN pending[p], SlotsOf(p)')
    BY <2>2 DEF Bijection, Injection, Surjection, IsInjective
  <2>4. ExistsBijection(DOMAIN pending[p], SlotsOf(p)')
    BY <2>3 DEF ExistsBijection
  <2> QED
    BY <1>4, <2>2, <2>4, PendingFinite, FS_Bijection
<1>8. Visits'
  BY <1>1, <1>7 DEF Visits
<1>9. Lives'
  BY <1>3 DEF Lives
<1>11. \A p \in Players : combat'[p].next <= combat[p].next
  <2> SUFFICES ASSUME NEW p \in Players PROVE combat'[p].next <= combat[p].next
    OBVIOUS
  <2>1. combat[p] \in Combats /\ combat[p].next \in Nat
    BY DEF TypeOK, Combats
  <2>2. CASE p \in respawned
    BY <1>2, <2>1, <2>2 DEF Reloaded, Fresh
  <2>3. CASE p \notin respawned
    <3>1. combat'[p] = combat[p] \/ combat'[p] = [NotReloading(combat[p]) EXCEPT !.ammo = MagazineCapacity]
      BY <1>2, <2>3 DEF Reloaded
    <3>2. NotReloading(combat[p]) \in Combats /\ NotReloading(combat[p]).next = combat[p].next
      BY <2>1, NotReloadingType DEF Others
    <3>3. combat'[p].next = combat[p].next
      BY <3>1, <3>2 DEF Combats
    <3> QED
      BY <2>1, <3>3
  <2> QED
    BY <2>2, <2>3
<1>10. Timely'
  <2> SUFFICES ASSUME NEW p \in Players
               PROVE  /\ \A id \in DOMAIN pending'[p] : OnTime(p, id)'
                      /\ DOMAIN pending'[p] # {} => Blocked(p)' \/ (~Idle' /\ OnTurn(p)')
    BY <1>1 DEF Timely, TimelyOf
  <2>0. accepted' = accepted /\ \A id \in DOMAIN accepted[p] : accepted[p][id] \in 1..(tick + 1)
    BY <1>1 DEF TypeOK
  <2>1. ASSUME NEW id \in DOMAIN pending[p]
        PROVE  OnTime(p, id)'
    <3>1. InTime(pending[p][id], accepted[p][id], Deadline(accepted[p], id))
      BY DEF Timely, TimelyOf, OnTime
    <3>2. accepted[p][id] \in Nat
      BY <1>1, <2>0 DEF TypeOK
    <3>3. ~pending'[p][id].due => tick' < accepted[p][id] + MaxShotStepLead
      BY <1>1, <3>2, BeginEffect
    <3>4. /\ pending'[p][id].held = pending[p][id].held
          /\ pending'[p][id].holdUntil = pending[p][id].holdUntil
          /\ pending[p][id].due => pending'[p][id].due
      BY BeginEffect
    <3> QED
      BY <2>0, <3>1, <3>3, <3>4 DEF OnTime, InTime
  <2>2. ASSUME DOMAIN pending[p] # {}
        PROVE  Blocked(p)' \/ (~Idle' /\ OnTurn(p)')
    <3>1. PICK n \in DOMAIN pending[p] : n = NextAction(p) /\ n \in DOMAIN accepted[p]
      BY <2>2, NextActionLeast DEF TypeOK
    <3>2. ~Idle'
      <4>1. <<accepted[p][n], p, n>> \in SlotsOf(p)'
        BY <1>7, <3>1
      <4> QED
        BY <4>1 DEF SlotsOf, Idle
    <3>3. NextAction(p)' = n
      BY <1>4, <3>1 DEF NextAction
    <3>4. PICK d \in Nat, l \in Nat :
            /\ d = Deadline(accepted[p], n) /\ l = Latest(accepted[p], n)
            /\ accepted[p][n] + MaxShotStepLead <= l /\ l + HoldLimit <= d
      <4>1. DOMAIN accepted[p] \subseteq 1..MaxActions /\ \A i \in DOMAIN accepted[p] : accepted[p][i] \in 0..(tick + 1)
        BY <1>1 DEF TypeOK
      <4> HIDE DEF IInv
      <4> QED
        BY <1>1, <3>1, <4>1, DeadlineAfter
    <3>5. Blocked(p) /\ InTime(pending[p][n], accepted[p][n], d)
      BY <1>1, <3>1, <3>4 DEF Timely, TimelyOf, OnTime
    <3>6. pending[p][n] \in Entries /\ accepted[p][n] \in Nat
      BY <1>1, <2>0, <3>1 DEF TypeOK
    <3>7. /\ pending'[p][n].held = pending[p][n].held /\ pending[p][n].held \in BOOLEAN
          /\ pending'[p][n].holdUntil = pending[p][n].holdUntil
          /\ pending[p][n].due \in BOOLEAN /\ pending[p][n].holdUntil \in Nat
      BY <3>1, <3>6, BeginEffect DEF Entries
    <3>8. CASE pending[p][n].held
      <4>1. tick' <= pending[p][n].holdUntil /\ pending[p][n].holdUntil <= d
        BY <1>1, <3>1, <3>4, <3>5, <3>7, <3>8 DEF InTime, Blocked
      <4>2. CASE tick' < pending[p][n].holdUntil
        BY <3>1, <3>3, <3>7, <4>2 DEF Blocked
      <4>3. CASE tick' = pending[p][n].holdUntil
        <5>1. HoldOf(p, n, pending[p][n])
          BY <3>1, <3>8 DEF Holdup, HoldsOf
        <5>2. combat'[p].next \in Nat /\ combat[p].next \in Nat /\ combat'[p].next <= combat[p].next
          BY <1>3, <1>11 DEF Combats, TypeOK
        <5>3. combat'[p].next <= tick' \/ tick' <= l
          BY <1>1, <3>4, <4>3, <5>1, <5>2 DEF HoldOf
        <5>4. Spent(p)' \/ tick' + HoldLimit <= d
          <6>1. CASE Slow
            BY <1>1, <3>4, <5>3, <6>1, HoldIsNat DEF Spent, Slow
          <6>2. CASE ~Slow
            BY <3>3, <3>7, <3>8, <6>2 DEF Spent, Slow
          <6> QED
            BY <6>1, <6>2
        <5> QED
          BY <2>0, <3>2, <3>3, <3>4, <4>1, <4>3, <5>4 DEF OnTurn
      <4> QED
        BY <1>1, <3>7, <4>1, <4>2, <4>3
    <3>9. CASE ~pending[p][n].held
      <4>1. tick < accepted[p][n] + MaxShotStepLead
        BY <1>1, <3>1, <3>5, <3>7, <3>9 DEF InTime, Blocked
      <4>2. tick' + HoldLimit <= d /\ tick' <= d
        BY <1>1, <3>4, <3>6, <4>1, HoldIsNat
      <4> QED
        BY <2>0, <3>2, <3>3, <3>4, <4>2 DEF OnTurn
    <3> QED
      BY <3>8, <3>9
  <2> QED
    BY <1>4, <2>1, <2>2
<1>12. Holdup'
  <2> SUFFICES ASSUME NEW p \in Players, NEW id \in DOMAIN pending'[p], pending'[p][id].held
               PROVE  HoldOf(p, id, pending[p][id])'
    BY DEF Holdup, HoldsOf
  <2>1. /\ id \in DOMAIN pending[p] /\ DOMAIN pending'[p] = DOMAIN pending[p]
        /\ pending[p][id].held /\ pending'[p][id].holdUntil = pending[p][id].holdUntil
    BY BeginEffect
  <2>2. HoldOf(p, id, pending[p][id])
    BY <2>1 DEF Holdup, HoldsOf
  <2>3. pending[p][id].holdUntil \in Nat
    BY <2>1 DEF TypeOK, Entries
  <2>4. combat'[p].next \in Nat /\ combat[p].next \in Nat /\ combat'[p].next <= combat[p].next
    BY <1>3, <1>11 DEF Combats, TypeOK
  <2>5. pending'[p][id].holdUntil <= tick' + HoldLimit
    BY <1>1, <2>1, <2>2, <2>3, HoldIsNat DEF HoldOf
  <2>6. combat'[p].next <= pending'[p][id].holdUntil \/ pending[p][id].holdUntil <= Latest(accepted[p], id)
    BY <2>1, <2>2, <2>3, <2>4 DEF HoldOf
  <2> QED
    BY <1>1, <2>1, <2>2, <2>5, <2>6 DEF HoldOf
<1> QED
  BY <1>5, <1>6, <1>8, <1>9, <1>10, <1>12

-----------------------------------------------------------------------------
(* The ledger's side of a turn: entries, slots and deadlines.              *)

\* What a turn leaves of the ledger.
LEMMA TurnEntries ==
  ASSUME TypeOK, Columns, Visits, NEW s \in slots, Decides(s) \/ Keeps(s) \/ Postpones(s)
  PROVE  /\ UNCHANGED <<tick, accepted>> /\ Columns'
         /\ slots' \subseteq slots /\ waiting' \subseteq Players
         /\ \A q \in Players :
              /\ DOMAIN pending'[q] \subseteq DOMAIN pending[q]
              /\ \A id \in DOMAIN pending'[q] : pending'[q][id] \in Entries
<1> DEFINE p == s[2]
<1>1. /\ p \in Players /\ UNCHANGED <<tick, accepted>>
      /\ slots' \subseteq slots /\ waiting' \subseteq Players
  BY DEF TypeOK, Decides, Keeps, Postpones, Turn
<1>2. CASE Decides(s)
  BY <1>1, <1>2, DecidedTakes DEF Decides, TypeOK, Columns
<1>3. CASE Keeps(s)
  BY <1>1, <1>3 DEF Keeps, TypeOK, Columns
<1>4. CASE Postpones(s)
  <2>1. DOMAIN pending[p] # {}
    BY <1>4, OnePending DEF Postpones, Ready
  <2>2. combat[p].next \in Nat /\ NextAction(p) \in DOMAIN pending[p]
    BY <1>1, <2>1, NextActionLeast DEF TypeOK, Combats
  <2>3. pending'[p][NextAction(p)] \in Entries
    <3>1. pending'[p][NextAction(p)] =
            [pending[p][NextAction(p)] EXCEPT !.held = TRUE, !.holdUntil = combat[p].next]
      BY <1>1, <1>4, <2>1, HeldKeeps DEF Postpones
    <3>2. pending[p][NextAction(p)] \in Entries
      BY <1>1, <2>2 DEF TypeOK
    <3> QED
      BY <2>2, <3>1, <3>2 DEF Entries
  <2>4. /\ DOMAIN pending' = Players
        /\ DOMAIN pending'[p] = DOMAIN pending[p]
        /\ \A id \in DOMAIN pending[p] \ {NextAction(p)} : pending'[p][id] = pending[p][id]
        /\ \A q \in Players \ {p} : pending'[q] = pending[q]
    BY <1>1, <1>4, <2>1, HeldKeeps DEF Postpones
  <2> QED
    BY <1>1, <2>3, <2>4 DEF TypeOK, Columns
<1> QED
  BY <1>2, <1>3, <1>4

\* A waiting player stays one until the slots are at their end, and is then seen as blocked;
\* every other has its turn.
LEMMA TimelyFrom ==
  ASSUME NEW p \in Players,
         \A id \in DOMAIN pending'[p] : OnTime(p, id)',
         (slots' = {} \/ p \in waiting') /\ DOMAIN pending'[p] # {} => Blocked(p)',
         slots' # {} /\ p \notin waiting' /\ DOMAIN pending'[p] # {} => Blocked(p)' \/ OnTurn(p)'
  PROVE  TimelyOf(p)'
  BY DEF TimelyOf, Idle

\* A player whose slot it is not.
LEMMA TurnOfAnother ==
  ASSUME IInv, NEW s \in slots, Decides(s) \/ Keeps(s) \/ Postpones(s), Cools(s),
         NEW q \in Players, q # s[2]
  PROVE  TimelyOf(q)'
<1> USE DEF IInv
<1>1. s[2] \in Players /\ tick' = tick /\ accepted' = accepted /\ slots # {}
  BY TurnEntries DEF TypeOK
<1>2. pending'[q] = pending[q]
  <2>1. CASE Decides(s)
    BY <1>1, <2>1, DecidedTakes DEF Decides
  <2>2. CASE Keeps(s)
    BY <2>2 DEF Keeps
  <2>3. CASE Postpones(s)
    BY <1>1, <2>3 DEF Postpones, Held, Columns
  <2> QED
    BY <2>1, <2>2, <2>3
<1>3. NextAction(q)' = NextAction(q)
  BY <1>2 DEF NextAction
<1>4. (Blocked(q) => Blocked(q)') /\ (OnTurn(q) => OnTurn(q)')
  <2>1. combat'[q].next = combat[q].next
    BY DEF Cools
  <2>2. Spent(q) => Spent(q)'
    BY <1>1, <1>2, <1>3, <2>1 DEF Spent, Slow
  <2> QED
    BY <1>1, <1>2, <1>3, <2>2 DEF Blocked, OnTurn
<1>5. slots' # {} => (q \in waiting' <=> q \in waiting)
  BY DEF Decides, Keeps, Postpones, Turn
<1>6. slots' = {} => waiting' = {} /\ (DOMAIN pending'[q] # {} => q \in waiting)
  BY TurnVisits DEF Visits
<1>7. DOMAIN pending[q] # {} => Blocked(q) \/ (q \notin waiting /\ OnTurn(q))
  BY DEF Timely, TimelyOf
<1>8. \A id \in DOMAIN pending'[q] : OnTime(q, id)'
  BY <1>1, <1>2 DEF Timely, TimelyOf, OnTime, InTime
<1>9. (slots' = {} \/ q \in waiting') /\ DOMAIN pending'[q] # {} => Blocked(q)'
  BY <1>2, <1>4, <1>5, <1>6, <1>7
<1>10. slots' # {} /\ q \notin waiting' /\ DOMAIN pending'[q] # {} => Blocked(q)' \/ OnTurn(q)'
  BY <1>2, <1>4, <1>5, <1>7
<1> QED
  BY <1>8, <1>9, <1>10, TimelyFrom

\* The player whose slot it is: a decision passes its time on to the next action, a hold
\* takes the time it may.
LEMMA TurnOfOne ==
  ASSUME IInv, NEW s \in slots, Decides(s) \/ Keeps(s) \/ Postpones(s), Cools(s),
         NEW p \in Players, p = s[2]
  PROVE  TimelyOf(p)'
<1> USE DEF IInv
<1>1. /\ tick' = tick /\ accepted' = accepted /\ slots # {}
      /\ tick \in Nat /\ MaxShotStepLead \in Nat
  BY TurnEntries, RulesAssumption DEF TypeOK
<1>2. \A id \in DOMAIN pending[p] : id \in DOMAIN accepted[p] /\ pending[p][id] \in Entries
  BY DEF TypeOK
<1>3. \A id \in DOMAIN pending[p] : OnTime(p, id)
  BY DEF Timely, TimelyOf
<1>4. DOMAIN accepted[p] \subseteq 1..MaxActions /\ \A i \in DOMAIN accepted[p] : accepted[p][i] \in 0..(tick + 1)
  BY <1>1 DEF TypeOK
<1>5. \A id \in DOMAIN accepted[p] : Deadline(accepted[p], id) \in Nat
  <2>1. tick + 1 \in Nat
    BY <1>1
  <2> HIDE DEF IInv
  <2> QED
    BY <1>4, <2>1, DeadlineAfter
<1>6. CASE Keeps(s)
  <2>1. pending' = pending /\ NextAction(p)' = NextAction(p) /\ ~Ready(p)
    BY <1>6 DEF Keeps, NextAction
  <2>2. \A id \in DOMAIN pending'[p] : OnTime(p, id)'
    BY <1>1, <1>3, <2>1 DEF OnTime, InTime
  <2>3. slots' # {} => p \in waiting'
    BY <1>6 DEF Keeps, Turn
  <2>4. ASSUME DOMAIN pending[p] # {}
        PROVE  Blocked(p)
    <3>1. CASE p \in waiting
      BY <1>1, <2>4, <3>1 DEF Timely, TimelyOf
    <3>2. CASE p \notin waiting
      <4>1. pending[p][NextAction(p)].holdUntil \in Nat
        BY <1>2, <2>4, NextActionLeast DEF Entries
      <4> QED
        BY <1>1, <2>1, <3>2, <4>1 DEF Blocked, Ready
    <3> QED
      BY <3>1, <3>2
  <2>5. DOMAIN pending'[p] # {} => Blocked(p)'
    BY <1>1, <2>1, <2>4 DEF Blocked
  <2> QED
    BY <2>2, <2>3, <2>5, TimelyFrom
<1>7. ASSUME Ready(p), DOMAIN pending[p] # {}, Decides(s) \/ Postpones(s)
      PROVE  TimelyOf(p)'
  <2>1. PICK n \in DOMAIN pending[p] : n = NextAction(p) /\ \A id \in DOMAIN pending[p] : n <= id
    BY <1>7, NextActionLeast
  <2>2. PICK d \in Nat : d = Deadline(accepted[p], n)
    BY <1>2, <1>5, <2>1
  <2>3. p \notin waiting /\ pending[p][n].due
    BY <1>7, <2>1 DEF Ready
  <2>4. tick <= d /\ (Spent(p) \/ tick + HoldLimit <= d)
    <3>1. ~Blocked(p)
      <4>1. pending[p][n].holdUntil \in Nat
        BY <1>2 DEF Entries
      <4> QED
        BY <1>1, <1>7, <2>1, <4>1 DEF Ready, Blocked
    <3>2. OnTurn(p)
      BY <1>7, <3>1 DEF Timely, TimelyOf
    <3> QED
      BY <2>1, <2>2, <3>2 DEF OnTurn
  <2>12. combat[p].next \in Nat
    BY DEF TypeOK, Combats
  <2>5. CASE Decides(s)
    <3>1. /\ DOMAIN pending'[p] = DOMAIN pending[p] \ {n}
          /\ \A id \in DOMAIN pending'[p] : pending'[p][id] = pending[p][id]
      BY <2>1, <2>5, DecidedTakes DEF Decides
    <3>2. \A id \in DOMAIN pending'[p] : OnTime(p, id)'
      BY <1>1, <1>3, <3>1 DEF OnTime, InTime
    <3>3. slots' = {} => DOMAIN pending'[p] = {}
      <4>1. ~Keeps(s) /\ ~Postpones(s)
        BY <1>7, <2>1, <2>5, <3>1, HeldKeeps DEF Keeps, Postpones
      <4> QED
        BY <2>3, <4>1, TurnVisits
    <3>4. p \notin waiting'
      BY <2>3, <2>5 DEF Decides, Turn
    <3>5. ASSUME DOMAIN pending'[p] # {}
          PROVE  OnTurn(p)'
      <4>1. PICK k \in DOMAIN pending'[p] : k = NextAction(p)'
        <5>1. DOMAIN pending'[p] \subseteq Nat
          BY <1>2, <1>4, <3>1, RulesAssumption
        <5>2. \E x \in DOMAIN pending'[p] : \A y \in DOMAIN pending'[p] : x <= y
          BY <3>5, <5>1, LeastOfNaturals
        <5> QED
          BY <5>2 DEF NextAction
      <4>2. k \in DOMAIN pending[p] /\ k # n /\ n <= k /\ k \in DOMAIN accepted[p] /\ n \in DOMAIN accepted[p]
        BY <1>2, <2>1, <3>1
      <4>3. PICK h \in Nat : h = Deadline(accepted[p], k) /\ d <= h /\ (~Slow => d + HoldLimit <= h)
        <5>1. tick + 1 \in Nat
          BY <1>1
        <5> HIDE DEF IInv
        <5> QED
          BY <1>4, <2>2, <4>2, <5>1, DeadlineGrows
      <4>4. Slow /\ Spent(p) => Spent(p)'
        <5>1. CASE combat'[p].next = combat[p].next
          BY <1>1, <5>1 DEF Spent, Slow
        <5>2. CASE combat'[p].next = tick + CooldownTicks
          <6>1. Slow => tick + CooldownTicks > tick + HoldLimit
            BY <1>1, HoldIsNat, RulesAssumption
          <6> QED
            BY <1>1, <5>2, <6>1 DEF Spent, Slow
        <5> QED
          BY <5>1, <5>2 DEF Cools
      <4>5. tick <= h /\ (Spent(p)' \/ tick + HoldLimit <= h)
        BY <1>1, <2>4, <4>3, <4>4, HoldIsNat
      <4> QED
        BY <1>1, <4>1, <4>3, <4>5 DEF OnTurn
    <3> QED
      BY <3>2, <3>3, <3>4, <3>5, TimelyFrom
  <2>6. CASE Postpones(s)
    <3>1. /\ DOMAIN pending'[p] = DOMAIN pending[p]
          /\ pending'[p][n] = [pending[p][n] EXCEPT !.held = TRUE, !.holdUntil = combat[p].next]
          /\ \A id \in DOMAIN pending[p] \ {n} : pending'[p][id] = pending[p][id]
      BY <1>7, <2>1, <2>6, HeldKeeps DEF Postpones
    <3>2. NextAction(p)' = n
      BY <2>1, <3>1 DEF NextAction
    <3>3. ~pending[p][n].held /\ tick < combat[p].next /\ combat[p].next - tick <= HoldLimit /\ combat[p].next \in Nat
      BY <2>1, <2>6 DEF Postpones, Holds, TypeOK, Combats
    <3>4. combat[p].next <= d
      <4>1. ~Spent(p)
        BY <1>1, <2>1, <3>3, HoldIsNat DEF Spent
      <4> QED
        BY <1>1, <2>4, <3>3, <4>1, HoldIsNat
    <3>5. pending'[p][n].held /\ pending'[p][n].due /\ pending'[p][n].holdUntil = combat[p].next
      BY <1>2, <2>3, <3>1 DEF Entries
    <3>6. \A id \in DOMAIN pending'[p] : OnTime(p, id)'
      <4>1. OnTime(p, n)'
        BY <1>1, <2>2, <3>4, <3>5 DEF OnTime, InTime
      <4>2. ASSUME NEW id \in DOMAIN pending[p], id # n
            PROVE  OnTime(p, id)'
        BY <1>1, <1>3, <3>1, <4>2 DEF OnTime, InTime
      <4> QED
        BY <3>1, <4>1, <4>2
    <3>7. slots' # {} => p \in waiting'
      BY <2>6 DEF Postpones, Turn
    <3>8. Blocked(p)'
      BY <1>1, <3>2, <3>3, <3>5 DEF Blocked
    <3> QED
      BY <3>6, <3>7, <3>8, TimelyFrom
  <2> QED
    BY <1>7, <2>5, <2>6
<1>8. CASE Decides(s) \/ Postpones(s)
  <2>1. Ready(p)
    BY <1>8 DEF Decides, Postpones
  <2>2. DOMAIN pending[p] # {}
    BY <2>1, OnePending DEF Ready
  <2> QED
    BY <1>7, <1>8, <2>1, <2>2
<1> QED
  BY <1>6, <1>8

\* After every turn every player is in time.
LEMMA TurnTimely ==
  ASSUME IInv, NEW s \in slots, Decides(s) \/ Keeps(s) \/ Postpones(s), Cools(s)
  PROVE  Timely'
<1> SUFFICES ASSUME NEW p \in Players
             PROVE  TimelyOf(p)'
  BY DEF Timely
<1> QED
  BY TurnOfAnother, TurnOfOne

\* And every hold keeps its bounds: a new one ends with the cooldown, and a decision's new
\* cooldown finds only holds that a smaller action has overtaken.
LEMMA TurnHoldup ==
  ASSUME IInv, NEW s \in slots, Decides(s) \/ Keeps(s) \/ Postpones(s), Cools(s)
  PROVE  Holdup'
<1> USE DEF IInv
<1> SUFFICES ASSUME NEW q \in Players, NEW id \in DOMAIN pending'[q], pending'[q][id].held
             PROVE  HoldOf(q, id, pending[q][id])'
  BY DEF Holdup, HoldsOf
<1>1. /\ s[2] \in Players /\ tick' = tick /\ accepted' = accepted /\ tick \in Nat
      /\ Latest(accepted[q], id)' = Latest(accepted[q], id)
  <2>1. s[2] \in Players /\ tick' = tick /\ accepted' = accepted /\ tick \in Nat
    BY TurnEntries, RulesAssumption DEF TypeOK
  <2> QED
    BY <2>1 DEF Latest, Newest, UpTo
<1>2. \A i \in DOMAIN pending[q] : i \in Nat
  <2>1. DOMAIN pending[q] \subseteq 1..MaxActions /\ MaxActions \in Nat
    BY RulesAssumption DEF TypeOK
  <2> QED
    BY <2>1
<1>3. \A i \in DOMAIN pending[q] : pending[q][i].held => HoldOf(q, i, pending[q][i])
  BY DEF Holdup, HoldsOf
<1>4. CASE q # s[2] \/ Keeps(s)
  <2>1. pending'[q] = pending[q]
    BY <1>1, <1>4, DecidedTakes DEF Decides, Keeps, Postpones, Held, Columns
  <2>2. combat'[q].next = combat[q].next
    BY <1>4 DEF Cools, Keeps, Decides
  <2> QED
    BY <1>1, <1>3, <2>1, <2>2 DEF HoldOf
<1>5. CASE q = s[2] /\ Decides(s)
  <2>1. /\ DOMAIN pending'[q] = DOMAIN pending[q] \ {NextAction(q)}
        /\ \A i \in DOMAIN pending'[q] : pending'[q][i] = pending[q][i]
    BY <1>1, <1>5, DecidedTakes DEF Decides
  <2>2. DOMAIN pending[q] # {}
    BY <2>1
  <2>3. NextAction(q) \in DOMAIN pending[q] /\ NextAction(q) < id
    BY <1>2, <2>1, <2>2, NextActionLeast
  <2>4. HoldOf(q, id, pending[q][id])
    BY <1>3, <2>1
  <2> QED
    BY <1>1, <2>1, <2>3, <2>4 DEF HoldOf
<1>6. CASE q = s[2] /\ Postpones(s)
  <2>1. DOMAIN pending[q] # {}
    BY <1>6, OnePending DEF Postpones, Ready
  <2>2. /\ DOMAIN pending'[q] = DOMAIN pending[q]
        /\ pending'[q][NextAction(q)] = [pending[q][NextAction(q)] EXCEPT !.held = TRUE, !.holdUntil = combat[q].next]
        /\ \A i \in DOMAIN pending[q] \ {NextAction(q)} : pending'[q][i] = pending[q][i]
    BY <1>6, <2>1, HeldKeeps DEF Postpones
  <2>3. combat'[q].next = combat[q].next
    <3>1. ~Decides(s)
      <4>1. NextAction(q) \in DOMAIN pending[q]
        BY <2>1, NextActionLeast
      <4>2. ASSUME Decides(s) PROVE FALSE
        <5>1. DOMAIN pending'[q] = DOMAIN pending[q] \ {NextAction(q)}
          BY <1>6, <4>2, DecidedTakes DEF Decides
        <5> QED
          BY <2>2, <4>1, <5>1
      <4> QED
        BY <4>2
    <3> QED
      BY <3>1 DEF Cools
  <2>4. CASE id # NextAction(q)
    BY <1>1, <1>3, <2>2, <2>3, <2>4 DEF HoldOf
  <2>5. CASE id = NextAction(q)
    <3>1. pending[q][id] \in Entries /\ combat[q].next \in Nat
      BY <2>2 DEF TypeOK, Combats
    <3>2. pending'[q][id].holdUntil = combat[q].next
      BY <2>2, <2>5, <3>1 DEF Entries
    <3>3. combat[q].next <= tick + HoldLimit
      <4>1. combat[q].next - tick <= HoldLimit
        BY <1>6 DEF Postpones, Holds
      <4> QED
        BY <1>1, <3>1, <4>1, HoldIsNat
    <3>4. ~\E m \in DOMAIN pending[q] : m < id
      BY <1>2, <2>1, <2>2, <2>5, NextActionLeast
    <3> QED
      BY <1>1, <2>2, <2>3, <3>1, <3>2, <3>3, <3>4 DEF HoldOf
  <2> QED
    BY <2>4, <2>5
<1> QED
  BY <1>4, <1>5, <1>6

-----------------------------------------------------------------------------
(* The players' side of a turn: bodies and combat columns.                 *)

\* An accepted shot leaves its shooter's life as it is.
LEMMA ShotLife ==
  ASSUME NEW b, NEW c \in Combats, NEW p, c.ammo > 0, tick \in Nat, tick > 0, NEW id \in 1..MaxActions
  PROVE  /\ Shot(c, id) \in Combats /\ Shot(c, id).attacker = c.attacker
         /\ LifeOf(b, c, p, tick) => LifeOf(b, Shot(c, id), p, tick)
<1>1. tick + CooldownTicks \in Nat /\ MagazineCapacity \in Nat /\ id \in 0..MaxActions /\ id # 0
  BY RulesAssumption
<1> DEFINE d == Shot(c, id)
           ammo == c.ammo - 1
           next == tick + CooldownTicks
<1>2. ammo \in 0..MagazineCapacity /\ next \in Nat
  BY <1>1 DEF Combats
<1>3. d = [c EXCEPT !.ammo = ammo, !.next = next, !.lastShot = id, !.lastShotTick = tick]
  BY DEF Shot
<1> HIDE DEF d, ammo, next
<1>4. d \in Combats
  BY <1>1, <1>2, <1>3 DEF Combats
<1>5. /\ d.generation = c.generation /\ d.hp = c.hp /\ d.damaged = c.damaged /\ d.hits = c.hits
      /\ d.attacker = c.attacker /\ d.part = c.part
      /\ d.reload = c.reload /\ d.reloadStart = c.reloadStart /\ d.reloadEnd = c.reloadEnd
      /\ d.lastShot = id /\ d.lastShotTick = tick
  BY <1>3 DEF Combats
<1>6. LifeOf(b, c, p, tick) => LifeOf(b, d, p, tick)
  BY <1>1, <1>5 DEF LifeOf
<1> QED
  BY <1>4, <1>5, <1>6 DEF d

\* A hit costs a living player some of its points, and the last of them its life.
LEMMA HurtLife ==
  ASSUME NEW b \in Bodies, NEW c \in Combats, NEW p \in Players, NEW q \in Players, p # q,
         b.alive, c.hp # 0, NEW part \in PartDamages, tick \in 1..MaxTick, LifeOf(b, c, q, tick)
  PROVE  /\ Hurt(c, p, part) \in Combats /\ Hurt(c, p, part).attacker = p
         /\ Damage(c, part) < c.hp => LifeOf(b, Hurt(c, p, part), q, tick)
         /\ Killed(b) \in Bodies
         /\ ~(Damage(c, part) < c.hp) => LifeOf(Killed(b), Hurt(c, p, part), q, tick)
<1> DEFINE damage == Damage(c, part)
           m == Marked(c, p, part)
           d == Hurt(c, p, part)
<1>1. /\ tick + RespawnTicks \in Nat /\ tick + RespawnTicks > tick
      /\ MaximumHp \in Nat /\ MaxTick \in Nat /\ MaxActions \in Nat /\ tick \in Nat
      /\ tick > 0 /\ c.hp \in 0..MaximumHp /\ c.hits \in Nat /\ 0 \notin Players
      /\ part \in 1..MaximumHp /\ part # 0 /\ c.hp \in Nat
  BY RulesAssumption, PlayersAssumption DEF Combats
<1>2. damage \in Nat /\ damage > 0 /\ damage <= c.hp
  BY <1>1 DEF Damage, Least
<1>3. m \in Combats /\ m.hp = c.hp - damage /\ m.damaged = tick /\ m.hits = c.hits + 1 /\ m.attacker = p
      /\ m.part = part /\ m.reload = c.reload /\ m.reloadStart = c.reloadStart /\ m.reloadEnd = c.reloadEnd
      /\ m.generation = c.generation /\ m.lastShot = c.lastShot /\ m.lastShotTick = c.lastShotTick
  <2> DEFINE hp == c.hp - damage
             hits == c.hits + 1
  <2>1. hp \in 0..MaximumHp /\ hits \in Nat /\ tick \in 0..MaxTick
    BY <1>1, <1>2
  <2>2. m = [c EXCEPT !.hp = hp, !.damaged = tick, !.hits = hits, !.attacker = p, !.part = part]
    BY DEF Marked
  <2> HIDE DEF m, hp, hits
  <2>3. m \in Combats
    BY <2>1, <2>2 DEF Combats
  <2>4. /\ m.hp = hp /\ m.damaged = tick /\ m.hits = hits /\ m.attacker = p
        /\ m.part = part /\ m.reload = c.reload /\ m.reloadStart = c.reloadStart /\ m.reloadEnd = c.reloadEnd
        /\ m.generation = c.generation /\ m.lastShot = c.lastShot /\ m.lastShotTick = c.lastShotTick
    BY <2>2 DEF Combats
  <2> QED
    BY <2>3, <2>4 DEF hp, hits
<1>4. d = IF damage = c.hp THEN NotReloading(m) ELSE m
  BY DEF Hurt
<1> HIDE DEF m, d, damage
<1>5. d \in Combats /\ \A f \in Others : d[f] = m[f]
  BY <1>3, <1>4, NotReloadingType
<1>6. /\ d.hp = c.hp - damage /\ d.damaged = tick /\ d.hits = c.hits + 1 /\ d.attacker = p /\ d.part = part
      /\ d.generation = c.generation /\ d.lastShot = c.lastShot /\ d.lastShotTick = c.lastShotTick
  BY <1>3, <1>5 DEF Others
<1>7. damage < c.hp => LifeOf(b, d, q, tick)
  <2>1. damage < c.hp => d.reload = c.reload /\ d.reloadStart = c.reloadStart /\ d.reloadEnd = c.reloadEnd
    BY <1>1, <1>2, <1>3, <1>4
  <2> QED
    BY <1>1, <1>2, <1>6, <2>1 DEF LifeOf
<1>8. /\ Killed(b) \in Bodies /\ ~Killed(b).alive /\ Killed(b).since = tick
      /\ Killed(b).respawn = tick + RespawnTicks /\ Killed(b).generation = b.generation
  <2> DEFINE respawn == tick + RespawnTicks
             k == Killed(b)
  <2>1. k = [b EXCEPT !.alive = FALSE, !.since = tick, !.respawn = respawn]
    BY DEF Killed
  <2>2. respawn \in Nat /\ tick \in 0..MaxTick
    BY <1>1
  <2> HIDE DEF respawn, k
  <2>3. k \in Bodies /\ k.alive = FALSE /\ k.since = tick /\ k.respawn = respawn /\ k.generation = b.generation
    BY <2>1, <2>2 DEF Bodies
  <2> QED
    BY <2>3 DEF k, respawn
<1>9. ~(damage < c.hp) => LifeOf(Killed(b), d, q, tick)
  <2> SUFFICES ASSUME ~(damage < c.hp) PROVE LifeOf(Killed(b), d, q, tick)
    OBVIOUS
  <2>1. damage = c.hp
    BY <1>1, <1>2
  <2>2. d.reload = 0 /\ d.reloadStart = 0 /\ d.reloadEnd = 0
    BY <1>3, <1>4, <2>1, NotReloadingType
  <2>3. d.hp = 0 /\ d.hits + d.hp <= MaximumHp /\ d.hits # 0
    <3>1. c.hits + c.hp <= MaximumHp
      BY DEF LifeOf
    <3> QED
      BY <1>1, <1>2, <1>6, <2>1, <3>1
  <2> QED
    BY <1>1, <1>6, <1>8, <2>2, <2>3 DEF LifeOf
<1> QED
  BY <1>5, <1>6, <1>7, <1>8, <1>9 DEF d, damage

\* The next action of a player whose turn it is has an id.
LEMMA ReadyAction ==
  ASSUME TypeOK, Visits, NEW s \in slots, Ready(s[2])
  PROVE  NextAction(s[2]) \in 1..MaxActions
<1>1. s[2] \in Players /\ DOMAIN pending[s[2]] # {}
  BY OnePending DEF Ready
<1> QED
  BY <1>1, NextActionLeast DEF TypeOK

\* The columns stay typed and every life consistent, whatever the turn decides; and if the turn
\* costs a player its life, whoever hit it is alive.
Unhurt(q) == body'[q] = body[q] /\ combat'[q].attacker = combat[q].attacker
Hurts(p, q) == p # q /\ body[p].alive /\ body'[p] = body[p] /\ combat'[q].attacker = p
Turned ==
  /\ body' \in [Players -> Bodies] /\ combat' \in [Players -> Combats] /\ Lives'
  /\ \A q \in Players : Unhurt(q) \/ \E p \in Players : Hurts(p, q)

LEMMA TurnLives ==
  ASSUME IInv, NEW s \in slots, Wait(s) \/ Hold(s) \/ Reject(s) \/ Reload(s) \/ Miss(s) \/ Hit(s)
  PROVE  Turned
<1> DEFINE p == s[2]
<1>1. /\ p \in Players /\ tick \in 0..MaxTick /\ MaxTick \in Nat /\ tick' = tick /\ tick > 0
      /\ body \in [Players -> Bodies] /\ combat \in [Players -> Combats]
  BY RulesAssumption DEF IInv, TypeOK, Visits, Wait, Hold, Reject, Reload, Miss, Hit, Turn
<1>2. \A q \in Players : LifeOf(body[q], combat[q], q, tick)
  BY DEF IInv, Lives
<1> HIDE DEF p
<1>3. CASE Wait(s) \/ Hold(s) \/ Reject(s)
  <2>1. body' = body /\ combat' = combat
    BY <1>3 DEF Wait, Hold, Reject
  <2> QED
    BY <1>1, <1>2, <2>1 DEF Turned, Lives, Unhurt
<1>4. CASE Reload(s)
  <2>1. body' = body /\ Ready(p) /\ Reloads(p, pending[p][NextAction(p)])
    BY <1>4 DEF Reload, p
  <2>2. PICK n \in 1..MaxActions : n = NextAction(p) /\ n # 0 /\ n \in 0..MaxActions
    BY <2>1, ReadyAction, RulesAssumption DEF IInv, p
  <2>3. PICK end \in Nat : end = tick + ReloadTicks /\ end > tick
    BY <1>1, RulesAssumption
  <2>4. body[p].alive /\ tick \in Nat
    BY <1>1, <2>1 DEF Reloads, Judged
  <2> DEFINE c == combat[p]
             d == [c EXCEPT !.reload = n, !.reloadStart = tick, !.reloadEnd = end]
  <2>5. combat' = [combat EXCEPT ![p] = d]
    BY <1>4, <2>2, <2>3 DEF Reload, p
  <2>6. c \in Combats /\ LifeOf(body[p], c, p, tick)
    BY <1>1, <1>2
  <2> HIDE DEF c
  <2>7. d \in Combats /\ d.attacker = c.attacker
    BY <2>2, <2>3, <2>4, <2>6 DEF Combats
  <2>8. /\ d.generation = c.generation /\ d.hp = c.hp /\ d.damaged = c.damaged /\ d.hits = c.hits
        /\ d.part = c.part /\ d.lastShot = c.lastShot /\ d.lastShotTick = c.lastShotTick
        /\ d.reload = n /\ d.reloadStart = tick /\ d.reloadEnd = end
    BY <2>6 DEF Combats
  <2> HIDE DEF d
  <2>9. LifeOf(body[p], d, p, tick)
    BY <1>1, <2>2, <2>3, <2>4, <2>6, <2>7, <2>8 DEF LifeOf
  <2>10. /\ combat'[p] = d /\ \A q \in Players \ {p} : combat'[q] = combat[q]
         /\ combat' \in [Players -> Combats]
    BY <1>1, <2>5, <2>7
  <2> QED
    BY <1>1, <1>2, <2>1, <2>7, <2>9, <2>10 DEF Turned, Lives, Unhurt, c
<1>5. CASE Miss(s)
  <2> DEFINE d == Shot(combat[p], NextAction(p))
  <2>1. /\ body' = body /\ Ready(p) /\ Fires(p, pending[p][NextAction(p)])
        /\ combat' = [combat EXCEPT ![p] = d]
    BY <1>5 DEF Miss, p
  <2>2. NextAction(p) \in 1..MaxActions
    BY <2>1, ReadyAction DEF IInv, p
  <2>3. combat[p] \in Combats /\ combat[p].ammo > 0 /\ LifeOf(body[p], combat[p], p, tick) /\ tick \in Nat
    BY <1>1, <1>2, <2>1 DEF Fires, Loaded
  <2>4. d \in Combats /\ d.attacker = combat[p].attacker /\ LifeOf(body[p], d, p, tick)
    BY <1>1, <2>2, <2>3, ShotLife
  <2> HIDE DEF d
  <2>5. /\ combat'[p] = d /\ \A q \in Players \ {p} : combat'[q] = combat[q]
        /\ combat' \in [Players -> Combats]
    BY <1>1, <2>1, <2>4
  <2> QED
    BY <1>1, <1>2, <2>1, <2>4, <2>5 DEF Turned, Lives, Unhurt
<1>6. CASE Hit(s)
  <2>1. PICK q \in Players \ {p}, part \in PartDamages :
          /\ body[q].alive
          /\ combat' = [combat EXCEPT ![p] = Shot(@, NextAction(p)), ![q] = Hurt(@, p, part)]
          /\ body' = IF Damage(combat[q], part) < combat[q].hp THEN body ELSE [body EXCEPT ![q] = Killed(@)]
    BY <1>6 DEF Hit, p
  <2>2. Ready(p) /\ Fires(p, pending[p][NextAction(p)])
    BY <1>6 DEF Hit, p
  <2>3. body[p].alive /\ combat[p].ammo > 0 /\ NextAction(p) \in 1..MaxActions
    BY <2>2, ReadyAction DEF Fires, Loaded, Judged, IInv, p
  <2>4. /\ combat[p] \in Combats /\ combat[q] \in Combats /\ body[q] \in Bodies /\ tick \in Nat
        /\ tick \in 1..MaxTick /\ combat[q].hp # 0
    <3>1. combat[p] \in Combats /\ combat[q] \in Combats /\ body[q] \in Bodies
      BY <1>1
    <3>2. LifeOf(body[q], combat[q], q, tick)
      BY <1>2
    <3> QED
      BY <1>1, <2>1, <3>1, <3>2 DEF LifeOf
  <2> DEFINE c == Shot(combat[p], NextAction(p))
             d == Hurt(combat[q], p, part)
             fatal == ~(Damage(combat[q], part) < combat[q].hp)
  <2>5. c \in Combats /\ c.attacker = combat[p].attacker /\ LifeOf(body[p], c, p, tick)
    BY <1>1, <1>2, <2>3, <2>4, ShotLife
  <2>6. /\ d \in Combats /\ d.attacker = p /\ Killed(body[q]) \in Bodies
        /\ IF fatal THEN LifeOf(Killed(body[q]), d, q, tick) ELSE LifeOf(body[q], d, q, tick)
    BY <1>1, <1>2, <2>1, <2>4, HurtLife
  <2>7. /\ combat' = [combat EXCEPT ![p] = c, ![q] = d]
        /\ body' = IF fatal THEN [body EXCEPT ![q] = Killed(body[q])] ELSE body
    BY <1>1, <2>1
  <2> HIDE DEF c, d, fatal
  <2>8. /\ combat' \in [Players -> Combats] /\ combat'[p] = c /\ combat'[q] = d
        /\ \A r \in Players \ {p, q} : combat'[r] = combat[r]
    BY <1>1, <2>5, <2>6, <2>7
  <2>9. /\ body' \in [Players -> Bodies] /\ \A r \in Players \ {q} : body'[r] = body[r]
        /\ LifeOf(body'[q], d, q, tick)
    BY <1>1, <2>6, <2>7
  <2>10. \A r \in Players : LifeOf(body'[r], combat'[r], r, tick')
    BY <1>1, <1>2, <2>5, <2>8, <2>9
  <2>11. \A r \in Players \ {q} : Unhurt(r)
    BY <2>5, <2>8, <2>9 DEF Unhurt
  <2>12. Hurts(p, q)
    BY <1>1, <2>1, <2>3, <2>6, <2>8, <2>9 DEF Hurts
  <2> QED
    BY <1>1, <2>8, <2>9, <2>10, <2>11, <2>12 DEF Turned, Lives
<1> QED
  BY <1>3, <1>4, <1>5, <1>6

\* A turn keeps the invariant.
LEMMA TurnKeeps ==
  ASSUME IInv, NEW s \in slots, Wait(s) \/ Hold(s) \/ Reject(s) \/ Reload(s) \/ Miss(s) \/ Hit(s)
  PROVE  IInv'
<1>1. Decides(s) \/ Keeps(s) \/ Postpones(s)
  BY TurnKinds
<1>2. /\ tick' = tick /\ accepted' = accepted /\ Columns'
      /\ slots' \subseteq slots /\ waiting' \subseteq Players
      /\ \A q \in Players :
           /\ DOMAIN pending'[q] \subseteq DOMAIN pending[q]
           /\ \A id \in DOMAIN pending'[q] : pending'[q][id] \in Entries
  BY <1>1, TurnEntries DEF IInv
<1>3. Turned
  BY TurnLives
<1>4. TypeOK'
  <2>1. TypeOK
    BY DEF IInv
  <2> QED
    BY <1>2, <1>3, <2>1 DEF TypeOK, Turned
<1>5. Visits'
  BY <1>1, TurnVisits DEF IInv
<1>6. Cools(s)
  BY TurnCools DEF IInv
<1>7. Timely' /\ Holdup'
  BY <1>1, <1>6, TurnTimely, TurnHoldup
<1> QED
  BY <1>2, <1>3, <1>4, <1>5, <1>7 DEF IInv, Turned

-----------------------------------------------------------------------------
(* The invariant.                                                          *)

\* It holds before the first tick.
LEMMA InitIInv == Init => IInv
<1> SUFFICES ASSUME Init PROVE IInv
  OBVIOUS
<1>1. /\ MaxTick \in Nat /\ MaxActions \in Nat /\ MaximumHp \in Nat \ {0} /\ MagazineCapacity \in Nat /\ tick = 0
      /\ \A p \in Players : DOMAIN accepted[p] = {} /\ DOMAIN pending[p] = {}
      /\ DOMAIN accepted = Players /\ DOMAIN pending = Players /\ slots = {} /\ waiting = {}
  BY RulesAssumption DEF Init
<1>2. body \in [Players -> Bodies]
  BY <1>1 DEF Init, Bodies
<1>3. combat \in [Players -> Combats]
  <2>1. Fresh(1) \in Combats
    BY <1>1 DEF Fresh, Combats
  <2> QED
    BY <2>1 DEF Init
<1>4. TypeOK
  BY <1>1, <1>2, <1>3 DEF TypeOK
<1>5. Columns /\ Visits
  BY <1>1 DEF Columns, Visits
<1>6. Lives
  <2>1. \A p \in Players : /\ body[p] = [alive |-> TRUE, generation |-> 1, since |-> 0, respawn |-> 0]
                           /\ combat[p] = Fresh(1)
    BY DEF Init
  <2> QED
    BY <1>1, <2>1 DEF Lives, LifeOf, Fresh
<1>7. Timely /\ Holdup
  BY <1>1 DEF Timely, TimelyOf, Holdup, HoldsOf
<1> QED
  BY <1>4, <1>5, <1>6, <1>7 DEF IInv

\* Every step keeps it.
LEMMA StepIInv == IInv /\ [Next]_vars => IInv'
<1> SUFFICES ASSUME IInv, [Next]_vars PROVE IInv'
  OBVIOUS
<1>1. CASE Begin
  BY <1>1, BeginKeeps
<1>2. ASSUME NEW p \in Players, NEW id \in 1..MaxActions, Submit(p, id)
      PROVE  IInv'
  BY <1>2, SubmitKeeps
<1>3. ASSUME NEW s \in slots, Wait(s) \/ Hold(s) \/ Reject(s) \/ Reload(s) \/ Miss(s) \/ Hit(s)
      PROVE  IInv'
  BY <1>3, TurnKeeps
<1>4. CASE UNCHANGED vars
  <2>1. /\ tick' = tick /\ body' = body /\ combat' = combat /\ accepted' = accepted
        /\ pending' = pending /\ slots' = slots /\ waiting' = waiting
    BY <1>4 DEF vars
  <2>2. TypeOK' /\ Columns' /\ Visits' /\ Lives'
    <3>1. TypeOK'
      BY <2>1 DEF IInv, TypeOK
    <3>2. Columns' /\ Visits'
      BY <2>1 DEF IInv, Columns, Visits, SlotsOf
    <3>3. Lives'
      <4>1. Lives
        BY DEF IInv
      <4> QED
        BY <2>1, <4>1 DEF Lives, LifeOf
    <3> QED
      BY <3>1, <3>2, <3>3
  <2>3. Timely'
    <3> SUFFICES ASSUME NEW p \in Players PROVE TimelyOf(p)'
      BY DEF Timely
    <3>1. TimelyOf(p)
      BY DEF IInv, Timely
    <3>2. NextAction(p)' = NextAction(p)
      BY <2>1 DEF NextAction
    <3>3. (Blocked(p) => Blocked(p)') /\ (OnTurn(p) => OnTurn(p)')
      BY <2>1, <3>2 DEF Blocked, OnTurn, Spent, Slow
    <3>4. \A id \in DOMAIN pending'[p] : OnTime(p, id)'
      BY <2>1, <3>1 DEF TimelyOf, OnTime, InTime
    <3> QED
      BY <2>1, <3>1, <3>3, <3>4 DEF TimelyOf, Idle
  <2>4. Holdup'
    <3>1. Holdup
      BY DEF IInv
    <3> QED
      BY <2>1, <3>1 DEF Holdup, HoldsOf, HoldOf, Latest, Newest, UpTo
  <2> QED
    BY <2>2, <2>3, <2>4 DEF IInv
<1> QED
  BY <1>1, <1>2, <1>3, <1>4 DEF Next

\* So it always holds.
LEMMA AlwaysIInv == Spec => []IInv
<1> QED
  BY InitIInv, StepIInv, PTL DEF Spec

-----------------------------------------------------------------------------
(* What follows.                                                           *)

\* The columns and the ledger keep their types (PvpMatch's columns and PlayerState).
THEOREM CombatTypeCorrect == Spec => []TypeOK
<1>1. IInv => TypeOK
  BY DEF IInv
<1> QED
  BY <1>1, AlwaysIInv, PTL

\* No snapshot has a life or a combat column that the Client refuses (ClientConnection.cpp:622
\* and 639, ValidDamageRecord): lives, points and their generations agree, reloads belong to
\* the living, began and are not past their end, and the last shot and the hit record are
\* there whole or not at all.
THEOREM SnapshotsDecode == Spec => []SnapshotValid
<1>1. IInv => SnapshotValid
  <2> SUFFICES ASSUME IInv, NEW p \in Players
               PROVE  /\ LifeValid(body[p]) /\ CombatValid(body[p], combat[p])
                      /\ DamageRecordValid(p, body[p], combat[p])
    BY DEF SnapshotValid
  <2>1. LifeOf(body[p], combat[p], p, tick)
    BY DEF IInv, Lives
  <2>2. /\ combat[p] \in Combats /\ body[p] \in Bodies /\ tick \in Nat /\ MaximumHp \in Nat
        /\ MagazineCapacity \in Nat
    BY RulesAssumption DEF IInv, TypeOK
  <2> DEFINE b == body[p]
             c == combat[p]
  <2> HIDE DEF b, c
  <2>3. LifeOf(b, c, p, tick) /\ c \in Combats /\ b \in Bodies
    BY <2>1, <2>2 DEF b, c
  <2>4. LifeValid(b)
    BY <2>3 DEF LifeOf, LifeValid
  <2>5. CombatValid(b, c)
    BY <2>2, <2>3 DEF LifeOf, CombatValid, Combats, Bodies
  <2>6. DamageRecordValid(p, b, c)
    <3>1. c.hits \in Nat /\ c.hp \in Nat /\ c.part \in PartDamages \cup {0} /\ c.damaged \in Nat /\ b.since \in Nat
      BY <2>2, <2>3, RulesAssumption DEF Combats, Bodies
    <3>2. c.hits <= MaximumHp /\ (~b.alive => c.damaged # 0)
      BY <2>2, <2>3, <3>1 DEF LifeOf
    <3>3. \A column \in {c.hits, c.attacker, c.part} : (column = 0) = (c.damaged = 0)
      BY <2>3 DEF LifeOf
    <3> QED
      BY <2>3, <3>1, <3>2, <3>3 DEF LifeOf, DamageRecordValid
  <2> QED
    BY <2>4, <2>5, <2>6 DEF b, c
<1> QED
  BY <1>1, AlwaysIInv, PTL

\* A tick's life boundaries change nobody's attacker but the reborn's.
LEMMA BeginKeepsTrades ==
  ASSUME IInv, Begin, NoTrade
  PROVE  NoTrade'
<1>1. PICK respawned \in SUBSET {p \in Players : ~body[p].alive /\ tick' >= body[p].respawn} :
        body' = Reborn(tick', respawned) /\ combat' = Reloaded(tick', respawned)
  BY DEF Begin
<1>2. ASSUME NEW p \in Players, ~body'[p].alive
      PROVE  ~body[p].alive /\ combat'[p].attacker = combat[p].attacker
  <2>1. p \notin respawned
    <3>1. ASSUME p \in respawned PROVE FALSE
      <4>1. body'[p].alive = TRUE
        BY <1>1, <3>1 DEF Reborn
      <4> QED
        BY <1>2, <4>1
    <3> QED
      BY <3>1
  <2>2. body'[p] = body[p]
    BY <1>1, <2>1 DEF Reborn
  <2>3. combat'[p] = combat[p] \/ combat'[p] = [NotReloading(combat[p]) EXCEPT !.ammo = MagazineCapacity]
    BY <1>1, <2>1 DEF Reloaded
  <2>4. combat[p] \in Combats
    BY DEF IInv, TypeOK
  <2>5. NotReloading(combat[p]) \in Combats /\ NotReloading(combat[p]).attacker = combat[p].attacker
    BY <2>4, NotReloadingType DEF Others
  <2>6. combat'[p].attacker = combat[p].attacker
    BY <2>3, <2>5 DEF Combats
  <2> QED
    BY <1>2, <2>2, <2>6
<1> QED
  BY <1>2 DEF NoTrade

\* Two players never lie dead by each other's hand: the hit that would close the circle is
\* fired by a dead player, whose actions ResolveActions rejects (PvpMatch.cpp:441).
THEOREM NeverTraded == Spec => []NoTrade
<1>1. Init => NoTrade
  <2> SUFFICES ASSUME Init, NEW p \in Players PROVE body[p].alive
    BY DEF NoTrade
  <2> QED
    BY DEF Init
<1>2. IInv /\ NoTrade /\ [Next]_vars => NoTrade'
  <2> SUFFICES ASSUME IInv, NoTrade, [Next]_vars PROVE NoTrade'
    OBVIOUS
  <2>1. CASE Begin
    BY <2>1, BeginKeepsTrades
  <2>2. ASSUME NEW p \in Players, NEW id \in 1..MaxActions, Submit(p, id)
        PROVE  NoTrade'
    BY <2>2 DEF Submit, NoTrade
  <2>3. ASSUME NEW s \in slots, Wait(s) \/ Hold(s) \/ Reject(s) \/ Reload(s) \/ Miss(s) \/ Hit(s)
        PROVE  NoTrade'
    <3>1. \A q \in Players : Unhurt(q) \/ \E p \in Players : Hurts(p, q)
      BY <2>3, TurnLives DEF Turned
    <3>2. ASSUME NEW p \in Players, NEW q \in Players, ~body'[p].alive, ~body'[q].alive,
                 combat'[p].attacker = q, combat'[q].attacker = p
          PROVE  FALSE
      <4>1. Unhurt(p)
        BY <3>1, <3>2 DEF Hurts
      <4>2. Unhurt(q)
        BY <3>1, <3>2 DEF Hurts
      <4> QED
        BY <3>2, <4>1, <4>2 DEF NoTrade, Unhurt
    <3> QED
      BY <3>2 DEF NoTrade
  <2>4. CASE UNCHANGED vars
    BY <2>4 DEF vars, NoTrade
  <2> QED
    BY <2>1, <2>2, <2>3, <2>4 DEF Next
<1> QED
  BY <1>1, <1>2, AlwaysIInv, PTL DEF Spec

\* Every action is decided in time (PvpMatch.cpp:363): between ticks a player's next action is
\* not due yet, or held, and neither lasts beyond its deadline, nor therefore beyond that of
\* any action behind it.
THEOREM AlwaysDecidedInTime == Spec => []DecidedInTime
<1>1. IInv => DecidedInTime
  <2> SUFFICES ASSUME IInv, Idle, NEW p \in Players, NEW id \in DOMAIN pending[p]
               PROVE  tick < Deadline(accepted[p], id)
    BY DEF DecidedInTime, Deadline, Newest, UpTo
  <2>1. /\ DOMAIN pending[p] \subseteq DOMAIN accepted[p] /\ DOMAIN accepted[p] \subseteq 1..MaxActions
        /\ tick \in Nat /\ tick + 1 \in Nat /\ MaxShotStepLead \in Nat
        /\ \A i \in DOMAIN accepted[p] : accepted[p][i] \in 1..(tick + 1)
        /\ \A i \in DOMAIN pending[p] : pending[p][i] \in Entries
    BY RulesAssumption DEF IInv, TypeOK
  <2>2. \A i \in DOMAIN accepted[p] : accepted[p][i] \in 0..(tick + 1)
    BY <2>1
  <2>3. PICK n \in DOMAIN pending[p] : n = NextAction(p) /\ n <= id
    BY NextActionLeast DEF IInv
  <2>4. Blocked(p) /\ OnTime(p, n)
    BY <2>3 DEF IInv, Timely, TimelyOf
  <2> HIDE DEF IInv
  <2>5. /\ Deadline(accepted[p], n) \in Nat /\ Deadline(accepted[p], id) \in Nat
        /\ Deadline(accepted[p], n) <= Deadline(accepted[p], id)
    BY <2>1, <2>2, <2>3, DeadlineGrows
  <2>6. /\ Latest(accepted[p], n) \in Nat /\ accepted[p][n] + MaxShotStepLead <= Latest(accepted[p], n)
        /\ Latest(accepted[p], n) + HoldLimit <= Deadline(accepted[p], n)
    BY <2>1, <2>2, <2>3, DeadlineAfter
  <2>7. /\ pending[p][n].due \in BOOLEAN /\ pending[p][n].held \in BOOLEAN /\ pending[p][n].holdUntil \in Nat
        /\ accepted[p][n] \in Nat
    BY <2>1 DEF Entries
  <2>8. tick < Deadline(accepted[p], n)
    <3>1. CASE pending[p][n].due
      BY <2>1, <2>3, <2>4, <2>5, <2>7, <3>1 DEF Blocked, OnTime, InTime
    <3>2. CASE ~pending[p][n].due
      BY <2>1, <2>4, <2>5, <2>6, <2>7, <3>2, HoldIsNat DEF OnTime, InTime
    <3> QED
      BY <3>1, <3>2
  <2> QED
    BY <2>1, <2>5, <2>8
<1> QED
  BY <1>1, AlwaysIInv, PTL

\* Of a weapon whose cooldown no hold can bridge, the protocol's bound is right
\* (protocol-v7.zh-Hant.md:350): one hold for the whole queue, not one for every action.
THEOREM SlowWeaponBound ==
  ASSUME Slow
  PROVE  Spec => []DocumentedBound
<1>1. IInv /\ DecidedInTime => DocumentedBound
  <2> SUFFICES ASSUME IInv, DecidedInTime, Idle, NEW p \in Players, NEW id \in DOMAIN pending[p],
                      \A i \in DOMAIN accepted[p] : i <= id => accepted[p][i] <= accepted[p][id]
               PROVE  tick < accepted[p][id] + MaxShotStepLead + HoldLimit
    BY DEF DocumentedBound
  <2> DEFINE S == {accepted[p][i] : i \in {j \in DOMAIN accepted[p] : j <= id}}
             newest == Max(S)
  <2>1. /\ id \in DOMAIN accepted[p] /\ tick + 1 \in Nat /\ tick \in Nat /\ id \in Nat
        /\ \A i \in DOMAIN accepted[p] : accepted[p][i] \in Nat /\ accepted[p][i] <= tick + 1
    BY RulesAssumption DEF IInv, TypeOK
  <2>2. tick < newest + MaxShotStepLead + HoldLimit
    <3>1. Holdings({j \in DOMAIN accepted[p] : j <= id}) = 1
      BY DEF Holdings, Slow
    <3>2. tick < newest + MaxShotStepLead + HoldLimit * Holdings({j \in DOMAIN accepted[p] : j <= id})
      BY DEF DecidedInTime
    <3> HIDE DEF newest
    <3> QED
      BY <3>1, <3>2, HoldIsNat
  <2>3. newest \in S
    <3>1. S \subseteq Nat /\ S # {} /\ \A x \in S : x <= tick + 1
      BY <2>1
    <3> HIDE DEF S
    <3> QED
      BY <2>1, <3>1, GreatestOfNaturals
  <2>4. newest \in Nat /\ newest <= accepted[p][id] /\ accepted[p][id] \in Nat
    BY <2>1, <2>3
  <2> HIDE DEF newest
  <2> QED
    BY <2>1, <2>2, <2>4, HoldIsNat, RulesAssumption
<1> QED
  BY <1>1, AlwaysIInv, AlwaysDecidedInTime, PTL

=============================================================================
