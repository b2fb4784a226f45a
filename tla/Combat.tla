-------------------------------- MODULE Combat --------------------------------
(***************************************************************************)
(* What PvpMatch::Tick decides about the players' actions: life            *)
(* boundaries, when an action may be decided, the order across players,    *)
(* Decide and Kill.  A tick is Begin followed by one step for every slot   *)
(* of ResolveActions, and the Match is seen only between ticks (Idle).     *)
(*                                                                         *)
(* The geometry of a shot is a choice of the living player it meets and of *)
(* the part, named by its damage, if any.  Of an action's claimed step     *)
(* (movementEpoch, commandSequence) `ahead' remains: how many commands of  *)
(* its epoch are still to be resolved, zero when the epoch is another, and *)
(* at most the lead bound, which is all that is waited for.                *)
(* Admission, hand-over and retirement of actions are ActionDelivery,      *)
(* joining and leaving RoomLifecycle, the cursor MovementDelivery.         *)
(***************************************************************************)
EXTENDS Integers, FiniteSets, FiniteSetsExt

CONSTANTS
  Players,            \* player ids, ordered
  MaximumHp, PartDamages,
  MagazineCapacity,
  CooldownTicks, ReloadTicks, RespawnTicks,
  MaxShotHoldTicks,   \* K_max
  MaxShotStepLead,    \* W
  MaxActions,         \* bound: a player's action ids
  MaxSubmitted,       \* bound: actions of all players
  MaxTick             \* bound

ASSUME PlayersAssumption == Players \subseteq Nat \ {0} /\ IsFiniteSet(Players)
ASSUME RulesAssumption ==
  /\ {MaximumHp, MagazineCapacity, CooldownTicks, ReloadTicks, RespawnTicks, MaxShotStepLead} \subseteq Nat \ {0}
  /\ PartDamages \subseteq 1..MaximumHp
  /\ {MaxShotHoldTicks, MaxActions, MaxSubmitted, MaxTick} \subseteq Nat
  /\ MaxShotHoldTicks <= MaxShotStepLead

VARIABLES
  tick,
  body,       \* PlayerState: alive, generation, since (lifeStateTick), respawn (respawnTick)
  combat,     \* CombatState: generation, hp, ammo, next (nextAllowedShotTick), the reload, the last
              \* shot, and the hit record: damaged (lastDamageTick), hits, attacker, part
  accepted,   \* per player: acceptedTick of every action in the ledger
  pending,    \* per player: the undecided ones: kind, life, fresh, ahead, due, held, holdUntil
  slots,      \* what ResolveActions has not visited: <<acceptedTick, player, action>>
  waiting     \* its set of players whose next action cannot be decided yet

vars == <<tick, body, combat, accepted, pending, slots, waiting>>

Kinds == {"shot", "reload"}
Least(a, b) == IF a < b THEN a ELSE b
HoldLimit == Least(CooldownTicks, MaxShotHoldTicks)
Idle == slots = {}

\* The combat state of a new life.
Fresh(generation) ==
  [generation |-> generation, hp |-> MaximumHp, ammo |-> MagazineCapacity, next |-> 0,
   reload |-> 0, reloadStart |-> 0, reloadEnd |-> 0, lastShot |-> 0, lastShotTick |-> 0,
   damaged |-> 0, hits |-> 0, attacker |-> 0, part |-> 0]

\* And without its reload.
NotReloading(c) == [c EXCEPT !.reload = 0, !.reloadStart = 0, !.reloadEnd = 0]

\* Types of the columns and of the ledger.
Bodies == [alive : BOOLEAN, generation : Nat \ {0}, since : 0..MaxTick, respawn : Nat]
Combats == [generation : Nat \ {0}, hp : 0..MaximumHp, ammo : 0..MagazineCapacity, next : Nat,
            reload : 0..MaxActions, reloadStart : Nat, reloadEnd : Nat,
            lastShot : 0..MaxActions, lastShotTick : Nat,
            damaged : 0..MaxTick, hits : Nat, attacker : Players \cup {0}, part : PartDamages \cup {0}]
Entries == [kind : Kinds, life : Nat \ {0}, fresh : BOOLEAN, ahead : 0..MaxShotStepLead,
            due : BOOLEAN, held : BOOLEAN, holdUntil : Nat]
TypeOK ==
  /\ tick \in 0..MaxTick
  /\ body \in [Players -> Bodies]
  /\ combat \in [Players -> Combats]
  /\ \A p \in Players :
       /\ DOMAIN pending[p] \subseteq DOMAIN accepted[p] /\ DOMAIN accepted[p] \subseteq 1..MaxActions
       /\ \A id \in DOMAIN accepted[p] : accepted[p][id] \in 1..(tick + 1)
       /\ \A id \in DOMAIN pending[p] : pending[p][id] \in Entries
  /\ \A s \in slots : s[2] \in Players /\ s[3] \in DOMAIN accepted[s[2]]
  /\ waiting \subseteq Players

Init ==
  /\ tick = 0
  /\ body = [p \in Players |-> [alive |-> TRUE, generation |-> 1, since |-> 0, respawn |-> 0]]
  /\ combat = [p \in Players |-> Fresh(1)]
  /\ accepted = [p \in Players |-> [id \in {} |-> 0]]
  /\ pending = [p \in Players |-> [id \in {} |-> 0]]
  /\ slots = {} /\ waiting = {}

-----------------------------------------------------------------------------
(* Between ticks.                                                          *)

\* The <<player, action>> pairs of a column of actions.
ActionsOf(column) == {x \in Players \X (1..MaxActions) : x[2] \in DOMAIN column[x[1]]}

\* SubmitActions of an admitted action: decided at the next tick at the earliest.  `fresh'
\* and `ahead' are what that tick finds after its movement.  Whatever nothing asks for is left
\* out: the kind of an action that is too old, and more than its life of one of an earlier life.
Submit(p, id) ==
  /\ Idle /\ tick < MaxTick /\ id \notin DOMAIN accepted[p] /\ Cardinality(ActionsOf(accepted)) < MaxSubmitted
  /\ accepted' = [accepted EXCEPT ![p] = [i \in DOMAIN @ \cup {id} |-> IF i = id THEN tick + 1 ELSE @[i]]]
  /\ \E kind \in Kinds, life \in 1..(body[p].generation + 1), fresh \in BOOLEAN, ahead \in 0..MaxShotStepLead :
       /\ ~fresh => kind = "shot"
       /\ life < body[p].generation => ~fresh /\ ahead = 0
       /\ pending' = [pending EXCEPT ![p] = [i \in DOMAIN @ \cup {id} |->
            IF i = id THEN [kind |-> kind, life |-> life, fresh |-> fresh, ahead |-> ahead,
                            due |-> FALSE, held |-> FALSE, holdUntil |-> 0]
            ELSE @[i]]]
  /\ UNCHANGED <<tick, body, combat, slots, waiting>>

-----------------------------------------------------------------------------
(* The tick.                                                               *)

\* ResolveLifeBoundaries of tick t, where the spawn search succeeds for `respawned'.
Reborn(t, respawned) ==
  [p \in Players |-> IF p \in respawned
     THEN [alive |-> TRUE, generation |-> body[p].generation + 1, since |-> t, respawn |-> 0]
     ELSE body[p]]

Reloaded(t, respawned) ==
  [p \in Players |->
     IF p \in respawned THEN Fresh(body[p].generation + 1)
     ELSE IF body[p].alive /\ combat[p].reload # 0 /\ t >= combat[p].reloadEnd
       THEN [NotReloading(combat[p]) EXCEPT !.ammo = MagazineCapacity]
     ELSE combat[p]]

\* The claimed step after this tick's movement: the cursor advanced, stood still (no command
\* 1 yet) or restarted in a new epoch.
Moved(ahead, movement) ==
  CASE movement = "advanced" -> IF ahead > 0 THEN ahead - 1 ELSE 0
    [] movement = "still" -> ahead
    [] movement = "restarted" -> 0

\* Mutant of ActionDue: without the lead bound.
ActionDueMutant(t, generation, e, since) == e.life # generation \/ e.ahead = 0

ActionDue(t, generation, e, since) ==
  e.life # generation \/ e.ahead = 0 \/ t - since >= MaxShotStepLead

\* Tick up to the loop of ResolveActions.
Begin ==
  /\ Idle /\ tick < MaxTick
  /\ tick' = tick + 1
  /\ \E respawned \in SUBSET {p \in Players : ~body[p].alive /\ tick' >= body[p].respawn} :
       /\ body' = Reborn(tick', respawned)
       /\ combat' = Reloaded(tick', respawned)
       /\ \E movement \in [Players -> {"advanced", "still", "restarted"}] :
            /\ \A p \in respawned : movement[p] = "restarted"
            /\ pending' = [p \in Players |-> [id \in DOMAIN pending[p] |->
                 LET e == [pending[p][id] EXCEPT !.ahead =
                            IF accepted[p][id] = tick' THEN @ ELSE Moved(@, movement[p])]
                 IN [e EXCEPT !.due = @ \/ ActionDue(tick', body'[p].generation, e, accepted[p][id])]]]
  /\ slots' = {<<accepted[x[1]][x[2]], x[1], x[2]>> : x \in ActionsOf(pending)}
  /\ waiting' = {}
  /\ UNCHANGED accepted

\* The order of the slots, across players.
Before(s, t) ==
  \/ s[1] < t[1]
  \/ s[1] = t[1] /\ s[2] < t[2]
  \/ s[1] = t[1] /\ s[2] = t[2] /\ s[3] < t[3]

First(s) == s \in slots /\ \A t \in slots \ {s} : Before(s, t)

\* A player's slots take its actions in ascending order.
NextAction(p) == CHOOSE id \in DOMAIN pending[p] : \A other \in DOMAIN pending[p] : id <= other

\* Its slot's turn: player p may have its next action e decided.
Ready(p) ==
  LET e == pending[p][NextAction(p)]
  IN p \notin waiting /\ e.due /\ tick >= e.holdUntil

Stale(p, e) == e.life # body[p].generation

\* Mutant of Judged: a dead player's actions are judged.
JudgedMutant(p, e) == ~Stale(p, e) /\ e.fresh /\ combat[p].reload = 0

\* Decide, in the order of its checks.
Judged(p, e) == ~Stale(p, e) /\ body[p].alive /\ e.fresh /\ combat[p].reload = 0
Loaded(p, e) == Judged(p, e) /\ e.kind = "shot" /\ combat[p].ammo > 0

Reloads(p, e) == Judged(p, e) /\ e.kind = "reload" /\ combat[p].ammo # MagazineCapacity
Fires(p, e) == Loaded(p, e) /\ tick >= combat[p].next
Holds(p, e) ==
  /\ Loaded(p, e) /\ tick < combat[p].next
  /\ ~e.held /\ combat[p].next - tick <= HoldLimit

Decided(p) == pending' = [pending EXCEPT ![p] = [id \in DOMAIN @ \ {NextAction(p)} |-> @[id]]]

\* The set of waiting players ends with the loop.
Turn(s, blocked) ==
  /\ First(s)
  /\ slots' = slots \ {s}
  /\ waiting' = IF slots' = {} THEN {} ELSE waiting \cup blocked
  /\ UNCHANGED <<tick, accepted>>

Wait(s) ==
  /\ Turn(s, {s[2]}) /\ ~Ready(s[2])
  /\ UNCHANGED <<body, combat, pending>>

Hold(s) ==
  LET p == s[2] e == pending[p][NextAction(p)]
  IN /\ Turn(s, {p}) /\ Ready(p) /\ Holds(p, e)
     /\ pending' = [pending EXCEPT ![p][NextAction(p)] = [@ EXCEPT !.held = TRUE, !.holdUntil = combat[p].next]]
     /\ UNCHANGED <<body, combat>>

Reject(s) ==
  LET p == s[2] e == pending[p][NextAction(p)]
  IN /\ Turn(s, {}) /\ Ready(p) /\ ~Reloads(p, e) /\ ~Fires(p, e) /\ ~Holds(p, e)
     /\ Decided(p)
     /\ UNCHANGED <<body, combat>>

Reload(s) ==
  LET p == s[2] e == pending[p][NextAction(p)]
  IN /\ Turn(s, {}) /\ Ready(p) /\ Reloads(p, e)
     /\ combat' = [combat EXCEPT ![p] = [@ EXCEPT !.reload = NextAction(p), !.reloadStart = tick,
                                                !.reloadEnd = tick + ReloadTicks]]
     /\ Decided(p)
     /\ UNCHANGED body

\* The shooter's side of an accepted shot.
Shot(c, id) == [c EXCEPT !.ammo = @ - 1, !.next = tick + CooldownTicks, !.lastShot = id, !.lastShotTick = tick]

Miss(s) ==
  LET p == s[2]
  IN /\ Turn(s, {}) /\ Ready(p) /\ Fires(p, pending[p][NextAction(p)])
     /\ combat' = [combat EXCEPT ![p] = Shot(@, NextAction(p))]
     /\ Decided(p)
     /\ UNCHANGED body

\* What a hit on a part takes from the points that are left.
Damage(c, part) == Least(part, c.hp)

\* The target's side: the hit record, and what Kill clears.
Marked(c, p, part) ==
  [c EXCEPT !.hp = @ - Damage(c, part), !.damaged = tick, !.hits = @ + 1, !.attacker = p, !.part = part]

\* Mutant of Hurt: a death leaves the reload running.
HurtMutant(c, p, part) == Marked(c, p, part)

Hurt(c, p, part) ==
  IF Damage(c, part) = c.hp THEN NotReloading(Marked(c, p, part)) ELSE Marked(c, p, part)

Killed(b) == [b EXCEPT !.alive = FALSE, !.since = tick, !.respawn = tick + RespawnTicks]

Hit(s) ==
  LET p == s[2]
  IN /\ Turn(s, {}) /\ Ready(p) /\ Fires(p, pending[p][NextAction(p)])
     /\ \E q \in {x \in Players \ {p} : body[x].alive}, part \in PartDamages :
          /\ combat' = [combat EXCEPT ![p] = Shot(@, NextAction(p)), ![q] = Hurt(@, p, part)]
          /\ body' = IF Damage(combat[q], part) < combat[q].hp THEN body
                     ELSE [body EXCEPT ![q] = Killed(@)]
     /\ Decided(p)

Next ==
  \/ Begin
  \/ \E p \in Players, id \in 1..MaxActions : Submit(p, id)
  \/ \E s \in slots : Wait(s) \/ Hold(s) \/ Reject(s) \/ Reload(s) \/ Miss(s) \/ Hit(s)

Spec == Init /\ [][Next]_vars

-----------------------------------------------------------------------------
(* What the players may rely on.                                           *)

\* The Client's checks of a player's life (ClientConnection.cpp:623) ...
LifeValid(b) ==
  /\ b.since <= tick
  /\ b.alive => b.respawn = 0
  /\ ~b.alive => b.since # 0 /\ b.respawn > b.since

\* ... of its combat columns, alone and against its life ...
CombatValid(b, c) ==
  /\ c.hp \in 0..MaximumHp /\ c.ammo \in 0..MagazineCapacity
  /\ c.reload = 0 => c.reloadStart = 0 /\ c.reloadEnd = 0
  /\ c.reload # 0 => c.reloadStart # 0 /\ c.reloadStart <= tick /\ c.reloadEnd > tick
  /\ (c.lastShot = 0) = (c.lastShotTick = 0) /\ c.lastShotTick <= tick
  /\ c.generation # 0 /\ c.generation = b.generation
  /\ (c.hp = 0) = ~b.alive
  /\ ~b.alive => c.reload = 0

\* ... and of the record of the hits of this life (ValidDamageRecord).
DamageRecordValid(p, b, c) ==
  /\ \A column \in {c.hits, c.attacker, c.part} : (column = 0) = (c.damaged = 0)
  /\ c.part \in PartDamages \cup {0}
  /\ ~b.alive => c.damaged # 0 /\ c.damaged = b.since
  /\ c.damaged # 0 => b.since <= c.damaged /\ c.damaged <= tick /\ c.attacker # p /\ c.hits <= MaximumHp

\* Whoever shoots, reloads, dies and returns in whatever order, no snapshot has a life or a
\* combat column that the Client refuses: one would cost it the whole snapshot, and every one
\* after it while the column stays (ClientConnection.cpp:622, 639).
SnapshotValid ==
  Idle => \A p \in Players :
    LifeValid(body[p]) /\ CombatValid(body[p], combat[p]) /\ DamageRecordValid(p, body[p], combat[p])

\* No trade: of two players whose shots meet in one tick one lives, because the shot in the
\* earlier slot takes the other's away; no two lie dead by each other's hand
\* (PvpMatch.cpp:441).
NoTrade ==
  \A p, q \in Players :
    ~(~body[p].alive /\ ~body[q].alive /\ combat[p].attacker = q /\ combat[q].attacker = p)

\* Every action is decided within the lead bound, counted from the newest of the actions up
\* to it, and one hold: neither a cursor that never reaches the claimed step, nor holding, nor
\* the actions before it keep the player's gun silent for longer, because a shot that was
\* held to the end of a cooldown starts one that nothing behind it is held for
\* (PvpMatch.cpp:396).  A cooldown that a hold can bridge is another thing: there each action
\* may be held in turn, once.
Holdings(upTo) == IF CooldownTicks > MaxShotHoldTicks THEN 1 ELSE Cardinality(upTo)

DecidedInTime ==
  Idle => \A p \in Players : \A id \in DOMAIN pending[p] :
    LET upTo == {i \in DOMAIN accepted[p] : i <= id}
    IN tick < Max({accepted[p][i] : i \in upTo}) + MaxShotStepLead + HoldLimit * Holdings(upTo)

\* What the protocol says of every weapon: an action accepted after all smaller ones is decided
\* within the lead bound and one hold (protocol-v7.zh-Hant.md:350).
DocumentedBound ==
  Idle => \A p \in Players : \A id \in DOMAIN pending[p] :
    (\A i \in DOMAIN accepted[p] : i <= id => accepted[p][i] <= accepted[p][id])
      => tick < accepted[p][id] + MaxShotStepLead + HoldLimit

=============================================================================
