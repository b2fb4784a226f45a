# Formal models of GYO-Engine's networked game

GYO-Engine is a C++20 game engine; its active product is `apps/object_fps_pvp`, a
server-authoritative first-person shooter for a local network. This directory holds
TLA+ models of the protocols of that product and of the engine parts with threads of
their own, the TLC configurations that check them and TLAPS proofs of the results that
matter most.

Paths below are relative to `src/`; `pvp/` stands for `apps/object_fps_pvp/`.

## The system

```
  Client process                    Gateway process (Go)           Match process (C++)
  ---------------                   --------------------           -------------------
  main thread      game, drain      HTTP: rooms, joins             I/O thread   IpcHost
  simulation role  prediction       one UDP reader, one UDP        simulation   MatchRuntimeHost
  network worker   UDP      <--->   writer, an expiry timer  <TCP> role         and PvpMatch
```

The Match decides everything. The Client predicts its own movement and asks for
actions (shots and reloads). The Gateway owns the rooms and the UDP sessions, and
relays: it keeps no game state.

### Components, their state and what makes them correct

| component | state | operations | correct when |
|---|---|---|---|
| action transport, `ClientConnection.cpp` | retained actions with their decisions, allocated, acknowledged and retired ids, send cursor | submit, send batch, accept results, drain | an action is answered and given to the game exactly once; its copy lives until the Match has retired it |
| results slot and hand-over, `action_delivery.go` | one frame per player | replace, release | the newest frame is released, nothing is decided here |
| action lanes, `IpcHost.cpp` | last retirement written, cycling cursor, the owed frame | receive batch, choose frame | every undelivered decision is repeated, an idle lane stays silent |
| staging and ledger, `MatchRuntimeHost.cpp`, `PvpMatch.cpp` | staged requests, queued acknowledgement, ledger, retired id | submit, step (retire, hand over, decide, evict), leave | what was validated on arrival is still valid when the step uses it |
| movement admission, same files | staging, cursor, epoch, life, substitution records | submit window, tick, resync, prune | one command identity has one content; a cursor never goes back; stale windows do no harm |
| local prediction, `LocalPlayerPrediction.cpp`, `ClientSimulation*.cpp` | pending commands, tip, epoch, life, newest authority | observe, reconcile, reseed, advance, publish | a reconciled base plus the pending commands is what the Match will do |
| room lifecycle, `server.go` | reservations and phases, sessions, requests | reserve, hello, leave, expire, evict, fail | the Match holds a player only while a reservation or a Leave does; a place is never lost |
| runtime link, `runtime_link.go` | FIFO of controls and data, counts | queue, take, write, fail, close | order is kept; every handed message is written, dropped or abandoned, and counted |
| IPC session, `IpcHost.cpp` | phase, connection number, pending reset | accept, reset, begin, close, stop | nothing of one connection reaches the next; never two resets |
| UDP session, `services/gyo_gateway/session` | endpoint, newest sequence, rate schedule, last seen | hello, admit, commit, expire | a session moves only with its token after silence; a sequence is used once |
| connection liveness, `ConnectionLiveness.hpp` | last snapshot, interruption | observe, poll | interruption and timeout follow the snapshots |
| combat, `PvpMatch.cpp` | hp, magazine, cooldown, reload, life | decide, kill, respawn | decisions are ordered and bounded in time; zero hp is death |
| waiter and role threads, `engine/time`, `engine/threads` | notification flag, owner count, condition | notify, wait, stop, join | no notification is lost between the check and the sleep |
| trace sink, `engine/trace` | bounded queue, progress, file | push, flush, close | an accepted line reaches the file in order; a flush that says yes is true |
| audio mixer, `engine/audio` | rings, leases of clips, voices, playhead board | play, stop, load, unload, render, read | no freed sample is read, no slot is lost, no playhead is another sound's |

How they interact: calls under the host's mutex (`IpcHost` to `MatchRuntimeHost`),
a callback with its own gate (the host's publish listener posts `Pump`), FIFO messages
over TCP (Gateway and Match), datagrams (Gateway and Client), and snapshots and
mailboxes under one mutex inside the Client.

What is hard: datagrams that are lost, repeated or overtaken while both ends erase
what they believe is finished; values validated by one thread and used by another a
step later; departures between the two; windows that both ends bound from different
knowledge; identities (epoch, life, connection number) that make old messages
harmless only if every handler checks them; connections that end in the middle of a
handshake.

## The modules

| module | what it is |
|---|---|
| `ActionService` | what the delivery of actions promises: submitted, answered once, given once, forgotten only when given |
| `ActionDelivery` | the protocol that keeps the promise: Client, network, Gateway slot, Match I/O, Match step |
| `ActionDeliveryProofs` | its type invariant, its inductive invariant, the safety properties and the refinement, proved |
| `RoomService` | what the room promises: a player is seated at most once, the seats are bounded, players of two processes never meet |
| `RoomLifecycle` | Gateway processes, the IPC connection with its reset handshake, controls, results, evictions |
| `RoomLifecycleProofs` | type correctness, no player of another process, no failed contract, the refinement of `RoomService`, and that the two ends agree, proved |
| `MovementDelivery` | prediction, window, admission, staging, substitution, the epochs |
| `MovementDeliveryProofs` | its type correctness and every safety property of its runs, proved |
| `RuntimeLink` | the Gateway's link to the Match: queue, writer, heartbeat, and its end by several goroutines |
| `RuntimeLinkProofs` | its type correctness, the account of its messages, their order and the final reports, proved |
| `UdpSession` | endpoint, rebinding, sequence and expiry of a session against a Client that moves |
| `UdpSessionProofs` | its type correctness, that it only goes forward and that it survives a move, proved |
| `Combat`, `CombatProofs` | the ticks of the Match across players: life, order, holds, shots; what the snapshots promise, proved |
| `Waiter`, `TraceSink` | the engine's waiter, and the sink whose writer, producers, flushers and closer meet on it |
| `TraceSinkProofs` | the sink's type correctness, its flushes, its close, and that no wake-up is lost, proved |
| `AudioMixer` | submitters, audio thread and playhead readers, without a lock |
| `AudioMixerProofs` | its type correctness, that no freed sample is read and that a playhead is of its sound, proved |
| `MC*` | the instances TLC checks, with the symmetry sets; the other modules with runs are checked as they are |

### ActionDelivery

One player, one session; every action of the module is one critical section of the code.

| action | code |
|---|---|
| `SubmitAction`, `Drain` | the game thread's calls of `ClientConnection` |
| `SendActions`, `AcceptResults` | the network worker, `ClientConnection.cpp` |
| `LoseBatch`, `LoseResults`, `ReleaseSlot` | the network, and `actionPackets` of `action_delivery.go` |
| `ReceiveActions`, `WriteLane` | `IpcHost.cpp`, the branch of `Receive` and `ActionMessage` |
| `QueueLeave`, `StepLeave` | a departure: the control and its execution |
| `StepTick` | `MatchRuntimeHost::Step`: acknowledgement, hand-over, decisions, eviction |

Both ends of the UDP session read only a sequence newer than the last one, so what is
read is a subsequence of what was sent: `up` and `down` are lossy queues. `Receive`
compares a repeated acknowledgement with a retirement it reads under a lock of its
own, before the submission (`IpcHost.cpp:672`); a step may run in between, so the model
takes any value between the last one written and the current one. The lane's frame
reaches the Gateway's slot in one action: the slot keeps the newest only. The hand-over
in sub-batches of `MaxActionBatch` is modelled at once, because nothing else happens
between them. `QueueActionAcknowledgement` has no caller outside the tests and is left
out. What `Decide` answers is any outcome; the order in which it may answer is the
code's (ascending ids, stopping at the first that is held).

### RoomLifecycle

One Gateway process at a time, numbered; a process dials once, so its number is its
connection's. Players of two processes have the same ids; the Match's records carry the
connection in a history field that no guard reads.

| actions | code |
|---|---|
| start, stop, dial, `ReadReady` | `New`, `Serve`, `Close` of `server.go`; `connectRuntime` |
| `Reserve`, `FirstHello`, `EndReservation`, `ReadRuntime` | `server.go` under `Server.mu` |
| `WriteQueue`, `FailLink`, `RuntimeFailed` | `runtime_link.go`, the failure callback |
| `Accept`, `CheckReset`, `Receive`, `EndSession`, `ReadEnd`, `Close` | `IpcHost.cpp`, one I/O thread |
| `PumpResults`, `PumpEvictions`, `Write` | `IpcHost::Impl::Pump`, `Write` |
| `StepReset`, `StepControl`, `StepEnd` | `MatchRuntimeHost::Step` under its mutex |

The handler in progress (`io`) separates the takes of one `Pump`, because a step may run
between them; the host's mutex (`stepping`) separates a step from the I/O thread's calls.
Request numbers are abstracted to numbers that are fresh among those alive
(`requestSequence` never repeats one). Evictions come one per tick and expiry ends one
player at a time. Not modelled: a crash of the Match (the room ends with it), Welcome and
Error datagrams, HTTP retries with one request id, `Stop` of `IpcHost`, and malformed
frames, which are the end of a session at any time.

### MovementDelivery

One player's stay. A command is a sequence and an opaque content, a window is a function
from sequences to contents, a seeded command's content is the cursor it was seeded from.

| action | code |
|---|---|
| `RunSimulation` | `ClientSimulationLoop::Run`: drain, `Observe` (`Reseeds`, `Resume`, `Reconcile`), `Advance` |
| `SendInput` | `ClientConnection::SendInput`, later and under another lock |
| `ReceiveSnapshot`, `Interrupt`, `SendWindow` | one pass of the worker (`Network`) |
| `LoseWindow`, `ReceiveInput` | the network; `MatchRuntimeHost::SubmitInput` with `PvpMatch::AdmitInput` |
| `StepRespawn`, `StepRotate`, `StepIdle`, `StepResolve` | one tick of `Step`: hand-over, `PvpMatch::Tick`, `TrackSlack`, prune, publication |

The Gateway forwards a window even when its datagram was overtaken, so `inputs` is a set
whose members arrive in any order, any number of times. The Client applies newer ticks
only, so `snapshots` is a queue into which a tick puts its state or not. Pacing (tokens,
deadlines), the age that makes a late command a resync, the death of a player and the
respawn's delay are nondeterministic. Between ticks the slack track's cursor is the
Match's, because a tick resolves at most one sequence, so `kSlackLookbackSequences`
never acts. The simulation's history keeps more than the newest snapshot for the phase
tracking only, which is left out. Only dirty staging is handed over by the code; the
rest is in the queue already, and handing it over again changes nothing.

### RuntimeLink

An action is a critical section of `runtimeLink.mu` (or of `Server.mu` and it), a channel
operation or one write. A thread's `pc` names the call it is in; the Onces `linkOnce` and
`finalOnce` make a later caller wait for the first, which is what could deadlock.

| actions | code |
|---|---|
| `QueueData`, `QueueControl`, `Refused`, `Heartbeat` | `input`, `control`, `invariantFailed`, `heartbeat` |
| `WriterWoken`, `WriterTimer`, `Take`, `NextWrite`, `Written`, `WriteFails`, `Abandon`, `WriteDiagnostic`, `Reported`, `WriterReturns` | `run`'s writer, `take`, `write`, `writeDiagnostic` |
| `ReadFails`, `Fail`, `RuntimeFailed`, `CloseLink`, `Flush`, `FinalWindow` | the reader; `fail`, `runtimeFailed`, `close`, `flushFinal`, `writeFinalIngress` |
| `ContextEnds`, `Close`, `WaitWriter`, `Finals` | `Serve`'s context, at whose end the writer may return; `Server.Close`: `shutdown`, `waitWriterFor`, the final drop reports |

`counts` is the sum of all windows. Left out: the contents of messages, when a window
takes the counts, the ledger of drop reports, a `write` before the writer has started, and
the delay of a drop report that is asked for less than a second after the last
(`dropPass`, `runtime_link.go:643`): it is written later, and moves no message.

### UdpSession

Time is counted in ticks; ages stand for the two time stamps of `session.go`. The Client
sends at most one datagram a tick, a Hello when one is due; `Move` changes its address.

| actions | code |
|---|---|
| `SendHello`, `SendInput` | `ClientConnection.cpp`, the worker's `Network` and `Send` |
| `HelloUnauthorized`, `HelloAdmitted`, `HelloLimited` | `HelloRebinding` and what `receivePacket` does after it |
| `InputAdmitted`, `InputLimited`, `InputUnauthorized` | `Admit` and `CommitSequence` |
| `Expire`, `Tick` | `expireAt` |
| `Move`, `Lose` | the network |

A token bucket's refusal may come at any time. Left out: tokens and framing, which pass or
refuse a datagram before the session sees it, and the phases before the first Hello.

### Combat

A tick is `Begin` (life boundaries, movement, what is due) and one action for each slot
of `ResolveActions` in its order; the Match is seen between ticks.

| actions | code |
|---|---|
| `Submit` | `SubmitActions`, of an action the admission lets through |
| `Begin` | `Tick`: `ResolveLifeBoundaries`, the movement's effect on claimed steps, `ActionDue` |
| `Wait`, `Hold`, `Reject`, `Reload`, `Miss`, `Hit` | `ResolveActions`, `Decide`, `Kill` |

The geometry chooses the living player a shot meets and the part, named by its damage; the
spawn search may fail, which delays a respawn. `PvpShotQuery` never returns the shooter.
An action is submitted with what its first tick will find of it after the movement: whether
it is `fresh`, and how far `ahead` of the cursor its claimed step is. An action that is not
fresh may claim a step too: it waits until it is due, and those behind it wait with it.
An action of an earlier life is due at once, so nothing is asked of its step.

`SnapshotValid` is all the Client checks of the columns that are modelled: the life
(`LifeValid`, `ClientConnection.cpp:622-625`), the combat columns (`CombatValid`,
`:639-651`) and the record of hits (`DamageRecordValid`, `ValidDamageRecord` of
`Combat.hpp`). The weapon's data are constants and always valid; the columns of position,
movement and animation, which the same function checks, are outside.

### Waiter and TraceSink

`Waiter` is the branch of `Waiter.cpp` on a condition variable: `NotifyStep` and
`WaitStep` take the flag, the mutex and the condition one operation at a time. A spurious
wake-up is left out: it would only make a waiter that may go on sleeping look at the flag
again, under the mutex, and sleep. `TraceSink` composes it: `PushAccepted`, `PushDropped`,
the writer's `ReadStop`, `TakeQueue`, `WriteLines`, `Progress`, `LastWords`, the flushers'
`FlushNow`, `FlushChecks`, `FlushTimeout`, and `MarkClosed`, `RequestStop`, `Join` of
`Close`. A write and the final close of the file may fail. The deadline of a wait and the branches on
kqueue and Windows events are left out: without a deadline the notification is all that
wakes the writer, the harder case.

### AudioMixer

No lock: an action is the code between two atomic operations another thread reads.

| actions | code |
|---|---|
| `Play`, `Stop`, `StopAll`, `UnloadClip`, then `Publish`; `LoadClip` | `Submitter`, with the store of the ring's tail as a step of its own |
| `LoadTail`, `TakePlay`, `TakeUnload`, `TakeStop`, `StoreHead`, `Mix` | `Mixer::Render`, `VoiceMixer` |
| `PublishVoice`, `AssignState`, `AssignTag` | `PublishVoices`, `PlayheadBoard::Assign` store by store |
| `PlayheadOf`, `ReadTag`, `ReadState`, `ReadAgain`, `ReadReturns` | `PlayheadBoard::Read` load by load |

Stores are seen in program order, which the release and acquire pairs of the code give
for what is read behind them; the weaker orders of other memory are out of the model. A
voice is followed frame by frame with its start, stop and position; where the clock puts
a start or a stop is a choice. Left out: samples, gains, statistics, the bank's clips
(no lease), the claim of a submitter. `LoadClip` takes all slots that were handed back in
one step, where the code looks at them one by one: only their owner reads the flags, and a
slot handed back during the scan may be one of those the next call finds.

## The runs

| run | instance | states | shows |
|---|---|---|---|
| `actions_safety` | 4 actions, window 3, batches of 2, one datagram each way, 2 outcomes, both departures | 438,215 | no host assertion fails, one decision per action, nothing forgotten early, no frame or batch of a live session refused, `ActionService` implemented |
| `actions_live` | 4 actions, window 3, batches of 2, one datagram each way, nobody leaves | 52,261 | every action completes; then both sides are silent |
| `room_safety` | 2 processes, 2 ids, 1 seat, 1 queued control, 2 in the host and in the session | 985,369 | no contract or assertion fails, no foreign player, full only after a lost control, no ghost, `RoomService` implemented |
| `room_live` | 2 processes, 1 id | 18,906 | dials and joins are answered, ghosts leave |
| `movement_safety` | windows of 2 commands, 4 sequences, 2 epochs, 2 windows and 1 snapshot under way, 2 contents, fuses over 3 ticks | 916,430 | one content per command, no window refused but for its epoch, no assertion of `SendInput` or `Observe` fails, staging can be handed over, receipts and records follow the Match |
| `movement_live` | 2 sequences, 2 epochs | 3,944 | every epoch starts or is replaced; no number passes the counter |
| `runtime_link` | 3 messages, one place for controls and one for data, 1 server, 1 heartbeat | 573,500 | the counts balance after every step and in the last window, the Match reads in order, the final reports are alone, every shutdown ends |
| `trace_sink` | 2 producers, 1 flusher, capacity 2, 3 pushes | 734,069 | a true flush is true, a closed file is complete, nothing waits for ever |
| `session_moves` | 2 addresses, two settings: 26 numbers and a timeout of 10 ticks; 16 numbers, a timeout of 3 and datagrams 3 ticks under way | 3,493,574 | the session soon follows the Client, expires only after lasting trouble, and never goes back |
| `combat` | 2 players with 2 points, parts of damage 1 and 2, 3 actions, 3 ticks; cooldown 2, K 1, W 1 | 1,968,860 | no snapshot has a life or a combat column the Client refuses, nobody trades, every action is decided in time, here the protocol's W + K |
| `combat_fast_weapon` | 1 player, 3 actions, 5 ticks; cooldown 2, K 2, W 2 | violation expected | a cooldown that a hold can bridge breaks the protocol's bound (Findings) |
| `audio_mixer` | 1 submitter with 1 clip slot, 2 voices, 4 commands, clips of 2 frames | 668,002 | no freed sample, no foreign playhead, every unloaded slot returns |

Why these bounds are enough. In both runs of the actions the window is smaller than the
number of ids, so it fills, an action waits for it to open again, and it slides; batches are
smaller than the window, so the cycling choice cycles. In `room_safety` there is one seat
for two players and one place in each queue, so every refusal happens. The wire counter of
the movement runs ends within the run, so the rotation at its end happens.
`movement_safety` has two windows under way, so they overtake each other, and two contents,
so a conflict is visible; its fuses look at three ticks and its records are kept for no sequence beyond their own, so
a command is substituted, its record closes as the next one is resolved, and the epoch goes
on: with fuses of two ticks, or a longer retention, the epoch would end first. A rotation
comes of a backlog, of a late command or of the end of the counter there; that the cooldown
holds a fuse back is not seen, as it only takes rotations away. `MaxFutureCommands` is as
small as `MaxPendingCommands`: the bound is tight. `movement_live` needs no more than one
epoch that starts and one that replaces it; there the numbers end soon, which is what its
type invariant is about.

`runtime_link` has one place in each queue and three messages, so both refusals and a drop
happen while a pass is written and while it is abandoned; the writer, the reader, a
server and the closer are four threads that meet in the two Onces. `session_moves` has
two settings because no single one small enough shows both cases: with the long timeout
the sequence wraps and a spell of disturbances ends; with the long latency a Hello of an
address that was left is still under way when the silence of a rebinding is over.
`combat` lets one player die, return and be shot again within the run, both aim at each
other in one tick, and a shot wait for its cursor, for a cooldown and behind another action;
its cooldown is longer than K, like the product's (10 and 2), so the deadline is the tight
one. `audio_mixer` fills its ring
and its voices: a play finds no voice, an unload is taken before and after the last voice
ends, and the slot is loaded again while the ring still holds commands of its last clip.

Deadlock is off in every run: the numbers of actions, processes, ids and epochs are
bounds of the instance, and at the end of them the system may stop (the Match really
stops when an epoch passes the wire counter).

### Fairness

* Timers and threads run: the game drains every frame, the worker, the Gateway's writer
  and `IpcHost` send on their timers, the role threads step (weak fairness). No Client,
  no process and no socket is assumed to start, leave or fail.
* `actions_live`: a decision comes, since `PvpMatch` decides every action within
  `MaxShotStepLead` (13) ticks and holds of `MaxShotHoldTicks` (2) (`DecidedInTime`).
* `actions_live`: the network loses fairly. If datagrams with news for their receiver keep
  coming, one with news arrives (strong fairness of the receipt of news, `NewsForMatch` and
  `NewsForClient`: a larger acknowledgement or retirement, a request or a decision the other
  end lacks). This is weaker than that each content sent for ever arrives, and the code
  relies on no more: news stays news, and is sent again, until it is received.
* `movement_live`: frames take time, so the prediction makes a command whenever there is
  room (weak fairness), and of infinitely many ticks infinitely many publish.

* `runtime_link`: goroutines run; the writer's `select` takes a ready case, a write ends
  by its deadline of three seconds. Nothing is assumed of its timer, of reads, or of
  anybody starting to fail or to close.
* `trace_sink`: whoever is inside a call goes on (the writer, a notifier, a flusher that
  was woken, `Close`); nobody is assumed to call, no write to succeed, no timeout to fire.
* `audio_mixer`: the device asks for block after block, and a producer that has written a
  command stores the tail (weak fairness); nobody is assumed to play, load or unload.

## What is proved

Every constant is arbitrary, within the named assumptions of the module.

`ActionDeliveryProofs`. The inductive invariant is `TypeOK /\ Coherent`. `Coherent` says
what the actors know of each other: the prefixes retired at the Client, retired at the
Match, acknowledged and allocated are nested and span one window; a message under way is
never ahead of its sender; the ledger, the Client's answers and what the game was given
are views of one set of verdicts. No safety property is inductive without it: that an
acknowledgement validated on arrival is valid at the step needs that whatever it covers
was decided, which needs that the Client acknowledges only what it was given. From it
follow `NeverDecidedTwice`, `NeverForgottenEarly`, `FramesAccepted`, `BatchesAdmitted`,
`StepNeverFaults`, and `ImplementsService`: every step is a step of `ActionService` or
a stutter. Assumptions: `WindowAssumption`, `BatchAssumption` (whose part
`ResendFirstSlots < MaxActionBatch` is an assertion of `IpcHost.cpp`),
`OutcomesAssumption`, `BoundsAssumption`.

`RoomLifecycleProofs`. `Handshake` ties the phase of the session to the two flags of the
reset and to the generation of whatever the host holds: after the reset of an accept
nothing older is left. `TypeOK /\ Handshake` is inductive and gives `RoomTypeCorrect` and
`OwnGeneration` (what the Match holds belongs to the connection in session). `RoomInv` adds
what the rest needs. `OneJoin`: the Join of a player, and then its answer, is in one place
at most (the Gateway's queue, the wire, the controls, the results, the session's outgoing
answers, the wire back), once there, and a player whose Join is still before the host's
step was never seated; without it neither "a result finds its player joining or gone" nor
"seated at most once" is inductive, since a second Join under way could undo them.
`Awaited`: players are numbered as they are reserved, and the session waits for exactly the
Joins among the controls and results, all with different requests. `Company`: what the host
holds is of one connection while it closes too, and its members are recorded as seated. From it
`AlwaysNoFault` (no contract fails, the resets' among them) and `ImplementsRoom`: every
step is a step of `RoomService` or a stutter.

That the two ends agree needs the order of what a process asks, not only the places of its
Joins. `Line` joins the controls of the host, the messages on the wire and the queue of the
Gateway into one sequence of Joins and Leaves; writing, receiving and a lost link move its
parts and leave it alone, or cut its end (`LineAsked`, `LineReceived`, `LineCut`). `In` says
who is in the room when the first k of them are taken. `AgreeInv` adds to `RoomInv`:
`SeatsSuffice`, at no point of the line are there more players than seats, which holds
because the Gateway queues a player's Leave before it reserves the seat for another
(`FewReserved`, `Served`), and gives `FullAfterLoss`; `LeaversGone`, a player whose Leave is
in the line is not served any more; `Outside`, a refusal or a notice of eviction under way
is about a player that is not in the room and has nothing before it; and `Hosted`, whoever
is active, or about to be by an answer under way, is in the room or a notice of eviction is
under way behind it. `InTurn` and `Unheard` keep the connections apart: they are accepted in
the order of their processes, and one that is not accepted yet carries nothing. The last two
parts give `EndsAgree`. A full queue that loses a Leave breaks `SeatsSuffice` and `Served`,
so both, and the two theorems, are about connections that lost nothing.
Assumption: `BoundsAssumption`.

`CombatProofs`. The inductive invariant is `TypeOK` with five parts. `Columns`: the ledger
covers the players. `Visits`: a player that does not wait has as many slots left as
undecided actions, so when the slots are at their end only the waiting have actions left.
`Lives`: the snapshot's facts in the form they have in the middle of a tick, with what
makes them inductive, a life begins before its hits and a hit costs a point. `Timely`: a
player whose turn may come can still be held once before its deadline, or will not be held
(`Spent`, `OnTurn`); a blocked one is not due, or held. `Holdup`: a hold ends with the
cooldown it waits for, or early. `SnapshotsDecode` follows from `Lives` and the types.
`AlwaysDecidedInTime` follows from `Timely`, and its deadline depends on the weapon. When
the cooldown is longer than any hold (`Slow`), a shot that was held starts a cooldown
that nothing behind it is held for, so one hold is enough for all; otherwise a decision hands
the time of one hold to the next action, and the deadline counts the actions.
`SlowWeaponBound` is the protocol's own bound, under `Slow`: an action accepted after all
smaller ones is decided within W + K. `NeverTraded` needs the invariant only for the turns:
whoever hits is alive when it does, and a hit changes nobody else's attacker. Assumptions:
`PlayersAssumption`, `RulesAssumption` (whose part `MaxShotHoldTicks <= MaxShotStepLead`
holds of the product's 2 and 13); no bound on hits, ticks or actions beyond the model's own.

`RuntimeLinkProofs`. The inductive invariant is `TypeOK` with `Account` (each stream's
messages are in one bucket of the counts, in the queue or in the pass), `Order` (sent
before the pass, the pass before the queue, each in ascending order) and `Ends` (what the
threads that end the link know: the writer holds messages only inside a pass and none once
it has exited, a closed link has an empty queue, whoever flushes has closed the link, and
the window is written after both). `Ends` is why the last window misses nothing although
other threads are still failing: nothing is left to count. It needs that removing the
oldest message of a stream, which the code finds by a search, removes one of that stream
and keeps the rest in order (`OldestRemoved`, `HeldRemoved`, `OrderRemoved`). Theorems:
`LinkTypeCorrect`, `AccountedForever`, `AlwaysInOrder`, `FinalsHaveTheLink`. Assumptions:
`LimitsAssumption`, `NamesAssumption`, `BoundsAssumption`.

`TraceSinkProofs`. The inductive invariant is `TypeOK` with `Numbered` (lines are numbered
as they are accepted, and the file, the writer's batch and the queue hold consecutive
numbers) and `Stopping` (a stop follows a close, after which nothing is accepted, and the
batch that follows the stop takes all there is); from it `FlushesHonest` and
`ClosesComplete`. On top of it `Woken`: while lines or a stop wait behind the writer's
back, the latch is set or a thread is about to set it; and a latch set after the writer's
check has a thread that waits for the mutex or is about to signal. That is the comment of `Push`, "a non-empty queue already has a wake pending"
(`TraceSink.cpp:175`), made precise; `NeverLosesWake` follows, without any timer.
Assumptions: `ThreadsAssumption`, `BoundsAssumption`.

`UdpSessionProofs`. The inductive invariant is `TypeOK` with `Paced`: the Client sends
once in a tick, so a datagram's lag is at most its age, and what the session holds lags by
its silence and the latency. Timeout and latency together are below half of the numbers,
and there a wrapped difference (`NewerIsLater`, `LaterIsNewer`) orders two datagrams as
they were sent; this is `AlwaysForward`. `AlwaysSurvives` needs a second invariant,
`Healing`, that follows the Client's last Hellos. `Elsewhere`: a session that is not where
the Client is has been silent for as long as the Client has been calm, less a latency, and
a Hello sent since is newer than what it holds, so it is not refused. `Coming`: such a
Hello is due or under way. `Heard`: a session that is there has taken up the last Hello or
the one before. `Spell`: what it has not heard is paid for by the disturbances. The bound
of a settled session, silence, one Hello interval and two latencies, is what this argument
uses, and a tick is blocked just where it would be exceeded. Assumptions:
`SettingsAssumption`, `TimesAssumption`, `AddressesAssumption`.

`MovementDeliveryProofs`. The inductive invariant has four parts. `Typed` is `TypeOK` with
a life that never passes its epoch, which keeps a respawn's life within its bound. `Host`
is `StagedAdmissible` and `RecordsMatch` with `Ahead`: the queue waits ahead of the cursor,
so what the next tick resolves is the one receipt it closes. `Chain` orders the authority:
each snapshot under way follows (`Follows`) the one before it and what the worker has read,
and is followed by the body. `Contained` says where commands come from: the prediction is
the interval from the authority it read to `tip`, no command held anywhere is ahead of it
or of its epoch, a window sent has commands and not too many, and a sequence of an epoch
has one content. `OneContent` needs all of it: it is kept by a seed only because a seed
starts above everything its epoch ever held, and that is what `Reseeds` and `Resume` decide
from. Only `RunSimulation` makes commands; of every other step it is shown that whatever is
held afterwards is part of something held before (`Drawn`, `DrawnKeeps`). Then
`AlwaysAdmissible`: a window of the Match's epoch is of the epoch and life the Client has
read, so its numbers end at `tip`, within one window of a cursor the Match has passed; and
`NeverFaults`: a window of the worker's identity is the whole prediction, so it has every
command submitted before. Assumptions: `SizesAssumption`, `FusesAssumption`,
`BoundsAssumption`; that contents differ from seeds (`ContentsAssumption`) is not needed.

`AudioMixerProofs`. The inductive invariant has a part for each way the threads share
something without a lock. `Ends` and `Meant`: the commands between the audio thread's place
in a ring and its tail are what their producer meant, because a producer writes only where
no waiting command is (`OwnPlaces`), although it knows the head as it was. `Leases` ties the
owner's half of a slot to the audio thread's: a lease counts the voices that play the slot
(`ReleaseLeases`: none is given back twice), every voice and every command that names the
slot means the samples that are there, an unload is the last command to name them, and a
slot is handed back when no voice and no command has it; `LoadClip` frees no other, and that
is `AlwaysValid`. It needs `Sounding`, that a voice keeps the sound it was given
(`RenderedIs`, block by block). `OnePlace`: a sound waits in one command, or sounds in one
voice, or does neither for good (`OverStays`), and a tag on the board is of no second voice.
With `Board`, what the entries hold between two stores, a reader's second look at a tag
(`Reads`) tells that the state it read was of its sound, and a scan in one direction meets
every sound that stays on the board; this is `AlwaysExact`. The proofs hold for any number of
submitters, slots and voices, the run for one submitter with one slot. Assumption:
`NumbersAssumption`.

Only model-checked: liveness, which is beyond the prover (`EpochStarts` among it). Every
safety property and every other action property of the runs is proved.

## Findings

* The bound on a decision. `docs/object_fps_pvp/protocol-v7.zh-Hant.md:350` says that an
  action accepted at A is judged at J with J - A <= W + K, but for a smaller id that comes
  after larger ones, and line 341 calls K right for the data of any weapon. `Decide` holds
  every action that was not held before (`PvpMatch.cpp:396`). With a cooldown of at most
  `MaxShotHoldTicks` three shots accepted in order in one tick chain their holds: the second
  waits for the cooldown of the first and starts the one the third is held for, and the
  third is still undecided after W + K (`combat_fast_weapon`, `DocumentedBound`). The
  product's weapon has a cooldown of 10 ticks and keeps the bound (`SlowWeaponBound`), so
  this is a limit of the document's claim, not a fault of the game as it is configured.

## What is not modelled, and why

* Geometry, animation and presentation (real numbers, pure functions of snapshots), the
  shot gate (a pure function that refuses a trigger early; the Match decides without it)
  and the snapshot timeline (a filter of real-valued clocks).
* The join over HTTP, the Welcome and the lobby's phases in the Client: one thread's
  sequential steps. The schedules of the rate limiter, the send budget and the connection
  quality: a refusal or an eviction may come at any time instead.
* Statistics, logs and traces that nothing reads back; file and window I/O; the engine's
  rendering, platform and input backends; asset reloading; editors.
* The fixed-tick runtime: one thread's accumulator of real-valued time.
* The earlier games `object_fps` and `object_fps_v2`, kept in the tree and disabled until
  they are migrated to the current engine: large and sequential, with state machines on
  real-valued positions.

Most of the lines of the tree are in these last groups, so the models cover a small share
of it and most of the code with concurrency, failure or ordering. `PROJECT.json` lists
every component with its reason.

## Plan

Done: `ActionDelivery` and `RoomLifecycle` with proofs, `Combat` with proofs of what its
snapshots promise, `RuntimeLink` with proofs, `TraceSink` on its `Waiter` with proofs,
`UdpSession`, `MovementDelivery` and `AudioMixer` with proofs.

Next, models: the datagram stream between Gateway and Client as an unordered, duplicating
network under the serial-number filter, shown to implement the lossy queues that
`ActionDelivery` uses; the Client's join and lobby phases with Welcome and Error.
