# CyberMP in TLA+

CyberMP is a multiplayer mod for Cyberpunk 2077: a dedicated server (`src/server`), a plugin that runs
inside the game (`src/client`), and the code they share (`src/common`). They talk over UDP. This directory
holds a model of the parts that have state and concurrency, of the protocol, and of the whole system, the TLC
configurations that check them on small instances, and TLAPS proofs. Paths below are relative to the repository.

Run `tlc -config <run>.cfg <MC module>` for a check and `tlapm <X>Proofs.tla` for proofs. `PROJECT.json` lists the
runs, the code lines behind every definition, the hazards and the findings.

## 1. Inventory

| Component | Code | State | Operations |
|---|---|---|---|
| Server loop and relay | `server/main.cpp` | place in the loop, clock reading | expire, tick, kick, receive one datagram, handle it |
| Sessions | `server/Session.cpp` | `m_sessions`, `m_nextId` | `Join`, `Find`, `Touch`, `TakeNextTimedOut`, `ApplyState`, `Remove` |
| Script host | `server/ScriptHost.cpp`, `Script.hpp` | `m_kicks`, backends | `StartAll`, `OnPlayerJoin/Leave/Tick`, `Kick`, `TakeKicks`, `StopAll` |
| Lua backend | `server/LuaBackend.cpp` | handlers by event | `LoadScripts`, `cybermp.on`, `Fire`, `Stop` |
| Task queue | `common/TaskQueue.hpp` | `m_pending` | `Push`, `Drain`, `Clear` |
| Game tick, plugin lifetime | `client/WorldSystem.cpp`, `Plugin.cpp` | counters, drain thread, producer thread | `RunTick`, `PostTasksFromThread`, `OnUnload` |
| Network client | `client/NetClient.cpp` | `m_state`, socket, timers, `m_remote`, `m_events`, `m_stateTick` | `Connect`, `Disconnect`, `Run`, `HandleDatagram`, `TakeEvents`, `SendState` |
| Remote bodies | `client/WorldSystem.cpp` | `m_bodies`, samples, `m_worldAttached` | `PumpRemotePlayers`, `SetBodyKind`, `SetInterpolation`, world attach/detach |
| Spawn registry | `client/WorldSystem.cpp` | `m_spawned` | `SpawnProp`, `SpawnNpc`, `TrackSpawned`, `DespawnAll` |
| Protocol | `common/Protocol.hpp`, `Serialize.hpp` | a reader's offset and failure | encode, decode, `PeekHeader` |
| Sockets | `common/Net.cpp` | a handle | bind, send, receive with a timeout |
| Debug API, logging, entry, `nettest`, tests | `client/DebugApi.cpp`, `Log.hpp`, `Main.cpp`, `nettest/`, `tests/` | none of the system's | |

How they interact:

* **Client to server** by datagrams `Hello`, `Ping`, `PlayerState`; **server to client** by `HelloAck`, `Pong`,
  `NotifyPlayerJoined/Left/State`. UDP loses, repeats and reorders all of them. Joins and leaves carry a
  `Reliable` flag that no code reads.
* **Server to scripts** by synchronous callbacks; **scripts to server** by `Kick`, which only queues, because the
  caller may be iterating over the sessions.
* **Network thread to tick** through three shared places: the task queue, `m_events` (a queue: none may be
  missed) and `m_remote` (newest wins).
* **Script thread to everything** through static console functions: `Connect`, `Disconnect`, `SetBodyKind`, ...
* **Engine to plugin**: two tick callbacks from a worker pool, possibly in parallel; world attach and detach.

Hard behaviour, by component, and what makes the component correct:

* *Whole system.* Hellos repeated and late, a person who comes back under the same name on a new socket while the
  old session lives, rosters crossing joins and leaves, a list that outlives the connection. Correct: a client lists
  nobody the server did not let in, and, on a transport that keeps what the flag says, exactly those who are in and
  besides them only what an earlier connection left behind.
* *Time.* Two processes with their own loops, each reading its clock once a turn, and a script that holds the
  server's up. Correct: nobody who is there is dropped, and whoever is gone is noticed in bounded time.
* *Server.* One thread, but a long chain of callbacks and datagrams between which everything may have changed:
  a player kicked twice or gone before its kick, kicks queued while the queue is drained, several expiries at one
  clock reading, repeated Hellos. Correct: one session per address and name, capacity respected, ids never reused;
  each client is told of exactly the others; the scripts' view and the table agree at each callback; kicks and
  timeouts take effect; relayed snapshots advance.
* *Lua backend.* Scripts that fail while loading, handlers that register handlers. Correct: all are loaded in order,
  each handler is called once for an event, the server survives.
* *Task queue.* Parallel drains, pushes from tasks. Correct: order kept, each task exactly once, drains bounded.
* *Tick and plugin.* Two ticks in parallel, unloading against the network thread. Correct: counters match what
  ran, nothing of the network thread is queued after unloading, no task starves.
* *Network client.* Three threads. Correct: nothing of one connection reaches the next, `Disconnect` is final,
  joins and leaves reach the tick once and in order, every wait ends.
* *Remote bodies.* Joins, leaves and snapshots in any order against asynchronous spawning, a vanishing world, a
  reconnect, an unlocked console command. Correct: bodies are those of the players present, each entity belongs
  to its player's body, a body that is moved moves forward.
* *Spawn registry.* Commands of several threads and a world that ends between their steps. Correct: no living
  entity is lost from the registry, none is deleted twice.
* *Protocol.* Bytes of anybody. Correct: what was encoded is decoded as it was, a wrong length is refused, nothing
  is read past the end.

## 2. Modules

| Module | Models | State and actions against the code |
|---|---|---|
| `Server` | `main.cpp`, `Session.cpp`, kick queue | `sessions`, `nextId`, `kicks`, `draining` are `m_sessions`, `m_nextId`, `m_kicks` and the vector `TakeKicks` returned; `pc` is the place in the loop; `out` and `event` are what the last step sent and called. A step is a stretch of the loop with at most one callback |
| `ServerObs` | history only | `told`, `scripted`, `relayed` are computed from `out` and `event` alone: what clients and scripts know; and who was queued for a kick as the tick's callback returned |
| `Roster` | abstract | players join and leave one at a time under fresh ids; `Server` implements it |
| `ServerProofs` | proofs about the three above and `Scripts` | |
| `Cybermp` | clients, network, server | an endpoint is one socket, that is one `Connect` of one person: `client` and `attempts` are its state; `hellos`, `queue`, `sent` are what is on its way. The list of players is the person's and no Connect or Disconnect clears it: `bodies` is `m_bodies`, `list` is `m_bodies` once the pump has taken `m_events`, `leftover` records what was in it before the connection. `sessions`, `nextId` are the server's. The server's operators (`JoinResult`, `Admit`, `Roster`, `Broadcast`, ...) are those of `Server`; `To` is what of a handler's datagrams goes to one endpoint, `Listings` their order |
| `CybermpProofs` | proofs about it | |
| `Keepalive` | `Run`'s timers, `main`'s loop, `TakeNextTimedOut` in time | one variable per clock reading, kept as the time since it: `sincePing`, `sinceServer`, `sinceSeen`; a turn of each loop is "top", then waiting; a ping in `up` is the time since its `sentAt`, which the pong in `down` brings back |
| `KeepaliveProofs` | proofs about it | |
| `TaskQueue` | `TaskQueue.hpp` | `Take` is the locked part of `Drain`, `Run` one task outside the lock, `Push`, `Clear` |
| `GameTick` | `RunTick`, pongs, probe, `OnUnload` | EXTENDS `TaskQueue`: each tick callback is a drain; `BeginTick` notes the thread, `EndTick` adds to `m_tasksRun`; any task may push one; `Connect` sets the client's counter of applied pongs to zero |
| `GameTickProofs` | proofs about the two above | |
| `NetClient` | `NetClient.cpp` | three processes `script`, `net`, `tick`, each with its place; a step is one atomic access or one stretch under a lock. Datagrams are any the server could send |
| `NetClientProofs` | proofs about it | |
| `RemoteBodies` | first half of `PumpRemotePlayers`, `SetBodyKind`, world | `pump` is the place in the function; a spawn is `Request` then `Create` or `CreateFails`. `SetBodyKind` and `ResetBody` are the two steps of the console command for one body, at any place of the pump, as no lock is between them. The entity system is external: `Destroy` may fail for any entity, and no caller notices. A batch of `TakeEvents` is taken whole: `LeavesAfter` tells which join has the last word |
| `RemoteBodiesProofs` | proofs about it | |
| `Interpolation` | second half of `PumpRemotePlayers` | one body: `samples`, the rendered `position` as a fraction, the switch; `BeforeIndex` is where the loop over the history stops |
| `SpawnRegistry` | `SpawnProp`, `SpawnNpc`, `DespawnAll`, world | `spawned` is `m_spawned`, `hands` a command's new id or its `pending`; one step per locked access or call of the engine. `DropPending` and the failing `Delete` are the errors that are logged; `lost` records what lived when its id was forgotten so |
| `WorldProofs` | proofs about the two above | |
| `Scripts` | `LoadScripts`, `cybermp.on`, `Fire`, start and stop | `handlers` is `m_handlers`; `capacity`, `at`, `end`, `dangling` are the memory that `Fire`'s loop walks over; one step per handler called or registered |
| `Wire` | `Writer`, `Reader`, `Header`, messages, `Encode`, `Decode` | pure operators; an integer is the sequence of its 16-bit words, a string of its bytes; the state is one datagram and what happened to it |
| `WireProofs` | proofs about it | |
| `MC*` | instances for TLC | |

How they are composed. `GameTick` extends `TaskQueue`. `Cybermp` instantiates `Server` with the table as it stands
between two steps of the loop, so the decision about a Hello and what is sent to whom are defined once; that a
handler may be taken as one step there is what `Server` shows (`ToldRoster` and `RosterSpec` hold at every point of
the loop). `Server` and `Roster` are joined by a refinement mapping (`ServerObs!R`), and so are `Cybermp` and `Roster`
(`Cybermp!R`): the coarse server and the fine one keep the same promise. `RemoteBodies` takes the network
client's two containers as its environment (any joins, leaves, snapshots and reconnects), and `Interpolation` the
pump's moves.

Data is abstracted throughout: a name or an address is a model value, a position is left out of a snapshot
(in `Interpolation` it is the tick: a player that walks steadily), the text of kicks and logs is gone. `Wire` is
where bytes are bytes. Definitions marked `(mutated)` are faulty versions of the definition behind them, each a
plausible slip in that code; exchanging one for the original must break a property, which shows that the property
is able to fail.

## 3. Runs

| Run | Instance | Shows |
|---|---|---|
| `server_safety` | 4 addresses, 4 names and the empty one, 3 slots, ids to 4, 2 queued kicks, timeout 2, ticks 0..1 | `TypeOK`, `SessionsWellFormed`, `ToldRoster`, `ScriptsSeeRoster`, `KicksCarriedOut`, `RelaysAdvance`, `RelayReachesTold`, and that the server implements `Roster` |
| `cybermp` | anna on two sockets, bob on one, 2 slots, ids to 3, 2 Hellos each; both kinds of network | `PictureReal`, `PictureExact` |
| `keepalive` | the code's times in units of 250 ms | `NoFalseDrop`, `ClientNotices`, `ServerNotices` |
| `gametick` | 2 callbacks on 2 workers, budget 2 | `InOrder`, `EachOnce`, `DrainBounded`, `CountersAgree`, `NoPongAfterUnload`, `EachRuns` |
| `netclient` | 2 connections, 1 remote player, ticks to 2, 2 events, 2 Hellos | `OldConnectionGone`, `DisconnectIsFinal`, `NoEventLost`, `SentInOrder`, `ConnectingEnds`, `SilenceNoticed`, `CallsReturn` |
| `interpolation` | history of 3, delay 3, frames 0..2 apart | `OnTime`, `SettledForward` |
| `remotebodies` | 2 players, 2 connections, 2 events queued, 2 entities | `NoOrphan`, `BodiesArePresent`, `LeaversGo`, `JoinersAppear` |
| `scripts` | 2 scripts, 2 events, 6 handlers | `EachCalledOnce`, `LoadOrderKept` |
| `spawn` | 3 threads, 4 entities | `NoLeak`, `DeletedOnce` |
| `wire` | the code's limits, 1200 and 256 bytes | `RoundTrip`, `LengthChecked`, `Faithful` |
| `remotebodies_world` | 1 player | violation of `NoStaleIds` |
| `scripts_iterator` | as `scripts` | violation of `ServerStaysUp` |

### Bounds and why they are enough

* *Server.* Four addresses and names for three slots: a Hello can find the server full though its name is free,
  a player can leave and another take the slot, the roster has more than one entry. A timeout of 2 is the least
  at which "silent but not yet expired" exists; any jump of the clock up to it is a step. Ids up to 4 allow one
  player to come back under a new id. Two kicks in the queue allow the same player twice, two players, and kicks
  queued during the drain of others. Two ticks are "same" and "newer" (and "older" with them). Addresses are
  interchangeable, and so are non-empty names: nothing compares them but for equality, so symmetry is sound for
  the safety run. `MaxId`, `MaxTick` and `MaxKicks` bound the exploration only.
* *Whole system.* Two sockets of one person are a reconnect while the old session still has the name; the third is
  the witness that is told. Two slots can be full. Two Hellos per socket are one in time and one late; on udp a
  Hello can be taken again and again. Three ids let every socket have a session, or one of them two and another one; a body an earlier
  connection left can be there with its player gone, or in again under a new id.
* *Keepalive.* The times are the code's (`kPingIntervalMs` 1000, `kServerTimeoutMs` 8000, `kTimeoutMs` 10000,
  `kPollMs` 250): 4, 32, 40 and a turn of 1. A datagram takes up to one unit; up to two are lost before the client
  hears the server again; one turn of the server may take three seconds (12), because a script may do anything.
  These are limits of what is claimed, and they are written down as inequalities: `TurnsAssumption` (both loops turn
  more often than a ping is sent) and `TimeoutsAssumption` (each timeout is longer than the longest time between two
  pings that are not lost, the way there and back, and the long turn; the server's also than the turns in which the
  client reads the pongs that piled up). TLC evaluates both for the code's times, which
  meet them; a stall of `LongTurn` 17 or five losses do not. The deadlines are `ClientNoticeTime` and
  `ServerNoticeTime`, 37 and 53 units here. The player alone in no world is the worst case, as snapshots are signs of
  life too. Ages need no cap: what is in flight is read within a turn, and `since` stops at the deadlines.
* *Task queue and tick.* Two drains is what the two registered callbacks can have in progress; a budget of 2
  stands for 64, with more tasks than it.
* *Network client.* Two connections are one old and one new. Two events can be swapped, lost singly, or split
  between two calls of `TakeEvents`. Two attempts and a server timeout of 2 make the timers distinguishable.
* *Remote bodies.* Two players share the pump; two queued events are a leave and a join of one player in one
  batch; two entities are a respawn. `SetBodyKind` comes at any place of the pump, and any
  deletion may fail.
* *Interpolation.* The history (3) can be filled within the delay (3), which `kMaxSamples` (8) can by a burst
  within 100 ms at a high frame rate: the rendered sample is pushed out, and the properties must say so.
* *Scripts.* A script that fails before and after one that does not. Vectors grow by half as in the MSVC library the
  server is built with, so capacities are 1, 2, 3, 4 and 6: six handlers meet pushes that move the vector and one that does not.
* *Spawn registry.* Two threads that despawn and one that spawns meanwhile; four entities are a full registry and one
  that is entered late. Threads are interchangeable.
* *Wire.* Sizes are the code's; strings of every length at which something changes (0, 255/256, `kMaxStringSize`
  and one more, the last that fits a datagram and one more); words with zero and full bytes in each place. Damage is a
  cut or an added byte, or two bytes changed, near both ends, where the header, the lengths and the end of the body
  are.

Where a bounded system stops because a bound is reached, deadlock checking is off (the server's loop also really
ends on a signal, and `Scripts` ends with `StopAll`).

### Fairness

* *Tick*: weak fairness of each tick callback: the engine calls both every frame. `EachRuns` needs nothing else.
* *Network client*: weak fairness of the script thread inside a call and of the network thread, and strong
  fairness of an iteration with time passed. Nothing of the server: it may never answer. The user is not fair.
* *Remote bodies*: weak fairness of the pump: frames go on. Not of the entity system: spawns may never complete.
* *Server and keepalive*: what must happen there is stated with its deadline, as safety: kicks before the next
  datagram (`KicksCarriedOut`), silence within a given time (`ClientNotices`, `ServerNotices`). In
  `Keepalive` time cannot pass while a loop stands on top of a turn or over its longest turn, which is the assumption
  that the processes run; no fairness is needed.

## 4. What the checks show

The properties in the table above hold on the instances. In words, the most telling ones:

* `PictureExact`: the design of joins, roster and leaves is right within a connection: with a transport that delivers
  once and in order, a client that has read everything lists everybody who is in, through drops, refusals and
  reconnects, and besides them only players that were in its list before this connection and whose leave it was not
  sent. Those stay: a reconnect clears `m_remote` and `m_events` but not `m_bodies`, and the server sends a leave to
  those who are connected only.
  `PictureReal`: with plain UDP, too, everybody it lists was let in at some time, and is not itself.
* `NoFalseDrop`: the order in the loop (expire first, then read what waits) costs nobody the connection at the code's
  timeouts, with a stall of three seconds and two lost datagrams together.
* `ToldRoster`: after every step, the joins and leaves sent to each connected client add up to exactly the other
  connected players, so the server's part of the roster is right; what the network loses is another matter.
* `ScriptsSeeRoster`: "one at a time so Count() is accurate" (`main.cpp:235`) is true at every callback.
* `KicksCarriedOut`: a player whose kick was queued by the end of a tick's callback is gone before the next datagram
  is read, whatever is queued during the drain.
* `DisconnectIsFinal`, `OldConnectionGone`: joining the thread before `m_state` is set, and clearing before the
  new thread starts, is enough for all interleavings.
* `SentInOrder`: on one socket, ticks rise, for all calls of `SendState` that began in that connection.
* `NoOrphan`: however spawns, leaves, the world and `SetBodyKind` interleave, an entity is lost in two cases only: its
  deletion failed, or it was made while `SetBodyKind` was at the body it is for.
* `NoLeak`: whatever commands and changes of the world cross, a living entity is lost from the registry only by an
  error of the game that `DespawnAll` has logged.
* `EachCalledOnce`: a handler's failure or a registration that does not move the vector changes nothing for the others.
* `Faithful`: whatever bytes come, what is decoded is what stands in them.

### Findings

1. `remotebodies_world`: `OnWorldDetached` forgets `m_spawned` but not the entity ids in `m_bodies`, whose players
   get no body in the next world (`WorldSystem.cpp:111`).
2. `scripts_iterator`: `Fire` walks over a vector that a handler may grow with `cybermp.on` for its own event; the
   loop goes on in freed memory (`LuaBackend.cpp:96,191`), against "a bad script must never take the server down".

### Observations that are not runs

* The `Reliable` flag is written and never read (`Protocol.hpp:239`): without the transport it asks for,
  `PictureExact` does not hold on udp; a lost leave leaves the player in the list.
* Of two Hellos, one refused and the next accepted, the answers may arrive the other way round: the client stops with
  Refused while its session lives (`NetClient.cpp:253`).
* A repeated Hello that comes after a kick or a timeout makes a second session (`Session.cpp:71`); the client's list
  is then built on two rosters. `PictureExact` excepts it.
* A Hello with a name over 256 bytes does not decode and is dropped, so the reason promised by "always say why"
  (`main.cpp:84`) is not sent, and the test in `Session.cpp:54` is not reached from the wire.
* `Decode` does not ask for the end of the body: bytes inside the declared size that no field reads are accepted, as
  are any flags and any truth value other than 0.
* `LuaBackend::Start` returns true whatever was loaded, though "a backend that cannot load its scripts must not run
  silently doing nothing" (`Script.hpp:64`); handlers of a script that failed halfway stay registered.
* The check "tasks ran on the draining thread" uses one variable for two parallel ticks and may raise a false alarm
  (`WorldSystem.cpp:699,761`).
* In a body's first 100 ms the branch for "no later sample" is taken because there is no *earlier* one; the body is
  shown at its newest sample and jumps back (`WorldSystem.cpp:569`).
* `SetBodyKind` between the flag and the id of a spawn resets the flag, so that the next snapshot makes a second entity
  and the first is known to nobody (`WorldSystem.cpp:448,496,992`). `NoOrphan` names this exception; without it TLC
  finds the two steps.
* `DestroyBodyEntity` says whether it deleted the entity, and neither caller asks (`WorldSystem.cpp:418,994`): after a
  failure the entity stands until the world ends. `NoOrphan` and `LeaversGo` except it by name.
* `DespawnAll` forgets ids of living entities when it gets no entity system or a deletion fails
  (`WorldSystem.cpp:158-179`), so a second call does not try them again. `NoLeak` excepts them by name.
* `m_bodies` survives a reconnect with its `lastTick`, so a new player under an old id does not move until its ticks
  catch up; bodies of players that left meanwhile stay for ever (`WorldSystem.cpp:515`). `PictureExact` and
  `BodiesArePresent` say so.
* `NotifyPlayerLeft` erases the newest tick, so a snapshot that arrives later is stored whatever its tick
  (`NetClient.cpp:316`); with no body of that id it is not shown. A `SendState` that began before a reconnect can
  send its old, high tick on the new socket (`NetClient.cpp:361`).
* A command that created an entity before the world went enters its id after `OnWorldDetached` cleared the registry
  (`WorldSystem.cpp:129`): a stale id, which the next `DespawnAll` fails to delete and forgets.

## 5. What is proved

Every invariant and every action property that a passing run checks is a theorem here; what is left to TLC are the
properties that need fairness.

The assumptions are the named `ASSUME`s of the modules; no theorem has one of its own. Most are the types of the constants. Those that say more are the finiteness of `Endpoint` in `Server`, `TurnsAssumption` and
`TimeoutsAssumption` in `Keepalive` (section 3), and in `Wire` `LimitsAssumption` (a datagram and a string are shorter
than a 16-bit length can say) and `MessageAssumption` (a message has the fields of its type). All other constants are
free. Each property proved is checked by TLC in a run as well, but for the `TypeOK` of three modules,
`Cybermp!RosterSpec` and `KeepaliveProofs!RoundTripBounded`, whose proofs say more than a run.

`ServerProofs.tla`, for every finite set of addresses, every set of names, every capacity, timeout and bound:

| Theorem | States |
|---|---|
| `TypeCorrect` | `Spec => []TypeOK` |
| `WellFormed` | `Spec => []SessionsWellFormed` |
| `ImplementsRoster` | `Spec => R!Spec`: every step of the loop is a step of `Roster` or a stutter |
| `ToldCorrect` | `ObsSpec => []ToldRoster` |
| `ScriptsCorrect` | `ObsSpec => []ScriptsSeeRoster` |
| `KicksCorrect` | `ObsSpec => []KicksCarriedOut` |
| `RelaysInOrder` | `ObsSpec => RelaysAdvance` |
| `RelaysReach` | `ObsSpec => RelayReachesTold` |

The argument. `TypeOK` is inductive. `SessionsWellFormed` is inductive relative to it; the one step that matters is
`AcceptHello`, where `AcceptedMeans` turns the refusals of `Join` into "address and name are new and there is room",
and `nextId` above all ids makes the id new; `FiniteLive` makes the cardinality argument go through. All other
steps fall, by `StepShape`, into three shapes: the table keeps its members, loses one, or gains `nextId`. That
lemma gives the refinement directly, and carries the observation invariants: `ToldRoster` is not inductive alone,
since an id given out twice would spoil it, and so would two sessions at one address (datagrams are addressed to
endpoints, `told` is kept by id); the invariant `ObsIInv` is `ToldRoster`, `ScriptsSeeRoster` and `IInv`, which has
`SessionsWellFormed` in it. `KicksCarriedOut` speaks of the end of the drain; `KickInv`
says for each place before it where those who were to be kicked are: still in `kicks`, still in `draining`, or out of
the table. Lemmas about the ids in a queue (`IdsOfConcat`, `IdsOfTail`, `QueueGrows`) carry it over what callbacks
append meanwhile. The two relay properties are about steps: `RelayInv` ties what was relayed to the session's
`hasState` and `stateTick`, so that a relayed snapshot is newer by what `ApplyState` tests, and `ToldRoster` turns
"everyone but one" into "everyone who was told". `RosterSpec` of the runs is `R!Spec`.

`CybermpProofs.tla`, for any number of endpoints, names, Hellos, reconnects and ids, on both kinds of network:

| Theorem | States |
|---|---|
| `ListsReal` | `Spec => []PictureReal` |
| `ListsExact` | `Spec => []PictureExact` |
| `SystemImplementsRoster` | `Spec => RosterSpec`: the server with one step per handler implements `Roster` |

The argument. The heart is `Exact`: on a reliable network, for a client whose one session lives, an id is listed once
all that is in the queue is read (`Knows(list, queue, id)`: the last message about it is a join, or it is in the list
and no leave follows) just if it is another session's or an earlier connection left it and no leave follows (`Stays`).
Reading the head of a queue changes nothing of that (`KnowsHead`), and a message at its end has the last word
(`KnowsAppend`); the ack and the roster, which come in one handler, are a case of their own (`KnowsRoster`), which is
true whatever the length of the roster. `Exact` is inductive only with the rest of `IInv`: `Table` (ids of different
endpoints are different, each session's id was given to its endpoint, names are unique), `Alone` (a person has one
connection at a time: the list is the person's, and no other connection may touch it), `Uninformed` (a client without
a session lists what earlier connections left and nobody else, so the roster meets just that), `Started` (nobody is
sent anything before Connect) and `AllReal` (all joins in flight, and all that is listed, are of players let in, and
not of the receiver's person), from which `PictureReal` follows. `Transmit` picks any order of a set of datagrams that keeps
the code's (`Listings`), so the lemmas hold for all of them.

`KeepaliveProofs.tla`, for all times that meet the two assumptions, any latency, any number of losses:

| Theorem | States |
|---|---|
| `NobodyIsDropped` | `Spec => []NoFalseDrop` |
| `ClientFindsOut` | `Spec => []ClientNotices` |
| `ServerFindsOut` | `Spec => []ServerNotices` |
| `RoundTripIsBounded` | `Spec => []RoundTripBounded`: a pong is read at most `2 * Latency + LongTurn + ClientTurn` after its ping was sent |

The argument. Pings are sent at least a `PingInterval` apart, and `TurnsAssumption` makes each loop read faster than
that, so a line of datagrams gets no longer once the long turn is over. Hence bounds on how long each one waits: a ping
as long as the turn in progress may last; the k-th pong k turns of the client, and there are at most `MostPongs` at
once, those of the pings that piled up in the long turn. The inductive invariant says for each ping on its way, for
each pong and for the time since the client or the server heard something, what it is at most, counted from the place
in the line and from `lost`: each further loss pushes the next sign of life by one ping. While nothing happened to the
connection these bounds are below the timeouts by `TimeoutsAssumption`, which is `NobodyIsDropped`. After a fault no
sign of life is added: what was on its way is read within `Latency` and `MostPongs - 1` turns (`ClientNotice`), or
`Latency` and the long turn (`ServerNotice`), from there the timeout runs, and the next top of a turn finds it over.
The assumptions are enough, but not the least: with the other times fixed, TLC found no false drop down to timeouts of
27 and 28 units, where the assumptions ask for 30 and 34, and the client noticed after at most 35 units where
`ClientNoticeTime` is 37.

`GameTickProofs.tla`, for any number of drains in progress, any budgets and any number of tasks:

| Theorem | States |
|---|---|
| `TicksUseQueue` | `Spec => QueueSpec`: the plugin uses the queue by its operations only |
| `TasksInOrder` | `Spec => []InOrder` |
| `TasksOnce` | `Spec => []EachOnce` |
| `DrainsBounded` | `Spec => []DrainBounded` |
| `NoPongLeft` | `Spec => []NoPongAfterUnload` |
| `CountersRight` | `Spec => []CountersAgree` |

The argument. `QInv` is the types and the three properties together, and is inductive for the queue alone. It needs
all of them: that a batch is taken in order rests on the queue being increasing, and that no task is in two batches on
every number being in one place. `SliceSplits`, `TailLeaves` and `PushAppends` are what the three operations do to an
increasing sequence. The plugin's theorems follow from the queue's by `TicksUseQueue`. `NoPongLeft` has an invariant
of its own, `UnloadInv`: after the network thread has been joined nothing pushes for it, and the queue is cleared
after that. `CountersAgree` adds up what the ticks in progress have not yet reported; the sum is the size of a set of
pairs (`Counted`), so that a tick that ends takes its own pairs out and leaves the others' alone. It is inductive with
`Resting`: a tick that is not draining has nothing to report. The pongs are counted from the last Connect
(`ran \ earlier`), which may come in the middle of a drain.

`NetClientProofs.tla`, for any number of connections, players, ticks, events and Hellos:

| Theorem | States |
|---|---|
| `TypeCorrect` | `Spec => []TypeOK` |
| `NothingOld` | `Spec => []OldConnectionGone` |
| `DisconnectStays` | `Spec => []DisconnectIsFinal` |
| `EventsKept` | `Spec => []NoEventLost` |
| `SendsRise` | `Spec => SentInOrder` |

The argument. `Phases` is what the join buys: between the close of a connection and the thread of the next there is no
network thread, and the state is Disconnected once it has been set. `Clean` then says that what `ClearRemote` and
`ClearEvents` emptied is still empty when the thread starts. `NoEventLost` is inductive with `Types` and `Phases`. For
the ticks, `Numbered`: the tick a `SendState` carries, if it began in this connection, is above any sent on the socket
and not above the counter, which only Connect resets. The lemmas `UserFrame`, `ScriptFrame`, `TickFrame` and `NetFrame`
say which thread writes what, so each part looks at the threads that can disturb it.

`RemoteBodiesProofs.tla`, for any number of players, connections, entities and queued events:

| Theorem | States |
|---|---|
| `TypeCorrect` | `Spec => []TypeOK` |
| `BodiesMatch` | `Spec => []BodiesArePresent` |
| `EntitiesHeld` | `Spec => []NoOrphan` |

The argument. `Announced`: the bodies as the queue will leave them (`Members`) are the players present, at every
point; a join or leave at the end of the queue has the last word, and taking the batch makes the bodies just that. A
reconnect empties the queue, and the bodies that stand then count as present, so it holds in every connection.
`Linked`: an entity that is not lost is held by its player's body, whose flag is set; the player the pump is creating
one for, and the one whose body `SetBodyKind` has in hand, have none that is not lost (`None`). What makes it inductive is
that an entity becomes lost exactly where its link is cut: in a deletion that fails, and in `Create` when `SetBodyKind`
has been at the body since the flag was set, or is there now. `DestroyLeaves` says that what `Destroy` leaves of a
set is lost; ids only grow, so the new id is nobody's.

`WorldProofs.tla` about `Interpolation`, for every delay, length of the history, rhythm of frames and snapshots:

| Theorem | States |
|---|---|
| `TypeCorrect` | `Spec => []TypeOK` |
| `BodyOnTime` | `Spec => []OnTime` |
| `BodyForward` | `Spec => SettledForward` |

The argument. The history is in order and the body is at the target of the last frame (`Placed`). `LoopStops` and
`ReachedOnes` say where the loop over the history stops (the least index whose next sample lies ahead exists by
well-foundedness; no induction over the sequence). `TargetBounds`: the target lies between the tick of the last sample
reached and that of the next, by `Mean`, the arithmetic of a weighted mean. `HistoryGoesOn`: the history of the next
frame is the old one less at most its oldest sample, plus at most a newer one; hence (`TargetRises`) either the body is
between the same two samples, with a greater weight, or a whole sample lies between the two targets.

`ServerProofs.tla` about `Scripts`, for any number of scripts, handlers and events: `CalledOnce` (`ScriptsSpec =>
[]EachCalledOnce`) and `LoadOrder` (`ScriptsSpec => []LoadOrderKept`). `Walking` says that as long as the vector has
not moved, what `Fire` walks over is what was there as it began, and what it has called is the part before the pointer:
a registration for the same event only adds behind its end. `InTurn` says that owners rise with the numbers of
handlers, which `Numbered` carries over to each event's vector.

`WorldProofs.tla` about `SpawnRegistry`, for any set of threads and any number of entities: `NothingLeaks`
(`RegistrySpec => []NoLeak`) and `NothingDeletedTwice` (`RegistrySpec => []DeletedOnce`). The invariant `RegistryInv` says that
an id is in at most one place, the registry or one command's hands, and in none once `DeleteEntity` was called with it;
neither property is inductive without it. An id leaves these places for good in three ways: its entity was deleted, the
world ended, or the game reported an error, and then `lost` has it.

`WireProofs.tla`, for every set of messages, all limits that 16 bits can hold, and any damage of the kinds in `Next`:

| Theorem | States |
|---|---|
| `WhatIsSentIsRead` | `Spec => []RoundTrip` |
| `WrongLengthIsNoMessage` | `Spec => []LengthChecked` |
| `WhatIsReadStandsThere` | `Spec => []Faithful` |

The argument. `Body` is a flattened sequence of parts; `Flattening` gives the place of each part in it, by induction
over the number of parts (`UpFromZero`, which is well-foundedness of `<` used on the set of indices for which the claim
holds, since the library's induction theorems take an operator). For each kind of field there are two lemmas: where
`Written` put a value, the read finds it (`ReadsBack`), and what a read returns stands before the reader's new place
(`ReadsWhatStands`). They rest on the arithmetic of two bytes in a word (`Words16`, `WordBytes`). Induction over the
fields of a layout puts the fields together (`FieldsReadBack`, `FieldsStand`); a string longer than
`kMaxStringSize` makes its read fail, and failure stays, which is the other half of `RoundTrip`. The state adds little:
`WireInv` says that an undamaged datagram is what `Encode` made, that a datagram cut or lengthened no longer has the
size its header declares, and that every datagram is a sequence of bytes.

Only model-checked: everything under fairness (`EachRuns`, `ConnectingEnds`, `SilenceNoticed`, `CallsReturn`,
`LeaversGo`, `JoinersAppear`), as ENABLED is beyond TLAPS.

## 6. What is not modelled

The engine and Codeware (external: entities asked for, appearing, deleted, dying with the world), Winsock, log
output, statistics that decide nothing (`m_sent`, `m_received`, round-trip times, tick durations), text of reasons,
the way a body is written to the engine (`WriteTransform`, `WriteMover`, `WriteTeleport`), console commands that read
or set one value, several scripting backends at once. `nettest` drives a server by hand and holds no state of the
system; the Debug API prints type information. Torn memory by unlocked containers is undefined behaviour and only its
interleavings at whole fields are modelled: `SetBodyKind`'s walk over a map that changes under it is one body at a
time, any of them next, and an entry freed in its hands is gone or another body's. The freed memory of `Fire` is modelled
by its outcomes (`CallFreed`, `Crash`). `Cybermp` has one server that is never restarted, so its ids never come again;
what a client does that reconnects to another one, where they do, is in `RemoteBodies` and `NetClient` only.

## 7. Plan

Done: all components of the inventory with state, their composition in `Cybermp` and `Keepalive`, and the proofs of
section 5, which cover every safety property the passing runs check. Left:

1. An abstract queue of joins and leaves between `NetClient` and `RemoteBodies`, implemented by the one and assumed by
   the other, as the two use it today without saying so.
2. Tight bounds for `Keepalive`: the ones proved are up to six units of 250 ms above what TLC finds.
