# Formal models of MVPlanner

MVPlanner is a MAVLink ground control station that runs in a browser: a user
interface and a set of protocol clients on the main thread, a worker that
decodes and encodes MAVLink, and a transport that carries the bytes. This
directory holds TLA+ models of the parts where order, loss and lateness decide
whether the program is right, the TLC instances that check them and the TLAPS
proofs about them. Paths below are relative to the repository, in most cases to its
`src/` directory.

- [1. Inventory](#1-inventory)
- [2. The models and how they correspond to the code](#2-the-models-and-how-they-correspond-to-the-code)
- [3. The runs](#3-the-runs)
- [4. Fairness](#4-fairness)
- [5. The proofs](#5-the-proofs)
- [6. What the models showed](#6-what-the-models-showed)
- [7. What is not modelled, and the plan](#7-what-is-not-modelled-and-the-plan)

To check everything: `tlc -config <cfg> <module>` for each line of the table in section 3,
and `tlapm` on the eight modules that hold theorems: `CommandClientProofs`,
`MissionClientProofs`, `ParamClientProofs`, `LinkProofs`, `MCClients`, `MCPlumbing`, `Stores`
and `Screens`.

## 1. Inventory

```
  screens, widgets ─ extensions ─ alerts        secrets, settings, recent files, tiles
        │                │                       (key-value, blob and log stores)
  drawer ── ConnectionManager ── MavlinkHost ──(RPC, FIFO each way)── worker session
        │                  │        │ owns                             parser, loss counter,
        │            microservices  │                                  registry, vehicle model,
        │   (command, mission,    transport ── forwarder, recorder     signing
        │    param, ftp, log,       │
        │    calibration...)     vehicle(s)
```

### Parts that are modelled

For each part: its state, its operations, what is hard, and what makes it right.

**Command microservice** (`mavlink/microservices/command/command-client.ts`).
State: `pending`, a list of calls with their timer, attempts and abort listener;
`disposed`. Operations: `send` and its helpers (`arm`, `takeoff`, ...), `setMode`
with its fallback to the legacy `SET_MODE` message, one-way messages
(`guidedGoto`, `setCurrentWp`), `dispose`; handlers: `onAck`, the resend timer, the
answer of `sendMessage`. Hard: several calls of one command at once,
acknowledgements that are late, repeated or come from another component, the
selected vehicle changing meanwhile, four ways to end one promise. Right when: a call
is reported done only if the vehicle it was addressed to accepted it, a promise
settles once, every call ends, no timer outlives its call.

**Mission microservice** (`.../mission/mission-client.ts`). State: three sets of
half-duplex transfers (`downloads`, `uploads`, `clears`), each with a phase, a
position and a timer. Operations: `download`, `upload` with optional read-back,
`clear`; handlers of `MISSION_COUNT`, `MISSION_ITEM_INT`, `MISSION_REQUEST(_INT)`,
`MISSION_ACK`; timers. Hard: replies carry no transfer identity, only a type that
MAVLink 1 omits; resends make repeated replies; a verified upload turns into a
download. Right when: a download is a list that the vehicle held, a verified upload
left its list there, replies stay with their vehicle, every transfer ends.

**Parameter microservice** (`.../param/param-client.ts`). State: `cache`, `fetches`,
`sets` (one per name), timers. Operations: `fetchAll` with quiet window, gap requests
and a bound on rounds without progress; `set` with resends and supersession;
`PARAM_VALUE` handler. Hard: one message serves fetches, confirmations and
announcements; lost values; vehicles that enable parameters. Right when: a fetch that
resolves has the whole list, a write is confirmed by its own vehicle, listeners know
what the cache holds, every call ends.

**FTP and log clients** (`.../ftp/ftp-client.ts`, `.../log/log-client.ts`). State: a queue
of operations and the one request under way; the size cache, the download and its
missing ranges. Operations: list, read (burst, with a sequential fallback), write, remove,
abort, dispose; list, download, erase. Hard: sequence numbers modulo 2^16 against late
replies, bursts with holes, retries of a write or a removal that was already done, data of
a log that the vehicle goes on writing. Right when: what a call answers is what the
vehicle holds.

**Joystick and calibration** (`.../manual/`, `.../calibration/`, and the joystick panel).
State: active or not, the last frame; one calibration, its taps on messages and its
timer. Hard: the gamepad vanishes or the panel goes while the vehicle obeys an override; a
calibration is aborted around its start. Right when: the vehicle is let go.

**Connection session** (`mavlink/host/host.ts`,
`transport/manager/connection-manager.ts`, `ui/shell/connection/drawer.tsx`,
`provider.tsx`) and **worker** (`workers/mavlink.worker.ts`,
`mavlink/host/session.ts`). State: the host's transport, reader, writer, write chain and
the two RPC streams; the manager's shown state, vehicle rows and default-stream
request; the worker's session, outgoing sink and timers. Operations: connect,
disconnect, dispose, `sendMessage`, the byte relays, snapshots, heartbeats. Hard:
`connect()` and `disconnect()` await the worker, the port and the writer, and
everything else runs in between; envelopes of one link are under way while the next
one opens. Right when: nothing of one link reaches another, one device is open at a
time and none after `dispose()`, the state shown is the link's, both calls end.

**Transports** (`transport/serial`, `websocket`, `bluetooth`, `webrtc`, `replay`). State: the
five connection states of the contract and, per transport, a port with two pipes, sockets
with a reconnection timer, a GATT connection, a peer with a channel, a log with a timer.
Hard: `open()` is a chain of awaits, and `close()`, a loss of the device or a late failure
comes at any of them. Right when: they implement the contract, hold nothing once closed,
and a lost bridge is tried again.

**Parser and loss counter** (`mavlink/codec/parser.ts`, `mavlink/registry/loss.ts`). State: a
buffer of bytes and a partial frame; the last sequence number and four counters. Hard: frames
cut anywhere behind garbage that looks like a frame; eight-bit numbers that wrap. Right
when: what is delivered does not depend on how the bytes were cut, and the counters
account for every frame.

**RPC bus, sandbox, terrain service** (`core/bus/rpc.ts`, `ext/sandbox`, `.../terrain`,
`geo/terrain/provider.ts`). State: tables of calls and streams on both sides; a guest with its
watchdog; requests of the vehicle and a shared cache of decoded tiles. Hard: a cancel
crosses an answer, a side is disposed of, a guest hangs, a tile is evicted between two
awaits. Right when: each caller is answered once and the answer is true.

**Forwarder** (`transport/forward`, `ui/shell/connection/forward-control.tsx`). State: targets
with a sink, a queue and two stream locks. Hard: locks are released only when a write or a
read under way ends, and a restart needs them. Right when: a restart finds the streams free.

**Recorder, application store, secrets, recent files** (`data/tlog/recorder.ts`,
`core/store/app-store.ts`, `core/secrets/secret-store.ts`, `core/recents/store.ts`). State: what
is in memory, what waits to be written, what is stored. Hard: the page is closed or a
store refuses between any two writes. Right when: what is reported as stored is, and what is
stored can be read.

**Map tiles** (`ui/widgets/map/engine.ts`, `geo/tiles/cache.ts`). State: decoded images, loads,
stored blobs. Hard: a load comes back after the layer was changed, or its record was evicted
between two reads. Right when: what is drawn is of the layer that is shown.

**Extension host, permissions, audit log** (`ext/host/host.ts`, `ext/permissions`,
`core/audit/audit-log.ts`). State: the status of each extension and its guest; grants; a ring
of entries. Hard: an activation is shared by several callers, and disable, uninstall
and reload run while it awaits. Right when: nothing disabled keeps a guest, and what
runs was granted.

**Vehicle model and alerts** (`vehicle/model.ts`, `core/audio`). State: a record per source,
the vehicle shown, what was said when. Hard: vehicles take turns, alerts are limited
and muted. Right when: nothing bad stays unsaid.

**Screens** (`ui/screens/setup`, `config/params`, `plan`, `logs`, `ui/shell` workspaces). State:
what a screen shows, and the operations it started. Hard: an operation ends after the screen
was left or the vehicle changed. Right when: what is shown is of what is shown it is of, an
emergency stop stops, edits go to the vehicle they were made for.

### Parts that are not modelled

| Part | What it is, and why it is left out |
|---|---|
| Stream rates | one command per call (`CommandClient`); the default request is a message of `Link` |
| Encoder, dialects | byte layouts and generated tables |
| Message registry | counts messages for the inspector; its loss counter is in `LossTracker` |
| Browser storage | one call per record; taken as a store that writes a record whole or not at all |
| Key bindings, theme, units, i18n | small synchronous stores and formatting |
| Geometry, file formats, log decoding and queries | pure functions over floats and bytes |
| Flight, configuration and settings screens, widgets | rendering; what a click starts is modelled where it goes |
| `bridge/`, sample extensions | a stateless byte proxy, and examples |

## 2. The models and how they correspond to the code

| Module | What it is |
|---|---|
| `OneShotCalls` | what a request/response client promises its caller: a call is issued once, stays open, and ends once, with success only if the peer granted it |
| `CommandClient` | the command microservice with its vehicles and link; the refinement mapping to `OneShotCalls` |
| `CommandClientProofs` | its inductive invariant and theorems; the proof that it implements `OneShotCalls` |
| `MissionClient`, `ParamClient`, `FtpClient`, `LogClient` | a microservice each, with its vehicles and link; the first two also say what TLC gives their constants |
| `MissionClientProofs`, `ParamClientProofs`, `LinkProofs` | the inductive invariants and theorems of these three |
| `ManualControl`, `Calibration` | the joystick with its panel; the calibrations |
| `Link` | drawer, manager, host, RPC channel, worker and transports, composed in one module because every one of its properties is about at least two of them |
| `Transport` | what `contracts/transport.ts` promises the owner of a link |
| `SerialTransport`, `WebSocketTransport`, `BluetoothTransport`, `WebRtcTransport`, `ReplayTransport` | the transports on their own; the first four implement `Transport` |
| `Parser`, `LossTracker` | frames out of bytes; the loss of a source |
| `Rpc`, `Sandbox`, `Terrain` | the call and stream tables; extensions in guests with a watchdog; heights for the vehicle |
| `Forwarder`, `ForwardControl` | copying one link to others; the controller and the drawer that drive it |
| `Recorder`, `AppStore`, `SecretStore`, `Recents`, `MapTiles` | what the page keeps |
| `ExtensionHost`, `Permissions` | the life of an extension; grants, broker and audit log |
| `Alerts` | the state derived of a vehicle and what the operator hears of it |
| `Motors`, `SetupFlows`, `ParamEdits`, `PlanScreen`, `LogsScreen`, `Workspaces` | the screens that start operations which outlive what they show |
| `Stores`, `Screens` | instances of the modules about what the page keeps and what it shows or steers; what each group promises, and the proofs |
| `MCClients`, `MCServices`, `MCPlumbing`, `MCStores` | instances for TLC: symmetry, sets of values, and compositions; `MCClients` and `MCPlumbing` also hold theorems, about the clients together, the transports and the loss counter |

`MCClients`, `MCServices`, `MCPlumbing` and `MCStores` (which puts `Stores` and `Screens` together)
put modules that share nothing side by side: the variable `part` says which module a behaviour
is about, and the others rest where they begin. A part behaves there as it does alone, so
that what is proved of its own specification holds of the composition. The state space is the sum, not the product, of theirs, and a
property of such a module is a conjunction that says one thing of each part. Modules
that do interact are composed in one module, with common variables (`Link`,
`Permissions`, `MapTiles`, `Terrain`, `Alerts`, `ForwardControl`), or connected by a
refinement (`CommandClient` to `OneShotCalls`, the transports to `Transport`).

Operators whose comment begins with *Mutant* or *A plausible mistake* (`mutants` in
`PROJECT.json`) are small mistakes in the code next to which they stand. They are used by no
specification; each shows for one property that the property notices the mistake when it
replaces the definition below it.

In all modules, what JavaScript runs without returning to its event loop is one action, so
an action ends at an `await` that really waits or at the end of a handler. A fact
that only a property needs (the order of calls, what a vehicle held, whether an
operation was overtaken) is a variable or a field of its own that no guard reads.

### CommandClient

`op[o]` is the `Pending` record of call `o` plus how its promise ended; `pending`
is the set of calls with status "pending", their order the field `ord`. `armed`
is the set of calls with a running timer, `listening` those with an abort listener.
`sends` holds messages whose `sendMessage` promise has not settled, `wire` what went
out, `acks` what the vehicles answered. `wire` and `acks` only grow, so an element may
be received any number of times, in any order, or never: loss, repetition and
reordering need no actions of their own.

| Action | Code |
|---|---|
| `Refuse`, `Send`, `SendOneWay` | the entry checks and bodies of `send`, `setMode`, `guidedGoto` ... |
| `Tick` | `tick()`: resend or time out |
| `SendDone`, `SendFailed` | the two outcomes of `Promise.resolve(sendMessage(...))` in `transmit` |
| `Abort`, `Dispose` | the abort listener, `dispose()` |
| `OnAck` with `Correlated`, `Progress`, `FallBack` | `onAck()` and the `catch` of `setMode` |
| `VehicleAnswers` | external: any component of a vehicle answers a command it received |

The active vehicle is an argument of the entering actions, since `getActiveVehicle()` is
read once, on entry. The seven command parameters are left out: no decision depends on
them. `DENIED` stands for all terminal results that are treated alike.

### MissionClient

`op[o]` merges `DownloadOp`, `UploadOp` and `ClearOp`; `call` is what the user asked
for, `role` the handshake in progress, so that a verified upload that reads back is
`call = "upload"`, `role = "download"`. A link such as serial or TCP keeps order and
loses messages: `up` and `down` are sequences and `LoseUp`, `LoseDown` drop a head.
`Download`, `Upload`, `Clear`, `Tick`, `Abort`, `Dispose`, `SendFailed`, `OnMessage` (with
`OnCount`, `OnItemInt`, `OnItemRequest`, `OnAck`) are the methods of the same name;
`InRole` and `Matching` are `matchDownload`, `matchUpload` and the relaxed type check of
`canRelaxMissionType`. The vehicle side (`VehicleReceives`, `VehicleRejects`) is external
and follows the mission protocol as the client expects it. An item is one value; the
notifications `onCurrent` and `onReached` and the fire-and-forget `setCurrent` keep
no state and are left out.

### ParamClient

`op[o]` is a `FetchOp` or a `SetOp`, `sets` the map by name, `cache` the cache, and `told`
the last value given to `onChange` listeners. `Fetch`, `Set`, `SetTick`, `FetchQuiet`,
`OnParamValue`, `Abort`, `Dispose` and `SendFailed` are the methods; `Record`, `Confirms`,
`Announced`, `Relevant` are the parts of `onParamValue`. `OtherStation` and `Grow` are
external: another station writes a parameter, a vehicle enables one. Values stand for
numbers further apart than the tolerance of `valuesMatch`; parameter types and what a
fetch returns for each index are left out (`received` is the set of indices).

### FtpClient, LogClient

`op`, `queue`, `run`, `tx`, `seq` are the calls, `opQueue`, the running operation, the pending
request with its retries and the sequence number (modulo `SeqRange`). A reply and the
request it leads to are one action (`OnReply`), because what follows a settled
promise runs before the next event. `Start`, `Timer`, `SendFails`, `Abort`, `Dispose` are the
queue, the retry timer and the ways to end. The server (`Serve`) is external, with three
`traits`: how it ends a burst, whether it counts what it sends, whether it tells the size.
A file is a sequence of chunks.

`LogClient` has one active operation (`active`), the cache of sizes, and the set `air` of
messages under way, each of which may be received, repeated or lost. `Quiet` is the timer
that asks for what is missing or gives up after `MaxStalls` rounds; `Record` is the vehicle
that goes on writing its last log, `Select` the change of vehicle.

### ManualControl, Calibration

`Start`, `Stop`, `Dispose`, `Tick`, `SetConfig` are the service's methods; `Environment` is the
gamepad, the arming state, the selection and time. A frame is "live" or "neutral". In
`Calibration` a call is a sequence of commands and messages with `taps` (listeners) and
`timers`; the vehicle is a queue of commands it receives and of reports it sends.

### Link

A transport is a number in order of creation; vehicle rows, RPC streams and frames carry
the number of the link they belong to, which is how "of this link" can be said. `at`
tells at which `await` the operator's call and `dispose()` stand. `toWorker` and `toMain`
are the two FIFO directions of `PostMessageRpc`.

| Definitions | Code |
|---|---|
| `Connect`, `Disconnect`, `Connected` | `handleConnect`, `handleDisconnect`, `isConnected` of the drawer; `busy` is its guard against a second click |
| `StartDisconnect`, `WriterClosed`, `LetGo`, `PortClosed`, `Finish` | `MavlinkHost.disconnect()` cut at its awaits |
| `Create`, `OnReset`, `Opened`, `OpenFails` | `MavlinkHost.connect()` cut at its awaits |
| `Dispose`, `DropChannel` | `MavlinkHost.dispose()`, `PostMessageRpc.dispose()` |
| `Shows`, `Defaults`, `OnDefaults` | `ConnectionManager.onHostState`, `requestDefaultSet` |
| `WorkerReceives`, `Beat`, `Snapshot` | the handlers and the two interval timers of the worker |
| `MainReceives` | results and stream envelopes that reach the main thread |
| `Pump`, `WriteDone` | `pumpInbound`, `enqueueWrite` |
| `Drop`, `Reconnect`, `SocketError`, `PipeError`, `Unplug`, `End`, `Chunk` | what a transport does on its own |

`tx` is the outgoing side of a transport: a serial port pipes a `TransformStream`
into the port, and when the pipe has stopped the stream accepts one more frame ("room")
and then none ("stuck").

### The transports and their contract

`Transport` has three variables: the connection state, the call of `open()` and whether a
device is held. Its actions say what any transport may do (`Acquire`, `Opened`,
`Trouble`, `Fails`, `Close`, ...). Each transport maps its own state to these three with an
operator `Held`, and `ImplementsTransport` says that its steps are steps of the contract.

| Module | State and steps |
|---|---|
| `SerialTransport` | `port`, `pipes`, `device`; `open()` at the picker, the port and the undo; `close()` aborts the pipes, waits for them and closes the port; `Unplug`, `PipeError` |
| `WebSocketTransport` | `sockets`, of which `current` is the one in the field; `timer`, `attempt`, `byUser`; every event of every socket, also of one that was left |
| `BluetoothTransport` | `step` in the chain of GATT calls, `conn` the connection epoch, `closing`; `Write` and `WriteFails` late |
| `WebRtcTransport` | `peer`, `channel`, `opened`, `step`; the events of both at any await |
| `ReplayTransport` | `frames`, `index`, `timers` (a count: two would be an error), `last`, `due` |

### Parser, LossTracker

A byte is a number up to 6, a frame a short sequence whose checksum is a sum; `coming`
is what the link will deliver, and `Push(n)` gives the parser the next `n` bytes. `Push`
is the loop of `push()`: search for a magic byte, wait for the rest, reject by flags,
message or checksum and go on one byte later, deliver otherwise. `Restart` changes the
key. `LossTracker` follows `observe()` line by line; `first` and `newest` are the true
numbers, unbounded, that the source gave its frames.

### Rpc, Sandbox, Terrain

`Rpc`: `toPeer` and `toCaller` are the channel, `call` and `handler` the tables of both sides,
`DisposeCaller` and `DisposePeer` the two ends. `Sandbox` uses the same channel for one guest:
`Activate`, `Deactivate`, `Dispose` of the runtime, `Trip` of the watchdog, and a guest that
`Evaluates` its code, `Answers` a call or lets it wait (`stalled`) and `Resumes` it, `Hangs`, `Beats`
or `Invokes`. A handler that is "lost" in `Rpc` is over and has told nobody. `Terrain`: a request is a list of blocks, a block a
list of posts, a post the tiles it is interpolated from; `Look` reads the cache, `Fetched`
fills it and evicts, `Send` answers.

### Forwarder, ForwardControl

`sink[t]` and `loop[l]` are the outgoing sink of a target and the read loop of a link; each
may hold a lock. `Stop` puts the locks it waits for in `releasing`, `Start` waits for them
(`awaited`), `orphans` are the locks of removed targets that no `stop()` knows of.
`ForwardControl` is the component that is mounted and unmounted around `start()` and the
drawer's disabled buttons.

### What the page keeps

| Module | Correspondence |
|---|---|
| `Recorder` | `pending` frames, `chain` of writes behind which `stop()` and `export()` wait, `flushError`; a write may fail |
| `AppStore` | `pending` patches, `timer`, `last` the baseline, `chain` of writes of two keys; `Hide` flushes at once, `Reload` may cut anything |
| `SecretStore` | `vault` record, `secrets`, `index`, `key` in memory; each operation of `calls` stands at one of its awaits; `Close` ends the page |
| `Recents` | `entries` in memory and `stored`, `blobs`; the queue `calls` with `Begin`, `Dropped`, `Put`, `Persist`, each of which a store may refuse; `Close` |
| `MapTiles` | `source`, `generation`, `bitmaps` and `pending` of the engine, `stored` and the `sweep` of the cache; a load stands at size, range, fetch, decode or put |

### Extensions, alerts

`ExtensionHost`: `managed` is the object the host holds now, `made` counts the objects that
installations made; `act` and `down` are the shared activation and teardown, `calls` the
operations that wait for them, `guests` what really runs. What an operation stores goes through
`saves`: `Begin` (the record is on its way), `Reads` (the index is asked for), `Writes` and `Saved`;
`Other` is another extension that writes the same index, and `Restored` is what `restore()` makes of
record and index. `Permissions`: a call goes through
`Invoke` (the read of the grants), `Gate`, `Decline` or `Approve`, `Ran`; `log` is the ring.
`Alerts`: `model` has a record per source (system and component), `active` is the worker's
vehicle, `rows` the last snapshot on the page, `lately` the system heard last, `selected`
the one the operator chose; `Publish` sends a snapshot and says what changed. One behaviour
follows one `aspect` (armed state, battery, GPS, EKF).

### Screens

| Module | Correspondence |
|---|---|
| `Motors` | `calls` are the pending commands of the panel in the order of the command client, `wire` and `acks` the link, `spinning` the motors that turn; the loop of the emergency stop is one call after the other |
| `SetupFlows` | `flow` is what the pane shows, `run` the run that it shows it of, `ops` the calibration operations that go on, `gate` the button; `Unmount` and `Mount` |
| `ParamEdits` | `shown`, `pending` (staged edits), `busy` of this mount; `fetches` and `writes` under way of any mount, a write with its `entries` and the number `done`; `held` is what the vehicles hold. `Asks`, `Confirms`, `Echoed`, `Commit` are the writing loop cut at its awaits; `Sends` supersedes as `ParamClient.set` does; `Switch` changes the active vehicle, `Remount` leaves the panel and mounts it again |
| `PlanScreen` | `shown`, `busy` of this mount, the `transfers` with their questions and the mount that began them, `Leave` and `Mount`, `token` of the path, `samplings` under way and the `profile` |
| `LogsScreen` | `loads` under way, the `session` that plays, `pending` the recent file that was chosen from elsewhere |
| `Workspaces` | `root` is the tree of splits and tabs; `Add`, `Close`, `Move`, `SelectTab`, `Maximize`, `Reset` with their normalisation; `counter` restarts with `Reload` |

## 3. The runs

| Run | Module, config | About |
|---|---|---|
| clients_overlap | `MCClients`, `MCClients.cfg` | two overlapping calls to two vehicles: of one command, of mission transfers, of parameter fetches and writes |
| clients_liveness | `MCClients`, `MCClients_liveness.cfg` | two commands; two fence transfers that compete for the replies of a MAVLink 1 vehicle; calls to a vehicle that adds a parameter |
| mission_transfers | `MissionClient`, `MissionClient.cfg` | two transfers, one after the other, with resends, losses, refusals and leftovers of the first |
| param_fetch | `ParamClient`, `ParamClient.cfg` | overlapping fetches and writes with a station that interferes |
| link_session | `Link`, `MCLink.cfg` | two links, of any kinds, one after the other |
| services | `MCServices`, `MCServices.cfg` | what is put together from its pieces: FTP against four kinds of server, and two FTP calls in a row; logs; the tree of windows |
| plumbing | `MCPlumbing`, `MCPlumbing.cfg` | what carries bytes, messages and records, and every call that waits on it: 16 parts, with liveness |
| stores | `MCStores`, `MCStores.cfg` | what the page keeps, shows, steers and says: 13 parts (1.6 million states) |
| mission_types | `MissionClient`, `MissionClient_types.cfg` | violation: see 6.1 |
| param_growing | `ParamClient`, `ParamClient_growing.cfg` | violation: see 6.2 |
| link_default_set | `Link`, `MCLink_defaults.cfg` | violation: see 6.3 |
| link_unplug | `Link`, `MCLink_unplug.cfg` | violation: see 6.4 |

Deadlock checking is off throughout: each model has finitely many calls, and a part
whose calls have ended or that was disposed of rightly does nothing more.

Every passing run but clients_liveness checks `TypeOK`, the type invariant of its parts
(clients_overlap does for `MCClients`). The other properties:

| Run | Property | What it says |
|---|---|---|
| clients_overlap | `TransmissionsBoundedAndAddressed` | at most `maxAttempts` transmissions, always to the vehicle addressed |
| | `TimersMatchPending`, `TimeoutMeansExhausted`, `SettledForever` | the timers are those of the pending calls; a timeout is reported only when the attempts are used up; a promise settles once |
| | `ConfirmedWasHeld` | a parameter write is confirmed only if its own vehicle held the value |
| | `TransfersStayApart` | no reply moves a transfer with the other vehicle; mission timers are exact, and what ended stays ended |
| clients_liveness | `ResolvedWasAccepted`, `ImplementsOneShotCalls` | a command is done only if its vehicle accepted it; the client implements the contract |
| | `EveryClientCallEnds` | every command, transfer, fetch and write ends |
| mission_transfers | `DownloadedIsHeld`, `VerifiedUploadIsHeld` | a download is a list that was held, a verified upload left its list |
| param_fetch | `SteadyFetchIsComplete`, `BookkeepingIsTrue` | a fetch that no growing list overlaps with is complete; timers, the map of sets, cache and listeners agree |
| link_session | `SentOnThisLink`, `DevicesAreLetGo`, `ShownIsTrue` | no message of one link on the other; one open device, none after `dispose()` but for the one that 6 describes (`orphan`); the state and the rows shown are the link's |
| | `CallsEndUnlessStuck` | connect, disconnect and dispose end unless a serial writable is stuck, or a `connect()` asks the worker after `dispose()` |
| services | `FilesAreExact` | a read is what the server holds, and a write, a removal or a list is done only if it is so there |
| | `LogsAreExact` | the ranges of a download are what has arrived, its end means all has; lists and cached sizes are the vehicle's |
| | `WindowsStay` | no window is lost, the tree can be drawn, the tab that is in front stays |
| plumbing | `ImplementsTransport` | four transports implement `Transport` |
| | `LinksAreHonest`, `LinksRecover` | nothing is sent on a closed socket, a lost bridge is tried again, no device is left open, one replay timer; a bridge that accepts again comes back, a closed port is freed, a replay ends |
| | `ForwardingServes` | a running forwarder serves every target; a restart finds the locks free and happens; nothing after a stop; one forward at a time |
| | `CallersAreServed` | streams are whole, a cancel reaches its handler, every FTP and log call ends, every RPC call whose handler does not throw at once and whose answer can be posted, and both calls of every activation unless the guest lives on without an answer; a guest is ended once, heights are those of the post, every terrain request ends |
| | `FramesAreKept` | parsing does not depend on the cuts; the loss counters account for every frame; no recorded frame is dropped, an export is whole or fails, a stop tells of a failed write |
| | `SettingsAreKept` | stored records do not go back, the baseline is what was stored, the last state is stored in the end |
| stores | `SecretsAreKept` | each stored secret is readable with the vault's key unless a rekey was cut short, and is in the index; the key in memory is the vault's |
| | `CachesAreCurrent` | what is drawn is under the id of the basemap shown, `pending` is what loads, stores keep their limits; the list of recent files and the bytes they take are what is stored |
| | `ExtensionsAreHeld` | at rest a guest runs exactly if its object is active and holds it; only enabled extensions run, but for those that were disabled, replaced or removed while they activated; a restart brings back what the host shows, unless the index was changed in two ways at once; what runs was granted at some time of the call; the audit log says what is under way |
| | `AlertsAreTold` | when the vehicle shown gets worse and alerts are on, the operator heard of it or of a kind of alert the rate limit held back |
| | `SetupIsSafe` | an emergency stop that reports success left no motor turning; a pane shows what is done; edits go to the vehicle they were made for, and are kept, the panel is busy only while its own fetch or write is under way, and shows what the vehicle holds when nothing is, however the fetches and writes of several mounts overlap |
| | `ScreensAreCurrent` | the profile is of the mission shown, a mount of the plan screen has one transfer at a time and refuses another exactly so long; no replay plays that no screen controls, the recent file chosen is opened |
| | `VehicleIsLetGo` | frames are not sent faster than the rate; a stop of the joystick releases the vehicle; taps and timers end with the calibration; positions are given in order; a cancelled compass calibration is cancelled on the vehicle |

Some properties are conditional, and the conditions are part of what they say. They name
what section 6 describes:

- `DownloadedIsHeld` and `VerifiedUploadIsHeld` assume that no transfer was abandoned
  (`NothingGivenUp`): a transfer that timed out leaves replies on the link which nothing
  in the protocol tells from those of the next one;
- `ConfirmedWasHeld` says the vehicle held the value at some time: an echo has no identity;
- `SteadyFetchIsComplete` leaves out fetches during which a vehicle enabled parameters
  (`outgrown`, see 6.2);
- rows of another link are excused while `disconnect()` has let go of a transport and has not
  cleared them yet;
- the fields `crossed`, `late`, `risked`, `mixed`, `excused`, `cut`, `refused`, `overtaken`,
  `orphans`, `orphan`, `collided`, `stalled`, `clash`, `dead`, `overlap`, `left`, `touched`, `stale`,
  `clear` and `hushed`, and the value "lost" of a handler of `Rpc`, note that a
  behaviour met one of the cases of section 6; the property then says nothing of what follows, and
  holds in all others. The constants `Overlaps` and `Interrupts` are FALSE for the same reason.

### Bounds

| Bound | Values | Why it is enough |
|---|---|---|
| calls (`Ops`, `Ids`, `Calls`, `Loads`, `Requests`) | 2 (1 in param_growing, for logs, and for all FTP parts but one) | the interference of interest is between two: of one command, two transfers, a set and the one that supersedes it; the proofs lift it for the command client |
| vehicles (`Systems`, `Vehicles`) | 1 or 2 | "its own" and "the other one" |
| `MaxAttempts`, `SetMaxAttempts`, `MaxRetries`, `MaxTries` | 0, 1 or 2 (defaults 5 and more) | a first transmission, a resend and an exhausted count; fewer where resends are not the question. A timer may fire at any moment |
| `MaxAcks` | 2 | each can be received many times: one of the right and one of the wrong call |
| `MaxFlight` | 1 or 2 | no *resend* while that many messages are in flight. Requests and replies are not limited, so repeated replies still occur |
| `Plans`, `List` | lists of 0, 1 and 2 items; 2 or 3 parameters | empty, first and last item differ, two lengths; a gap before, between and after what arrives |
| `MaxStallRounds`, `MaxStalls` | 0 or 1 (default 12) | progress resets a count of at least one |
| `MaxChanges`, `MaxSwitches` | 0, 1 or 2 | a change by another before, during and after a call |
| `Growing` | TRUE | a vehicle enables a parameter during a fetch or between two; what the fetch returns then is 6.2 |
| `OneAtATime` | TRUE in mission_transfers and mission_types | one mount of the plan screen runs one transfer at a time; overlap, which a second mount allows, is checked by clients_overlap |
| `V1` | TRUE in clients_liveness | every reply fits every type: the most competition |
| `MaxTransports` | 2 (1 in link_default_set) | a link and its successor; "open again after a failure" needs no third |
| `MaxSends`, `MaxQueue` | 0 or 1; 1 (2 in link_unplug) | messages and unfinished writes when a *timer* adds one; answers are not limited |
| `Chunk`, `Sizes`, `MaxSize`, `MaxBurst`, `SeqRange` | 2; 0, 3, 4; 3; 2; 16 | empty, partial and whole last chunk; a burst with a hole; the sequence number does not come round within the requests of one behaviour, as it does not in the code |
| `MaxOpens`, `MaxCloses` | 2 or 3; 2 | open, close, open again, and two closes at once |
| `Saturation` | 3 | a delay that grows, and one that has stopped growing |
| `Tlogs` | five logs of up to three frames | empty, a single frame, equal times and times that go back |
| `Streams`, `MaxChunk` (parser) | two of nine, or three of four, frames and pieces of garbage; 3 | every cut of every frame, garbage that claims a frame of its length, a bad checksum, unknown flags |
| `Starts`, `Jumps`, `MaxFrames` | 0, 2, 254; up to half of 256 each way; 4 | the wrap, and late frames on both sides of it; lifted by the proof |
| `MaxMsgs`, `MaxBeats`, `MaxInvokes` | 2; 2; 1 | a message before and after a cancel; a beat that restarts the watchdog |
| `MaxDecoded`, `MaxEntries`, `MaxBitmaps`, `MaxPending` | 1 (2 recent files) | a limit that the second one exceeds |
| `MaxCalls`, `MaxMounts` (parameters) | 3; 1 | two operations of one mount or of two, one of them while the other is confirmed, and a third; the part alone was also checked with 4 |
| `PlanMounts`, `ExtCalls` | 1; 2 | a transfer of the last mount beside one of this; an operation that stores while another does, or while one waits for a teardown; the extension host alone was also checked with 3 |
| `MaxStops`, `MaxStarts`, `MaxMounts` (others) | 2 or 3 | a stop and the start that follows it; a screen left and entered again |
| `MaxFrames`, `ChunkFrames`, `MaxRecordings` | 3; 2; 2 | a full chunk and a rest, a recording and the next |
| `MaxPatches`, `MaxReloads`, `MaxCloses` | 3; 1; 1 | a change, its successor while it is written, and one more; one end of the page |
| `MaxKeys`, `MaxObjects` | 2 | a key and the new one; an installation and the next |
| `MaxCount`, `MaxCalls` (motors) | 2; 2 | a motor that is stopped and one that is not yet; an operator's test and an earlier one |
| `MaxPanels`, `MaxNodes` | 3; 4 | a split in a tab group in a split |
| `Sources`, `MaxMessages`, `MaxEvents`, `Limit` (alerts) | 3; 3; 1; 1 | two vehicles and a second component of one, each change of one of them |

Symmetry is used over calls, loads, slots of operations that store, and names of recent
files, in runs without liveness properties: no action and no property names one, and the
order of the calls is in fields of their own. In `MCStores` what differs in its name only
(the vehicle or the basemap that is selected first) begins with the first of them, which
loses no behaviour but a renamed one, and the settings of the gamepad and the
stored grants begin with one and with two of their values: the actions lead to the others.

## 4. Fairness

All liveness is under weak fairness, with one exception, of:

- a timer that is armed and stays armed fires (`setTimeout`), a promise that is settled goes on;
- `sendMessage` is answered by the worker, with success or failure, or the channel is disposed of;
- the head of a link direction is delivered, lost or refused: a link may lose everything;
- both event loops take the next envelope (`Link`, `Rpc`, `Sandbox`); a handler of a call ends;
- in `Link`: a write that the writable accepts completes; `transport.open()` ends one way or the
  other; `close()` of a serial port ends;
- `SerialTransport`: aborted pipes end, also when the cable was pulled; `WebSocketTransport`: a
  socket that tries to connect is answered; `Forwarder`: reads and writes end once they are
  cancelled; `AppStore`: the browser's storage goes on; `Terrain`: a fetch is answered;
- `FtpClient`: the link delivers or loses, and the timer of a request fires once nothing is under
  way; `LogClient`: the quiet timer fires, however long a vehicle is silent or sends what is known;
- `Sandbox`: a guest answers or hangs, one that hangs does so for good, and then the watchdog fires.

Strong fairness is assumed once (`WebSocketTransport!Accepting`): a bridge that is tried again
and again accepts a connection in the end. `LinksRecover` says of such a bridge that the
transport gets back to it; without the assumption the bridge may be gone for ever.

Nothing is assumed of the operator, of a vehicle answering, of an interval timer or of a
serial or Bluetooth device recovering. An armed timer may fire at any moment, so no
property depends on how long anything takes. `WF` suffices elsewhere: none of these actions is
disabled and enabled again by others for ever, since resends, stall rounds and calls are
bounded by the code or by the constants above. The fairness of `AppStore` is guarded by its
part in `MCPlumbing` (`AppFairness`), because its first step is enabled from the start and would
never be taken in the behaviours of another part.

## 5. The proofs

A run of section 3 checks a small instance; the theorems of this section hold for any number
of calls, vehicles, commands, lists, links, operations and so on, from the assumption that is
named for each module. Eight modules hold theorems. Each proof of an invariant has the same
shape: the invariant is strengthened until it is inductive, one lemma per action (or per group
of actions that do the same to the state) shows that the step keeps it, and a last step of
temporal logic puts the initial state and the steps together.

### The clients

`CommandClientProofs`, from `CommandAssumption` (the command with a fallback is a command,
`MaxAttempts >= 1`, "no vehicle" is not a vehicle):

| Theorem | Statement |
|---|---|
| `Invariance`, `TypeCorrect` | `Spec => []IInv`, `Spec => []TypeOK` |
| `ResolvedOnlyIfAccepted` | `Spec => []ResolvedWasAccepted` |
| `TransmissionsBounded` | `Spec => []TransmissionsBoundedAndAddressed` |
| `NoTimerLeaks`, `TimeoutIsHonest` | `Spec => []TimersMatchPending`, `Spec => []TimeoutMeansExhausted` |
| `SettledOnce` | `Spec => SettledForever` |
| `Refinement` | `Spec => ImplementsOneShotCalls` |

None of the safety properties is inductive alone. That a call resolved only if accepted needs
to know that a `setMode` waiting for its legacy message has been refused as `UNSUPPORTED`,
and that a one-way message in `sends` belongs to a call that still waits for it. `IInv` adds
those facts: `OpsConsistent` (attempts are bounded, a live call has a target, a one-way call
is never "pending", and a `setMode` in its fallback was answered `UNSUPPORTED` by its vehicle)
and `MessagesConsistent` (every message in flight belongs to a call that was made, with that
call's target and command). The steps that end calls share `SettleEffect` and `SettleFailure`,
since timeouts, aborts, rejections, send failures and disposal all go through `settle()`, as
they do in the code. In the refinement each action maps to one abstract step: entering to
`Issue` or `Refuse`, every failing settlement to `GiveUp`, an accepted acknowledgement or a
one-way message taken by the worker to `Complete`, an `ACCEPTED` answer of a vehicle to
`Grant`; resends, progress and the start of the fallback leave the abstract state as it is.

`MissionClientProofs`, from `MissionAssumption` (the empty list is a plan, plans are lists of
items, a mission is one of the types, `MaxAttempts >= 1`):

| Theorem | Statement |
|---|---|
| `TransferTypes`, `TimersKept` | `Spec => []TypeOK`, `Spec => []TimersMatchPending` |
| `TransfersEndOnce` | `Spec => SettledForever` |
| `RepliesKeepApart` | `Spec => RepliesStayWithTheirVehicle` |
| `DownloadsAreWhole`, `VerifiedUploadsAreHeld` | if `OneAtATime` and `Types = {Mission}`: `Spec => []DownloadedIsHeld`, `Spec => []VerifiedUploadIsHeld` |

The first four need `Transfers`: an upload that is asked for items stands at an item of its
plan (so that a resend has an item to send), and every `ITEM` on the link has one. The last
two say that a list is whole although requests are resent and replies repeated, for lists of
any length and any number of attempts. Their hypotheses are how one mount of the plan
screen uses the client, one transfer at a time, without the type confusion of 6.1. The argument (`LinkInOrder`)
is about the order of the link: while a list is read, whatever changes a list (an item or a
clear on its way up, an answer that leads to one) is ahead of whatever reads one (`Apart`),
so what a vehicle has told (`Tells`) and what a download has collected (`Follows`) is what it
holds; while a list is written it is the other way round. A download that has its count
knows that nothing that changes a list is left (`Free`), which is what makes its items of one
list.

`ParamClientProofs`, from `ParamAssumption` (a list of at least one parameter, a first value
for each vehicle, `SetMaxAttempts >= 1`):

| Theorem | Statement |
|---|---|
| `TypeCorrect` | `Spec => []TypeOK` |
| `BooksAreKept` | `Spec => []BookkeepingIsTrue` |
| `ConfirmationsAreTrue` | `Spec => []ConfirmedWasHeld` |
| `FetchesAreComplete` | `Spec => []SteadyFetchIsComplete` |

`Books` is the client's own order: the map of writes is the set of pending writes, each with
its timer. `HeldTruth` adds that what a vehicle has said it held at some time (`NowHeld`,
`SaidHeld`). For a fetch, `WholeList` says that while no list has grown during it the total
and all indices that it collected, and the counts that are on their way, are of the list that
its vehicle shows; that as many indices as the total are *all* indices is then a fact about
finite sets (`CompleteIsWhole`), which is what `isComplete` relies on. `Growing` may be TRUE:
only the fetches that a growth overlaps with are left out (6.2).

`MCClients` carries over to the clients together, in the composition that clients_overlap
checks, `ConfirmedWasHeld` (`WritesAreConfirmedByTheirVehicle`) and `TransfersStayApart`
(`OverlappingTransfersStayApart`): whichever client a behaviour is about, the other one takes
its own steps or rests, so the composition implements the specification of each.

### The connection

`LinkProofs`, from `LinkAssumption` (the kinds of transport are those of the code, the bounds
are numbers), for any number of links one after the other:

| Theorem | Statement |
|---|---|
| `LinkTypes` | `Spec => []TypeOK` |
| `DevicesLetGo` | `Spec => []DevicesAreLetGo` |
| `MessagesStayOnTheirLink` | `Spec => []SentOnThisLink` |
| `ShownIsTheLink` | `Spec => []ShownIsTrue` |

`Order` relates the place at which `connect()`, `disconnect()` and `dispose()` wait to what
the host holds: `Phases` (who waits where, and that two calls never wait for one writer),
`Orphaned` (what `connect()` went on to when `dispose()` found it leaving an earlier link: nothing
disconnects it again), `Relays` (reader, writer and streams are of one transport), `Devices` (a transport that nobody
has yet to close is closed). That a message stays on its link needs the order of the channel,
`SinkOrder`: every outgoing stream that the host aborted is cancelled by a message that is
ahead of any that would be sent for another transport. That the shown rows are the link's
needs `RowOrder`: what the two directions hold is of a transport that was created, and between
`reset` and `open` no bytes of the last link follow the reset (`ResetLast`), or the worker has
forgotten the vehicles already (`Quiet`).

### Transports and loss

`MCPlumbing`, from `LinksAssumption` (bounds are numbers, the times of a log are not 0):

| Theorem | Statement |
|---|---|
| `LinksKeepTheirWord` | `Spec => []LinksAreHonest` |
| `TransportsKeepTheirContract` | `Spec => ImplementsTransport` |
| `LossIsCounted` | `Los!Spec => [](Los!TypeOK /\ Los!Counted)` |

Each transport's module has its own inductive `Inv`, which ties the state shown to the socket,
port, peer or timer behind it, at each await of `open()` and `close()`; each step of a
transport is then a step of `Transport` or leaves its three variables as they are. The
contract is proved for any number of calls of `open()` and `close()` and of attempts to
reconnect. `LossIsCounted` is for any number of frames in any order, each less than half of
the 256 numbers away from the newest (`Near`), which is what the comment in the code assumes
too. `Counted` relates the counters to the unbounded numbers that the source gave its frames.
The heart is one arithmetical fact, step `<1>b` of `FrameIsCounted`: what eight bits tell of
the distance is the distance itself if the frame is ahead, and 256 less if it is late.

### What the page keeps and shows

`Stores`, from `StoresAssumption`, and `Screens`, from `ScreensAssumption`:

| Theorem | Statement |
|---|---|
| `SecretsStayReadable` | `Sec!Spec => []SecretsAreKept` |
| `ExtensionsStayHeld` | `Ext!Spec /\ Perm!Spec => []ExtensionsAreHeld` |
| `CachesStayCurrent` | `Map!Spec /\ Rcn!Spec => []CachesAreCurrent` |
| `SetupStaysSafe` | `Mot!Spec /\ Set!Spec /\ Edi!Spec => SetupIsSafe` |
| `ScreensStayCurrent` | `Pla!Spec /\ Lgs!Spec => ScreensAreCurrent` |
| `VehiclesAreLetGo` | `Pad!Spec /\ Cal!Spec => VehicleIsLetGo` |
| `NothingBadGoesUnsaid` | `Alr!Spec => []AlertsAreTold` |

- `SecretsStayReadable`: what a call has read or is about to write (`Staged`), who may run with
  whom (`Alone`, `OneWriter`), whose key each step uses (`KeysAreTheVaults`), what the index
  will be when its writer is done (`IndexWillBe`), and which secrets a rekey has yet to store
  again (`Owed`). The secrets are readable because what is not is owed.
- `ExtensionsStayHeld`: at every stage of activation and teardown the guest is the managed
  object's (`ExtStage`), what waits for a teardown finds it over (`ExtWaits`), the record
  follows (`ExtRecord`), and the index names what is managed or an operation has yet to see to it
  (`ExtIndex`, which needs that operations that store together do the same to the index); the grants that a call has read are those that were stored
  (`GrantsSeen`).
- `CachesStayCurrent`, for the map: a load is for the basemap that was shown in its generation,
  and only one of this generation is for the one shown now (`MapLoads`), so an image that
  arrives late is dropped or of the id that is shown (two custom addresses share one, section 6;
  in the run each basemap has its own); what the store holds beyond its limit was stored since
  the last sweep or is a victim of this one (`MapBound`). It needs finitely many basemaps and
  tiles, since the eviction counts them.
  For the recent files: at most one call is under way, those before it are done and those after
  it wait (`InTurn`); an id is listed only when its call has put it there (`IdsAreGiven`), hence
  once; in the middle of its deletions a call leaves the other files as they are shown, and those
  of the doomed that are still kept are the ones it has yet to delete (`Half`). What the list
  takes is a recursive function of it, as are the lists that `filter` leaves. What they compute
  is related to running totals (`Sums`, `Sieves`) whose values are compared place by place
  (`ByInduction`, from the well-foundedness of `<` on the naturals).
- `SetupStaysSafe`: a stop that has the link for itself is the only call and the motors it has
  passed do not turn (`StopAt`); what a pane shows is the state of the run it shows
  (`FlowsInv`); staged edits, entries and shown values are of the active vehicle unless it was
  changed meanwhile (`EditsAtHome`), two writes of one name are known to be in doubt (`WritesApart`),
  and a busy panel has an operation of its own (`BusyIsTrue`). It includes the action properties `ResultsAreCurrent` and
  `EditsAreKept`.
- `ScreensStayCurrent`: the request of the latest path is about the mission shown, and tokens
  are unique (`PathInv`); each transfer is that of one mount, which has no other, and the flag is that
  of this mount (`TransfersInv`); while a load runs nothing plays (`LogsInv`).
- `VehiclesAreLetGo`: frames are spaced (`PadSpaced`), what is held is held of the target that
  is active (`PadHolds`); of a calibration that is alone the vehicle has been given as many
  positions as were confirmed (`CalAccel`), and what was started has its cancel behind it
  (`CalMag`).
- `NothingBadGoesUnsaid`: the state compared is the one that was last shown (`AlertsInv`).

The conditions of the properties (`risked`, `mixed`, `crossed` and the others of section 3)
are part of the theorems as they are of the runs.

### What is only model-checked

- Liveness, which TLAPS cannot treat, nor `ENABLED`: `EveryClientCallEnds`,
  `CallsEndUnlessStuck`, `LinksRecover`, `ForwardingServes`, `CallersAreServed`,
  `SettingsAreKept`, which also have safety parts that were not proved on their own.
- `FramesAreKept`, `FilesAreExact`: the parser, the recorder and the downloads put a sequence
  together of its pieces, so that their invariants would have to be proved by induction over
  data, for which the library's induction theorems cannot be used here. The way round them
  that `CachesStayCurrent` takes for sums and filters was not taken for these.
- `WindowsStay`: the tree of windows is recursive.
- `TypeOK` of `MCServices`, `MCPlumbing` and `MCStores`: the types of parts that are proved are
  in their own invariants; the others are checked only.

## 6. What the models showed

Four statements of the repository that the code does not keep, each with a run.

1. **A mission's count starts a fence download** (mission_types). The service's README says
   a count is matched by mission type and source. `canRelaxMissionType` accepts a MAVLink
   2 message of type 0 for the only transfer in flight, so a `MISSION_COUNT` that was
   repeated by a resend of a mission download is taken for the count of the fence download
   that follows, which resolves with as many items as the *mission* has.
2. **A fetch with a hole** (param_growing). `recordFetch` keeps the first `param_count` and
   compares the number of indices received with it; the index of a parameter enabled
   meanwhile makes up for one that is missing.
3. **The default message set is not requested** (link_default_set). A transport shows
   "open" inside `open()`, so the manager asks for the set before the host requests the
   outgoing stream; the channel is FIFO, the worker refuses, and the request is not
   repeated.
4. **`disconnect()` that never ends** (link_unplug). After a serial port fails nothing
   drains its writable, the heartbeats go on, and `writer.close()` waits behind the
   second one.

Seen while modelling and kept as the code has it, without a run of their own. Where a property
holds only outside of such a case, the model notes the case in a field (section 3).

Missions and parameters:

- any `MISSION_ACK` of a fitting type ends the upload in flight, with its verdict, also one
  of an earlier transfer; with `verify` the read-back finds out (`VerifiedUploadIsHeld`);
- the read-back of an upload asks for the active vehicle again, which may be another one;
- a clear matches its acknowledgement by exact type, so one of a fence from a MAVLink 1
  vehicle is never recognised and the call times out although the fence is gone;
- one rejected send settles every transfer in flight with "send-failed"; a rejected send
  of a superseded parameter write fails the write that replaced it;
- an echo of an old value may confirm a parameter write, and the cache is keyed by name only,
  whatever the vehicle.

Files, logs, joystick, calibration:

- a burst that is answered with a NAK of `EndOfFile` discards the frames that did arrive, so a
  read may resolve with less than the file (`FilesAreExact` says that it has all of it for
  the other kinds of server only); an abort rejects only after the session was terminated;
  `dispose()` still sends `TerminateSession`;
- a `LOG_ENTRY` that comes after `erase()` caches a size again, and the cache of sizes survives
  a change of vehicle;
- a change of the mode or of the vehicle while the joystick is active leaves the old override
  unreleased; a button that is held at `start()` fires;
- in a calibration the commands after the first, and the cancel, go to the vehicle that is
  active then; a stale `MAG_CAL_REPORT` resolves a new run; a failed START rejects without
  cancelling what the vehicle may have begun.

Link and transports:

- after a replay ends, the next snapshot lists its vehicles again although the link is shown
  as closed;
- `dispose()` while `connect()` is still leaving an earlier link (host.ts:107 to 109 and 312 to 316)
  lets `connect()` go on: it creates a transport, and either opens a device that nobody closes
  (`orphan`), or asks the worker after `rpc.dispose()` and is never answered (`Unheard`);
- Bluetooth: open, close and open again before the first has ended leaves one of them without
  its device (`Overlaps`); a write that fails after `close()` shows "error";
- WebRTC: after the channel closed the transport shows "reconnecting" for ever, and `open()`
  stays pending after ICE failed;
- forwarder: a target removed or added while its locks are held (`orphans`) fails the next start;
  a chunk that was being read at `stop()` is swallowed; the controller may have two starts under way
  when the drawer is closed during one (`Interrupts`);
- an RPC call made after `dispose()`, or to a side that was disposed of, is never answered; nor is
  one whose handler throws before it returns a promise (rpc.ts:264, 282), nor one whose answer cannot
  be posted (rpc.ts:266, 284, where the throw ends in a promise that nobody looks at): the caller
  waits until it aborts ("lost").

Parser and alerts:

- a complete frame inside the payload of another (a log sent by FTP, a tunnel) is delivered in
  place of the outer one when the outer one is cut by a read, though `parser.ts:94` says that
  "a complete valid frame cannot legitimately overlap an earlier real frame"; `setSigning`
  drops a partial frame;
- `reset()` of the alert service is never called, so after a reconnection "GPS fix lost" or
  "disarmed" may be spoken of a placeholder, and an EKF that went bad in between is not announced;
  an alert held back by the limit or by mute is never repeated; of several alerts of one
  update the later wait for the speech of the earlier;
- unless the operator selected a vehicle, every `HEARTBEAT`, also of a second vehicle, changes the
  active one (`session.ts:246`), and the page keys vehicles by system only, so a gimbal or a
  companion replaces the autopilot's state (`provider.tsx:82`).

Terrain, sandbox, extensions:

- a tile that failed once is remembered as missing until it is evicted, so requests that are
  repeated never fill it, though the service says "the vehicle re-requests unfilled blocks"; of
  two lookups at once a later failure overwrites a good tile;
- the GUEST_INIT handler is not async, so what `evaluate()` throws is such a throw: the `activate()`
  of the host never ends, although `guest.ts:62` says that "errors thrown by `evaluate`" reject "the
  corresponding host RPC" and `ext/sandbox/README.md:29` that an "eval error" rejects "the host's
  `activate` RPC"; an extension whose `activate()` awaits something that never comes keeps beating,
  and is never ended either (`stalled`);
- a guest that hangs before its first heartbeat or in `deactivate()` is never ended; after the
  watchdog ended a guest `deactivate()` never settles, and the host is not told;
- disable, uninstall or a reinstallation while an extension activates leaves it running
  (`crossed`), and the guest of an object that was replaced runs where no call of the host reaches it;
  an uninstall followed by a disable stores its record again (`late`);
- `uninstall()` and `#persist` read the index at one await and write it at another (host.ts:238 to
  242, 435 to 439): an installation during an uninstallation, or beside that of another extension,
  may be taken out of the index by what the other had read, and the extension does not come back
  after a reload although its record is there; or it stays in without one (`collided`);
- `set()` or `clear()` of grants during their first read lets the old ones return; a grant that
  was revoked while the confirmation was open still runs; an audit entry that was evicted loses its
  outcome.

What the page keeps:

- settings: a state that is back at its baseline while another write is in flight is not stored
  until the next change, and an early change of a record that was never stored becomes the
  baseline at rehydration (`excused`);
- recorder: a failed flush is forgotten by the next `start()`, though `recorder.ts:150` says
  "never silent";
- secrets: a rekey that is cut short or overtaken leaves secrets that no key reads; `lock()`
  during an unlock ends unlocked; the map's key is read before `unlock()` has ended
  (`App.tsx:446` to 500), so it is not restored although the comment says so;
- tiles: `TileCache.get` "never throws" but does when the record is evicted between size and
  range, and truncates when it was replaced; only prefetches evict, possibly their own
  tiles; two custom addresses share one id; a tile that is decoded twice leaks an image;
- recent files: `load()` is not queued; a page closed between two stores leaves blobs that no
  entry counts, or entries that cannot be opened.

Screens:

- the emergency stop, which should "halt every motor immediately", ends at the first stop that
  fails; a resend of an unanswered test restarts a motor after it was stopped, and the second
  acknowledgement of a test settles a stop that the vehicle never got; lowering the count before
  the stop leaves the higher motors; while a second stop is under way the pane still shows that
  the first one stopped (`motors-step.tsx` sets the status only when a stop has ended), so
  `StoppedMeansStopped` is about a pane with no call pending;
- accelerometer and level: when the pane is left the flow shows "running" for ever and cannot
  be started; `radio()` throws without a vehicle and the pane shows "running";
- parameters: a change of vehicle during the confirmation, the writes or a fetch sends or shows the
  values of one vehicle for the other, though a comment guards against it; an edit made during
  the write of its name is dropped (`crossed`, `touched`);
- parameters: `busy` is not looked at again after the question (workbench.tsx:193, 215), and belongs
  to a mount while fetches and writes go on without it, so that writes overlap with a fetch or with
  one another: the end of one clears the flag of the other; the second write of a name ends the
  first with an error after some of its values were sent; an echo without an index during a fetch does
  not replace what the fetch received by index (`buildResult`), so that the old value stays on
  display after both have ended (`touched`);
- plan: `transferBusy` is a signal of the mounted screen (plan-screen.tsx:239, "E7: one transfer at a
  time"), which the dock disposes of and mounts anew at each change of the screen while the mission
  client lives on: who leaves the screen during a transfer and comes back may start the next beside
  it, whose replies the client tells apart by type only (see 6.1 and `MissionClient`);
- plan: a path that becomes too short does not invalidate a sampling under way (`stale`); a
  download replaces what was drawn after its emptiness was checked without asking; opening
  a file is possible during a transfer;
- logs: leaving the screen during a load leaves a replay that nothing controls (`left`), though
  its comment says "so no ghost replay keeps running"; loads may overlap (`overlap`); loading a
  `.bin` leaves the replay running;
- windows: the counter of ids starts again with the page while the layout is stored, so a new
  window may get an id that is taken (`clash`), though `workspace.ts:26` says "unique within
  a workspace".

## 7. What is not modelled, and the plan

The models cover the parts of the program whose correctness depends on order, and leave out for good:

- geometry, units, file formats, log decoding and queries, map projection: pure functions over
  floats and bytes, which TLC would have to enumerate and unit tests reach well;
- generated tables (dialects, notices, translations) and rendering, by far the largest share of
  the lines;
- real time, since a timer may fire at any moment; cryptography and browser interfaces, which
  are external and appear only through their outcomes.

Left out of parts that are modelled in part:

| Part | Left out |
|---|---|
| Connection session, worker | the taps of the inspector and of raw frames, merged statistics |
| Parser | decoding of payloads, signing of what is sent |
| Alerts | the other fields of a vehicle, the wording, a failure of the speech |
| Terrain service | `TERRAIN_REPORT`, `pathProfile()` |
| Recorder | the side-car record |
| Map | the view, the layers, the age limit of a tile |
| Extension host | the other extensions but for their writes of the index; what an extension stores |
| Setup, parameters, plan, logs, windows | the calibration of speed controllers; parameter files; drawing tools; plots and export; resizing and the list of workspaces |

Next:

1. Proofs: `StreamIsWhole` of `Rpc`; `RunningServes` and the locks of `Forwarder`;
   `ParsesWhatArrived` of `Parser` by an induction over positions written out for its recursive
   function.
2. `MissionClient` and `ParamClient` as implementations of `OneShotCalls`.
3. The Rpc channel under `Link`: the envelopes of `Link` as a refinement of `Rpc`.
4. `Link` with the Bluetooth and WebRTC transports, and the taps of the inspector.
