# TokenLink in TLA+

TokenLink is a macOS menu-bar application (`Sources/`, Swift) that reads the
quotas of AI providers and the sessions of Codex and shows them on an M5Stack
StopWatch C152 (`firmware/stopwatch-c152`, ESP32, C++) over Bluetooth LE. This
directory holds specifications of its concurrent core, the configurations with
which TLC checks them, and proofs which TLAPS checks.

## Inventory

| Component | State it keeps | Operations | What is hard | What makes it correct |
|---|---|---|---|---|
| `CoreBluetoothTransport` (`TokenLinkDevice/CoreBluetoothDeviceBridge.swift`) | connected, connecting and disconnecting peripheral, connection stage, one continuation per kind of call, the waiters of a disconnect, the quarantine of late disconnects | connect, write, read, disconnect, scan; six timers; cancel handlers; nine delegate callbacks | every block runs on one queue but in any order: late timers, late callbacks, cancelled tasks, power going off | each call returns once and by its own outcome; no link without an owner; subscribers hear of each loss |
| `DeviceBridge` (`DeviceModels.swift`), `AsyncEventHub` | phase, negotiated protocol, the observing tasks | connect with negotiation, sync, disconnect, transport events | an actor that is re-entered at each await; events handled late or by nobody | its phase may be wrong for a while, never for ever |
| `AppModel` (`TokenLinkApp/AppModel.swift`), `WatchSyncPolicy`, `RefreshScheduler` | binding and its generation, the watch sync, the observers | bind, unbind, sync, refresh, focus, rename | main-actor methods interleaved at awaits, joins, cancellation | one call of the transport at a time; no link of an old binding; the watch catches up |
| `WorkItemStore` (`TokenLinkCore/WorkItemModels.swift`) | items by thread: slot, state, time, seen, name | upsert, removeMissing, rename, acknowledge | each call is atomic, a poll or a focus command is many | distinct slots, the most useful sessions shown, "seen" only of the update shown |
| `CodexWorkItemTracker`, app-server client | one process per poll | list threads, upsert them | reader tasks that outlive a stopped process | |
| `FocusHandler` | none | focus, refresh | a poll between its calls | see `WorkItemStore` |
| `ProviderStore`, `RefreshCoordinator` | state and samples per account | mark, accept, age | results out of order | |
| `CostDashboardModel`, `CostStore` | rows, refresh task, aging task | refresh, disable, period | results after disable | |
| `NotificationPolicy` | latches | evaluate | repeated, missed notifications | |
| Configuration, Keychain | accounts, keys | add, remove, save | partial failure | |
| Local usage | offsets of log files | read, aggregate | files that grow and rotate | |
| `CodexMicroBle` with `ConnectionHealth.h` (firmware) | connection set, three queues, request buffer, host identity, protocol shown | Bluedroid callbacks, `poll()` | two tasks, bounded queues, conn_ids used again | membership recovers; nothing of a session outlives it; requests of hosts never mix |
| `UsbMic.cpp`: the chime | phase, generation of the host's openings, result | request, guard, switch, play, give back | three tasks over atomics, one codec | one owner of the codec, one end per chime, the host goes first |
| `UsbMic.cpp`: the stream | stream generation, queue of blocks, USB FIFO, two record buffers | open, close, record, feed | three tasks, blocks that straddle a transition | only audio of the open stream, in order |
| `main.cpp` with the red key's detector, raise-to-wake and the dock | panel, rail, click window, idle time | red key, dimming, desk sleep, wake | delayed clicks, shared power rail | panel and rail agree with the sleep; the watch left alone goes dark |
| `main.cpp`: touch, keys, pages, settings | gesture, page, keys held at the host | touch, left and right key, payload, end of a pass | the link or the protocol turns under a finger | no key stays down at the host; a touch does one thing |
| `WatchModel.h` | provider table, work items, settings | apply | a full table, rollover of `millis()` | |
| Views, text, drawing, fonts, parsers, scripts | none that matters | | | |

They meet as follows. `AppModel` polls the tracker into the store, reads rows
and quotas, and writes a payload through `DeviceBridge` and the transport; the
firmware's GATT callbacks queue what arrives; the loop drains the queues and
draws. In the other direction the watch notifies a focus command, which the
Mac answers by opening a thread and acknowledging a slot of the store. Beside
them the watch is a HID keyboard and a USB microphone of its host.

`PROJECT.json` lists the components with their status, the lines each
definition stands for, and the hazards at the lines where they bite.

## Modules

| Module | Models | Composes with |
|---|---|---|
| `BleTransport` | `CoreBluetoothTransport` | implements `TransportContract` |
| `TransportContract` | protocol `BLETransport`, as its clients see it | the abstract specification |
| `WatchSync` | `AppModel`'s binding and watch sync over `DeviceBridge` | the transport as the contract promises it |
| `WorkItemStore`, `WorkItemFocus` | the store, the poll, focus and rename | the second extends the first |
| `HostSession` | Bluedroid's callbacks and `poll()` of `CodexMicroBle.cpp` | |
| `UsbMicChime`, `UsbMicStream` | `UsbMic.cpp`, twice: the chime and the stream | |
| `WatchPower`, `WatchControls` | `loop()` of `main.cpp`, twice: what may be dark, and what the controls do | the second takes the dark screen as the first lets it be |

### BleTransport

The transport's stored properties are the variables of the same names:
`connected` is `connectedPeripheral`, `characteristics` the set of the three
that are not nil, `stage` is `connectionStage`, `pending` is
`pendingIdentifier`, `waiters` is `disconnectContinuations` and `quarantine` is
`ignoredLateDisconnects`. `connectOp`, `writeOp`, `readOp` and `scanOp` stand
for a continuation together with its operation id.

One action is one block on the queue: the call (refused or accepted, which
covers all its synchronous work), its timer, its cancel handler, or a delegate
callback. CoreBluetooth is the environment: `link` is `CBPeripheral.state`,
`gatt` the requests of a link not yet answered, which it answers in order, and
callbacks come at any time the state of the link allows. Any request may fail;
any link may drop; power may go off and come back; an attempt to connect may
be cancelled with or without a callback. A connect that was given up may be reported
all the same: `late` are the devices whose `didConnect` is on its way although their
attempt was cancelled, and `HangUp` is what the code does when it comes and nobody
waits for that device any more (579-584).

The clients are free to call at any time. The application is bound to one
device and connects only to it; `Rebind` is `bindDevice`, which awaits a
disconnect before it changes the device. A cancellation takes effect only while
the call waits: one that comes before the block runs is lost in the code too,
because the handler finds no operation id.

The stage's generation is always the current one, so it is left out of the
stage, and kept in `writeGeneration` and `readGeneration`, where it is compared.

### TransportContract

What `DeviceBridge` may rely on, without stages, timers and CoreBluetooth: a call is
refused or accepted, waits, and returns once; a connect, a write, a read and a
scan wait alone, disconnects return together; the end of a link is reported, and
all calls that need the link fail with it. `BleTransport` maps its state to it (`reported`
is a history variable there: what `connectionEvents` said last) and
`KeepsContract` is the contract's specification. It is checked with one
disconnect; two that join are in `ble_operations`, and `ContractKept` proves the
refinement for any numbers of calls.

### WatchSync

A step is what runs between two awaits. `caller` is where each task on the main
actor is in `requestRefresh`, `syncCodexNow`, `syncCodex`, `bindDevice` or
`unbindDevice`; `task` is where `performWatchSync` is, with its attempt, its
generation and the call it waits for. `phase` and `negotiated` are the bridge's,
and `events` is what the hub keeps for the bridge's observer. The transport
answers as the contract says, a call may fail, a link may be lost at any time,
and the bridge's timer or a cancellation may give a call up: then `perform` still
waits for it (a task group does), but what the caller is told is decided.

`held` is the version of each source's data that a watch shows. A sync writes one
payload per source to a watch negotiated as v2, in the order of `ProviderID.allCases`,
and that of Codex alone to one negotiated as v1; each write that succeeds updates its
own source and leaves the others as old as they were. Payloads are known by source and
version, not encoded. `AppModel.stop()` is only called by tests and left out.

### WorkItemStore and WorkItemFocus

`WorkItemStore` is the storage and the poll that feeds it: `PollBegins` takes
any listing, `RemoveMissing` and one upsert per thread follow, in the order of
`updatedAt`. The upsert has four outcomes as in `nextSlot`: existing, a free
slot, a replaced item, or dropped. Ties between equally low items are broken
either way, since a dictionary's order is not defined. The provider's clock of a
thread does not go back.

`WorkItemFocus` extends it with a focus command (`FocusLookup`, the opening of
the thread, `Acknowledge`) and with `Rename`, between any two calls of a poll.

### HostSession

The firmware's side of the link. Bluedroid's task runs `OnConnect`,
`OnDisconnect`, `OnOutput` and `OnQuotaWrite`, which only fill bounded queues;
the loop runs `poll()`, whose position is `pc`. A step of the loop handles one
entry of one queue. `Reconcile` is split where the code is: the flag is
exchanged first (`TakeEventLost`), the peers are read later.

Requests are abstracted to their parts: a whole supported request, one that is
not supported, and the first, middle and last parts of one that is. The buffer
is a sequence of parts. A whole request parses, a first part alone is
incomplete, and what other parts make up may be either, or not parse, since parts
that a full queue dropped do not show in what is left. The session a report
belongs to, and the session the loop was in when a payload arrived, are history
variables: the firmware has no such numbers.

Two assumptions. `Reconciling`: the event queue does not fill in the
instructions between its drain and the reading of the peers; without it older
events would be applied after the reconciliation and undo it. And the server's
map of peers changes together with its callback.

Not modelled here: the ages of LIVE and of the quota, which only select
wording; thread lighting; the bootloader request; `sendKey` and the other
outputs.

### UsbMicChime and UsbMicStream

The firmware's README says that the hooks of this earlier experiment "remain compile-time
disabled and are not a supported build variant" (lines 17-18): what is shown here is about a
build with `CODEX_STOPWATCH_USB_MIC` defined, not about the released image.

Three tasks of `UsbMic.cpp`, each with its place (`rpc`, `cpc`, `epc`, `fpc`): the
loop, the capture task, the USB event task, and for the stream the feeder.
A step is one access to an atomic or one critical section; the atomics are
taken to be sequentially consistent. Pairs of loads are one step
only where the module says why.

In `UsbMicChime` the host opens and closes the microphone between any two
instructions, speaker, amplifier and codec may fail, and the capture task may
die. `due` says that the deadline that counts at the moment has passed.
`wanted`, `disturbed` and `finishes` are history.

In `UsbMicStream` a block is written chunk by chunk, so that the FIFO can take part
of it: a chunk knows its block and its place there, and `Rest` is `writeBlock`'s
`cursor`. Two chunks are checked, any number is proved about.
The recording belongs to the stream open when it began (history). Sample values,
descriptors and counters are left out.

### WatchPower and WatchControls

The loop is one thread and `turn` the call it makes next. In `WatchPower` the
inputs are the red key (through PM1's latched click, which comes at the release, and
through direct samples, which may miss a short press), the panel, the keys, the
agents, the cable and the accelerometer. Idle time is the number of dimming
thresholds passed. `UsbMic` is the build: with a microphone the rail stays on.

A direct sample that is due is taken to succeed: `btnGetState` may also fail
(`main.cpp:1138`), which is then as if the sample had come later, and is left out.

In `WatchControls` a touch begins on one of the targets the code tests for on
that page; links, payloads and timers interleave with the passes of the loop. The
watch starts as after a reboot, offline and on the v2 face. The link may change at any
step; its events reach `poll()` queued or are lost. A session that begins, seen or
unseen, selects v2 (`Session`), the loss of a link leaves the protocol as it is, and
only a payload selects legacy; a payload may be handled when its link is already gone.
`hostDown` is what the host believes held: keys reach it over a link that is up and that
`poll()` knows of, while handlers decide on the snapshot of the pass before.

### MC modules

`MCBleTransport` and `MCWorkItemFocus` add the symmetry sets; `MCUsbMicChime`,
`MCUsbMicStream`, `MCWatchPower` and `MCWatchControls` instantiate the firmware's
modules; `MCHostSession` runs the session at two sizes, the one of its configuration,
at which events are lost and the set overflows, and `Requests`, at which requests come
in parts: a behaviour is of one size or the other. `WatchSync` is run as it is, and so is
`HostSession` where it fails. No configuration that checks liveness uses symmetry.

Operators marked "Mutated:" stand just before the definition they vary: each is a plausible mistake in that code, and the
property named with it in `PROJECT.json` fails when it takes the definition's place.

## Runs

| Run | Question | Bounds |
|---|---|---|
| `ble_operations` | late disconnects and acknowledgements, links nobody asked for, setups without a caller, the wrong device | a v2 and a v1 device, two connects, two writes, two disconnects |
| `ble_liveness` | is each continuation held until it is resumed; does every call return; does the transport keep its contract | one device, a connect, a write, a read, a disconnect, two scans |
| `ble_retained` (fails) | is the peripheral being connected kept alive | one connect, one scan |
| `watch_sync` | is one call of the transport made at a time; is a watch that is bound no more let go; does the bound one catch up | two watches of which one speaks v2, two callers, two sources of which one is Codex, two versions, two changes of the binding, one fault, two buffered events |
| `watch_flaky_read` (fails) | does a failed read of the capabilities do no harm | one v2 watch, one caller, two sources without Codex, one fault |
| `sessions` | are slots distinct; does a listing polled twice leave the most useful sessions; does an acknowledgement end with its update | three threads, two slots, three states, two times |
| `host_session` | does membership recover from lost events; do LIVE and the legacy face end with their session; does the screen settle; does LIVE leave with its host; do fragments of two hosts mix; is a whole request always handled | two connections and two reports queued; a set of one, a queue of two events, two sessions; or a set of two, a queue of one event, one session, requests of up to three parts |
| `watch_inherited_live` (fails) | does a session never inherit LIVE | one connection, two sessions |
| `mic_chime` | has the codec one owner; does a chime end, and once; does it miss an opening of the microphone | two requests, two openings |
| `mic_stream` | does the host read only the open stream, in order, silence first; does a transition end | a queue of one block, a FIFO of two chunks, three transitions, three blocks |
| `watch_power` | do panel and rail agree with the sleep; is a chime or a waking click ever undone; does the watch left alone go dark | wireless build, a window of three ticks, a chime of two, three inputs |
| `watch_controls` | does a key stay down at the host; does a touch do one thing; is every change drawn | five inputs: a link, a swipe, a payload and what ends them |

Why these bounds are enough: the hazards need a call and its successor of the
same kind (two calls), the device bound and another (two devices), a slot less
than there are threads, a queue or a set smaller than what arrives, a conn_id
used again (two sessions), a stream and the next one with a block between them,
a chime and the next. The capacities are constants, so the small ones exercise
the limits which 16 events or 8 connections would need long traces to reach.
`watch_sync` needs one fault because each way in which the bridge's phase goes
wrong starts with one event. Scan timers are bounded by `MaxScanTimers`, times
by `MaxTime`, sessions by `MaxSession`, chimes, openings, transitions, blocks,
inputs, bindings, faults and versions by the constants of those names; each call
identifier of the transport is used once.

Deadlock is checked but in `mic_stream` (the bounded blocks and transitions run out), and in
`watch_power` and `watch_controls` (a watch that is off may stay off).

### What fails, and why

* `ConnectingPeripheralRetained`: a discovery empties `discovered` while a
  connect relies on it as the only strong reference to its peripheral.
* `NoInheritedLive`: reports are drained after the connection events, so a
  report of the old session on a conn_id in use again makes the new one LIVE.
  A late quota write likewise selects the face of the session it is handled in.
* `FlakyReadHarmless`: a v2 watch whose capabilities are not read at the first
  connect is taken for a v1 watch, and `connect()` negotiates nothing again while the
  phase says connected. Codex's payload is then all it gets until its link is lost; with no
  Codex quota there is no payload to write, nothing fails and nothing is shown to be
  wrong. The comment at `DeviceModels.swift:245-246` says that such a read "never breaks
  sync". `WatchCatchesUp` says of such a watch only what holds: it is told of Codex (`Told`).

One more defect contradicts no document, and so has no run that is expected to
fail; the property excepts it by name:

* The stick is left pushed. A swipe on the legacy face pushes the host's joystick, and its
  release centres it only if the watch is still on that face (`main.cpp:872`). A session
  that begins or a payload that comes between the two turns the watch to v2, the
  release sends nothing, and the host believes the stick pushed until the next legacy
  swipe ends or the link is lost. `KeysReleased` holds of both keys without exception, and
  of the stick unless `crossed` says that this happened.

### Met while modelling, with no run of their own

* `ensureBridgeObservation` does not look at `isChangingBinding`. A refresh during the
  disconnect of `bindDevice` (`AppModel.swift:953`) sets `bridgeEventTask` for the old
  bridge; the call at line 961 finds it set, and the new bridge has no observer.
  `WatchCatchesUp` holds all the same, since `connect()` sets the phase itself;
  what is lost are the watch's commands and the phase on the Mac's screen.
* Two callers of `ensureBridgeObservation` that both pass its guard make two
  command observers.
* A link lost while the capabilities are read leaves the phase connected over a
  dead link, until the first write fails and the second attempt starts afresh.
* An observer that lags for ever, handling each loss only after the next
  connect, keeps the sync from succeeding; `HeardInTime` excludes it.
* After a reboot the firmware applies its settings from NVS while the model's
  store holds defaults: a payload that carries the defaults changes nothing in
  the store (`WatchModel.h:83-97`), bumps no version, and the older settings stay
  (`main.cpp:587`).

## Fairness

* `BleTransport`: weak fairness of every timer (a `DispatchQueue` runs
  `asyncAfter` blocks) and of the first state CoreBluetooth reports (the
  delegate is always called once after the manager is made). No delegate
  callback, answer or cancellation is assumed to happen.
* `WatchSync`: weak fairness of each call's return (`CallsReturn` of the
  transport), of the tasks and actors, and of somebody asking for a refresh: the
  scheduler does, every few minutes. Lost links, failures and bindings are not
  fair, and bounded. `WatchCatchesUp` has the premise `HeardInTime`: from some
  time on, what is reported is handled before the next connect returns. The
  handler is one hop between actors, a connect takes hundreds of milliseconds.
* `HostSession`: `Loops` says that `poll()` comes back to its beginning for ever:
  the loop runs, and no drain goes on for ever, since Bluedroid may refill a queue,
  but not faster for ever than the loop empties it. That connections stop changing, and are no more than the set
  holds, is a premise of `ConnectionShown`.
* `UsbMicChime`: the tasks are scheduled, recordings end, time passes. Nothing
  is assumed of the host, nor that a playback ends: its limit is what ends it.
* `UsbMicStream`: the tasks are scheduled; the host may stop reading.
* `WatchPower`: the loop runs on and the clock with it. `WatchControls`: the
  loop runs on and the time of a voice click passes; links, fingers and payloads are not fair.

## Proofs

Eight modules, one per module above except the contract and the store (whose proofs stand with
those of `BleTransport` and `WorkItemFocus`), prove the theorems listed in `PROJECT.json`, for
every value of the constants. Every safety invariant and action property of a passing run is
among them. Most type invariants are proved, rather than run.

* **Transport** (`BleTransportProofs`). `NoOrphanLink`, `LiveLinkNotQuarantined`,
  `SetupHasOwner` and `OnlyBoundDevice` are not inductive alone. `IInv` adds
  `SetupIsPending` (a setup has a connect, and a connect has a device) and
  `Ownership` (what is held belongs to the bound device; an operation has its
  device exactly while it has a continuation; nothing is in use while a link is
  being hung up) and `LateIsDown` (a device whose late `didConnect` is still to come has
  no link yet, so that the link it brings is one the callback finds and hangs up, or the
  next connect of that device takes). Whether a late callback may be swallowed depends on the
  quarantine, which depends on when `BeginConnect` removes its entry; so the
  properties are proved together. `NextInv` has one step per action.
* **Contract** (the second half of `BleTransportProofs`). The refinement rests on four more parts:
  `ClientInv` (a call that waits has a continuation stored, subscribers are
  informed, disconnects wait only for one under way), `RadioInv`, `QueueInv` (the
  requests of a link and the operations correspond, in the order CoreBluetooth
  answers them) and `CommandInv` (who confirmed the notifications). Every action of
  `BleTransport` is then a step of the contract, or none. `ContinuationsHeld`,
  `CancelledByOwnTask`, `ReadyMeansSubscribed` and `WriteAcknowledged` follow.
* **Store** (`WorkItemFocusProofs`). Slots stay distinct because a new item takes a free slot, or that
  of the one item it replaces; `WithKeeps` states this for both. The invariant
  adds that a poll upserts only threads of its listing, which types the items.
* **Ranking.** `MostUsefulOnceRepeated` speaks of the end of a poll, `RankInv` of the
  poll under way: what is upserted already agrees with the listing; if the poll
  repeats the one before, everything stored agrees from its start, so an upsert
  that finds its item changes no rank; and of the threads done, one left out
  means a full store whose items it does not outrank. A replacement
  takes an item that outranks no other and puts one there that does, so what was left out
  before stays rightly out, by the transitivity of `Outranks` (`Ranking`).
* **Focus.** `SeenIsCurrent` needs only that an upsert of a changed update
  clears `seen`, for each of the store's actions, and that an acknowledgement
  records the update it finds.
* **Watch sync** (`WatchSyncProofs`). `BindInv` says where a caller that changes
  the binding is: it is the only one, nothing runs but the sync it waits for, and
  past that wait nothing runs at all; the link is closed before the binding is
  another. `SyncInv` says that what runs is in the slot and serves the bound
  watch, which is why the caller that began a sync may not clear the slot while
  it runs. `OneCallAtATime` and `LinkOfBinding` follow.
* **Host session** (`HostSessionProofs`). `LiveNamesHost` with `FragmentsOfOneHost`: LIVE and the
  buffer name a connection of the set and leave with it, by event and by
  reconciliation. The rest is `SessionInv`, about what is still to come:
  the last event queued about a connection agrees with the server's peers
  (`QueueInv`, `EndInv`), a connection without an event is in the set exactly if it is
  a peer (`SetInv`, `GoneInv`), an event of an earlier session is followed by the
  one that begins this session, at a point where all earlier connections have gone
  (`StaleInv`, `UnseenInv`), and LIVE of a session that is over has its end still
  to come (`LiveInv`). A lost event voids them. Those about the
  queue hold again as soon as the flag is exchanged (`QueueWhole`), those about the
  set once the peers have been read (`SetWhole`). Once the queue is empty they are
  `MembershipRecovers` and `SessionStartsClean`. The sum of the queued events over the set
  is never computed: "the last event about it" and "none about it" are enough, and need
  no induction.
* **Chime** (`UsbMicChimeProofs`). `PhaseInv` says who holds the chime in each
  phase, `CountInv` that a chime on its way is the one without an end; with what
  the codec is at each place of the capture task, and what a dead capture task
  leaves, they give one owner, one end, nobody abandoned and no pulse missed.
* **Stream** (`UsbMicStreamProofs`). `InTime` says that no block on its way is of a
  stream to come, and `Sound` that a block numbered with the open stream was also recorded in
  it (`BlockInv`): the recording is checked after it ends, and its buffer is
  unsound only until then. Since the feeder checks its block under the mutex and the
  transition clears under it, what is put in the FIFO is of the open stream, or
  will still be cleared (`FifoInv`). `RecordingInv` knows which of the two buffers M5.Mic
  writes to; `StartupInv` that the first audio of a stream ends its startup. For the
  order (`OrderInv`), serial numbers ascend from the FIFO through the block in hand
  and the queue to the two buffers, whose order turns with `nextBuffer`.
  The steps are first reduced to a few effects on FIFO, hand and queue (`Kept`,
  `Received`, `Sent`), for which the parts are then proved.
* **Power** (`WatchPowerProofs`). `Good` collects what a screen must satisfy;
  each function on screens keeps it, then each call of the loop. `ChimeUncut`
  adds that a chime begun with a pending click ends before its window, from the
  assumption `ChimeTicks < Window` (270 ms against 500 ms). `WakingClickKeepsAwake`
  follows a red press that found the watch dark: it has not lit the panel
  yet, is under way and knows that it did (`woke`), or its click was heard and
  `pendingWoke` says so (`WakeInv`). That the sampling or the latch will still
  report a press that is over (`PressEnds`) excludes a fourth place.
* **Controls** (`WatchControlsProofs`). `GestureInv` (a touch is one thing at a
  time, and what it has done is what is left of it), `HostInv` (what is held at the host is
  held on the watch and reached over a link that is up, and a stick pushed by a swipe is
  pushed on the legacy face unless the protocol turned under it), `NewsInv` (a protocol in the
  store that is not yet the loop's is marked as news, so that the snapshot that takes it over
  draws) and `ScreenInv` (only a dark screen is out of date). They start from the boot,
  offline on v2; a session selects v2, a late payload may select either.

The assumptions are those of the modules: call identifiers of different kinds
are distinct, `NoDevice`, `NoCall` and `NoConn` are no members, capacities are
positive, connections finite, the chime shorter than the click window.

Only model-checked:

* liveness (`CallsReturn`, `WatchCatchesUp`, `ConnectionShown`, `ChimeEnds`,
  `TransitionEnds`, `LeftAloneGoesDark`, `VoiceClickEnds`). Each rests on weak or strong fairness
  and so on `ENABLED`, about which the prover at hand has no rules. What can be proved
  without it is proved: a call that waits is held by its continuation
  (`ContinuationsHeld`), a chime whose task died is ended (`NoneAbandoned`);
* the three properties that fail, `ConnectingPeripheralRetained`, `NoInheritedLive` and
  `FlakyReadHarmless`.

Only proved: `SubscribersInformed`, `NoneAbandoned` and the type invariants. The
inductive invariants were checked by TLC on the instances of the runs before they were
proved; they are no properties of a run, since the theorems say more.

## Not modelled

Formatting and parsing of payloads, provider responses, prices and text; the
views and the drawing; floating-point projections; build scripts. Two thirds of
what counts as implementation lines here are two generated tables of glyphs
(`SpaceMonoVlw.h`, `NunitoDigitsVlw.h`), which hold no behaviour. The reasons
per component are in `PROJECT.json`.

In the modelled files: scan results, diagnostics and the command stream of
`DeviceBridge`; accounts, costs and dashboards of `AppModel`; thread lighting,
HID reports and advertising of `CodexMicroBle`; USB descriptors, codec registers
and counters of `UsbMic`; geometry, layouts and colours of `main.cpp`. A click of
the red key that both the direct sample and the latch count is excluded from
`WakingClickKeepsAwake`: it is a double click for the code too.

## Plan

1. `WatchSync` with the command stream: two observers, or none, of one binding.
2. That the calls `WatchSync` makes of its transport, and the answers it gets, are a
   behaviour of `TransportContract`: the two are composed by agreement of their
   texts only.
3. `ProviderStore` with concurrent refreshers; `CostDashboardModel` with
   disable and rebuild; `NotificationPolicy`.
4. The app-server client with its reader tasks; removal of an account with
   failures at each step; the local usage reader.
5. `WatchModel`'s provider table at its limit and on wrapping milliseconds.
