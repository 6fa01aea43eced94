------------------------------ MODULE WatchSync ------------------------------
(***************************************************************************)
(* How the Mac keeps the watch up to date: AppModel's binding and watch    *)
(* sync (Sources/TokenLinkApp/AppModel.swift) over the DeviceBridge actor  *)
(* (Sources/TokenLinkDevice/DeviceModels.swift).                           *)
(*                                                                         *)
(* Both are entered anew at every await: a step here is what runs between  *)
(* two awaits.  The transport is the environment, and behaves as           *)
(* TransportContract says: a call returns once, a device is reported       *)
(* connected when a connect succeeds, and the loss of its link is reported *)
(* to whoever listens, in order, but when they hear of it is open.         *)
(*                                                                         *)
(* A caller is a task on the main actor that runs requestRefresh,          *)
(* syncCodexNow, syncCodex, bindDevice or unbindDevice.  The task of a     *)
(* watch sync is named after the caller that began it.                     *)
(***************************************************************************)
EXTENDS Integers, Sequences, FiniteSets

CONSTANTS
  Device, NoDevice,
  V2Devices,     \* those with a capabilities characteristic that lists v2
  Caller, Nobody,
  Sources,       \* how many providers have a quota to show
  HasCodex,      \* whether Codex is the first of them: a v1 watch is told of no other
  EventBuffer,   \* events an AsyncEventHub keeps for a stream
  MaxFaults,     \* bound on lost links, failed calls and bridge timeouts
  MaxBindings,   \* bound on binding and unbinding
  MaxVersion     \* bound on changes of the data

ASSUME SyncAssumption ==
  /\ NoDevice \notin Device /\ V2Devices \subseteq Device
  /\ Nobody \notin Caller
  /\ Sources \in Nat \ {0} /\ HasCodex \in BOOLEAN
  /\ EventBuffer \in Nat \ {0} /\ MaxVersion \in Nat \ {0}
  /\ MaxFaults \in Nat /\ MaxBindings \in Nat

\* Every sync of the application asks for two attempts.
Attempts == 2

VARIABLES
  \* AppModel, on the main actor
  bound,       \* the device of the configuration, and of the present bridge
  generation,  \* bindingGeneration
  changing,    \* isChangingBinding
  syncTask,    \* watchSyncTask, or Nobody
  watching,    \* bridgeEventTask is not nil
  caller,      \* where each caller is
  task,        \* where performWatchSync is, for each caller that began one
  \* DeviceBridge, the present one: a sync is over before its bridge is replaced
  \* (LinkOfBinding)
  phase, negotiated,
  listening,   \* transportEventTask: none, not subscribed yet, or subscribed
  events,      \* what connectionEvents holds for it
  \* the transport, the watches and the data
  link,        \* the device reported connected
  held,        \* the version of each source's data that each watch shows
  version,     \* the version of the data
  faults

appVars == <<bound, generation, changing, syncTask, watching, caller>>
bridgeVars == <<phase, negotiated, listening>>
worldVars == <<version, faults>>
vars == <<appVars, task, bridgeVars, events, link, held, worldVars>>

Phases == {"disconnected", "connecting", "connected", "syncing", "synced", "stale"}
Established == {"connected", "syncing", "synced"}

\* The providers with a quota to show, in the order of ProviderID.allCases.
Source == 1 .. Sources
Codex == IF HasCodex THEN {1} ELSE {}

\* The calls of the transport a sync waits for.
Waits == {"closing", "connecting", "reading", "writing"}

NoTask ==
  [at |-> "none", device |-> NoDevice, attempt |-> 0, generation |-> 0, cancelled |-> FALSE,
   gaveUp |-> FALSE, result |-> "none", left |-> {}, payload |-> 0]

Idle == [at |-> "idle", on |-> Nobody, target |-> NoDevice]

Callers ==
  [at : {"idle", "observing", "ready", "waiting", "woken", "cancelling", "cancelled",
         "unlinking", "unlinked"},
   on : Caller \cup {Nobody}, target : Device \cup {NoDevice}]

Tasks ==
  [at : Waits \cup {"none", "attempt", "closed", "pause", "connected", "deciding",
                    "written", "failed"},
   device : Device \cup {NoDevice}, attempt : 0 .. Attempts,
   generation : 0 .. MaxBindings, cancelled : BOOLEAN, gaveUp : BOOLEAN,
   result : {"none", "ok", "failed", "v1", "v2"},
   left : SUBSET Source, payload : 0 .. MaxVersion]

\* Every variable keeps its type.
TypeOK ==
  /\ bound \in Device \cup {NoDevice} /\ link \in Device \cup {NoDevice}
  /\ generation \in 0 .. MaxBindings
  /\ changing \in BOOLEAN /\ watching \in BOOLEAN
  /\ syncTask \in Caller \cup {Nobody}
  /\ caller \in [Caller -> Callers] /\ task \in [Caller -> Tasks]
  /\ phase \in Phases /\ negotiated \in {"v1", "v2"}
  /\ listening \in {"no", "starting", "yes"}
  /\ events \in Seq([connected : BOOLEAN, device : Device])
  /\ Len(events) <= EventBuffer
  /\ held \in [Device -> [Source -> 0 .. MaxVersion]]
  /\ version \in 1 .. MaxVersion
  /\ faults \in 0 .. MaxFaults

Init ==
  /\ bound \in Device \cup {NoDevice}
  /\ generation = 0 /\ changing = FALSE
  /\ syncTask = Nobody /\ watching = FALSE
  /\ caller = [c \in Caller |-> Idle]
  /\ task = [c \in Caller |-> NoTask]
  /\ phase = "disconnected" /\ negotiated = "v1"
  /\ listening = "no" /\ events = <<>>
  /\ link = NoDevice
  /\ held = [d \in Device |-> [i \in Source |-> 0]]
  /\ version = 1 /\ faults = 0

Fault == faults < MaxFaults /\ faults' = faults + 1
NoFault == UNCHANGED faults

Move(c, at) == caller' = [caller EXCEPT ![c].at = at]

-----------------------------------------------------------------------------
(* The transport *)

\* eventHub.yield: the newest EventBuffer events are kept for a subscriber.
Yield(connected, d) ==
  LET q == Append(events, [connected |-> connected, device |-> d])
  IN  events' = IF listening # "yes" THEN events
                ELSE IF Len(q) > EventBuffer THEN Tail(q) ELSE q

\* What waits for the link fails with it.
LosesLink(t) ==
  IF t.at \in Waits \ {"closing"} /\ t.result = "none"
  THEN [t EXCEPT !.result = "failed"] ELSE t

\* The link is lost, or one that was never reported is closed at last.
LinkLost ==
  /\ bound # NoDevice
  /\ Fault
  /\ link' = NoDevice
  /\ task' = [c \in Caller |-> LosesLink(task[c])]
  /\ Yield(FALSE, bound)
  /\ UNCHANGED <<appVars, bridgeVars, held, version>>

\* disconnect() is over: the end of a link is reported, and at times of none.
Closes(told) ==
  /\ link # NoDevice => told
  /\ link' = NoDevice
  /\ IF told /\ bound # NoDevice THEN Yield(FALSE, bound) ELSE UNCHANGED events

Waiting(c, at) == task[c].at = at /\ task[c].result = "none"
Answer(c, result) == task' = [task EXCEPT ![c].result = result]

\* A call fails: for once, or because the bridge gave it up.  A connect that is
\* given up leaves no link, and a write that is takes it down.
Fails(c) == IF task[c].gaveUp THEN NoFault ELSE Fault

Connects(c) ==
  /\ Waiting(c, "connecting")
  /\ Answer(c, "ok")
  /\ link' = task[c].device
  /\ Yield(TRUE, task[c].device)
  /\ UNCHANGED <<appVars, bridgeVars, held, worldVars>>

ConnectFails(c) ==
  /\ Waiting(c, "connecting")
  /\ Answer(c, "failed")
  /\ Fails(c)
  /\ \E told \in BOOLEAN : Closes(told)
  /\ UNCHANGED <<appVars, bridgeVars, held, version>>

\* Capabilities: v2, none at all on a v1 watch, or nothing came of the read.
Reads(c) ==
  /\ Waiting(c, "reading")
  /\ \/ /\ link = task[c].device
        /\ Answer(c, IF link \in V2Devices THEN "v2" ELSE "v1")
        /\ NoFault
     \/ /\ Answer(c, "v1")
        /\ IF link = task[c].device THEN Fails(c) ELSE NoFault
  /\ UNCHANGED <<appVars, bridgeVars, events, link, held, version>>

\* The source whose payload is being written: the first that is left.
Writing(c) == CHOOSE i \in task[c].left : \A j \in task[c].left : i <= j

\* A payload is of one source, and leaves what the watch shows of the others.
Writes(c) ==
  /\ Waiting(c, "writing")
  /\ link = task[c].device
  /\ Answer(c, "ok")
  /\ held' = [held EXCEPT ![link][Writing(c)] = task[c].payload]
  /\ UNCHANGED <<appVars, bridgeVars, events, link, worldVars>>

WriteFails(c) ==
  /\ Waiting(c, "writing")
  /\ Answer(c, "failed")
  /\ IF link = task[c].device THEN Fails(c) ELSE NoFault
  /\ Closes(link # NoDevice) \/ UNCHANGED <<link, events>>
  /\ UNCHANGED <<appVars, bridgeVars, held, version>>

TaskCloses(c) ==
  /\ task[c].at = "closing"
  /\ \E told \in BOOLEAN : Closes(told)
  /\ task' = [task EXCEPT ![c].at = "closed"]
  /\ UNCHANGED <<appVars, bridgeVars, held, worldVars>>

BinderCloses(c) ==
  /\ caller[c].at = "unlinking"
  /\ \E told \in BOOLEAN : Closes(told)
  /\ Move(c, "unlinked")
  /\ UNCHANGED <<bound, generation, changing, syncTask, watching, task, bridgeVars,
                 held, worldVars>>

Transport ==
  \/ \E c \in Caller :
       \/ Connects(c) \/ ConnectFails(c) \/ Reads(c) \/ Writes(c) \/ WriteFails(c)
       \/ TaskCloses(c) \/ BinderCloses(c)
  \/ LinkLost

-----------------------------------------------------------------------------
(* DeviceBridge *)

\* The observing task has come to its stream: what was reported before is lost.
Subscribes ==
  /\ listening = "starting"
  /\ listening' = "yes"
  /\ UNCHANGED <<appVars, task, phase, negotiated, events, link, held, worldVars>>

HandleConnected ==
  /\ phase' = IF phase \in {"connecting", "disconnected"} THEN "connected" ELSE phase
  /\ UNCHANGED negotiated

HandleDisconnected == negotiated' = "v1" /\ phase' = "disconnected"

Handle ==
  /\ events # <<>>
  /\ events' = Tail(events)
  /\ IF Head(events).device # bound THEN UNCHANGED <<phase, negotiated>>
     ELSE IF Head(events).connected THEN HandleConnected ELSE HandleDisconnected
  /\ UNCHANGED <<appVars, task, listening, link, held, worldVars>>

\* perform(timeout:): its timer or a cancellation decides what the bridge is told,
\* but the group still waits for the call to end.
GivesUp(c) ==
  /\ task[c].at \in Waits \ {"closing"} /\ task[c].result = "none"
  /\ ~task[c].gaveUp
  /\ task' = [task EXCEPT ![c].gaveUp = TRUE]
  /\ Fault
  /\ UNCHANGED <<appVars, bridgeVars, events, link, held, version>>

\* The task goes on to a call of the transport, or past it.
Going(c, at) ==
  [task[c] EXCEPT !.at = at, !.result = "none", !.gaveUp = task[c].cancelled]
Then(c, at) == task' = [task EXCEPT ![c] = Going(c, at)]

\* connect(): nothing to do when the phase says so.
BeginConnect(c) ==
  IF phase \in Established
  THEN Then(c, "connected") /\ UNCHANGED phase
  ELSE Then(c, "connecting") /\ phase' = "connecting"

Succeeds(c) == task[c].result = "ok" /\ ~task[c].gaveUp

ConnectResumes(c) ==
  /\ task[c].at = "connecting" /\ task[c].result # "none"
  /\ IF Succeeds(c) THEN Then(c, "reading") /\ UNCHANGED phase
     ELSE Then(c, "failed") /\ phase' = "disconnected"
  /\ UNCHANGED <<appVars, negotiated, listening, events, link, held, worldVars>>

\* Mutated: connect() leaves it to the observer to say that the watch is connected.
NegotiateByEvent(c) ==
  /\ task[c].at = "reading" /\ task[c].result # "none"
  /\ negotiated' = IF task[c].gaveUp \/ task[c].result # "v2" THEN "v1" ELSE "v2"
  /\ Then(c, "connected")
  /\ UNCHANGED <<appVars, phase, listening, events, link, held, worldVars>>

\* Every failure falls back to v1.
NegotiateResumes(c) ==
  /\ task[c].at = "reading" /\ task[c].result # "none"
  /\ negotiated' = IF task[c].gaveUp \/ task[c].result # "v2" THEN "v1" ELSE "v2"
  /\ phase' = "connected"
  /\ Then(c, "connected")
  /\ UNCHANGED <<appVars, listening, events, link, held, worldVars>>

WriteResumes(c) ==
  /\ task[c].at = "writing" /\ task[c].result # "none"
  /\ IF Succeeds(c) THEN Then(c, "written") /\ phase' = "synced"
     ELSE /\ Then(c, "failed")
          /\ phase' = IF phase = "disconnected" THEN phase ELSE "stale"
  /\ UNCHANGED <<appVars, negotiated, listening, events, link, held, worldVars>>

DisconnectResumes(c) ==
  /\ task[c].at = "closed"
  /\ negotiated' = "v1" /\ phase' = "disconnected"
  /\ Then(c, "pause")
  /\ UNCHANGED <<appVars, listening, events, link, held, worldVars>>

-----------------------------------------------------------------------------
(* performWatchSync *)

Current(c) ==
  /\ ~changing
  /\ task[c].generation = generation
  /\ bound # NoDevice

GoesOn(c) == ~task[c].cancelled /\ Current(c)

\* The sync returns: so do all that awaited it.
Ends(c) ==
  /\ task' = [task EXCEPT ![c] = NoTask]
  /\ caller' = [b \in Caller |->
       IF caller[b].on # c THEN caller[b]
       ELSE CASE caller[b].at = "waiting" -> [caller[b] EXCEPT !.at = "woken"]
              [] caller[b].at = "cancelling" -> [caller[b] EXCEPT !.at = "cancelled"]
              [] OTHER -> caller[b]]

NextAttempt(c) ==
  task' = [task EXCEPT ![c] = [Going(c, "attempt") EXCEPT !.attempt = @ + 1]]

TaskFrame == UNCHANGED <<bound, generation, changing, syncTask, watching, negotiated,
                         listening, events, link, held, worldVars>>

\* The first attempt uses what link there is, the second makes a new one.
Attempt(c) ==
  /\ task[c].at = "attempt"
  /\ IF task[c].attempt = Attempts \/ ~GoesOn(c) THEN Ends(c) /\ UNCHANGED phase
     ELSE /\ UNCHANGED caller
          /\ IF task[c].attempt = 0 THEN BeginConnect(c)
             ELSE Then(c, "closing") /\ UNCHANGED phase
  /\ TaskFrame

\* Between the disconnect and the new connect.
Pause(c) ==
  /\ task[c].at = "pause"
  /\ IF GoesOn(c) THEN BeginConnect(c) /\ UNCHANGED caller
     ELSE Ends(c) /\ UNCHANGED phase
  /\ TaskFrame

\* connect() returned: is the bridge still connected?
ReadPhase(c) ==
  /\ task[c].at = "connected"
  /\ IF ~GoesOn(c) THEN Ends(c)
     ELSE /\ UNCHANGED caller
          /\ IF phase \in {"connected", "synced"} THEN Then(c, "deciding")
             ELSE NextAttempt(c)
  /\ UNCHANGED phase
  /\ TaskFrame

\* WatchSyncPolicy.payloads: one per provider, or that of Codex alone.
Payloads == IF negotiated = "v2" THEN Source ELSE Codex

BeginWrite(c, left, payload) ==
  /\ task' = [task EXCEPT ![c] =
       [Going(c, "writing") EXCEPT !.left = left, !.payload = payload]]
  /\ phase' = "syncing"

\* buildWatchDecisions, and the first write of the batch.
Decide(c) ==
  /\ task[c].at = "deciding"
  /\ IF Payloads = {} THEN Ends(c) /\ UNCHANGED phase
     ELSE BeginWrite(c, Payloads, version) /\ UNCHANGED caller
  /\ TaskFrame

Written(c) ==
  /\ task[c].at = "written"
  /\ LET left == task[c].left \ {Writing(c)}
     IN  IF left = {} THEN Ends(c) /\ UNCHANGED phase
         ELSE BeginWrite(c, left, task[c].payload) /\ UNCHANGED caller
  /\ TaskFrame

Failed(c) ==
  /\ task[c].at = "failed"
  /\ IF GoesOn(c) THEN NextAttempt(c) /\ UNCHANGED caller ELSE Ends(c)
  /\ UNCHANGED phase
  /\ TaskFrame

TaskStep(c) ==
  \/ ConnectResumes(c) \/ NegotiateResumes(c) \/ WriteResumes(c) \/ DisconnectResumes(c)
  \/ Attempt(c) \/ Pause(c) \/ ReadPhase(c) \/ Decide(c) \/ Written(c) \/ Failed(c)

-----------------------------------------------------------------------------
(* The callers *)

Start == listening' = IF listening = "no" THEN "starting" ELSE listening

CallerFrame == UNCHANGED <<phase, negotiated, link, held, worldVars>>

\* A request, which may see first that somebody observes the bridge: the handle
\* is looked at before startObservingTransport is awaited.
Request(c) ==
  /\ caller[c].at = "idle"
  /\ \/ Move(c, "ready") /\ UNCHANGED listening
     \/ ~watching /\ bound # NoDevice /\ Start /\ Move(c, "observing")
  /\ UNCHANGED <<bound, generation, changing, syncTask, watching, task, events>>
  /\ CallerFrame

\* and set after it.  The end of bindDevice follows at once.
Observed(c) ==
  /\ caller[c].at = "observing"
  /\ watching' = TRUE
  /\ changing' = (changing /\ caller[c].target = NoDevice)
  /\ caller' = [caller EXCEPT ![c] = [Idle EXCEPT !.at = "ready"]]
  /\ UNCHANGED <<bound, generation, syncTask, task, listening, events>>
  /\ CallerFrame

Running(c) == c # Nobody /\ task[c].at # "none"

\* syncCodex: there is one sync at a time, and who comes later awaits it.
SyncJoined(c) ==
  /\ ~changing /\ Running(syncTask)
  /\ caller' = [caller EXCEPT ![c].at = "waiting", ![c].on = syncTask]
  /\ UNCHANGED <<syncTask, task>>

SyncBegun(c) ==
  /\ ~changing /\ syncTask = Nobody /\ bound # NoDevice
  /\ syncTask' = c
  /\ task' = [task EXCEPT ![c] =
       [NoTask EXCEPT !.at = "attempt", !.device = bound, !.generation = generation]]
  /\ caller' = [caller EXCEPT ![c].at = "waiting", ![c].on = c]

SyncNotNeeded(c) ==
  /\ \/ changing
     \/ syncTask # Nobody /\ ~Running(syncTask)
     \/ syncTask = Nobody /\ bound = NoDevice
  /\ caller' = [caller EXCEPT ![c] = Idle]
  /\ UNCHANGED <<syncTask, task>>

SyncCodex(c) ==
  /\ caller[c].at = "ready"
  /\ SyncJoined(c) \/ SyncBegun(c) \/ SyncNotNeeded(c)
  /\ UNCHANGED <<bound, generation, changing, watching, listening, events>>
  /\ CallerFrame

\* Who began a sync clears the slot, unless it is another's by now.
Woken(c) ==
  /\ caller[c].at = "woken"
  /\ syncTask' = IF syncTask = c /\ caller[c].on = c THEN Nobody ELSE syncTask
  /\ caller' = [caller EXCEPT ![c] = Idle]
  /\ UNCHANGED <<bound, generation, changing, watching, task, listening, events>>
  /\ CallerFrame

\* bindDevice, and unbindDevice with d = NoDevice: the sync under way is cancelled
\* and awaited.
Cancelled(t) ==
  [t EXCEPT !.cancelled = TRUE,
            !.gaveUp = @ \/ t.result = "none"]

\* Mutated: the binding changes without waiting for the sync it cancelled.
BindAtOnce(c, d) ==
  /\ caller[c].at = "idle"
  /\ ~changing /\ generation < MaxBindings
  /\ changing' = TRUE /\ generation' = generation + 1
  /\ task' = IF Running(syncTask)
             THEN [task EXCEPT ![syncTask] = Cancelled(@)] ELSE task
  /\ caller' = [caller EXCEPT ![c] =
       [at |-> "cancelled", on |-> syncTask, target |-> d]]
  /\ UNCHANGED <<bound, syncTask, watching, listening, events>>
  /\ CallerFrame

Bind(c, d) ==
  /\ caller[c].at = "idle"
  /\ ~changing /\ generation < MaxBindings
  /\ changing' = TRUE /\ generation' = generation + 1
  /\ task' = IF Running(syncTask)
             THEN [task EXCEPT ![syncTask] = Cancelled(@)] ELSE task
  /\ caller' = [caller EXCEPT ![c] =
       [at |-> IF Running(syncTask) THEN "cancelling" ELSE "cancelled",
        on |-> syncTask, target |-> d]]
  /\ UNCHANGED <<bound, syncTask, watching, listening, events>>
  /\ CallerFrame

\* Mutated: only a link the bridge believes in is closed.
StopObservingByPhase(c) ==
  /\ caller[c].at = "cancelled"
  /\ syncTask' = IF syncTask = caller[c].on THEN Nobody ELSE syncTask
  /\ watching' = FALSE /\ listening' = "no" /\ events' = <<>>
  /\ Move(c, IF bound = NoDevice \/ phase \notin Established
             THEN "unlinked" ELSE "unlinking")
  /\ UNCHANGED <<bound, generation, changing, task>>
  /\ CallerFrame

\* The observers of the old bridge are stopped, and its link is closed.
StopObserving(c) ==
  /\ caller[c].at = "cancelled"
  /\ syncTask' = IF syncTask = caller[c].on THEN Nobody ELSE syncTask
  /\ watching' = FALSE /\ listening' = "no" /\ events' = <<>>
  /\ Move(c, IF bound = NoDevice THEN "unlinked" ELSE "unlinking")
  /\ UNCHANGED <<bound, generation, changing, task>>
  /\ CallerFrame

\* The configuration, its bridge and whoever is to observe it; saving may fail.
Switch(c) ==
  /\ caller[c].at = "unlinked"
  /\ bound' = caller[c].target
  /\ phase' = "disconnected" /\ negotiated' = "v1" /\ events' = <<>>
  /\ \/ /\ caller[c].target # NoDevice /\ ~watching /\ NoFault
        /\ listening' = "starting" /\ Move(c, "observing") /\ UNCHANGED changing
     \/ /\ caller[c].target # NoDevice /\ watching /\ NoFault
        /\ listening' = "no" /\ changing' = FALSE
        /\ caller' = [caller EXCEPT ![c] = [Idle EXCEPT !.at = "ready"]]
     \/ /\ (caller[c].target = NoDevice /\ NoFault) \/ Fault
        /\ listening' = "no" /\ changing' = FALSE
        /\ caller' = [caller EXCEPT ![c] = Idle]
  /\ UNCHANGED <<generation, syncTask, watching, task, link, held, version>>

CallerStep(c) ==
  Observed(c) \/ SyncCodex(c) \/ Woken(c) \/ StopObserving(c) \/ Switch(c)

\* New quotas, sessions or settings.
Changes ==
  /\ version < MaxVersion
  /\ version' = version + 1
  /\ UNCHANGED <<appVars, task, bridgeVars, events, link, held, faults>>

-----------------------------------------------------------------------------
Next ==
  \/ Transport \/ Subscribes \/ Handle \/ Changes
  \/ \E c \in Caller :
       \/ GivesUp(c) \/ TaskStep(c) \/ CallerStep(c) \/ Request(c)
       \/ \E d \in Device \cup {NoDevice} : Bind(c, d)

Spec == Init /\ [][Next]_vars

Returns(c) ==
  \/ Connects(c) \/ ConnectFails(c) \/ Reads(c) \/ Writes(c) \/ WriteFails(c)
  \/ TaskCloses(c) \/ BinderCloses(c)

\* Every call of the transport returns, tasks and actors are scheduled, and the
\* scheduler asks for a refresh again and again.
FairSpec ==
  /\ Spec
  /\ WF_vars(Subscribes) /\ WF_vars(Handle)
  /\ WF_vars(\E c \in Caller : Request(c))
  /\ \A c \in Caller :
       WF_vars(Returns(c)) /\ WF_vars(TaskStep(c)) /\ WF_vars(CallerStep(c))

-----------------------------------------------------------------------------
(* Properties *)

\* The transport takes one call at a time of its kind and refuses the next
\* (CoreBluetoothDeviceBridge.swift:185): the bridge, its timers and the
\* cancelled sync of an old binding never have two of them under way.
OneCallAtATime ==
  Cardinality({c \in Caller : task[c].at \in Waits})
    + Cardinality({c \in Caller : caller[c].at = "unlinking"}) <= 1

\* A watch that is bound no more is let go, and no sync that was under way for it
\* outlives its bridge to take up its link again.
LinkOfBinding ==
  /\ link # NoDevice => link = bound
  /\ \A c \in Caller : Running(c) => task[c].device = bound

\* What is reported is heard before the next connect returns.
HeardInTime == [][\A c \in Caller : Connects(c) => events = <<>>]_vars

\* A v2 watch is negotiated as v1 when the read of its capabilities comes to
\* nothing, and stays so for as long as the bridge takes it for connected.
TakenForV1 == bound \in V2Devices /\ phase \in Established /\ negotiated = "v1"

\* The sources a watch is written to about.
Told == IF bound \in V2Devices /\ ~TakenForV1 THEN Source ELSE Codex

\* Whatever links were lost, calls failed, timers raced and events came late, and
\* whether or not anybody observes the bridge: the bound watch comes to show the
\* latest of every source, or of Codex when it is a v1 watch or taken for one.
WatchCatchesUp ==
  <>HeardInTime => <>[](bound = NoDevice \/ \A i \in Told : held[bound][i] = version)

\* "Every failure path falls back to v1 so a v1-only watch (or a flaky read) never
\* breaks sync" (DeviceModels.swift:245): whatever came of the read, a v2 watch
\* comes to show the latest of every source.
FlakyReadHarmless ==
  <>HeardInTime =>
    <>[](bound \in V2Devices => \A i \in Source : held[bound][i] = version)
=============================================================================
