--------------------------- MODULE WatchSyncProofs ---------------------------
(***************************************************************************)
(* Proofs about WatchSync, for any watches, any number of callers, faults  *)
(* and changes of the binding: the transport is asked for one thing at a   *)
(* time, and no sync outlives its binding.                                 *)
(***************************************************************************)
EXTENDS WatchSync, FiniteSetTheorems, TLAPS

\* Where a sync may be: its attempts are counted at their beginning, and there is
\* something left of a batch that is being written.
TaskInv ==
  \A c \in Caller :
    /\ task[c].at \notin {"none", "attempt"} => task[c].attempt < Attempts
    /\ task[c].at \in {"writing", "written"} => task[c].left # {}

\* The one sync is in its slot and serves the bound watch, and who began it does
\* not clear the slot while it runs.
SyncInv ==
  \A c \in Caller :
    /\ Running(c) => syncTask = c /\ task[c].device = bound /\ bound # NoDevice
    /\ caller[c].at = "woken" /\ caller[c].on = c => ~Running(c)

\* The caller that changes the binding.
Binds(c) ==
  \/ caller[c].at \in {"cancelling", "cancelled", "unlinking", "unlinked"}
  \/ caller[c].at = "observing" /\ caller[c].target # NoDevice

\* There is one, nothing runs but the sync it waits for, and the link is closed
\* before the binding is another.
BindInv ==
  \A b \in Caller :
    /\ Binds(b) => /\ changing
                   /\ \A c \in Caller : Binds(c) => c = b
                   /\ \A c \in Caller : Running(c) =>
                        caller[b].at = "cancelling" /\ caller[b].on = c
    /\ caller[b].at = "unlinked" => link = NoDevice
    /\ caller[b].at = "idle" => caller[b].target = NoDevice

LinkInv == link # NoDevice => link = bound

IInv == TypeOK /\ TaskInv /\ SyncInv /\ BindInv /\ LinkInv
-----------------------------------------------------------------------------
\* What the bridge, the transport and the world keep of their types.
Events == Seq([connected : BOOLEAN, device : Device])

WorldOK ==
  /\ phase \in Phases /\ negotiated \in {"v1", "v2"}
  /\ listening \in {"no", "starting", "yes"}
  /\ events \in Events /\ Len(events) <= EventBuffer
  /\ held \in [Device -> [Source -> 0 .. MaxVersion]]
  /\ version \in 1 .. MaxVersion
  /\ faults \in 0 .. MaxFaults

AppOK ==
  /\ bound \in Device \cup {NoDevice} /\ link \in Device \cup {NoDevice}
  /\ generation \in 0 .. MaxBindings
  /\ changing \in BOOLEAN /\ watching \in BOOLEAN
  /\ syncTask \in Caller \cup {Nobody}
  /\ caller \in [Caller -> Callers] /\ task \in [Caller -> Tasks]

\* TypeOK, by parts.
LEMMA Types ==
  /\ TypeOK <=> AppOK /\ WorldOK
  /\ TypeOK' <=> AppOK' /\ WorldOK'
BY DEF TypeOK, AppOK, WorldOK, Events

\* A hub keeps at most EventBuffer events.
LEMMA YieldKeeps ==
  ASSUME WorldOK, NEW connected \in BOOLEAN, NEW d \in Device, Yield(connected, d)
  PROVE  events' \in Events /\ Len(events') <= EventBuffer
<1> DEFINE q == Append(events, [connected |-> connected, device |-> d])
<1>1. q \in Events /\ Len(q) = Len(events) + 1 /\ Len(events) \in Nat
  BY DEF WorldOK, Events
<1>2. q # <<>> /\ Tail(q) \in Events /\ Len(Tail(q)) = Len(q) - 1
  BY <1>1 DEF Events
<1>3. CASE listening # "yes"
  BY <1>3 DEF Yield, WorldOK
<1>4. CASE listening = "yes" /\ Len(q) > EventBuffer
  BY <1>1, <1>2, <1>4, SyncAssumption DEF Yield, WorldOK
<1>5. CASE listening = "yes" /\ ~(Len(q) > EventBuffer)
  BY <1>1, <1>5, SyncAssumption DEF Yield, WorldOK
<1> QED BY <1>3, <1>4, <1>5

\* A link that is closed leaves none, whether or not its end is reported.
LEMMA ClosesKeeps ==
  ASSUME TypeOK, NEW told \in BOOLEAN, Closes(told)
  PROVE  link' = NoDevice /\ events' \in Events /\ Len(events') <= EventBuffer
<1>1. WorldOK /\ bound \in Device \cup {NoDevice}
  BY Types DEF AppOK
<1>2. CASE told /\ bound # NoDevice
  BY <1>1, <1>2, YieldKeeps DEF Closes
<1>3. CASE ~(told /\ bound # NoDevice)
  BY <1>1, <1>3 DEF Closes, WorldOK
<1> QED BY <1>2, <1>3 DEF Closes

\* A sync that goes on, and may make or lose the link, keeps what is said of the
\* binding.
LEMMA TaskKeeps ==
  ASSUME IInv, NEW c \in Caller, Running(c), NEW t \in Tasks,
         t.at # "none", t.device = task[c].device,
         t.at # "attempt" => t.attempt < Attempts,
         t.at \in {"writing", "written"} => t.left # {},
         task' = [task EXCEPT ![c] = t],
         UNCHANGED appVars,
         link' \in {link, NoDevice, task[c].device}
  PROVE  AppOK' /\ TaskInv' /\ SyncInv' /\ BindInv' /\ LinkInv'
<1>1. /\ task' \in [Caller -> Tasks] /\ task'[c] = t
      /\ \A d \in Caller \ {c} : task'[d] = task[d]
  BY DEF IInv, TypeOK
<1>2. \A d \in Caller : Running(d)' <=> Running(d)
  BY <1>1 DEF Running
<1>3. task[c].device = bound /\ bound # NoDevice /\ bound \in Device
  BY DEF IInv, SyncInv, TypeOK
<1>4. AppOK'
  BY <1>1, <1>3 DEF IInv, TypeOK, AppOK, appVars
<1>5. TaskInv'
  BY <1>1 DEF IInv, TaskInv
<1>6. SyncInv'
  BY <1>1, <1>2 DEF IInv, SyncInv, appVars
<1>7. \A b \in Caller : Binds(b) => caller[b].at = "cancelling"
  BY DEF IInv, BindInv
<1>8. \A b \in Caller : caller[b].at # "unlinked"
  BY <1>7 DEF Binds
<1>9. BindInv'
  <2>1. \A b \in Caller : Binds(b)' <=> Binds(b)
    BY DEF Binds, appVars
  <2>2. caller' = caller /\ changing' = changing
    BY DEF appVars
  <2> QED BY <1>2, <1>8, <2>1, <2>2 DEF IInv, BindInv
<1>10. LinkInv'
  BY <1>3 DEF IInv, LinkInv, appVars
<1> QED BY <1>4, <1>5, <1>6, <1>9, <1>10
Results == {"none", "ok", "failed", "v1", "v2"}
Places == Waits \cup {"attempt", "closed", "pause", "connected", "deciding", "written",
                      "failed"}

\* A sync that hears of its call.
LEMMA AnswerKeeps ==
  ASSUME IInv, NEW c \in Caller, Running(c), NEW r \in Results, Answer(c, r),
         UNCHANGED appVars, link' \in {link, NoDevice, task[c].device}
  PROVE  AppOK' /\ TaskInv' /\ SyncInv' /\ BindInv' /\ LinkInv'
<1> DEFINE t == [task[c] EXCEPT !.result = r]
<1>1. task[c] \in Tasks /\ task[c].at # "none"
  BY DEF IInv, TypeOK, Running
<1>2. t \in Tasks /\ t.at = task[c].at /\ t.device = task[c].device
      /\ t.attempt = task[c].attempt /\ t.left = task[c].left
  BY <1>1 DEF Tasks, Results
<1>3. task' = [task EXCEPT ![c] = t]
  BY DEF Answer
<1>4. t.at # "attempt" => t.attempt < Attempts
  BY <1>1, <1>2 DEF IInv, TaskInv
<1>5. t.at \in {"writing", "written"} => t.left # {}
  BY <1>2 DEF IInv, TaskInv
<1> HIDE DEF t
<1> QED BY <1>1, <1>2, <1>3, <1>4, <1>5, TaskKeeps

\* A sync that goes on to another place, or writes the next payload.
LEMMA GoingKeeps ==
  ASSUME IInv, NEW c \in Caller, Running(c), NEW at \in Places, NEW n \in SUBSET Source,
         NEW p \in 0 .. MaxVersion, NEW k \in 0 .. Attempts,
         at # "attempt" => k < Attempts, at \in {"writing", "written"} => n # {},
         task' = [task EXCEPT ![c] = [Going(c, at) EXCEPT !.left = n, !.payload = p,
                                                           !.attempt = k]],
         UNCHANGED <<appVars, link>>
  PROVE  AppOK' /\ TaskInv' /\ SyncInv' /\ BindInv' /\ LinkInv'
<1> DEFINE t == [Going(c, at) EXCEPT !.left = n, !.payload = p, !.attempt = k]
<1>1. task[c] \in Tasks
  BY DEF IInv, TypeOK
<1>2. t \in Tasks /\ t.at = at /\ t.device = task[c].device
      /\ t.attempt = k /\ t.left = n
  BY <1>1 DEF Going, Tasks, Places, Waits
<1>3. at # "none"
  BY DEF Places, Waits
<1>4. task' = [task EXCEPT ![c] = t]
  OBVIOUS
<1> HIDE DEF t
<1> QED BY <1>2, <1>3, <1>4, TaskKeeps

\* A sync that goes on with its batch and attempt as they are.
LEMMA ThenKeeps ==
  ASSUME IInv, NEW c \in Caller, Running(c), NEW at \in Places \ {"attempt", "writing"},
         task[c].attempt < Attempts, at = "written" => task[c].left # {},
         Then(c, at), UNCHANGED <<appVars, link>>
  PROVE  AppOK' /\ TaskInv' /\ SyncInv' /\ BindInv' /\ LinkInv'
<1>1. task[c] \in Tasks
  BY DEF IInv, TypeOK
<1>2. /\ task[c].left \in SUBSET Source /\ task[c].payload \in 0 .. MaxVersion
      /\ task[c].attempt \in 0 .. Attempts
  BY <1>1 DEF Tasks
<1>3. Going(c, at) = [Going(c, at) EXCEPT !.left = task[c].left,
                                          !.payload = task[c].payload,
                                          !.attempt = task[c].attempt]
  BY <1>1 DEF Going, Tasks
<1>4. at \in Places
  OBVIOUS
<1>5. task' = [task EXCEPT ![c] = [Going(c, at) EXCEPT !.left = task[c].left,
                                                       !.payload = task[c].payload,
                                                       !.attempt = task[c].attempt]]
  BY <1>3 DEF Then
<1> QED BY <1>2, <1>4, <1>5, GoingKeeps

\* A sync that tries again: it had an attempt left.
LEMMA NextAttemptKeeps ==
  ASSUME IInv, NEW c \in Caller, Running(c), task[c].attempt < Attempts,
         NextAttempt(c), UNCHANGED <<appVars, link>>
  PROVE  AppOK' /\ TaskInv' /\ SyncInv' /\ BindInv' /\ LinkInv'
<1>1. task[c] \in Tasks
  BY DEF IInv, TypeOK
<1> DEFINE k == task[c].attempt + 1
<1>2. /\ task[c].left \in SUBSET Source /\ task[c].payload \in 0 .. MaxVersion
      /\ k \in 0 .. Attempts
  BY <1>1 DEF Tasks, Attempts
<1>3. [Going(c, "attempt") EXCEPT !.attempt = @ + 1]
        = [Going(c, "attempt") EXCEPT !.left = task[c].left,
                                      !.payload = task[c].payload, !.attempt = k]
  BY <1>1 DEF Going, Tasks
<1>4. task' = [task EXCEPT ![c] = [Going(c, "attempt") EXCEPT
                 !.left = task[c].left, !.payload = task[c].payload, !.attempt = k]]
  BY <1>3 DEF NextAttempt
<1>5. "attempt" \in Places
  BY DEF Places
<1> HIDE DEF k
<1> QED BY <1>2, <1>4, <1>5, GoingKeeps

\* A caller without a sync is one the types allow.
LEMMA NoTaskType == NoTask \in Tasks
BY SyncAssumption DEF NoTask, Tasks, Attempts

\* A sync that is over frees those that wait for it, and nothing runs any more.
LEMMA EndsKeeps ==
  ASSUME IInv, NEW c \in Caller, Running(c), Ends(c),
         UNCHANGED <<bound, generation, changing, syncTask, watching, link>>
  PROVE  AppOK' /\ TaskInv' /\ SyncInv' /\ BindInv' /\ LinkInv'
<1>1. NoTask \in Tasks
  BY NoTaskType
<1>2. /\ task' \in [Caller -> Tasks] /\ task'[c] = NoTask
      /\ \A d \in Caller \ {c} : task'[d] = task[d]
  BY <1>1 DEF Ends, IInv, TypeOK
<1>3. /\ ~Running(c)'
      /\ \A d \in Caller \ {c} : Running(d)' <=> Running(d)
  BY <1>2 DEF Running, NoTask
<1>4. \A b \in Caller : caller[b] \in Callers
  BY DEF IInv, TypeOK
<1>5. \A b \in Caller :
        /\ caller'[b] \in Callers
        /\ caller'[b].on = caller[b].on /\ caller'[b].target = caller[b].target
        /\ \/ caller'[b].at = caller[b].at
           \/ /\ caller[b].on = c
              /\ \/ caller[b].at = "waiting" /\ caller'[b].at = "woken"
                 \/ caller[b].at = "cancelling" /\ caller'[b].at = "cancelled"
  <2>1. TAKE b \in Caller
  <2>2. CASE caller[b].on = c /\ caller[b].at = "waiting"
    BY <1>4, <2>2 DEF Ends, Callers
  <2>3. CASE caller[b].on = c /\ caller[b].at = "cancelling"
    BY <1>4, <2>3 DEF Ends, Callers
  <2>4. CASE ~(caller[b].on = c /\ caller[b].at \in {"waiting", "cancelling"})
    BY <1>4, <2>4 DEF Ends
  <2> QED BY <2>2, <2>3, <2>4
<1>6. caller' \in [Caller -> Callers]
  BY <1>5 DEF Ends
<1>7. AppOK'
  BY <1>2, <1>6 DEF IInv, TypeOK, AppOK
<1>8. TaskInv'
  BY <1>2 DEF IInv, TaskInv, NoTask
<1>9. SyncInv'
  BY <1>2, <1>3, <1>5 DEF IInv, SyncInv
<1>10. BindInv'
  <2>1. \A b \in Caller : Binds(b)' <=> Binds(b)
    BY <1>5 DEF Binds
  <2>2. \A b \in Caller : Binds(b) => \A d \in Caller : ~Running(d)'
    BY <1>3 DEF IInv, BindInv
  <2>3. \A b \in Caller :
          /\ caller'[b].at = "unlinked" => caller[b].at = "unlinked"
          /\ caller'[b].at = "idle" => caller[b].at = "idle"
          /\ caller'[b].target = caller[b].target
    BY <1>5
  <2> QED BY <2>1, <2>2, <2>3 DEF IInv, BindInv
<1>11. LinkInv'
  BY DEF IInv, LinkInv
<1> QED BY <1>7, <1>8, <1>9, <1>10, <1>11

-----------------------------------------------------------------------------
\* A task that is anywhere runs.
LEMMA WaitingRuns ==
  ASSUME NEW c \in Caller, task[c].at # "none"
  PROVE  Running(c)
BY SyncAssumption DEF Running

\* Faults are counted up to their bound.
LEMMA FaultKeeps ==
  ASSUME WorldOK
  PROVE  /\ Fault => faults' \in 0 .. MaxFaults
         /\ NoFault => faults' \in 0 .. MaxFaults
BY SyncAssumption DEF WorldOK, Fault, NoFault

\* The calls of a sync return.
LEMMA ReturnsKeep ==
  ASSUME IInv, NEW c \in Caller,
         \/ Connects(c) \/ ConnectFails(c) \/ Reads(c) \/ Writes(c) \/ WriteFails(c)
  PROVE  IInv'
<1>1. AppOK /\ WorldOK /\ task[c] \in Tasks
  BY Types DEF IInv, TypeOK
<1>2. Running(c)
  BY WaitingRuns DEF Connects, ConnectFails, Reads, Writes, WriteFails, Waiting
<1>3. task[c].device \in Device
  BY <1>2 DEF IInv, SyncInv, TypeOK
<1>4. SUFFICES /\ \E r \in Results : Answer(c, r)
               /\ UNCHANGED appVars
               /\ link' \in {link, NoDevice, task[c].device}
               /\ WorldOK'
  BY <1>2, AnswerKeeps, Types DEF IInv
<1>5. Fails(c) => faults' \in 0 .. MaxFaults
  BY <1>1, FaultKeeps DEF Fails
<1>6. NoFault => faults' \in 0 .. MaxFaults
  BY <1>1, FaultKeeps
<1>7. CASE Connects(c)
  <2>1. events' \in Events /\ Len(events') <= EventBuffer
    BY <1>1, <1>3, <1>7, YieldKeeps DEF Connects
  <2> QED BY <1>1, <1>7, <2>1 DEF Connects, Results, WorldOK, bridgeVars,
     worldVars
<1>8. CASE ConnectFails(c)
  <2>1. link' = NoDevice /\ events' \in Events /\ Len(events') <= EventBuffer
    BY <1>8, ClosesKeeps DEF ConnectFails, IInv
  <2> QED BY <1>1, <1>5, <1>8, <2>1 DEF ConnectFails, Results, WorldOK,
     bridgeVars
<1>9. CASE Reads(c)
  <2>1. faults' \in 0 .. MaxFaults
    BY <1>5, <1>6, <1>9 DEF Reads
  <2>2. \E r \in Results : Answer(c, r)
    BY <1>9 DEF Reads, Results
  <2> QED BY <1>1, <1>9, <2>1, <2>2 DEF Reads, WorldOK, bridgeVars
<1>10. CASE Writes(c)
  <2>1. held' \in [Device -> [Source -> 0 .. MaxVersion]]
    <3> DEFINE i == Writing(c)
               p == task[c].payload
               shown == [held[link] EXCEPT ![i] = p]
    <3>1. held' = [held EXCEPT ![link] = shown]
      BY <1>10 DEF Writes
    <3>2. p \in 0 .. MaxVersion
      BY <1>1 DEF Tasks
    <3>3. \A d \in Device : held[d] \in [Source -> 0 .. MaxVersion]
      BY <1>1 DEF WorldOK
    <3>4. link \in Device => shown \in [Source -> 0 .. MaxVersion]
      <4> HIDE DEF i, p
      <4> QED BY <3>2, <3>3
    <3> HIDE DEF shown
    <3> QED BY <1>1, <3>1, <3>4 DEF WorldOK
  <2> QED BY <1>1, <1>10, <2>1 DEF Writes, Results, WorldOK, bridgeVars,
     worldVars
<1>11. CASE WriteFails(c)
  <2>1. faults' \in 0 .. MaxFaults
    BY <1>5, <1>6, <1>11 DEF WriteFails
  <2>2. /\ link' \in {link, NoDevice}
        /\ events' \in Events /\ Len(events') <= EventBuffer
    <3>1. CASE Closes(link # NoDevice)
      BY <3>1, ClosesKeeps DEF IInv
    <3>2. CASE UNCHANGED <<link, events>>
      BY <1>1, <3>2 DEF WorldOK
    <3> QED BY <1>11, <3>1, <3>2 DEF WriteFails
  <2> QED BY <1>1, <1>11, <2>1, <2>2 DEF WriteFails, Results, WorldOK,
     bridgeVars
<1> QED BY <1>7, <1>8, <1>9, <1>10, <1>11

\* The steps of the bridge and of performWatchSync.
LEMMA TaskStepKeeps ==
  ASSUME IInv, NEW c \in Caller, TaskStep(c)
  PROVE  IInv'
<1>1. AppOK /\ WorldOK /\ task[c] \in Tasks
  BY Types DEF IInv, TypeOK
<1>2. Running(c)
  BY WaitingRuns DEF TaskStep, ConnectResumes, NegotiateResumes, WriteResumes,
       DisconnectResumes, Attempt, Pause, ReadPhase, Decide, Written, Failed
<1>3. /\ task[c].at # "attempt" => task[c].attempt < Attempts
      /\ task[c].at \in {"writing", "written"} => task[c].left # {}
  BY <1>2 DEF IInv, TaskInv, Running
<1>4. ASSUME AppOK' /\ TaskInv' /\ SyncInv' /\ BindInv' /\ LinkInv', WorldOK'
      PROVE  IInv'
  BY <1>4, Types DEF IInv
<1>5. ASSUME NEW at \in Places \ {"attempt", "writing"}, Then(c, at),
             task[c].attempt < Attempts, at = "written" => task[c].left # {},
             UNCHANGED <<appVars, link>>, WorldOK'
      PROVE  IInv'
  BY <1>2, <1>4, <1>5, ThenKeeps
<1>6. ASSUME Ends(c), WorldOK',
             UNCHANGED <<bound, generation, changing, syncTask, watching, link>>
      PROVE  IInv'
  BY <1>2, <1>4, <1>6, EndsKeeps
<1>7. ASSUME NextAttempt(c), task[c].attempt < Attempts, UNCHANGED <<appVars, link>>,
             WorldOK'
      PROVE  IInv'
  BY <1>2, <1>4, <1>7, NextAttemptKeeps
<1>8. ASSUME NEW n \in SUBSET Source, n # {}, NEW p \in 0 .. MaxVersion,
             BeginWrite(c, n, p), task[c].attempt < Attempts, UNCHANGED <<appVars, link>>, WorldOK'
      PROVE  IInv'
  <2> DEFINE k == task[c].attempt
  <2>1. k \in 0 .. Attempts
    BY <1>1 DEF Tasks
  <2>2. [Going(c, "writing") EXCEPT !.left = n, !.payload = p]
          = [Going(c, "writing") EXCEPT !.left = n, !.payload = p, !.attempt = k]
    BY <1>1 DEF Going, Tasks
  <2>3. task' = [task EXCEPT ![c] = [Going(c, "writing") EXCEPT !.left = n, !.payload = p,
                                                                 !.attempt = k]]
    BY <1>8, <2>2 DEF BeginWrite
  <2>4. "writing" \in Places
    BY DEF Places, Waits
  <2> QED BY <1>2, <1>4, <1>8, <2>1, <2>3, <2>4, GoingKeeps
<1>9. ASSUME phase' \in Phases, UNCHANGED <<listening, events, held, worldVars>>,
             negotiated' \in {"v1", "v2"}
      PROVE  WorldOK'
  BY <1>1, <1>9 DEF WorldOK, worldVars
<1>10. phase \in Phases /\ negotiated \in {"v1", "v2"}
  BY <1>1 DEF WorldOK
<1>11. CASE ConnectResumes(c)
  BY <1>3, <1>5, <1>9, <1>10, <1>11 DEF ConnectResumes, Phases, Places, Waits
<1>12. CASE NegotiateResumes(c)
  BY <1>3, <1>5, <1>9, <1>12 DEF NegotiateResumes, Phases, Places
<1>13. CASE WriteResumes(c)
  BY <1>3, <1>5, <1>9, <1>10, <1>13 DEF WriteResumes, Phases, Places
<1>14. CASE DisconnectResumes(c)
  BY <1>3, <1>5, <1>9, <1>14 DEF DisconnectResumes, Phases, Places
<1>15. ASSUME BeginConnect(c), task[c].attempt < Attempts, UNCHANGED caller, TaskFrame
       PROVE  IInv'
  BY <1>5, <1>9, <1>10, <1>15
     DEF BeginConnect, TaskFrame, appVars, Phases, Places, Waits
<1>16. CASE Attempt(c)
  <2>1. task[c].attempt # Attempts => task[c].attempt < Attempts
    BY <1>1 DEF Tasks, Attempts
  <2> QED BY <1>5, <1>6, <1>9, <1>10, <1>15, <1>16, <2>1
          DEF Attempt, TaskFrame, appVars, Places, Waits
<1>17. CASE Pause(c)
  BY <1>3, <1>6, <1>9, <1>10, <1>15, <1>17 DEF Pause, TaskFrame
<1>18. CASE ReadPhase(c)
  BY <1>3, <1>5, <1>6, <1>7, <1>9, <1>10, <1>18 DEF ReadPhase, TaskFrame,
     appVars, Places
<1>19. CASE Decide(c)
  <2>1. Payloads \subseteq Source /\ version \in 0 .. MaxVersion
    <3>1. Codex \subseteq Source
      BY SyncAssumption DEF Codex, Source
    <3> QED BY <1>1, <3>1, SyncAssumption DEF Payloads, WorldOK
  <2>2. CASE Payloads = {}
    BY <1>6, <1>9, <1>10, <1>19, <2>2 DEF Decide, TaskFrame
  <2>3. CASE Payloads # {}
    <3>1. BeginWrite(c, Payloads, version) /\ UNCHANGED caller /\ TaskFrame
      BY <1>19, <2>3 DEF Decide
    <3>2. WorldOK'
      BY <1>9, <1>10, <3>1 DEF BeginWrite, TaskFrame, Phases
    <3>3. task[c].attempt < Attempts
      BY <1>3, <1>19 DEF Decide
    <3>4. UNCHANGED <<appVars, link>>
      BY <3>1 DEF TaskFrame, appVars
    <3> HIDE DEF Payloads
    <3> QED BY <1>8, <2>1, <2>3, <3>1, <3>2, <3>3, <3>4
  <2> QED BY <2>2, <2>3
<1>20. CASE Written(c)
  <2> DEFINE n == task[c].left \ {Writing(c)}
  <2>1. n \subseteq Source /\ task[c].payload \in 0 .. MaxVersion
    BY <1>1 DEF Tasks
  <2>2. CASE n = {}
    BY <1>6, <1>9, <1>10, <1>20, <2>2 DEF Written, TaskFrame
  <2>3. CASE n # {}
    <3>1. BeginWrite(c, n, task[c].payload) /\ UNCHANGED caller /\ TaskFrame
      BY <1>20, <2>3 DEF Written
    <3>2. WorldOK'
      BY <1>9, <1>10, <3>1 DEF BeginWrite, TaskFrame, Phases
    <3>3. task[c].attempt < Attempts
      BY <1>3, <1>20 DEF Written
    <3>4. UNCHANGED <<appVars, link>>
      BY <3>1 DEF TaskFrame, appVars
    <3> HIDE DEF n
    <3> QED BY <1>8, <2>1, <2>3, <3>1, <3>2, <3>3, <3>4
  <2> QED BY <2>2, <2>3
<1>21. CASE Failed(c)
  BY <1>3, <1>6, <1>7, <1>9, <1>10, <1>21 DEF Failed, TaskFrame, appVars
<1> QED BY <1>11, <1>12, <1>13, <1>14, <1>16, <1>17, <1>18, <1>19, <1>20, <1>21
        DEF TaskStep

-----------------------------------------------------------------------------
\* A caller that moves without touching the binding, the sync or the link.
LEMMA CallerKeeps ==
  ASSUME IInv, NEW c \in Caller, NEW r \in Callers,
         caller' = [caller EXCEPT ![c] = r],
         r.at \notin {"cancelling", "cancelled", "unlinking", "unlinked"},
         r.at = "observing" => r.target = NoDevice,
         r.at # "woken", r.at = "idle" => r.target = NoDevice,
         UNCHANGED <<bound, generation, syncTask, task, link>>,
         changing' \in BOOLEAN, watching' \in BOOLEAN,
         ~Binds(c) => changing' = changing
  PROVE  AppOK' /\ TaskInv' /\ SyncInv' /\ BindInv' /\ LinkInv'
<1>1. /\ caller' \in [Caller -> Callers] /\ caller'[c] = r
      /\ \A d \in Caller \ {c} : caller'[d] = caller[d]
  BY DEF IInv, TypeOK
<1>2. \A d \in Caller : Running(d)' <=> Running(d)
  BY DEF Running
<1>3. ~Binds(c)' /\ \A d \in Caller \ {c} : Binds(d)' <=> Binds(d)
  BY <1>1 DEF Binds
<1>4. AppOK'
  BY <1>1 DEF IInv, TypeOK, AppOK
<1>5. SyncInv'
  BY <1>1, <1>2 DEF IInv, SyncInv
<1>6. \A b \in Caller : Binds(b)' => changing'
  <2>1. TAKE b \in Caller
  <2>2. HAVE Binds(b)'
  <2>3. Binds(b) /\ b # c
    BY <1>3, <2>2
  <2>4. changing /\ ~Binds(c)
    BY <2>3 DEF IInv, BindInv
  <2> QED BY <2>4
<1>7. BindInv'
  BY <1>1, <1>2, <1>3, <1>6 DEF IInv, BindInv
<1>8. TaskInv' /\ LinkInv'
  BY DEF IInv, TaskInv, LinkInv
<1> QED BY <1>4, <1>5, <1>7, <1>8


\* Every step of a caller within a request keeps the invariant.
LEMMA RequestKeeps ==
  ASSUME IInv, NEW c \in Caller,
         Request(c) \/ Observed(c) \/ SyncCodex(c) \/ Woken(c)
  PROVE  IInv'
<1>1. /\ AppOK /\ WorldOK /\ caller[c] \in Callers
      /\ caller \in [Caller -> Callers]
  BY Types DEF IInv, TypeOK
<1>2. ASSUME AppOK' /\ TaskInv' /\ SyncInv' /\ BindInv' /\ LinkInv', WorldOK'
      PROVE  IInv'
  BY <1>2, Types DEF IInv
<1>3. ASSUME CallerFrame, UNCHANGED events, listening' \in {"no", "starting", "yes"}
      PROVE  WorldOK'
  BY <1>1, <1>3 DEF WorldOK, CallerFrame, worldVars
<1>4. /\ Idle \in Callers /\ [Idle EXCEPT !.at = "ready"] \in Callers
      /\ Idle.at = "idle" /\ [Idle EXCEPT !.at = "ready"].at = "ready"
      /\ Idle.target = NoDevice
  BY DEF Idle, Callers
<1>5. listening \in {"no", "starting", "yes"}
  BY <1>1 DEF WorldOK
<1>6. CASE Request(c)
  <2>1. caller[c].at = "idle" /\ caller[c].target = NoDevice /\ ~Binds(c)
    BY <1>6 DEF Request, Binds, IInv, BindInv
  <2>2. PICK at \in {"ready", "observing"} : Move(c, at)
    BY <1>6 DEF Request
  <2> DEFINE r == [caller[c] EXCEPT !.at = at]
  <2>3. r \in Callers /\ r.at = at /\ r.target = NoDevice
    BY <1>1, <2>1 DEF Callers
  <2>4. caller' = [caller EXCEPT ![c] = r]
    BY <2>2 DEF Move
  <2>5. WorldOK'
    BY <1>3, <1>5, <1>6 DEF Request, Start
  <2>6. UNCHANGED <<bound, generation, syncTask, task, link, changing, watching>>
    BY <1>6 DEF Request, CallerFrame
  <2> HIDE DEF r
  <2> QED BY <1>1, <1>2, <2>3, <2>4, <2>5, <2>6, CallerKeeps DEF AppOK
<1>7. CASE Observed(c)
  <2>1. /\ ~Binds(c) => changing' = changing
        /\ changing' \in BOOLEAN /\ watching' \in BOOLEAN
    BY <1>1, <1>7 DEF Observed, Binds, AppOK
  <2>2. WorldOK'
    BY <1>3, <1>5, <1>7 DEF Observed
  <2> DEFINE r == [Idle EXCEPT !.at = "ready"]
  <2>3. caller' = [caller EXCEPT ![c] = r]
    BY <1>7 DEF Observed
  <2>4. UNCHANGED <<bound, generation, syncTask, task, link>>
    BY <1>7 DEF Observed, CallerFrame
  <2> HIDE DEF r
  <2>5. r \in Callers /\ r.at = "ready"
    BY <1>4 DEF r
  <2> QED BY <1>2, <2>1, <2>2, <2>3, <2>4, <2>5, CallerKeeps
<1>8. CASE SyncCodex(c)
  <2>1. WorldOK'
    BY <1>3, <1>5, <1>8 DEF SyncCodex
  <2>2. /\ caller[c].at = "ready" /\ ~Binds(c)
        /\ UNCHANGED <<bound, generation, changing, watching, link>>
        /\ changing \in BOOLEAN /\ watching \in BOOLEAN
    BY <1>1, <1>8 DEF SyncCodex, Binds, CallerFrame, AppOK
  <2>3. CASE SyncJoined(c)
    <3> DEFINE r == [caller[c] EXCEPT !.at = "waiting", !.on = syncTask]
    <3>1. r \in Callers /\ r.at = "waiting"
      BY <1>1 DEF Callers, AppOK
    <3>2. caller' = [caller EXCEPT ![c] = r] /\ UNCHANGED <<syncTask, task>>
      BY <2>3 DEF SyncJoined
    <3> HIDE DEF r
    <3> QED BY <1>2, <2>1, <2>2, <3>1, <3>2, CallerKeeps
  <2>4. CASE SyncNotNeeded(c)
    <3>1. caller' = [caller EXCEPT ![c] = Idle] /\ UNCHANGED <<syncTask, task>>
      BY <2>4 DEF SyncNotNeeded
    <3> QED BY <1>2, <1>4, <2>1, <2>2, <3>1, CallerKeeps
  <2>5. CASE SyncBegun(c)
    <3> DEFINE r == [caller[c] EXCEPT !.at = "waiting", !.on = c]
               t == [NoTask EXCEPT !.at = "attempt", !.device = bound,
                                   !.generation = generation]
    <3>1. r \in Callers /\ r.at = "waiting"
      BY <1>1 DEF Callers
    <3>2. t \in Tasks /\ t.at = "attempt" /\ t.device = bound
      BY <1>1, NoTaskType DEF AppOK, Tasks
    <3>3. /\ ~changing /\ syncTask = Nobody /\ bound # NoDevice /\ syncTask' = c
          /\ caller' = [caller EXCEPT ![c] = r]
          /\ task' = [task EXCEPT ![c] = t]
      BY <2>5 DEF SyncBegun
    <3> HIDE DEF r, t
    <3>4. /\ caller' \in [Caller -> Callers] /\ caller'[c] = r
          /\ \A d \in Caller \ {c} : caller'[d] = caller[d]
      BY <1>1, <3>1, <3>3
    <3>5. /\ task' \in [Caller -> Tasks] /\ task'[c] = t
          /\ \A d \in Caller \ {c} : task'[d] = task[d]
      BY <1>1, <3>2, <3>3 DEF AppOK
    <3>6. \A d \in Caller \ {c} : ~Running(d)'
      BY <3>3, <3>5, SyncAssumption DEF IInv, SyncInv, Running
    <3>7. \A b \in Caller : ~Binds(b)'
      BY <2>2, <3>1, <3>3, <3>4 DEF IInv, BindInv, Binds
    <3>8. AppOK'
      BY <1>1, <2>2, <3>3, <3>4, <3>5 DEF AppOK
    <3>9. TaskInv'
      BY <3>2, <3>5 DEF IInv, TaskInv
    <3>10. SyncInv'
      BY <2>2, <3>1, <3>2, <3>3, <3>4, <3>5, <3>6 DEF SyncInv
    <3>11. BindInv'
      BY <2>2, <3>1, <3>4, <3>7 DEF IInv, BindInv
    <3>12. LinkInv'
      BY <2>2 DEF IInv, LinkInv
    <3> QED BY <1>2, <2>1, <3>8, <3>9, <3>10, <3>11, <3>12
  <2> QED BY <1>8, <2>3, <2>4, <2>5 DEF SyncCodex
<1>9. CASE Woken(c)
  <2>1. WorldOK'
    BY <1>3, <1>5, <1>9 DEF Woken
  <2>2. /\ caller[c].at = "woken" /\ ~Binds(c)
        /\ caller' = [caller EXCEPT ![c] = Idle]
        /\ UNCHANGED <<bound, generation, changing, watching, task, link>>
    BY <1>9 DEF Woken, Binds, CallerFrame
  <2>3. /\ caller' \in [Caller -> Callers] /\ caller'[c] = Idle
        /\ \A d \in Caller \ {c} : caller'[d] = caller[d]
    BY <1>1, <1>4, <2>2
  <2>4. \A d \in Caller : Running(d)' <=> Running(d)
    BY <2>2 DEF Running
  <2>5. \A d \in Caller : Running(d) => syncTask' = d
    BY <1>9 DEF Woken, IInv, SyncInv
  <2>6. syncTask' \in Caller \cup {Nobody}
    BY <1>1, <1>9 DEF Woken, AppOK
  <2>7. AppOK'
    BY <1>1, <2>2, <2>3, <2>6 DEF AppOK
  <2>8. SyncInv'
    BY <1>4, <2>2, <2>3, <2>4, <2>5 DEF IInv, SyncInv
  <2>9. ~Binds(c)' /\ \A d \in Caller \ {c} : Binds(d)' <=> Binds(d)
    BY <1>4, <2>3 DEF Binds
  <2>10. BindInv'
    BY <1>4, <2>2, <2>3, <2>4, <2>9 DEF IInv, BindInv
  <2>11. TaskInv' /\ LinkInv'
    BY <2>2 DEF IInv, TaskInv, LinkInv
  <2> QED BY <1>2, <2>1, <2>7, <2>8, <2>10, <2>11
<1> QED BY <1>6, <1>7, <1>8, <1>9

\* Who changes the binding, while nothing runs any more, moves on with the link
\* closed.
LEMMA BinderKeeps ==
  ASSUME IInv, NEW c \in Caller, Binds(c), caller[c].at # "cancelling",
         NEW at \in {"unlinking", "unlinked"},
         caller' = [caller EXCEPT ![c].at = at],
         at = "unlinked" => link' = NoDevice, link' \in {link, NoDevice},
         syncTask' \in {syncTask, Nobody}, watching' \in BOOLEAN,
         UNCHANGED <<bound, generation, changing, task>>
  PROVE  AppOK' /\ TaskInv' /\ SyncInv' /\ BindInv' /\ LinkInv'
<1> DEFINE r == [caller[c] EXCEPT !.at = at]
<1>1. caller[c] \in Callers /\ AppOK
  BY Types DEF IInv, TypeOK
<1>2. r \in Callers /\ r.at = at
  BY <1>1 DEF Callers
<1>3. caller' = [caller EXCEPT ![c] = r]
  OBVIOUS
<1> HIDE DEF r
<1>4. /\ caller' \in [Caller -> Callers] /\ caller'[c] = r
      /\ \A d \in Caller \ {c} : caller'[d] = caller[d]
  BY <1>1, <1>2, <1>3 DEF AppOK
<1>5. \A d \in Caller : ~Running(d) /\ ~Running(d)'
  BY DEF IInv, BindInv, Running
<1>6. /\ changing /\ \A d \in Caller \ {c} : ~Binds(d) /\ ~Binds(d)'
  BY <1>4 DEF IInv, BindInv, Binds
<1>7. AppOK'
  BY <1>1, <1>4 DEF AppOK
<1>8. SyncInv'
  BY <1>5 DEF SyncInv
<1>9. BindInv'
  BY <1>2, <1>4, <1>5, <1>6 DEF IInv, BindInv, Binds
<1>10. TaskInv' /\ LinkInv'
  BY DEF IInv, TaskInv, LinkInv
<1> QED BY <1>7, <1>8, <1>9, <1>10

\* The binding changes: its sync is cancelled and awaited, its bridge observed no
\* more, its link closed, and only then is it another.
LEMMA BindingKeeps ==
  ASSUME IInv, NEW c \in Caller,
         \/ StopObserving(c) \/ BinderCloses(c) \/ Switch(c)
         \/ \E d \in Device \cup {NoDevice} : Bind(c, d)
  PROVE  IInv'
<1>1. /\ AppOK /\ WorldOK /\ caller[c] \in Callers
      /\ caller \in [Caller -> Callers]
  BY Types DEF IInv, TypeOK
<1>2. ASSUME AppOK' /\ TaskInv' /\ SyncInv' /\ BindInv' /\ LinkInv', WorldOK'
      PROVE  IInv'
  BY <1>2, Types DEF IInv
<1>3. <<>> \in Events /\ Len(<<>>) = 0 /\ 0 <= EventBuffer
  BY SyncAssumption DEF Events
<1>4. CASE StopObserving(c)
  <2>1. /\ Binds(c) /\ caller[c].at = "cancelled"
        /\ UNCHANGED <<bound, generation, changing, task, link>>
        /\ syncTask' \in {syncTask, Nobody} /\ watching' \in BOOLEAN
    BY <1>4 DEF StopObserving, Binds, CallerFrame
  <2>2. PICK at \in {"unlinking", "unlinked"} :
          caller' = [caller EXCEPT ![c].at = at] /\ (at = "unlinked" => bound = NoDevice)
    BY <1>4 DEF StopObserving, Move
  <2>3. at = "unlinked" => link' = NoDevice
    BY <2>1, <2>2 DEF IInv, LinkInv
  <2>4. WorldOK'
    BY <1>1, <1>3, <1>4 DEF StopObserving, CallerFrame, worldVars, WorldOK
  <2> QED BY <1>2, <2>1, <2>2, <2>3, <2>4, BinderKeeps
<1>5. CASE BinderCloses(c)
  <2>1. PICK told \in BOOLEAN : Closes(told)
    BY <1>5 DEF BinderCloses
  <2>2. link' = NoDevice /\ events' \in Events /\ Len(events') <= EventBuffer
    BY <2>1, ClosesKeeps DEF IInv
  <2>3. /\ Binds(c) /\ caller[c].at = "unlinking"
        /\ caller' = [caller EXCEPT ![c].at = "unlinked"]
        /\ UNCHANGED <<bound, generation, changing, task, syncTask, watching>>
    BY <1>5 DEF BinderCloses, Binds, Move
  <2>4. WorldOK'
    BY <1>1, <1>5, <2>2 DEF BinderCloses, bridgeVars, worldVars, WorldOK
  <2> QED BY <1>1, <1>2, <2>2, <2>3, <2>4, BinderKeeps DEF AppOK
<1>6. CASE Switch(c)
  <2>1. /\ Binds(c) /\ caller[c].at = "unlinked" /\ link = NoDevice
        /\ bound' = caller[c].target
        /\ UNCHANGED <<generation, syncTask, watching, task, link>>
    BY <1>6 DEF Switch, Binds, IInv, BindInv
  <2>2. \A d \in Caller : ~Running(d) /\ ~Running(d)'
    BY <2>1 DEF IInv, BindInv, Running
  <2>3. \A d \in Caller \ {c} : ~Binds(d)
    BY <2>1 DEF IInv, BindInv
  <2>4. PICK r \in Callers :
          /\ caller' = [caller EXCEPT ![c] = r]
          /\ \/ r.at = "observing" /\ r.target # NoDevice /\ changing' = changing
             \/ r.at \in {"idle", "ready"} /\ r.target = NoDevice /\ changing' = FALSE
    <3>1. CASE /\ caller[c].target # NoDevice
               /\ Move(c, "observing") /\ UNCHANGED changing
      <4> DEFINE r == [caller[c] EXCEPT !.at = "observing"]
      <4>1. r \in Callers /\ r.at = "observing" /\ r.target = caller[c].target
        BY <1>1 DEF Callers
      <4>2. caller' = [caller EXCEPT ![c] = r]
        BY <3>1 DEF Move
      <4> HIDE DEF r
      <4> QED BY <3>1, <4>1, <4>2
    <3>2. CASE /\ caller' = [caller EXCEPT ![c] = [Idle EXCEPT !.at = "ready"]]
               /\ changing' = FALSE
      <4> DEFINE r == [Idle EXCEPT !.at = "ready"]
      <4>1. r \in Callers /\ r.at = "ready" /\ r.target = NoDevice
        BY DEF Callers, Idle
      <4> HIDE DEF r
      <4> QED BY <3>2, <4>1 DEF r
    <3>3. CASE caller' = [caller EXCEPT ![c] = Idle] /\ changing' = FALSE
      <4>1. Idle \in Callers /\ Idle.at = "idle" /\ Idle.target = NoDevice
        BY DEF Callers, Idle
      <4> QED BY <3>3, <4>1
    <3> QED BY <1>6, <3>1, <3>2, <3>3 DEF Switch
  <2>5. /\ caller' \in [Caller -> Callers] /\ caller'[c] = r
        /\ \A d \in Caller \ {c} : caller'[d] = caller[d]
    BY <1>1, <2>4
  <2>6. \A d \in Caller \ {c} : ~Binds(d)'
    BY <2>3, <2>5 DEF Binds
  <2>7. Binds(c)' => changing'
    BY <2>1, <2>4, <2>5 DEF Binds, IInv, BindInv
  <2>8. changing' \in BOOLEAN /\ bound' \in Device \cup {NoDevice}
    BY <1>1, <2>1, <2>4 DEF AppOK, Callers
  <2>9. AppOK'
    BY <1>1, <2>1, <2>5, <2>8 DEF AppOK
  <2>10. SyncInv'
    BY <2>2 DEF SyncInv
  <2>11. BindInv'
    BY <2>1, <2>2, <2>4, <2>5, <2>6, <2>7 DEF IInv, BindInv
  <2>12. TaskInv' /\ LinkInv'
    BY <2>1 DEF IInv, TaskInv, LinkInv
  <2>13. faults' \in 0 .. MaxFaults
    BY <1>1, <1>6, FaultKeeps DEF Switch
  <2>14. listening' \in {"no", "starting", "yes"}
    BY <1>6 DEF Switch
  <2>15. WorldOK'
    BY <1>1, <1>3, <1>6, <2>13, <2>14 DEF Switch, WorldOK, Phases
  <2> QED BY <1>2, <2>9, <2>10, <2>11, <2>12, <2>15
<1>7. ASSUME NEW d \in Device \cup {NoDevice}, Bind(c, d)
      PROVE  IInv'
  <2> DEFINE r == [at |-> IF Running(syncTask) THEN "cancelling" ELSE "cancelled",
                   on |-> syncTask, target |-> d]
  <2>1. r \in Callers /\ r.at \in {"cancelling", "cancelled"} /\ r.on = syncTask
        /\ (Running(syncTask) => r.at = "cancelling")
    BY <1>1 DEF Callers, AppOK
  <2>2. /\ caller[c].at = "idle" /\ ~changing /\ generation < MaxBindings
        /\ changing' = TRUE /\ generation' = generation + 1
        /\ caller' = [caller EXCEPT ![c] = r]
        /\ UNCHANGED <<bound, syncTask, watching, link>>
    BY <1>7 DEF Bind, CallerFrame
  <2> HIDE DEF r
  <2>3. /\ caller' \in [Caller -> Callers] /\ caller'[c] = r
        /\ \A b \in Caller \ {c} : caller'[b] = caller[b]
    BY <1>1, <2>1, <2>2
  <2>4. /\ task' \in [Caller -> Tasks]
        /\ \A b \in Caller : /\ task'[b].at = task[b].at
                             /\ task'[b].device = task[b].device
                             /\ task'[b].attempt = task[b].attempt
                             /\ task'[b].left = task[b].left
    <3>1. CASE Running(syncTask)
      <4> DEFINE t == Cancelled(task[syncTask])
      <4>1. syncTask \in Caller /\ task' = [task EXCEPT ![syncTask] = t]
        BY <1>1, <1>7, <3>1 DEF Bind, Running, AppOK
      <4>2. task[syncTask] \in Tasks
        BY <1>1, <4>1 DEF AppOK
      <4>3. t \in Tasks /\ t.at = task[syncTask].at
            /\ t.device = task[syncTask].device
            /\ t.attempt = task[syncTask].attempt /\ t.left = task[syncTask].left
        BY <4>2 DEF Cancelled, Tasks
      <4> HIDE DEF t
      <4> QED BY <1>1, <4>1, <4>3 DEF AppOK
    <3>2. CASE ~Running(syncTask)
      BY <1>1, <1>7, <3>2 DEF Bind, AppOK
    <3> QED BY <3>1, <3>2
  <2>5. \A b \in Caller : Running(b)' <=> Running(b)
    BY <2>4 DEF Running
  <2>6. \A b \in Caller : ~Binds(b)
    BY <2>2 DEF IInv, BindInv
  <2>7. \A b \in Caller \ {c} : ~Binds(b)'
    BY <2>3, <2>6 DEF Binds
  <2>8. \A b \in Caller : Running(b) => syncTask = b
    BY DEF IInv, SyncInv
  <2>9. generation' \in 0 .. MaxBindings
    BY <1>1, <2>2, SyncAssumption DEF AppOK
  <2>10. AppOK'
    BY <1>1, <2>2, <2>3, <2>4, <2>9 DEF AppOK
  <2>11. TaskInv'
    BY <2>4 DEF IInv, TaskInv
  <2>12. SyncInv'
    BY <2>1, <2>2, <2>3, <2>4, <2>5 DEF IInv, SyncInv
  <2>13. BindInv'
    BY <2>1, <2>2, <2>3, <2>5, <2>7, <2>8 DEF IInv, BindInv
  <2>14. LinkInv'
    BY <2>2 DEF IInv, LinkInv
  <2>15. WorldOK'
    BY <1>1, <1>7 DEF Bind, CallerFrame, worldVars, WorldOK
  <2> QED BY <1>2, <2>10, <2>11, <2>12, <2>13, <2>14, <2>15
<1> QED BY <1>4, <1>5, <1>6, <1>7

-----------------------------------------------------------------------------
\* Nothing runs at launch.
LEMMA InitInv ==
  ASSUME Init
  PROVE  IInv
<1>1. Idle \in Callers /\ Idle.at = "idle" /\ Idle.target = NoDevice
  BY DEF Idle, Callers
<1>2. NoTask \in Tasks /\ NoTask.at = "none"
  BY NoTaskType DEF NoTask
<1>3. AppOK
  <2>1. caller \in [Caller -> Callers]
    BY <1>1 DEF Init
  <2>2. task \in [Caller -> Tasks]
    BY <1>2 DEF Init
  <2>3. generation \in 0 .. MaxBindings
    BY SyncAssumption DEF Init
  <2> QED BY <2>1, <2>2, <2>3 DEF Init, AppOK
<1>4. <<>> \in Events /\ Len(<<>>) = 0 /\ 0 <= EventBuffer
  BY SyncAssumption DEF Events
<1>5. WorldOK
  BY <1>4, SyncAssumption DEF Init, WorldOK, Phases
<1>6. TaskInv /\ SyncInv
  <2>1. \A c \in Caller : task[c] = NoTask /\ caller[c] = Idle
    BY DEF Init
  <2>2. \A c \in Caller : task[c].at = "none" /\ caller[c].at = "idle"
    BY <1>1, <1>2, <2>1
  <2> QED BY <2>2 DEF TaskInv, SyncInv, Running
<1>7. BindInv /\ LinkInv
  BY <1>1 DEF Init, BindInv, Binds, LinkInv
<1> QED BY <1>3, <1>5, <1>6, <1>7, Types DEF IInv

\* What fails with its link stays where it is.
LEMMA LinkLostKeeps ==
  ASSUME IInv, LinkLost
  PROVE  IInv'
<1>1. AppOK /\ WorldOK
  BY Types DEF IInv
<1>2. \A c \in Caller : LET t == LosesLink(task[c])
        IN  /\ t \in Tasks /\ t.at = task[c].at /\ t.device = task[c].device
            /\ t.attempt = task[c].attempt /\ t.left = task[c].left
  <2>1. TAKE c \in Caller
  <2>2. task[c] \in Tasks
    BY <1>1 DEF AppOK
  <2> QED BY <2>2 DEF LosesLink, Tasks
<1>3. /\ task' \in [Caller -> Tasks]
      /\ \A c \in Caller : /\ task'[c].at = task[c].at
                           /\ task'[c].device = task[c].device
                           /\ task'[c].attempt = task[c].attempt
                           /\ task'[c].left = task[c].left
  BY <1>2 DEF LinkLost
<1>4. \A c \in Caller : Running(c)' <=> Running(c)
  BY <1>3 DEF Running
<1>5. UNCHANGED appVars /\ link' = NoDevice
  BY DEF LinkLost
<1>6. AppOK'
  BY <1>1, <1>3, <1>5 DEF AppOK, appVars
<1>7. TaskInv'
  BY <1>3 DEF IInv, TaskInv
<1>8. SyncInv'
  BY <1>3, <1>4, <1>5 DEF IInv, SyncInv, appVars
<1>9. BindInv'
  BY <1>4, <1>5 DEF IInv, BindInv, Binds, appVars
<1>10. LinkInv'
  BY <1>5 DEF LinkInv
<1>11. WorldOK'
  <2>1. bound \in Device /\ Yield(FALSE, bound) /\ Fault
    BY <1>1 DEF LinkLost, AppOK
  <2>2. events' \in Events /\ Len(events') <= EventBuffer
    BY <1>1, <2>1, YieldKeeps
  <2>3. faults' \in 0 .. MaxFaults
    BY <1>1, <2>1, FaultKeeps
  <2> QED BY <1>1, <2>2, <2>3 DEF LinkLost, bridgeVars, WorldOK
<1> QED BY <1>6, <1>7, <1>8, <1>9, <1>10, <1>11, Types DEF IInv

\* disconnect() of a second attempt is over.
LEMMA TaskClosesKeeps ==
  ASSUME IInv, NEW c \in Caller, TaskCloses(c)
  PROVE  IInv'
<1>1. AppOK /\ WorldOK /\ task[c] \in Tasks
  BY Types DEF IInv, TypeOK
<1>2. Running(c) /\ task[c].at = "closing"
  BY WaitingRuns DEF TaskCloses
<1>3. PICK told \in BOOLEAN : Closes(told)
  BY DEF TaskCloses
<1>4. link' = NoDevice /\ events' \in Events /\ Len(events') <= EventBuffer
  BY <1>3, ClosesKeeps DEF IInv
<1> DEFINE t == [task[c] EXCEPT !.at = "closed"]
<1>5. /\ t \in Tasks /\ t.at = "closed" /\ t.device = task[c].device
      /\ t.attempt = task[c].attempt
  BY <1>1 DEF Tasks
<1>6. task' = [task EXCEPT ![c] = t] /\ UNCHANGED appVars
  BY DEF TaskCloses
<1>7. t.attempt < Attempts
  BY <1>2, <1>5 DEF IInv, TaskInv
<1> HIDE DEF t
<1>8. AppOK' /\ TaskInv' /\ SyncInv' /\ BindInv' /\ LinkInv'
  BY <1>2, <1>4, <1>5, <1>6, <1>7, TaskKeeps
<1>9. WorldOK'
  BY <1>1, <1>4 DEF TaskCloses, bridgeVars, worldVars, WorldOK
<1> QED BY <1>8, <1>9, Types DEF IInv

\* The bridge gives a call up, and still waits for it.
LEMMA GivesUpKeeps ==
  ASSUME IInv, NEW c \in Caller, GivesUp(c)
  PROVE  IInv'
<1>1. AppOK /\ WorldOK /\ task[c] \in Tasks
  BY Types DEF IInv, TypeOK
<1>2. Running(c) /\ task[c].at \notin {"none", "attempt"}
  BY WaitingRuns DEF GivesUp, Waits
<1> DEFINE t == [task[c] EXCEPT !.gaveUp = TRUE]
<1>3. /\ t \in Tasks /\ t.at = task[c].at /\ t.device = task[c].device
      /\ t.attempt = task[c].attempt /\ t.left = task[c].left
  BY <1>1 DEF Tasks
<1>4. task' = [task EXCEPT ![c] = t] /\ UNCHANGED <<appVars, link>>
  BY DEF GivesUp
<1>5. /\ t.attempt < Attempts
      /\ t.at \in {"writing", "written"} => t.left # {}
  BY <1>2, <1>3 DEF IInv, TaskInv
<1> HIDE DEF t
<1>6. AppOK' /\ TaskInv' /\ SyncInv' /\ BindInv' /\ LinkInv'
  BY <1>2, <1>3, <1>4, <1>5, TaskKeeps
<1>7. faults' \in 0 .. MaxFaults
  BY <1>1, FaultKeeps DEF GivesUp
<1>8. WorldOK'
  BY <1>1, <1>7 DEF GivesUp, bridgeVars, WorldOK
<1> QED BY <1>6, <1>8, Types DEF IInv

\* Steps that leave the application, its syncs and the link alone.
LEMMA WorldKeeps ==
  ASSUME IInv, WorldOK', UNCHANGED <<appVars, task, link>>
  PROVE  IInv'
<1>1. AppOK'
  BY Types DEF IInv, AppOK, appVars
<1>2. TaskInv' /\ SyncInv' /\ LinkInv'
  BY DEF IInv, TaskInv, SyncInv, Running, LinkInv, appVars
<1>3. BindInv'
  BY DEF IInv, BindInv, Binds, Running, appVars
<1> QED BY <1>1, <1>2, <1>3, Types DEF IInv

\* What the observer hears changes the phase only; data change by themselves.
LEMMA BridgeKeeps ==
  ASSUME IInv, Subscribes \/ Handle \/ Changes \/ UNCHANGED vars
  PROVE  IInv'
<1>1. WorldOK
  BY Types DEF IInv
<1>2. SUFFICES WorldOK' /\ UNCHANGED <<appVars, task, link>>
  BY WorldKeeps
<1>3. CASE Subscribes
  BY <1>1, <1>3 DEF Subscribes, WorldOK, worldVars
<1>4. CASE Handle
  <2>1. events # <<>> /\ events' = Tail(events) /\ events \in Events
    BY <1>1, <1>4 DEF Handle, WorldOK
  <2>2. events' \in Events /\ Len(events') <= EventBuffer
    BY <1>1, <2>1, SyncAssumption DEF Events, WorldOK
  <2>3. phase' \in Phases /\ negotiated' \in {"v1", "v2"}
    BY <1>1, <1>4 DEF Handle, HandleConnected, HandleDisconnected, WorldOK,
       Phases
  <2> QED BY <1>1, <1>4, <2>2, <2>3 DEF Handle, WorldOK, worldVars
<1>5. CASE Changes
  BY <1>1, <1>5, SyncAssumption DEF Changes, WorldOK, bridgeVars
<1>6. CASE UNCHANGED vars
  BY <1>1, <1>6 DEF vars, WorldOK, bridgeVars, worldVars
<1> QED BY <1>3, <1>4, <1>5, <1>6

\* Every step keeps the invariant.
LEMMA NextInv ==
  ASSUME IInv, [Next]_vars
  PROVE  IInv'
<1>1. CASE Transport
  <2>1. CASE LinkLost
    BY <2>1, LinkLostKeeps
  <2>2. ASSUME NEW c \in Caller, TaskCloses(c)  PROVE IInv'
    BY <2>2, TaskClosesKeeps
  <2>3. ASSUME NEW c \in Caller, BinderCloses(c)  PROVE IInv'
    BY <2>3, BindingKeeps
  <2>4. ASSUME NEW c \in Caller,
               \/ Connects(c) \/ ConnectFails(c) \/ Reads(c) \/ Writes(c)
               \/ WriteFails(c)
        PROVE  IInv'
    BY <2>4, ReturnsKeep
  <2> QED BY <1>1, <2>1, <2>2, <2>3, <2>4 DEF Transport
<1>2. CASE Subscribes \/ Handle \/ Changes \/ UNCHANGED vars
  BY <1>2, BridgeKeeps
<1>3. ASSUME NEW c \in Caller, GivesUp(c)  PROVE IInv'
  BY <1>3, GivesUpKeeps
<1>4. ASSUME NEW c \in Caller, TaskStep(c)  PROVE IInv'
  BY <1>4, TaskStepKeeps
<1>5. ASSUME NEW c \in Caller, CallerStep(c)  PROVE IInv'
  <2>1. CASE StopObserving(c) \/ Switch(c)
    BY <2>1, BindingKeeps
  <2>2. CASE Observed(c) \/ SyncCodex(c) \/ Woken(c)
    BY <2>2, RequestKeeps
  <2> QED BY <1>5, <2>1, <2>2 DEF CallerStep
<1>6. ASSUME NEW c \in Caller, Request(c)  PROVE IInv'
  BY <1>6, RequestKeeps
<1>7. ASSUME NEW c \in Caller, NEW d \in Device \cup {NoDevice}, Bind(c, d)  PROVE IInv'
  BY <1>7, BindingKeeps
<1> QED BY <1>1, <1>2, <1>3, <1>4, <1>5, <1>6, <1>7 DEF Next

\* However requests, bindings, lost links, failures and timers interleave, and for
\* any watches, callers and bounds: every variable keeps its type.
THEOREM TypeCorrect == Spec => []TypeOK
<1>1. Init => IInv
  BY InitInv
<1>2. IInv /\ [Next]_vars => IInv'
  BY NextInv
<1>3. IInv => TypeOK
  BY DEF IInv
<1> QED BY <1>1, <1>2, <1>3, PTL DEF Spec

\* A sync that was cancelled with its binding is over before the transport is asked
\* to let its watch go: it never has two calls of a kind, however many tasks ask.
LEMMA OneCall ==
  ASSUME IInv
  PROVE  OneCallAtATime
<1> DEFINE S == {c \in Caller : task[c].at \in Waits}
           B == {c \in Caller : caller[c].at = "unlinking"}
<1>1. \A c \in S : Running(c) /\ c = syncTask
  BY WaitingRuns DEF Waits, IInv, SyncInv
<1>2. S = {} \/ S = {syncTask}
  BY <1>1
<1>3. \A b \in B : Binds(b) /\ S = {}
  BY <1>1 DEF Binds, IInv, BindInv
<1>4. \A b, c \in B : b = c
  BY DEF Binds, IInv, BindInv
<1>5. B = {} \/ \E b \in B : B = {b}
  BY <1>4
<1>6. Cardinality({}) = 0 /\ \A x : Cardinality({x}) = 1
  BY FS_EmptySet, FS_Singleton
<1> HIDE DEF S, B
<1>7. Cardinality(S) \in {0, 1}
  <2>1. CASE S = {}
    BY <1>6, <2>1
  <2>2. CASE S = {syncTask}
    BY <1>6, <2>2
  <2> QED BY <1>2, <2>1, <2>2
<1>8. /\ B = {} => Cardinality(B) = 0
      /\ B # {} => Cardinality(B) = 1 /\ Cardinality(S) = 0
  <2>1. CASE B = {}
    BY <1>6, <2>1
  <2>2. CASE B # {}
    <3>1. PICK b \in B : B = {b}
      BY <1>5, <2>2
    <3>2. Cardinality({b}) = 1 /\ S = {}
      BY <1>3, <1>6
    <3> QED BY <1>6, <2>2, <3>1, <3>2
  <2> QED BY <2>1, <2>2
<1>9. Cardinality(S) + Cardinality(B) <= 1
  <2>1. CASE B = {}
    BY <1>7, <1>8, <2>1
  <2>2. CASE B # {}
    BY <1>8, <2>2
  <2> QED BY <2>1, <2>2
<1> QED BY <1>9 DEF OneCallAtATime, S, B

\* However many tasks ask, the transport has one call under way, and none is begun
\* for a new binding while the sync of the old one is.
THEOREM OneCallAlways == Spec => []OneCallAtATime
<1>1. Init => IInv
  BY InitInv
<1>2. IInv /\ [Next]_vars => IInv'
  BY NextInv
<1>3. IInv => OneCallAtATime
  BY OneCall
<1> QED BY <1>1, <1>2, <1>3, PTL DEF Spec

\* The transport holds no link but the bound watch's, and whatever sync runs was
\* begun for it: what a caller changes of the binding waits for both.
THEOREM LinkFollowsBinding == Spec => []LinkOfBinding
<1>1. Init => IInv
  BY InitInv
<1>2. IInv /\ [Next]_vars => IInv'
  BY NextInv
<1>3. IInv => LinkOfBinding
  BY DEF IInv, LinkInv, SyncInv, LinkOfBinding
<1> QED BY <1>1, <1>2, <1>3, PTL DEF Spec
=============================================================================
