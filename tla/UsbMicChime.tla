---------------------------- MODULE UsbMicChime -----------------------------
(***************************************************************************)
(* The completion chime of the StopWatch (UsbMic.cpp).  Microphone and     *)
(* speaker share one codec, so the chime pauses the capture, plays, and    *)
(* gives the codec back; a host that wants the microphone ("alt1", the     *)
(* streaming alternate setting) always goes first.                         *)
(*                                                                         *)
(* Three tasks meet over atomics.  The loop asks for a chime               *)
(* (requestCompletionChime), the capture task guards, switches and plays   *)
(* (captureAudio, performCompletionChime), and the USB event task tells    *)
(* that the host opened or closed the microphone (audioEventCallback).     *)
(* A step is one access to an atomic, or one critical section; the atomics *)
(* are taken to be sequentially consistent.                                *)
(***************************************************************************)
EXTENDS Naturals

CONSTANTS
  MaxRequests,  \* bound on the chimes asked for
  MaxEnables    \* bound on the times the host opens the microphone

ASSUME BoundAssumption == MaxRequests \in Nat /\ MaxEnables \in Nat

VARIABLES
  \* the shared atomics
  phase,      \* chimePhase
  enabled,    \* micInterfaceEnabled
  enables,    \* micInterfaceEnableGeneration
  baseline,   \* chimeAlt1Baseline
  started,    \* pipelineStarted
  ready,      \* captureHardwareReady
  due,        \* the deadline that counts is over: chimeGuardUntilMs, then the
              \* limit of the playback, then that of the drain
  \* under statsMux
  sequence, result,
  \* the tasks: where each one is, and what it holds
  rpc, requestBaseline,   \* the loop
  cpc, half, few, outcome, \* the capture task: half way through a look at the
                          \* host's wishes, fewer than two recordings seen
  epc,                    \* the event task
  \* the hardware, touched by the capture task
  mic, recordings, power, amp, speaker,
  \* history: the host wanted the microphone since this request began, and
  \* since the accepted one began until the capture was restored; the chimes
  \* that ended
  wanted, disturbed, finishes

atomics == <<phase, enabled, enables, baseline, started, ready, due>>
status == <<sequence, result, finishes>>
requester == <<rpc, requestBaseline, wanted>>
capturer == <<cpc, half, few, outcome>>
hardware == <<mic, recordings, power, amp, speaker>>
vars == <<atomics, status, requester, capturer, epc, hardware, disturbed>>

Phases == {"idle", "arming", "guarding", "switching", "playing", "finishing"}
Failures == {"startFailed", "playbackFailed", "restoreFailed"}
Terminal == {"played", "skipped", "aborted", "unavailable"} \cup Failures
Results == {"never", "pending"} \cup Terminal

\* The places where the capture task looks at the host's wishes, and where it
\* goes when the host wants the microphone and when it does not.
WhenWanted ==
  [guard |-> "giveUp", waiting |-> "recheck", again |-> "loop", paused |-> "requeue",
   ended |-> "restart", tuned |-> "silent", amped |-> "silent", queueing |-> "silent",
   silent |-> "stop", play |-> "over", over |-> "stop", drain |-> "stop",
   restored |-> "finish"]
WhenQuiet ==
  [guard |-> "deadline", waiting |-> "waitDue", again |-> "againDue",
   paused |-> "endMic", ended |-> "power", tuned |-> "amp", amped |-> "begin",
   queueing |-> "playRaw", silent |-> "stop", play |-> "playing", over |-> "verdict",
   drain |-> "draining", restored |-> "finish"]
Looks == DOMAIN WhenWanted

\* The looks and steps between the restored capture and the end of the chime.
Restored == {"restored", "finish"}

CaptureSteps ==
  {"start", "loop", "guard", "giveUp", "deadline", "claim", "wait", "waiting", "waitDue",
   "recheck", "again", "againDue", "take", "drainMic", "paused", "requeue", "endMic",
   "ended", "power", "tuned", "amp", "amped", "begin", "queueing", "playRaw", "silent",
   "playing", "play", "over", "verdict", "draining", "drain", "stop", "restart",
   "restored", "lost", "finish", "fail", "await", "abandon", "dead"}
RequestSteps ==
  {"setup", "idle", "claim", "base", "started", "ready", "level", "pulse", "arm",
   "guard", "recheck", "lateLevel", "latePulse", "unavailable", "skipped",
   "lateUnavailable", "lateSkipped"}

TypeOK ==
  /\ phase \in Phases
  /\ enabled \in BOOLEAN /\ started \in BOOLEAN /\ ready \in BOOLEAN /\ due \in BOOLEAN
  /\ enables \in Nat /\ baseline \in Nat /\ requestBaseline \in Nat
  /\ sequence \in Nat /\ finishes \in Nat
  /\ result \in Results
  /\ rpc \in RequestSteps
  /\ cpc \in CaptureSteps
  /\ half \in BOOLEAN /\ few \in BOOLEAN
  /\ outcome \in Terminal
  /\ epc \in {"idle", "bump"}
  /\ mic \in BOOLEAN /\ power \in BOOLEAN /\ amp \in BOOLEAN
  /\ recordings \in 0 .. 2
  /\ speaker \in {"off", "on", "playing"}
  /\ wanted \in BOOLEAN /\ disturbed \in BOOLEAN

Init ==
  /\ phase = "idle" /\ enabled = FALSE /\ enables = 0 /\ baseline = 0
  /\ started = TRUE /\ ready = TRUE /\ due = FALSE
  /\ sequence = 0 /\ result = "never" /\ finishes = 0
  /\ rpc = "setup" /\ requestBaseline = 0 /\ wanted = FALSE
  /\ cpc = "start" /\ half = FALSE /\ few = FALSE /\ outcome = "startFailed"
  /\ epc = "idle"
  /\ mic = TRUE /\ recordings = 0 /\ power = FALSE /\ amp = FALSE /\ speaker = "off"
  /\ disturbed = FALSE

-----------------------------------------------------------------------------
(* The end of a chime *)

\* finishChime: the result and the phase change under one lock.
FinishChime(r) ==
  /\ phase' = "idle"
  /\ result' = r
  /\ finishes' = finishes + 1

\* Mutated: the phase is stored without comparing it.
FinishGuardingAlways(r) == FinishChime(r)

\* finishGuardingChime: whoever takes the phase from Guarding ends the chime.
\* The phase Finishing is left again by the same call, which nobody can tell
\* from its end.
FinishGuarding(r) ==
  IF phase = "guarding" THEN FinishChime(r) ELSE UNCHANGED <<phase, result, finishes>>

-----------------------------------------------------------------------------
(* The loop: begin() and requestCompletionChime() *)

\* begin() gives up: stopPipeline deletes the tasks and puts the codec to rest.
SetupFails ==
  /\ rpc = "setup" /\ rpc' = "idle"
  /\ cpc' = "dead" /\ half' = FALSE
  /\ started' = FALSE /\ ready' = FALSE /\ phase' = "idle"
  /\ mic' = FALSE /\ recordings' = 0 /\ power' = FALSE /\ amp' = FALSE /\ speaker' = "off"
  /\ UNCHANGED <<enabled, enables, baseline, due, status, requestBaseline, wanted,
                 few, outcome, epc, disturbed>>

\* A step of the loop that only moves on.
Goes(from, to) ==
  /\ rpc = from /\ rpc' = to
  /\ UNCHANGED <<atomics, status, requestBaseline, wanted, capturer, epc, hardware,
                 disturbed>>

SetupDone == Goes("setup", "idle")

\* The generation is read before anything else.
Request ==
  /\ rpc = "idle" /\ sequence < MaxRequests
  /\ rpc' = "claim" /\ requestBaseline' = enables /\ wanted' = FALSE
  /\ UNCHANGED <<atomics, status, capturer, epc, hardware, disturbed>>

\* The phase is taken from Idle, or the request is refused as Busy.
Claim ==
  /\ rpc = "claim"
  /\ IF phase = "idle"
     THEN phase' = "arming" /\ rpc' = "base" /\ disturbed' = wanted
     ELSE rpc' = "idle" /\ UNCHANGED <<phase, disturbed>>
  /\ UNCHANGED <<enabled, enables, baseline, started, ready, due, status, requestBaseline,
                 wanted, capturer, epc, hardware>>

\* Mutated: the generation is read only when the phase has been taken.
BaseLate ==
  /\ rpc = "base" /\ rpc' = "started" /\ baseline' = enables
  /\ UNCHANGED <<phase, enabled, enables, started, ready, due, status, requestBaseline,
                 wanted, capturer, epc, hardware, disturbed>>

Base ==
  /\ rpc = "base" /\ rpc' = "started" /\ baseline' = requestBaseline
  /\ UNCHANGED <<phase, enabled, enables, started, ready, due, status, requestBaseline,
                 wanted, capturer, epc, hardware, disturbed>>

LookAround ==
  \/ Goes("started", IF started THEN "ready" ELSE "unavailable")
  \/ Goes("ready", IF ready THEN "level" ELSE "unavailable")
  \/ Goes("level", IF enabled THEN "skipped" ELSE "pulse")
  \/ Goes("pulse", IF enables # baseline THEN "skipped" ELSE "arm")

\* armChimeStatus(false) and finishChime: refused before it was queued.
Refuse ==
  /\ rpc \in {"unavailable", "skipped"} /\ rpc' = "idle"
  /\ sequence' = sequence + 1
  /\ FinishChime(rpc)
  /\ UNCHANGED <<enabled, enables, baseline, started, ready, due, requestBaseline, wanted,
                 capturer, epc, hardware, disturbed>>

\* The guard is set, the status armed, and only then the phase published.
Arm ==
  /\ rpc = "arm" /\ rpc' = "guard"
  /\ due' = FALSE
  /\ sequence' = sequence + 1 /\ result' = "pending"
  /\ UNCHANGED <<phase, enabled, enables, baseline, started, ready, finishes,
                 requestBaseline, wanted, capturer, epc, hardware, disturbed>>

Guard ==
  /\ rpc = "guard" /\ rpc' = "recheck" /\ phase' = "guarding"
  /\ UNCHANGED <<enabled, enables, baseline, started, ready, due, status, requestBaseline,
                 wanted, capturer, epc, hardware, disturbed>>

Queue == Arm \/ Guard

\* Did the capture fail, or the host open the microphone, meanwhile?
LookAgain ==
  \/ Goes("recheck", IF ready THEN "lateLevel" ELSE "lateUnavailable")
  \/ Goes("lateLevel", IF enabled THEN "lateSkipped" ELSE "latePulse")
  \/ Goes("latePulse", IF enables # baseline THEN "lateSkipped" ELSE "idle")

Withdraw ==
  /\ rpc \in {"lateUnavailable", "lateSkipped"} /\ rpc' = "idle"
  /\ FinishGuarding(IF rpc = "lateSkipped" THEN "skipped" ELSE "unavailable")
  /\ UNCHANGED <<enabled, enables, baseline, started, ready, due, sequence,
                 requestBaseline, wanted, capturer, epc, hardware, disturbed>>

Requester ==
  \/ SetupFails \/ SetupDone \/ Request \/ Claim \/ Base \/ LookAround \/ Refuse
  \/ Queue \/ LookAgain \/ Withdraw

-----------------------------------------------------------------------------
(* The event task: audioEventCallback, usbEventCallback *)

loopUnchanged == <<status, rpc, requestBaseline, capturer, hardware>>

\* History: the host has the microphone open from now on.
Wants ==
  /\ wanted' = TRUE
  /\ disturbed' = (disturbed \/ (phase # "idle" /\ cpc \notin Restored))

\* The host selects alt1: the level is published before the generation.
Enable ==
  /\ epc = "idle" /\ enables < MaxEnables
  /\ enabled' = TRUE /\ epc' = "bump" /\ Wants
  /\ UNCHANGED <<phase, enables, baseline, started, ready, due, loopUnchanged>>

Bump ==
  /\ epc = "bump" /\ epc' = "idle"
  /\ enables' = enables + 1
  /\ UNCHANGED <<phase, enabled, baseline, started, ready, due, loopUnchanged, wanted,
                 disturbed>>

\* alt0, or the end of the USB connection.
Disable ==
  /\ epc = "idle"
  /\ enabled' = FALSE
  /\ UNCHANGED <<phase, enables, baseline, started, ready, due, loopUnchanged, epc, wanted,
                 disturbed>>

-----------------------------------------------------------------------------
(* The capture task *)

taskUnchanged == <<enabled, enables, baseline, started, requester, epc, disturbed>>

\* A step that changes neither the hardware nor the chime.
CaptureGoes(to) ==
  /\ cpc' = to
  /\ UNCHANGED <<phase, ready, due, status, half, few, outcome, hardware>>

\* What a look decides about the chime that is played.
Verdict(k, isWanted) ==
  CASE k = "ended" /\ isWanted -> "skipped"
    [] k = "silent" -> IF isWanted THEN "skipped" ELSE "startFailed"
    [] k \in {"over", "drain"} /\ isWanted -> "aborted"
    [] k = "restored" /\ isWanted /\ outcome = "played" -> "aborted"
    [] OTHER -> outcome

\* streamRequestedDuringChime: the level first, then the generation.
Look ==
  /\ cpc \in Looks
  /\ LET isWanted == IF half THEN enables # baseline ELSE enabled
     IN IF ~half /\ ~enabled
        THEN half' = TRUE /\ UNCHANGED <<cpc, outcome>>
        ELSE /\ half' = FALSE
             /\ cpc' = (IF isWanted THEN WhenWanted ELSE WhenQuiet)[cpc]
             /\ outcome' = Verdict(cpc, isWanted)
  /\ UNCHANGED <<phase, ready, due, status, few, hardware, taskUnchanged>>

\* queueInitialCaptureBlocks, which fails if the microphone does not record.
Start ==
  /\ cpc = "start"
  /\ \/ cpc' = "loop" /\ recordings' = 2
     \/ cpc' = "fail" /\ UNCHANGED recordings
  /\ UNCHANGED <<phase, ready, due, status, half, few, outcome, mic, power, amp, speaker,
                 taskUnchanged>>

LoopTop ==
  /\ cpc = "loop"
  /\ CaptureGoes(IF phase = "guarding" THEN "guard" ELSE "wait")
  /\ UNCHANGED taskUnchanged

\* The host wants the microphone while the chime still waits.
GiveUp ==
  /\ cpc = "giveUp" /\ cpc' = "wait"
  /\ FinishGuarding("skipped")
  /\ UNCHANGED <<ready, due, sequence, half, few, outcome, hardware, taskUnchanged>>

Deadline ==
  /\ cpc \in {"deadline", "waitDue", "againDue"}
  /\ CaptureGoes(CASE cpc = "deadline" -> IF due THEN "claim" ELSE "wait"
                   [] cpc = "waitDue" -> IF due THEN "recheck" ELSE "wait"
                   [] OTHER -> IF due THEN "loop" ELSE "take")
  /\ UNCHANGED taskUnchanged

\* beginChimeHardwareSwitch takes the phase from Guarding.
ClaimSwitch ==
  /\ cpc = "claim"
  /\ IF phase = "guarding" THEN phase' = "switching" /\ cpc' = "drainMic"
     ELSE cpc' = "loop" /\ UNCHANGED phase
  /\ UNCHANGED <<ready, due, status, half, few, outcome, hardware, taskUnchanged>>

\* The wait for a recording to end, left early for a chime that is due.
Wait ==
  /\ cpc = "wait"
  /\ few' = (recordings < 2)
  /\ cpc' = IF recordings < 2 THEN "recheck"
            ELSE IF phase = "guarding" THEN "waiting" ELSE "wait"
  /\ UNCHANGED <<phase, ready, due, status, half, outcome, hardware, taskUnchanged>>

Recheck ==
  /\ cpc = "recheck"
  /\ CaptureGoes(IF phase = "guarding" THEN "again" ELSE "take")
  /\ UNCHANGED taskUnchanged

\* A block is taken and its buffer recorded again.
Take ==
  /\ cpc = "take"
  /\ \/ cpc' = "loop" /\ recordings' = IF few THEN recordings + 1 ELSE recordings
     \/ few /\ cpc' = "fail" /\ UNCHANGED recordings
  /\ UNCHANGED <<phase, ready, due, status, half, few, outcome, mic, power, amp, speaker,
                 taskUnchanged>>

\* No new recording is begun; the two under way end.
DrainMic ==
  /\ cpc = "drainMic" /\ recordings = 0
  /\ CaptureGoes("paused")
  /\ UNCHANGED taskUnchanged

Requeue ==
  /\ cpc = "requeue"
  /\ \/ cpc' = "finish" /\ recordings' = 2 /\ outcome' = "skipped"
     \/ cpc' = "lost" /\ outcome' = "restoreFailed" /\ UNCHANGED recordings
  /\ UNCHANGED <<phase, ready, due, status, half, few, mic, power, amp, speaker,
                 taskUnchanged>>

EndMic ==
  /\ cpc = "endMic" /\ cpc' = "ended"
  /\ mic' = FALSE
  /\ UNCHANGED <<phase, ready, due, status, half, few, outcome, recordings, power, amp,
                 speaker, taskUnchanged>>

\* setAudioPower and configureCodecSpeaker.
Power ==
  /\ cpc = "power" /\ cpc' \in {"tuned", "silent"}
  /\ power' = TRUE
  /\ UNCHANGED <<phase, ready, due, status, half, few, outcome, mic, recordings, amp,
                 speaker, taskUnchanged>>

Amp ==
  /\ cpc = "amp" /\ cpc' = "amped"
  /\ amp' = TRUE
  /\ UNCHANGED <<phase, ready, due, status, half, few, outcome, mic, recordings, power,
                 speaker, taskUnchanged>>

\* M5.Speaker.begin() and isRunning(), each of which may fail.
Begin ==
  /\ cpc = "begin"
  /\ \/ cpc' = "queueing" /\ speaker' = "on"
     \/ cpc' = "silent" /\ speaker' \in {"off", "on"}
  /\ UNCHANGED <<phase, ready, due, status, half, few, outcome, mic, recordings, power, amp,
                 taskUnchanged>>

PlayRaw ==
  /\ cpc = "playRaw"
  /\ \/ /\ cpc' = "playing" /\ speaker' = "playing" /\ phase' = "playing" /\ due' = FALSE
        /\ UNCHANGED outcome
     \/ /\ cpc' = "stop" /\ outcome' = "playbackFailed"
        /\ UNCHANGED <<speaker, phase, due>>
  /\ UNCHANGED <<ready, status, half, few, mic, recordings, power, amp, taskUnchanged>>

\* Mutated: the playback is not limited.
PlayingUnlimited ==
  /\ cpc = "playing"
  /\ CaptureGoes(IF speaker = "playing" THEN "play" ELSE "over")
  /\ UNCHANGED taskUnchanged

Playing ==
  /\ cpc = "playing"
  /\ CaptureGoes(IF speaker = "playing" /\ ~due THEN "play" ELSE "over")
  /\ UNCHANGED taskUnchanged

\* The end of the samples, or the timeout; then the DMA queue drains.
PlayVerdict ==
  /\ cpc = "verdict"
  /\ IF speaker = "playing"
     THEN cpc' = "stop" /\ outcome' = "playbackFailed" /\ UNCHANGED due
     ELSE cpc' = "draining" /\ outcome' = "played" /\ due' = FALSE
  /\ UNCHANGED <<phase, ready, status, half, few, hardware, taskUnchanged>>

Draining ==
  /\ cpc = "draining"
  /\ CaptureGoes(IF due THEN "stop" ELSE "drain")
  /\ UNCHANGED taskUnchanged

\* Mutated: the amplifier and its power are left on.
StopLocalSpeakerOnly ==
  /\ cpc = "stop" /\ cpc' = "restart"
  /\ speaker' = "off"
  /\ UNCHANGED <<phase, ready, due, status, half, few, outcome, mic, recordings, power, amp,
                 taskUnchanged>>

StopLocalSpeaker ==
  /\ cpc = "stop" /\ cpc' = "restart"
  /\ speaker' = "off" /\ amp' = FALSE /\ power' = FALSE
  /\ UNCHANGED <<phase, ready, due, status, half, few, outcome, mic, recordings,
                 taskUnchanged>>

\* restartCaptureAfterChime; what began is ended again when it fails.
RestartCapture ==
  /\ cpc = "restart"
  /\ \/ /\ cpc' = "restored" /\ mic' = TRUE /\ recordings' = 2
        /\ UNCHANGED outcome
     \/ /\ cpc' = "lost" /\ outcome' = "restoreFailed"
        /\ UNCHANGED <<mic, recordings>>
  /\ UNCHANGED <<phase, ready, due, status, half, few, power, amp, speaker, taskUnchanged>>

Lost ==
  /\ cpc = "lost" /\ cpc' = "finish"
  /\ ready' = FALSE
  /\ UNCHANGED <<phase, due, status, half, few, outcome, hardware, taskUnchanged>>

Finish ==
  /\ cpc = "finish"
  /\ cpc' = IF outcome = "restoreFailed" THEN "dead" ELSE "loop"
  /\ FinishChime(outcome)
  /\ UNCHANGED <<ready, due, sequence, half, few, outcome, hardware, taskUnchanged>>

PerformCompletionChime ==
  \/ DrainMic \/ Requeue \/ EndMic \/ Power \/ Amp \/ Begin \/ PlayRaw \/ Playing
  \/ PlayVerdict \/ Draining \/ StopLocalSpeaker \/ RestartCapture \/ Lost \/ Finish

\* markCaptureHardwareFailed
Fail ==
  /\ cpc = "fail" /\ cpc' = "await"
  /\ ready' = FALSE
  /\ UNCHANGED <<phase, due, status, half, few, outcome, hardware, taskUnchanged>>

\* A request that is being armed is waited for.
Await ==
  /\ cpc = "await" /\ phase # "arming"
  /\ CaptureGoes(IF phase = "guarding" THEN "abandon" ELSE "dead")
  /\ UNCHANGED taskUnchanged

Abandon ==
  /\ cpc = "abandon" /\ cpc' = "dead"
  /\ FinishGuarding("unavailable")
  /\ UNCHANGED <<ready, due, sequence, half, few, outcome, hardware, taskUnchanged>>

MarkCaptureHardwareFailed == Fail \/ Await \/ Abandon

Capture ==
  \/ Look \/ Start \/ LoopTop \/ GiveUp \/ Deadline \/ ClaimSwitch \/ Wait \/ Recheck
  \/ Take \/ PerformCompletionChime \/ MarkCaptureHardwareFailed

-----------------------------------------------------------------------------
(* The hardware and the clock *)

hardwareFrame == <<phase, enabled, enables, baseline, started, ready, status, requester,
                   capturer, epc, mic, power, amp, disturbed>>

RecordingDone ==
  /\ mic /\ recordings > 0
  /\ recordings' = recordings - 1
  /\ UNCHANGED <<hardwareFrame, due, speaker>>

PlaybackDone ==
  /\ speaker = "playing" /\ speaker' = "on"
  /\ UNCHANGED <<hardwareFrame, due, recordings>>

Tick ==
  /\ due' = TRUE
  /\ UNCHANGED <<hardwareFrame, recordings, speaker>>

Next ==
  \/ Requester \/ Enable \/ Bump \/ Disable \/ Capture
  \/ RecordingDone \/ PlaybackDone \/ Tick

Spec == Init /\ [][Next]_vars

\* The tasks are scheduled, recordings end and time passes.  Nothing is
\* assumed of the host, nor that a playback ends.
FairSpec ==
  /\ Spec
  /\ WF_vars(Requester) /\ WF_vars(Capture) /\ WF_vars(RecordingDone) /\ WF_vars(Tick)

-----------------------------------------------------------------------------
(* Properties *)

\* A chime that is reported as played was not wanted away by the host: no alt1
\* came between the request (its first instruction) and the moment the capture
\* was restored, not even a pulse that was over before anybody looked.
NoPulseMissed ==
  [][result' = "played" /\ result # "played" => ~disturbed]_vars

\* Microphone and speaker never have the codec at the same time, and while the
\* status calls the microphone ready it really has it.
CodecExclusive ==
  /\ mic => ~power /\ ~amp /\ speaker = "off"
  /\ ready /\ phase \notin {"switching", "playing"} => mic

\* Each accepted request ends exactly once, whichever of the loop and the
\* capture task ends it: an idle phase has as many ends as sequence numbers.
\* And what the loop reads between its requests agrees: a chime is on its way
\* exactly while its result is pending.
EndsOnce ==
  /\ phase = "idle" => finishes = sequence
  /\ rpc = "idle" => (phase # "idle" <=> result = "pending")

\* A capture task that died leaves no chime to guard: the loop and the task
\* cannot each believe that the other one ends it.
NoneAbandoned == rpc = "idle" /\ cpc = "dead" => phase = "idle"

\* Every chime comes to an end, however the host behaves and whatever fails.
ChimeEnds == phase # "idle" ~> phase = "idle"
=============================================================================
