-------------------------- MODULE UsbMicChimeProofs -------------------------
(***************************************************************************)
(* Proofs about UsbMicChime, for any number of requests and of times the   *)
(* host opens the microphone: microphone and speaker never share the       *)
(* codec, every accepted request ends exactly once, a capture task that    *)
(* died leaves no chime behind, and no chime is reported as played that    *)
(* the host interrupted.                                                   *)
(***************************************************************************)
EXTENDS UsbMicChime, TLAPS

\* The places of the capture task: the speaker may be powered; the microphone
\* has been ended; the chime is being performed.
Loud == {"tuned", "amp", "amped", "begin", "queueing", "playRaw", "silent",
         "playing", "play", "over", "verdict", "draining", "drain", "stop"}
NoMic == Loud \cup {"ended", "power", "restart"}
Perform == NoMic \cup {"drainMic", "paused", "requeue", "endMic", "restored", "lost",
                       "finish"}

\* The places of the loop between taking the phase and publishing the guard.
Arming == {"base", "started", "ready", "level", "pulse", "arm", "guard", "unavailable",
           "skipped"}

OnItsWay == rpc = "guard" \/ phase \in {"guarding", "switching", "playing"}

\* The phase says who holds the chime: the loop while it arms it, the capture
\* task while it performs it.
PhaseInv ==
  /\ phase \in {"switching", "playing"} <=> cpc \in Perform
  /\ phase = "arming" <=> rpc \in Arming
  /\ rpc = "setup" => phase = "idle"
  /\ phase # "finishing"

\* A chime on its way is the one that has a number and no end yet.
CountInv ==
  /\ OnItsWay => sequence = finishes + 1
  /\ ~OnItsWay => sequence = finishes
  /\ OnItsWay <=> result = "pending"

\* The codec goes to the speaker between the two ends of the microphone; a third
\* recording is never begun.
CodecInv ==
  /\ cpc \in {"waiting", "waitDue"} => ~few
  /\ cpc \in {"recheck", "again", "againDue", "take"} /\ few => recordings < 2
  /\ cpc \in NoMic => ~mic
  /\ cpc \notin Loud => ~power /\ ~amp /\ speaker = "off"
  /\ ready /\ cpc \notin NoMic \cup {"lost"} => mic

\* A task that gives up says so before it looks for a guarded chime.
DeadInv ==
  /\ cpc \in {"await", "abandon", "dead"} => ~ready
  /\ cpc \in {"abandon", "dead"} => rpc \notin {"level", "pulse", "arm", "guard"}
  /\ cpc = "dead" => phase # "guarding"
  /\ cpc = "lost" => outcome = "restoreFailed"
  /\ outcome = "restoreFailed" => cpc \in {"lost", "finish", "dead"}
  /\ outcome = "restoreFailed" /\ cpc = "finish" => ~ready

\* Since generation g the host opened the microphone: it still has it open and
\* the generation is about to move, or it has moved.
OpenedSince(g) == enables # g \/ (epc = "bump" /\ enabled)

\* Whatever the host did to this chime is still to be seen at the next look.
PulseInv ==
  /\ baseline <= enables /\ requestBaseline <= enables
  /\ epc = "bump" => enabled
  /\ half => cpc \in Looks
  /\ wanted /\ rpc \in {"claim", "base"} => OpenedSince(requestBaseline)
  /\ disturbed /\ rpc = "base" => OpenedSince(requestBaseline)
  /\ disturbed /\ phase # "idle" /\ rpc # "base" /\ cpc # "finish" => OpenedSince(baseline)
  /\ disturbed /\ cpc = "restored" /\ half => enables # baseline
  /\ disturbed /\ cpc = "finish" => outcome # "played"

IInv == TypeOK /\ PhaseInv /\ CountInv /\ CodecInv /\ DeadInv /\ PulseInv

\* The initial states satisfy the invariant.
THEOREM InitInv == Init => IInv
<1> SUFFICES ASSUME Init PROVE IInv
  OBVIOUS
<1> USE DEF Init
<1>1. TypeOK
  <2>1. /\ phase \in Phases /\ result \in Results /\ outcome \in Terminal
        /\ rpc \in RequestSteps /\ cpc \in CaptureSteps
    BY DEF Phases, Results, Terminal, Failures, RequestSteps, CaptureSteps
  <2>2. /\ enables \in Nat /\ baseline \in Nat /\ requestBaseline \in Nat
        /\ sequence \in Nat /\ finishes \in Nat /\ recordings \in 0 .. 2
    OBVIOUS
  <2> QED BY <2>1, <2>2 DEF TypeOK
<1>2. PhaseInv /\ CountInv
  BY DEF PhaseInv, CountInv, OnItsWay, Perform, NoMic, Loud, Arming
<1>3. CodecInv /\ DeadInv
  BY DEF CodecInv, DeadInv, NoMic, Loud
<1>4. PulseInv
  BY DEF PulseInv, Looks, WhenWanted
<1> QED BY <1>1, <1>2, <1>3, <1>4 DEF IInv

-----------------------------------------------------------------------------
\* The types, in the parts that are proved one by one.
Words ==
  /\ phase \in Phases /\ result \in Results /\ outcome \in Terminal
  /\ rpc \in RequestSteps /\ cpc \in CaptureSteps /\ epc \in {"idle", "bump"}
  /\ speaker \in {"off", "on", "playing"}

Counters ==
  /\ enables \in Nat /\ baseline \in Nat /\ requestBaseline \in Nat
  /\ sequence \in Nat /\ finishes \in Nat /\ recordings \in 0 .. 2

HostFlags == enabled \in BOOLEAN /\ wanted \in BOOLEAN /\ disturbed \in BOOLEAN
ReadyFlags == started \in BOOLEAN /\ ready \in BOOLEAN /\ due \in BOOLEAN
TaskFlags == half \in BOOLEAN /\ few \in BOOLEAN
CodecFlags == mic \in BOOLEAN /\ power \in BOOLEAN /\ amp \in BOOLEAN

\* The types of the next state, part by part.
LEMMA TypeParts ==
  TypeOK' <=> /\ Words' /\ Counters'
              /\ HostFlags' /\ ReadyFlags' /\ TaskFlags' /\ CodecFlags'
BY DEF TypeOK, Words, Counters, HostFlags, ReadyFlags, TaskFlags, CodecFlags

\* Only the loop and the capture task take the phase, each from its own side.
LEMMA PhaseKeeps == ASSUME IInv, [Next]_vars PROVE PhaseInv'
<1> USE DEF IInv, PhaseInv, Perform, NoMic, Loud, Arming, vars, atomics, status,
     requester, capturer, hardware
<1>1. CASE SetupFails \/ SetupDone
  BY <1>1 DEF SetupFails, SetupDone, Goes
<1>2. CASE Request \/ Claim \/ Base
  BY <1>2 DEF Request, Claim, Base
<1>3. CASE LookAround \/ LookAgain
  BY <1>3 DEF LookAround, LookAgain, Goes
<1>4. CASE Queue
  BY <1>4 DEF Queue, Arm, Guard
<1>5. CASE Refuse \/ Withdraw
  BY <1>5 DEF Refuse, Withdraw, FinishGuarding, FinishChime
<1>6. CASE Enable \/ Bump \/ Disable
  BY <1>6 DEF Enable, Bump, Disable, Wants, loopUnchanged
<1>7. CASE Look
  BY <1>7 DEF Look, taskUnchanged, Looks, WhenWanted, WhenQuiet, Verdict
<1>8. CASE Start \/ LoopTop \/ Deadline \/ Wait \/ Recheck \/ Take
  BY <1>8 DEF Start, LoopTop, Deadline, Wait, Recheck, Take, CaptureGoes,
       taskUnchanged
<1>9. CASE GiveUp \/ ClaimSwitch
  BY <1>9 DEF GiveUp, ClaimSwitch, FinishGuarding, FinishChime, taskUnchanged
<1>10. CASE DrainMic \/ Requeue \/ EndMic \/ Power \/ Amp \/ Begin \/ PlayRaw
  BY <1>10 DEF DrainMic, Requeue, EndMic, Power, Amp, Begin, PlayRaw,
     CaptureGoes,
       taskUnchanged
<1>11. CASE Playing \/ PlayVerdict \/ Draining \/ StopLocalSpeaker \/ RestartCapture
     \/ Lost
  BY <1>11 DEF Playing, PlayVerdict, Draining, StopLocalSpeaker, RestartCapture,
       Lost, CaptureGoes, taskUnchanged
<1>12. CASE Finish
  BY <1>12 DEF Finish, FinishChime, taskUnchanged
<1>13. CASE MarkCaptureHardwareFailed
  BY <1>13 DEF MarkCaptureHardwareFailed, Fail, Await, Abandon, FinishGuarding,
       FinishChime, CaptureGoes, taskUnchanged
<1>14. CASE RecordingDone \/ PlaybackDone \/ Tick \/ UNCHANGED vars
  BY <1>14 DEF RecordingDone, PlaybackDone, Tick, hardwareFrame
<1> QED BY <1>1, <1>2, <1>3, <1>4, <1>5, <1>6, <1>7, <1>8, <1>9, <1>10, <1>11,
     <1>12, <1>13, <1>14 DEF Next, Requester, Capture, PerformCompletionChime

\* A number is given when the loop arms the chime, or in the refusal that ends it.
LEMMA CountKeeps == ASSUME IInv, [Next]_vars PROVE CountInv'
<1> USE DEF IInv, CountInv, PhaseInv, OnItsWay, Arming, TypeOK, Terminal, Failures,
     Perform, NoMic, Loud, vars, atomics, status, requester, capturer, hardware
<1>1. CASE SetupFails \/ SetupDone
  BY <1>1 DEF SetupFails, SetupDone, Goes
<1>2. CASE Request \/ Claim \/ Base
  BY <1>2 DEF Request, Claim, Base
<1>3. CASE LookAround \/ LookAgain
  BY <1>3 DEF LookAround, LookAgain, Goes
<1>4. CASE Queue
  BY <1>4 DEF Queue, Arm, Guard
<1>5. CASE Refuse \/ Withdraw
  BY <1>5 DEF Refuse, Withdraw, FinishGuarding, FinishChime
<1>6. CASE Enable \/ Bump \/ Disable
  BY <1>6 DEF Enable, Bump, Disable, Wants, loopUnchanged
<1>7. CASE Look
  BY <1>7 DEF Look, taskUnchanged, Looks, WhenWanted, WhenQuiet, Verdict
<1>8. CASE Start \/ LoopTop \/ Deadline \/ Wait \/ Recheck \/ Take
  BY <1>8 DEF Start, LoopTop, Deadline, Wait, Recheck, Take, CaptureGoes,
       taskUnchanged
<1>9. CASE GiveUp \/ ClaimSwitch
  BY <1>9 DEF GiveUp, ClaimSwitch, FinishGuarding, FinishChime, taskUnchanged
<1>10. CASE DrainMic \/ Requeue \/ EndMic \/ Power \/ Amp \/ Begin \/ PlayRaw
  BY <1>10 DEF DrainMic, Requeue, EndMic, Power, Amp, Begin, PlayRaw,
     CaptureGoes,
       taskUnchanged
<1>11. CASE Playing \/ PlayVerdict \/ Draining \/ StopLocalSpeaker \/ RestartCapture
     \/ Lost
  BY <1>11 DEF Playing, PlayVerdict, Draining, StopLocalSpeaker, RestartCapture,
       Lost, CaptureGoes, taskUnchanged
<1>12. CASE Finish
  BY <1>12 DEF Finish, FinishChime, taskUnchanged
<1>13. CASE MarkCaptureHardwareFailed
  BY <1>13 DEF MarkCaptureHardwareFailed, Fail, Await, Abandon, FinishGuarding,
       FinishChime, CaptureGoes, taskUnchanged
<1>14. CASE RecordingDone \/ PlaybackDone \/ Tick \/ UNCHANGED vars
  BY <1>14 DEF RecordingDone, PlaybackDone, Tick, hardwareFrame
<1> QED BY <1>1, <1>2, <1>3, <1>4, <1>5, <1>6, <1>7, <1>8, <1>9, <1>10, <1>11,
     <1>12, <1>13, <1>14 DEF Next, Requester, Capture, PerformCompletionChime

\* Codec and microphone change hands inside the chime, and when the set-up fails.
LEMMA CodecKeeps == ASSUME IInv, [Next]_vars PROVE CodecInv'
<1> USE DEF IInv, CodecInv, PhaseInv, NoMic, Loud, Perform, Arming, DeadInv, TypeOK,
     vars, atomics, status, requester, capturer, hardware
<1>1. CASE SetupFails \/ SetupDone
  BY <1>1 DEF SetupFails, SetupDone, Goes
<1>2. CASE Request \/ Claim \/ Base
  BY <1>2 DEF Request, Claim, Base
<1>3. CASE LookAround \/ LookAgain
  BY <1>3 DEF LookAround, LookAgain, Goes
<1>4. CASE Queue
  BY <1>4 DEF Queue, Arm, Guard
<1>5. CASE Refuse \/ Withdraw
  BY <1>5 DEF Refuse, Withdraw, FinishGuarding, FinishChime
<1>6. CASE Enable \/ Bump \/ Disable
  BY <1>6 DEF Enable, Bump, Disable, Wants, loopUnchanged
<1>7. CASE Look
  BY <1>7 DEF Look, taskUnchanged, Looks, WhenWanted, WhenQuiet, Verdict
<1>8. CASE Start \/ LoopTop \/ Deadline \/ Wait \/ Recheck \/ Take
  BY <1>8 DEF Start, LoopTop, Deadline, Wait, Recheck, Take, CaptureGoes,
       taskUnchanged
<1>9. CASE GiveUp \/ ClaimSwitch
  BY <1>9 DEF GiveUp, ClaimSwitch, FinishGuarding, FinishChime, taskUnchanged
<1>10. CASE DrainMic \/ Requeue \/ EndMic \/ Power \/ Amp \/ Begin \/ PlayRaw
  BY <1>10 DEF DrainMic, Requeue, EndMic, Power, Amp, Begin, PlayRaw,
     CaptureGoes,
       taskUnchanged
<1>11. CASE Playing \/ PlayVerdict \/ Draining \/ StopLocalSpeaker \/ RestartCapture
     \/ Lost
  <2>1. CASE Playing
    BY <2>1 DEF Playing, CaptureGoes, taskUnchanged
  <2>2. CASE PlayVerdict
    BY <2>2 DEF PlayVerdict, CaptureGoes, taskUnchanged
  <2>3. CASE Draining
    BY <2>3 DEF Draining, CaptureGoes, taskUnchanged
  <2>4. CASE StopLocalSpeaker
    BY <2>4 DEF StopLocalSpeaker, CaptureGoes, taskUnchanged
  <2>5. CASE RestartCapture
    BY <2>5 DEF RestartCapture, CaptureGoes, taskUnchanged
  <2>6. CASE Lost
    BY <2>6 DEF Lost, CaptureGoes, taskUnchanged
  <2> QED BY <1>11, <2>1, <2>2, <2>3, <2>4, <2>5, <2>6
<1>12. CASE Finish
  BY <1>12 DEF Finish, FinishChime, taskUnchanged
<1>13. CASE MarkCaptureHardwareFailed
  BY <1>13 DEF MarkCaptureHardwareFailed, Fail, Await, Abandon, FinishGuarding,
       FinishChime, CaptureGoes, taskUnchanged
<1>14. CASE RecordingDone \/ PlaybackDone \/ Tick \/ UNCHANGED vars
  BY <1>14 DEF RecordingDone, PlaybackDone, Tick, hardwareFrame
<1> QED BY <1>1, <1>2, <1>3, <1>4, <1>5, <1>6, <1>7, <1>8, <1>9, <1>10, <1>11,
     <1>12, <1>13, <1>14 DEF Next, Requester, Capture, PerformCompletionChime

\* The task that fails waits for a request that is being armed.
LEMMA DeadKeeps == ASSUME IInv, [Next]_vars PROVE DeadInv'
<1> USE DEF IInv, DeadInv, PhaseInv, NoMic, Loud, Perform, Arming, vars, atomics,
     status, requester, capturer, hardware
<1>1. CASE SetupFails \/ SetupDone
  BY <1>1 DEF SetupFails, SetupDone, Goes
<1>2. CASE Request \/ Claim \/ Base
  BY <1>2 DEF Request, Claim, Base
<1>3. CASE LookAround \/ LookAgain
  BY <1>3 DEF LookAround, LookAgain, Goes
<1>4. CASE Queue
  BY <1>4 DEF Queue, Arm, Guard
<1>5. CASE Refuse \/ Withdraw
  BY <1>5 DEF Refuse, Withdraw, FinishGuarding, FinishChime
<1>6. CASE Enable \/ Bump \/ Disable
  BY <1>6 DEF Enable, Bump, Disable, Wants, loopUnchanged
<1>7. CASE Look
  BY <1>7 DEF Look, taskUnchanged, Looks, WhenWanted, WhenQuiet, Verdict
<1>8. CASE Start \/ LoopTop \/ Deadline \/ Wait \/ Recheck \/ Take
  BY <1>8 DEF Start, LoopTop, Deadline, Wait, Recheck, Take, CaptureGoes,
       taskUnchanged
<1>9. CASE GiveUp \/ ClaimSwitch
  BY <1>9 DEF GiveUp, ClaimSwitch, FinishGuarding, FinishChime, taskUnchanged
<1>10. CASE DrainMic \/ Requeue \/ EndMic \/ Power \/ Amp \/ Begin \/ PlayRaw
  BY <1>10 DEF DrainMic, Requeue, EndMic, Power, Amp, Begin, PlayRaw,
     CaptureGoes,
       taskUnchanged
<1>11. CASE Playing \/ PlayVerdict \/ Draining \/ StopLocalSpeaker \/ RestartCapture
     \/ Lost
  BY <1>11 DEF Playing, PlayVerdict, Draining, StopLocalSpeaker, RestartCapture,
       Lost, CaptureGoes, taskUnchanged
<1>12. CASE Finish
  BY <1>12 DEF Finish, FinishChime, taskUnchanged
<1>13. CASE MarkCaptureHardwareFailed
  BY <1>13 DEF MarkCaptureHardwareFailed, Fail, Await, Abandon, FinishGuarding,
       FinishChime, CaptureGoes, taskUnchanged
<1>14. CASE RecordingDone \/ PlaybackDone \/ Tick \/ UNCHANGED vars
  BY <1>14 DEF RecordingDone, PlaybackDone, Tick, hardwareFrame
<1> QED BY <1>1, <1>2, <1>3, <1>4, <1>5, <1>6, <1>7, <1>8, <1>9, <1>10, <1>11,
     <1>12, <1>13, <1>14 DEF Next, Requester, Capture, PerformCompletionChime

\* What the host does is seen at the latest by the look at the restored capture.
LEMMA PulseKeeps == ASSUME IInv, [Next]_vars PROVE PulseInv'
<1> USE DEF IInv, PulseInv, PhaseInv, OpenedSince, TypeOK, Perform, NoMic, Loud,
     Arming, Restored, DeadInv, Looks, WhenWanted, vars, atomics, status, requester,
     capturer, hardware
<1>1. CASE SetupFails \/ SetupDone
  BY <1>1 DEF SetupFails, SetupDone, Goes
<1>2. CASE Request \/ Claim \/ Base
  BY <1>2 DEF Request, Claim, Base
<1>3. CASE LookAround \/ LookAgain
  BY <1>3 DEF LookAround, LookAgain, Goes
<1>4. CASE Queue
  BY <1>4 DEF Queue, Arm, Guard
<1>5. CASE Refuse \/ Withdraw
  BY <1>5 DEF Refuse, Withdraw, FinishGuarding, FinishChime
<1>6. CASE Enable \/ Bump \/ Disable
  BY <1>6 DEF Enable, Bump, Disable, Wants, loopUnchanged
<1>7. CASE Look
  BY <1>7 DEF Look, taskUnchanged, Looks, WhenWanted, WhenQuiet, Verdict
<1>8. CASE Start \/ LoopTop \/ Deadline \/ Wait \/ Recheck \/ Take
  BY <1>8 DEF Start, LoopTop, Deadline, Wait, Recheck, Take, CaptureGoes,
       taskUnchanged
<1>9. CASE GiveUp \/ ClaimSwitch
  BY <1>9 DEF GiveUp, ClaimSwitch, FinishGuarding, FinishChime, taskUnchanged
<1>10. CASE DrainMic \/ Requeue \/ EndMic \/ Power \/ Amp \/ Begin \/ PlayRaw
  BY <1>10 DEF DrainMic, Requeue, EndMic, Power, Amp, Begin, PlayRaw,
     CaptureGoes,
       taskUnchanged
<1>11. CASE Playing \/ PlayVerdict \/ Draining \/ StopLocalSpeaker \/ RestartCapture
     \/ Lost
  <2>1. CASE Playing
    BY <2>1 DEF Playing, CaptureGoes, taskUnchanged
  <2>2. CASE PlayVerdict
    BY <2>2 DEF PlayVerdict, CaptureGoes, taskUnchanged
  <2>3. CASE Draining
    BY <2>3 DEF Draining, CaptureGoes, taskUnchanged
  <2>4. CASE StopLocalSpeaker
    BY <2>4 DEF StopLocalSpeaker, CaptureGoes, taskUnchanged
  <2>5. CASE RestartCapture
    BY <2>5 DEF RestartCapture, CaptureGoes, taskUnchanged
  <2>6. CASE Lost
    BY <2>6 DEF Lost, CaptureGoes, taskUnchanged
  <2> QED BY <1>11, <2>1, <2>2, <2>3, <2>4, <2>5, <2>6
<1>12. CASE Finish
  <2>1. /\ cpc = "finish" /\ cpc' \in {"loop", "dead"} /\ phase' = "idle"
        /\ UNCHANGED <<enabled, enables, baseline, requestBaseline, wanted, epc, rpc,
                       disturbed, half>>
    BY <1>12 DEF Finish, FinishChime, taskUnchanged
  <2>2. ~half
    BY <2>1
  <2> QED BY <2>1, <2>2
<1>13. CASE MarkCaptureHardwareFailed
  BY <1>13 DEF MarkCaptureHardwareFailed, Fail, Await, Abandon, FinishGuarding,
       FinishChime, CaptureGoes, taskUnchanged
<1>14. CASE RecordingDone \/ PlaybackDone \/ Tick \/ UNCHANGED vars
  BY <1>14 DEF RecordingDone, PlaybackDone, Tick, hardwareFrame
<1> QED BY <1>1, <1>2, <1>3, <1>4, <1>5, <1>6, <1>7, <1>8, <1>9, <1>10, <1>11,
     <1>12, <1>13, <1>14 DEF Next, Requester, Capture, PerformCompletionChime

\* Words,
LEMMA WordsKeeps == ASSUME IInv, [Next]_vars PROVE Words'
<1> USE DEF IInv, Words, TypeOK, Phases, Results, Terminal, Failures, RequestSteps,
     CaptureSteps, vars, atomics, status, requester, capturer, hardware
<1>1. CASE SetupFails \/ SetupDone
  BY <1>1 DEF SetupFails, SetupDone, Goes
<1>2. CASE Request \/ Claim \/ Base
  BY <1>2 DEF Request, Claim, Base
<1>3. CASE LookAround \/ LookAgain
  BY <1>3 DEF LookAround, LookAgain, Goes
<1>4. CASE Queue
  BY <1>4 DEF Queue, Arm, Guard
<1>5. CASE Refuse \/ Withdraw
  BY <1>5 DEF Refuse, Withdraw, FinishGuarding, FinishChime
<1>6. CASE Enable \/ Bump \/ Disable
  BY <1>6 DEF Enable, Bump, Disable, Wants, loopUnchanged
<1>7. CASE Look
  BY <1>7 DEF Look, taskUnchanged, Looks, WhenWanted, WhenQuiet, Verdict
<1>8. CASE Start \/ LoopTop \/ Deadline \/ Wait \/ Recheck \/ Take
  <2>1. CASE Start
    BY <2>1 DEF Start, CaptureGoes, taskUnchanged
  <2>2. CASE LoopTop
    BY <2>2 DEF LoopTop, CaptureGoes, taskUnchanged
  <2>3. CASE Deadline
    BY <2>3 DEF Deadline, CaptureGoes, taskUnchanged
  <2>4. CASE Wait
    BY <2>4 DEF Wait, CaptureGoes, taskUnchanged
  <2>5. CASE Recheck
    BY <2>5 DEF Recheck, CaptureGoes, taskUnchanged
  <2>6. CASE Take
    BY <2>6 DEF Take, CaptureGoes, taskUnchanged
  <2> QED BY <1>8, <2>1, <2>2, <2>3, <2>4, <2>5, <2>6
<1>9. CASE GiveUp \/ ClaimSwitch
  BY <1>9 DEF GiveUp, ClaimSwitch, FinishGuarding, FinishChime, taskUnchanged
<1>10. CASE DrainMic \/ Requeue \/ EndMic \/ Power \/ Amp \/ Begin \/ PlayRaw
  BY <1>10 DEF DrainMic, Requeue, EndMic, Power, Amp, Begin, PlayRaw,
     CaptureGoes,
       taskUnchanged
<1>11. CASE Playing \/ PlayVerdict \/ Draining \/ StopLocalSpeaker \/ RestartCapture
     \/ Lost
  BY <1>11 DEF Playing, PlayVerdict, Draining, StopLocalSpeaker, RestartCapture,
       Lost, CaptureGoes, taskUnchanged
<1>12. CASE Finish
  BY <1>12 DEF Finish, FinishChime, taskUnchanged
<1>13. CASE MarkCaptureHardwareFailed
  BY <1>13 DEF MarkCaptureHardwareFailed, Fail, Await, Abandon, FinishGuarding,
       FinishChime, CaptureGoes, taskUnchanged
<1>14. CASE RecordingDone \/ PlaybackDone \/ Tick \/ UNCHANGED vars
  BY <1>14 DEF RecordingDone, PlaybackDone, Tick, hardwareFrame
<1> QED BY <1>1, <1>2, <1>3, <1>4, <1>5, <1>6, <1>7, <1>8, <1>9, <1>10, <1>11,
     <1>12, <1>13, <1>14 DEF Next, Requester, Capture, PerformCompletionChime

\* numbers
LEMMA CountersKeeps == ASSUME IInv, [Next]_vars PROVE Counters'
<1> USE DEF IInv, Counters, TypeOK, CodecInv, vars, atomics, status, requester,
     capturer, hardware
<1>1. CASE SetupFails \/ SetupDone
  BY <1>1 DEF SetupFails, SetupDone, Goes
<1>2. CASE Request \/ Claim \/ Base
  BY <1>2 DEF Request, Claim, Base
<1>3. CASE LookAround \/ LookAgain
  BY <1>3 DEF LookAround, LookAgain, Goes
<1>4. CASE Queue
  BY <1>4 DEF Queue, Arm, Guard
<1>5. CASE Refuse \/ Withdraw
  BY <1>5 DEF Refuse, Withdraw, FinishGuarding, FinishChime
<1>6. CASE Enable \/ Bump \/ Disable
  BY <1>6 DEF Enable, Bump, Disable, Wants, loopUnchanged
<1>7. CASE Look
  BY <1>7 DEF Look, taskUnchanged, Looks, WhenWanted, WhenQuiet, Verdict
<1>8. CASE Start \/ LoopTop \/ Deadline \/ Wait \/ Recheck \/ Take
  <2>1. CASE Start
    BY <2>1 DEF Start, CaptureGoes, taskUnchanged
  <2>2. CASE LoopTop
    BY <2>2 DEF LoopTop, CaptureGoes, taskUnchanged
  <2>3. CASE Deadline
    BY <2>3 DEF Deadline, CaptureGoes, taskUnchanged
  <2>4. CASE Wait
    BY <2>4 DEF Wait, CaptureGoes, taskUnchanged
  <2>5. CASE Recheck
    BY <2>5 DEF Recheck, CaptureGoes, taskUnchanged
  <2>6. CASE Take
    BY <2>6 DEF Take, CaptureGoes, taskUnchanged
  <2> QED BY <1>8, <2>1, <2>2, <2>3, <2>4, <2>5, <2>6
<1>9. CASE GiveUp \/ ClaimSwitch
  BY <1>9 DEF GiveUp, ClaimSwitch, FinishGuarding, FinishChime, taskUnchanged
<1>10. CASE DrainMic \/ Requeue \/ EndMic \/ Power \/ Amp \/ Begin \/ PlayRaw
  BY <1>10 DEF DrainMic, Requeue, EndMic, Power, Amp, Begin, PlayRaw,
     CaptureGoes,
       taskUnchanged
<1>11. CASE Playing \/ PlayVerdict \/ Draining \/ StopLocalSpeaker \/ RestartCapture
     \/ Lost
  BY <1>11 DEF Playing, PlayVerdict, Draining, StopLocalSpeaker, RestartCapture,
       Lost, CaptureGoes, taskUnchanged
<1>12. CASE Finish
  BY <1>12 DEF Finish, FinishChime, taskUnchanged
<1>13. CASE MarkCaptureHardwareFailed
  BY <1>13 DEF MarkCaptureHardwareFailed, Fail, Await, Abandon, FinishGuarding,
       FinishChime, CaptureGoes, taskUnchanged
<1>14. CASE RecordingDone \/ PlaybackDone \/ Tick \/ UNCHANGED vars
  BY <1>14 DEF RecordingDone, PlaybackDone, Tick, hardwareFrame
<1> QED BY <1>1, <1>2, <1>3, <1>4, <1>5, <1>6, <1>7, <1>8, <1>9, <1>10, <1>11,
     <1>12, <1>13, <1>14 DEF Next, Requester, Capture, PerformCompletionChime

\* and flags: the host's,
LEMMA HostFlagsKeeps == ASSUME IInv, [Next]_vars PROVE HostFlags'
<1>0. HostFlags
  BY DEF IInv, TypeOK, HostFlags
<1> USE DEF HostFlags, vars, atomics, status, requester, capturer, hardware
<1>1. CASE SetupFails \/ SetupDone
  BY <1>0, <1>1 DEF SetupFails, SetupDone, Goes
<1>2. CASE Request \/ Claim \/ Base
  BY <1>0, <1>2 DEF Request, Claim, Base
<1>3. CASE LookAround \/ LookAgain
  BY <1>0, <1>3 DEF LookAround, LookAgain, Goes
<1>4. CASE Queue
  BY <1>0, <1>4 DEF Queue, Arm, Guard
<1>5. CASE Refuse \/ Withdraw
  BY <1>0, <1>5 DEF Refuse, Withdraw, FinishGuarding, FinishChime
<1>6. CASE Enable \/ Bump \/ Disable
  BY <1>0, <1>6 DEF Enable, Bump, Disable, Wants, loopUnchanged
<1>7. CASE Look
  BY <1>0, <1>7 DEF Look, taskUnchanged, Looks, WhenWanted, WhenQuiet, Verdict
<1>8. CASE Start \/ LoopTop \/ Deadline \/ Wait \/ Recheck \/ Take
  BY <1>0, <1>8 DEF Start, LoopTop, Deadline, Wait, Recheck, Take, CaptureGoes,
       taskUnchanged
<1>9. CASE GiveUp \/ ClaimSwitch
  BY <1>0, <1>9 DEF GiveUp, ClaimSwitch, FinishGuarding, FinishChime,
     taskUnchanged
<1>10. CASE DrainMic \/ Requeue \/ EndMic \/ Power \/ Amp \/ Begin \/ PlayRaw
  BY <1>0, <1>10 DEF DrainMic, Requeue, EndMic, Power, Amp, Begin, PlayRaw,
       CaptureGoes, taskUnchanged
<1>11. CASE Playing \/ PlayVerdict \/ Draining \/ StopLocalSpeaker \/ RestartCapture
     \/ Lost
  BY <1>0, <1>11 DEF Playing, PlayVerdict, Draining, StopLocalSpeaker,
       RestartCapture, Lost, CaptureGoes, taskUnchanged
<1>12. CASE Finish
  BY <1>0, <1>12 DEF Finish, FinishChime, taskUnchanged
<1>13. CASE MarkCaptureHardwareFailed
  BY <1>0, <1>13 DEF MarkCaptureHardwareFailed, Fail, Await, Abandon,
       FinishGuarding, FinishChime, CaptureGoes, taskUnchanged
<1>14. CASE RecordingDone \/ PlaybackDone \/ Tick \/ UNCHANGED vars
  BY <1>0, <1>14 DEF RecordingDone, PlaybackDone, Tick, hardwareFrame
<1> QED BY <1>1, <1>2, <1>3, <1>4, <1>5, <1>6, <1>7, <1>8, <1>9, <1>10, <1>11,
     <1>12, <1>13, <1>14 DEF Next, Requester, Capture, PerformCompletionChime

\* what is up,
LEMMA ReadyFlagsKeeps == ASSUME IInv, [Next]_vars PROVE ReadyFlags'
<1>0. ReadyFlags
  BY DEF IInv, TypeOK, ReadyFlags
<1> USE DEF ReadyFlags, vars, atomics, status, requester, capturer, hardware
<1>1. CASE SetupFails \/ SetupDone
  BY <1>0, <1>1 DEF SetupFails, SetupDone, Goes
<1>2. CASE Request \/ Claim \/ Base
  BY <1>0, <1>2 DEF Request, Claim, Base
<1>3. CASE LookAround \/ LookAgain
  BY <1>0, <1>3 DEF LookAround, LookAgain, Goes
<1>4. CASE Queue
  BY <1>0, <1>4 DEF Queue, Arm, Guard
<1>5. CASE Refuse \/ Withdraw
  BY <1>0, <1>5 DEF Refuse, Withdraw, FinishGuarding, FinishChime
<1>6. CASE Enable \/ Bump \/ Disable
  BY <1>0, <1>6 DEF Enable, Bump, Disable, Wants, loopUnchanged
<1>7. CASE Look
  BY <1>0, <1>7 DEF Look, taskUnchanged, Looks, WhenWanted, WhenQuiet, Verdict
<1>8. CASE Start \/ LoopTop \/ Deadline \/ Wait \/ Recheck \/ Take
  BY <1>0, <1>8 DEF Start, LoopTop, Deadline, Wait, Recheck, Take, CaptureGoes,
       taskUnchanged
<1>9. CASE GiveUp \/ ClaimSwitch
  BY <1>0, <1>9 DEF GiveUp, ClaimSwitch, FinishGuarding, FinishChime,
     taskUnchanged
<1>10. CASE DrainMic \/ Requeue \/ EndMic \/ Power \/ Amp \/ Begin \/ PlayRaw
  BY <1>0, <1>10 DEF DrainMic, Requeue, EndMic, Power, Amp, Begin, PlayRaw,
       CaptureGoes, taskUnchanged
<1>11. CASE Playing \/ PlayVerdict \/ Draining \/ StopLocalSpeaker \/ RestartCapture
     \/ Lost
  BY <1>0, <1>11 DEF Playing, PlayVerdict, Draining, StopLocalSpeaker,
       RestartCapture, Lost, CaptureGoes, taskUnchanged
<1>12. CASE Finish
  BY <1>0, <1>12 DEF Finish, FinishChime, taskUnchanged
<1>13. CASE MarkCaptureHardwareFailed
  BY <1>0, <1>13 DEF MarkCaptureHardwareFailed, Fail, Await, Abandon,
       FinishGuarding, FinishChime, CaptureGoes, taskUnchanged
<1>14. CASE RecordingDone \/ PlaybackDone \/ Tick \/ UNCHANGED vars
  BY <1>0, <1>14 DEF RecordingDone, PlaybackDone, Tick, hardwareFrame
<1> QED BY <1>1, <1>2, <1>3, <1>4, <1>5, <1>6, <1>7, <1>8, <1>9, <1>10, <1>11,
     <1>12, <1>13, <1>14 DEF Next, Requester, Capture, PerformCompletionChime

\* what the capture task holds,
LEMMA TaskFlagsKeeps == ASSUME IInv, [Next]_vars PROVE TaskFlags'
<1>0. TaskFlags
  BY DEF IInv, TypeOK, TaskFlags
<1> USE DEF TaskFlags, vars, atomics, status, requester, capturer, hardware
<1>1. CASE SetupFails \/ SetupDone
  BY <1>0, <1>1 DEF SetupFails, SetupDone, Goes
<1>2. CASE Request \/ Claim \/ Base
  BY <1>0, <1>2 DEF Request, Claim, Base
<1>3. CASE LookAround \/ LookAgain
  BY <1>0, <1>3 DEF LookAround, LookAgain, Goes
<1>4. CASE Queue
  BY <1>0, <1>4 DEF Queue, Arm, Guard
<1>5. CASE Refuse \/ Withdraw
  BY <1>0, <1>5 DEF Refuse, Withdraw, FinishGuarding, FinishChime
<1>6. CASE Enable \/ Bump \/ Disable
  BY <1>0, <1>6 DEF Enable, Bump, Disable, Wants, loopUnchanged
<1>7. CASE Look
  BY <1>0, <1>7 DEF Look, taskUnchanged, Looks, WhenWanted, WhenQuiet, Verdict
<1>8. CASE Start \/ LoopTop \/ Deadline \/ Wait \/ Recheck \/ Take
  <2>1. CASE Start
    BY <1>0, <2>1 DEF Start, CaptureGoes, taskUnchanged
  <2>2. CASE LoopTop
    BY <1>0, <2>2 DEF LoopTop, CaptureGoes, taskUnchanged
  <2>3. CASE Deadline
    BY <1>0, <2>3 DEF Deadline, CaptureGoes, taskUnchanged
  <2>4. CASE Wait
    BY <1>0, <2>4 DEF Wait, CaptureGoes, taskUnchanged
  <2>5. CASE Recheck
    BY <1>0, <2>5 DEF Recheck, CaptureGoes, taskUnchanged
  <2>6. CASE Take
    BY <1>0, <2>6 DEF Take, CaptureGoes, taskUnchanged
  <2> QED BY <1>8, <2>1, <2>2, <2>3, <2>4, <2>5, <2>6
<1>9. CASE GiveUp \/ ClaimSwitch
  BY <1>0, <1>9 DEF GiveUp, ClaimSwitch, FinishGuarding, FinishChime,
     taskUnchanged
<1>10. CASE DrainMic \/ Requeue \/ EndMic \/ Power \/ Amp \/ Begin \/ PlayRaw
  BY <1>0, <1>10 DEF DrainMic, Requeue, EndMic, Power, Amp, Begin, PlayRaw,
       CaptureGoes, taskUnchanged
<1>11. CASE Playing \/ PlayVerdict \/ Draining \/ StopLocalSpeaker \/ RestartCapture
     \/ Lost
  BY <1>0, <1>11 DEF Playing, PlayVerdict, Draining, StopLocalSpeaker,
       RestartCapture, Lost, CaptureGoes, taskUnchanged
<1>12. CASE Finish
  BY <1>0, <1>12 DEF Finish, FinishChime, taskUnchanged
<1>13. CASE MarkCaptureHardwareFailed
  BY <1>0, <1>13 DEF MarkCaptureHardwareFailed, Fail, Await, Abandon,
       FinishGuarding, FinishChime, CaptureGoes, taskUnchanged
<1>14. CASE RecordingDone \/ PlaybackDone \/ Tick \/ UNCHANGED vars
  BY <1>0, <1>14 DEF RecordingDone, PlaybackDone, Tick, hardwareFrame
<1> QED BY <1>1, <1>2, <1>3, <1>4, <1>5, <1>6, <1>7, <1>8, <1>9, <1>10, <1>11,
     <1>12, <1>13, <1>14 DEF Next, Requester, Capture, PerformCompletionChime

\* and who has the codec.
LEMMA CodecFlagsKeeps == ASSUME IInv, [Next]_vars PROVE CodecFlags'
<1>0. CodecFlags
  BY DEF IInv, TypeOK, CodecFlags
<1> USE DEF CodecFlags, vars, atomics, status, requester, capturer, hardware
<1>1. CASE SetupFails \/ SetupDone
  BY <1>0, <1>1 DEF SetupFails, SetupDone, Goes
<1>2. CASE Request \/ Claim \/ Base
  BY <1>0, <1>2 DEF Request, Claim, Base
<1>3. CASE LookAround \/ LookAgain
  BY <1>0, <1>3 DEF LookAround, LookAgain, Goes
<1>4. CASE Queue
  BY <1>0, <1>4 DEF Queue, Arm, Guard
<1>5. CASE Refuse \/ Withdraw
  BY <1>0, <1>5 DEF Refuse, Withdraw, FinishGuarding, FinishChime
<1>6. CASE Enable \/ Bump \/ Disable
  BY <1>0, <1>6 DEF Enable, Bump, Disable, Wants, loopUnchanged
<1>7. CASE Look
  BY <1>0, <1>7 DEF Look, taskUnchanged, Looks, WhenWanted, WhenQuiet, Verdict
<1>8. CASE Start \/ LoopTop \/ Deadline \/ Wait \/ Recheck \/ Take
  BY <1>0, <1>8 DEF Start, LoopTop, Deadline, Wait, Recheck, Take, CaptureGoes,
       taskUnchanged
<1>9. CASE GiveUp \/ ClaimSwitch
  BY <1>0, <1>9 DEF GiveUp, ClaimSwitch, FinishGuarding, FinishChime,
     taskUnchanged
<1>10. CASE DrainMic \/ Requeue \/ EndMic \/ Power \/ Amp \/ Begin \/ PlayRaw
  BY <1>0, <1>10 DEF DrainMic, Requeue, EndMic, Power, Amp, Begin, PlayRaw,
       CaptureGoes, taskUnchanged
<1>11. CASE Playing \/ PlayVerdict \/ Draining \/ StopLocalSpeaker \/ RestartCapture
     \/ Lost
  BY <1>0, <1>11 DEF Playing, PlayVerdict, Draining, StopLocalSpeaker,
       RestartCapture, Lost, CaptureGoes, taskUnchanged
<1>12. CASE Finish
  BY <1>0, <1>12 DEF Finish, FinishChime, taskUnchanged
<1>13. CASE MarkCaptureHardwareFailed
  BY <1>0, <1>13 DEF MarkCaptureHardwareFailed, Fail, Await, Abandon,
       FinishGuarding, FinishChime, CaptureGoes, taskUnchanged
<1>14. CASE RecordingDone \/ PlaybackDone \/ Tick \/ UNCHANGED vars
  BY <1>0, <1>14 DEF RecordingDone, PlaybackDone, Tick, hardwareFrame
<1> QED BY <1>1, <1>2, <1>3, <1>4, <1>5, <1>6, <1>7, <1>8, <1>9, <1>10, <1>11,
     <1>12, <1>13, <1>14 DEF Next, Requester, Capture, PerformCompletionChime

\* Every step keeps it.
THEOREM NextInv == IInv /\ [Next]_vars => IInv'
BY WordsKeeps, CountersKeeps, HostFlagsKeeps, ReadyFlagsKeeps, TaskFlagsKeeps,
   CodecFlagsKeeps,
   TypeParts, PhaseKeeps, CountKeeps, CodecKeeps, DeadKeeps, PulseKeeps DEF IInv

\* The invariant holds in every state.
LEMMA Inductive == Spec => []IInv
BY InitInv, NextInv, PTL DEF Spec

-----------------------------------------------------------------------------
\* Every variable keeps its type.
THEOREM TypeCorrect == Spec => []TypeOK
<1>1. IInv => TypeOK
  BY DEF IInv
<1> QED BY <1>1, Inductive, PTL

\* Whatever fails and whenever the host comes, microphone and speaker never have
\* the codec together, and a microphone called ready has it (UsbMic.cpp,
\* performCompletionChime and restartCaptureAfterChime).
THEOREM CodecNeverShared == Spec => []CodecExclusive
<1>1. IInv => CodecExclusive
  BY DEF IInv, CodecInv, PhaseInv, Perform, NoMic, Loud, CodecExclusive
<1> QED BY <1>1, Inductive, PTL

\* Every accepted request is ended once, by the loop or by the capture task
\* (finishChime, finishGuardingChime), and the result the loop reads says so.
THEOREM EveryChimeEndsOnce == Spec => []EndsOnce
<1>1. IInv => EndsOnce
  BY DEF IInv, CountInv, PhaseInv, OnItsWay, Arming, EndsOnce, TypeOK, Phases
<1> QED BY <1>1, Inductive, PTL

\* The two looks of requestCompletionChime and markCaptureHardwareFailed at each
\* other's flag leave no chime that both believe the other one ends.
THEOREM NoChimeAbandoned == Spec => []NoneAbandoned
<1>1. IInv => NoneAbandoned
  BY DEF IInv, DeadInv, PhaseInv, Perform, NoMic, Loud, Arming, NoneAbandoned,
     TypeOK,
         Phases
<1> QED BY <1>1, Inductive, PTL

\* No alt1 of the host is missed: a chime is reported as played only if none came
\* between its request and the restored capture (streamRequestedDuringChime reads
\* the level and then the generation).
THEOREM EveryPulseHeard == Spec => NoPulseMissed
<1>1. ASSUME IInv, [Next]_vars
      PROVE  [result' = "played" /\ result # "played" => ~disturbed]_vars
  <2> SUFFICES ASSUME result' = "played", result # "played" PROVE ~disturbed
    OBVIOUS
  <2>1. Finish /\ outcome = "played" /\ cpc = "finish"
    <3> USE DEF status
    <3>1. CASE Refuse
      BY <3>1 DEF Refuse, FinishChime
    <3>2. CASE Withdraw \/ GiveUp \/ MarkCaptureHardwareFailed
      BY <3>2 DEF Withdraw, GiveUp, MarkCaptureHardwareFailed, Fail, Await,
         Abandon,
                  FinishGuarding, FinishChime, CaptureGoes
    <3>3. CASE Finish
      BY <3>3 DEF Finish, FinishChime
    <3>4. CASE Queue
      BY <3>4 DEF Queue, Arm, Guard
    <3>5. CASE SetupFails \/ SetupDone
      BY <3>5 DEF SetupFails, SetupDone, Goes
    <3>6. CASE Request \/ Claim \/ Base
      BY <3>6 DEF Request, Claim, Base
    <3>7. CASE LookAround \/ LookAgain
      BY <3>7 DEF LookAround, LookAgain, Goes
    <3>8. CASE Enable \/ Bump \/ Disable
      BY <3>8 DEF Enable, Bump, Disable, Wants, loopUnchanged
    <3>9. CASE Look
      BY <3>9 DEF Look, taskUnchanged, Looks, WhenWanted, WhenQuiet, Verdict
    <3>10. CASE Start \/ LoopTop \/ Deadline \/ Wait \/ Recheck \/ Take
      BY <3>10 DEF Start, LoopTop, Deadline, Wait, Recheck, Take, CaptureGoes,
           taskUnchanged
    <3>11. CASE DrainMic \/ Requeue \/ EndMic \/ Power \/ Amp \/ Begin \/ PlayRaw
      BY <3>11 DEF DrainMic, Requeue, EndMic, Power, Amp, Begin, PlayRaw,
           CaptureGoes, taskUnchanged
    <3>12. CASE Playing \/ PlayVerdict \/ Draining \/ StopLocalSpeaker \/
         RestartCapture \/ Lost
      BY <3>12 DEF Playing, PlayVerdict, Draining, StopLocalSpeaker,
         RestartCapture,
           Lost, CaptureGoes, taskUnchanged
    <3>13. CASE RecordingDone \/ PlaybackDone \/ Tick \/ UNCHANGED vars
      BY <3>13 DEF RecordingDone, PlaybackDone, Tick, hardwareFrame, vars
    <3>14. CASE ClaimSwitch
      <4>1. UNCHANGED status
        BY <3>14 DEF ClaimSwitch
      <4> QED BY <4>1
    <3>0. Next \/ UNCHANGED vars
      BY <1>1
    <3> QED BY <3>0, <3>1, <3>2, <3>3, <3>4, <3>5, <3>6, <3>7, <3>8, <3>9,
       <3>10,
         <3>11, <3>12, <3>13, <3>14 DEF Next, Requester, Capture,
         PerformCompletionChime
  <2> QED BY <1>1, <2>1 DEF IInv, PulseInv
<1> QED BY <1>1, Inductive, PTL DEF Spec, NoPulseMissed
=============================================================================
