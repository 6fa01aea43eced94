----------------------------- MODULE WatchPower -----------------------------
(***************************************************************************)
(* How the watch's main loop (firmware/stopwatch-c152/src/main.cpp) shares *)
(* one display rail between the red key, the touch panel, the two keys,    *)
(* the agents' news, the dock, idle dimming and raise-to-wake.             *)
(*                                                                         *)
(* The loop is one thread; `turn` is the call it makes next.  Its inputs   *)
(* are everything those calls read: the red key (through PM1's latched     *)
(* click and through direct samples), the panel, the keys, the host's      *)
(* agents, VIN and the accelerometer.  Short times (the click window, the  *)
(* chime, the haptic pulse) are ticks; idle time is the number of the four *)
(* dimming and sleeping thresholds that have passed.                       *)
(***************************************************************************)
EXTENDS Integers

CONSTANTS UsbMic,      \* the build: CODEX_STOPWATCH_USB_MIC
          Window,      \* kPowerButtonDoubleClickMs, in ticks
          ChimeTicks,  \* kCompletionChimeDurationMs, in ticks
          BuzzTicks,   \* the longest haptic pulse, in ticks
          MaxInputs    \* bound on what the wearer and the host do

ASSUME UsbMicAssumption == UsbMic \in BOOLEAN

\* 500 ms against 270 ms: what leaves a chime time to finish.
ASSUME TicksAssumption ==
    /\ Window \in Nat /\ ChimeTicks \in Nat /\ BuzzTicks \in Nat
    /\ ChimeTicks < Window
    /\ MaxInputs \in Nat

VARIABLES
    turn,        \* the loop's next call, or "off"
    inputs,      \* how many inputs there have been
    red,         \* the red key: held down, PM1's latched click, BtnPWR.wasClicked()
    button,      \* what updatePowerButton remembers of a press
    pending,     \* power_button_gesture::Detector::pending_
    windowLeft,  \* ticks until its window has passed
    screen,      \* panel, rail, speaker, chime and motor
    held,        \* leftPressed, rightPressed, touchTracking
    finger,      \* a contact on the panel
    idle,        \* thresholds passed since lastActivityMs
    dock,        \* the debounced dock state
    vin,         \* the cable: "none", "marginal" or "full"
    story        \* history of the red key, see RedDown, RedUp and Register

env == <<vin, finger>>
vars == <<turn, inputs, red, button, pending, windowLeft, screen, held, finger,
          idle, dock, vin, story>>

Turns == {"update", "arbitrate", "touch", "keys", "agents",
          "dock", "dim", "raise", "off", "restart"}
Levels == 0..4

BatteryDim   == 1      \* kBatteryDimAfterMs       120 s
BatterySleep == 2      \* kBatteryDeskSleepAfterMs 300 s
DockDim      == 3      \* kDockDimAfterMs          600 s
DockSleep    == 4      \* kDockDeskSleepAfterMs   1800 s

HandsOn == held.left \/ held.right \/ held.touch

-----------------------------------------------------------------------------
\* The panel, as functions of `screen`.

\* enterDeskSleep.  Only the wireless image has a speaker to suspend and a
\* rail to cut; a chime that is playing is lost with the speaker.
EnterDeskSleepBuzzing(s) == \* Mutated: without stopHaptic
    IF s.asleep \/ HandsOn THEN s ELSE
    [s EXCEPT !.asleep = TRUE, !.brightness = "off",
              !.railOff = ~UsbMic, !.primed = FALSE,
              !.suspended = s.speaker, !.speaker = FALSE, !.chime = 0]
EnterDeskSleep(s) ==
    IF s.asleep \/ HandsOn THEN s ELSE
    [s EXCEPT !.asleep = TRUE, !.brightness = "off", !.motor = 0,
              !.railOff = ~UsbMic, !.primed = FALSE,
              !.suspended = s.speaker, !.speaker = FALSE, !.chime = 0]

\* wakeDeskSleep
WakeDeskSleepUnpowered(s) == \* Mutated: forgets displayRailOff
    IF ~s.asleep THEN s ELSE
    [s EXCEPT !.asleep = FALSE, !.brightness = "active",
              !.speaker = s.suspended, !.suspended = FALSE]
WakeDeskSleep(s) ==
    IF ~s.asleep THEN s ELSE
    [s EXCEPT !.asleep = FALSE, !.brightness = "active", !.railOff = FALSE,
              !.speaker = s.suspended, !.suspended = FALSE]

StartHaptic(s) == [s EXCEPT !.motor = BuzzTicks + 1]   \* 1: due to stop

\* playRaw begins the speaker when it is not running; the USB-mic image hands
\* the chime to its own module.
PlayRaw(s) == IF UsbMic THEN s ELSE [s EXCEPT !.speaker = TRUE, !.chime = ChimeTicks]

\* noteActivity, its part on the panel
Lit(s) == IF s.asleep THEN WakeDeskSleep(s) ELSE [s EXCEPT !.brightness = "active"]

\* noteActivity, its part on the detector and the idle time
ForgetClickPending == \* Mutated: activity does not cancel the click
    /\ idle' = 0
    /\ UNCHANGED <<button, pending, windowLeft>>
ForgetClick ==
    /\ pending' = FALSE
    /\ windowLeft' = 0
    /\ button' = [button EXCEPT !.pendingWoke = FALSE]
    /\ idle' = 0

-----------------------------------------------------------------------------
Buttons == [polling: BOOLEAN, sampleDue: BOOLEAN, pressed: BOOLEAN, woke: BOOLEAN,
            pendingWoke: BOOLEAN]
NoButton(ready) ==
    [polling |-> ready, sampleDue |-> TRUE, pressed |-> FALSE, woke |-> FALSE,
     pendingWoke |-> FALSE]

Screens ==
    [asleep: BOOLEAN, brightness: {"off", "dim", "active"}, railOff: BOOLEAN,
     primed: BOOLEAN, speaker: BOOLEAN, suspended: BOOLEAN,
     chime: 0..ChimeTicks, motor: 0..(BuzzTicks + 1)]
LitScreen ==
    [asleep |-> FALSE, brightness |-> "active", railOff |-> FALSE,
     primed |-> FALSE, speaker |-> FALSE, suspended |-> FALSE,
     chime |-> 0, motor |-> 0]

Docks == [docked: BOOLEAN, known: BOOLEAN, candidate: BOOLEAN, samples: 0..1]

NothingHeld == [left |-> FALSE, right |-> FALSE, touch |-> FALSE]

\* setup() primes the dock's debounce with one forced sample.
FirstDock(cable) ==
    [docked |-> FALSE, known |-> FALSE, candidate |-> cable = "full", samples |-> 1]

NoStory == [dark |-> FALSE, unheard |-> FALSE, twice |-> FALSE]

\* A fresh RAM: setup() before the first loop.  `ready` is whether PM1 took the
\* configuration that makes direct polling safe.
Init ==
    /\ turn = "update"
    /\ inputs = 0
    /\ red = [down |-> FALSE, irq |-> FALSE, clicked |-> FALSE]
    /\ \E ready \in BOOLEAN : button = NoButton(ready)
    /\ pending = FALSE
    /\ windowLeft = 0
    /\ screen = LitScreen
    /\ held = NothingHeld
    /\ finger = FALSE
    /\ idle = 0
    /\ vin \in {"none", "full"}   \* a marginal cable starts like none
    /\ dock = FirstDock(vin)
    /\ story = NoStory

Input == inputs < MaxInputs /\ inputs' = inputs + 1

-----------------------------------------------------------------------------
\* The red key itself.  PM1 latches a click when the key comes up; it moves at
\* any time, but only M5.update() and the direct sample look at it.

RedDown ==
    /\ turn \in {"update", "arbitrate"}
    /\ ~red.down
    /\ Input
    /\ red' = [red EXCEPT !.down = TRUE]
    /\ story' = [story EXCEPT !.dark =
                    screen.asleep /\ ~pending /\ ~red.irq /\ ~red.clicked]
    /\ UNCHANGED <<turn, button, pending, windowLeft, screen, held, idle, dock, env>>

RedUp ==
    /\ turn \in {"update", "arbitrate"}
    /\ red.down
    /\ red' = [red EXCEPT !.down = FALSE, !.irq = TRUE]
    /\ story' = [story EXCEPT !.unheard = TRUE]
    /\ UNCHANGED <<turn, inputs, button, pending, windowLeft, screen, held, idle,
                   dock, env>>

-----------------------------------------------------------------------------
\* enterTravelPowerOff.  When both PM1 commands fail the chip restarts instead.
\* Either way the RAM is gone, so everything in it is what setup() will make it.
TravelPowerOff ==
    /\ turn' \in {"off", "restart"}
    /\ \E ready \in BOOLEAN : button' = NoButton(ready)
    /\ pending' = FALSE
    /\ windowLeft' = 0
    /\ screen' = LitScreen
    /\ held' = NothingHeld
    /\ idle' = 0

\* setup(): the click that started the watch is discarded.
Setup ==
    /\ turn' = "update"
    /\ red' = [red EXCEPT !.irq = FALSE]
    /\ dock' = FirstDock(vin)
    /\ story' = NoStory
    /\ UNCHANGED <<button, pending, windowLeft, screen, held, idle, env>>

Restart == turn = "restart" /\ Setup /\ UNCHANGED inputs
\* The power key or VIN
PowerOn == turn = "off" /\ Input /\ Setup

-----------------------------------------------------------------------------
\* M5.update() moves the latched click into BtnPWR for this loop;
\* updatePowerButton then asks for the delayed single click, before it looks at
\* what the key does now.
Update ==
    /\ turn = "update" /\ turn' = "arbitrate"
    /\ red' = [red EXCEPT !.clicked = red.irq, !.irq = FALSE]
    /\ IF button.polling /\ pending /\ windowLeft = 0
         THEN /\ pending' = FALSE
              /\ screen' = IF button.pendingWoke THEN screen ELSE EnterDeskSleep(screen)
              /\ button' = [button EXCEPT !.pendingWoke = FALSE]
         ELSE UNCHANGED <<pending, screen, button>>
    /\ UNCHANGED <<inputs, windowLeft, held, idle, dock, env, story>>

\* power_button_input::arbitrate.  A direct sample is taken every 25 ms: between
\* two ticks it may be skipped, after a tick it may not.
Arbitrate(sampled) ==
    CASE sampled /\ red.down /\ ~button.pressed -> "begin"
      [] sampled /\ ~red.down /\ button.pressed -> "finish"
      [] sampled /\ red.down /\ button.pressed  -> "none"
      [] OTHER -> IF ~red.clicked THEN "none"
                  ELSE IF button.pressed THEN "finish" ELSE "complete"

\* The wake of a red press or of a latched click.
RedLit(s) == IF s.asleep THEN StartHaptic(WakeDeskSleep(s)) ELSE s

BeginPressLate(b) == \* Mutated: asks after the wake
    /\ button' = [b EXCEPT !.pressed = TRUE, !.woke = FALSE]
    /\ idle' = 0
    /\ screen' = RedLit(screen)
    /\ turn' = "touch"
    /\ UNCHANGED <<pending, windowLeft, held, dock, story>>
BeginPress(b) ==
    /\ button' = [b EXCEPT !.pressed = TRUE, !.woke = screen.asleep]
    /\ idle' = 0
    /\ screen' = RedLit(screen)
    /\ turn' = "touch"
    /\ UNCHANGED <<pending, windowLeft, held, dock, story>>

\* The history: this click has been heard, or had been heard already.
Heard == [story EXCEPT !.unheard = FALSE, !.twice = story.twice \/ ~story.unheard]

\* registerPowerButtonClick, with what the press did to the panel before it
Register(b, woke, s, away) ==
    IF pending /\ windowLeft > 0
      THEN TravelPowerOff /\ story' = Heard /\ UNCHANGED dock
      ELSE /\ turn' = "touch"
           /\ pending' = TRUE
           /\ windowLeft' = Window
           /\ button' = [b EXCEPT !.pressed = FALSE, !.woke = FALSE, !.pendingWoke = woke]
           /\ screen' = s
           /\ idle' = away
           /\ story' = Heard
           /\ UNCHANGED <<held, dock>>

FinishPress(b)   == Register(b, button.woke, screen, idle)
CompleteClick(b) == Register(b, screen.asleep, RedLit(screen), 0)

UpdatePowerButton ==
    /\ turn = "arbitrate"
    /\ button.polling
    /\ red' = [red EXCEPT !.clicked = FALSE]
    /\ \E sampled \in IF button.sampleDue THEN {TRUE} ELSE BOOLEAN :
         LET b == [button EXCEPT !.sampleDue = FALSE]
         IN  CASE Arbitrate(sampled) = "begin"    -> BeginPress(b)
               [] Arbitrate(sampled) = "finish"   -> FinishPress(b)
               [] Arbitrate(sampled) = "complete" -> CompleteClick(b)
               [] OTHER -> /\ turn' = "touch"
                           /\ button' = b
                           /\ UNCHANGED <<pending, windowLeft, screen, held, idle,
                                          dock, story>>
    /\ UNCHANGED <<inputs, env>>

\* Without PM1 a click toggles desk sleep at once.
FallbackPowerButton ==
    /\ turn = "arbitrate"
    /\ ~button.polling
    /\ turn' = "touch"
    /\ red' = [red EXCEPT !.clicked = FALSE]
    /\ screen' = CASE red.clicked /\ screen.asleep  -> WakeDeskSleep(screen)
                   [] red.clicked /\ ~screen.asleep -> EnterDeskSleep(screen)
                   [] OTHER -> screen
    /\ idle' = IF red.clicked /\ screen.asleep THEN 0 ELSE idle
    /\ UNCHANGED <<inputs, button, pending, windowLeft, held, dock, env, story>>

-----------------------------------------------------------------------------
\* The panel and the two keys.  M5.update() sampled them; each phase sees one
\* edge or none.

Skip(from, to) ==
    /\ turn = from
    /\ turn' = to
    /\ UNCHANGED <<inputs, red, button, pending, windowLeft, screen, held, idle, dock,
                   env, story>>

\* What lights the screen other than the red key also ends its story.
NotTheRedKey == story' = [story EXCEPT !.dark = story.dark /\ ~screen.asleep]

\* A contact on a dark panel is swallowed: it lights the screen, answers with a
\* tick and is not tracked.
TouchDown ==
    /\ turn = "touch" /\ turn' = "keys"
    /\ ~finger /\ finger' = TRUE
    /\ Input
    /\ ForgetClick
    /\ NotTheRedKey
    /\ screen' = IF screen.asleep THEN StartHaptic(Lit(screen)) ELSE Lit(screen)
    /\ held' = [held EXCEPT !.touch = ~screen.asleep]
    /\ UNCHANGED <<red, dock, vin>>

\* updateTouchGesture, updateTouchPowerHold: a swipe and the hold prompt buzz.
TouchMoves ==
    /\ turn = "touch" /\ turn' = "keys"
    /\ held.touch
    /\ screen' = StartHaptic(screen)
    /\ UNCHANGED <<inputs, red, button, pending, windowLeft, held, idle, dock, env,
                   story>>

\* Six seconds on Send
TouchPowersOff ==
    /\ turn = "touch"
    /\ held.touch
    /\ TravelPowerOff
    /\ UNCHANGED <<inputs, red, dock, env, story>>

\* finishTouchGesture: a committed touch buzzes and stops the motor itself.
TouchUp ==
    /\ turn = "touch" /\ turn' = "keys"
    /\ finger /\ finger' = FALSE
    /\ \E commits \in BOOLEAN :
         screen' = IF held.touch /\ commits THEN [screen EXCEPT !.motor = 0] ELSE screen
    /\ held' = [held EXCEPT !.touch = FALSE]
    /\ UNCHANGED <<inputs, red, button, pending, windowLeft, idle, dock, vin, story>>

\* The left and the right key, whatever edge M5.update() saw on each.  A press
\* acts even from a dark screen.
Keys ==
    /\ turn = "keys" /\ turn' = "agents"
    /\ \E left, right \in BOOLEAN :
         LET presses == (IF left /\ ~held.left THEN 1 ELSE 0)
                        + (IF right /\ ~held.right THEN 1 ELSE 0)
         IN /\ held' = [held EXCEPT !.left = left, !.right = right]
            /\ inputs' = inputs + presses
            /\ inputs' <= MaxInputs
            /\ IF presses > 0
                 THEN /\ ForgetClick
                      /\ NotTheRedKey
                      /\ screen' = StartHaptic(Lit(screen))
                 ELSE UNCHANGED <<pending, windowLeft, button, idle, story, screen>>
    /\ UNCHANGED <<red, dock, env>>

Touch == TouchDown \/ TouchMoves \/ TouchPowersOff \/ TouchUp \/ Skip("touch", "keys")

-----------------------------------------------------------------------------
\* detectAgentTransitions, on a dirty snapshot

AgentCompletes ==
    /\ turn = "agents" /\ turn' = "dock"
    /\ Input
    /\ ForgetClick
    /\ NotTheRedKey
    /\ screen' = PlayRaw(StartHaptic(Lit(screen)))
    /\ UNCHANGED <<red, held, dock, env>>

AgentAsks ==
    /\ turn = "agents" /\ turn' = "dock"
    /\ Input
    /\ ForgetClick
    /\ NotTheRedKey
    /\ screen' = Lit(screen)
    /\ UNCHANGED <<red, held, dock, env>>

\* observeDockState: two samples that agree and differ from what is known.  VIN
\* has hysteresis: a docked watch accepts a marginal cable.
Candidate == IF dock.known /\ dock.docked THEN vin # "none" ELSE vin = "full"

ObserveDock ==
    /\ turn = "dock" /\ turn' = "dim"
    /\ LET settled == dock.known /\ Candidate = dock.docked
           second  == ~settled /\ dock.samples = 1 /\ dock.candidate = Candidate
           reveals == second /\ Candidate
       IN /\ dock' = CASE settled -> [dock EXCEPT !.samples = 0]
                       [] second  -> [docked |-> Candidate, known |-> TRUE,
                                      candidate |-> Candidate, samples |-> 0]
                       [] OTHER   -> [dock EXCEPT !.candidate = Candidate, !.samples = 1]
          /\ idle' = IF reveals THEN 0 ELSE idle
          /\ screen' = IF reveals THEN WakeDeskSleep(screen) ELSE screen
          /\ IF reveals THEN NotTheRedKey ELSE UNCHANGED story
    /\ UNCHANGED <<inputs, red, button, pending, windowLeft, held, env>>

\* updateIdleDimming: a hand on the watch is continuous use.
DimmedNever(s, away) == \* Mutated: only a battery sleeps
    IF away >= BatterySleep /\ ~dock.docked THEN EnterDeskSleep(s)
    ELSE IF s.asleep THEN s
    ELSE [s EXCEPT !.brightness = IF away >= BatteryDim THEN "dim" ELSE "active"]
Dimmed(s, away) ==
    LET sleepAfter == IF dock.docked THEN DockSleep ELSE BatterySleep
        dimAfter   == IF dock.docked THEN DockDim ELSE BatteryDim
    IN IF away >= sleepAfter THEN EnterDeskSleep(s)
       ELSE IF s.asleep THEN s
       ELSE [s EXCEPT !.brightness = IF away >= dimAfter THEN "dim" ELSE "active"]

UpdateHaptic(s) == IF s.motor = 1 THEN [s EXCEPT !.motor = 0] ELSE s

UpdateIdleDimming ==
    /\ turn = "dim" /\ turn' = "raise"
    /\ idle' = IF HandsOn THEN 0 ELSE idle
    /\ screen' = UpdateHaptic(Dimmed(screen, idle'))
    /\ UNCHANGED <<inputs, red, button, pending, windowLeft, held, dock, env, story>>

\* pollRaiseWake: the first sample after falling asleep only primes the detector.
PrimeRaise ==
    /\ turn = "raise" /\ turn' = "update"
    /\ screen.asleep
    /\ screen' = [screen EXCEPT !.primed = TRUE]
    /\ UNCHANGED <<inputs, red, button, pending, windowLeft, held, idle, dock, env,
                   story>>

Raise ==
    /\ turn = "raise" /\ turn' = "update"
    /\ screen.asleep /\ screen.primed
    /\ Input
    /\ NotTheRedKey
    /\ idle' = 0
    /\ screen' = StartHaptic(WakeDeskSleep(screen))
    /\ UNCHANGED <<red, button, pending, windowLeft, held, dock, env>>

-----------------------------------------------------------------------------
\* Between two passes: delay(8), the clock and the cable.

CableMoves ==
    /\ turn = "update"
    /\ Input
    /\ vin' \in {"none", "marginal", "full"} \ {vin}
    /\ UNCHANGED <<turn, red, button, pending, windowLeft, screen, held, finger, idle,
                   dock, story>>

Less(n, least) == IF n > least THEN n - 1 ELSE n

Tick ==
    /\ turn = "update"
    /\ screen.chime > 0 \/ screen.motor > 1 \/ windowLeft > 0
    /\ windowLeft' = Less(windowLeft, 0)
    /\ screen' = [screen EXCEPT !.chime = Less(screen.chime, 0),
                                !.motor = Less(screen.motor, 1)]
    /\ button' = [button EXCEPT !.sampleDue = TRUE]
    /\ UNCHANGED <<turn, inputs, red, pending, held, idle, dock, env, story>>

\* Minutes pass: whatever was timed in ticks is long over.
Wait ==
    /\ turn = "update"
    /\ screen.chime = 0 /\ screen.motor = 0 /\ ~pending
    /\ idle < DockSleep
    /\ idle' = idle + 1
    /\ button' = [button EXCEPT !.sampleDue = TRUE]
    /\ UNCHANGED <<turn, inputs, red, pending, windowLeft, screen, held, dock,
                   env, story>>

Loop ==
    \/ Restart \/ Update \/ UpdatePowerButton \/ FallbackPowerButton
    \/ Touch \/ Keys
    \/ AgentCompletes \/ AgentAsks \/ Skip("agents", "dock")
    \/ ObserveDock \/ Skip("dock", "dim")
    \/ UpdateIdleDimming
    \/ PrimeRaise \/ Raise \/ Skip("raise", "update")

Next == Loop \/ RedDown \/ RedUp \/ PowerOn \/ CableMoves \/ Tick \/ Wait

\* The loop always runs on and the clock with it; nobody has to touch anything.
Spec == Init /\ [][Next]_vars
FairSpec == Spec /\ WF_vars(Loop) /\ SF_vars(Tick) /\ SF_vars(Wait)

-----------------------------------------------------------------------------
\* State and correctness

\* Every variable keeps its type; the detector's window is only timed while a
\* click is pending.
TypeOK ==
    /\ turn \in Turns
    /\ inputs \in 0..MaxInputs
    /\ red \in [down: BOOLEAN, irq: BOOLEAN, clicked: BOOLEAN]
    /\ button \in Buttons
    /\ pending \in BOOLEAN
    /\ windowLeft \in 0..Window
    /\ screen \in Screens
    /\ held \in [left: BOOLEAN, right: BOOLEAN, touch: BOOLEAN]
    /\ finger \in BOOLEAN
    /\ idle \in Levels
    /\ dock \in Docks
    /\ vin \in {"none", "marginal", "full"}
    /\ story \in [dark: BOOLEAN, unheard: BOOLEAN, twice: BOOLEAN]
    /\ ~pending => windowLeft = 0

\* Whatever the order of key, touch, agent, dock and timeout, the panel is dark
\* exactly while the desk sleep is on, and the shared rail is cut exactly then
\* in the wireless image.
PanelAgrees ==
    /\ screen.asleep <=> screen.brightness = "off"
    /\ screen.railOff <=> screen.asleep /\ ~UsbMic

\* Nothing that hangs on the shared rail runs while it may be cut: no motor, no
\* speaker, and no control is held on a watch that sleeps.
AsleepHandsOff ==
    screen.asleep => /\ ~HandsOn
                     /\ screen.motor = 0
                     /\ ~screen.speaker /\ screen.chime = 0

\* enterDeskSleep ends the speaker, but no click, timeout or undocking cuts a
\* completion chime that is sounding: the chime is activity, and it is shorter
\* than the window a later click has to wait.
ChimeUncut ==
    [][button.polling /\ ~screen.asleep /\ screen'.asleep => screen.chime = 0]_vars

\* A red click that found the display dark lights it, and does not put it back
\* to sleep when its double-click window has passed, whatever was pressed,
\* touched or docked since.  (A click that is counted twice, by the direct sample
\* and by the latch of the next loop, is left out.)
WakingClickKeepsAwake ==
    [][button.polling /\ story.dark /\ ~story.twice /\ turn = "update"
          => screen'.asleep = screen.asleep]_vars

\* When nobody touches it any more the watch goes dark and still, docked or not.
LeftAloneGoesDark ==
    <>[](turn = "off" \/ HandsOn \/ (screen.asleep /\ screen.motor = 0))
=============================================================================
