-------------------------- MODULE WatchPowerProofs ---------------------------
(***************************************************************************)
(* Proofs about WatchPower: for either build, any length of the click      *)
(* window, the chime and the buzz, and any number of inputs, the panel     *)
(* agrees with the desk sleep, a sleeping watch holds nothing on the       *)
(* shared rail, no desk sleep cuts a chime short, and a click that woke    *)
(* the watch does not put it back to sleep.                                *)
(***************************************************************************)
EXTENDS WatchPower, TLAPS

\* What the properties say of the panel alone.
Good(s) ==
  /\ s \in Screens
  /\ s.asleep <=> s.brightness = "off"
  /\ s.railOff <=> s.asleep /\ ~UsbMic
  /\ s.asleep => s.motor = 0 /\ ~s.speaker /\ s.chime = 0

\* What the panel's functions keep: a chime that sounds is never lengthened.
LEMMA WakeGood ==
  ASSUME NEW s, Good(s)
  PROVE  /\ Good(WakeDeskSleep(s))
         /\ ~WakeDeskSleep(s).asleep
         /\ WakeDeskSleep(s).chime = s.chime
BY UsbMicAssumption DEF Good, Screens, WakeDeskSleep

\* Lighting the screen wakes the watch and leaves the chime alone.
LEMMA LitGood ==
  ASSUME NEW s, Good(s)
  PROVE  /\ Good(Lit(s))
         /\ ~Lit(s).asleep
         /\ Lit(s).chime = s.chime
BY WakeGood, UsbMicAssumption DEF Good, Screens, Lit

\* The motor runs only on a watch that is awake.
LEMMA HapticGood ==
  ASSUME NEW s, Good(s), ~s.asleep
  PROVE  /\ Good(StartHaptic(s))
         /\ ~StartHaptic(s).asleep
         /\ StartHaptic(s).chime = s.chime
BY UsbMicAssumption, TicksAssumption DEF Good, Screens, StartHaptic

\* Desk sleep turns off all that hangs on the rail, with no control held.
LEMMA SleepGood ==
  ASSUME NEW s, Good(s)
  PROVE  /\ Good(EnterDeskSleep(s))
         /\ EnterDeskSleep(s).asleep => s.asleep \/ ~HandsOn
         /\ EnterDeskSleep(s).chime \in {0, s.chime}
<1>1. CASE s.asleep \/ HandsOn
  BY <1>1 DEF EnterDeskSleep
<1>2. CASE ~(s.asleep \/ HandsOn)
  <2> DEFINE t == EnterDeskSleep(s)
  <2>1. t = [s EXCEPT !.asleep = TRUE, !.brightness = "off", !.motor = 0,
              !.railOff = ~UsbMic, !.primed = FALSE,
              !.suspended = s.speaker, !.speaker = FALSE, !.chime = 0]
    BY <1>2 DEF EnterDeskSleep
  <2> HIDE DEF t
  <2>2. t \in Screens
    <3>1. t = [asleep |-> TRUE, brightness |-> "off", railOff |-> ~UsbMic,
               primed |-> FALSE, speaker |-> FALSE, suspended |-> s.speaker,
               chime |-> 0, motor |-> 0]
      BY <2>1 DEF Good, Screens
    <3>2. s.speaker \in BOOLEAN
      BY DEF Good, Screens
    <3> QED BY <3>1, <3>2, TicksAssumption DEF Screens
  <2>3. /\ t.asleep /\ t.brightness = "off" /\ t.railOff = ~UsbMic
        /\ t.motor = 0 /\ ~t.speaker /\ t.chime = 0
    BY <2>1 DEF Good, Screens
  <2> QED BY <1>2, <2>2, <2>3, UsbMicAssumption DEF Good, t
<1> QED BY <1>1, <1>2

\* A chime is begun only on a watch that is awake.
LEMMA PlayGood ==
  ASSUME NEW s, Good(s), ~s.asleep
  PROVE  Good(PlayRaw(s)) /\ ~PlayRaw(s).asleep
<1>1. CASE UsbMic
  BY <1>1 DEF PlayRaw
<1>2. CASE ~UsbMic
  <2>1. PlayRaw(s) = [s EXCEPT !.speaker = TRUE, !.chime = ChimeTicks]
    BY <1>2 DEF PlayRaw
  <2>2. PlayRaw(s) \in Screens
    <3>1. PlayRaw(s) = [asleep |-> s.asleep, brightness |-> s.brightness,
            railOff |-> s.railOff, primed |-> s.primed, speaker |-> TRUE,
            suspended |-> s.suspended, chime |-> ChimeTicks, motor |-> s.motor]
      BY <2>1 DEF Good, Screens
    <3> QED BY <3>1, TicksAssumption DEF Good, Screens
  <2>3. /\ PlayRaw(s).asleep = s.asleep /\ PlayRaw(s).brightness = s.brightness
        /\ PlayRaw(s).railOff = s.railOff
    BY <2>1 DEF Good, Screens
  <2> QED BY <2>2, <2>3 DEF Good
<1> QED BY <1>1, <1>2

\* Idle time dims, or puts the watch to sleep as EnterDeskSleep does.
LEMMA DimmedGood ==
  ASSUME NEW s, Good(s), NEW away
  PROVE  /\ Good(Dimmed(s, away))
         /\ Dimmed(s, away).asleep => s.asleep \/ ~HandsOn
         /\ Dimmed(s, away).chime \in {0, s.chime}
<1>1. ~s.asleep => /\ Good([s EXCEPT !.brightness = "dim"])
                   /\ Good([s EXCEPT !.brightness = "active"])
  BY DEF Good, Screens
<1>2. /\ [s EXCEPT !.brightness = "dim"].asleep = s.asleep
      /\ [s EXCEPT !.brightness = "active"].asleep = s.asleep
      /\ [s EXCEPT !.brightness = "dim"].chime = s.chime
      /\ [s EXCEPT !.brightness = "active"].chime = s.chime
  BY DEF Good, Screens
<1> QED BY <1>1, <1>2, SleepGood DEF Dimmed

\* The end of a buzz changes only the motor.
LEMMA UpdateHapticGood ==
  ASSUME NEW s, Good(s)
  PROVE  /\ Good(UpdateHaptic(s))
         /\ UpdateHaptic(s).asleep = s.asleep
         /\ UpdateHaptic(s).chime = s.chime
BY TicksAssumption DEF Good, Screens, UpdateHaptic

\* The screen after a start is good.
LEMMA LitScreenGood == Good(LitScreen) /\ ~LitScreen.asleep /\ LitScreen.chime = 0
BY TicksAssumption DEF Good, Screens, LitScreen

-----------------------------------------------------------------------------
\* What keeps a chime from being cut: while a click is undecided, its window
\* outlasts the chime, and a chime that sounds is recent activity.
ChimeCovered ==
  /\ pending => screen.chime <= windowLeft
  /\ screen.chime > 0 => idle = 0

IInv == TypeOK /\ PanelAgrees /\ AsleepHandsOff /\ ChimeCovered

\* The invariant in the parts that a step is proved to keep one by one: what is
\* counted, what is not, how click and chime are timed, and the panel.
Counts == inputs \in 0..MaxInputs /\ windowLeft \in 0..Window /\ idle \in Levels

Kinds ==
  /\ turn \in Turns
  /\ red \in [down: BOOLEAN, irq: BOOLEAN, clicked: BOOLEAN]
  /\ button \in Buttons
  /\ pending \in BOOLEAN
  /\ held \in [left: BOOLEAN, right: BOOLEAN, touch: BOOLEAN]
  /\ finger \in BOOLEAN
  /\ dock \in Docks
  /\ vin \in {"none", "marginal", "full"}
  /\ story \in [dark: BOOLEAN, unheard: BOOLEAN, twice: BOOLEAN]

Timed == (~pending => windowLeft = 0) /\ ChimeCovered

Panel == Good(screen) /\ (screen.asleep => ~HandsOn)

\* The invariant is its parts.
LEMMA Parts == IInv <=> Counts /\ Kinds /\ Timed /\ Panel
BY DEF IInv, TypeOK, PanelAgrees, AsleepHandsOff, Good, Counts, Kinds, Timed,
   Panel

\* So it is in the next state.
LEMMA PartsNext == IInv' <=> Counts' /\ Kinds' /\ Timed' /\ Panel'
BY DEF IInv, TypeOK, PanelAgrees, AsleepHandsOff, Good, Counts, Kinds, Timed,
   Panel

\* What the panel needs of a step.
LEMMA PanelNext ==
  ASSUME Good(screen'), screen'.asleep => ~HandsOn' PROVE Panel'
BY DEF Panel, Good

\* Setup leaves the watch lit, with nothing held.
THEOREM InitInv == Init => IInv
<1> SUFFICES ASSUME Init PROVE IInv
  OBVIOUS
<1>1. Good(screen) /\ ~screen.asleep /\ screen.chime = 0
  BY LitScreenGood DEF Init
<1>2. Kinds
  <2>1. PICK ready \in BOOLEAN : button = NoButton(ready)
    BY DEF Init
  <2>2. button \in Buttons
    BY <2>1 DEF NoButton, Buttons
  <2>3. dock \in Docks
    BY DEF Init, FirstDock, Docks
  <2>4. red \in [down: BOOLEAN, irq: BOOLEAN, clicked: BOOLEAN]
    BY DEF Init
  <2>5. /\ held \in [left: BOOLEAN, right: BOOLEAN, touch: BOOLEAN]
        /\ story \in [dark: BOOLEAN, unheard: BOOLEAN, twice: BOOLEAN]
    BY DEF Init, NothingHeld, NoStory
  <2>6. /\ turn \in Turns /\ pending \in BOOLEAN /\ finger \in BOOLEAN
        /\ vin \in {"none", "marginal", "full"}
    BY DEF Init, Turns
  <2> QED BY <2>2, <2>3, <2>4, <2>5, <2>6 DEF Kinds
<1>3. Counts
  <2>1. inputs = 0 /\ windowLeft = 0 /\ idle = 0
    BY DEF Init
  <2> QED BY <2>1, TicksAssumption DEF Counts, Levels
<1>4. Timed /\ Panel
  BY <1>1 DEF Init, Timed, ChimeCovered, Panel
<1> QED BY <1>2, <1>3, <1>4, Parts

-----------------------------------------------------------------------------
\* The red key only moves itself, and the history.
LEMMA RedDownKeeps == ASSUME IInv, RedDown PROVE IInv'
<1> USE DEF RedDown, env
<1>0. Counts /\ Kinds /\ Timed /\ Panel
  BY Parts
<1>1. Kinds'
  BY <1>0 DEF Kinds, Turns
<1>2. Counts'
  BY <1>0, TicksAssumption DEF Counts, Input, Levels
<1>3. Timed'
  BY <1>0 DEF Timed, ChimeCovered
<1>4. Panel'
  BY <1>0 DEF Panel, HandsOn, Good
<1> QED BY <1>1, <1>2, <1>3, <1>4, PartsNext

\* The red key is let go.
LEMMA RedUpKeeps == ASSUME IInv, RedUp PROVE IInv'
<1> USE DEF RedUp, env
<1>0. Counts /\ Kinds /\ Timed /\ Panel
  BY Parts
<1>1. Kinds'
  BY <1>0 DEF Kinds, Turns
<1>2. Counts'
  BY <1>0, TicksAssumption DEF Counts, Input, Levels
<1>3. Timed'
  BY <1>0 DEF Timed, ChimeCovered
<1>4. Panel'
  BY <1>0 DEF Panel, HandsOn, Good
<1> QED BY <1>1, <1>2, <1>3, <1>4, PartsNext

\* A cable is plugged in or out.
LEMMA CableMovesKeeps == ASSUME IInv, CableMoves PROVE IInv'
<1> USE DEF CableMoves, env
<1>0. Counts /\ Kinds /\ Timed /\ Panel
  BY Parts
<1>1. Kinds'
  BY <1>0 DEF Kinds, Turns
<1>2. Counts'
  BY <1>0, TicksAssumption DEF Counts, Input, Levels
<1>3. Timed'
  BY <1>0 DEF Timed, ChimeCovered
<1>4. Panel'
  BY <1>0 DEF Panel, HandsOn, Good
<1> QED BY <1>1, <1>2, <1>3, <1>4, PartsNext

\* Setup leaves every variable well typed.
LEMMA SetupKinds == ASSUME Kinds, Setup, UNCHANGED <<finger, vin>> PROVE Kinds'
<1>1. FirstDock(vin) \in Docks
  BY DEF FirstDock, Docks
<1>2. NoStory \in [dark: BOOLEAN, unheard: BOOLEAN, twice: BOOLEAN]
  BY DEF NoStory
<1> QED BY <1>1, <1>2 DEF Setup, Kinds, Turns, env

\* The watch restarts.
LEMMA RestartKeeps == ASSUME IInv, Restart PROVE IInv'
<1> USE DEF Restart, Setup, env
<1>0. Counts /\ Kinds /\ Timed /\ Panel
  BY Parts
<1>1. Kinds'
  BY <1>0, SetupKinds DEF Setup, env
<1>2. Counts'
  BY <1>0, TicksAssumption DEF Counts, Input, Levels
<1>3. Timed'
  BY <1>0 DEF Timed, ChimeCovered
<1>4. Panel'
  BY <1>0 DEF Panel, HandsOn, Good
<1> QED BY <1>1, <1>2, <1>3, <1>4, PartsNext

\* The watch is powered on.
LEMMA PowerOnKeeps == ASSUME IInv, PowerOn PROVE IInv'
<1> USE DEF PowerOn, Setup, env
<1>0. Counts /\ Kinds /\ Timed /\ Panel
  BY Parts
<1>1. Kinds'
  BY <1>0, SetupKinds DEF Setup, env
<1>2. Counts'
  BY <1>0, TicksAssumption DEF Counts, Input, Levels
<1>3. Timed'
  BY <1>0 DEF Timed, ChimeCovered
<1>4. Panel'
  BY <1>0 DEF Panel, HandsOn, Good
<1> QED BY <1>1, <1>2, <1>3, <1>4, PartsNext

\* Powering off leaves nothing of what the RAM held.
LEMMA PowerOffKeeps ==
  ASSUME IInv, TravelPowerOff, UNCHANGED <<inputs, finger, vin, dock>>,
         red' \in [down: BOOLEAN, irq: BOOLEAN, clicked: BOOLEAN],
         story' \in [dark: BOOLEAN, unheard: BOOLEAN, twice: BOOLEAN]
  PROVE  IInv'
<1> USE DEF TravelPowerOff
<1>0. Counts /\ Kinds /\ Timed /\ Panel
  BY Parts
<1>1. Kinds'
  <2>1. button' \in Buttons
    BY DEF NoButton, Buttons
  <2>2. held' \in [left: BOOLEAN, right: BOOLEAN, touch: BOOLEAN]
    BY DEF NothingHeld
  <2> QED BY <1>0, <2>1, <2>2 DEF Kinds, Turns
<1>2. Counts'
  BY <1>0, TicksAssumption DEF Counts, Levels
<1>3. Timed' /\ Panel'
  BY LitScreenGood DEF Timed, ChimeCovered, Panel
<1> QED BY <1>1, <1>2, <1>3, PartsNext

\* The single click that is due, and the sleep it asks for.
LEMMA UpdateKeeps == ASSUME IInv, Update PROVE IInv'
<1> USE DEF Update, env
<1>0. Counts /\ Kinds /\ Timed /\ Panel
  BY Parts
<1>a. /\ Good(screen')
      /\ screen'.asleep => screen.asleep \/ ~HandsOn
      /\ screen'.chime \in {0, screen.chime}
  BY <1>0, SleepGood DEF Panel
<1>1. Kinds'
  <2>1. button' \in Buttons
    BY <1>0 DEF Kinds, Buttons
  <2>2. red' \in [down: BOOLEAN, irq: BOOLEAN, clicked: BOOLEAN]
    BY <1>0 DEF Kinds
  <2> QED BY <1>0, <2>1, <2>2 DEF Kinds, Turns
<1>2. Counts'
  BY <1>0, TicksAssumption DEF Counts, Input, Levels
<1>3. Timed'
  <2>1. CASE button.polling /\ pending /\ windowLeft = 0
    <3>1. pending' = FALSE /\ windowLeft' = 0 /\ idle' = idle
      BY <2>1
    <3> QED BY <1>0, <1>a, <3>1 DEF Timed, ChimeCovered
  <2>2. CASE ~(button.polling /\ pending /\ windowLeft = 0)
    BY <1>0, <2>2 DEF Timed, ChimeCovered
  <2> QED BY <2>1, <2>2
<1>4. Panel'
  <2>1. HandsOn' = HandsOn
    BY DEF HandsOn
  <2>2. screen.asleep => ~HandsOn
    BY <1>0 DEF Panel
  <2>3. screen'.asleep => ~HandsOn'
    BY <1>a, <2>1, <2>2
  <2> QED BY <1>a, <2>3, PanelNext
<1> QED BY <1>1, <1>2, <1>3, <1>4, PartsNext

\* A press or a click on the red key.
LEMMA RedLitGood ==
  ASSUME NEW s, Good(s)
  PROVE  Good(RedLit(s)) /\ ~RedLit(s).asleep /\ RedLit(s).chime = s.chime
BY WakeGood, HapticGood DEF RedLit

\* The history stays well typed when a click is heard.
LEMMA HeardTyped ==
  ASSUME Kinds PROVE Heard \in [dark: BOOLEAN, unheard: BOOLEAN, twice: BOOLEAN]
BY DEF Kinds, Heard

\* A press of the red key lights the screen.
LEMMA BeginPressKeeps ==
  ASSUME IInv, NEW b \in Buttons, BeginPress(b),
         red' \in [down: BOOLEAN, irq: BOOLEAN, clicked: BOOLEAN],
         UNCHANGED <<inputs, finger, vin>>
  PROVE  IInv'
<1> USE DEF BeginPress
<1>0. Counts /\ Kinds /\ Timed /\ Panel
  BY Parts
<1>a. Good(screen') /\ ~screen'.asleep /\ screen'.chime = screen.chime
  BY <1>0, RedLitGood DEF Panel
<1>1. Kinds'
  <2>1. screen.asleep \in BOOLEAN
    BY <1>0 DEF Panel, Good, Screens
  <2>2. button' \in Buttons
    BY <2>1 DEF Buttons
  <2> QED BY <1>0, <2>2 DEF Kinds, Turns
<1>2. Counts'
  BY <1>0 DEF Counts, Levels
<1>3. Timed'
  BY <1>0, <1>a DEF Timed, ChimeCovered
<1>4. Panel'
  BY <1>a, PanelNext
<1> QED BY <1>1, <1>2, <1>3, <1>4, PartsNext

\* A click is the second, which powers off, or opens a window.
LEMMA RegisterKeeps ==
  ASSUME IInv, NEW b \in Buttons, NEW woke \in BOOLEAN, NEW s, NEW away \in {0, idle},
         Good(s), s.asleep => ~HandsOn, s.chime = screen.chime,
         Register(b, woke, s, away),
         red' \in [down: BOOLEAN, irq: BOOLEAN, clicked: BOOLEAN],
         UNCHANGED <<inputs, finger, vin>>
  PROVE  IInv'
<1>0. Counts /\ Kinds /\ Timed /\ Panel
  BY Parts
<1>1. CASE pending /\ windowLeft > 0
  <2>1. TravelPowerOff /\ story' = Heard /\ UNCHANGED dock
    BY <1>1 DEF Register
  <2> QED BY <1>0, <2>1, HeardTyped, PowerOffKeeps
<1>2. CASE ~(pending /\ windowLeft > 0)
  <2>0. /\ turn' = "touch" /\ pending' = TRUE /\ windowLeft' = Window
        /\ button' = [b EXCEPT !.pressed = FALSE, !.woke = FALSE, !.pendingWoke = woke]
        /\ screen' = s /\ idle' = away /\ story' = Heard
        /\ UNCHANGED <<held, dock>>
    BY <1>2 DEF Register
  <2>1. Kinds'
    <3>1. button' \in Buttons
      BY <2>0 DEF Buttons
    <3> QED BY <1>0, <2>0, <3>1, HeardTyped DEF Kinds, Turns
  <2>2. Counts'
    BY <1>0, <2>0, TicksAssumption DEF Counts, Levels
  <2>3. Timed'
    <3>1. screen.chime \in 0..ChimeTicks
      BY <1>0 DEF Panel, Good, Screens
    <3> QED BY <1>0, <2>0, <3>1, TicksAssumption DEF Timed, ChimeCovered,
       Counts, Levels
  <2>4. Panel'
    <3>1. HandsOn' = HandsOn
      BY <2>0 DEF HandsOn
    <3> QED BY <2>0, <3>1, PanelNext
  <2> QED BY <2>1, <2>2, <2>3, <2>4, PartsNext
<1> QED BY <1>1, <1>2

\* The red key is read through PM1's latch.
LEMMA UpdatePowerButtonKeeps == ASSUME IInv, UpdatePowerButton PROVE IInv'
<1>0. Counts /\ Kinds /\ Timed /\ Panel
  BY Parts
<1> DEFINE b == [button EXCEPT !.sampleDue = FALSE]
<1>1. /\ red' \in [down: BOOLEAN, irq: BOOLEAN, clicked: BOOLEAN]
      /\ UNCHANGED <<inputs, finger, vin>>
  BY <1>0 DEF UpdatePowerButton, Kinds, env
<1>2. b \in Buttons /\ button.woke \in BOOLEAN
  BY <1>0 DEF Kinds, Buttons
<1>3. /\ Good(screen)
      /\ screen.asleep => ~HandsOn
      /\ screen.asleep \in BOOLEAN
  BY <1>0 DEF Panel, Good, Screens
<1>4. \/ BeginPress(b) \/ FinishPress(b) \/ CompleteClick(b)
      \/ /\ turn' = "touch" /\ button' = b
         /\ UNCHANGED <<pending, windowLeft, screen, held, idle, dock, story>>
  BY DEF UpdatePowerButton
<1>5. CASE BeginPress(b)
  BY <1>1, <1>2, <1>5, BeginPressKeeps
<1>6. CASE FinishPress(b)
  BY <1>1, <1>2, <1>3, <1>6, RegisterKeeps DEF FinishPress
<1>7. CASE CompleteClick(b)
  <2>1. /\ Good(RedLit(screen))
        /\ RedLit(screen).asleep => ~HandsOn
        /\ RedLit(screen).chime = screen.chime
    BY <1>3, RedLitGood
  <2> QED BY <1>1, <1>2, <1>3, <1>7, <2>1, RegisterKeeps DEF CompleteClick
<1>8. CASE /\ turn' = "touch" /\ button' = b
           /\ UNCHANGED <<pending, windowLeft, screen, held, idle, dock, story>>
  <2>1. Kinds'
    BY <1>0, <1>1, <1>2, <1>8 DEF Kinds, Turns
  <2>2. Counts' /\ Timed'
    BY <1>0, <1>1, <1>8 DEF Counts, Timed, ChimeCovered
  <2>3. Panel'
    BY <1>0, <1>8 DEF Panel, Good, HandsOn
  <2> QED BY <2>1, <2>2, <2>3, PartsNext
<1> QED BY <1>4, <1>5, <1>6, <1>7, <1>8

\* The red key is read directly.
LEMMA FallbackPowerButtonKeeps == ASSUME IInv, FallbackPowerButton PROVE IInv'
<1> USE DEF FallbackPowerButton, env
<1>0. Counts /\ Kinds /\ Timed /\ Panel
  BY Parts
<1>a. /\ Good(screen')
      /\ screen'.asleep => screen.asleep \/ ~HandsOn
      /\ screen'.chime \in {0, screen.chime}
  BY <1>0, SleepGood, WakeGood DEF Panel
<1>1. Kinds'
  <2>1. red' \in [down: BOOLEAN, irq: BOOLEAN, clicked: BOOLEAN]
    BY <1>0 DEF Kinds
  <2> QED BY <1>0, <2>1 DEF Kinds, Turns
<1>2. Counts'
  BY <1>0, TicksAssumption DEF Counts, Input, Levels
<1>3. Timed'
  <2>1. pending' = pending /\ windowLeft' = windowLeft /\ idle' \in {0, idle}
    OBVIOUS
  <2>2. /\ screen.chime \in 0..ChimeTicks
        /\ windowLeft \in 0..Window /\ idle \in Levels
    BY <1>0 DEF Panel, Good, Screens, Counts
  <2> HIDE DEF FallbackPowerButton
  <2> QED BY <1>0, <1>a, <2>1, <2>2, TicksAssumption DEF Timed, ChimeCovered,
     Levels
<1>4. Panel'
  <2>1. HandsOn' = HandsOn
    BY DEF HandsOn
  <2>2. screen.asleep => ~HandsOn
    BY <1>0 DEF Panel
  <2>3. screen'.asleep => ~HandsOn'
    BY <1>a, <2>1, <2>2
  <2> QED BY <1>a, <2>3, PanelNext
<1> QED BY <1>1, <1>2, <1>3, <1>4, PartsNext

-----------------------------------------------------------------------------
\* Whatever is pressed or happens ends the undecided click and lights the screen.
LEMMA HistoryTyped ==
  ASSUME Kinds, NotTheRedKey
  PROVE  story' \in [dark: BOOLEAN, unheard: BOOLEAN, twice: BOOLEAN]
BY DEF Kinds, NotTheRedKey

\* What ends the undecided click lights the screen.
LEMMA ActivityKeeps ==
  ASSUME IInv, ForgetClick, NotTheRedKey,
         inputs' \in 0..MaxInputs, turn' \in Turns, finger' \in BOOLEAN,
         held' \in [left: BOOLEAN, right: BOOLEAN, touch: BOOLEAN],
         UNCHANGED <<red, dock, vin>>, Good(screen'), ~screen'.asleep
  PROVE  IInv'
<1>0. Counts /\ Kinds
  BY Parts
<1>1. Kinds'
  <2>1. button' \in Buttons
    BY <1>0 DEF Kinds, Buttons, ForgetClick
  <2> QED BY <1>0, <2>1, HistoryTyped DEF Kinds, ForgetClick
<1>2. Counts'
  BY <1>0, TicksAssumption DEF Counts, ForgetClick, Levels
<1>3. Timed'
  BY DEF ForgetClick, Timed, ChimeCovered
<1> QED BY <1>1, <1>2, <1>3, PanelNext, PartsNext

\* A touch begins.
LEMMA TouchDownKeeps == ASSUME IInv, TouchDown PROVE IInv'
<1>0. Counts /\ Kinds /\ Panel
  BY Parts
<1>1. Good(screen') /\ ~screen'.asleep
  BY <1>0, LitGood, HapticGood DEF TouchDown, Panel
<1>2. inputs' \in 0..MaxInputs
  BY <1>0, TicksAssumption DEF Counts, TouchDown, Input
<1>3. screen.asleep \in BOOLEAN
  BY <1>0 DEF Panel, Good, Screens
<1>4. held' \in [left: BOOLEAN, right: BOOLEAN, touch: BOOLEAN]
  BY <1>0, <1>3 DEF Kinds, TouchDown
<1> QED BY <1>1, <1>2, <1>4, ActivityKeeps DEF TouchDown, Turns

\* The two keys are pressed or let go.
LEMMA KeysKeep == ASSUME IInv, Keys PROVE IInv'
<1>0. Counts /\ Kinds /\ Timed /\ Panel
  BY Parts
<1>1. PICK left \in BOOLEAN, right \in BOOLEAN :
        LET presses == (IF left /\ ~held.left THEN 1 ELSE 0)
                       + (IF right /\ ~held.right THEN 1 ELSE 0)
        IN /\ held' = [held EXCEPT !.left = left, !.right = right]
           /\ inputs' = inputs + presses
           /\ inputs' <= MaxInputs
           /\ IF presses > 0
                THEN /\ ForgetClick
                     /\ NotTheRedKey
                     /\ screen' = StartHaptic(Lit(screen))
                ELSE UNCHANGED <<pending, windowLeft, button, idle, story, screen>>
  BY DEF Keys
<1>2. /\ turn' \in Turns /\ UNCHANGED <<red, dock, finger, vin>>
      /\ finger' \in BOOLEAN
  BY <1>0 DEF Keys, Turns, env, Kinds
<1>3. held' \in [left: BOOLEAN, right: BOOLEAN, touch: BOOLEAN]
  BY <1>0, <1>1 DEF Kinds
<1>4. inputs' \in 0..MaxInputs
  BY <1>0, <1>1, TicksAssumption DEF Counts
<1>5. CASE (left /\ ~held.left) \/ (right /\ ~held.right)
  <2>1. ForgetClick /\ NotTheRedKey /\ screen' = StartHaptic(Lit(screen))
    BY <1>1, <1>5
  <2>2. Good(screen') /\ ~screen'.asleep
    BY <1>0, <2>1, LitGood, HapticGood DEF Panel
  <2> QED BY <1>2, <1>3, <1>4, <2>1, <2>2, ActivityKeeps
<1>6. CASE ~((left /\ ~held.left) \/ (right /\ ~held.right))
  <2>1. UNCHANGED <<pending, windowLeft, button, idle, story, screen>>
    BY <1>1, <1>6
  <2>2. HandsOn' => HandsOn
    BY <1>0, <1>1, <1>6 DEF HandsOn, Kinds
  <2>3. Kinds' /\ Timed'
    BY <1>0, <1>2, <1>3, <2>1 DEF Kinds, Timed, ChimeCovered
  <2>4. Counts'
    BY <1>0, <1>4, <2>1 DEF Counts
  <2>5. Panel'
    BY <1>0, <2>1, <2>2 DEF Panel, Good
  <2> QED BY <2>3, <2>4, <2>5, PartsNext
<1> QED BY <1>5, <1>6

\* An agent completes, or asks.
LEMMA AgentsKeep == ASSUME IInv, AgentCompletes \/ AgentAsks PROVE IInv'
<1>0. Counts /\ Kinds /\ Panel
  BY Parts
<1>1. Good(screen') /\ ~screen'.asleep
  BY <1>0, LitGood, HapticGood, PlayGood DEF AgentCompletes, AgentAsks, Panel
<1>2. inputs' \in 0..MaxInputs
  BY <1>0, TicksAssumption DEF Counts, AgentCompletes, AgentAsks, Input
<1>3. /\ held' \in [left: BOOLEAN, right: BOOLEAN, touch: BOOLEAN]
      /\ turn' \in Turns /\ finger' \in BOOLEAN
      /\ ForgetClick /\ NotTheRedKey /\ UNCHANGED <<red, dock, vin>>
  BY <1>0 DEF Kinds, AgentCompletes, AgentAsks, Turns, env
<1> QED BY <1>1, <1>2, <1>3, ActivityKeeps

-----------------------------------------------------------------------------
\* What leaves the clock, the click and the keys as they are: a step on the
\* panel's state or on the panel alone, which never sounds a new chime.
LEMMA PanelStepKeeps ==
  ASSUME IInv, UNCHANGED <<red, button, pending, windowLeft, vin>>,
         turn' \in Turns, inputs' \in 0..MaxInputs, finger' \in BOOLEAN,
         held' \in [left: BOOLEAN, right: BOOLEAN, touch: BOOLEAN],
         dock' \in Docks,
         story' \in [dark: BOOLEAN, unheard: BOOLEAN, twice: BOOLEAN],
         idle' \in {0, idle},
         Good(screen'), screen'.chime \in {0, screen.chime},
         screen'.asleep => ~HandsOn'
  PROVE  IInv'
<1>0. Counts /\ Kinds /\ Timed /\ Panel
  BY Parts
<1>1. Kinds'
  BY <1>0 DEF Kinds
<1>2. Counts'
  BY <1>0 DEF Counts, Levels
<1>3. Timed'
  <2>1. /\ screen.chime \in 0..ChimeTicks
        /\ windowLeft \in 0..Window
    BY <1>0 DEF Panel, Good, Screens, Counts
  <2> QED BY <1>0, <2>1, TicksAssumption DEF Timed, ChimeCovered
<1> QED BY <1>1, <1>2, <1>3, PanelNext, PartsNext

\* A touch moves.
LEMMA TouchMovesKeeps == ASSUME IInv, TouchMoves PROVE IInv'
<1>0. Counts /\ Kinds /\ Panel
  BY Parts
<1>1. ~screen.asleep
  BY <1>0 DEF TouchMoves, Panel, HandsOn
<1>2. Good(screen') /\ ~screen'.asleep /\ screen'.chime = screen.chime
  BY <1>0, <1>1, HapticGood DEF TouchMoves, Panel
<1>3. /\ UNCHANGED <<red, button, pending, windowLeft, vin, inputs, held, idle, dock,
                     finger, story>>
      /\ turn' \in Turns
  BY DEF TouchMoves, env, Turns
<1>4. inputs \in 0..MaxInputs
  BY <1>0 DEF Counts
<1> QED BY <1>0, <1>2, <1>3, <1>4, PanelStepKeeps DEF Kinds

\* A touch powers the watch off.
LEMMA TouchPowersOffKeeps == ASSUME IInv, TouchPowersOff PROVE IInv'
BY Parts, PowerOffKeeps DEF TouchPowersOff, env, Kinds

\* A touch ends.
LEMMA TouchUpKeeps == ASSUME IInv, TouchUp PROVE IInv'
<1>0. Counts /\ Kinds /\ Panel
  BY Parts
<1>1. PICK commits \in BOOLEAN :
        screen' = IF held.touch /\ commits THEN [screen EXCEPT !.motor = 0] ELSE screen
  BY DEF TouchUp
<1>2. Good([screen EXCEPT !.motor = 0])
  BY <1>0, TicksAssumption DEF Panel, Good, Screens
<1>3. /\ Good(screen') /\ screen'.chime = screen.chime
      /\ screen'.asleep = screen.asleep
  BY <1>0, <1>1, <1>2 DEF Panel, Good, Screens
<1>4. /\ held' = [held EXCEPT !.touch = FALSE]
      /\ UNCHANGED <<red, button, pending, windowLeft, vin, inputs, idle, dock, story>>
      /\ turn' \in Turns /\ finger' \in BOOLEAN
  BY DEF TouchUp, Turns
<1>5. held' \in [left: BOOLEAN, right: BOOLEAN, touch: BOOLEAN]
  BY <1>0, <1>4 DEF Kinds
<1>6. screen'.asleep => ~HandsOn'
  <2>1. HandsOn' => HandsOn
    BY <1>0, <1>4 DEF HandsOn, Kinds
  <2> QED BY <1>0, <1>3, <2>1 DEF Panel
<1>7. inputs \in 0..MaxInputs
  BY <1>0 DEF Counts
<1> QED BY <1>0, <1>3, <1>4, <1>5, <1>6, <1>7, PanelStepKeeps DEF Kinds

\* A call of the loop that finds nothing to do.
LEMMA SkipKeeps ==
  ASSUME IInv, NEW from \in Turns, NEW to \in Turns, Skip(from, to) PROVE IInv'
<1>0. Counts /\ Kinds /\ Timed /\ Panel
  BY Parts
<1>1. /\ UNCHANGED <<inputs, red, button, pending, windowLeft, screen, held, idle, dock,
                     vin, finger, story>>
      /\ turn' \in Turns
  BY DEF Skip, env
<1>2. Counts' /\ Kinds'
  BY <1>0, <1>1 DEF Counts, Kinds
<1>3. Timed' /\ Panel'
  BY <1>0, <1>1 DEF Timed, ChimeCovered, Panel, Good, HandsOn
<1> QED BY <1>2, <1>3, PartsNext

\* A first sample of the cable is well typed.
LEMMA SampleTyped ==
  ASSUME NEW d \in Docks, NEW c \in BOOLEAN
  PROVE  [d EXCEPT !.candidate = c, !.samples = 1] \in Docks
<1>1. [d EXCEPT !.candidate = c] \in Docks
  BY DEF Docks
<1>2. \A e \in Docks : [e EXCEPT !.samples = 1] \in Docks
  BY DEF Docks
<1>3. [d EXCEPT !.candidate = c, !.samples = 1]
        = [[d EXCEPT !.candidate = c] EXCEPT !.samples = 1]
  BY DEF Docks
<1> QED BY <1>1, <1>2, <1>3

\* The dock is observed, and revealed after two equal samples.
LEMMA ObserveDockKeeps == ASSUME IInv, ObserveDock PROVE IInv'
<1>0. Counts /\ Kinds /\ Panel
  BY Parts
<1> DEFINE settled == dock.known /\ Candidate = dock.docked
           second  == ~settled /\ dock.samples = 1 /\ dock.candidate = Candidate
           reveals == second /\ Candidate
<1>1. /\ dock' = CASE settled -> [dock EXCEPT !.samples = 0]
                    [] second  -> [docked |-> Candidate, known |-> TRUE,
                                   candidate |-> Candidate, samples |-> 0]
                    [] OTHER   -> [dock EXCEPT !.candidate = Candidate, !.samples = 1]
      /\ idle' = IF reveals THEN 0 ELSE idle
      /\ screen' = IF reveals THEN WakeDeskSleep(screen) ELSE screen
      /\ IF reveals THEN NotTheRedKey ELSE UNCHANGED story
      /\ UNCHANGED <<inputs, red, button, pending, windowLeft, held, vin, finger>>
      /\ turn' \in Turns
  BY DEF ObserveDock, env, Turns
<1>2. dock' \in Docks
  <2>1. Candidate \in BOOLEAN
    BY <1>0 DEF Candidate, Kinds, Docks
  <2>2. dock \in Docks
    BY <1>0 DEF Kinds
  <2>3. [dock EXCEPT !.samples = 0] \in Docks
    BY <2>2 DEF Docks
  <2>4. [docked |-> Candidate, known |-> TRUE, candidate |-> Candidate, samples |-> 0]
          \in Docks
    BY <2>1 DEF Docks
  <2>5. [dock EXCEPT !.candidate = Candidate, !.samples = 1] \in Docks
    BY <2>1, <2>2, SampleTyped
  <2>6. second => ~settled
    OBVIOUS
  <2>7. settled \in BOOLEAN /\ second \in BOOLEAN
    OBVIOUS
  <2> HIDE DEF settled, second
  <2> QED BY <1>1, <2>3, <2>4, <2>5, <2>6, <2>7
<1>3. story' \in [dark: BOOLEAN, unheard: BOOLEAN, twice: BOOLEAN]
  BY <1>0, <1>1, HistoryTyped DEF Kinds
<1>4. /\ Good(screen') /\ screen'.chime = screen.chime
      /\ screen'.asleep => screen.asleep
  <2> HIDE DEF reveals
  <2> QED BY <1>0, <1>1, WakeGood DEF Panel
<1>5. screen'.asleep => ~HandsOn'
  BY <1>0, <1>1, <1>4 DEF Panel, HandsOn
<1>6. inputs' \in 0..MaxInputs /\ finger' \in BOOLEAN /\ idle' \in {0, idle}
      /\ held' \in [left: BOOLEAN, right: BOOLEAN, touch: BOOLEAN]
  BY <1>0, <1>1 DEF Counts, Kinds
<1> HIDE DEF settled, second, reveals
<1> QED BY <1>1, <1>2, <1>3, <1>4, <1>5, <1>6, PanelStepKeeps

\* Idle time is compared with its thresholds.
LEMMA UpdateIdleDimmingKeeps == ASSUME IInv, UpdateIdleDimming PROVE IInv'
<1>0. Counts /\ Kinds /\ Panel
  BY Parts
<1> DEFINE d == Dimmed(screen, idle')
<1>1. /\ Good(d) /\ d.chime \in {0, screen.chime}
      /\ d.asleep => screen.asleep \/ ~HandsOn
  BY <1>0, DimmedGood DEF Panel
<1>2. /\ screen' = UpdateHaptic(d)
      /\ idle' \in {0, idle}
      /\ UNCHANGED <<inputs, red, button, pending, windowLeft, held, dock, vin, finger,
                     story>>
      /\ turn' \in Turns
  BY DEF UpdateIdleDimming, env, Turns
<1> HIDE DEF d
<1>3. /\ Good(screen') /\ screen'.chime \in {0, screen.chime}
      /\ screen'.asleep => screen.asleep \/ ~HandsOn
  BY <1>1, <1>2, UpdateHapticGood
<1>4. screen'.asleep => ~HandsOn'
  BY <1>0, <1>2, <1>3 DEF Panel, HandsOn
<1>5. inputs' \in 0..MaxInputs
  BY <1>0, <1>2 DEF Counts
<1> QED BY <1>0, <1>2, <1>3, <1>4, <1>5, PanelStepKeeps DEF Kinds

-----------------------------------------------------------------------------
\* Raise to wake
LEMMA PrimeRaiseKeeps == ASSUME IInv, PrimeRaise PROVE IInv'
<1>0. Counts /\ Kinds /\ Panel
  BY Parts
<1>1. /\ Good(screen') /\ screen'.chime = screen.chime
      /\ screen'.asleep = screen.asleep
  BY <1>0 DEF PrimeRaise, Panel, Good, Screens
<1>2. /\ UNCHANGED <<inputs, red, button, pending, windowLeft, held, idle, dock,
                     vin, finger, story>>
      /\ turn' \in Turns
  BY DEF PrimeRaise, env, Turns
<1>3. screen'.asleep => ~HandsOn'
  BY <1>0, <1>1, <1>2 DEF Panel, HandsOn
<1>4. inputs' \in 0..MaxInputs
  BY <1>0, <1>2 DEF Counts
<1> QED BY <1>0, <1>1, <1>2, <1>3, <1>4, PanelStepKeeps DEF Kinds

\* The accelerometer wakes the watch.
LEMMA RaiseKeeps == ASSUME IInv, Raise PROVE IInv'
<1>0. Counts /\ Kinds /\ Panel
  BY Parts
<1>1. Good(screen') /\ ~screen'.asleep /\ screen'.chime = screen.chime
  BY <1>0, WakeGood, HapticGood DEF Raise, Panel
<1>2. /\ UNCHANGED <<red, button, pending, windowLeft, held, dock, vin, finger>>
      /\ idle' = 0 /\ turn' \in Turns /\ NotTheRedKey
  BY DEF Raise, env, Turns
<1>3. inputs' \in 0..MaxInputs
  BY <1>0, TicksAssumption DEF Counts, Raise, Input
<1>4. story' \in [dark: BOOLEAN, unheard: BOOLEAN, twice: BOOLEAN]
  BY <1>0, <1>2, HistoryTyped
<1>5. /\ finger' \in BOOLEAN /\ dock' \in Docks
      /\ held' \in [left: BOOLEAN, right: BOOLEAN, touch: BOOLEAN]
  BY <1>0, <1>2 DEF Kinds
<1> QED BY <1>1, <1>2, <1>3, <1>4, <1>5, PanelStepKeeps

-----------------------------------------------------------------------------
\* A tick shortens the chime and the window together.
LEMMA TickKeeps == ASSUME IInv, Tick PROVE IInv'
<1>0. Counts /\ Kinds /\ Timed /\ Panel
  BY Parts
<1>1. /\ screen' = [screen EXCEPT !.chime = Less(screen.chime, 0),
                                  !.motor = Less(screen.motor, 1)]
      /\ windowLeft' = Less(windowLeft, 0)
      /\ button' = [button EXCEPT !.sampleDue = TRUE]
      /\ UNCHANGED <<turn, inputs, red, pending, held, idle, dock, vin, finger, story>>
  BY DEF Tick, env
<1>2. /\ screen \in Screens
      /\ screen.chime \in 0..ChimeTicks /\ screen.motor \in 0..(BuzzTicks + 1)
  BY <1>0 DEF Panel, Good, Screens
<1>3. /\ Less(screen.chime, 0) \in 0..ChimeTicks
      /\ Less(screen.motor, 1) \in 0..(BuzzTicks + 1)
      /\ screen.chime = 0 => Less(screen.chime, 0) = 0
      /\ screen.motor = 0 => Less(screen.motor, 1) = 0
  BY <1>2, TicksAssumption DEF Less
<1>4. /\ screen' \in Screens
      /\ screen'.asleep = screen.asleep /\ screen'.brightness = screen.brightness
      /\ screen'.railOff = screen.railOff /\ screen'.speaker = screen.speaker
      /\ screen'.chime = Less(screen.chime, 0) /\ screen'.motor = Less(screen.motor, 1)
  BY <1>1, <1>2, <1>3 DEF Screens
<1>5. Panel'
  <2>1. Good(screen')
    BY <1>0, <1>3, <1>4 DEF Panel, Good
  <2>2. screen'.asleep => ~HandsOn'
    BY <1>0, <1>1, <1>4 DEF Panel, HandsOn
  <2> QED BY <2>1, <2>2, PanelNext
<1>6. Counts'
  BY <1>0, <1>1, TicksAssumption DEF Counts, Less
<1>7. Timed'
  BY <1>0, <1>1, <1>2, <1>4, TicksAssumption DEF Timed, ChimeCovered, Counts,
     Less
<1>8. Kinds'
  <2>1. button' \in Buttons
    BY <1>0, <1>1 DEF Kinds, Buttons
  <2> QED BY <1>0, <1>1, <2>1 DEF Kinds
<1> QED BY <1>5, <1>6, <1>7, <1>8, PartsNext

\* Time passes, and what it ends.
LEMMA WaitKeeps == ASSUME IInv, Wait PROVE IInv'
<1>0. Counts /\ Kinds /\ Timed /\ Panel
  BY Parts
<1>1. /\ screen.chime = 0 /\ ~pending /\ idle < DockSleep /\ idle' = idle + 1
      /\ button' = [button EXCEPT !.sampleDue = TRUE]
      /\ UNCHANGED <<turn, inputs, red, pending, windowLeft, screen, held, dock,
                     vin, finger, story>>
  BY DEF Wait, env
<1>2. Counts'
  BY <1>0, <1>1 DEF Counts, Levels, DockSleep
<1>3. Kinds'
  <2>1. button' \in Buttons
    BY <1>0, <1>1 DEF Kinds, Buttons
  <2> QED BY <1>0, <1>1, <2>1 DEF Kinds
<1>4. Timed' /\ Panel'
  BY <1>0, <1>1 DEF Timed, ChimeCovered, Panel, Good, HandsOn
<1> QED BY <1>2, <1>3, <1>4, PartsNext

-----------------------------------------------------------------------------
\* Every step of loop() and every input keeps it.
THEOREM NextInv == IInv /\ [Next]_vars => IInv'
<1> SUFFICES ASSUME IInv, [Next]_vars PROVE IInv'
  OBVIOUS
<1>1. CASE Restart \/ PowerOn \/ RedDown \/ RedUp \/ CableMoves
  BY <1>1, RestartKeeps, PowerOnKeeps, RedDownKeeps, RedUpKeeps, CableMovesKeeps
<1>2. CASE Update \/ UpdatePowerButton \/ FallbackPowerButton
  BY <1>2, UpdateKeeps, UpdatePowerButtonKeeps, FallbackPowerButtonKeeps
<1>3. CASE Touch
  <2>1. CASE TouchDown \/ TouchMoves \/ TouchPowersOff \/ TouchUp
    BY <2>1, TouchDownKeeps, TouchMovesKeeps, TouchPowersOffKeeps, TouchUpKeeps
  <2>2. CASE Skip("touch", "keys")
    BY <2>2, SkipKeeps DEF Turns
  <2> QED BY <1>3, <2>1, <2>2 DEF Touch
<1>4. CASE Keys \/ AgentCompletes \/ AgentAsks \/ ObserveDock
  BY <1>4, KeysKeep, AgentsKeep, ObserveDockKeeps
<1>5. CASE Skip("agents", "dock") \/ Skip("dock", "dim") \/ Skip("raise", "update")
  BY <1>5, SkipKeeps DEF Turns
<1>6. CASE UpdateIdleDimming \/ PrimeRaise \/ Raise
  BY <1>6, UpdateIdleDimmingKeeps, PrimeRaiseKeeps, RaiseKeeps
<1>7. CASE Tick \/ Wait
  BY <1>7, TickKeeps, WaitKeeps
<1>8. CASE UNCHANGED vars
  <2>1. UNCHANGED <<turn, inputs, red, button, pending, windowLeft, screen, held,
                    finger, idle, dock, vin, story>>
    BY <1>8 DEF vars
  <2> QED BY <2>1 DEF IInv, TypeOK, PanelAgrees, AsleepHandsOff, ChimeCovered,
     HandsOn
<1> QED BY <1>1, <1>2, <1>3, <1>4, <1>5, <1>6, <1>7, <1>8 DEF Next, Loop

\* The invariant holds in every state.
LEMMA Inductive == Spec => []IInv
BY InitInv, NextInv, PTL DEF Spec

\* Every variable keeps its type, and no window runs without a pending click.
THEOREM TypeCorrect == Spec => []TypeOK
<1>1. IInv => TypeOK
  BY DEF IInv
<1> QED BY <1>1, Inductive, PTL

\* The panel is dark exactly while desk sleep is on (enterDeskSleep,
\* wakeDeskSleep), and the shared rail is cut exactly then, in either image.
THEOREM PanelAlwaysAgrees == Spec => []PanelAgrees
<1>1. IInv => PanelAgrees
  BY DEF IInv
<1> QED BY <1>1, Inductive, PTL

\* Nothing that hangs on the shared rail runs while the watch sleeps: the motor is
\* still, the speaker ended, and neither key nor the panel is held.
THEOREM HandsOffAsleep == Spec => []AsleepHandsOff
<1>1. IInv => AsleepHandsOff
  BY DEF IInv
<1> QED BY <1>1, Inductive, PTL

-----------------------------------------------------------------------------
\* The steps that can put the watch to sleep come after the chime: a click whose
\* window has passed, which ChimeCovered makes longer than the chime, and a
\* timeout, which a sounding chime resets.
LEMMA StepUncut ==
  ASSUME IInv, [Next]_vars, button.polling, ~screen.asleep, screen'.asleep
  PROVE  screen.chime = 0
<1>0. Counts /\ Kinds /\ Timed /\ Panel
  BY Parts
<1>a. Good(screen) /\ screen.chime \in 0..ChimeTicks
  BY <1>0 DEF Panel, Good, Screens
<1>b. UNCHANGED screen => FALSE
  OBVIOUS
<1>c. ~LitScreen.asleep
  BY LitScreenGood
<1>1. CASE Restart \/ PowerOn \/ RedDown \/ RedUp \/ CableMoves \/ Wait
  BY <1>1, <1>b DEF Restart, PowerOn, Setup, RedDown, RedUp, CableMoves, Wait
<1>2. CASE Update
  <2>1. pending /\ windowLeft = 0
    BY <1>2, <1>b DEF Update
  <2> QED BY <1>0, <1>a, <2>1, TicksAssumption DEF Timed, ChimeCovered
<1>3. CASE UpdatePowerButton
  <2> DEFINE b == [button EXCEPT !.sampleDue = FALSE]
  <2>1. \/ BeginPress(b) \/ FinishPress(b) \/ CompleteClick(b) \/ UNCHANGED screen
    BY <1>3 DEF UpdatePowerButton
  <2>2. screen' \in {RedLit(screen), screen, LitScreen}
    BY <2>1 DEF BeginPress, FinishPress, CompleteClick, Register, TravelPowerOff
  <2> QED BY <1>a, <1>c, <2>2, RedLitGood
<1>4. CASE FallbackPowerButton
  BY <1>4 DEF FallbackPowerButton
<1>5. CASE Touch
  <2>1. Good(Lit(screen)) /\ ~Lit(screen).asleep
    BY <1>a, LitGood
  <2>2. CASE TouchDown
    BY <2>1, <2>2, HapticGood DEF TouchDown
  <2>3. CASE TouchMoves
    BY <1>a, <2>3, HapticGood DEF TouchMoves
  <2>4. CASE TouchPowersOff
    BY <1>c, <2>4 DEF TouchPowersOff, TravelPowerOff
  <2>5. CASE TouchUp
    BY <1>a, <2>5 DEF TouchUp, Good, Screens
  <2>6. CASE Skip("touch", "keys")
    BY <2>6 DEF Skip
  <2> QED BY <1>5, <2>2, <2>3, <2>4, <2>5, <2>6 DEF Touch
<1>6. CASE Keys
  <2>1. screen' \in {StartHaptic(Lit(screen)), screen}
    BY <1>6 DEF Keys
  <2> QED BY <1>a, <2>1, LitGood, HapticGood
<1>7. CASE AgentCompletes \/ AgentAsks
  BY <1>7, <1>a, LitGood, HapticGood, PlayGood DEF AgentCompletes, AgentAsks
<1>8. CASE ObserveDock
  <2>1. screen' \in {WakeDeskSleep(screen), screen}
    BY <1>8 DEF ObserveDock
  <2> QED BY <1>a, <2>1, WakeGood
<1>9. CASE Skip("agents", "dock") \/ Skip("dock", "dim") \/ Skip("raise", "update")
  BY <1>9 DEF Skip
<1>10. CASE UpdateIdleDimming
  <2>1. screen' = UpdateHaptic(Dimmed(screen, idle')) /\ idle' \in {0, idle}
    BY <1>10 DEF UpdateIdleDimming
  <2>2. Dimmed(screen, idle').asleep
    BY <1>a, <2>1, DimmedGood, UpdateHapticGood
  <2>3. [screen EXCEPT !.brightness = "dim"].asleep = screen.asleep
        /\ [screen EXCEPT !.brightness = "active"].asleep = screen.asleep
    BY <1>a DEF Good, Screens
  <2>4. idle' >= DockSleep \/ idle' >= BatterySleep
    BY <2>2, <2>3 DEF Dimmed
  <2>5. idle # 0
    BY <2>1, <2>4 DEF DockSleep, BatterySleep
  <2> QED BY <1>0, <1>a, <2>5, TicksAssumption DEF Timed, ChimeCovered
<1>11. CASE PrimeRaise \/ Raise
  BY <1>11 DEF PrimeRaise, Raise
<1>12. CASE Tick
  BY <1>12, <1>a DEF Tick, Good, Screens
<1> QED BY <1>b, <1>1, <1>2, <1>3, <1>4, <1>5, <1>6, <1>7, <1>8, <1>9, <1>10,
   <1>11,
           <1>12 DEF Next, Loop, vars

\* No click, timeout or undocking cuts a completion chime that is sounding, on a
\* watch whose red key is polled (enterDeskSleep ends the speaker).
THEOREM ChimeNeverCut == Spec => ChimeUncut
<1>1. IInv /\ [Next]_vars =>
        [button.polling /\ ~screen.asleep /\ screen'.asleep => screen.chime = 0]_vars
  BY StepUncut
<1> QED BY <1>1, Inductive, PTL DEF Spec, ChimeUncut

-----------------------------------------------------------------------------
\* The red press that found the watch dark.

\* It has not begun yet: the panel is still dark and no click is pending.
NotBegun == ~button.pressed /\ screen.asleep /\ ~pending

\* The press lit the panel, and knows it.
Begun == button.pressed /\ button.woke /\ ~pending

\* Its click is heard: it is the last, and if it is still pending it knows that
\* the press lit the panel.
ClickHeard ==
  ~button.pressed /\ ~red.down /\ ~story.unheard /\ (pending => button.pendingWoke)

\* A press that ended has left its click, which is consumed in the pass that
\* reads it, and a watch that is off has no press.
PressEnds ==
  /\ button.polling /\ button.pressed /\ ~red.down => red.irq \/ red.clicked
  /\ turn # "arbitrate" => ~red.clicked
  /\ turn \in {"off", "restart"} => ~button.pressed

WakeInv ==
  /\ PressEnds
  /\ button.polling /\ story.dark /\ turn \notin {"off", "restart"} =>
       /\ ~(red.down /\ (red.irq \/ red.clicked))
       /\ ~story.twice => NotBegun \/ Begun \/ ClickHeard

\* What every step is told about the records it copies.
LEMMA KindsFields ==
  ASSUME IInv
  PROVE  /\ red \in [down: BOOLEAN, irq: BOOLEAN, clicked: BOOLEAN]
         /\ button \in Buttons
         /\ story \in [dark: BOOLEAN, unheard: BOOLEAN, twice: BOOLEAN]
         /\ screen \in Screens /\ Good(screen)
BY Parts DEF Kinds, Panel, Good

\* A step that leaves the red key and its press alone keeps the invariant, if
\* what it lights ends the story and what it does to a pending click is to forget it.
LEMMA WakeFrame ==
  ASSUME WakeInv, red' = red,
         button'.polling = button.polling, button'.pressed = button.pressed,
         button'.woke = button.woke,
         {turn, turn'} \cap {"off", "restart", "arbitrate"} = {},
         story'.unheard = story.unheard, story'.twice = story.twice,
         story'.dark => story.dark /\ (screen.asleep => screen'.asleep),
         pending' => pending /\ button'.pendingWoke = button.pendingWoke
  PROVE  WakeInv'
<1>1. PressEnds'
  BY DEF WakeInv, PressEnds
<1>2. ASSUME button'.polling, story'.dark PROVE ~(red'.down /\ (red'.irq \/ red'.clicked))
  BY <1>2 DEF WakeInv
<1>3. ASSUME button'.polling, story'.dark, ~story'.twice
      PROVE  (NotBegun \/ Begun \/ ClickHeard)'
  <2>1. NotBegun \/ Begun \/ ClickHeard
    BY <1>3 DEF WakeInv
  <2>2. screen.asleep => screen'.asleep
    BY <1>3
  <2> QED BY <2>1, <2>2 DEF NotBegun, Begun, ClickHeard
<1> QED BY <1>1, <1>2, <1>3 DEF WakeInv

\* Activity forgets a pending click, and ends the story of a panel it lights.
LEMMA WakeActivity ==
  ASSUME IInv, WakeInv, ForgetClick, NotTheRedKey, red' = red, ~screen'.asleep,
         {turn, turn'} \cap {"off", "restart", "arbitrate"} = {}
  PROVE  WakeInv'
<1>1. /\ button'.polling = button.polling /\ button'.pressed = button.pressed
      /\ button'.woke = button.woke /\ ~pending'
  BY KindsFields DEF ForgetClick, Buttons
<1>2. /\ story'.unheard = story.unheard /\ story'.twice = story.twice
      /\ (story'.dark => story.dark /\ ~screen.asleep)
  BY KindsFields DEF NotTheRedKey
<1> QED BY <1>1, <1>2, WakeFrame

\* The red key going down begins the story, and up leaves a click to be heard.
LEMMA RedWake == ASSUME IInv, WakeInv, RedDown \/ RedUp PROVE WakeInv'
<1>0. /\ UNCHANGED <<turn, button, pending, screen>> /\ turn \notin {"off", "restart"}
  BY DEF RedDown, RedUp
<1>1. CASE RedDown
  <2>1. /\ red'.down /\ red'.irq = red.irq /\ red'.clicked = red.clicked /\ ~red.down
        /\ story'.dark => screen.asleep /\ ~pending /\ ~red.irq /\ ~red.clicked
    BY <1>1, KindsFields DEF RedDown
  <2>2. button.polling /\ story'.dark => ~button.pressed
    BY <2>1 DEF WakeInv, PressEnds
  <2> QED BY <1>0, <2>1, <2>2 DEF WakeInv, PressEnds, NotBegun
<1>2. CASE RedUp
  <2>1. /\ ~red'.down /\ red'.irq /\ red.down /\ red'.clicked = red.clicked
        /\ story'.dark = story.dark /\ story'.twice = story.twice
    BY <1>2, KindsFields DEF RedUp
  <2> QED BY <1>0, <2>1 DEF WakeInv, PressEnds, NotBegun, Begun, ClickHeard
<1> QED BY <1>1, <1>2

\* M5.update() hands the latched click on; a pending one that is due knows
\* whether it may put the watch to sleep.
LEMMA UpdateWake == ASSUME IInv, WakeInv, Update PROVE WakeInv'
<1>1. /\ red'.down = red.down /\ red'.clicked = red.irq /\ ~red'.irq
      /\ story' = story /\ turn = "update" /\ turn' = "arbitrate"
  BY KindsFields DEF Update
<1>2. /\ button'.polling = button.polling /\ button'.pressed = button.pressed
      /\ button'.woke = button.woke
      /\ pending' => pending /\ button'.pendingWoke = button.pendingWoke
  BY KindsFields DEF Update, Buttons
<1>3. screen.asleep => screen'.asleep
  BY DEF Update, EnterDeskSleep
<1> QED BY <1>1, <1>2, <1>3 DEF WakeInv, PressEnds, NotBegun, Begun, ClickHeard

\* The click that is heard ends the press, and carries on what the press knew.
LEMMA RegisterWake ==
  ASSUME IInv, WakeInv, NEW b \in Buttons, NEW woke \in BOOLEAN, NEW s, NEW away,
         Register(b, woke, s, away), turn = "arbitrate",
         b.polling = button.polling, button.polling,
         red'.down = red.down, red'.irq = red.irq, ~red'.clicked,
         story.dark => ~red.down,
         story.dark /\ ~story.twice /\ story.unheard => woke
  PROVE  WakeInv'
<1>0. /\ story'.dark = story.dark /\ ~story'.unheard
      /\ story'.twice = (story.twice \/ ~story.unheard)
  BY KindsFields DEF Register, Heard
<1>1. CASE pending /\ windowLeft > 0
  <2>1. TravelPowerOff
    BY <1>1 DEF Register
  <2>2. turn' \in {"off", "restart"} /\ ~button'.pressed
    BY <2>1 DEF TravelPowerOff, NoButton
  <2> QED BY <2>2 DEF WakeInv, PressEnds
<1>2. CASE ~(pending /\ windowLeft > 0)
  <2>1. /\ turn' = "touch" /\ pending' = TRUE
        /\ button' = [b EXCEPT !.pressed = FALSE, !.woke = FALSE, !.pendingWoke = woke]
    BY <1>2 DEF Register
  <2>2. /\ ~button'.pressed /\ button'.pendingWoke = woke /\ button'.polling = b.polling
    BY <2>1 DEF Buttons
  <2>3. story'.dark /\ ~story'.twice => woke
    BY <1>0, KindsFields
  <2>4. story'.dark => ~red'.down
    BY <1>0
  <2> QED BY <1>0, <2>1, <2>2, <2>3, <2>4 DEF WakeInv, PressEnds, ClickHeard
<1> QED BY <1>1, <1>2

\* Whichever of the direct sample and the latch is first, the press that finds
\* the panel dark knows it.
LEMMA UpdatePowerButtonWake ==
  ASSUME IInv, WakeInv, UpdatePowerButton
  PROVE  WakeInv'
<1> DEFINE b == [button EXCEPT !.sampleDue = FALSE]
<1>0. /\ b \in Buttons /\ b.polling = button.polling /\ b.pressed = button.pressed
      /\ b.woke = button.woke /\ b.pendingWoke = button.pendingWoke
  BY KindsFields DEF Buttons
<1>1. /\ turn = "arbitrate" /\ button.polling
      /\ red'.down = red.down /\ red'.irq = red.irq /\ ~red'.clicked
  BY KindsFields DEF UpdatePowerButton
<1>2. PICK sampled \in BOOLEAN :
         CASE Arbitrate(sampled) = "begin"    -> BeginPress(b)
           [] Arbitrate(sampled) = "finish"   -> FinishPress(b)
           [] Arbitrate(sampled) = "complete" -> CompleteClick(b)
           [] OTHER -> /\ turn' = "touch"
                       /\ button' = b
                       /\ UNCHANGED <<pending, windowLeft, screen, held, idle,
                                      dock, story>>
  BY DEF UpdatePowerButton
<1> HIDE DEF b
<1>3. /\ Arbitrate(sampled) = "begin" => red.down /\ ~button.pressed
      /\ Arbitrate(sampled) = "finish" =>
           button.pressed /\ (~red.down \/ red.clicked)
      /\ Arbitrate(sampled) = "complete" => ~button.pressed /\ red.clicked
      /\ Arbitrate(sampled) \notin {"begin", "finish", "complete"} =>
           /\ ~red.clicked \/ red.down
           /\ button.pressed /\ ~red.down => ~sampled
  BY DEF Arbitrate
<1>4. CASE Arbitrate(sampled) = "begin"
  <2>1. BeginPress(b) /\ red.down /\ ~button.pressed
    BY <1>2, <1>3, <1>4
  <2>2. /\ button' = [b EXCEPT !.pressed = TRUE, !.woke = screen.asleep]
        /\ turn' = "touch" /\ UNCHANGED <<pending, story>>
    BY <2>1 DEF BeginPress
  <2>3. /\ button'.pressed /\ button'.woke = screen.asleep
        /\ button'.polling = button.polling
    BY <1>0, <2>2 DEF Buttons
  <2> QED BY <1>1, <2>1, <2>2, <2>3 DEF WakeInv, PressEnds, NotBegun, Begun,
     ClickHeard
<1>5. CASE Arbitrate(sampled) = "finish"
  <2>1. Register(b, button.woke, screen, idle) /\ button.pressed
        /\ (~red.down \/ red.clicked)
    BY <1>2, <1>3, <1>5 DEF FinishPress
  <2>2. story.dark => ~red.down
    BY <1>1, <2>1 DEF WakeInv
  <2>3. story.dark /\ ~story.twice /\ story.unheard => button.woke
    BY <1>1, <2>1 DEF WakeInv, NotBegun, Begun, ClickHeard
  <2>4. button.woke \in BOOLEAN
    BY KindsFields DEF Buttons
  <2>5. PICK s : s = screen
    OBVIOUS
  <2>6. PICK woke \in BOOLEAN : woke = button.woke
    BY <2>4
  <2> QED BY <1>0, <1>1, <2>1, <2>2, <2>3, <2>5, <2>6, RegisterWake
<1>6. CASE Arbitrate(sampled) = "complete"
  <2>1. Register(b, screen.asleep, RedLit(screen), 0) /\ ~button.pressed /\ red.clicked
    BY <1>2, <1>3, <1>6 DEF CompleteClick
  <2>2. story.dark => ~red.down
    BY <1>1, <2>1 DEF WakeInv
  <2>3. story.dark /\ ~story.twice /\ story.unheard => screen.asleep
    BY <1>1, <2>1 DEF WakeInv, NotBegun, Begun, ClickHeard
  <2>4. screen.asleep \in BOOLEAN
    BY KindsFields DEF Screens
  <2>6. PICK woke \in BOOLEAN : woke = screen.asleep
    BY <2>4
  <2> QED BY <1>0, <1>1, <2>1, <2>2, <2>3, <2>6, RegisterWake
<1>7. CASE Arbitrate(sampled) \notin {"begin", "finish", "complete"}
  <2>1. turn' = "touch" /\ button' = b /\ UNCHANGED <<pending, screen, story>>
    BY <1>2, <1>7
  <2>2. button.pressed /\ ~red.down => red.irq
    BY <1>1, <1>3, <1>7 DEF WakeInv, PressEnds
  <2> QED BY <1>0, <1>1, <2>1, <2>2 DEF WakeInv, PressEnds, NotBegun, Begun,
     ClickHeard
<1> QED BY <1>4, <1>5, <1>6, <1>7

\* Every other step of loop() leaves the red key alone, or ends its story.
LEMMA LoopWake ==
  ASSUME IInv, WakeInv, IInv',
         \/ Restart \/ PowerOn \/ FallbackPowerButton \/ CableMoves \/ Tick \/ Wait
         \/ Touch \/ Keys \/ AgentCompletes \/ AgentAsks \/ ObserveDock
         \/ UpdateIdleDimming \/ PrimeRaise \/ Raise
  PROVE  WakeInv'
<1>0. Good(screen) /\ screen \in Screens /\ button \in Buttons
  BY KindsFields
<1>1. CASE Restart \/ PowerOn
  <2>1. /\ turn \in {"off", "restart"} /\ turn' = "update" /\ button' = button
        /\ red' = [red EXCEPT !.irq = FALSE] /\ story' = NoStory
    BY <1>1 DEF Restart, PowerOn, Setup
  <2>2. ~story'.dark /\ red'.clicked = red.clicked
    BY <2>1, KindsFields DEF NoStory
  <2> QED BY <2>1, <2>2 DEF WakeInv, PressEnds
<1>2. CASE FallbackPowerButton
  <2>1. ~button.polling /\ button' = button /\ turn' = "touch" /\ ~red'.clicked
    BY <1>2, KindsFields DEF FallbackPowerButton
  <2> QED BY <2>1 DEF WakeInv, PressEnds
<1>3. CASE CableMoves
  BY <1>3, WakeFrame DEF CableMoves
<1>4. CASE Tick \/ Wait
  <2>1. /\ button' = [button EXCEPT !.sampleDue = TRUE] /\ turn = "update"
        /\ UNCHANGED <<turn, red, pending, story>>
    BY <1>4 DEF Tick, Wait
  <2>2. /\ button'.polling = button.polling /\ button'.pressed = button.pressed
        /\ button'.woke = button.woke /\ button'.pendingWoke = button.pendingWoke
    BY <1>0, <2>1 DEF Buttons
  <2>3. screen'.asleep = screen.asleep
    BY <1>0, <1>4 DEF Tick, Wait, Screens
  <2> QED BY <2>1, <2>2, <2>3, WakeFrame
<1>5. CASE TouchDown \/ AgentCompletes \/ AgentAsks
  <2>1. ForgetClick /\ NotTheRedKey /\ red' = red
        /\ {turn, turn'} \cap {"off", "restart", "arbitrate"} = {}
    BY <1>5 DEF TouchDown, AgentCompletes, AgentAsks
  <2>2. ~screen'.asleep
    BY <1>0, <1>5, LitGood, HapticGood, PlayGood DEF TouchDown, AgentCompletes,
       AgentAsks
  <2> QED BY <2>1, <2>2, WakeActivity
<1>6. CASE TouchPowersOff
  <2>1. /\ turn = "touch" /\ turn' \in {"off", "restart"} /\ red' = red /\ ~button'.pressed
    BY <1>6 DEF TouchPowersOff, TravelPowerOff, NoButton
  <2> QED BY <2>1 DEF WakeInv, PressEnds
<1>7. ASSUME UNCHANGED <<red, button, pending, story>>,
             {turn, turn'} \cap {"off", "restart", "arbitrate"} = {},
             screen.asleep => screen'.asleep
      PROVE  WakeInv'
  BY <1>7, WakeFrame
<1>8. CASE TouchMoves \/ TouchUp \/ Skip("touch", "keys") \/ PrimeRaise
  <2>1. screen.asleep => screen'.asleep
    BY <1>0, <1>8 DEF TouchMoves, TouchUp, Skip, PrimeRaise, StartHaptic,
       Screens
  <2>2. UNCHANGED <<red, button, pending, story>>
        /\ {turn, turn'} \cap {"off", "restart", "arbitrate"} = {}
    BY <1>8 DEF TouchMoves, TouchUp, Skip, PrimeRaise
  <2> QED BY <1>7, <2>1, <2>2
<1>9. CASE UpdateIdleDimming
  <2>1. PICK away : screen' = UpdateHaptic(Dimmed(screen, away))
    BY <1>9 DEF UpdateIdleDimming
  <2>2. screen.asleep => Dimmed(screen, away) = screen
    BY DEF Dimmed, EnterDeskSleep
  <2>3. screen.asleep => screen'.asleep
    BY <1>0, <2>1, <2>2, UpdateHapticGood
  <2> QED BY <1>7, <1>9, <2>3 DEF UpdateIdleDimming
<1>10. CASE Keys
  <2>1. /\ red' = red /\ turn = "keys" /\ turn' = "agents"
        /\ \/ ForgetClick /\ NotTheRedKey /\ screen' = StartHaptic(Lit(screen))
           \/ UNCHANGED <<pending, button, story, screen>>
    BY <1>10 DEF Keys
  <2>2. ~StartHaptic(Lit(screen)).asleep
    BY <1>0, LitGood, HapticGood
  <2> QED BY <1>7, <2>1, <2>2, WakeActivity
<1>11. CASE ObserveDock \/ Raise
  <2>1. /\ UNCHANGED <<red, button, pending>>
        /\ {turn, turn'} \cap {"off", "restart", "arbitrate"} = {}
        /\ NotTheRedKey \/ UNCHANGED <<screen, story>>
    BY <1>11 DEF ObserveDock, Raise
  <2>2. /\ story'.unheard = story.unheard /\ story'.twice = story.twice
        /\ (story'.dark => story.dark /\ (screen.asleep => screen'.asleep))
    BY <2>1, KindsFields DEF NotTheRedKey
  <2> QED BY <2>1, <2>2, WakeFrame
<1> QED BY <1>1, <1>2, <1>3, <1>4, <1>5, <1>6, <1>8, <1>9, <1>10, <1>11
   DEF Touch

\* What is known of the red press holds at the start and is kept by every step.
LEMMA WakeKept ==
  /\ Init => WakeInv
  /\ IInv /\ IInv' /\ WakeInv /\ [Next]_vars => WakeInv'
<1>1. ASSUME Init PROVE WakeInv
  <2>1. turn = "update" /\ ~red.clicked /\ ~button.pressed /\ ~story.dark
    BY <1>1 DEF Init, NoButton, NoStory
  <2> QED BY <2>1 DEF WakeInv, PressEnds
<1>2. ASSUME IInv, IInv', WakeInv, [Next]_vars PROVE WakeInv'
  <2>1. CASE UNCHANGED vars
    BY <1>2, <2>1 DEF vars, WakeInv, PressEnds, NotBegun, Begun, ClickHeard
  <2>2. CASE Skip("agents", "dock") \/ Skip("dock", "dim") \/ Skip("raise", "update")
    <3>1. UNCHANGED <<red, button, pending, story, screen>>
          /\ {turn, turn'} \cap {"off", "restart", "arbitrate"} = {}
      BY <2>2 DEF Skip
    <3> QED BY <1>2, <3>1, WakeFrame
  <2>3. CASE RedDown \/ RedUp
    BY <1>2, <2>3, RedWake
  <2>4. CASE Update
    BY <1>2, <2>4, UpdateWake
  <2>5. CASE UpdatePowerButton
    BY <1>2, <2>5, UpdatePowerButtonWake
  <2>6. CASE \/ Restart \/ PowerOn \/ FallbackPowerButton \/ CableMoves \/ Tick \/ Wait
             \/ Touch \/ Keys \/ AgentCompletes \/ AgentAsks \/ ObserveDock
             \/ UpdateIdleDimming \/ PrimeRaise \/ Raise
    BY <1>2, <2>6, LoopWake
  <2> QED BY <1>2, <2>1, <2>2, <2>3, <2>4, <2>5, <2>6 DEF Next, Loop
<1> QED BY <1>1, <1>2

\* The click of a red press that found the watch dark wakes it and does not put it
\* to sleep again (updatePowerButton, registerPowerButtonClick).
THEOREM WakingClickNeverSleeps == Spec => WakingClickKeepsAwake
<1> DEFINE Stays == [button.polling /\ story.dark /\ ~story.twice /\ turn = "update"
                       => screen'.asleep = screen.asleep]_vars
<1>1. IInv /\ WakeInv /\ [Next]_vars => Stays
  <2> SUFFICES ASSUME IInv, WakeInv, [Next]_vars,
                      button.polling, story.dark, ~story.twice, turn = "update"
               PROVE  screen'.asleep = screen.asleep
    OBVIOUS
  <2>1. NotBegun \/ Begun \/ ClickHeard
    BY DEF WakeInv
  <2>2. CASE Update
    BY <2>1, <2>2 DEF Update, EnterDeskSleep, NotBegun, Begun, ClickHeard
  <2>3. CASE Tick
    BY <2>3, KindsFields DEF Tick, Screens
  <2>4. CASE UNCHANGED screen
    BY <2>4
  <2>5. Update \/ Tick \/ UNCHANGED screen
    BY DEF Next, Loop, vars, Restart, PowerOn, Setup, UpdatePowerButton,
       FallbackPowerButton,
       Touch, TouchDown, TouchMoves, TouchPowersOff, TouchUp, Skip, Keys, AgentCompletes,
       AgentAsks, ObserveDock, UpdateIdleDimming, PrimeRaise, Raise, RedDown, RedUp,
       CableMoves, Wait
  <2> QED BY <2>2, <2>3, <2>4, <2>5
<1>2. Init => IInv /\ WakeInv
  BY InitInv, WakeKept
<1>3. IInv /\ WakeInv /\ [Next]_vars => IInv' /\ WakeInv'
  BY NextInv, WakeKept
<1> QED BY <1>1, <1>2, <1>3, PTL DEF Spec, WakingClickKeepsAwake
=============================================================================
