--------------------------- MODULE WatchControls ----------------------------
(***************************************************************************)
(* What the watch's controls do: the touch gestures, the left (microphone) *)
(* key, the right (page or voice chat) key, the page they leave on the     *)
(* screen, and the keys they hold down on the host                         *)
(* (firmware/stopwatch-c152/src/main.cpp).                                 *)
(*                                                                         *)
(* One pass of loop() is poll, touch, left, right, snapshot, end.  The     *)
(* link comes and goes at any moment; poll() learns of it, and the keys    *)
(* are sent by what poll() last learnt.  The handlers draw and choose by   *)
(* `state`, the snapshot the previous pass took.  So a payload or a new    *)
(* session can turn the protocol under a finger.  There is one host, and   *)
(* its link is one connection; HostSession has several.                    *)
(*                                                                         *)
(* Where a touch lands is a choice among the targets the code tests for on *)
(* that page.  A timer that runs is "due" once Elapse has said so.  The    *)
(* dark screen is WatchPower's; here it comes and goes as that module lets *)
(* it, never over a held control.                                          *)
(***************************************************************************)
EXTENDS Integers, FiniteSets

CONSTANT MaxInputs   \* bound on touches, presses, polls with payloads, link changes

ASSUME MaxInputsAssumption == MaxInputs \in Nat

VARIABLES
    turn, inputs,
    \* the link, and what waits for poll(): a connection's beginning, or the
    \* mark that an event was lost
    link, began, lost,
    \* state_ of CodexMicroBle: what poll() knows of the link, and the rest
    connected, store,
    \* state and appliedSettings: what the loop goes by
    online, protocol, face,
    \* the screen: dark, the page, and whether what it shows is out of date
    asleep, page, quotaExpanded, overlay, stale,
    \* leftPressed, the right key and voiceTapBannerVisible
    left, right, banner,
    \* the touch: contact, target, swipe, hold
    finger, touch,
    \* voiceClickReleasePending and its time
    voice,
    \* the host: keys and stick it believes held
    hostDown,
    \* history: what the current touch has done, whether it found the screen
    \* dark, and whether the protocol turned under a swipe
    acts, swallowed, crossed

linkVars == <<link, began, lost>>
hostVars == <<linkVars, connected, store, online, protocol, face>>
pageVars == <<page, quotaExpanded>>
keyVars  == <<left, right, banner, voice>>
history  == <<acts, swallowed, crossed>>
vars == <<turn, inputs, hostVars, asleep, pageVars, overlay, stale, keyVars, finger,
          touch, hostDown, history>>

Pages == <<"home", "quota", "sessions", "system">>
NextPage(p) == CASE p = "home" -> "quota" [] p = "quota" -> "sessions"
                 [] p = "sessions" -> "system" [] OTHER -> "home"
PreviousPage(p) == CHOOSE q \in {Pages[i] : i \in 1..4} : NextPage(q) = p

Targets == {"none", "agent", "send", "item", "pet"}
Stores  == [protocol: {"legacy", "v2"}, face: {"data", "pet"}, bumped: BOOLEAN,
            dirty: BOOLEAN]
Touches == [tracking: BOOLEAN, target: Targets, home: {"sessions", "quota"},
            swipe: BOOLEAN, consumed: BOOLEAN, hold: {"short", "prompt", "off"}]

\* clearTouchCandidate
Cleared(t) == [t EXCEPT !.target = "none", !.home = "sessions"]
NoTouch == [tracking |-> FALSE, target |-> "none", home |-> "sessions",
            swipe |-> FALSE, consumed |-> FALSE, hold |-> "short"]

NoRight == [down |-> FALSE, long |-> FALSE, fired |-> FALSE]

v2Mode == protocol = "v2"

-----------------------------------------------------------------------------
\* drawScreen.  What it shows is a function of the controls, one for each
\* protocol; `stale` says that they have changed since it was last called.

\* watchfaceState's pill: the first that applies
Transient ==
    CASE touch.target = "send" /\ page = "home" -> "SEND"
      [] left -> "LISTENING"
      [] banner # "none" -> "VOICE CHAT"
      [] touch.swipe -> "STICK"
      [] OTHER -> "none"

Face      == <<online, page, quotaExpanded, face, Transient, overlay>>
Dashboard == <<online, left, right.down \/ banner # "none", touch.target, touch.swipe, overlay>>

Changes == \/ protocol' # protocol
           \/ v2Mode /\ Face' # Face
           \/ ~v2Mode /\ Dashboard' # Dashboard

\* The last conjunct of an action that calls drawScreen, or does not.
Drawn(calls) == stale' = IF calls THEN asleep' /\ (stale \/ Changes) ELSE stale \/ Changes
DrawScreen   == Drawn(TRUE)

\* noteActivity: lights the screen, and drawing is part of waking up.
Lit == asleep' = FALSE

-----------------------------------------------------------------------------
\* sendKey, sendJoystick: nothing goes out that poll() knows no connection for,
\* and nothing arrives without a link.
Reaches      == connected /\ link
KeyDown(key) == IF Reaches THEN hostDown \cup {key} ELSE hostDown
KeyUp(key)   == IF Reaches THEN hostDown \ {key} ELSE hostDown

Input == inputs < MaxInputs /\ inputs' = inputs + 1

\* After a reboot the watch is offline, on the v2 face; which one is in NVS,
\* and the store has none yet.
Init ==
    /\ turn = "poll"
    /\ inputs = 0
    /\ link = FALSE /\ began = FALSE /\ lost = FALSE
    /\ connected = FALSE /\ online = FALSE
    /\ store = [protocol |-> "v2", face |-> "data", bumped |-> FALSE, dirty |-> FALSE]
    /\ protocol = "v2"
    /\ face \in {"data", "pet"}
    /\ asleep = FALSE
    /\ page = "home"
    /\ quotaExpanded = FALSE
    /\ overlay = "none"
    /\ stale = FALSE
    /\ left = FALSE
    /\ right = NoRight
    /\ banner = "none"
    /\ finger = FALSE
    /\ touch = NoTouch
    /\ voice = "up"
    /\ hostDown = {}
    /\ acts = 0
    /\ swallowed = FALSE
    /\ crossed = FALSE

-----------------------------------------------------------------------------
\* The link, which changes at any moment, and poll().

Skip(from, to) ==
    /\ turn = from /\ turn' = to
    /\ UNCHANGED <<inputs, hostVars, asleep, pageVars, overlay, stale, keyVars, finger,
                   touch, hostDown, history>>

\* onConnectionEvent: the event waits for poll(), or is lost with a full queue.
\* A host that loses the watch forgets its keys.
LinkChanges ==
    /\ turn # "off"
    /\ Input
    /\ link' = ~link
    /\ \/ began' = (began \/ ~link) /\ UNCHANGED lost
       \/ lost' = TRUE /\ UNCHANGED began
    /\ hostDown' = {}
    /\ UNCHANGED <<turn, connected, store, online, protocol, face, asleep, pageVars, overlay,
                   stale, keyVars, finger, touch, history>>

\* applyConnectionEvent and reconcileConnectionSet: a session begins on the v2
\* face, a lost link leaves the protocol alone, and either is news.
News == began \/ lost \/ link # connected
Begun == began \/ (lost /\ link)
SessionQuiet == \* Mutated: a session that begins between two polls is no news
    [store EXCEPT !.protocol = IF Begun THEN "v2" ELSE @,
                  !.dirty = @ \/ link # connected]
Session == [store EXCEPT !.protocol = IF Begun THEN "v2" ELSE @, !.dirty = @ \/ News]

\* processQuotaWrites, whatever has become of the link they came over: the last
\* decides the protocol, and those of v2 may carry the face.  Store::apply
\* counts a new settings version only when a setting changes.
Applied(known, p, f) == [protocol |-> p, face |-> f,
                         bumped |-> known.bumped \/ known.face # f, dirty |-> TRUE]
LinkedOnce == link \/ connected \/ began \/ lost

Poll ==
    /\ turn = "poll" /\ turn' = "touch"
    /\ connected' = link
    /\ began' = FALSE /\ lost' = FALSE
    /\ \/ store' = Session /\ UNCHANGED inputs
       \/ /\ LinkedOnce
          /\ Input
          /\ \E p \in {"legacy", "v2"}, f \in {"data", "pet"} : store' = Applied(Session, p, f)
    /\ UNCHANGED <<link, online, protocol, face, asleep, pageVars, overlay, stale, keyVars,
                   finger, touch, hostDown, history>>

\* Time passes for whichever timer it passes for.
Elapses ==
    /\ turn = "poll"
    /\ UNCHANGED <<turn, inputs, hostVars, asleep, pageVars, overlay, stale, left, finger,
                   hostDown, history>>
ElapseVoice  == Elapses /\ voice = "down" /\ voice' = "due"
                /\ UNCHANGED <<right, banner, touch>>
ElapseBanner == Elapses /\ banner = "shown" /\ banner' = "due"
                /\ UNCHANGED <<right, voice, touch>>
ElapseRight  == Elapses /\ right.down /\ ~right.long
                /\ right' = [right EXCEPT !.long = TRUE]
                /\ UNCHANGED <<voice, banner, touch>>
ElapseHold   == Elapses /\ touch.tracking /\ touch.hold # "off"
                /\ touch' = [touch EXCEPT !.hold = IF @ = "short" THEN "prompt" ELSE "off"]
                /\ UNCHANGED <<right, voice, banner>>
Elapse == ElapseVoice \/ ElapseBanner \/ ElapseRight \/ ElapseHold

-----------------------------------------------------------------------------
\* enterTravelPowerOff and releaseControlsForPowerOff: everything the host
\* holds is released before the power goes.
ReleaseControlsMicOnly == \* Mutated: the voice click is forgotten
    hostDown' = IF ~Reaches THEN hostDown
                ELSE hostDown \ ((IF left THEN {"mic"} ELSE {})
                                 \cup (IF touch.swipe THEN {"stick"} ELSE {}))
ReleaseControls ==
    hostDown' = IF ~Reaches THEN hostDown
                ELSE hostDown \ ((IF left THEN {"mic"} ELSE {})
                                 \cup (IF voice # "up" THEN {"voice"} ELSE {})
                                 \cup (IF touch.swipe THEN {"stick"} ELSE {}))

EnterTravelPowerOff ==
    /\ turn' = "off"
    /\ ReleaseControls
    /\ left' = FALSE
    /\ voice' = "up"
    /\ right' = [right EXCEPT !.down = FALSE]
    /\ banner' = "none"
    /\ touch' = [Cleared(touch) EXCEPT !.tracking = FALSE, !.swipe = FALSE,
                                       !.consumed = TRUE]
    /\ overlay' = "poweringOff"
    /\ stale' = FALSE
    /\ UNCHANGED <<inputs, hostVars, asleep, pageVars, finger, history>>

\* The red key's double click: updatePowerButton runs before the other handlers.
RedDoubleClick ==
    /\ turn = "touch"
    /\ inputs < MaxInputs
    /\ EnterTravelPowerOff

-----------------------------------------------------------------------------
\* The touch: beginTouchGesture, then updateTouchGesture and
\* updateTouchPowerHold while it lasts, then finishTouchGesture.

\* Where a touch may land on this page, and where a Home card would lead; the
\* other targets leave the destination as it is.
Landings ==
    {<<"none", touch.home>>} \cup
    IF ~v2Mode THEN {<<"agent", touch.home>>, <<"send", touch.home>>}
    ELSE CASE page = "sessions" -> {<<"item", touch.home>>}
           [] page = "home" /\ face = "data" -> {<<"send", "sessions">>, <<"send", "quota">>}
           [] page = "home" /\ face = "pet" -> {<<"pet", touch.home>>}
           [] OTHER -> {<<"send", touch.home>>}

BeginTouchGesture(landing) ==
    touch' = [touch EXCEPT !.tracking = TRUE, !.swipe = FALSE, !.hold = "short",
                           !.target = landing[1], !.home = landing[2]]

\* The touch that finds the screen dark only lights it.
BeginsAlways == TRUE \* Mutated: what noteActivity returns is ignored
Begins == ~asleep

TouchDown ==
    /\ turn = "touch" /\ turn' = "left"
    /\ ~finger /\ finger' = TRUE
    /\ Input
    /\ Lit
    /\ acts' = 0
    /\ swallowed' = asleep
    /\ crossed' = (crossed /\ "stick" \in hostDown)
    /\ UNCHANGED <<hostVars, pageVars, overlay, keyVars, hostDown>>
    /\ IF Begins
         THEN \E landing \in Landings :
                /\ BeginTouchGesture(landing)
                /\ Drawn(asleep \/ landing[1] \in {"agent", "send", "item"})
         ELSE UNCHANGED touch /\ DrawScreen

\* A swipe takes the gesture over, whatever it had begun on.
Swipe ==
    /\ turn = "touch" /\ turn' = "left"
    /\ finger /\ touch.tracking
    /\ ~touch.consumed /\ ~touch.swipe
    /\ touch' = [Cleared(touch) EXCEPT !.swipe = TRUE]
    /\ acts' = acts + 1
    /\ IF v2Mode
         THEN /\ \/ page' \in {NextPage(page), PreviousPage(page)} /\ quotaExpanded' = FALSE
                 \/ UNCHANGED pageVars
              /\ UNCHANGED hostDown
         ELSE hostDown' = KeyDown("stick") /\ UNCHANGED pageVars
    /\ UNCHANGED <<inputs, hostVars, asleep, overlay, keyVars, finger, swallowed, crossed>>
    /\ DrawScreen

\* Holding Send is the legacy face's way to power off: two seconds for the
\* prompt, from where on a release sends nothing, six for the rest.
Holds == finger /\ touch.tracking /\ ~touch.swipe /\ ~v2Mode
         /\ (touch.target = "send" \/ touch.consumed)

HoldPrompt ==
    /\ turn = "touch" /\ turn' = "left"
    /\ Holds /\ ~touch.consumed /\ touch.hold = "prompt"
    /\ touch' = [touch EXCEPT !.consumed = TRUE, !.target = "none"]
    /\ overlay' = "hold"
    /\ acts' = acts + 1
    /\ UNCHANGED <<inputs, hostVars, asleep, pageVars, keyVars, finger, hostDown,
                   swallowed, crossed>>
    /\ DrawScreen

HoldPowersOff ==
    /\ turn = "touch"
    /\ Holds /\ touch.hold = "off"
    /\ EnterTravelPowerOff

\* commitTouchSend on the v2 face, through pagePrimaryAction
PrimaryAction ==
    CASE page = "home"  -> page' = touch.home /\ quotaExpanded' = FALSE
      [] page = "quota" -> quotaExpanded' = ~quotaExpanded /\ UNCHANGED page
      [] OTHER          -> UNCHANGED pageVars

\* finishTouchGesture: the hold, the swipe or the target it was, and no other.
FinishHold ==
    /\ overlay' = "none"
    /\ UNCHANGED <<pageVars, hostDown, acts>>

FinishSwipe ==
    /\ hostDown' = IF v2Mode THEN hostDown ELSE KeyUp("stick")
    /\ UNCHANGED <<pageVars, overlay, acts>>

Commit ==
    /\ IF touch.target = "send" /\ v2Mode THEN PrimaryAction ELSE UNCHANGED pageVars
    /\ acts' = IF touch.target = "none" THEN acts ELSE acts + 1
    /\ UNCHANGED <<overlay, hostDown>>

\* What is left of the touch.  Only the v2 face and clearTouchCandidate forget
\* where a Home card led.
Finished == IF touch.target = "none" \/ (touch.target = "send" /\ v2Mode)
            THEN NoTouch
            ELSE [NoTouch EXCEPT !.home = touch.home]

TouchUp ==
    /\ turn = "touch" /\ turn' = "left"
    /\ finger /\ finger' = FALSE
    /\ touch' = IF touch.tracking THEN Finished ELSE touch
    /\ CASE ~touch.tracking -> UNCHANGED <<pageVars, overlay, hostDown, acts>>
         [] touch.tracking /\ touch.consumed -> FinishHold
         [] touch.tracking /\ ~touch.consumed /\ touch.swipe -> FinishSwipe
         [] OTHER -> Commit
    /\ UNCHANGED <<inputs, hostVars, asleep, keyVars, swallowed, crossed>>
    /\ Drawn(touch.consumed \/ touch.swipe \/ touch.target # "none")

Touch == TouchDown \/ Swipe \/ HoldPrompt \/ HoldPowersOff \/ TouchUp \/ RedDoubleClick
         \/ Skip("touch", "left")

-----------------------------------------------------------------------------
\* The keys.

LeftPress ==
    /\ turn = "left" /\ turn' = "right"
    /\ ~left /\ left' = TRUE
    /\ Input
    /\ Lit
    /\ hostDown' = KeyDown("mic")
    /\ UNCHANGED <<hostVars, pageVars, overlay, right, banner, voice, finger, touch, history>>
    /\ DrawScreen

LeftRelease ==
    /\ turn = "left" /\ turn' = "right"
    /\ left /\ left' = FALSE
    /\ hostDown' = KeyUp("mic")
    /\ UNCHANGED <<inputs, hostVars, asleep, pageVars, overlay, right, banner, voice, finger,
                   touch, history>>
    /\ DrawScreen

RightPress ==
    /\ turn = "right" /\ turn' = "snapshot"
    /\ ~right.down /\ right' = [NoRight EXCEPT !.down = TRUE]
    /\ Input
    /\ Lit
    /\ banner' = IF v2Mode THEN banner ELSE "shown"
    /\ UNCHANGED <<hostVars, pageVars, overlay, left, voice, finger, touch, hostDown, history>>
    /\ DrawScreen

\* A short press turns the page; on the legacy face it clicks voice chat, and
\* a click under way is ended first.
RightRelease ==
    /\ turn = "right" /\ turn' = "snapshot"
    /\ right.down
    /\ right' = [right EXCEPT !.down = FALSE, !.fired = ~v2Mode /\ right.fired]
    /\ IF v2Mode
         THEN /\ IF right.fired THEN UNCHANGED pageVars
                 ELSE page' = NextPage(page) /\ quotaExpanded' = FALSE
              /\ UNCHANGED <<voice, hostDown>>
         ELSE /\ voice' = "down"
              /\ hostDown' = KeyDown("voice")
              /\ UNCHANGED pageVars
    /\ UNCHANGED <<inputs, hostVars, asleep, overlay, left, banner, finger, touch, history>>
    /\ DrawScreen

-----------------------------------------------------------------------------
\* snapshot(), detectAgentTransitions and applySettingsFromStore.  An agent's
\* news may light the screen; news, new settings and another link are drawn.
Snapshot ==
    /\ turn = "snapshot" /\ turn' = "end"
    /\ asleep' \in {asleep, FALSE}
    /\ online' = connected
    /\ protocol' = store.protocol
    /\ face' = IF store.bumped THEN store.face ELSE face
    /\ store' = [store EXCEPT !.bumped = FALSE, !.dirty = FALSE]
    /\ crossed' = (crossed \/ (touch.swipe /\ store.protocol # protocol))
    /\ UNCHANGED <<inputs, linkVars, connected, pageVars, overlay, keyVars, finger, touch,
                   hostDown, acts, swallowed>>
    /\ Drawn(store.dirty \/ store.bumped \/ online' # online \/ asleep' # asleep)

HandsOn == left \/ right.down \/ touch.tracking

\* updateIdleDimming, updateVoiceTapBanner, updateVoiceChatClick,
\* updateRightButtonHold and pollRaiseWake, in this order
BannerEnds == banner = "due"
VoiceEndsLegacy == voice = "due" /\ ~v2Mode \* Mutated: only on the legacy face
VoiceEnds == voice = "due"
GoesHome == v2Mode /\ right.down /\ ~right.fired /\ right.long
EndDraws == BannerEnds \/ GoesHome

End ==
    /\ turn = "end" /\ turn' = "poll"
    /\ asleep' \in IF HandsOn THEN {asleep, FALSE} ELSE BOOLEAN
    /\ banner' = IF BannerEnds THEN "none" ELSE banner
    /\ voice' = IF VoiceEnds THEN "up" ELSE voice
    /\ hostDown' = IF VoiceEnds THEN KeyUp("voice") ELSE hostDown
    /\ right' = [right EXCEPT !.fired = right.fired \/ GoesHome]
    /\ page' = IF GoesHome THEN "home" ELSE page
    /\ quotaExpanded' = (quotaExpanded /\ ~GoesHome)
    /\ UNCHANGED <<inputs, hostVars, overlay, left, finger, touch, history>>
    /\ Drawn(EndDraws \/ (asleep /\ ~asleep'))

Loop ==
    \/ Poll
    \/ Touch
    \/ LeftPress \/ LeftRelease \/ Skip("left", "right")
    \/ RightPress \/ RightRelease \/ Skip("right", "snapshot")
    \/ Snapshot \/ End

Next == Loop \/ LinkChanges \/ Elapse

\* The loop goes on, and so does the time of a voice click; the fingers and the
\* link need not.
Spec == Init /\ [][Next]_vars
FairSpec == Spec /\ WF_vars(Loop) /\ SF_vars(ElapseVoice)

-----------------------------------------------------------------------------
\* State and correctness

\* The variables have their types, and a touch that is over leaves no target
\* and no swipe behind for the next one to act on.
TypeOK ==
    /\ turn \in {"poll", "touch", "left", "right", "snapshot", "end", "off"}
    /\ inputs \in 0..MaxInputs
    /\ link \in BOOLEAN /\ began \in BOOLEAN /\ lost \in BOOLEAN
    /\ connected \in BOOLEAN /\ online \in BOOLEAN /\ store \in Stores
    /\ protocol \in {"legacy", "v2"} /\ face \in {"data", "pet"}
    /\ asleep \in BOOLEAN /\ stale \in BOOLEAN
    /\ page \in {Pages[i] : i \in 1..4} /\ quotaExpanded \in BOOLEAN
    /\ overlay \in {"none", "hold", "poweringOff"}
    /\ left \in BOOLEAN /\ right \in [down: BOOLEAN, long: BOOLEAN, fired: BOOLEAN]
    /\ banner \in {"none", "shown", "due"} /\ voice \in {"up", "down", "due"}
    /\ finger \in BOOLEAN /\ touch \in Touches
    /\ hostDown \subseteq {"mic", "voice", "stick"}
    /\ acts \in 0..2 /\ swallowed \in BOOLEAN /\ crossed \in BOOLEAN
    /\ ~touch.tracking => touch.target = "none" /\ ~touch.swipe

\* The host never believes a key held that the watch has let go: through lost
\* links, sessions that begin unseen, protocol changes and power-off.  The stick
\* is held to less: pushed on the legacy face and let go on the v2 face, to which
\* a payload has turned the watch, it does stay pushed.
KeysReleased ==
    /\ "mic" \in hostDown => left
    /\ "voice" \in hostDown => voice # "up"
    /\ "stick" \in hostDown => touch.swipe \/ crossed

\* A touch does one thing: it swipes, or prompts, or commits its target.  The
\* touch that lit a dark screen does nothing.
OneEffect == acts <= 1 /\ (swallowed => acts = 0)

\* When a pass ends with the screen lit, it shows the controls as they are: no
\* handler leaves a change for a later redraw to find.
ScreenCurrent == turn = "poll" /\ ~asleep => ~stale

\* Every voice click ends at the host: released after its time on whichever
\* face the watch is then, or forgotten with the link.
VoiceClickEnds == "voice" \in hostDown ~> "voice" \notin hostDown
=============================================================================
