------------------------- MODULE WatchControlsProofs ------------------------
(***************************************************************************)
(* Proofs about WatchControls, for any number of inputs: the host believes *)
(* no key held that the watch has let go, a touch does one thing, and no   *)
(* pass ends with a lit screen that shows controls as they were.           *)
(***************************************************************************)
EXTENDS WatchControls, TLAPS

\* A touch is tracked while its finger is down, is one thing at a time, and has
\* done nothing before it becomes a swipe or a hold.
GestureInv ==
  /\ touch.tracking => finger
  /\ touch.swipe => touch.tracking /\ ~touch.consumed
  /\ touch.target # "none" => touch.tracking /\ ~touch.swipe /\ ~touch.consumed
  /\ touch.consumed => touch.tracking \/ turn = "off"
  /\ touch.tracking /\ ~touch.swipe /\ ~touch.consumed => acts = 0
  /\ acts \in {0, 1}
  /\ swallowed => ~touch.tracking /\ acts = 0

\* A host that no key reaches holds nothing; a swipe that pushed the stick is still
\* on the legacy face, unless the protocol turned under it.
HostInv ==
  /\ hostDown # {} => Reaches
  /\ KeysReleased
  /\ "stick" \in hostDown /\ touch.swipe => ~v2Mode \/ crossed

ScreenInv == stale => asleep

\* Another protocol than the loop's is news.
NewsInv == store.protocol # protocol => store.dirty

\* The types, in the parts that are proved one by one.
Words ==
  /\ turn \in {"poll", "touch", "left", "right", "snapshot", "end", "off"}
  /\ protocol \in {"legacy", "v2"} /\ face \in {"data", "pet"}
  /\ page \in {"home", "quota", "sessions", "system"}
  /\ overlay \in {"none", "hold", "poweringOff"}
  /\ banner \in {"none", "shown", "due"} /\ voice \in {"up", "down", "due"}
  /\ hostDown \subseteq {"mic", "voice", "stick"}

Flags ==
  /\ link \in BOOLEAN /\ began \in BOOLEAN /\ lost \in BOOLEAN
  /\ connected \in BOOLEAN /\ online \in BOOLEAN
  /\ asleep \in BOOLEAN /\ stale \in BOOLEAN
  /\ quotaExpanded \in BOOLEAN /\ left \in BOOLEAN /\ finger \in BOOLEAN
  /\ swallowed \in BOOLEAN /\ crossed \in BOOLEAN

Records ==
  /\ store \in Stores
  /\ right \in [down: BOOLEAN, long: BOOLEAN, fired: BOOLEAN]
  /\ touch \in Touches

Counted == inputs \in 0..MaxInputs

IInv == Counted /\ Words /\ Flags /\ Records /\ GestureInv /\ HostInv /\ ScreenInv
        /\ NewsInv

\* The pages are four.
LEMMA PageSet == {Pages[i] : i \in 1..4} = {"home", "quota", "sessions", "system"}
BY DEF Pages

\* Turning a page leads to a page.
LEMMA PagesTurn ==
  ASSUME NEW p \in {"home", "quota", "sessions", "system"}
  PROVE  /\ NextPage(p) \in {"home", "quota", "sessions", "system"}
         /\ PreviousPage(p) \in {"home", "quota", "sessions", "system"}
<1>1. NextPage(p) \in {"home", "quota", "sessions", "system"}
  BY DEF NextPage
<1>2. \E q \in {Pages[i] : i \in 1..4} : NextPage(q) = p
  <2>1. \E q \in {"home", "quota", "sessions", "system"} : NextPage(q) = p
    BY DEF NextPage
  <2> QED BY <2>1, PageSet
<1>3. PreviousPage(p) \in {Pages[i] : i \in 1..4}
  BY <1>2 DEF PreviousPage
<1> QED BY <1>1, <1>3, PageSet

\* The initial states satisfy the invariant.
THEOREM InitInv == Init => IInv
<1> SUFFICES ASSUME Init PROVE IInv
  OBVIOUS
<1>1. Counted
  BY MaxInputsAssumption DEF Init, Counted
<1>2. Words /\ Flags
  BY DEF Init, Words, Flags
<1>3. Records
  BY DEF Init, Records, NoTouch, NoRight, Touches, Targets, Stores
<1>4. GestureInv /\ HostInv /\ ScreenInv /\ NewsInv
  BY DEF Init, GestureInv, HostInv, KeysReleased, ScreenInv, NewsInv, NoTouch
<1> QED BY <1>1, <1>2, <1>3, <1>4 DEF IInv

\* What is shown is the same when these are; a pet that is touched does not show.
LEMMA Unseen ==
  ASSUME UNCHANGED <<online, protocol, face, page, quotaExpanded, overlay, left, banner>>,
         right'.down = right.down, touch'.swipe = touch.swipe,
         \/ touch'.target = touch.target
         \/ v2Mode /\ touch.target # "send" /\ touch'.target # "send"
  PROVE  ~Changes
<1>1. Transient' = Transient
  BY DEF Transient
<1>2. v2Mode' = v2Mode
  BY DEF v2Mode
<1>3. Face' = Face
  BY <1>1 DEF Face
<1>4. ~v2Mode => Dashboard' = Dashboard
  BY DEF Dashboard
<1> QED BY <1>3, <1>4 DEF Changes

\* Every input is counted.
LEMMA CountedKeeps == ASSUME IInv, [Next]_vars PROVE Counted'
<1> USE DEF IInv, Counted, linkVars, hostVars, pageVars, keyVars, history
<1>1. CASE LinkChanges \/ Poll
  BY <1>1, MaxInputsAssumption DEF LinkChanges, Poll, Input
<1>2. CASE \E from, to \in {"poll", "touch", "left", "right", "snapshot"} : Skip(from,
     to)
  BY <1>2 DEF Skip
<1>3. CASE TouchDown
  BY <1>3, MaxInputsAssumption DEF TouchDown, Input
<1>4. CASE Swipe
  BY <1>4 DEF Swipe, Cleared, KeyDown, Reaches, Drawn, DrawScreen
<1>5. CASE HoldPrompt
  BY <1>5 DEF HoldPrompt, Holds, Drawn, DrawScreen
<1>6. CASE HoldPowersOff \/ RedDoubleClick
  BY <1>6 DEF HoldPowersOff, RedDoubleClick, EnterTravelPowerOff,
     ReleaseControls, Reaches,
       Cleared
<1>7. CASE TouchUp
  BY <1>7 DEF TouchUp, FinishHold, FinishSwipe, Commit, Finished, NoTouch,
       PrimaryAction, KeyUp, Reaches, Drawn
<1>8. CASE LeftPress \/ LeftRelease
  BY <1>8, MaxInputsAssumption DEF LeftPress, LeftRelease, Input
<1>9. CASE RightPress \/ RightRelease
  BY <1>9, MaxInputsAssumption DEF RightPress, RightRelease, Input
<1>10. CASE Snapshot
  BY <1>10 DEF Snapshot, Drawn
<1>11. CASE End
  BY <1>11 DEF End, BannerEnds, VoiceEnds, GoesHome, EndDraws, HandsOn, KeyUp, Reaches,
     Drawn
<1>12. CASE Elapse \/ UNCHANGED vars
  BY <1>12 DEF Elapse, ElapseVoice, ElapseBanner, ElapseRight, ElapseHold,
     Elapses,
       vars, history
<1> QED BY <1>1, <1>2, <1>3, <1>4, <1>5, <1>6, <1>7, <1>8, <1>9, <1>10, <1>11,
   <1>12
     DEF Next, Loop, Touch

\* The types.
LEMMA WordsKeeps == ASSUME IInv, [Next]_vars PROVE Words'
<1> USE DEF IInv, Words, v2Mode, linkVars, hostVars, pageVars, keyVars, history
<1>1. CASE LinkChanges \/ Poll
  BY <1>1 DEF LinkChanges, Poll, Input
<1>2. CASE \E from, to \in {"poll", "touch", "left", "right", "snapshot"} : Skip(from,
     to)
  BY <1>2 DEF Skip
<1>3. CASE TouchDown
  BY <1>3 DEF TouchDown, Input, Lit, Begins, Landings, BeginTouchGesture, Drawn,
       DrawScreen
<1>4. CASE Swipe
  BY <1>4, PagesTurn DEF Swipe, KeyDown, Reaches
<1>5. CASE HoldPrompt
  BY <1>5 DEF HoldPrompt, Holds, Drawn, DrawScreen
<1>6. CASE HoldPowersOff \/ RedDoubleClick
  BY <1>6 DEF HoldPowersOff, RedDoubleClick, EnterTravelPowerOff,
     ReleaseControls, Reaches,
       Cleared
<1>7. CASE TouchUp
  <2>1. touch.home \in {"sessions", "quota"}
    BY DEF Records, Touches
  <2>2. page' \in {page, touch.home}
    BY <1>7 DEF TouchUp, FinishHold, FinishSwipe, Commit, PrimaryAction
  <2>3. overlay' \in {"none", overlay} /\ hostDown' \subseteq hostDown
    BY <1>7 DEF TouchUp, FinishHold, FinishSwipe, Commit, KeyUp, Reaches
  <2>4. turn' = "left" /\ UNCHANGED <<protocol, face, banner, voice>>
    BY <1>7 DEF TouchUp
  <2> QED BY <2>1, <2>2, <2>3, <2>4
<1>8. CASE LeftPress \/ LeftRelease
  BY <1>8 DEF LeftPress, LeftRelease, Input, Lit, KeyDown, KeyUp, Reaches, Drawn,
     DrawScreen
<1>9. CASE RightPress \/ RightRelease
  <2>1. page' \in {page, NextPage(page)}
    BY <1>9 DEF RightPress, RightRelease
  <2>2. hostDown' \subseteq hostDown \cup {"voice"} /\ turn' = "snapshot"
    BY <1>9 DEF RightPress, RightRelease, KeyDown, Reaches
  <2>3. /\ banner' \in {banner, "shown"} /\ voice' \in {voice, "down"}
        /\ UNCHANGED <<protocol, face, overlay>>
    BY <1>9 DEF RightPress, RightRelease
  <2> QED BY <2>1, <2>2, <2>3, PagesTurn
<1>10. CASE Snapshot
  BY <1>10 DEF Snapshot, Records, Stores
<1>11. CASE End
  BY <1>11 DEF End, BannerEnds, VoiceEnds, GoesHome, EndDraws, HandsOn, KeyUp, Reaches,
     Drawn
<1>12. CASE Elapse \/ UNCHANGED vars
  BY <1>12 DEF Elapse, ElapseVoice, ElapseBanner, ElapseRight, ElapseHold,
     Elapses,
       vars, history
<1> QED BY <1>1, <1>2, <1>3, <1>4, <1>5, <1>6, <1>7, <1>8, <1>9, <1>10, <1>11,
   <1>12
     DEF Next, Loop, Touch

\* Every step keeps the flags Boolean.
LEMMA FlagsKeeps == ASSUME IInv, [Next]_vars PROVE Flags'
<1> USE DEF IInv, Flags, Records, linkVars, hostVars, pageVars, keyVars, history
<1>1. CASE LinkChanges \/ Poll
  <2>1. CASE LinkChanges
    <3>1. link' = ~link /\ began' \in {began, began \/ ~link} /\ lost' \in {lost, TRUE}
      BY <2>1 DEF LinkChanges
    <3>2. UNCHANGED <<connected, online, asleep, stale, quotaExpanded, left, finger,
                      swallowed, crossed>>
      BY <2>1 DEF LinkChanges
    <3>3. link' \in BOOLEAN /\ began' \in BOOLEAN /\ lost' \in BOOLEAN
      BY <3>1
    <3> QED BY <3>2, <3>3
  <2>2. CASE Poll
    BY <2>2 DEF Poll
  <2> QED BY <1>1, <2>1, <2>2
<1>2. CASE \E from, to \in {"poll", "touch", "left", "right", "snapshot"} : Skip(from,
     to)
  BY <1>2 DEF Skip
<1>3. CASE TouchDown
  BY <1>3 DEF TouchDown, Input, Lit, Begins, Landings, BeginTouchGesture, Drawn,
       DrawScreen
<1>4. CASE Swipe
  <2>1. /\ quotaExpanded' \in {quotaExpanded, FALSE}
        /\ UNCHANGED <<linkVars, connected, online, asleep, left, finger, swallowed, crossed>>
    BY <1>4 DEF Swipe
  <2>2. stale' \in BOOLEAN
    BY <1>4, <2>1 DEF Swipe, DrawScreen, Drawn
  <2> QED BY <2>1, <2>2, ZenonT(30)
<1>5. CASE HoldPrompt
  BY <1>5 DEF HoldPrompt, Drawn, DrawScreen
<1>6. CASE HoldPowersOff \/ RedDoubleClick
  BY <1>6, ZenonT(30) DEF HoldPowersOff, RedDoubleClick, EnterTravelPowerOff
<1>7. CASE TouchUp
  <2>1. /\ quotaExpanded' \in {quotaExpanded, FALSE, ~quotaExpanded} /\ finger' = FALSE
        /\ UNCHANGED <<linkVars, connected, online, asleep, left, swallowed, crossed>>
    BY <1>7 DEF TouchUp, FinishHold, FinishSwipe, Commit, PrimaryAction
  <2>2. stale' \in BOOLEAN
    BY <1>7, <2>1 DEF TouchUp, Drawn
  <2> QED BY <2>1, <2>2
<1>8. CASE LeftPress \/ LeftRelease
  BY <1>8, ZenonT(30) DEF LeftPress, LeftRelease, Lit, Drawn, DrawScreen
<1>9. CASE RightPress \/ RightRelease
  <2>1. /\ quotaExpanded' \in {quotaExpanded, FALSE} /\ asleep' \in {asleep, FALSE}
        /\ UNCHANGED <<linkVars, connected, online, left, finger, swallowed, crossed>>
    BY <1>9 DEF RightPress, RightRelease, Lit
  <2>2. DrawScreen
    BY <1>9 DEF RightPress, RightRelease
  <2>3. stale' \in BOOLEAN
    BY <2>1, <2>2 DEF DrawScreen, Drawn
  <2> QED BY <2>1, <2>3, ZenonT(30)
<1>10. CASE Snapshot
  BY <1>10 DEF Snapshot, Drawn
<1>11. CASE End
  BY <1>11 DEF End, BannerEnds, VoiceEnds, GoesHome, EndDraws, HandsOn, KeyUp, Reaches,
     Drawn
<1>12. CASE Elapse \/ UNCHANGED vars
  BY <1>12 DEF Elapse, ElapseVoice, ElapseBanner, ElapseRight, ElapseHold,
     Elapses,
       vars, history
<1> QED BY <1>1, <1>2, <1>3, <1>4, <1>5, <1>6, <1>7, <1>8, <1>9, <1>10, <1>11,
   <1>12
     DEF Next, Loop, Touch

\* Every step keeps the records well formed.
LEMMA RecordsKeeps == ASSUME IInv, [Next]_vars PROVE Records'
<1>0. Records
  BY DEF IInv
<1> USE DEF IInv, Records, Touches, Targets, Words, linkVars, hostVars, pageVars, keyVars,
     history
<1>1. CASE LinkChanges \/ Poll
  <2>1. UNCHANGED <<right, touch>>
    BY <1>1 DEF LinkChanges, Poll
  <2>2. store.bumped \in BOOLEAN /\ store.dirty \in BOOLEAN
    BY DEF Stores
  <2>3. Session \in Stores
    BY DEF Session, Stores, News, Flags
  <2>4. \A p \in {"legacy", "v2"}, f \in {"data", "pet"} : Applied(Session, p, f) \in Stores
    BY <2>3 DEF Applied, Stores
  <2>5. store' \in Stores
    <3>1. CASE LinkChanges
      BY <1>0, <3>1 DEF LinkChanges
    <3>2. CASE Poll
      BY <2>3, <2>4, <3>2 DEF Poll
    <3> QED BY <1>1, <3>1, <3>2
  <2> HIDE DEF IInv
  <2> QED BY <1>0, <2>1, <2>5
<1>2. CASE \E from, to \in {"poll", "touch", "left", "right", "snapshot"} : Skip(from,
     to)
  BY <1>2 DEF Skip
<1>3. CASE TouchDown
  <2>1. UNCHANGED <<store, right>>
    BY <1>3 DEF TouchDown
  <2>2. CASE UNCHANGED touch
    BY <2>1, <2>2
  <2>3. CASE \E landing \in Landings : BeginTouchGesture(landing)
    <3>1. PICK landing \in Landings : BeginTouchGesture(landing)
      BY <2>3
    <3>2. /\ landing[1] \in {"none", "agent", "send", "item", "pet"}
          /\ landing[2] \in {"sessions", "quota"}
      BY DEF Landings
    <3>3. touch' \in Touches
      BY <3>1, <3>2 DEF BeginTouchGesture
    <3> QED BY <2>1, <3>3
  <2> QED BY <1>3, <2>2, <2>3 DEF TouchDown
<1>4. CASE Swipe
  BY <1>4 DEF Swipe, Cleared, KeyDown, Reaches, Drawn, DrawScreen
<1>5. CASE HoldPrompt
  BY <1>5 DEF HoldPrompt, Holds, Drawn, DrawScreen
<1>6. CASE HoldPowersOff \/ RedDoubleClick
  BY <1>6 DEF HoldPowersOff, RedDoubleClick, EnterTravelPowerOff,
     ReleaseControls, Reaches,
       Cleared
<1>7. CASE TouchUp
  BY <1>7 DEF TouchUp, FinishHold, FinishSwipe, Commit, Finished, NoTouch,
       PrimaryAction, KeyUp, Reaches, Drawn
<1>8. CASE LeftPress \/ LeftRelease
  BY <1>8 DEF LeftPress, LeftRelease, Input, Lit, KeyDown, KeyUp, Reaches, Drawn,
     DrawScreen
<1>9. CASE RightPress \/ RightRelease
  BY <1>9 DEF RightPress, RightRelease, NoRight, Input, Lit, KeyDown, Reaches, Drawn,
       DrawScreen
<1>10. CASE Snapshot
  <2>1. /\ store' = [store EXCEPT !.bumped = FALSE, !.dirty = FALSE]
        /\ UNCHANGED <<right, touch>>
    BY <1>10 DEF Snapshot
  <2>2. store' \in Stores
    BY <2>1 DEF Stores
  <2> HIDE DEF IInv
  <2> QED BY <1>0, <2>1, <2>2
<1>11. CASE End
  BY <1>11 DEF End, BannerEnds, VoiceEnds, GoesHome, EndDraws, HandsOn, KeyUp, Reaches,
     Drawn
<1>12. CASE Elapse \/ UNCHANGED vars
  BY <1>12 DEF Elapse, ElapseVoice, ElapseBanner, ElapseRight, ElapseHold,
     Elapses,
       vars, history
<1> QED BY <1>1, <1>2, <1>3, <1>4, <1>5, <1>6, <1>7, <1>8, <1>9, <1>10, <1>11,
   <1>12
     DEF Next, Loop, Touch

\* A touch goes from its landing to one swipe, hold or commit.
LEMMA GestureInvKeeps == ASSUME IInv, [Next]_vars PROVE GestureInv'
<1> USE DEF IInv, GestureInv, Records, Touches, Targets, linkVars, hostVars, pageVars, keyVars,
     history
<1>1. CASE LinkChanges \/ Poll
  BY <1>1 DEF LinkChanges, Poll, Input
<1>2. CASE \E from, to \in {"poll", "touch", "left", "right", "snapshot"} : Skip(from,
     to)
  BY <1>2 DEF Skip
<1>3. CASE TouchDown
  <2>1. ~finger /\ finger' = TRUE /\ acts' = 0 /\ swallowed' = asleep
    BY <1>3 DEF TouchDown
  <2>2. CASE asleep
    BY <1>3, <2>1, <2>2 DEF TouchDown, Begins
  <2>3. CASE ~asleep
    <3>1. PICK landing \in Landings : BeginTouchGesture(landing)
      BY <1>3, <2>3 DEF TouchDown, Begins
    <3>2. touch' = [touch EXCEPT !.tracking = TRUE, !.swipe = FALSE, !.hold = "short",
                                 !.target = landing[1], !.home = landing[2]]
      BY <3>1 DEF BeginTouchGesture
    <3>3. touch'.tracking = TRUE /\ touch'.swipe = FALSE /\ ~touch'.consumed
      <4>1. touch.consumed = FALSE
        BY <1>3, <2>1 DEF TouchDown
      <4> QED BY <3>2, <4>1
    <3> QED BY <2>1, <2>3, <3>3
  <2> QED BY <2>2, <2>3
<1>4. CASE Swipe
  BY <1>4 DEF Swipe, Cleared, KeyDown, Reaches, Drawn, DrawScreen
<1>5. CASE HoldPrompt
  BY <1>5 DEF HoldPrompt, Holds, Drawn, DrawScreen
<1>6. CASE HoldPowersOff \/ RedDoubleClick
  <2>1. /\ turn' = "off" /\ UNCHANGED <<finger, acts, swallowed>>
        /\ touch' = [Cleared(touch) EXCEPT !.tracking = FALSE, !.swipe = FALSE,
                                           !.consumed = TRUE]
    BY <1>6 DEF HoldPowersOff, RedDoubleClick, EnterTravelPowerOff
  <2>2. /\ ~touch'.tracking /\ ~touch'.swipe /\ touch'.consumed
        /\ touch'.target = "none"
    BY <2>1 DEF Cleared
  <2> QED BY <2>1, <2>2
<1>7. CASE TouchUp
  BY <1>7 DEF TouchUp, FinishHold, FinishSwipe, Commit, Finished, NoTouch,
       PrimaryAction, KeyUp, Reaches, Drawn
<1>8. CASE LeftPress \/ LeftRelease
  BY <1>8 DEF LeftPress, LeftRelease, Input, Lit, KeyDown, KeyUp, Reaches, Drawn,
     DrawScreen
<1>9. CASE RightPress \/ RightRelease
  BY <1>9 DEF RightPress, RightRelease, NoRight, Input, Lit, KeyDown, Reaches, Drawn,
       DrawScreen
<1>10. CASE Snapshot
  BY <1>10 DEF Snapshot, Drawn
<1>11. CASE End
  BY <1>11 DEF End, BannerEnds, VoiceEnds, GoesHome, EndDraws, HandsOn, KeyUp, Reaches,
     Drawn
<1>12. CASE Elapse \/ UNCHANGED vars
  BY <1>12 DEF Elapse, ElapseVoice, ElapseBanner, ElapseRight, ElapseHold,
     Elapses,
       vars, history
<1> QED BY <1>1, <1>2, <1>3, <1>4, <1>5, <1>6, <1>7, <1>8, <1>9, <1>10, <1>11,
   <1>12
     DEF Next, Loop, Touch

\* What is pressed on the host is released by whatever ends the press.
LEMMA HostInvKeeps == ASSUME IInv, [Next]_vars PROVE HostInv'
<1> USE DEF IInv, HostInv, Reaches, KeysReleased, GestureInv, Records, Touches, v2Mode,
     linkVars, hostVars, pageVars, keyVars, history
<1>1. CASE LinkChanges \/ Poll
  BY <1>1 DEF LinkChanges, Poll, Input
<1>2. CASE \E from, to \in {"poll", "touch", "left", "right", "snapshot"} : Skip(from,
     to)
  BY <1>2 DEF Skip
<1>3. CASE TouchDown
  BY <1>3 DEF TouchDown, Input, Lit, Begins, Landings, BeginTouchGesture, Drawn,
       DrawScreen
<1>4. CASE Swipe
  BY <1>4 DEF Swipe, Cleared, KeyDown, Reaches, Drawn, DrawScreen
<1>5. CASE HoldPrompt
  BY <1>5 DEF HoldPrompt, Holds, Drawn, DrawScreen
<1>6. CASE HoldPowersOff \/ RedDoubleClick
  BY <1>6 DEF HoldPowersOff, RedDoubleClick, EnterTravelPowerOff,
     ReleaseControls, Reaches,
       Cleared
<1>7. CASE TouchUp
  BY <1>7 DEF TouchUp, FinishHold, FinishSwipe, Commit, Finished, NoTouch,
       PrimaryAction, KeyUp, Reaches, Drawn
<1>8. CASE LeftPress \/ LeftRelease
  BY <1>8 DEF LeftPress, LeftRelease, Input, Lit, KeyDown, KeyUp, Reaches, Drawn,
     DrawScreen
<1>9. CASE RightPress \/ RightRelease
  BY <1>9 DEF RightPress, RightRelease, NoRight, Input, Lit, KeyDown, Reaches, Drawn,
       DrawScreen
<1>10. CASE Snapshot
  BY <1>10 DEF Snapshot, Drawn
<1>11. CASE End
  BY <1>11 DEF End, BannerEnds, VoiceEnds, GoesHome, EndDraws, HandsOn, KeyUp, Reaches,
     Drawn
<1>12. CASE Elapse \/ UNCHANGED vars
  <2>1. UNCHANGED <<link, connected, hostDown, left, crossed, protocol>>
    BY <1>12 DEF Elapse, ElapseVoice, ElapseBanner, ElapseRight, ElapseHold,
       Elapses, vars
  <2>2. touch'.swipe = touch.swipe
    BY <1>12 DEF Elapse, ElapseVoice, ElapseBanner, ElapseRight, ElapseHold,
       vars
  <2>3. voice # "up" => voice' # "up"
    BY <1>12 DEF Elapse, ElapseVoice, ElapseBanner, ElapseRight, ElapseHold,
       vars
  <2> QED BY <2>1, <2>2, <2>3
<1> QED BY <1>1, <1>2, <1>3, <1>4, <1>5, <1>6, <1>7, <1>8, <1>9, <1>10, <1>11,
   <1>12
     DEF Next, Loop, Touch

\* Who changes what is shown draws it.
LEMMA ScreenInvKeeps == ASSUME IInv, [Next]_vars PROVE ScreenInv'
<1> USE DEF IInv, ScreenInv, GestureInv, Words, Flags, linkVars, hostVars, pageVars, keyVars,
     history
<1>1. CASE LinkChanges \/ Poll
  BY <1>1 DEF LinkChanges, Poll, Input
<1>2. CASE \E from, to \in {"poll", "touch", "left", "right", "snapshot"} : Skip(from,
     to)
  BY <1>2 DEF Skip
<1>3. CASE TouchDown
  <2>1. ~finger /\ asleep' = FALSE
    BY <1>3 DEF TouchDown, Lit
  <2>2. CASE asleep
    BY <1>3, <2>1, <2>2 DEF TouchDown, Begins, Drawn, DrawScreen
  <2>3. CASE ~asleep
    <3>1. PICK landing \in Landings :
            BeginTouchGesture(landing) /\ Drawn(asleep \/ landing[1] \in {"agent", "send", "item"})
      BY <1>3, <2>3 DEF TouchDown, Begins
    <3>2. CASE landing[1] \in {"agent", "send", "item"}
      BY <2>1, <3>1, <3>2 DEF Drawn
    <3>3. CASE landing[1] \notin {"agent", "send", "item"}
      <4>1. landing[1] = "none" \/ (landing[1] = "pet" /\ v2Mode)
        BY <3>3 DEF Landings
      <4>2. /\ touch.target = "none" /\ ~touch.swipe
            /\ touch'.target = landing[1] /\ touch'.swipe = FALSE
        BY <2>1, <3>1 DEF BeginTouchGesture
      <4>3. UNCHANGED <<online, protocol, face, page, quotaExpanded, overlay, left, right, banner>>
        BY <1>3 DEF TouchDown
      <4>4. touch'.swipe = touch.swipe /\ right'.down = right.down
        BY <4>2, <4>3 DEF Records, Touches
      <4>5. \/ touch'.target = touch.target
            \/ v2Mode /\ touch.target # "send" /\ touch'.target # "send"
        BY <4>1, <4>2
      <4>6. ~Changes
        BY <4>3, <4>4, <4>5, Unseen
      <4> QED BY <2>3, <3>1, <3>3, <4>6 DEF Drawn
    <3> QED BY <3>2, <3>3
  <2> QED BY <2>2, <2>3
<1>4. CASE Swipe
  BY <1>4 DEF Swipe, Cleared, KeyDown, Reaches, Drawn, DrawScreen
<1>5. CASE HoldPrompt
  BY <1>5 DEF HoldPrompt, Holds, Drawn, DrawScreen
<1>6. CASE HoldPowersOff \/ RedDoubleClick
  BY <1>6 DEF HoldPowersOff, RedDoubleClick, EnterTravelPowerOff,
     ReleaseControls, Reaches,
       Cleared
<1>7. CASE TouchUp
  <2>1. /\ Drawn(touch.consumed \/ touch.swipe \/ touch.target # "none")
        /\ UNCHANGED asleep
    BY <1>7 DEF TouchUp
  <2>2. CASE touch.consumed \/ touch.swipe \/ touch.target # "none"
    BY <2>1, <2>2 DEF Drawn
  <2>3. CASE ~(touch.consumed \/ touch.swipe \/ touch.target # "none")
    <3>1. touch'.target = "none" /\ ~touch'.swipe
      BY <1>7, <2>3 DEF TouchUp, Finished, NoTouch
    <3>2. UNCHANGED <<online, protocol, face, page, quotaExpanded, overlay, left, right, banner>>
      BY <1>7, <2>3 DEF TouchUp, Commit
    <3>3. touch.swipe = FALSE /\ touch.target = "none"
      BY <2>3 DEF Records, Touches
    <3>4. touch'.swipe = touch.swipe /\ touch'.target = touch.target
      BY <3>1, <3>3, RecordsKeeps DEF Records, Touches
    <3>5. right'.down = right.down
      BY <3>2
    <3>6. ~Changes
      BY <3>2, <3>4, <3>5, Unseen
    <3> QED BY <2>1, <2>3, <3>6 DEF Drawn
  <2> QED BY <2>2, <2>3
<1>8. CASE LeftPress \/ LeftRelease
  BY <1>8 DEF LeftPress, LeftRelease, Input, Lit, KeyDown, KeyUp, Reaches, Drawn,
     DrawScreen
<1>9. CASE RightPress \/ RightRelease
  BY <1>9 DEF RightPress, RightRelease, NoRight, Input, Lit, KeyDown, Reaches, Drawn,
       DrawScreen
<1>10. CASE Snapshot
  <2>1. Drawn(store.dirty \/ store.bumped \/ online' # online \/ asleep' # asleep)
    BY <1>10 DEF Snapshot
  <2>2. CASE store.dirty \/ store.bumped \/ online' # online \/ asleep' # asleep
    BY <2>1, <2>2 DEF Drawn
  <2>3. CASE ~(store.dirty \/ store.bumped \/ online' # online \/ asleep' # asleep)
    <3>1. UNCHANGED <<online, protocol, face, page, quotaExpanded, overlay, left, right, touch,
                      banner>>
      BY <1>10, <2>3 DEF Snapshot, NewsInv
    <3>2. ~Changes
      BY <3>1, Unseen
    <3> QED BY <2>1, <2>3, <3>2 DEF Drawn
  <2> QED BY <2>2, <2>3
<1>11. CASE End
  <2>1. Drawn(EndDraws \/ (asleep /\ ~asleep'))
    BY <1>11 DEF End
  <2>2. CASE EndDraws \/ (asleep /\ ~asleep')
    BY <2>1, <2>2 DEF Drawn
  <2>3. CASE ~(EndDraws \/ (asleep /\ ~asleep'))
    <3>1. /\ UNCHANGED <<online, protocol, face, page, overlay, left, touch, banner>>
          /\ right'.down = right.down
      BY <1>11, <2>3 DEF End, EndDraws, BannerEnds, GoesHome
    <3>2. UNCHANGED quotaExpanded
      BY <1>11, <2>3 DEF End, EndDraws
    <3>3. ~Changes
      BY <3>1, <3>2, Unseen
    <3>4. asleep => asleep'
      BY <1>11, <2>3 DEF End
    <3> QED BY <2>1, <2>3, <3>3, <3>4 DEF Drawn
  <2> QED BY <2>2, <2>3
<1>12. CASE Elapse \/ UNCHANGED vars
  BY <1>12 DEF Elapse, ElapseVoice, ElapseBanner, ElapseRight, ElapseHold,
     Elapses,
       vars, history
<1> QED BY <1>1, <1>2, <1>3, <1>4, <1>5, <1>6, <1>7, <1>8, <1>9, <1>10, <1>11,
   <1>12
     DEF Next, Loop, Touch

\* Who gives the store another protocol marks it dirty; the snapshot takes both.
LEMMA NewsInvKeeps == ASSUME IInv, [Next]_vars PROVE NewsInv'
<1> USE DEF NewsInv, linkVars, hostVars
<1>1. CASE Poll
  <2>1. Session.protocol # protocol => Session.dirty
    <3>1. store \in Stores /\ NewsInv
      BY DEF IInv, Records
    <3> QED BY <3>1 DEF Session, News, Begun, Stores
  <2>2. \A p \in {"legacy", "v2"}, f \in {"data", "pet"} : Applied(Session, p, f).dirty
    BY DEF Applied
  <2> QED BY <1>1, <2>1, <2>2 DEF Poll
<1>2. CASE Snapshot
  BY <1>2 DEF Snapshot, IInv, Records, Stores
<1>3. CASE UNCHANGED <<store, protocol>>
  BY <1>3 DEF IInv
<1>4. Poll \/ Snapshot \/ UNCHANGED <<store, protocol>>
  <2>1. CASE LinkChanges \/ Elapse \/ UNCHANGED vars
    BY <2>1 DEF LinkChanges, Elapse, ElapseVoice, ElapseBanner, ElapseRight, ElapseHold,
       Elapses, vars
  <2>2. CASE Touch
    BY <2>2 DEF Touch, TouchDown, Swipe, HoldPrompt, HoldPowersOff, TouchUp, RedDoubleClick,
       EnterTravelPowerOff, Skip
  <2>3. CASE LeftPress \/ LeftRelease \/ RightPress \/ RightRelease \/ End
             \/ Skip("left", "right") \/ Skip("right", "snapshot")
    BY <2>3 DEF LeftPress, LeftRelease, RightPress, RightRelease, End, Skip
  <2> QED BY <2>1, <2>2, <2>3 DEF Next, Loop
<1> QED BY <1>1, <1>2, <1>3, <1>4

\* Every step keeps it.
THEOREM NextInv == IInv /\ [Next]_vars => IInv'
BY CountedKeeps, WordsKeeps, FlagsKeeps, RecordsKeeps, GestureInvKeeps,
   HostInvKeeps, ScreenInvKeeps, NewsInvKeeps DEF IInv

\* The invariant holds in every state.
LEMMA Inductive == Spec => []IInv
BY InitInv, NextInv, PTL DEF Spec

-----------------------------------------------------------------------------
\* The variables keep their types, and a touch that is over leaves nothing behind.
THEOREM TypeCorrect == Spec => []TypeOK
<1>1. IInv => TypeOK
  BY PageSet DEF IInv, Counted, Words, Flags, Records, GestureInv, TypeOK
<1> QED BY <1>1, Inductive, PTL

\* Lost links, protocol changes and power-off included, the host believes no key
\* held that the watch has let go (sendKey, releaseControlsForPowerOff).
THEOREM KeysAlwaysReleased == Spec => []KeysReleased
<1>1. IInv => KeysReleased
  BY DEF IInv, HostInv
<1> QED BY <1>1, Inductive, PTL

\* A touch swipes, or prompts, or commits its target (finishTouchGesture), and the
\* touch that lit a dark screen does nothing.
THEOREM TouchDoesOneThing == Spec => []OneEffect
<1>1. IInv => OneEffect
  BY DEF IInv, GestureInv, OneEffect
<1> QED BY <1>1, Inductive, PTL

\* No pass of the loop ends with a lit screen out of date: every handler that
\* changes what is shown calls drawScreen.
THEOREM ScreenStaysCurrent == Spec => []ScreenCurrent
<1>1. IInv => ScreenCurrent
  BY DEF IInv, ScreenInv, ScreenCurrent
<1> QED BY <1>1, Inductive, PTL
=============================================================================
