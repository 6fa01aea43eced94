\* Five touches, presses, polls with payloads and link changes.  A watch that is off stays
\* off.
CONSTANT MaxInputs = 5
SPECIFICATION FairSpec
CHECK_DEADLOCK FALSE
INVARIANTS
    KeysReleased
    OneEffect
    ScreenCurrent
PROPERTIES
    VoiceClickEnds
