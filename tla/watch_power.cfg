\* The wireless image, a chime of two ticks in a window of three; the wearer and
\* the host act three times.  A watch that is off may stay off.
CONSTANTS
    UsbMic = FALSE
    Window = 3
    ChimeTicks = 2
    BuzzTicks = 1
    MaxInputs = 3
SPECIFICATION FairSpec
CHECK_DEADLOCK FALSE
INVARIANTS
    PanelAgrees
    AsleepHandsOff
PROPERTIES
    ChimeUncut
    WakingClickKeepsAwake
    LeftAloneGoesDark
