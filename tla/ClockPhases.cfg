SPECIFICATION ClockSpec
CONSTANTS
    MaxData = 34
    Frames <- MCFrames
    Prompt = TRUE
INVARIANTS
    ClockTypeOK
    OnePulsePerBit
    DataOnlyWhenReady
    RestAtMark
PROPERTIES
    StableWhileClocked
