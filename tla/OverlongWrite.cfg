SPECIFICATION Spec
CONSTANTS
    MaxData = 6
    Frames <- ShortFrames
    Prompt = TRUE
INVARIANTS
    NoneRemainingMeansAllSent
