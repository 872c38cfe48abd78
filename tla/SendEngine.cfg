SPECIFICATION Spec
CONSTANTS
    MaxData = 6
    Frames <- ShortFrames
    Prompt = FALSE
INVARIANTS
    TypeOK
    WaitMeansSent
    FrameAsGiven
    IndInv
PROPERTIES
    SendsEveryBit
    WaitReturns
