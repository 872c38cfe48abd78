SPECIFICATION Spec
CONSTANTS
    MaxData = 2
    LineBytes <- ControlAndAbortBytes
INVARIANTS
    TypeOK
    FrameIntact
    OnlyReceivedBytesSent
    FrameExistsWhenTaken
    IndInv
