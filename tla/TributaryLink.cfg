SPECIFICATION LinkSpec
CONSTANTS
    MaxData = 8
    LineBytes <- MCLineBytes
    Frames <- MCFrames
    NoAnswer = NoAnswer
    Garble <- NoGarble
    Environments <- InTheWait
INVARIANTS
    LinkTypeOK
    ResponseExact
    NoLostResponse
PROPERTIES
    AnsweredReadReturns
    NothingTorn
