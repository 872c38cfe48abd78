SPECIFICATION BitSpec
CONSTANTS
    MaxData = 7
    LineBytes <- AllBytes
    Frames <- MCFrames
    NoAnswer = NoAnswer
    Garble <- AllBytes
    Environments <- InTheWait
INVARIANTS
    BitTypeOK
    InStep
PROPERTIES
    CharactersOnly
