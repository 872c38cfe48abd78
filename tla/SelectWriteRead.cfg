SPECIFICATION LinkSpec
CONSTANTS
    MaxData = 9
    LineBytes <- MCLineBytes
    Frames <- AckFrames
    NoAnswer = NoAnswer
    Garble <- NoGarble
    Environments <- BetweenReads
INVARIANTS
    ReadIsAnswer
