SPECIFICATION LinkSpec
CONSTANTS
    MaxData = 2
    LineBytes <- MCLineBytes
    Frames <- ShortFrames
    NoAnswer = NoAnswer
    Garble <- MCGarble
    Environments <- AnyTime
INVARIANTS
    QuietBetweenFrames
PROPERTIES
    LatestFrame
