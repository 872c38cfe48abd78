SPECIFICATION Spec
CONSTANTS
    ByteSize = 4
    Requests <- MCRequests
    FrameLengths = {1, 6}
    DebugLength = 5
    MaxPending = 3
INVARIANTS
    ResetCompleted
