SPECIFICATION Spec
CONSTANTS
    TimeSize = 48
    IntMax = 15
    Timeout = 6
    MaxStep = 2
INVARIANTS
    NotEarly
    NotLate
    HonestResult
    IndInv
PROPERTIES
    WaitEnds
