SPECIFICATION Spec
CONSTANTS
    LineSize = 14
    Lines <- MCLines
    Keep = Keep
    StrayValues <- MCStrayValues
    MaxAhead = 2
    MaxLines = 3
INVARIANTS
    TextTypeOK
    LinesInStep
PROPERTIES
    LinesExecuted
