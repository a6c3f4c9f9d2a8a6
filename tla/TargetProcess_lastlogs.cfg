\* Lines written shortly before the program ends; all of them would fit.
CONSTANTS
    MaxLines <- MCMaxLines
    PipeCap = 2
    VectorCap = 1
    MaxRecent = 3
SPECIFICATION Spec
INVARIANTS
    LastLogsAreTheLast
CHECK_DEADLOCK FALSE
