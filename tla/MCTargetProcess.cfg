\* Two lines on stdout and one on stderr; the last two are kept; one fits
\* vector's standard input.
CONSTANTS
    MaxLines <- MCMaxLines
    PipeCap = 2
    VectorCap = 1
    MaxRecent = 2
SPECIFICATION FairSpec
INVARIANTS
    StreamIntact
    RecentIsWindow
    VectorGapless
PROPERTIES
    ImplementsTargetRun
    ConsumersReturn
CHECK_DEADLOCK FALSE
