\* A channel of one and a pipe of two: both are full at times with four pieces.
\* Every table of four processes, to which two things happen during a walk.
CONSTANTS
    ChanCap = 1
    PipeCap = 2
    MaxPieces = 4
    Pids <- MCPids
    Root = 3
    DirOrder <- MCDirOrder
    Cmdlines <- MCCmdlines
    StartupParam = "app.dll"
    IsDll = TRUE
    MaxEvents = 2
    Texts <- MCTexts
    MaxLines = 5
SPECIFICATION FairPagesSpec
INVARIANTS
    OutputIsWhole
    DebuggerIsReaped
    TargetIsResolved
    ListIsOfTheProcesses
    PageShowsTheOutput
PROPERTIES
    PageIsAnswered
CHECK_DEADLOCK FALSE
