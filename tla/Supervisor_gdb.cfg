\* Two runs under gdb and a clock that need not tick between them.
CONSTANTS
    MaxRuns = 2
    MaxTime = 1
SPECIFICATION Spec
INVARIANTS
    GdbLogIsOfItsRun
CHECK_DEADLOCK FALSE
