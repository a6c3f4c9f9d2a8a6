\* Three starts of the target, in every mode, with and without -auto.restart.
CONSTANTS
    MaxRuns = 3
    MaxTime = 1
SPECIFICATION FairSpec
INVARIANTS
    TypeOK
    OneTargetAlive
    HistoryIsTheRuns
    HandlersFollowTarget
    ReturnsForAReason
PROPERTIES
    ImplementsTargetRuns
    EndedRunIsHandled
    FailedRunIsRestarted
CHECK_DEADLOCK FALSE
