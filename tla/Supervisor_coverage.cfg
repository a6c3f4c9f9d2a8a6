\* A run that is recorded as abnormal in coverage mode.
CONSTANTS
    MaxRuns = 2
    MaxTime = 0
SPECIFICATION FairSpec
PROPERTIES
    AbnormalRunIsRestarted
CHECK_DEADLOCK FALSE
