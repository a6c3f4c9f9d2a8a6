CONSTANTS
    Files <- MCFiles
    TargetDir <- MCTargetDir
SPECIFICATION SourcesSpec
INVARIANTS
    LayoutIsTheWriters
    SourcesAreTheWriters
CHECK_DEADLOCK FALSE
