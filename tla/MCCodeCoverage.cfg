SPECIFICATION FairSpec
CONSTANTS
    Callers = {1, 2, 3}
    MaxRequests = 3
    p = p
    q = q
    n = n
    Pdbs <- MCPdbs
    Documents <- MCDocuments
    PdbLists <- MCPdbLists
    maxCoverageHistory = 2
    MaxCrashes = 1
INVARIANTS
    HistoryIsTheLast
    AnsweredTruthfully
    IndexedIsWhole
PROPERTIES
    CollectionEnds
CHECK_DEADLOCK FALSE
