\* Every document of three classes, with any packages excluded.
CONSTANTS
    Packages <- MCPackages
    AsyncMethods <- MCAsyncMethods
    MethodNames <- MCMethodNames
    Segments <- MCSegments
    MaxHits = 2
    Documents <- MCDocuments
    Cached <- MCCached
    Lookups <- MCLookups
SPECIFICATION Spec
INVARIANTS
    CoverageKept
    NoGeneratedNextToParent
    ClassesAgree
    MissingSourcesAreFound
CHECK_DEADLOCK FALSE
