\* The same documents: lines of a generated class that were not hit.
CONSTANTS
    Packages <- MCPackages
    AsyncMethods <- MCAsyncMethods
    MethodNames <- MCMethodNames
    Segments <- MCSegments
    MaxHits = 2
    Documents <- MCDocuments
    Cached <- MCCached
    Lookups <- MCLookups
SPECIFICATION Spec
INVARIANTS
    UncoveredKept
CHECK_DEADLOCK FALSE
