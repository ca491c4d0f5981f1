CONSTANTS
    Source = {sourceA, sourceB}
    NoSource = NoSource
    Search = {}
    Discovery = {d1}
    MaxJob = 2
    MaxSourceRevision = 2
SPECIFICATION FairSpec
INVARIANTS
    SourceConsistent
PROPERTIES
    StoresReleased
CHECK_DEADLOCK FALSE
