CONSTANTS
    Source = {sourceA, sourceB}
    NoSource = NoSource
    Search = {q1}
    Discovery = {}
    MaxJob = 3
    MaxSourceRevision = 1
SPECIFICATION Spec
SYMMETRY Symmetry
INVARIANTS
    LiveStoreOpen
    NoStoreLeaks
    OneJobMayCommit
    StatusPairsOwnIndex
    ClosedStoreNotPublished
PROPERTIES
    StatusIsFinal
CHECK_DEADLOCK FALSE
