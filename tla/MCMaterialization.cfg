CONSTANTS
    Session = {s1, s2}
    Request = {w1, w2, w3}
    Job = {j1, j2, j3}
    NoJob = NoJob
    MaxQueued = 1
    MaxRevision = 2
SPECIFICATION Spec
SYMMETRY Symmetry
INVARIANTS
    JobTableSound
    NoOrphanWaiter
    SpeculationYields
    NoStall
    CapacityBounded
    RetiredOwnerDrained
PROPERTIES
    ImplementsService
CHECK_DEADLOCK FALSE
