CONSTANTS
    large = large
    small = small
    Session = {large, small}
    Request = {w1}
    Job = {j1, j2}
    NoJob = NoJob
    MaxQueued = 1
    MaxRevision = 2
    Candidates <- MCCandidates
    Bytes <- MCBytes
    CandidateCap = 1
    BudgetBytes = 2
    IndividualBytes = 2
SPECIFICATION PrewarmFairSpec
INVARIANTS
    NoLostWakeup
PROPERTIES
    SpeculationWithinBudget
    RetiredLoopEnds
    PrewarmSettles
CHECK_DEADLOCK FALSE
