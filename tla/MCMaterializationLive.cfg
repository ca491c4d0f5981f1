CONSTANTS
    Session = {s1, s2}
    Request = {w1, w2}
    Job = {j1, j2}
    NoJob = NoJob
    MaxQueued = 1
    MaxRevision = 2
SPECIFICATION FairSpec
PROPERTIES
    ImplementsFairService
CHECK_DEADLOCK FALSE
