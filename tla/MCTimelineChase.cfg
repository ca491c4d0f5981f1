CONSTANTS
    s1 = s1
    s2 = s2
    text1 = text1
    text2 = text2
    NoText = NoText
    NoSession = NoSession
    Session = {s1}
    Expr <- MCExpr
    HitsAt <- MCHitsAt
    TimelineOf <- MCTimelineOf
    PageSize = 1
    Chunk = 2
    PreloadMin = 2
    PreloadMaxPages = 2
    MaxRevision = 1
    MaxActs = 2
    MaxQueue = 1
SPECIFICATION Spec
INVARIANT
    ChaseAppends
CHECK_DEADLOCK FALSE
