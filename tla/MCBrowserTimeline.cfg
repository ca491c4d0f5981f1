CONSTANTS
    s1 = s1
    s2 = s2
    text1 = text1
    text2 = text2
    NoText = NoText
    NoSession = NoSession
    Session = {s1, s2}
    Expr <- MCExpr
    HitsAt <- MCHitsAt
    TimelineOf <- MCTimelineOf
    PageSize = 1
    Chunk = 2
    PreloadMin = 2
    PreloadMaxPages = 3
    MaxRevision = 2
    MaxActs = 3
    MaxQueue = 1
SPECIFICATION FairSpec
INVARIANTS
    ViewIsPrefix
    FlagsOwned
    BatchDiscipline
    ExhaustedMeansAllKnown
PROPERTIES
    TargetsNeverShrink
    BudgetKept
    SpinnerEnds
    NavigationEnds
    RecoveryEnds
CHECK_DEADLOCK FALSE
