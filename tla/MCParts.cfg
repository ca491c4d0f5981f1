CONSTANTS
    tiny = tiny
    light = light
    small = small
    full = full
    large = large
    Session = {tiny, light, small, full, large}
    Bytes <- MCBytes
    MaxBytes = 5
    MaxCached = 2
    MaxSafeInteger = 6
    x = x
    y = y
    Letter = {x, y}
    Space = Space
    Phrases <- MCPhrases
    MaxPart = 3
    MaxText = 8
    Before = 1
    After = 2
    Concurrency = 2
    Projects <- MCProjects
    File = {1, 2, 3}
    Limit = 2
SPECIFICATION FairSpec
INVARIANTS
    WithinLimits
    MatchExact
    WindowBounded
    AnswerExact
PROPERTIES
    EvictsLeastRecent
    EvictsOnlyAsNeeded
    QueryEnds
CHECK_DEADLOCK FALSE
