CONSTANTS
    here = here
    there = there
    first = first
    second = second
    Root = {here, there}
    NoRoot = NoRoot
    Source = {first, second}
    Listed <- MCListed
    Retries = 1
    Saved = {here}
    Started <- MCStarted
    MaxEvents = 3
SPECIFICATION FairSpec
INVARIANTS
    NeverStranded
    SourceAgrees
PROPERTIES
    OpensOnlyWanted
    ControlsUnlock
CHECK_DEADLOCK FALSE
