\* One takeover with no filter change: a client write racing the state
\* change is enough.
CONSTANTS
    VBs <- MCVBs
    Filters <- MCFilters
    InitFilter = {0, 1}
    MaxWrites = 2
    MaxChanges = 0
    MaxTakeoverLog = 3
CHECK_DEADLOCK FALSE
SPECIFICATION Spec
INVARIANT
    ActiveHasAll
