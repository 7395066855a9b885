\* Two vbuckets taken over together, one filter change, two writes; a
\* takeover tap-log threshold of 3 (MAX_TAKEOVER_TAP_LOG_SIZE) lets a
\* vbucket go dead while earlier items are still unacked, and be refused.
CONSTANTS
    VBs <- MCVBs
    Filters <- MCFilters
    InitFilter = {0, 1}
    MaxWrites = 2
    MaxChanges = 1
    MaxTakeoverLog = 3
CHECK_DEADLOCK FALSE
SPECIFICATION Spec
INVARIANTS
    TypeOK
    ExclusiveOwnership
PROPERTIES
    TakeoverCompletes
