\* Two keys, sets and deletes, one eviction, no fault on the connection: the
\* walk hands an evicted key to a disk fetch, which may find the key, find
\* it deleted, or find it gone from disk but back in memory and retry.
CONSTANTS
    k1 = k1
    k2 = k2
    v1 = v1
    v2 = v2
    NoValue = NoValue
    Keys <- MCTwoKeys
    Vals <- MCVals
    Absent = NoValue
    Ops = {"set", "del"}
    Statuses = {"success"}
    SeqBits = 3
    InitSeq = 6
    AckWindowSize = 2
    AckInterval = 2
    MaxClientOps = 4
    MaxNacks = 0
    MaxDrops = 0
    MaxEvicts = 1
CHECK_DEADLOCK FALSE
SPECIFICATION Spec
INVARIANTS
    ReplicaConverges
PROPERTIES
    EventuallyReplicated
