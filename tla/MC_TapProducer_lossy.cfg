\* Sets and deletions; the consumer may fail hard and the connection may break.
CONSTANTS
    k1 = k1
    k2 = k2
    v1 = v1
    v2 = v2
    NoValue = NoValue
    Keys <- MCTwoKeys
    Vals <- MCVals
    Absent = NoValue
    Ops = {"set", "del"}
    Statuses = {"success", "fail"}
    SeqBits = 3
    InitSeq = 6
    AckWindowSize = 2
    AckInterval = 2
    MaxClientOps = 4
    MaxNacks = 0
    MaxDrops = 1
    MaxEvicts = 0
CHECK_DEADLOCK FALSE
SPECIFICATION Spec
INVARIANTS
    TypeOK
    ReplicaConverges
PROPERTIES
    EventuallyReplicated
