\* Sets only; the consumer may nack temporarily and the connection may break;
\* a one-interval ack window across the wrap of seqno.
CONSTANTS
    k1 = k1
    k2 = k2
    v1 = v1
    v2 = v2
    NoValue = NoValue
    Keys <- MCKeys
    Vals <- MCVals
    Absent = NoValue
    Ops = {"set"}
    Statuses = {"success", "tmpfail", "fail"}
    SeqBits = 3
    InitSeq = 5
    AckWindowSize = 1
    AckInterval = 2
    MaxClientOps = 4
    MaxNacks = 2
    MaxDrops = 1
    MaxEvicts = 1
CHECK_DEADLOCK FALSE
SPECIFICATION Spec
INVARIANTS
    ReplicaConverges
    InFlightWithinWindow
    WindowFullAwaitsAck
PROPERTIES
    EventuallyReplicated
