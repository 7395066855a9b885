\* Two vbuckets, two checkpoints each, temporary nacks; a 4-bit seqno
\* from 1 does not wrap within the bounds (the wrap has its own config).
CONSTANTS
    NumVBs = 2
    SeqBits = 4
    InitSeq = 1
    AckWindowSize = 2
    AckInterval = 2
    InitChk = 1
    MaxChk = 2
    MaxMutations = 3
    MaxNacks = 2
CHECK_DEADLOCK FALSE
SPECIFICATION Spec
INVARIANTS
    TypeOK
    NoReplicaItemIgnored
    CheckpointsSynced
    CheckpointMsgCounterExact
PROPERTIES
    CheckpointEventuallySynced
