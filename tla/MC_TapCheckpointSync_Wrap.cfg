\* One vbucket and a 3-bit seqno that wraps after two messages: the
\* checkpoint_end check compares a post-wrap lastSeqNum with a pre-wrap
\* acked seqno.
CONSTANTS
    NumVBs = 1
    SeqBits = 3
    InitSeq = 6
    AckWindowSize = 2
    AckInterval = 2
    InitChk = 1
    MaxChk = 3
    MaxMutations = 3
    MaxNacks = 1
CHECK_DEADLOCK FALSE
SPECIFICATION Spec
INVARIANT
    NoReplicaItemIgnored
