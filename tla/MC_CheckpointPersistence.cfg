\* Two clients, two vbuckets waited on and one vbucket set and deleted by
\* clients that delete synchronously only a dead vbucket, as the cluster
\* manager does; 2^IdBits exceeds every reachable id, as
\* 2^16 does in the code for all but very long-lived vbuckets.
CONSTANTS
    c1 = c1
    c2 = c2
    vb0 = vb0
    vb1 = vb1
    vb2 = vb2
    NoCookie = NoCookie
    Cookies <- MCCookies
    VBuckets <- MCVBuckets
    IdBits = 3
    MaxChkId = 3
    DelVBuckets <- MCDelVBuckets
    VBStates = {"active", "dead"}
    DeleteOnlyDead = TRUE
CHECK_DEADLOCK FALSE
SPECIFICATION Spec
INVARIANTS
    SyncDeleteWaitsForRemoval
PROPERTIES
    PersistenceNotificationSpec
