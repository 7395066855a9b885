--------------------- MODULE PersistenceNotification -----------------------
(***************************************************************************)
(* What requestCheckpointPersistence(id, notifyHandle) promises a client   *)
(* (spec.md, the interface exposed to the command layer): the answer is    *)
(* "already-satisfied" at once when checkpoint id of the vbucket is on     *)
(* disk, and "pending" otherwise; a pending request is answered once the   *)
(* checkpoint is persisted, and never before.  Checkpoints are created and *)
(* persisted one at a time, in order.                                      *)
(*                                                                         *)
(* CheckpointPersistence, the command handler with the flusher's           *)
(* high-priority list, is checked to implement this specification.        *)
(***************************************************************************)
EXTENDS Naturals

CONSTANTS Cookies, VBuckets, MaxChkId

VARIABLES
    openId,     \* vb -> the open checkpoint's id
    persisted,  \* vb -> the last checkpoint id on disk
    req,        \* cookie -> "idle", "pending" or "answered"
    want        \* cookie -> [vb, chk] of its current request

vars == <<openId, persisted, req, want>>

\* The client asks; the request is satisfied at once or left pending.
Ask(c, vb, chk) ==
    /\ req[c] = "idle"
    /\ want' = [want EXCEPT ![c] = [vb |-> vb, chk |-> chk]]
    /\ req' = [req EXCEPT ![c] = IF chk <= persisted[vb] THEN "answered" ELSE "pending"]
    /\ UNCHANGED <<openId, persisted>>

\* A pending request is answered once its checkpoint is on disk.
Answer(c) ==
    /\ req[c] = "pending"
    /\ want[c].chk <= persisted[want[c].vb]
    /\ req' = [req EXCEPT ![c] = "answered"]
    /\ UNCHANGED <<openId, persisted, want>>

\* The client takes the answer and may ask again.
Take(c) ==
    /\ req[c] = "answered"
    /\ req' = [req EXCEPT ![c] = "idle"]
    /\ UNCHANGED <<openId, persisted, want>>

\* The open checkpoint is closed and a new one opened.
Open(vb) ==
    /\ openId[vb] < MaxChkId
    /\ openId' = [openId EXCEPT ![vb] = @ + 1]
    /\ UNCHANGED <<persisted, req, want>>

\* The oldest closed checkpoint not yet on disk is persisted.
Flush(vb) ==
    /\ persisted[vb] < openId[vb] - 1
    /\ persisted' = [persisted EXCEPT ![vb] = @ + 1]
    /\ UNCHANGED <<openId, req, want>>

Init ==
    /\ openId = [vb \in VBuckets |-> 1]
    /\ persisted = [vb \in VBuckets |-> 0]
    /\ req = [c \in Cookies |-> "idle"]
    /\ want = [c \in Cookies |-> [vb |-> CHOOSE vb \in VBuckets : TRUE, chk |-> 0]]

Next ==
    \/ \E c \in Cookies, vb \in VBuckets, chk \in 1..MaxChkId : Ask(c, vb, chk)
    \/ \E c \in Cookies : Answer(c) \/ Take(c)
    \/ \E vb \in VBuckets : Open(vb) \/ Flush(vb)

\* Closed checkpoints reach the disk, and a satisfiable pending request is
\* answered; clients and checkpoint creation promise nothing.
Spec ==
    /\ Init /\ [][Next]_vars
    /\ \A vb \in VBuckets : WF_vars(Flush(vb))
    /\ \A c \in Cookies : WF_vars(Answer(c))

=============================================================================
