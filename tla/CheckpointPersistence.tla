------------------------ MODULE CheckpointPersistence ------------------------
(***************************************************************************)
(* CMD_CHECKPOINT_PERSISTENCE: a client asks to be told when checkpoint   *)
(* chk_id of a vbucket is on disk (EventuallyPersistentEngine::            *)
(* handleCheckpointCmds in src/ep-engine/src/ep_engine.cc), and the        *)
(* flusher's high-priority vbucket list that holds the waiting requests    *)
(* (Flusher::addHighPriorityVBEntry and friends in flusher.cc).            *)
(*                                                                         *)
(* The command reads the vbucket's persisted checkpoint id into a          *)
(* uint16_t.  If the requested id is larger it registers the cookie with   *)
(* the flusher, marks the cookie's engine-specific slot and returns        *)
(* EWOULDBLOCK; the memcached core re-runs the command when it is          *)
(* notified, and with the slot marked the command answers success.         *)
(* The flusher's side (after a flush, notify every entry whose checkpoint  *)
(* is persisted and remove it) is in ep.cc, which is not part of the       *)
(* repository, and is modelled from the specification.  The width of the  *)
(* uint16_t is reduced to IdBits bits.                                     *)
(*                                                                         *)
(* The same connection may send the vbucket commands of ep_engine.cc       *)
(* (setVBucket, delVBucket), which share the cookie's engine-specific slot: *)
(* a synchronous delVBucket marks the slot and waits for the vbucket's      *)
(* database file to be removed, and its re-run clears it.  They act on     *)
(* DelVBuckets, kept apart from the vbuckets whose checkpoints are waited  *)
(* on.  EventuallyPersistentStore::setVBucketState and deleteVBucket are in *)
(* ep.cc and are modelled from the results delVBucket's switch names.      *)
(***************************************************************************)
EXTENDS Naturals, Sequences, SequencesExt

CONSTANTS
    Cookies,        \* client connections
    VBuckets,       \* vbucket ids
    IdBits,         \* width of the uint16_t persisted_chk_id (16 in the code)
    MaxChkId,       \* bound on checkpoint ids
    DelVBuckets,    \* vbuckets the vbucket commands act on
    VBStates,       \* states setVBucket may set (valid vbucket_state_t values)
    NoCookie,       \* no cookie (an asynchronous deletion)
    DeleteOnlyDead  \* clients send a synchronous delete only for a dead vbucket

ASSUME IdBits \in Nat \ {0} /\ MaxChkId \in Nat \ {0} /\ "dead" \in VBStates

VARIABLES
    openId,         \* vb -> the open checkpoint's id
    persisted,      \* vb -> persistence checkpoint id (VBucketMap, 64 bits)
    priorityVBList, \* Flusher::priorityVBList: vb -> list of [cookie, chkid]
    es,             \* cookie -> the engine-specific slot is set
    req,            \* cookie -> "idle", "adding", "waiting", "notified" or "answered"
    want,           \* cookie -> [vb, chk] of its current request
    askedAt,        \* cookie -> persisted id of its vbucket when it asked (ghost)
    cmd,            \* cookie -> "persist" or "delete": the command it runs
    status,         \* cookie -> "success" or "error": the answer's status
    delVb,          \* cookie -> the vbucket of its delVBucket
    vbState,        \* DelVBuckets -> a state of VBStates, or "missing"
    deleting        \* scheduled file deletions: [vb, cookie] (NoCookie if async)

vbVars == <<cmd, status, delVb, vbState, deleting>>
vars == <<openId, persisted, priorityVBList, es, req, want, askedAt, vbVars>>

ChkIds == 0..MaxChkId
Entry == [cookie : Cookies, chkid : ChkIds]

-----------------------------------------------------------------------------
(* The flusher's high-priority list                                       *)

\* Mutant: an entry for a vbucket that already has a list is not added.
addHighPriorityVBEntryFirstOnly(l, vb, chk, c) ==
    IF l[vb] = <<>> THEN [l EXCEPT ![vb] = <<[cookie |-> c, chkid |-> chk]>>] ELSE l

\* addHighPriorityVBEntry: append to the vbucket's list, creating it when
\* the map has none (an empty list stands for a missing map entry).
addHighPriorityVBEntry(l, vb, chk, c) ==
    [l EXCEPT ![vb] = Append(@, [cookie |-> c, chkid |-> chk])]

\* removeHighPriorityVBEntry: erase the first entry of the cookie; the map
\* entry goes when its list is empty.
removeHighPriorityVBEntry(l, vb, c) ==
    LET i == SelectInSeq(l[vb], LAMBDA e : e.cookie = c)
    IN  IF i = 0 THEN l ELSE [l EXCEPT ![vb] = RemoveAt(@, i)]

-----------------------------------------------------------------------------
(* CMD_CHECKPOINT_PERSISTENCE                                             *)

\* Mutant: the open checkpoint's id read instead of the persisted one.
PersistedChkIdOpen(vb) == openId[vb]

\* The persisted id as the uint16_t local holds it.
PersistedChkId16(vb) == persisted[vb] % (2 ^ IdBits)

\* Mutant: the request waits unless its id is strictly below the persisted one.
RequestGe(c, vb, chk) ==
    /\ req[c] = "idle"
    /\ cmd' = [cmd EXCEPT ![c] = "persist"]
    /\ status' = [status EXCEPT ![c] = "success"]
    /\ want' = [want EXCEPT ![c] = [vb |-> vb, chk |-> chk]]
    /\ askedAt' = [askedAt EXCEPT ![c] = persisted[vb]]
    /\ IF ~es[c] /\ chk >= PersistedChkId16(vb)
       THEN /\ req' = [req EXCEPT ![c] = "adding"]
            /\ UNCHANGED es
       ELSE /\ es' = [es EXCEPT ![c] = FALSE]
            /\ req' = [req EXCEPT ![c] = "answered"]
    /\ UNCHANGED <<openId, persisted, priorityVBList, delVb, vbState, deleting>>

\* A run of the command.  With the slot clear it reads the persisted id and
\* compares; with the slot set it takes itself for the re-run after a
\* notification, clears the slot and answers success.  A larger id goes on
\* to AddEntry: the read and the flusher's list are not under one lock.
Request(c, vb, chk) ==
    /\ req[c] = "idle"
    /\ cmd' = [cmd EXCEPT ![c] = "persist"]
    /\ status' = [status EXCEPT ![c] = "success"]
    /\ want' = [want EXCEPT ![c] = [vb |-> vb, chk |-> chk]]
    /\ askedAt' = [askedAt EXCEPT ![c] = persisted[vb]]
    /\ IF ~es[c] /\ chk > PersistedChkId16(vb)
       THEN /\ req' = [req EXCEPT ![c] = "adding"]
            /\ UNCHANGED es
       ELSE /\ es' = [es EXCEPT ![c] = FALSE]
            /\ req' = [req EXCEPT ![c] = "answered"]
    /\ UNCHANGED <<openId, persisted, priorityVBList, delVb, vbState, deleting>>

\* The rest of that run: addHighPriorityVBEntry under priorityVBMutex,
\* storeEngineSpecific and EWOULDBLOCK.  The flusher may have persisted the
\* checkpoint since the id was read.
AddEntry(c) ==
    /\ req[c] = "adding"
    /\ priorityVBList' = addHighPriorityVBEntry(priorityVBList, want[c].vb, want[c].chk, c)
    /\ es' = [es EXCEPT ![c] = TRUE]
    /\ req' = [req EXCEPT ![c] = "waiting"]
    /\ UNCHANGED <<openId, persisted, want, askedAt, vbVars>>

\* The command re-run after notification (CMD_CHECKPOINT_PERSISTENCE or a
\* synchronous delVBucket): the slot is cleared and the command answers
\* success.
Rerun(c) ==
    /\ req[c] = "notified" /\ es[c]
    /\ es' = [es EXCEPT ![c] = FALSE]
    /\ req' = [req EXCEPT ![c] = "answered"]
    /\ status' = [status EXCEPT ![c] = "success"]
    /\ UNCHANGED <<openId, persisted, priorityVBList, want, askedAt, cmd, delVb, vbState, deleting>>

\* The client reads the answer and may send another request.
Done(c) ==
    /\ req[c] = "answered"
    /\ req' = [req EXCEPT ![c] = "idle"]
    /\ UNCHANGED <<openId, persisted, priorityVBList, es, want, askedAt, vbVars>>

-----------------------------------------------------------------------------
(* setVBucket and delVBucket                                              *)

\* Mutant: a caller that passed a cookie is told the deletion is done at
\* once.
deleteVBucketNoWait(vb, c) ==
    CASE vbState[vb] = "missing" -> "not_my_vbucket"
      [] vbState[vb] # "dead"    -> "einval"
      [] OTHER                   -> "success"

\* EventuallyPersistentStore::deleteVBucket as delVBucket reads its result:
\* no vbucket, a vbucket that is not dead, or the removal of its file
\* scheduled (EWOULDBLOCK for a caller that passed a cookie).
deleteVBucket(vb, c) ==
    CASE vbState[vb] = "missing" -> "not_my_vbucket"
      [] vbState[vb] # "dead"    -> "einval"
      [] c = NoCookie            -> "success"
      [] OTHER                   -> "ewouldblock"

\* delVBucket; sync is the body "async=0".  A synchronous run with the slot
\* clear calls deleteVBucket with the cookie and then marks the slot,
\* whatever the result; with the slot set it clears it and answers success.
\* A scheduled deletion takes the vbucket out of the map.
DelVBucket(c, vb, sync) ==
    /\ req[c] = "idle"
    /\ sync /\ DeleteOnlyDead => vbState[vb] = "dead"
    /\ cmd' = [cmd EXCEPT ![c] = "delete"]
    /\ delVb' = [delVb EXCEPT ![c] = vb]
    /\ IF sync /\ es[c]
       THEN /\ es' = [es EXCEPT ![c] = FALSE]
            /\ req' = [req EXCEPT ![c] = "answered"]
            /\ status' = [status EXCEPT ![c] = "success"]
            /\ UNCHANGED <<vbState, deleting>>
       ELSE LET who == IF sync THEN c ELSE NoCookie
                r   == deleteVBucket(vb, who)
            IN  /\ IF r \in {"success", "ewouldblock"}
                   THEN /\ vbState' = [vbState EXCEPT ![vb] = "missing"]
                        /\ deleting' = deleting \cup {[vb |-> vb, cookie |-> who]}
                   ELSE UNCHANGED <<vbState, deleting>>
                /\ es' = IF sync THEN [es EXCEPT ![c] = TRUE] ELSE es
                /\ req' = [req EXCEPT ![c] = IF r = "ewouldblock" THEN "waiting" ELSE "answered"]
                /\ status' = [status EXCEPT ![c] = IF r = "success" THEN "success" ELSE "error"]
    /\ UNCHANGED <<openId, persisted, priorityVBList, want, askedAt>>

\* setVBucket with a valid state: setVBucketState creates the vbucket or
\* changes its state, and the command answers success.
SetVBucket(c, vb, st) ==
    /\ req[c] = "idle"
    /\ vbState' = [vbState EXCEPT ![vb] = st]
    /\ cmd' = [cmd EXCEPT ![c] = "set"]
    /\ req' = [req EXCEPT ![c] = "answered"]
    /\ status' = [status EXCEPT ![c] = "success"]
    /\ UNCHANGED <<openId, persisted, priorityVBList, es, want, askedAt, delVb, deleting>>

\* The vbucket deletion task removes the database file and notifies the
\* cookie that waits for it.
FileRemoved(d) ==
    /\ d \in deleting
    /\ deleting' = deleting \ {d}
    /\ req' = IF d.cookie = NoCookie THEN req ELSE [req EXCEPT ![d.cookie] = "notified"]
    /\ UNCHANGED <<openId, persisted, priorityVBList, es, want, askedAt, cmd, status, delVb, vbState>>

-----------------------------------------------------------------------------
(* Checkpoints and the flusher                                            *)

\* A new checkpoint is created (the open one is closed).
CreateCheckpoint(vb) ==
    /\ openId[vb] < MaxChkId
    /\ openId' = [openId EXCEPT ![vb] = @ + 1]
    /\ UNCHANGED <<persisted, priorityVBList, es, req, want, askedAt, vbVars>>

\* A flush persists the next closed checkpoint of the vbucket.
Persist(vb) ==
    /\ persisted[vb] < openId[vb] - 1
    /\ persisted' = [persisted EXCEPT ![vb] = @ + 1]
    /\ UNCHANGED <<openId, priorityVBList, es, req, want, askedAt, vbVars>>

\* After a flush the flusher notifies a waiting entry whose checkpoint is
\* persisted and removes it from the list.
NotifyPersisted(vb) ==
    /\ \E e \in ToSet(priorityVBList[vb]) :
       /\ e.chkid <= persisted[vb]
       /\ priorityVBList' = removeHighPriorityVBEntry(priorityVBList, vb, e.cookie)
       /\ req' = [req EXCEPT ![e.cookie] = "notified"]
    /\ UNCHANGED <<openId, persisted, es, want, askedAt, vbVars>>

-----------------------------------------------------------------------------

Init ==
    /\ openId = [vb \in VBuckets |-> 1]
    /\ persisted = [vb \in VBuckets |-> 0]
    /\ priorityVBList = [vb \in VBuckets |-> <<>>]
    /\ es = [c \in Cookies |-> FALSE]
    /\ req = [c \in Cookies |-> "idle"]
    /\ want = [c \in Cookies |-> [vb |-> CHOOSE vb \in VBuckets : TRUE, chk |-> 0]]
    /\ askedAt = [c \in Cookies |-> 0]
    /\ cmd = [c \in Cookies |-> "persist"]
    /\ status = [c \in Cookies |-> "success"]
    /\ delVb = [c \in Cookies |-> CHOOSE vb \in DelVBuckets : TRUE]
    /\ vbState \in [DelVBuckets -> VBStates]
    /\ deleting = {}

Next ==
    \/ \E c \in Cookies, vb \in VBuckets, chk \in 1..MaxChkId : Request(c, vb, chk)
    \/ \E c \in Cookies : AddEntry(c) \/ Rerun(c) \/ Done(c)
    \/ \E vb \in VBuckets : CreateCheckpoint(vb) \/ Persist(vb) \/ NotifyPersisted(vb)
    \/ \E c \in Cookies, vb \in DelVBuckets, sync \in BOOLEAN : DelVBucket(c, vb, sync)
    \/ \E c \in Cookies, vb \in DelVBuckets, st \in VBStates : SetVBucket(c, vb, st)
    \/ \E d \in deleting : FileRemoved(d)

\* The flusher runs until the disk queue is empty and checks its
\* high-priority list after each flush; the memcached core re-runs a
\* notified command, and a running command finishes.  Clients and checkpoint creation get no fairness.
Fairness ==
    /\ \A vb \in VBuckets : WF_vars(Persist(vb)) /\ WF_vars(NotifyPersisted(vb))
    /\ \A c \in Cookies : WF_vars(AddEntry(c)) /\ WF_vars(Rerun(c))

Spec == Init /\ [][Next]_vars /\ Fairness

-----------------------------------------------------------------------------
(* Properties                                                              *)

TypeOK ==
    /\ openId \in [VBuckets -> 1..MaxChkId] /\ persisted \in [VBuckets -> ChkIds]
    /\ priorityVBList \in [VBuckets -> Seq(Entry)]
    /\ es \in [Cookies -> BOOLEAN]
    /\ req \in [Cookies -> {"idle", "adding", "waiting", "notified", "answered"}]
    /\ cmd \in [Cookies -> {"persist", "delete", "set"}]
    /\ status \in [Cookies -> {"success", "error"}]
    /\ vbState \in [DelVBuckets -> VBStates \cup {"missing"}]
    /\ deleting \subseteq [vb : DelVBuckets, cookie : Cookies \cup {NoCookie}]

-----------------------------------------------------------------------------
(* Refinement of PersistenceNotification                                  *)

\* A request the handler has parked in the flusher's list, or whose cookie
\* the flusher has notified but the core has not yet re-run, is pending; a
\* connection running a vbucket command has no persistence request.
PendingReq == [c \in Cookies |->
                  CASE cmd[c] # "persist"                         -> "idle"
                    [] req[c] \in {"adding", "waiting", "notified"} -> "pending"
                    [] OTHER                                        -> req[c]]

Abstract == INSTANCE PersistenceNotification WITH req <- PendingReq

\* The command and the flusher together keep the promise of
\* requestCheckpointPersistence: a request is answered at once exactly when
\* its checkpoint is already on disk, a parked request is answered only
\* after the flush that persists its checkpoint, and every parked request
\* whose checkpoint is closed is answered (notification by the flusher,
\* then the core's re-run of the command).
PersistenceNotificationSpec == Abstract!Spec

\* A synchronous delVBucket answers success only once the vbucket's
\* database file is removed: no deletion scheduled for the cookie is still
\* pending when it is told the vbucket is deleted.
SyncDeleteWaitsForRemoval ==
    \A c \in Cookies :
        cmd[c] = "delete" /\ req[c] = "answered" /\ status[c] = "success"
            => \A d \in deleting : d.cookie # c

\* A request for a checkpoint that is already persisted is answered at
\* once and never waits for a flush (the specification's
\* requestCheckpointPersistence returns already-satisfied).
PersistedNotDelayed ==
    \A c \in Cookies : req[c] \in {"adding", "waiting", "notified"} => want[c].chk > askedAt[c]

=============================================================================
