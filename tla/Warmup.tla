-------------------------------- MODULE Warmup --------------------------------
(***************************************************************************)
(* ep-engine's warmup (src/ep-engine/src/warmup.cc): the WarmupStepper    *)
(* task that the dispatcher runs to load persisted data at startup, the    *)
(* LoadStorageKVPairCallback that inserts each loaded item into the hash   *)
(* table, and Warmup::stop, called on another thread at shutdown.          *)
(*                                                                         *)
(* One active vbucket.  The store's I/O results (whether the mutation log  *)
(* is valid, whether the backend can dump keys, which access logs exist,   *)
(* a ReadException part way through a log, NOMEM from the hash table) are  *)
(* nondeterministic choices.  A key's entry in the hash table is "none",   *)
(* "key" (metadata only), "value" (value from disk) or "client" (a newer   *)
(* client write, once maybeEnableTraffic has opened the bucket).          *)
(*                                                                         *)
(* The step thread runs a handler, which may load items one by one, and   *)
(* then Warmup::transition, whose reads and write of the unsynchronised   *)
(* WarmupState::state are separate steps, as are stop()'s.                 *)
(***************************************************************************)
EXTENDS Naturals, Sequences, SequencesExt, FiniteSets

CONSTANTS
    Keys,           \* keys persisted in the vbucket
    HotKeys,        \* keys listed in the access log
    Expired,        \* persisted items whose expiry time has passed
    Faults,         \* I/O may fail: corrupt logs, NOMEM
    Traffic,        \* maybeEnableTraffic may open the bucket during warmup
    Shutdown,       \* Warmup::stop may be called
    StoredChk,      \* the vbucket's checkpoint id in the stored vbucket_state
    MaxChk          \* bound on checkpoints created by client traffic

ASSUME HotKeys \subseteq Keys /\ Expired \subseteq Keys
ASSUME Faults \in BOOLEAN /\ Traffic \in BOOLEAN /\ Shutdown \in BOOLEAN

Initialize == "Initialize"
LoadingMutationLog == "LoadingMutationLog"
EstimateDatabaseItemCount == "EstimateDatabaseItemCount"
KeyDump == "KeyDump"
CheckForAccessLog == "CheckForAccessLog"
LoadingAccessLog == "LoadingAccessLog"
LoadingKVPairs == "LoadingKVPairs"
LoadingData == "LoadingData"
Done == "Done"

States == {Initialize, LoadingMutationLog, EstimateDatabaseItemCount, KeyDump,
           CheckForAccessLog, LoadingAccessLog, LoadingKVPairs, LoadingData, Done}

\* WarmupState::legalTransition: the states each state may move to.
legalTransition(from) ==
    CASE from = Initialize -> {LoadingMutationLog}
      [] from = LoadingMutationLog -> {CheckForAccessLog, EstimateDatabaseItemCount}
      [] from = EstimateDatabaseItemCount -> {KeyDump}
      [] from = KeyDump -> {LoadingKVPairs, CheckForAccessLog}
      [] from = CheckForAccessLog -> {LoadingAccessLog, LoadingData}
      [] from = LoadingAccessLog -> {Done, LoadingData}
      [] from = LoadingKVPairs -> {Done}
      [] from = LoadingData -> {Done}
      [] OTHER -> {}

VARIABLES
    wstate,         \* WarmupState::state
    queued,         \* the WarmupStepper task is in the dispatcher's queue
    dead,           \* the task is cancelled (task_dead)
    pc,             \* the step thread: "idle", "run", "load", "read", "check", "write", "ret", "aborted"
    to,             \* the target of the transition in progress
    todo,           \* keys the running load has still to deliver
    phase,          \* the load in progress: its state, and "old" for the old access log
    thrown,         \* the running load has thrown MutationLog::ReadException
    purged,         \* LoadStorageKVPairCallback::hasPurged of the current callback
    valuesWarmed,   \* stats.warmedUpValues > 0
    reconstructLog, \* Warmup::reconstructLog
    committed,      \* the reconstructed mutation log was committed
    ht,             \* key -> "none", "key", "value" or "client"
    dropped,        \* keys not loaded because of NOMEM (counted in warmOOM)
    traffic,        \* the bucket is open to clients
    written,        \* keys clients have written (ghost)
    chkList,        \* the vbucket's checkpoint ids, the open one last
    io,             \* the store's I/O facts for this run
    spc,            \* the stop thread: "idle", "read", "write", "done", "stopped"
    completed,      \* calls of store->warmupCompleted() (done())
    warmupComplete  \* stats.warmupComplete

vars == <<wstate, queued, dead, pc, to, todo, phase, thrown, purged, valuesWarmed,
          reconstructLog, committed, ht, dropped, traffic, written, chkList, io,
          spc, completed, warmupComplete>>

\* The store's I/O facts: the mutation log is valid, the backend supports
\* key dump, the current and the old access log exist.
IOFacts == [mlogValid : BOOLEAN, keyDumpSupported : BOOLEAN,
            currExists : BOOLEAN, oldExists : BOOLEAN]

loadVars == <<todo, phase, thrown, purged, valuesWarmed>>

-----------------------------------------------------------------------------
(* Loading items: createLKVPCB and LoadStorageKVPairCallback              *)

\* initVBucket with the stored state's checkpoint id plus one:
\* setOpenCheckpointId relabels the open checkpoint, the last of the list.
initVBucket(l) == [l EXCEPT ![Len(l)] = StoredChk + 1]

\* createLKVPCB: a new callback (hasPurged false), and initVBucket for the
\* vbucket, on every call.
createLKVPCB(p, keys) ==
    /\ todo' = keys /\ phase' = p /\ thrown' = FALSE /\ purged' = FALSE
    /\ chkList' = initVBucket(chkList)

\* HashTable::insert (stored-value.cc, not in the repository): a newer
\* client value or a resident value is kept (INVALID_CAS); otherwise the
\* item is stored, metadata only for a partial item.
Insert(cur, partial) ==
    IF cur \in {"client", "value"} THEN cur
    ELSE IF partial THEN IF cur = "none" THEN "key" ELSE cur
    ELSE "value"

\* Mutant: the purge ejects dirty client values too.
purgeAll(h) == [k \in Keys |-> IF h[k] \in {"value", "client"} THEN "key" ELSE h[k]]

\* EmergencyPurgeVisitor: eject every value that can be ejected (a dirty
\* client value cannot).
purge(h) == [k \in Keys |-> IF h[k] = "value" THEN "key" ELSE h[k]]

\* The states whose callbacks count warmedUpValues.
CountsValues(p) == p \in {LoadingData, LoadingAccessLog, LoadingKVPairs, "old"}

\* LoadStorageKVPairCallback::callback for the item of key k, where the
\* insert returns NOMEM the first nomem times: the first NOMEM purges
\* (once per callback), up to three attempts are made, and an item that
\* never fits is dropped.  A stored or ignored (INVALID_CAS) item whose
\* disk copy has expired is then deleted from the hash table with force.
LoadItem(k, nomem) ==
    LET h1 == IF nomem >= 1 /\ ~purged THEN purge(ht) ELSE ht
        succeeded == nomem < 3
        expired == k \in Expired
        h2 == IF succeeded THEN [h1 EXCEPT ![k] = Insert(h1[k], phase \in {LoadingMutationLog, KeyDump})] ELSE h1
    IN  /\ ht' = IF succeeded /\ expired THEN [h2 EXCEPT ![k] = "none"] ELSE h2
        /\ purged' = (purged \/ nomem >= 1)
        /\ dropped' = IF succeeded THEN dropped ELSE dropped \cup {k}

\* One item delivered to the callback; the callbacks of the access log and
\* LoadingData phases may open the bucket (maybeEnableTraffic).
DeliverItem ==
    /\ pc = "load" /\ ~thrown
    /\ \E k \in todo, nomem \in (IF Faults THEN 0..3 ELSE {0}) :
       /\ LoadItem(k, nomem)
       /\ todo' = todo \ {k}
    /\ valuesWarmed' = (valuesWarmed \/ CountsValues(phase))
    /\ traffic' \in IF Traffic /\ phase \in {LoadingAccessLog, "old", LoadingData}
                    THEN {traffic, TRUE} ELSE {traffic}
    /\ UNCHANGED <<wstate, queued, dead, pc, to, phase, thrown, reconstructLog,
                   committed, written, chkList, io, spc, completed, warmupComplete>>

\* A log read throws MutationLog::ReadException part way through.
LogCorrupt ==
    /\ pc = "load" /\ ~thrown /\ Faults
    /\ phase \in {LoadingMutationLog, LoadingAccessLog, "old"}
    /\ thrown' = TRUE
    /\ UNCHANGED <<wstate, queued, dead, pc, to, todo, phase, purged, valuesWarmed,
                   reconstructLog, committed, ht, dropped, traffic, written,
                   chkList, io, spc, completed, warmupComplete>>

-----------------------------------------------------------------------------
(* Warmup::transition, called at the end of each handler: it reads the    *)
(* state, gives up if it is Done, and otherwise calls                      *)
(* WarmupState::transition, which checks legalTransition against the      *)
(* state it reads again and then writes it.  An illegal transition throws  *)
(* std::runtime_error, which Warmup::step catches and answers with abort(). *)

\* The handler has finished and calls transition(t).
CallTransition(t) == pc' = "read" /\ to' = t

TransRead ==
    /\ pc = "read"
    /\ pc' = IF wstate = Done THEN "ret" ELSE "check"
    /\ UNCHANGED <<wstate, queued, dead, to, loadVars, reconstructLog, committed,
                   ht, dropped, traffic, written, chkList, io, spc, completed, warmupComplete>>

TransCheck ==
    /\ pc = "check"
    /\ pc' = IF to \in legalTransition(wstate) THEN "write" ELSE "aborted"
    /\ UNCHANGED <<wstate, queued, dead, to, loadVars, reconstructLog, committed,
                   ht, dropped, traffic, written, chkList, io, spc, completed, warmupComplete>>

TransWrite ==
    /\ pc = "write"
    /\ wstate' = to /\ pc' = "ret"
    /\ UNCHANGED <<queued, dead, to, loadVars, reconstructLog, committed,
                   ht, dropped, traffic, written, chkList, io, spc, completed, warmupComplete>>

\* Mutant: a handler returns false after its transition; the task is not
\* rescheduled.
ReturnFalse ==
    /\ pc = "ret"
    /\ pc' = "idle"
    /\ UNCHANGED <<wstate, queued, dead, to, loadVars, reconstructLog, committed,
                   ht, dropped, traffic, written, chkList, io, spc, completed, warmupComplete>>

\* The handler returns true and Dispatcher::run reschedules the task.
Return ==
    /\ pc = "ret"
    /\ pc' = "idle" /\ queued' = TRUE
    /\ UNCHANGED <<wstate, dead, to, loadVars, reconstructLog, committed,
                   ht, dropped, traffic, written, chkList, io, spc, completed, warmupComplete>>

-----------------------------------------------------------------------------
(* The handlers, as Warmup::step dispatches them on the state.            *)

initialize == CallTransition(LoadingMutationLog) /\ UNCHANGED <<loadVars, chkList>>

loadingMutationLog ==
    /\ pc' = "load" /\ UNCHANGED to
    /\ createLKVPCB(LoadingMutationLog, IF io.mlogValid THEN Keys ELSE {})
    /\ UNCHANGED valuesWarmed

estimateDatabaseItemCount == CallTransition(KeyDump) /\ UNCHANGED <<loadVars, chkList>>

\* Mutant: the keys are taken as dumped even when the backend cannot dump.
keyDumpIgnoresSupport ==
    IF io.keyDumpSupported
    THEN /\ pc' = "load" /\ UNCHANGED to
         /\ createLKVPCB(KeyDump, Keys) /\ UNCHANGED valuesWarmed
    ELSE CallTransition(CheckForAccessLog) /\ UNCHANGED <<loadVars, chkList>>

keyDump ==
    IF io.keyDumpSupported
    THEN /\ pc' = "load" /\ UNCHANGED to
         /\ createLKVPCB(KeyDump, Keys) /\ UNCHANGED valuesWarmed
    ELSE CallTransition(LoadingKVPairs) /\ UNCHANGED <<loadVars, chkList>>

checkForAccessLog ==
    /\ CallTransition(IF io.currExists \/ io.oldExists THEN LoadingAccessLog ELSE LoadingData)
    /\ UNCHANGED <<loadVars, chkList>>

loadingAccessLog ==
    /\ pc' = "load" /\ UNCHANGED to
    /\ createLKVPCB(LoadingAccessLog, IF io.currExists THEN HotKeys ELSE {})
    /\ UNCHANGED valuesWarmed

loadingKVPairs ==
    /\ pc' = "load" /\ UNCHANGED to
    /\ createLKVPCB(LoadingKVPairs, Keys) /\ UNCHANGED valuesWarmed

loadingData ==
    /\ pc' = "load" /\ UNCHANGED to
    /\ createLKVPCB(LoadingData, Keys) /\ UNCHANGED valuesWarmed

\* done(): store->warmupCompleted(), warmupComplete set; it returns false.
done ==
    /\ completed' = completed + 1 /\ warmupComplete' = TRUE
    /\ pc' = "idle"
    /\ UNCHANGED <<to, loadVars, chkList>>

\* Warmup::step: the handler of the current state.
step ==
    /\ CASE wstate = Initialize -> initialize
      [] wstate = LoadingMutationLog -> loadingMutationLog
      [] wstate = EstimateDatabaseItemCount -> estimateDatabaseItemCount
      [] wstate = KeyDump -> keyDump
      [] wstate = CheckForAccessLog -> checkForAccessLog
      [] wstate = LoadingAccessLog -> loadingAccessLog
      [] wstate = LoadingKVPairs -> loadingKVPairs
      [] wstate = LoadingData -> loadingData
      [] wstate = Done -> done
    /\ wstate # Done => UNCHANGED <<completed, warmupComplete>>

\* Dispatcher::run pops the task under the task's mutex: a cancelled task
\* (task_dead) is dropped; otherwise the mutex is released and the thread
\* goes on to run it.  Warmup::stop can cancel the task in between.
DispatchPick ==
    /\ pc = "idle" /\ queued
    /\ queued' = FALSE
    /\ pc' = IF dead THEN "idle" ELSE "run"
    /\ UNCHANGED <<wstate, dead, to, loadVars, reconstructLog, committed, ht, dropped,
                   traffic, written, chkList, io, spc, completed, warmupComplete>>

\* task->run: Warmup::step on the state it finds now.  A handler that
\* returns true is rescheduled (Return); done() returns false and the task
\* is not.
DispatchRun ==
    /\ pc = "run"
    /\ step
    /\ UNCHANGED <<wstate, queued, dead, reconstructLog, committed, ht, dropped, traffic,
                   written, io, spc>>

-----------------------------------------------------------------------------
(* The rest of each loading handler, once the backend has delivered every *)
(* item or the log read has thrown.                                        *)

\* The reconstructed mutation log is committed (commit1, commit2) and
\* reconstructLog cleared.
Commit ==
    /\ committed' = (committed \/ reconstructLog)
    /\ reconstructLog' = FALSE

\* loadingMutationLog after warmupFromLog: on failure the log is reset and,
\* if reset() says so, rebuilt during the key dump.
loadingMutationLogEnd ==
    /\ UNCHANGED committed
    /\ IF io.mlogValid /\ ~thrown
       THEN CallTransition(CheckForAccessLog) /\ UNCHANGED reconstructLog
       ELSE /\ \E reset \in BOOLEAN : reconstructLog' = (reconstructLog \/ reset)
            /\ CallTransition(EstimateDatabaseItemCount)

\* Mutant: a failed access-log load falls back to the full dump.
accessLogDoneKVPairs(success) ==
    IF success /\ valuesWarmed
    THEN Commit /\ CallTransition(Done)
    ELSE CallTransition(LoadingKVPairs) /\ UNCHANGED <<reconstructLog, committed>>

\* The end of loadingAccessLog: success with warmed values ends warmup,
\* otherwise the values are loaded by LoadingData.
accessLogDone(success) ==
    IF success /\ valuesWarmed
    THEN Commit /\ CallTransition(Done)
    ELSE CallTransition(LoadingData) /\ UNCHANGED <<reconstructLog, committed>>

\* loadingAccessLog after the current log: when it is missing or corrupt
\* the old log is loaded with the same callback.
loadingAccessLogEnd ==
    IF phase = LoadingAccessLog /\ ~(io.currExists /\ ~thrown) /\ io.oldExists
    THEN /\ todo' = HotKeys /\ phase' = "old" /\ thrown' = FALSE
         /\ UNCHANGED <<pc, to, purged, reconstructLog, committed>>
    ELSE /\ accessLogDone(IF phase = "old" THEN ~thrown ELSE io.currExists /\ ~thrown)
         /\ UNCHANGED <<todo, phase, thrown, purged>>

LoadEnd ==
    /\ pc = "load" /\ (todo = {} \/ thrown)
    /\ CASE phase = LoadingMutationLog ->
              loadingMutationLogEnd /\ UNCHANGED <<todo, phase, thrown, purged>>
      [] phase = KeyDump ->
              CallTransition(CheckForAccessLog)
              /\ UNCHANGED <<todo, phase, thrown, purged, reconstructLog, committed>>
      [] phase \in {LoadingAccessLog, "old"} -> loadingAccessLogEnd
      [] phase = LoadingKVPairs ->
              Commit /\ CallTransition(Done) /\ UNCHANGED <<todo, phase, thrown, purged>>
      [] phase = LoadingData ->
              CallTransition(Done)
              /\ UNCHANGED <<todo, phase, thrown, purged, reconstructLog, committed>>
    /\ UNCHANGED <<wstate, queued, dead, valuesWarmed, ht, dropped, traffic, written,
                   chkList, io, spc, completed, warmupComplete>>

-----------------------------------------------------------------------------
(* Warmup::stop, on the shutdown thread: cancel the task, force Done (its  *)
(* own Warmup::transition, read then write), and call done().             *)

StopCancel ==
    /\ Shutdown /\ spc = "idle"
    /\ dead' = TRUE /\ spc' = "read"
    /\ UNCHANGED <<wstate, queued, pc, to, loadVars, reconstructLog, committed, ht,
                   dropped, traffic, written, chkList, io, completed, warmupComplete>>

StopRead ==
    /\ spc = "read"
    /\ spc' = IF wstate # Done THEN "write" ELSE "done"
    /\ UNCHANGED <<wstate, queued, dead, pc, to, loadVars, reconstructLog, committed,
                   ht, dropped, traffic, written, chkList, io, completed, warmupComplete>>

StopWrite ==
    /\ spc = "write"
    /\ wstate' = Done /\ spc' = "done"
    /\ UNCHANGED <<queued, dead, pc, to, loadVars, reconstructLog, committed, ht,
                   dropped, traffic, written, chkList, io, completed, warmupComplete>>

StopDone ==
    /\ spc = "done"
    /\ spc' = "stopped" /\ completed' = completed + 1 /\ warmupComplete' = TRUE
    /\ UNCHANGED <<wstate, queued, dead, pc, to, loadVars, reconstructLog, committed,
                   ht, dropped, traffic, written, chkList, io>>

-----------------------------------------------------------------------------
(* Clients, once traffic is enabled (ep.cc, not in the repository).       *)

\* A client stores a new value for k.
ClientSet(k) ==
    /\ traffic
    /\ ht' = [ht EXCEPT ![k] = "client"] /\ written' = written \cup {k}
    /\ UNCHANGED <<wstate, queued, dead, pc, to, loadVars, reconstructLog, committed,
                   dropped, traffic, chkList, io, spc, completed, warmupComplete>>

\* The vbucket closes its open checkpoint and opens the next one.
CreateCheckpoint ==
    /\ traffic /\ Len(chkList) < MaxChk
    /\ chkList' = Append(chkList, Last(chkList) + 1)
    /\ UNCHANGED <<wstate, queued, dead, pc, to, loadVars, reconstructLog, committed,
                   ht, dropped, traffic, written, io, spc, completed, warmupComplete>>

-----------------------------------------------------------------------------

\* Warmup::start has scheduled the task; the vbucket's checkpoint manager
\* holds its first open checkpoint.
Init ==
    /\ wstate = Initialize /\ queued = TRUE /\ dead = FALSE
    /\ pc = "idle" /\ to = Initialize
    /\ todo = {} /\ phase = Initialize /\ thrown = FALSE /\ purged = FALSE
    /\ valuesWarmed = FALSE /\ reconstructLog = FALSE /\ committed = FALSE
    /\ ht = [k \in Keys |-> "none"] /\ dropped = {}
    /\ traffic = FALSE /\ written = {} /\ chkList = <<1>>
    /\ io \in IOFacts
    /\ spc = "idle" /\ completed = 0 /\ warmupComplete = FALSE

\* StepThread: the dispatcher thread running the task.  abort() ends the
\* process: nothing moves after it.
StepThread ==
    DispatchPick \/ DispatchRun \/ DeliverItem \/ LogCorrupt \/ LoadEnd
    \/ TransRead \/ TransCheck \/ TransWrite \/ Return

StopThread == StopCancel \/ StopRead \/ StopWrite \/ StopDone

Next ==
    /\ pc # "aborted"
    /\ \/ StepThread \/ StopThread
       \/ \E k \in Keys : ClientSet(k)
       \/ CreateCheckpoint

\* The dispatcher thread keeps running a queued task and a running handler
\* runs to its end; stop() runs to its end once called, unless the step
\* thread has aborted the process.  Log corruption and clients get no
\* fairness.  Each fair action is a sub-action of Next.
Fairness ==
    /\ WF_vars(DispatchPick) /\ WF_vars(DispatchRun) /\ WF_vars(DeliverItem)
    /\ WF_vars(LoadEnd) /\ WF_vars(TransRead) /\ WF_vars(TransCheck)
    /\ WF_vars(TransWrite) /\ WF_vars(Return)
    /\ WF_vars(pc # "aborted" /\ StopRead) /\ WF_vars(pc # "aborted" /\ StopWrite)
    /\ WF_vars(pc # "aborted" /\ StopDone)

Spec == Init /\ [][Next]_vars /\ Fairness

-----------------------------------------------------------------------------
(* Properties                                                              *)

\* When the step thread's done() has completed warmup (not stop()), every
\* persisted key that has not expired is in the hash table, at least as
\* metadata, or was counted as dropped for lack of memory: whatever mix of
\* mutation log, key dump, access logs and full dump the I/O allowed.
KeysResident ==
    warmupComplete /\ ~dead =>
        \A k \in Keys \ Expired : ht[k] # "none" \/ k \in dropped

\* A value a client wrote after traffic was enabled is never replaced or
\* removed by the load that is still running (INVALID_CAS keeps it, the
\* emergency purge cannot eject a dirty value).
ClientWritesKept == \A k \in written : ht[k] = "client"

\* Warmup completes (done() is called, by the step thread or by stop())
\* unless an illegal transition has aborted the process, which NoAbort
\* reports on its own.
WarmupCompletes == <>(warmupComplete \/ pc = "aborted")

\* Checkpoint ids of a vbucket increase along its checkpoint list.
ChkIdsIncreasing == \A i \in 1..Len(chkList) - 1 : chkList[i] < chkList[i + 1]

\* Warmup never aborts the process.
NoAbort == pc # "aborted"

\* Once stop() has called done(), the cancelled task never calls done()
\* again: the dispatcher drops it instead of running the Done handler.
NoCompletionAfterStop == [][spc = "stopped" => completed' = completed]_vars

=============================================================================
