------------------------------- MODULE Flusher -------------------------------
(***************************************************************************)
(* The flusher task of ep-engine (src/ep-engine/src/flusher.cc) and the    *)
(* dispatcher loop that runs it (dispatcher.cc).                           *)
(*                                                                         *)
(* Flusher::_state is a plain field written by two kinds of thread:        *)
(*   - the dispatcher thread, inside Flusher::step (initialize, the        *)
(*     pausing -> paused move in step and doFlush, stopping -> stopped);   *)
(*   - control threads calling pause(), resume() and stop(force).          *)
(* transition_state reads _state in validTransition and writes it later,   *)
(* with no lock between them (taskMutex is taken only after the write),    *)
(* so each call of transition_state is two steps here: a check and a       *)
(* write.  The write also cancels the current task and schedules a new     *)
(* one.                                                                    *)
(*                                                                         *)
(* The store is abstracted to counters: dirty items not yet taken by a    *)
(* flush, items in the outgoing flush queue, and totals written and        *)
(* persisted.  The store operations (beginFlush, flushOutgoingQueue,       *)
(* diskQueueEmpty) live in ep.cc, which is not part of the repository, and *)
(* are modelled from the specification.  Sleep times (computeMinSleepTime, *)
(* snooze) only delay a ready task and are not modelled.                   *)
(***************************************************************************)
EXTENDS Integers

CONSTANTS
    Ctl,          \* control threads calling pause/resume/stop
    CtlOps,       \* operations they may call: "pause","resume","stop","forcestop"
    MaxCtlOps,    \* bound on the number of control calls
    MaxWrites     \* bound on the number of client mutations

ASSUME CtlOps \subseteq {"pause", "resume", "stop", "forcestop"}
ASSUME MaxCtlOps \in Nat /\ MaxWrites \in Nat

States == {"initializing", "running", "pausing", "paused", "stopping", "stopped"}

VARIABLES
    fstate,       \* Flusher::_state
    forceShutdownReceived,
    taskLive,     \* a non-cancelled flusher task is queued in the dispatcher
    spc,          \* where the dispatcher thread is inside Flusher::step
    curLive,      \* the task being run has not been cancelled
    sto,          \* target of the step thread's transition_state call
    sk,           \* where step continues after that call
    inStop,       \* the doFlush being run is one pass of completeFlush
    fq,           \* Flusher::flushQueue is non-NULL
    outgoing,     \* items in the outgoing flush queue
    dirty,        \* dirty items not yet taken by beginFlush
    written,      \* client mutations so far
    persisted,    \* items written to disk so far
    cpc,          \* per control thread: "idle", "check" or "write"
    cto,          \* per control thread: target of its transition_state call
    ctlOps,       \* control calls made so far
    stopMark      \* written when the first stop(false) succeeded, else -1

vars == <<fstate, forceShutdownReceived, taskLive, spc, curLive, sto, sk,
          inStop, fq, outgoing, dirty, written, persisted, cpc, cto, ctlOps,
          stopMark>>
stepVars == <<spc, curLive, sto, sk, inStop>>
storeVars == <<fq, outgoing, dirty, written, persisted>>
ctlVars == <<cpc, cto, ctlOps, stopMark>>

Active == {"initializing", "running", "pausing", "stopping"}

(* validTransition(from, to) *)
validTransition(from, to) ==
    IF to = "stopping" THEN from # "stopped"
    ELSE <<from, to>> \in {<<"initializing", "running">>, <<"running", "pausing">>,
                           <<"pausing", "paused">>, <<"pausing", "running">>,
                           <<"paused", "running">>, <<"stopping", "stopped">>}

(* EventuallyPersistentStore::diskQueueEmpty / outgoingQueueEmpty (ep.cc) *)
DiskQueueEmpty == dirty = 0 /\ outgoing = 0

(* The end of Flusher::step: the dispatcher reschedules the task when step *)
(* returns true, unless the task was cancelled meanwhile.                  *)
Finish(ret, live, cl) ==
    /\ spc' = "idle"
    /\ taskLive' = (live \/ (ret /\ cl))

(* Continue step after a transition_state call, at continuation k. *)
Continue(k, live, cl) ==
    IF k \in {"retTrue", "retFalse"}
    THEN Finish(k = "retTrue", live, cl)
    ELSE spc' = k /\ taskLive' = live

(* Step calls transition_state(to) and then continues at k. *)
CallTransition(to, k) == spc' = "trans" /\ sto' = to /\ sk' = k

(* Dispatcher::run pops the live task and runs Flusher::step, which       *)
(* switches on _state.                                                     *)
DispatchStep ==
    /\ spc = "idle" /\ taskLive
    /\ curLive' = TRUE
    /\ \/ fstate = "initializing" /\ CallTransition("running", "retTrue")
          /\ taskLive' = FALSE /\ UNCHANGED inStop
       \/ fstate = "pausing" /\ CallTransition("paused", "retFalse")
          /\ taskLive' = FALSE /\ UNCHANGED inStop
       \/ fstate = "running" /\ spc' = "flush" /\ inStop' = FALSE
          /\ taskLive' = FALSE /\ UNCHANGED <<sto, sk>>
       \/ fstate = "stopping" /\ spc' = "complete"
          /\ taskLive' = FALSE /\ UNCHANGED <<sto, sk, inStop>>
       \/ fstate \in {"paused", "stopped"} /\ Finish(FALSE, FALSE, TRUE)
          /\ UNCHANGED <<sto, sk, inStop>>
    /\ UNCHANGED <<fstate, forceShutdownReceived>>
    /\ UNCHANGED storeVars /\ UNCHANGED ctlVars

(* The check half of transition_state called from step.  An invalid     *)
(* transition returns false, which step ignores.                         *)
StepTransCheck ==
    /\ spc = "trans"
    /\ IF forceShutdownReceived \/ validTransition(fstate, sto)
       THEN spc' = "write" /\ UNCHANGED taskLive
       ELSE Continue(sk, taskLive, curLive)
    /\ UNCHANGED <<fstate, forceShutdownReceived, curLive, sto, sk, inStop>>
    /\ UNCHANGED storeVars /\ UNCHANGED ctlVars

(* The write half: _state = to, then cancel the current task and schedule *)
(* a new one.                                                             *)
StepTransWrite ==
    /\ spc = "write"
    /\ fstate' = sto
    /\ curLive' = FALSE
    /\ Continue(sk, TRUE, FALSE)
    /\ UNCHANGED <<forceShutdownReceived, sto, sk, inStop>>
    /\ UNCHANGED storeVars /\ UNCHANGED ctlVars

(* A beginFlush that copies the dirty items without taking them. *)
DoFlushNoSwap ==
    /\ spc = "flush"
    /\ LET begin == ~fq /\ dirty > 0
           out1  == IF begin THEN outgoing + dirty ELSE outgoing
           next  == IF inStop THEN "complete" ELSE "final"
       IN  IF ~(fq \/ begin)
           THEN spc' = next /\ UNCHANGED storeVars
           ELSE \E n \in 1..out1 :
                  /\ outgoing' = out1 - n
                  /\ persisted' = persisted + n
                  /\ dirty' = dirty
                  /\ fq' = (out1 - n > 0)
                  /\ spc' = "pchk"
                  /\ UNCHANGED written
    /\ UNCHANGED <<fstate, forceShutdownReceived, taskLive, curLive, sto, sk, inStop>>
    /\ UNCHANGED ctlVars

(* A doFlush that never sets flushQueue back to NULL. *)
DoFlushKeepQueue ==
    /\ spc = "flush"
    /\ LET begin == ~fq /\ dirty > 0
           out1  == IF begin THEN outgoing + dirty ELSE outgoing
           next  == IF inStop THEN "complete" ELSE "final"
       IN  IF ~(fq \/ begin)
           THEN spc' = next /\ UNCHANGED storeVars
           ELSE \E n \in 1..out1 :
                  /\ outgoing' = out1 - n
                  /\ persisted' = persisted + n
                  /\ dirty' = IF begin THEN 0 ELSE dirty
                  /\ fq' = TRUE
                  /\ spc' = "pchk"
                  /\ UNCHANGED written
    /\ UNCHANGED <<fstate, forceShutdownReceived, taskLive, curLive, sto, sk, inStop>>
    /\ UNCHANGED ctlVars

(* Flusher::doFlush up to its pausing check: build a flush queue if there *)
(* is none (beginFlush), write one batch of it (flushOutgoingQueue) and   *)
(* drop the queue once the outgoing queue is empty.  The queue is dropped *)
(* after the pausing check in the code; no other thread reads it.         *)
DoFlush ==
    /\ spc = "flush"
    /\ LET begin == ~fq /\ dirty > 0
           out1  == IF begin THEN outgoing + dirty ELSE outgoing
           next  == IF inStop THEN "complete" ELSE "final"
       IN  IF ~(fq \/ begin)
           THEN spc' = next /\ UNCHANGED storeVars
           ELSE \E n \in 1..out1 :
                  /\ outgoing' = out1 - n
                  /\ persisted' = persisted + n
                  /\ dirty' = IF begin THEN 0 ELSE dirty
                  /\ fq' = (out1 - n > 0)
                  /\ spc' = "pchk"
                  /\ UNCHANGED written
    /\ UNCHANGED <<fstate, forceShutdownReceived, taskLive, curLive, sto, sk, inStop>>
    /\ UNCHANGED ctlVars

(* doFlush: if (_state == pausing) transition_state(paused). *)
PauseCheck ==
    /\ spc = "pchk"
    /\ LET next == IF inStop THEN "complete" ELSE "final"
       IN  IF fstate = "pausing"
           THEN CallTransition("paused", next)
           ELSE spc' = next /\ UNCHANGED <<sto, sk>>
    /\ UNCHANGED <<fstate, forceShutdownReceived, taskLive, curLive, inStop>>
    /\ UNCHANGED storeVars /\ UNCHANGED ctlVars

(* step, case running, after doFlush: return _state == running. *)
FinalCheck ==
    /\ spc = "final"
    /\ Finish(fstate = "running", taskLive, curLive)
    /\ UNCHANGED <<fstate, forceShutdownReceived, curLive, sto, sk, inStop>>
    /\ UNCHANGED storeVars /\ UNCHANGED ctlVars

(* A completeFlush that stops once the outgoing queue is empty. *)
CompleteFlushOutgoingOnly ==
    /\ spc = "complete"
    /\ IF outgoing = 0
       THEN CallTransition("stopped", "retFalse") /\ UNCHANGED inStop
       ELSE spc' = "flush" /\ inStop' = TRUE /\ UNCHANGED <<sto, sk>>
    /\ UNCHANGED <<fstate, forceShutdownReceived, taskLive, curLive>>
    /\ UNCHANGED storeVars /\ UNCHANGED ctlVars

(* step, case stopping: completeFlush loops doFlush while the disk queue  *)
(* is not empty, then transition_state(stopped) and return false.         *)
CompleteFlush ==
    /\ spc = "complete"
    /\ IF DiskQueueEmpty
       THEN CallTransition("stopped", "retFalse") /\ UNCHANGED inStop
       ELSE spc' = "flush" /\ inStop' = TRUE /\ UNCHANGED <<sto, sk>>
    /\ UNCHANGED <<fstate, forceShutdownReceived, taskLive, curLive>>
    /\ UNCHANGED storeVars /\ UNCHANGED ctlVars

(* The state each control call asks transition_state for: stop(force)    *)
(* asks for stopped when forced and stopping otherwise.                  *)
CtlTarget == [pause |-> "pausing", resume |-> "running",
              stop |-> "stopping", forcestop |-> "stopped"]

(* pause(), resume() and stop(force) enter transition_state; stop first *)
(* stores forceShutdownReceived.                                         *)
CtlBegin(c, op) ==
    /\ cpc[c] = "idle" /\ ctlOps < MaxCtlOps
    /\ ctlOps' = ctlOps + 1
    /\ cpc' = [cpc EXCEPT ![c] = "check"]
    /\ cto' = [cto EXCEPT ![c] = CtlTarget[op]]
    /\ forceShutdownReceived' =
           IF op \in {"stop", "forcestop"} THEN op = "forcestop"
           ELSE forceShutdownReceived
    /\ UNCHANGED <<fstate, taskLive, stopMark>>
    /\ UNCHANGED stepVars /\ UNCHANGED storeVars

(* The check half of a control thread's transition_state: an invalid    *)
(* transition returns false.                                             *)
CtlCheck(c) ==
    /\ cpc[c] = "check"
    /\ cpc' = [cpc EXCEPT ![c] = IF forceShutdownReceived \/ validTransition(fstate, cto[c])
                                 THEN "write" ELSE "idle"]
    /\ UNCHANGED <<fstate, forceShutdownReceived, taskLive, cto, ctlOps, stopMark>>
    /\ UNCHANGED stepVars /\ UNCHANGED storeVars

(* A transition_state that forgets to reschedule the task. *)
CtlWriteNoReschedule(c) ==
    /\ cpc[c] = "write"
    /\ fstate' = cto[c]
    /\ cpc' = [cpc EXCEPT ![c] = "idle"]
    /\ stopMark' = IF cto[c] = "stopping" /\ stopMark = -1 THEN written ELSE stopMark
    /\ UNCHANGED <<forceShutdownReceived, taskLive, cto, ctlOps>>
    /\ UNCHANGED stepVars /\ UNCHANGED storeVars

(* The write half: _state = to, cancel the current task, schedule a new *)
(* one, return true.                                                     *)
CtlWrite(c) ==
    /\ cpc[c] = "write"
    /\ fstate' = cto[c]
    /\ taskLive' = TRUE
    /\ curLive' = FALSE
    /\ cpc' = [cpc EXCEPT ![c] = "idle"]
    /\ stopMark' = IF cto[c] = "stopping" /\ stopMark = -1 THEN written ELSE stopMark
    /\ UNCHANGED <<forceShutdownReceived, cto, ctlOps, spc, sto, sk, inStop>>
    /\ UNCHANGED storeVars

(* A client mutation makes an item dirty (queueDirty in ep.cc). *)
ClientWrite ==
    /\ written < MaxWrites
    /\ written' = written + 1
    /\ dirty' = dirty + 1
    /\ UNCHANGED <<fq, outgoing, persisted>>
    /\ UNCHANGED <<fstate, forceShutdownReceived, taskLive>>
    /\ UNCHANGED stepVars /\ UNCHANGED ctlVars

(* The Flusher constructor sets _state = initializing and start()       *)
(* schedules the first task.                                             *)
Init ==
    /\ fstate = "initializing"
    /\ forceShutdownReceived = FALSE
    /\ taskLive = TRUE
    /\ spc = "idle" /\ curLive = FALSE /\ sto = "running" /\ sk = "retFalse"
    /\ inStop = FALSE
    /\ fq = FALSE /\ outgoing = 0 /\ dirty = 0 /\ written = 0 /\ persisted = 0
    /\ cpc = [c \in Ctl |-> "idle"] /\ cto = [c \in Ctl |-> "running"]
    /\ ctlOps = 0 /\ stopMark = -1

StepNext ==
    \/ DispatchStep \/ StepTransCheck \/ StepTransWrite
    \/ DoFlush \/ PauseCheck \/ FinalCheck \/ CompleteFlush

Next ==
    \/ StepNext
    \/ \E c \in Ctl, op \in CtlOps : CtlBegin(c, op)
    \/ \E c \in Ctl : CtlCheck(c) \/ CtlWrite(c)
    \/ ClientWrite

(* The dispatcher thread loops over ready tasks and a snoozed task wakes *)
(* within a bounded time, so the step thread is weakly fair.  Control    *)
(* threads and clients are not: they may stop calling at any point.      *)
Spec == Init /\ [][Next]_vars /\ WF_vars(StepNext)

-----------------------------------------------------------------------------

TypeOK ==
    /\ fstate \in States
    /\ forceShutdownReceived \in BOOLEAN
    /\ taskLive \in BOOLEAN /\ curLive \in BOOLEAN /\ inStop \in BOOLEAN
    /\ spc \in {"idle", "trans", "write", "flush", "pchk", "final", "complete"}
    /\ sto \in States
    /\ sk \in {"retTrue", "retFalse", "final", "complete"}
    /\ fq \in BOOLEAN
    /\ outgoing \in 0..MaxWrites /\ dirty \in 0..MaxWrites
    /\ written \in 0..MaxWrites /\ persisted \in 0..written
    /\ written = persisted + outgoing + dirty
    /\ cpc \in [Ctl -> {"idle", "check", "write"}]
    /\ cto \in [Ctl -> States]
    /\ ctlOps \in 0..MaxCtlOps
    /\ stopMark \in -1..MaxWrites

(* Whenever the flusher is in a state that needs another step            *)
(* (initializing, running, pausing, stopping), a live flusher task is    *)
(* queued or the step being run will reschedule itself: every            *)
(* transition_state cancels and reschedules, and step returns false only *)
(* when it saw paused/stopped or when _state changed under it.  A        *)
(* violation would leave the flusher idle forever in an active state.    *)
TaskScheduledWhenActive ==
    fstate \in Active => (taskLive \/ (spc # "idle" /\ curLive))

(* When step, in state stopping, moves the flusher to stopped after      *)
(* completeFlush, every item written before the first stop(false)       *)
(* returned true has been persisted: shutdown loses no acknowledged      *)
(* mutation.                                                             *)
StopPersistsAll ==
    (spc = "write" /\ sto = "stopped" /\ ~forceShutdownReceived)
        => persisted >= stopMark

(* A running flusher with dirty items eventually empties the disk queue *)
(* or leaves running: doFlush drops a drained flush queue so that the   *)
(* next pass calls beginFlush again.                                     *)
FlushProgress ==
    (fstate = "running" /\ ~DiskQueueEmpty) ~> (DiskQueueEmpty \/ fstate # "running")

(* After a stop(false) has succeeded, the flusher eventually reaches    *)
(* stopped, which Flusher::wait spins on during shutdown.               *)
StopCompletes ==
    (stopMark >= 0) ~> (fstate = "stopped")

=============================================================================
