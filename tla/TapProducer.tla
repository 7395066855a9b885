----------------------------- MODULE TapProducer -----------------------------
(***************************************************************************)
(* One TAP replication stream of ep-engine: the producer side             *)
(* (TapProducer in src/ep-engine/src/tapconnection.cc, driven by           *)
(* EventuallyPersistentEngine::walkTapQueue and processTapAck in           *)
(* ep_engine.cc) and the consumer side that applies what it receives       *)
(* (EventuallyPersistentEngine::tapNotify).  One vbucket, with ack         *)
(* support negotiated and checkpoint synchronisation off.                  *)
(*                                                                         *)
(* The producer pulls mutations from its checkpoint cursor (ckq, the part  *)
(* of the checkpoint log the TAP cursor has not read yet; the cursor       *)
(* itself is modelled in CheckpointManager), sends them with a 32-bit      *)
(* sequence number kept here in SeqBits bits, logs every sent message in   *)
(* tapLog, and erases log entries as the consumer acks them.  An ack of    *)
(* sequence number s acks every earlier entry implicitly.  A temporary     *)
(* nack re-queues the nacked entry and suspends the stream; a hard nack    *)
(* or a broken connection ends the connection, and when the client         *)
(* reconnects, rollback() re-queues every unacked entry.                   *)
(*                                                                         *)
(* The connection is a pair of FIFO channels (TCP): toC carries messages,  *)
(* toP carries acks.  Values are model values; a deleted key holds Absent. *)
(* The consumer's reply rule (an ack when the message asks for one, and a  *)
(* nack on any error) is the memcached core's, which is not part of the    *)
(* repository, and is modelled from the specification.                     *)
(*                                                                         *)
(* A key whose value the item pager has evicted is not resident: the walk  *)
(* then schedules a TapBGFetchCallback on the auxiliary IO dispatcher,     *)
(* which reads the disk and hands the item to completeBGFetchJob; the walk *)
(* sends items fetched from disk before anything else.  The flusher and   *)
(* the pager are the store's (ep.cc, not in the repository) and are        *)
(* modelled from the specification: the flusher writes a key's value to   *)
(* disk, and the pager evicts a clean resident value.                     *)
(***************************************************************************)
EXTENDS Integers, Sequences, SequencesExt

CONSTANTS
    Keys,           \* document keys of the vbucket
    Vals,           \* values a client may store
    Absent,         \* the value of a key that does not exist
    Ops,            \* client operations: "set", "del"
    Statuses,       \* consumer outcomes: "success", "tmpfail", "fail"
    SeqBits,        \* width of TapProducer::seqno (32 in the code)
    InitSeq,        \* tap_ack_initial_sequence_number
    AckWindowSize,  \* tap_ack_window_size
    AckInterval,    \* tap_ack_interval
    MaxClientOps,   \* bound on client mutations
    MaxNacks,       \* bound on temporary nacks
    MaxDrops,       \* bound on lost connections and hard nacks
    MaxEvicts       \* bound on evictions by the item pager

ASSUME Ops \subseteq {"set", "del"}
ASSUME Statuses \subseteq {"success", "tmpfail", "fail"} /\ "success" \in Statuses
ASSUME AckWindowSize \in Nat \ {0} /\ AckInterval \in Nat \ {0}

\* uint32_t arithmetic, with the width reduced to SeqBits.
UIntMod == 2 ^ SeqBits
MaxSeq == UIntMod - 1          \* static_cast<uint32_t>(-1)

ASSUME InitSeq \in 0..MaxSeq

VARIABLES
    ht,             \* the master's hash table: key -> value or Absent
    ckq,            \* items ahead of the producer's TAP cursor
    queue,          \* TapProducer::queue (fg-fetched and rescheduled items)
    tapLog,         \* TapProducer::tapLog, oldest first
    seqno,          \* TapProducer::seqno
    seqnoReceived,  \* TapProducer::seqnoReceived
    suspended,      \* TapProducer::suspended
    connected,      \* the TCP connection to the consumer is up
    toC,            \* messages in flight to the consumer
    toP,            \* acks in flight to the producer
    rep,            \* the replica's hash table
    clientOps,      \* client mutations so far
    nacks,          \* temporary nacks so far
    drops,          \* connections lost so far
    disk,           \* the master's disk: key -> value or Absent
    resident,       \* key -> its value is in memory
    bgJobs,         \* TapBGFetchCallback jobs on the dispatcher, in order
    backfilled,     \* TapProducer::backfilledItems
    evicts          \* evictions so far

bgVars == <<disk, resident, bgJobs, backfilled, evicts>>
vars == <<ht, ckq, queue, tapLog, seqno, seqnoReceived, suspended, connected,
          toC, toP, rep, clientOps, nacks, drops, bgVars>>

QueuedItem == [key : Keys, op : Ops]
\* A TapLogElement; "ack" is a ghost field: the message asked for an ack.
LogElement == [seq : 0..MaxSeq, key : Keys, op : Ops, ack : BOOLEAN]
Message == [seq : 0..MaxSeq, ev : {"mutation", "deletion"}, key : Keys,
            val : Vals \cup {Absent}, ack : BOOLEAN]
Ack == [seq : 0..MaxSeq, status : Statuses]
\* A job reads the disk ("issued") and then completes ("read", with the value).
BGJob == [key : Keys, st : {"issued", "read"}, val : Vals \cup {Absent}]

-----------------------------------------------------------------------------
(* Producer helpers                                                        *)

\* windowIsFull: the distance from the last acked sequence number to the
\* next one to send, with the uint32 wrap, exceeds window * interval.
\* Mutant: the distance computed as a signed difference, ignoring the wrap.
windowIsFullSigned ==
    ~(seqno - seqnoReceived <= AckWindowSize * AckInterval)

windowIsFull ==
    LET limit == AckWindowSize * AckInterval
    IN  IF seqno >= seqnoReceived
        THEN ~(seqno - seqnoReceived <= limit)
        ELSE ~(MaxSeq - seqnoReceived + seqno <= limit)

\* Mutant: ++seqno with no wrap handling.
NextSeqnoNoWrap(s) == s + 1

\* ++seqno in requestAck: a wrap to 0 sets it to 1.
NextSeqno(s) == IF (s + 1) % UIntMod = 0 THEN 1 ELSE (s + 1) % UIntMod

\* emptyQueue_UNLOCKED (declared in tapconnection.hh, not in the
\* repository): nothing is queued and the cursor has nothing to read.
emptyQueue(q, c) == q = <<>> /\ c = <<>>

\* Mutant: the interval test on the incremented seqno.
requestAckPostIncrement(s1, q, c) == s1 % AckInterval = 0 \/ emptyQueue(q, c)

\* requestAck for a mutation or deletion with checkpoint sync off and the
\* backfill completed: ack every AckInterval-th message, and when the
\* producer has caught up.
requestAck(s1, q, c) == ((s1 - 1) % UIntMod) % AckInterval = 0 \/ emptyQueue(q, c)

\* The index of the log entry with sequence number s, 0 if none.
LogIndex(s) == SelectInSeq(tapLog, LAMBDA e : e.seq = s)

\* Mutant: the nacked entry is dropped instead of re-queued.
rescheduleDropped(q, e) == q

\* reschedule_UNLOCKED for a mutation or deletion: addEvent_UNLOCKED puts
\* the logged queued_item back at the end of the queue.
reschedule(q, e) == Append(q, [key |-> e.key, op |-> e.op])

-----------------------------------------------------------------------------
(* Client operations on the master: the store's set/del in ep.cc (not in  *)
(* the repository) and CheckpointManager::queueDirty.  queueDirty either  *)
(* replaces an unread item of the same key in the open checkpoint, or     *)
(* appends (the older item is in a closed checkpoint).                     *)

QueueDirty(k, op) ==
    \/ ckq' = Append(SelectSeq(ckq, LAMBDA e : e.key # k), [key |-> k, op |-> op])
    \/ ckq' = Append(ckq, [key |-> k, op |-> op])

ClientSet(k, v) ==
    /\ "set" \in Ops /\ clientOps < MaxClientOps
    /\ ht' = [ht EXCEPT ![k] = v]
    /\ resident' = [resident EXCEPT ![k] = TRUE]
    /\ QueueDirty(k, "set")
    /\ clientOps' = clientOps + 1
    /\ UNCHANGED <<queue, tapLog, seqno, seqnoReceived, suspended, connected,
                   toC, toP, rep, nacks, drops, disk, bgJobs, backfilled, evicts>>

ClientDel(k) ==
    /\ "del" \in Ops /\ clientOps < MaxClientOps
    /\ ht[k] # Absent
    /\ ht' = [ht EXCEPT ![k] = Absent]
    /\ QueueDirty(k, "del")
    /\ clientOps' = clientOps + 1
    /\ UNCHANGED <<queue, tapLog, seqno, seqnoReceived, suspended, connected,
                   toC, toP, rep, nacks, drops, bgVars>>

-----------------------------------------------------------------------------
(* walkTapQueue producing one mutation or deletion: doWalkTapQueue pauses *)
(* while suspended or while the window is full; getNextItem takes the     *)
(* queue's head, or, when the queue is empty, the cursor's next item      *)
(* (nextFgFetched_UNLOCKED); a set is sent with the current value, or as  *)
(* a deletion when the key is gone; the item is logged under the current  *)
(* seqno, then requestAck increments seqno and decides the ack flag.      *)

\* nextFgFetched_UNLOCKED with checkpoint sync off and the backfill done:
\* when the queue is empty the cursor's next set or del is added to it
\* (checkpoint_start/end items only move the cursor); then the queue's
\* front is taken.  The result: the item, the queue and the cursor after.
NextFgFetched(q, c) ==
    IF q = <<>> THEN [qi |-> Head(c), q |-> <<>>, c |-> Tail(c)]
    ELSE [qi |-> Head(q), q |-> Tail(q), c |-> c]

\* The store's get as the walk calls it (no background fetch; ep.cc, not
\* in the repository): a deleted key is ENOENT, an evicted value
\* EWOULDBLOCK, a resident one is found.
StoreGet(k) ==
    CASE ht[k] = Absent -> "enoent"
      [] resident[k]    -> "success"
      [] OTHER          -> "ewouldblock"

\* Mutant: an evicted value is taken for a deleted key.
TapEventEnoentOnMiss(qi) ==
    IF qi.op = "set" /\ StoreGet(qi.key) = "success" THEN "mutation" ELSE "deletion"

\* getNextItem for a fg-fetched item: a set is sent as a mutation when the
\* store finds the key, as a deletion on ENOENT, and on EWOULDBLOCK it is
\* handed to a background fetch and nothing is sent; a del is a deletion.
TapEvent(qi) ==
    CASE qi.op = "del"                 -> "deletion"
      [] StoreGet(qi.key) = "success"  -> "mutation"
      [] StoreGet(qi.key) = "enoent"   -> "deletion"
      [] OTHER                         -> "bgfetch"

\* Mutant: the value read from disk is sent as it is.
DiskValueNoRefetch(b) == b.val

\* getNextItem for an item fetched from disk: the store is asked again; a
\* resident value replaces the one from disk, a key it no longer finds is
\* sent as a deletion, and otherwise (EWOULDBLOCK) the disk value is sent.
DiskValue(b) == IF StoreGet(b.key) = "success" THEN ht[b.key] ELSE b.val
DiskEvent(b) == IF StoreGet(b.key) = "enoent" THEN "deletion" ELSE "mutation"

\* doWalkTapQueue returns TAP_PAUSE while suspended or the window is full.
WalkPaused == suspended \/ windowIsFull

\* walkTapQueue after getNextItem has produced a mutation or deletion of
\* key k, logged as queued operation op: log it under the current seqno and
\* send it; requestAck increments seqno and decides the ack flag.
Send(k, op, ev, val, q, c) ==
    \E s1 \in {NextSeqno(seqno)} :
       LET ack == requestAck(s1, q, c) IN
       /\ seqno' = s1
       /\ tapLog' = Append(tapLog, [seq |-> seqno, key |-> k, op |-> op, ack |-> ack])
       /\ toC' = Append(toC, [seq |-> seqno, ev |-> ev, key |-> k, val |-> val, ack |-> ack])

\* A walk that finds an item fetched from disk sends it first.
WalkDiskItem ==
    /\ connected /\ ~WalkPaused
    /\ backfilled # <<>>
    /\ LET b == Head(backfilled) IN
       Send(b.key, IF DiskEvent(b) = "mutation" THEN "set" ELSE "del", DiskEvent(b),
            IF DiskEvent(b) = "mutation" THEN DiskValue(b) ELSE Absent, queue, ckq)
    /\ backfilled' = Tail(backfilled)
    /\ UNCHANGED <<ht, ckq, queue, seqnoReceived, suspended, connected, toP, rep,
                   clientOps, nacks, drops, disk, resident, bgJobs, evicts>>

\* queueBGFetch_UNLOCKED: schedule a TapBGFetchCallback for key k.
QueueBGFetch(k) == bgJobs' = Append(bgJobs, [key |-> k, st |-> "issued", val |-> Absent])

\* Otherwise the walk takes the next fg-fetched item.
WalkTapQueue ==
    /\ connected /\ ~WalkPaused
    /\ backfilled = <<>>
    /\ queue # <<>> \/ ckq # <<>>
    /\ \E f \in {NextFgFetched(queue, ckq)} :
       /\ queue' = f.q /\ ckq' = f.c
       /\ \/ /\ TapEvent(f.qi) = "bgfetch"
             /\ QueueBGFetch(f.qi.key)
             /\ UNCHANGED <<seqno, tapLog, toC>>
          \/ /\ TapEvent(f.qi) # "bgfetch"
             /\ Send(f.qi.key, f.qi.op, TapEvent(f.qi),
                     IF TapEvent(f.qi) = "mutation" THEN ht[f.qi.key] ELSE Absent, f.q, f.c)
             /\ UNCHANGED bgJobs
    /\ UNCHANGED <<ht, seqnoReceived, suspended, connected, toP, rep,
                   clientOps, nacks, drops, disk, resident, backfilled, evicts>>

-----------------------------------------------------------------------------
(* The background fetch, the flusher and the item pager                   *)

\* TapBGFetchCallback::callback up to the disk read, on the auxiliary IO
\* dispatcher's thread: the job reads the key.  A read that fails while
\* the store still has the key is snoozed and runs again after the jobs
\* behind it; one that fails for a key the store no longer has completes
\* the job with no item and queues a deletion of the key (setEvents).
BGFetchRead ==
    /\ bgJobs # <<>> /\ Head(bgJobs).st = "issued"
    /\ LET j == Head(bgJobs) IN
       \/ /\ disk[j.key] # Absent
          /\ bgJobs' = <<[j EXCEPT !.st = "read", !.val = disk[j.key]]>> \o Tail(bgJobs)
          /\ UNCHANGED queue
       \/ /\ disk[j.key] = Absent /\ ht[j.key] # Absent
          /\ bgJobs' = Append(Tail(bgJobs), j)
          /\ UNCHANGED queue
       \/ /\ disk[j.key] = Absent /\ ht[j.key] = Absent
          /\ bgJobs' = Tail(bgJobs)
          /\ queue' = Append(queue, [key |-> j.key, op |-> "del"])
    /\ UNCHANGED <<ht, ckq, tapLog, seqno, seqnoReceived, suspended, connected,
                   toC, toP, rep, clientOps, nacks, drops, disk, resident, backfilled, evicts>>

\* The rest of the callback: performTapOp hands the item read to
\* completeBGFetchJob, which puts it in backfilledItems.
BGFetchComplete ==
    /\ bgJobs # <<>> /\ Head(bgJobs).st = "read"
    /\ backfilled' = Append(backfilled, [key |-> Head(bgJobs).key, val |-> Head(bgJobs).val])
    /\ bgJobs' = Tail(bgJobs)
    /\ UNCHANGED <<ht, ckq, queue, tapLog, seqno, seqnoReceived, suspended, connected,
                   toC, toP, rep, clientOps, nacks, drops, disk, resident, evicts>>

\* The flusher writes a key's current value (or its deletion) to disk.
Flush(k) ==
    /\ disk[k] # ht[k]
    /\ disk' = [disk EXCEPT ![k] = ht[k]]
    /\ UNCHANGED <<ht, ckq, queue, tapLog, seqno, seqnoReceived, suspended, connected,
                   toC, toP, rep, clientOps, nacks, drops, resident, bgJobs, backfilled, evicts>>

\* The item pager evicts the value of a resident key that is clean.
Evict(k) ==
    /\ resident[k] /\ ht[k] # Absent /\ disk[k] = ht[k]
    /\ evicts < MaxEvicts
    /\ resident' = [resident EXCEPT ![k] = FALSE]
    /\ evicts' = evicts + 1
    /\ UNCHANGED <<ht, ckq, queue, tapLog, seqno, seqnoReceived, suspended, connected,
                   toC, toP, rep, clientOps, nacks, drops, disk, bgJobs, backfilled>>

-----------------------------------------------------------------------------
(* tapNotify on the consumer for a mutation or deletion.  It is throttled *)
(* (tmpfail), may fail to store (ENOMEM becomes tmpfail; other errors     *)
(* fail), or applies the message; a deletion of a missing key succeeds.   *)
(* The memcached core replies when the message asks for an ack and on     *)
(* every error.                                                            *)

\* TAP_DELETION: deleteItem; ENOENT counts as success.
TapDeletion(r, m) == [r EXCEPT ![m.key] = Absent]

\* TAP_MUTATION: set stores the value sent.
TapMutation(r, m) == [r EXCEPT ![m.key] = m.val]

ConsumerReceive ==
    /\ toC # <<>>
    /\ \E st \in Statuses :
       LET m == Head(toC) IN
       /\ st = "tmpfail" => nacks < MaxNacks
       /\ st = "fail" => drops < MaxDrops
       /\ rep' = IF st # "success" THEN rep
                 ELSE IF m.ev = "mutation" THEN TapMutation(rep, m)
                 ELSE TapDeletion(rep, m)
       /\ toC' = Tail(toC)
       /\ toP' = IF m.ack \/ st # "success"
                 THEN Append(toP, [seq |-> m.seq, status |-> st]) ELSE toP
       /\ nacks' = IF st = "tmpfail" THEN nacks + 1 ELSE nacks
    /\ UNCHANGED <<ht, ckq, queue, tapLog, seqno, seqnoReceived, suspended,
                   connected, clientOps, drops, bgVars>>

-----------------------------------------------------------------------------
(* processAck.  Every entry before the acked one is acked implicitly.     *)
(*  - success: the acked entry and all before it are erased (nothing is  *)
(*    erased when no entry has that sequence number);                     *)
(*  - tmpfail: the stream is suspended (setSuspended_UNLOCKED schedules    *)
(*    TapResumeCallback), the acked entry is rescheduled, and it and all   *)
(*    before it are erased (all of the log when it is missing);           *)
(*  - other: the entries before it are erased and the connection is       *)
(*    closed (setDisconnect).                                              *)

ProcessAck ==
    /\ connected /\ toP # <<>>
    /\ LET a == Head(toP)
           i == LogIndex(a.seq)
       IN  /\ seqnoReceived' = a.seq
           /\ CASE a.status = "success" ->
                     /\ tapLog' = IF i # 0 THEN SubSeq(tapLog, i + 1, Len(tapLog)) ELSE tapLog
                     /\ UNCHANGED <<queue, suspended, connected, drops>>
                     /\ toP' = Tail(toP) /\ UNCHANGED toC
                [] a.status = "tmpfail" ->
                     /\ suspended' = TRUE
                     /\ queue' = IF i # 0 THEN reschedule(queue, tapLog[i]) ELSE queue
                     /\ tapLog' = IF i # 0 THEN SubSeq(tapLog, i + 1, Len(tapLog)) ELSE <<>>
                     /\ UNCHANGED <<connected, drops>>
                     /\ toP' = Tail(toP) /\ UNCHANGED toC
                [] OTHER ->
                     /\ tapLog' = IF i # 0 THEN SubSeq(tapLog, i, Len(tapLog)) ELSE <<>>
                     /\ connected' = FALSE /\ toC' = <<>> /\ toP' = <<>>
                     /\ drops' = drops + 1
                     /\ UNCHANGED <<queue, suspended>>
    /\ UNCHANGED <<ht, ckq, seqno, rep, clientOps, nacks, bgVars>>

\* TapResumeCallback, run by the non-IO dispatcher after the backoff.
Resume ==
    /\ suspended
    /\ suspended' = FALSE
    /\ UNCHANGED <<ht, ckq, queue, tapLog, seqno, seqnoReceived, connected,
                   toC, toP, rep, clientOps, nacks, drops, bgVars>>

\* The TCP connection breaks: whatever is in flight is lost.
ConnectionLost ==
    /\ connected /\ drops < MaxDrops
    /\ connected' = FALSE /\ toC' = <<>> /\ toP' = <<>>
    /\ drops' = drops + 1
    /\ UNCHANGED <<ht, ckq, queue, tapLog, seqno, seqnoReceived, suspended,
                   rep, clientOps, nacks, bgVars>>

\* Mutant: rollback clears the log without re-queueing it.
ReconnectNoRollback ==
    /\ ~connected
    /\ connected' = TRUE /\ tapLog' = <<>>
    /\ seqnoReceived' = (seqno - 1) % UIntMod
    /\ UNCHANGED <<ht, ckq, queue, seqno, suspended, toC, toP, rep, clientOps, nacks, drops, bgVars>>

\* Mutant: rollback leaves seqnoReceived at the last ack.
ReconnectKeepReceived ==
    /\ ~connected
    /\ connected' = TRUE
    /\ queue' = queue \o [i \in 1..Len(tapLog) |-> [key |-> tapLog[i].key, op |-> tapLog[i].op]]
    /\ tapLog' = <<>>
    /\ UNCHANGED <<ht, ckq, seqno, seqnoReceived, suspended, toC, toP, rep, clientOps, nacks, drops, bgVars>>

\* The client reconnects under the same name and the producer's rollback()
\* re-queues every unacked mutation and deletion in log order, and sets
\* seqnoReceived to seqno - 1.
Reconnect ==
    /\ ~connected
    /\ connected' = TRUE
    /\ queue' = queue \o [i \in 1..Len(tapLog) |-> [key |-> tapLog[i].key, op |-> tapLog[i].op]]
    /\ tapLog' = <<>>
    /\ seqnoReceived' = (seqno - 1) % UIntMod
    /\ UNCHANGED <<ht, ckq, seqno, suspended, toC, toP, rep, clientOps, nacks, drops, bgVars>>

-----------------------------------------------------------------------------

Init ==
    /\ ht = [k \in Keys |-> Absent]
    /\ rep = ht
    /\ ckq = <<>> /\ queue = <<>> /\ tapLog = <<>>
    /\ seqno = InitSeq
    /\ seqnoReceived = (InitSeq - 1) % UIntMod
    /\ suspended = FALSE /\ connected = TRUE
    /\ toC = <<>> /\ toP = <<>>
    /\ clientOps = 0 /\ nacks = 0 /\ drops = 0
    /\ disk = ht /\ resident = [k \in Keys |-> TRUE]
    /\ bgJobs = <<>> /\ backfilled = <<>> /\ evicts = 0

Next ==
    \/ \E k \in Keys, v \in Vals : ClientSet(k, v)
    \/ \E k \in Keys : ClientDel(k)
    \/ WalkDiskItem \/ WalkTapQueue
    \/ BGFetchRead \/ BGFetchComplete
    \/ \E k \in Keys : Flush(k) \/ Evict(k)
    \/ ConsumerReceive
    \/ ProcessAck
    \/ Resume
    \/ ConnectionLost
    \/ Reconnect

\* The memcached worker walks the connection whenever it is notified, the
\* consumer and the producer read what TCP delivers, the dispatcher runs
\* the resume callback and the fetch jobs, the flusher writes every dirty
\* key, and a replication client reconnects.  The pager gets no fairness.
Fairness ==
    /\ WF_vars(WalkDiskItem) /\ WF_vars(WalkTapQueue)
    /\ WF_vars(BGFetchRead) /\ WF_vars(BGFetchComplete)
    /\ \A k \in Keys : WF_vars(Flush(k))
    /\ WF_vars(ConsumerReceive) /\ WF_vars(ProcessAck)
    /\ WF_vars(Resume) /\ WF_vars(Reconnect)

Spec == Init /\ [][Next]_vars /\ Fairness

-----------------------------------------------------------------------------
(* Properties                                                              *)

TypeOK ==
    /\ ht \in [Keys -> Vals \cup {Absent}] /\ rep \in [Keys -> Vals \cup {Absent}]
    /\ ckq \in Seq(QueuedItem) /\ queue \in Seq(QueuedItem)
    /\ tapLog \in Seq(LogElement)
    /\ seqno \in 0..MaxSeq /\ seqnoReceived \in 0..MaxSeq
    /\ suspended \in BOOLEAN /\ connected \in BOOLEAN
    /\ toC \in Seq(Message) /\ toP \in Seq(Ack)
    /\ clientOps \in 0..MaxClientOps /\ nacks \in 0..MaxNacks /\ drops \in 0..MaxDrops
    /\ disk \in [Keys -> Vals \cup {Absent}] /\ resident \in [Keys -> BOOLEAN]
    /\ bgJobs \in Seq(BGJob) /\ backfilled \in Seq([key : Keys, val : Vals])

\* Nothing is left to send, in flight or unacked.
Quiescent ==
    /\ ckq = <<>> /\ queue = <<>> /\ tapLog = <<>>
    /\ bgJobs = <<>> /\ backfilled = <<>>
    /\ toC = <<>> /\ toP = <<>>

\* When the producer has sent everything, every message is acked and nothing
\* is in flight, the replica holds exactly the master's data: no nack,
\* reschedule, rollback or lost connection loses or reorders a mutation.
ReplicaConverges == Quiescent => rep = ht

\* The ack window bounds the unacked messages: windowIsFull, with its uint32
\* wrap, keeps the log no longer than window size * ack interval.
InFlightWithinWindow == Len(tapLog) <= AckWindowSize * AckInterval

\* When the window is full the stream can only move on through an ack, so
\* some unacked message must have asked for one (requestAck); otherwise
\* walkTapQueue pauses for good.
WindowFullAwaitsAck ==
    (connected /\ windowIsFull) => \E i \in 1..Len(tapLog) : tapLog[i].ack

\* Once the clients stop, the replica comes to hold the master's data.
EventuallyReplicated == <>[](rep = ht)

=============================================================================
