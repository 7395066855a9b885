-------------------------- MODULE TapCheckpointSync --------------------------
(***************************************************************************)
(* A TAP stream with checkpoint synchronisation on (supportCheckpointSync  *)
(* and supportAck): the producer sends checkpoint_start and checkpoint_end *)
(* messages around the items of each master checkpoint, and the consumer   *)
(* rebuilds the same checkpoints on the replica vbucket.                   *)
(*                                                                         *)
(* Producer (tapconnection.cc): nextFgFetched_UNLOCKED reads one item per  *)
(* vbucket from the checkpoint cursors when the queue is empty; a start    *)
(* goes to checkpointMsgs, an end goes there only once every item of the   *)
(* checkpoint is acked (lastSeqNum <= the acked seqno), otherwise the      *)
(* cursor is moved back before it.  getNextItem sends checkpoint messages  *)
(* first and sends no item while one is unacked (waitForCheckpointMsgAck). *)
(* requestAck records lastSeqNum and wraps seqno, setting isSeqNumRotated; *)
(* processAck resets every lastSeqNum on the first ack after the wrap, and *)
(* keeps checkpointMsgCounter.                                             *)
(*                                                                         *)
(* Consumer (tapNotify, processCheckpointCommand): checkAndAddNewCheckpoint *)
(* and closeOpenCheckpoint on the replica's last checkpoint, and queueDirty *)
(* for a mutation, which on a replica ignores the item when the last       *)
(* checkpoint is closed (only stale backfill items are expected then).     *)
(* The replica's checkpoint list is kept as its last checkpoint: its id,   *)
(* whether it is open or holds items, and (a ghost) the master checkpoints *)
(* its items came from.                                                    *)
(*                                                                         *)
(* The master's checkpoint log is a sequence of start, set and end items   *)
(* per vbucket; keys are left out (de-duplication never moves an item      *)
(* across a checkpoint boundary).  The connection is reliable; the         *)
(* consumer may nack a mutation temporarily (throttle or ENOMEM).          *)
(***************************************************************************)
EXTENDS Integers, Sequences, SequencesExt, FiniteSets

CONSTANTS
    NumVBs,         \* vbuckets 0..NumVBs-1 streamed by the connection
    SeqBits,        \* width of TapProducer::seqno (32 in the code)
    InitSeq,        \* tap_ack_initial_sequence_number
    AckWindowSize,  \* tap_ack_window_size
    AckInterval,    \* tap_ack_interval
    InitChk,        \* the id of each vbucket's first checkpoint
    MaxChk,         \* bound on the master's checkpoint ids
    MaxMutations,   \* bound on client mutations
    MaxNacks        \* bound on temporary nacks

VBs == 0..(NumVBs - 1)
UIntMod == 2 ^ SeqBits
MaxSeq == UIntMod - 1           \* std::numeric_limits<uint32_t>::max()

ASSUME InitSeq \in 1..MaxSeq /\ AckWindowSize > 0 /\ AckInterval > 0

VARIABLES
    mlog,           \* vb -> the master's checkpoint items, oldest first
    cpos,           \* vb -> how many items the TAP cursor has read
    queue,          \* TapProducer::queue
    ckMsgs,         \* TapProducer::checkpointMsgs
    tcs,            \* vb -> TapCheckpointState (state, lastSeqNum, lastItem)
    tapLog,         \* TapProducer::tapLog
    seqno, seqnoReceived, isLastAckSucceed, isSeqNumRotated,
    ckCounter,      \* TapProducer::checkpointMsgCounter
    suspended,      \* TapProducer::suspended
    toC, toP,       \* the connection: messages and acks, in order
    rtail,          \* vb -> the replica's last checkpoint [id, open, items]
    rchks,          \* vb -> master checkpoint ids of the items in rtail (ghost)
    dropped,        \* queueDirty ignored a mutation: last checkpoint closed
    mutations, nacks

vars == <<mlog, cpos, queue, ckMsgs, tcs, tapLog, seqno, seqnoReceived,
          isLastAckSucceed, isSeqNumRotated, ckCounter, suspended, toC, toP,
          rtail, rchks, dropped, mutations, nacks>>

Item == [vb : VBs, op : {"start", "set", "end"}, chk : 1..MaxChk, mid : 0..MaxMutations]
TcsRec == [state : {"start", "end", "synced"}, lastSeqNum : 0..MaxSeq, lastItem : BOOLEAN]

\* The open checkpoint's id on the master.
OpenId(vb) == mlog[vb][Len(mlog[vb])].chk

-----------------------------------------------------------------------------
(* The master: client mutations and checkpoint creation                   *)

\* queueDirty of a client mutation into the open checkpoint.
ClientSet(vb) ==
    /\ mutations < MaxMutations
    /\ mutations' = mutations + 1
    /\ mlog' = [mlog EXCEPT ![vb] = Append(@, [vb |-> vb, op |-> "set",
                                               chk |-> OpenId(vb), mid |-> mutations + 1])]
    /\ UNCHANGED <<cpos, queue, ckMsgs, tcs, tapLog, seqno, seqnoReceived,
                   isLastAckSucceed, isSeqNumRotated, ckCounter, suspended,
                   toC, toP, rtail, rchks, dropped, nacks>>

\* checkOpenCheckpoint_UNLOCKED / createNewCheckpoint: close the open
\* checkpoint with an end item and open the next one with a start item.
NewCheckpoint(vb) ==
    /\ OpenId(vb) < MaxChk
    /\ mlog' = [mlog EXCEPT ![vb] = @ \o
                  << [vb |-> vb, op |-> "end", chk |-> OpenId(vb), mid |-> 0],
                     [vb |-> vb, op |-> "start", chk |-> OpenId(vb) + 1, mid |-> 0] >>]
    /\ UNCHANGED <<cpos, queue, ckMsgs, tcs, tapLog, seqno, seqnoReceived,
                   isLastAckSucceed, isSeqNumRotated, ckCounter, suspended,
                   toC, toP, rtail, rchks, dropped, mutations, nacks>>

-----------------------------------------------------------------------------
(* Producer helpers                                                        *)

\* windowIsFull, with the uint32 wrap.
windowIsFull ==
    LET limit == AckWindowSize * AckInterval
    IN  IF seqno >= seqnoReceived THEN seqno - seqnoReceived > limit
                                  ELSE MaxSeq - seqnoReceived + seqno > limit

\* The seqno nextFgFetched takes as acked.
SeqnoAcked ==
    IF seqnoReceived = 0 THEN 0
    ELSE IF isLastAckSucceed THEN seqnoReceived ELSE seqnoReceived - 1

\* Mutant: checkpoint_end sent without waiting for the acks.
EndAckedAlways(vb, s) == TRUE

\* Every item of vb's checkpoint is sent and acked, so its checkpoint_end
\* may be sent: lastSeqNum <= the acked seqno.
EndAcked(vb, s) == s.tcs[vb].lastSeqNum <= SeqnoAcked

\* isLastMutationItemInCheckpoint: the item read at position p is the last
\* of its checkpoint so far.
IsLastItem(vb, p) == p = Len(mlog[vb]) \/ mlog[vb][p + 1].op = "end"

\* One vbucket's turn in nextFgFetched_UNLOCKED's loop over the cursors;
\* s holds queue, ckMsgs, tcs and cpos.
ReadOne(s, vb) ==
    LET p == s.cpos[vb] + 1
        it == mlog[vb][p]
    IN  IF p > Len(mlog[vb]) THEN s                       \* queue_op_empty
        ELSE CASE it.op = "set" ->
                    [s EXCEPT !.queue = Append(@, it), !.cpos[vb] = p,
                              !.tcs[vb].lastItem = IsLastItem(vb, p)]
               [] it.op = "start" ->
                    [s EXCEPT !.ckMsgs = Append(@, it), !.cpos[vb] = p,
                              !.tcs[vb].state = "start"]
               [] OTHER ->                                  \* checkpoint_end
                    IF EndAcked(vb, s)
                    THEN [s EXCEPT !.ckMsgs = Append(@, it), !.cpos[vb] = p,
                                   !.tcs[vb].state = "end"]
                    ELSE [s EXCEPT !.tcs[vb].state = "end"]  \* decrTapCursorFromCheckpointEnd

RECURSIVE ReadFrom(_, _)
ReadFrom(s, vb) == IF vb > NumVBs - 1 THEN s ELSE ReadFrom(ReadOne(s, vb), vb + 1)

\* ++seqno in requestAck; a wrap to 0 sets it to 1.
NextSeqno(s) == IF (s + 1) % UIntMod = 0 THEN 1 ELSE s + 1

\* emptyQueue_UNLOCKED (tapconnection.hh, not in the repository): nothing
\* queued and nothing left on the cursors.
EmptyQueue(q, cp) == q = <<>> /\ \A vb \in VBs : cp[vb] = Len(mlog[vb])

\* Send a message: the TAP log entry, then requestAck (walkTapQueue).
\* explicit: the event always asks for an ack.
Send(ev, it, explicit, q, cp) ==
    LET s1 == NextSeqno(seqno)
        ack == explicit \/ (s1 - 1) % AckInterval = 0 \/ EmptyQueue(q, cp)
    IN  /\ seqno' = s1
        /\ isSeqNumRotated' = (isSeqNumRotated \/ (seqno + 1) % UIntMod = 0)
        /\ tapLog' = Append(tapLog, [seq |-> seqno, ev |-> ev, it |-> it])
        /\ toC' = Append(toC, [seq |-> seqno, ev |-> ev, it |-> it, ack |-> ack])

\* Mutant: no explicit ack for the last item of a checkpoint.
ExplicitAckNone(st) == FALSE

\* requestAck's explicit ack for a mutation: the last item of its
\* checkpoint, or any item sent once the cursor is at the checkpoint's end.
ExplicitAck(st) == st.lastItem \/ st.state = "end"

WalkPaused == suspended \/ windowIsFull

HasItem == queue # <<>> \/ \E vb \in VBs : cpos[vb] < Len(mlog[vb])

-----------------------------------------------------------------------------
(* Producer actions                                                        *)

\* getNextItem's first branch (nextCheckpointMessage_UNLOCKED): send the
\* oldest checkpoint message; requestAck always asks an ack for it.
WalkCheckpointMsg ==
    /\ ~WalkPaused /\ ckMsgs # <<>>
    /\ ckCounter' = ckCounter + 1
    /\ ckMsgs' = Tail(ckMsgs)
    /\ Send(Head(ckMsgs).op, Head(ckMsgs), TRUE, queue, cpos)
    /\ UNCHANGED <<mlog, cpos, queue, tcs, seqnoReceived, isLastAckSucceed,
                   suspended, toP, rtail, rchks, dropped, mutations, nacks>>

\* getNextItem's checkpoint branch, when no checkpoint message is queued or
\* unacked: nextFgFetched_UNLOCKED reads the cursors if the queue is empty
\* and returns the queue's front, which is sent as a mutation; requestAck
\* records its lastSeqNum and asks an ack for the last item of a checkpoint
\* and for any item sent once the cursor is at the checkpoint's end.  With
\* nothing to send, the walk returns a pause or noop.
WalkItem ==
    /\ ~WalkPaused /\ ckMsgs = <<>> /\ HasItem
    /\ ckCounter = 0                              \* waitForCheckpointMsgAck
    /\ LET s0 == [queue |-> queue, ckMsgs |-> ckMsgs, tcs |-> tcs, cpos |-> cpos]
           s1 == IF queue = <<>> THEN ReadFrom(s0, 0) ELSE s0
       IN  /\ cpos' = s1.cpos
           /\ ckMsgs' = s1.ckMsgs
           /\ IF s1.queue = <<>>
              THEN /\ queue' = s1.queue /\ tcs' = s1.tcs
                   /\ UNCHANGED <<seqno, isSeqNumRotated, tapLog, toC>>
              ELSE LET it == Head(s1.queue)
                       st == s1.tcs[it.vb]
                   IN  /\ queue' = Tail(s1.queue)
                       /\ tcs' = [s1.tcs EXCEPT ![it.vb].lastSeqNum = seqno]
                       /\ Send("mutation", it, ExplicitAck(st),
                               Tail(s1.queue), s1.cpos)
    /\ UNCHANGED <<mlog, seqnoReceived, isLastAckSucceed, ckCounter, suspended,
                   toP, rtail, rchks, dropped, mutations, nacks>>

\* The index of the log entry with sequence number s, 0 if none.
LogIndex(s) == SelectInSeq(tapLog, LAMBDA e : e.seq = s)

\* Mutant: only an acked checkpoint_end decrements the counter.
AckedCkMsgEndOnly(i, e) == i > 0 /\ e.ev = "end"

\* Mutant: every explicitly acked entry decrements the counter.
AckedCkMsgAny(i, e) == i > 0

\* The explicitly acked entry is a checkpoint message.
AckedCkMsg(i, e) == i > 0 /\ e.ev \in {"start", "end"}

\* reschedule_UNLOCKED of a mutation: lastSeqNum of its vbucket becomes the
\* largest uint32, so checkpoint_end waits until the item is sent again.
Rescheduled(t, vb) == [t EXCEPT ![vb].lastSeqNum = MaxSeq]

\* processAck for the oldest ack.  The first ack after the seqno wrapped
\* with a lower seqno than the last one resets every lastSeqNum to 0.
\* Success erases the log up to the acked entry (nothing when it is
\* missing); an acked checkpoint_end marks the checkpoint synced and an
\* acked checkpoint message decrements the counter.  A temporary nack
\* suspends the stream and reschedules the entry: a checkpoint message
\* goes back to checkpointMsgs with the counter decremented, an item goes
\* back to the queue with lastSeqNum set to uint32 max.
ProcessAck ==
    /\ toP # <<>>
    /\ LET a == Head(toP)
           i == LogIndex(a.seq)
           e == tapLog[i]
           reset == isSeqNumRotated /\ a.seq < seqnoReceived
           tcs0 == IF reset THEN [vb \in VBs |-> [tcs[vb] EXCEPT !.lastSeqNum = 0]] ELSE tcs
       IN  /\ toP' = Tail(toP)
           /\ isSeqNumRotated' = (isSeqNumRotated /\ ~reset)
           /\ seqnoReceived' = a.seq
           /\ IF a.status = "success"
              THEN /\ isLastAckSucceed' = (i > 0)
                   /\ tapLog' = SubSeq(tapLog, i + 1, Len(tapLog))
                   /\ tcs' = IF i > 0 /\ e.ev = "end"
                             THEN [tcs0 EXCEPT ![e.it.vb].state = "synced"] ELSE tcs0
                   /\ ckCounter' = IF AckedCkMsg(i, e) THEN ckCounter - 1 ELSE ckCounter
                   /\ UNCHANGED <<queue, ckMsgs, suspended>>
              ELSE /\ isLastAckSucceed' = FALSE
                   /\ suspended' = TRUE
                   /\ tapLog' = IF i > 0 THEN SubSeq(tapLog, i + 1, Len(tapLog)) ELSE <<>>
                   /\ IF i > 0 /\ e.ev \in {"start", "end"}
                      THEN /\ ckCounter' = ckCounter - 1
                           /\ ckMsgs' = Append(ckMsgs, e.it)
                           /\ UNCHANGED <<queue>> /\ tcs' = tcs0
                      ELSE IF i > 0
                      THEN /\ queue' = Append(queue, e.it)
                           /\ tcs' = Rescheduled(tcs0, e.it.vb)
                           /\ UNCHANGED <<ckCounter, ckMsgs>>
                      ELSE UNCHANGED <<queue, ckCounter, ckMsgs>> /\ tcs' = tcs0
    /\ UNCHANGED <<mlog, cpos, seqno, toC, rtail, rchks, dropped, mutations, nacks>>

\* TapResumeCallback after the backoff.
Resume ==
    /\ suspended
    /\ suspended' = FALSE
    /\ UNCHANGED <<mlog, cpos, queue, ckMsgs, tcs, tapLog, seqno, seqnoReceived,
                   isLastAckSucceed, isSeqNumRotated, ckCounter, toC, toP,
                   rtail, rchks, dropped, mutations, nacks>>

-----------------------------------------------------------------------------
(* Consumer: tapNotify on the replica                                      *)

\* checkAndAddNewCheckpoint(id) on the replica's last checkpoint t.  An id
\* at or below t's id collapses the list into one open checkpoint with that
\* id; an empty open checkpoint is relabelled; otherwise t is closed and a
\* new open checkpoint added.  Returns the new last checkpoint and whether
\* it is a fresh one (its items are not t's).
CheckAndAdd(t, id) ==
    CASE id = 0       -> [t |-> t, fresh |-> FALSE]
      [] t.id = 0     -> [t |-> [t EXCEPT !.id = id], fresh |-> FALSE]
      [] id <= t.id   -> [t |-> [t EXCEPT !.id = id, !.open = TRUE], fresh |-> FALSE]
      [] t.open /\ ~t.items -> [t |-> [t EXCEPT !.id = id], fresh |-> FALSE]
      [] OTHER        -> [t |-> [id |-> id, open |-> TRUE, items |-> FALSE], fresh |-> TRUE]

\* closeOpenCheckpoint(id): closes the last checkpoint when it is open
\* with that id, and is a no-op otherwise.
CloseOpen(t, id) == IF id = t.id /\ t.open THEN [t EXCEPT !.open = FALSE] ELSE t

\* The memcached core acks a message that asks for one, and nacks every
\* error (from the specification).
Reply(m, status) ==
    toP' = IF status # "success" \/ m.ack THEN Append(toP, [seq |-> m.seq, status |-> status])
                                          ELSE toP

\* tapNotify for the oldest message.  A mutation may be throttled or hit
\* ENOMEM (both a temporary failure); otherwise it is stored and queued
\* into the replica's last checkpoint, where queueDirty ignores it (and
\* the set still succeeds) when that checkpoint is closed.  A checkpoint_start or checkpoint_end goes to
\* processCheckpointCommand.
ConsumerReceive ==
    /\ toC # <<>>
    /\ LET m == Head(toC)
           vb == m.it.vb
       IN  /\ toC' = Tail(toC)
           /\ \/ /\ m.ev = "mutation" /\ nacks < MaxNacks
                 /\ nacks' = nacks + 1
                 /\ Reply(m, "tmpfail")
                 /\ UNCHANGED <<rtail, rchks, dropped>>
              \/ /\ m.ev = "mutation"
                 /\ IF rtail[vb].open
                    THEN /\ rtail' = [rtail EXCEPT ![vb].items = TRUE]
                         /\ rchks' = [rchks EXCEPT ![vb] = @ \cup {m.it.chk}]
                         /\ Reply(m, "success")
                         /\ UNCHANGED dropped
                    ELSE /\ dropped' = TRUE
                         /\ Reply(m, "success")
                         /\ UNCHANGED <<rtail, rchks>>
                 /\ UNCHANGED nacks
              \/ /\ m.ev = "start"
                 /\ LET r == CheckAndAdd(rtail[vb], m.it.chk)
                    IN  /\ rtail' = [rtail EXCEPT ![vb] = r.t]
                        /\ rchks' = IF r.fresh THEN [rchks EXCEPT ![vb] = {}] ELSE rchks
                 /\ Reply(m, "success")
                 /\ UNCHANGED <<dropped, nacks>>
              \/ /\ m.ev = "end"
                 /\ rtail' = [rtail EXCEPT ![vb] = CloseOpen(@, m.it.chk)]
                 /\ Reply(m, "success")
                 /\ UNCHANGED <<rchks, dropped, nacks>>
    /\ UNCHANGED <<mlog, cpos, queue, ckMsgs, tcs, tapLog, seqno, seqnoReceived,
                   isLastAckSucceed, isSeqNumRotated, ckCounter, suspended, mutations>>

-----------------------------------------------------------------------------

\* Each vbucket starts with one open checkpoint InitChk on both sides, and
\* the TAP cursor registered at its beginning.
Init ==
    /\ mlog = [vb \in VBs |-> << [vb |-> vb, op |-> "start", chk |-> InitChk, mid |-> 0] >>]
    /\ cpos = [vb \in VBs |-> 0]
    /\ queue = <<>> /\ ckMsgs = <<>> /\ tapLog = <<>>
    /\ tcs = [vb \in VBs |-> [state |-> "start", lastSeqNum |-> 0, lastItem |-> FALSE]]
    /\ seqno = InitSeq /\ seqnoReceived = InitSeq - 1
    /\ isLastAckSucceed = FALSE /\ isSeqNumRotated = FALSE
    /\ ckCounter = 0 /\ suspended = FALSE
    /\ toC = <<>> /\ toP = <<>>
    /\ rtail = [vb \in VBs |-> [id |-> InitChk, open |-> TRUE, items |-> FALSE]]
    /\ rchks = [vb \in VBs |-> {}]
    /\ dropped = FALSE
    /\ mutations = 0 /\ nacks = 0

Next ==
    \/ \E vb \in VBs : ClientSet(vb) \/ NewCheckpoint(vb)
    \/ WalkCheckpointMsg \/ WalkItem
    \/ ProcessAck \/ Resume
    \/ ConsumerReceive

\* The memcached worker walks a notified connection (the notification
\* thread wakes paused ones at least every second), reads what TCP
\* delivers and processes acks; the dispatcher runs the resume callback.
\* Clients and checkpoint creation get no fairness.
Spec ==
    /\ Init /\ [][Next]_vars
    /\ WF_vars(WalkCheckpointMsg) /\ WF_vars(WalkItem)
    /\ WF_vars(ProcessAck) /\ WF_vars(Resume) /\ WF_vars(ConsumerReceive)

-----------------------------------------------------------------------------
(* Properties                                                              *)

TypeOK ==
    /\ \A vb \in VBs : cpos[vb] \in 0..Len(mlog[vb]) /\ tcs[vb] \in TcsRec
    /\ seqno \in 1..MaxSeq /\ seqnoReceived \in 0..MaxSeq
    /\ ckCounter \in Nat
    /\ rtail \in [VBs -> [id : 0..MaxChk, open : BOOLEAN, items : BOOLEAN]]

\* queueDirty (checkpoint.cc) never ignores a live mutation on the replica:
\* its comment expects only stale backfill items after a checkpoint_end, so
\* no mutation of the stream reaches the replica between a checkpoint_end
\* and the next checkpoint_start.
NoReplicaItemIgnored == ~dropped

\* The replica's checkpoints hold the master's: every item in the
\* replica's last checkpoint came from the master checkpoint of the same
\* id.  This is what checkpoint synchronisation is for.
CheckpointsSynced == \A vb \in VBs : rchks[vb] \subseteq {rtail[vb].id}

\* checkpointMsgCounter counts the checkpoint messages sent and not acked:
\* otherwise waitForCheckpointMsgAck stops the stream for good, or lets
\* items overtake an unacked checkpoint message.
CheckpointMsgCounterExact ==
    ckCounter = Cardinality({i \in 1..Len(tapLog) : tapLog[i].ev \in {"start", "end"}})

\* Every checkpoint the master closes is eventually closed on the replica.
CheckpointEventuallySynced ==
    \A vb \in VBs, c \in 1..MaxChk :
        (c < OpenId(vb)) ~> (rtail[vb].id > c \/ (rtail[vb].id = c /\ ~rtail[vb].open))

=============================================================================
