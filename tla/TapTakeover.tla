---------------------------- MODULE TapTakeover -----------------------------
(***************************************************************************)
(* A takeover TAP stream (TAP_CONNECT_FLAG_TAKEOVER_VBUCKETS with a        *)
(* vbucket list) that moves a set of vbuckets from this node (the master)  *)
(* to the consumer.  The producer (TapProducer in tapconnection.cc, walked *)
(* by EventuallyPersistentEngine::doWalkTapQueue in ep_engine.cc) keeps    *)
(* two queues of vbucket events: the high-priority queue holds the opaque  *)
(* messages and one "pending" state change per vbucket of the filter, the  *)
(* low-priority queue one "active" state change per vbucket.  A walk sends *)
(* the high-priority events first, then, once every opaque message is     *)
(* acked, the items its checkpoint cursors have not read, and when nothing  *)
(* is left it takes the next "active" event: if the vbucket is still      *)
(* active here and few items are unacked it sets it dead, and it sends the *)
(* state change once every earlier message is acked.  A filter change      *)
(* rebuilds both queues.  Clients write to the vbuckets that are active    *)
(* here without taking the producer's queue lock.                          *)
(*                                                                         *)
(* Items are abstracted to their index in their vbucket's history; the     *)
(* consumer keeps the highest index it has received.                       *)
(***************************************************************************)
EXTENDS Naturals, Sequences, SequencesExt, FiniteSets

CONSTANTS
    VBs,             \* vbucket ids
    InitFilter,      \* the filter the connection is opened with
    Filters,         \* filters a change_vbucket_filter request may ask for
    MaxWrites,       \* bound on client writes
    MaxChanges,      \* bound on filter changes
    MaxTakeoverLog   \* MAX_TAKEOVER_TAP_LOG_SIZE

ASSUME InitFilter \subseteq VBs /\ Filters \subseteq SUBSET VBs
ASSUME MaxTakeoverLog \in Nat \ {0}

VARIABLES
    filter,       \* vbucketFilter
    cursors,      \* vbuckets with a TapCheckpointState (and a cursor)
    read,         \* vb -> items of the vbucket the cursor has read
    hiq,          \* vBucketHighPriority
    loq,          \* vBucketLowPriority
    tapLog,       \* sent, not yet acked messages
    sent,         \* seqno of the last message put in the tap log
    opaqueCnt,    \* opaqueMsgCounter
    held,         \* <<[ev, myState]>> between the checks and the state change
    disconnected, \* the producer has ended the stream
    mstate,       \* vb -> state of the vbucket on this node
    written,      \* vb -> client writes to the vbucket
    chan,         \* messages in flight to the consumer
    acks,         \* acks in flight to the producer
    rstate,       \* vb -> state of the vbucket on the consumer
    got,          \* vb -> highest item index the consumer has received
    changes       \* filter changes so far

vars == <<filter, cursors, read, hiq, loq, tapLog, sent, opaqueCnt, held,
          disconnected, mstate, written, chan, acks, rstate, got, changes>>

\* The opaque codes reuse the state field of a TapVBucketEvent.
OpaqueCodes == {"auto_nack", "filter_change"}
NonVBucketOpaque == {"auto_nack", "chk_sync"}
GlobalOpaque == {"auto_nack", "chk_sync", "close_backfill", "filter_change"}
Event == [ev : {"vbset"}, vb : VBs, st : {"pending", "active"}]
         \cup [ev : {"opaque"}, vb : VBs, st : OpaqueCodes]
Pause == [ev |-> "pause", vb |-> CHOOSE v \in VBs : TRUE, st |-> "active"]
Opaque(code) == [ev |-> "opaque", vb |-> CHOOSE v \in VBs : TRUE, st |-> code]
VBSet(vb, st) == [ev |-> "vbset", vb |-> vb, st |-> st]

SortedVBs(s) == SetToSortSeq(s, LAMBDA a, b : a < b)

-----------------------------------------------------------------------------
(* The vbucket event queues                                               *)

\* VBucketFilter::filter_diff: the symmetric difference of two filters.
filter_diff(a, b) == (a \ b) \cup (b \ a)

\* An event the high-priority walk skips: a state change, or an opaque
\* message of a vbucket, whose vbucket is not in the filter.
Skipped(e, f) == e.vb \notin f /\ ~(e.ev = "opaque" /\ e.st \in GlobalOpaque)

\* nextVBucketHighPriority_UNLOCKED: pop events until one is not skipped.
RECURSIVE nextVBucketHighPriority(_, _)
nextVBucketHighPriority(q, f) ==
    IF q = <<>> THEN [ev |-> Pause, q |-> q]
    ELSE IF Skipped(Head(q), f) THEN nextVBucketHighPriority(Tail(q), f)
    ELSE [ev |-> Head(q), q |-> Tail(q)]

\* TapProducer::removeTAPCursor over the vbuckets that leave the filter.
removeTAPCursors(old, new, c) == c \ (filter_diff(old, new) \cap old)

\* The queues setVBucketFilter rebuilds for the takeover flag from the
\* high-priority queue h and the filter f: the connection-wide opaque
\* messages first, a pending state change per vbucket of f, the vbucket
\* opaque messages, and the filter-change notification when asked for;
\* the low-priority queue gets an active state change per vbucket of f.
rebuild(h, f, notify) ==
    LET keep == SelectSeq(h, LAMBDA e : e.ev = "opaque" /\ e.st \in NonVBucketOpaque)
        vbOpq == SelectSeq(h, LAMBDA e : e.ev = "opaque" /\ e.st \notin NonVBucketOpaque)
        vs == SortedVBs(f)
    IN  [hi |-> keep \o [i \in 1..Len(vs) |-> VBSet(vs[i], "pending")] \o vbOpq
                \o (IF notify THEN <<Opaque("filter_change")>> ELSE <<>>),
         lo |-> [i \in 1..Len(vs) |-> VBSet(vs[i], "active")]]

\* setVBucketFilter with the list and takeover flags: install the filter
\* and rebuild both queues from it.  (The cursors of the vbuckets that
\* leave the filter are removed by removeTAPCursors.)
setVBucketFilter(new, notify) ==
    /\ filter' = new
    /\ hiq' = rebuild(hiq, new, notify).hi
    /\ loq' = rebuild(hiq, new, notify).lo

\* registerTAPCursor: every vbucket of the filter gets a checkpoint state
\* and the others lose theirs; one that had no cursor streams again from
\* its first retained item (a cursor at the first checkpoint, or a backfill).
registerTAPCursor(f, c) ==
    /\ cursors' = f
    /\ read' = [vb \in VBs |-> IF vb \in c THEN read[vb] ELSE 0]

-----------------------------------------------------------------------------
(* The producer's walk                                                     *)

\* A message: the event, the item index (0 for a vbucket event), its seqno
\* and whether it asks for an ack.
Msg(e, idx, s, ack) == [ev |-> e.ev, vb |-> e.vb, st |-> e.st, idx |-> idx,
                        seq |-> s, ack |-> ack]

\* Put an event in the tap log under the next seqno and send it; vbucket
\* state changes and opaque messages always ask for an ack (requestAck).
SendEvent(e) ==
    /\ tapLog' = Append(tapLog, Msg(e, 0, sent + 1, TRUE))
    /\ chan' = Append(chan, Msg(e, 0, sent + 1, TRUE))
    /\ sent' = sent + 1

\* An item message; whether it asks for an ack depends on the ack
\* interval, which is left open, except that the last item asks for one.
ItemMsg(vb, idx, s, ack) == [ev |-> "item", vb |-> vb, st |-> "item", idx |-> idx,
                             seq |-> s, ack |-> ack]

\* hasNextFromCheckpoints_UNLOCKED: a vbucket with a checkpoint state has
\* unread items (a dead vbucket counts, as doTakeOver is set).
HasNext(vb) == vb \in cursors /\ read[vb] < written[vb]

\* emptyQueue_UNLOCKED once the cursors stand at r.
Caught(r) == \A vb \in cursors : r[vb] >= written[vb]

\* nextVBucketLowPriority_UNLOCKED.  An event of a vbucket outside the
\* filter falls through to nextVBucketHighPriority_UNLOCKED.  The model's
\* low-priority queue never holds one: it leaves out reschedule_UNLOCKED
\* and rollback, which requeue state changes without a filter test, and
\* setVBucketFilter rebuilds the queue from the new filter.  So the
\* fall-through is given the high-priority queue the walk has just found
\* empty.
nextVBucketLowPriority(q, f) ==
    IF q = <<>> THEN [ev |-> Pause, q |-> q]
    ELSE IF Head(q).vb \notin f THEN [ev |-> nextVBucketHighPriority(<<>>, f).ev, q |-> Tail(q)]
    ELSE [ev |-> Head(q), q |-> Tail(q)]

\* checkDumpOrTakeOverCompletion up to reading the vbucket's state (no
\* item is left, so mayCompleteDumpOrTakeover holds): take the next active
\* state change into the tap log; with none left, pause while messages are
\* unacked and end the stream when all are acked.
checkDumpOrTakeOverCompletion ==
    LET l == nextVBucketLowPriority(loq, filter) IN
    /\ loq' = l.q
    /\ IF l.ev # Pause
       THEN /\ tapLog' = Append(tapLog, Msg(l.ev, 0, sent + 1, TRUE))
            /\ sent' = sent + 1
            /\ held' = <<[ev |-> l.ev, myState |-> mstate[l.ev.vb]]>>
            /\ UNCHANGED disconnected
       ELSE /\ disconnected' = (tapLog = <<>>)
            /\ UNCHANGED <<tapLog, sent, held>>
    /\ UNCHANGED chan

\* The first step of doWalkTapQueue that is not a pause: the next
\* high-priority event; nothing while an opaque message is unacked; the
\* next item of a cursor; else checkDumpOrTakeOverCompletion up to the
\* point where it has read the vbucket's state.
WalkTapQueue ==
    /\ ~disconnected /\ held = <<>>
    /\ LET h == nextVBucketHighPriority(hiq, filter) IN
       CASE h.ev # Pause ->
              /\ hiq' = h.q
              /\ SendEvent(h.ev)
              /\ opaqueCnt' = IF h.ev.ev = "opaque" THEN opaqueCnt + 1 ELSE opaqueCnt
              /\ UNCHANGED <<loq, held, disconnected, read>>
         [] opaqueCnt > 0 ->
              /\ hiq # h.q /\ hiq' = h.q
              /\ UNCHANGED <<loq, tapLog, sent, chan, opaqueCnt, held, disconnected, read>>
         [] \E vb \in VBs : HasNext(vb) ->
              \E vb \in VBs, ack \in BOOLEAN :
                 LET r == [read EXCEPT ![vb] = @ + 1]
                     m == ItemMsg(vb, r[vb], sent + 1, ack \/ Caught(r))
                 IN  /\ HasNext(vb)
                     /\ hiq' = h.q
                     /\ read' = r
                     /\ tapLog' = Append(tapLog, m)
                     /\ chan' = Append(chan, m)
                     /\ sent' = sent + 1
                     /\ UNCHANGED <<loq, opaqueCnt, held, disconnected>>
         [] OTHER ->
              /\ hiq' = h.q
              /\ checkDumpOrTakeOverCompletion
              /\ UNCHANGED <<opaqueCnt, read>>
    /\ UNCHANGED <<filter, cursors, mstate, written, acks, rstate, got, changes>>

\* Mutant: the state change is sent without waiting for the unacked items.
TakeoverFinishNoRequeue ==
    /\ held # <<>>
    /\ LET e == held[1].ev IN
       /\ mstate' = IF e.st = "active" /\ held[1].myState = "active"
                       /\ Len(tapLog) < MaxTakeoverLog
                    THEN [mstate EXCEPT ![e.vb] = "dead"] ELSE mstate
       /\ chan' = Append(chan, Last(tapLog))
       /\ UNCHANGED <<tapLog, sent, loq>>
    /\ held' = <<>>
    /\ UNCHANGED <<filter, cursors, read, hiq, opaqueCnt, disconnected, written,
                   acks, rstate, got, changes>>

\* The rest of checkDumpOrTakeOverCompletion: an active state change of a
\* vbucket that was active here, with fewer than MAX_TAKEOVER_TAP_LOG_SIZE
\* messages unacked, sets the vbucket dead; while earlier messages are
\* unacked the state change leaves the tap log and goes to the back of the
\* low-priority queue (its seqno is reused), otherwise it is sent.
TakeoverFinish ==
    /\ held # <<>>
    /\ LET e == held[1].ev IN
       /\ mstate' = IF e.st = "active" /\ held[1].myState = "active"
                       /\ Len(tapLog) < MaxTakeoverLog
                    THEN [mstate EXCEPT ![e.vb] = "dead"] ELSE mstate
       /\ IF Len(tapLog) > 1
          THEN /\ tapLog' = Front(tapLog)
               /\ sent' = sent - 1
               /\ loq' = Append(loq, VBSet(e.vb, "active"))
               /\ UNCHANGED chan
          ELSE /\ chan' = Append(chan, Last(tapLog))
               /\ UNCHANGED <<tapLog, sent, loq>>
    /\ held' = <<>>
    /\ UNCHANGED <<filter, cursors, read, hiq, opaqueCnt, disconnected, written,
                   acks, rstate, got, changes>>

\* idle_UNLOCKED: nothing is queued, unread or unacked.
idle(t) == hiq = <<>> /\ loq = <<>> /\ t = <<>> /\ \A vb \in VBs : ~HasNext(vb)

\* Mutant: every explicitly acked message counts as an opaque one.
ProcessAckAnyEvent ==
    /\ held = <<>> /\ acks # <<>>
    /\ LET i == SelectInSeq(tapLog, LAMBDA m : m.seq = Head(acks))
           t == IF i = 0 THEN tapLog ELSE SubSeq(tapLog, i + 1, Len(tapLog))
       IN  /\ tapLog' = t
           /\ opaqueCnt' = IF i # 0 THEN opaqueCnt - 1 ELSE opaqueCnt
           /\ disconnected' = (disconnected \/ idle(t))
    /\ acks' = Tail(acks)
    /\ UNCHANGED <<filter, cursors, read, hiq, loq, sent, held,
                   mstate, written, chan, rstate, got, changes>>

\* Mutant: an acked opaque message is still waited for.
ProcessAckKeepOpaque ==
    /\ held = <<>> /\ acks # <<>>
    /\ LET i == SelectInSeq(tapLog, LAMBDA m : m.seq = Head(acks))
           t == IF i = 0 THEN tapLog ELSE SubSeq(tapLog, i + 1, Len(tapLog))
       IN  /\ tapLog' = t
           /\ opaqueCnt' = opaqueCnt
           /\ disconnected' = (disconnected \/ idle(t))
    /\ acks' = Tail(acks)
    /\ UNCHANGED <<filter, cursors, read, hiq, loq, sent, held,
                   mstate, written, chan, rstate, got, changes>>

\* processAck with a success status: every message up to the acked one
\* leaves the tap log and an acked opaque message is no longer waited for
\* (an ack of a message not in the log changes nothing); when nothing is
\* left to send or to ack the takeover is complete and the stream ends.
ProcessAck ==
    /\ held = <<>> /\ acks # <<>>
    /\ LET i == SelectInSeq(tapLog, LAMBDA m : m.seq = Head(acks))
           t == IF i = 0 THEN tapLog ELSE SubSeq(tapLog, i + 1, Len(tapLog))
       IN  /\ tapLog' = t
           /\ opaqueCnt' = IF i # 0 /\ tapLog[i].ev = "opaque" THEN opaqueCnt - 1 ELSE opaqueCnt
           /\ disconnected' = (disconnected \/ idle(t))
    /\ acks' = Tail(acks)
    /\ UNCHANGED <<filter, cursors, read, hiq, loq, sent, held,
                   mstate, written, chan, rstate, got, changes>>

-----------------------------------------------------------------------------
(* The consumer, the clients and the filter change                        *)

\* tapNotify on the consumer: a state change sets the vbucket's state, a
\* mutation is stored, an opaque message only logs; a message that asks
\* for an ack is acked in order.
Receive ==
    /\ chan # <<>>
    /\ LET m == Head(chan) IN
       /\ rstate' = IF m.ev = "vbset" THEN [rstate EXCEPT ![m.vb] = m.st] ELSE rstate
       /\ got' = IF m.ev = "item" /\ m.idx > got[m.vb]
                 THEN [got EXCEPT ![m.vb] = m.idx] ELSE got
       /\ acks' = IF m.ack THEN Append(acks, m.seq) ELSE acks
    /\ chan' = Tail(chan)
    /\ UNCHANGED <<filter, cursors, read, hiq, loq, tapLog, sent, opaqueCnt, held,
                   disconnected, mstate, written, changes>>

\* A client write is accepted by a vbucket that is active here; it takes
\* no lock of the producer.
Write(vb) ==
    /\ mstate[vb] = "active"
    /\ FoldFunction(+, 0, written) < MaxWrites
    /\ written' = [written EXCEPT ![vb] = @ + 1]
    /\ UNCHANGED <<filter, cursors, read, hiq, loq, tapLog, sent, opaqueCnt, held,
                   disconnected, mstate, chan, acks, rstate, got, changes>>

\* CMD_CHANGE_VB_FILTER with a non-empty list: setVBucketFilter with the
\* completion notice, then registerTAPCursor for the new filter.
ChangeFilter(new) ==
    /\ ~disconnected /\ held = <<>>
    /\ new # {} /\ changes < MaxChanges
    /\ setVBucketFilter(new, TRUE)
    /\ registerTAPCursor(new, removeTAPCursors(filter, new, cursors))
    /\ changes' = changes + 1
    /\ UNCHANGED <<tapLog, sent, opaqueCnt, held, disconnected, mstate, written,
                   chan, acks, rstate, got>>

-----------------------------------------------------------------------------

\* The connection is opened with the ack flag (evaluateFlags queues the
\* auto-nack opaque message) and its vbucket list.
Init ==
    /\ filter = InitFilter /\ cursors = InitFilter
    /\ read = [vb \in VBs |-> 0]
    /\ hiq = rebuild(<<Opaque("auto_nack")>>, InitFilter, FALSE).hi
    /\ loq = rebuild(<<Opaque("auto_nack")>>, InitFilter, FALSE).lo
    /\ tapLog = <<>> /\ sent = 0 /\ opaqueCnt = 0 /\ held = <<>>
    /\ disconnected = FALSE
    /\ mstate = [vb \in VBs |-> "active"] /\ written = [vb \in VBs |-> 0]
    /\ chan = <<>> /\ acks = <<>>
    /\ rstate = [vb \in VBs |-> "replica"] /\ got = [vb \in VBs |-> 0]
    /\ changes = 0

Next ==
    \/ WalkTapQueue \/ TakeoverFinish \/ ProcessAck \/ Receive
    \/ \E vb \in VBs : Write(vb)
    \/ \E f \in Filters : ChangeFilter(f)

\* The memcached front end walks a connection whenever it is notified
\* (new items, an ack, and the notification thread's round over paused
\* connections at least every second); the network delivers messages and
\* acks.  An ack waits for the queue lock that each walk takes and releases,
\* so it is strongly fair against a walk that keeps requeueing.  Clients
\* and filter changes get no fairness.
Fairness ==
    /\ WF_vars(WalkTapQueue) /\ WF_vars(TakeoverFinish)
    /\ SF_vars(ProcessAck) /\ WF_vars(Receive)

Spec == Init /\ [][Next]_vars /\ Fairness

-----------------------------------------------------------------------------
(* Properties                                                              *)

TypeOK ==
    /\ filter \subseteq VBs /\ cursors \subseteq VBs
    /\ hiq \in Seq(Event) /\ loq \in Seq(Event)
    /\ mstate \in [VBs -> {"active", "dead"}]
    /\ rstate \in [VBs -> {"replica", "pending", "active"}]
    /\ opaqueCnt \in Nat

\* Exclusive ownership: the consumer makes a vbucket active only once it
\* is dead here.  checkDumpOrTakeOverCompletion sets it dead under a
\* tap-log threshold and holds the state change back until every earlier
\* message is acked; both must agree for this to hold.
ExclusiveOwnership ==
    \A vb \in VBs : rstate[vb] = "active" => mstate[vb] = "dead"

\* The consumer takes over a vbucket with every write this node accepted
\* for it: when it becomes active it has received the latest item.
ActiveHasAll ==
    \A vb \in VBs : rstate[vb] = "active" => got[vb] = written[vb]

\* A vbucket that went dead here for the takeover becomes active on the
\* consumer: no filter change strands it dead on both sides between
\* setVBucketState(dead) and the delivery of its requeued state change.
DeadTakenOver == \A vb \in VBs : mstate[vb] = "dead" ~> rstate[vb] = "active"

\* The takeover completes: the stream ends, and every vbucket of the final
\* filter is dead here and active on the consumer.
TakeoverCompletes ==
    <>[](/\ disconnected
         /\ \A vb \in filter : mstate[vb] = "dead" /\ rstate[vb] = "active")

=============================================================================
