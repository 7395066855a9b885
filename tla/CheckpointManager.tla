------------------------- MODULE CheckpointManager -------------------------
(***************************************************************************)
(* The checkpoint manager of one vbucket (ep-engine src/checkpoint.cc).    *)
(*                                                                         *)
(* A checkpoint is a list of queued items: a dummy item, a checkpoint      *)
(* start item, the deduplicated set/del items, and, once closed, a        *)
(* checkpoint end item.  The manager keeps the list of checkpoints, the    *)
(* persistence cursor and the TAP cursors.  A cursor is a position         *)
(* (checkpoint, item) plus an offset, the number of items it has passed.   *)
(*                                                                         *)
(* Every public operation runs under the manager's queueLock, so each one  *)
(* is a single atomic action here; the _UNLOCKED helpers it calls are      *)
(* operators on a record that holds the manager's state, composed in the   *)
(* order the code calls them.                                              *)
(*                                                                         *)
(* Data abstraction: a key is a model value, an item is [key, op, mid]     *)
(* where mid is the mutation id the checkpoint's keyIndex holds for the    *)
(* key (each key occurs once per checkpoint, so the index is the item      *)
(* list itself); positions are 1-based indexes into a checkpoint's items,  *)
(* and a list iterator that survives an erase or insert keeps pointing at  *)
(* the same item, so its index is shifted.  Queued times, memory overhead *)
(* and logging are left out.                                               *)
(*                                                                         *)
(* Ghost state: lastMid[k] is the mutation id of the latest version of key *)
(* k, owed[n] the keys whose latest version cursor n has still to deliver. *)
(***************************************************************************)
EXTENDS Integers, Sequences, FiniteSets, SequencesExt, FiniteSetsExt

CONSTANTS
  Keys,                 \* client keys (model values)
  Ops,                  \* operations of client mutations: subset of {"set", "del"}
  TapNames,             \* names of TAP cursors (model values)
  Persistence,          \* name of the persistence cursor (model value)
  VbState,              \* state of the vbucket: "active" or "replica"
  MaxCheckpoints,       \* config max_checkpoints
  ChkMaxItems,          \* config chk_max_items
  KeepClosedChks,       \* config keep_closed_chks
  InconsistentSlaveChk, \* config inconsistent_slave_chk
  ClosedCheckpointOnly, \* the TAP producers' closedCheckpointOnly flag
  RegisteredTAPClient,  \* the TAP producers' registeredTAPClient flag
  ItemNumBasedNewChk,   \* config item_num_based_new_chk
  InitChkId,            \* open checkpoint id the manager is created with
  MemLevels,            \* memory used against mem_high_wat seen by the GC: subset of Mem
  HtAllValues,          \* values of the "tail holds enough items" test seen by the GC
  MaxChkId,             \* bound: largest checkpoint id
  MaxMutationId         \* bound: largest mutation id handed out

ASSUME VbState \in {"active", "replica"}
ASSUME MaxCheckpoints \in Nat \ {0} /\ ChkMaxItems \in Nat \ {0}
ASSUME {KeepClosedChks, InconsistentSlaveChk, ItemNumBasedNewChk, ClosedCheckpointOnly,
         RegisteredTAPClient} \subseteq BOOLEAN
ASSUME MaxChkId \in Nat \ {0} /\ MaxMutationId \in Nat
ASSUME Persistence \notin TapNames
Mem == {"below", "at", "above"}
ASSUME MemLevels \subseteq Mem /\ HtAllValues \subseteq BOOLEAN
ASSUME Ops \subseteq {"set", "del"} /\ InitChkId \in 0..MaxChkId

VARIABLES
  chkList,          \* checkpointList: sequence of checkpoints
  cursor,           \* persistenceCursor and tapCursors, by name
  tapCursors,       \* names registered in the tapCursors map
  numItems,         \* numItems of the manager
  mutationCounter,  \* source of mutation ids
  pCursorPreChkId,  \* pCursorPreCheckpointId
  lastClosedChkId,  \* lastClosedCheckpointId
  isCollapsedChk,   \* isCollapsedCheckpoint
  chkExtension,     \* checkpointExtension
  lastMid,          \* ghost: mutation id of the latest version of each key
  owed              \* ghost: keys each cursor has still to deliver

mgrVars == <<chkList, cursor, tapCursors, numItems, mutationCounter,
             pCursorPreChkId, lastClosedChkId, isCollapsedChk, chkExtension>>
vars == <<mgrVars, lastMid, owed>>

Names == {Persistence} \cup TapNames

DummyKey == "dummy_key"
StartKey == "checkpoint_start"
EndKey   == "checkpoint_end"

Item(k, op, mid) == [key |-> k, op |-> op, mid |-> mid]

NoCursor == [chk |-> 0, pos |-> 0, offset |-> 0, closedOnly |-> FALSE, openIdAtReg |-> 0]

(***************************************************************************)
(* Checkpoint helpers.                                                     *)
(***************************************************************************)

\* Checkpoint::getNumItems: the set and del items of a checkpoint.
NumItemsOf(chk) == Cardinality({i \in 1..Len(chk.items) : chk.items[i].op \in {"set", "del"}})

\* keyIndex.find: the position of key k in an item list, 0 if absent.
IndexOfKey(items, k) == SelectInSeq(items, LAMBDA it : it.key = k)

\* A new open checkpoint holding the dummy item and the checkpoint start
\* item, queued with the next two mutation ids.
NewCheckpoint(id, mc) ==
  [id |-> id, state |-> "open", cursors |-> {},
   items |-> <<Item(DummyKey, "empty", mc + 1), Item(StartKey, "start", mc + 2)>>]

(***************************************************************************)
(* The manager's state as a record, so that the _UNLOCKED helpers compose. *)
(***************************************************************************)
Cur == [chks |-> chkList, cur |-> cursor, taps |-> tapCursors, numItems |-> numItems,
        mc |-> mutationCounter, preChkId |-> pCursorPreChkId,
        lastClosed |-> lastClosedChkId, collapsed |-> isCollapsedChk, ext |-> chkExtension]

Commit(s) ==
  /\ chkList' = s.chks
  /\ cursor' = s.cur
  /\ tapCursors' = s.taps
  /\ numItems' = s.numItems
  /\ mutationCounter' = s.mc
  /\ pCursorPreChkId' = s.preChkId
  /\ lastClosedChkId' = s.lastClosed
  /\ isCollapsedChk' = s.collapsed
  /\ chkExtension' = s.ext

\* The cursors that exist: the persistence cursor and the registered TAP cursors.
Live(s) == {Persistence} \cup s.taps

TailChk(s) == s.chks[Len(s.chks)]

\* Mutant: decrCursorOffset_UNLOCKED without the guard against a negative
\* offset.
DecrOffsetUnclamped(c, n) == [c EXCEPT !.offset = @ - n]

DecrOffset(c, n) == [c EXCEPT !.offset = IF @ >= n THEN @ - n ELSE 0]

DecrPos(c) == [c EXCEPT !.pos = IF @ # 1 THEN @ - 1 ELSE @]

\* getOpenCheckpointId_UNLOCKED
OpenChkId(s) ==
  IF Len(s.chks) = 0 THEN 0
  ELSE IF TailChk(s).state = "open" THEN TailChk(s).id ELSE TailChk(s).id + 1

\* getLastClosedCheckpointId_UNLOCKED: refreshes lastClosedCheckpointId
\* unless the checkpoints were collapsed.
RefreshLastClosed(s) ==
  IF s.collapsed THEN s
  ELSE [s EXCEPT !.lastClosed = IF OpenChkId(s) > 0 THEN OpenChkId(s) - 1 ELSE 0]

\* Mutant: Checkpoint::queueDirty without shifting a cursor that sits on
\* the existing item one position back.
QueueIntoTailNoShift(s, k, op) ==
  LET b == Len(s.chks)
      items == s.chks[b].items
      p == IndexOfKey(items, k)
      Fix(c) == LET c1 == IF items[p].mid <= items[c.pos].mid THEN DecrOffset(c, 1) ELSE c
                IN  [c1 EXCEPT !.pos = IF @ > p THEN @ - 1 ELSE @]
  IN  IF p # 0
      THEN [s EXCEPT !.chks[b].items = Append(RemoveAt(items, p), Item(k, op, s.mc + 1)),
                     !.cur = [n \in Names |-> IF n \in Live(s) /\ s.cur[n].chk = b THEN Fix(s.cur[n])
                                              ELSE s.cur[n]],
                     !.mc = s.mc + 1]
      ELSE [s EXCEPT !.chks[b].items = Append(items, Item(k, op, s.mc + 1)), !.mc = s.mc + 1]

\* Checkpoint::queueDirty on the tail checkpoint.  A key already in the
\* checkpoint moves to the end with the new mutation id; before that, every
\* cursor on the checkpoint whose current item is not older than the
\* existing one loses one from its offset, and a cursor on the existing
\* item steps back one.
QueueIntoTail(s, k, op) ==
  LET b      == Len(s.chks)
      items  == s.chks[b].items
      newMid == s.mc + 1
      p      == IndexOfKey(items, k)
      Fix(c) ==
        LET c1 == IF items[p].mid <= items[c.pos].mid THEN DecrOffset(c, 1) ELSE c
            c2 == IF c1.pos = p THEN DecrPos(c1) ELSE c1
        IN  [c2 EXCEPT !.pos = IF @ > p THEN @ - 1 ELSE @]
  IN  IF p # 0
      THEN [s EXCEPT !.chks[b].items = Append(RemoveAt(items, p), Item(k, op, newMid)),
                     !.cur = [n \in Names |->
                                IF n \in Live(s) /\ s.cur[n].chk = b THEN Fix(s.cur[n])
                                ELSE s.cur[n]],
                     !.mc = newMid]
      ELSE [s EXCEPT !.chks[b].items = Append(items, Item(k, op, newMid)),
                     !.mc = newMid]

\* Mutant: closeOpenCheckpoint_UNLOCKED without ++numItems for the end item.
CloseOpenNoCount(s, id) ==
  IF id # TailChk(s).id \/ TailChk(s).state = "closed" THEN s
  ELSE [QueueIntoTail(s, EndKey, "end") EXCEPT !.chks[Len(s.chks)].state = "closed"]

\* closeOpenCheckpoint_UNLOCKED
CloseOpen(s, id) ==
  IF id # TailChk(s).id \/ TailChk(s).state = "closed" THEN s
  ELSE LET s1 == QueueIntoTail(s, EndKey, "end")
       IN  [s1 EXCEPT !.numItems = @ + 1, !.chks[Len(s1.chks)].state = "closed"]

\* moveCursorToNextCheckpoint: possible from a closed checkpoint that is not
\* the last one.
CanMoveToNext(s, c) == s.chks[c.chk].state = "closed" /\ c.chk < Len(s.chks)

MoveToNext(s, n) ==
  LET c == s.cur[n]
  IN  [s EXCEPT !.chks[c.chk].cursors = @ \ {n},
                !.chks[c.chk + 1].cursors = @ \cup {n},
                !.cur[n] = [c EXCEPT !.chk = @ + 1, !.pos = 1]]

\* Mutant: addNewCheckpoint_UNLOCKED skips the checkpoint end item without
\* counting it in the persistence cursor's offset.
AdvancePersistenceNoCount(s) ==
  LET c == s.cur[Persistence]
      chk == s.chks[c.chk]
      skip == c.pos + 1 <= Len(chk.items) /\ chk.items[c.pos + 1].op = "end"
      s1 == [s EXCEPT !.cur[Persistence].pos = IF skip THEN @ + 2 ELSE @ + 1]
      c1 == s1.cur[Persistence]
  IN  IF c1.pos = Len(chk.items) + 1 /\ chk.state = "closed" /\ CanMoveToNext(s1, c1)
      THEN [MoveToNext(s1, Persistence) EXCEPT !.preChkId = chk.id]
      ELSE [s1 EXCEPT !.cur[Persistence].pos = @ - 1]

\* The tail of addNewCheckpoint_UNLOCKED: the persistence cursor, if it has
\* reached the end of its closed checkpoint (skipping a checkpoint end item),
\* moves to the next checkpoint; otherwise it stays where it was.
AdvancePersistence(s) ==
  LET c      == s.cur[Persistence]
      chk    == s.chks[c.chk]
      skip   == c.pos + 1 <= Len(chk.items) /\ chk.items[c.pos + 1].op = "end"
      c1     == IF skip THEN [c EXCEPT !.offset = @ + 1, !.pos = @ + 2]
                ELSE [c EXCEPT !.pos = @ + 1]
      s1     == [s EXCEPT !.cur[Persistence] = c1]
      back   == [s1 EXCEPT !.cur[Persistence].pos = @ - 1]
  IN  IF c1.pos = Len(chk.items) + 1 /\ chk.state = "closed" /\ CanMoveToNext(s1, c1)
      THEN [MoveToNext(s1, Persistence) EXCEPT !.preChkId = chk.id]
      ELSE back

\* addNewCheckpoint_UNLOCKED
AddNew(s, id) ==
  LET s1 == IF Len(s.chks) > 0 /\ TailChk(s).state = "open" THEN CloseOpen(s, TailChk(s).id) ELSE s
      s2 == [s1 EXCEPT !.chks = Append(@, NewCheckpoint(id, s1.mc)),
                       !.mc = @ + 2, !.numItems = @ + 1]
  IN  IF Len(s.chks) = 0 THEN s2 ELSE AdvancePersistence(s2)

\* The creation condition of checkOpenCheckpoint_UNLOCKED; elapsed stands
\* for the checkpoint period having passed since the tail was created.
CreatesChk(s, force, elapsed) ==
  /\ ~s.ext
  /\ \/ force
     \/ ItemNumBasedNewChk /\ NumItemsOf(TailChk(s)) >= ChkMaxItems
     \/ NumItemsOf(TailChk(s)) > 0 /\ elapsed

\* Mutant: checkOpenCheckpoint_UNLOCKED opens the new checkpoint with the
\* id of the one it closes.
CheckOpenSameId(s, force, elapsed) ==
  IF CreatesChk(s, force, elapsed) THEN AddNew(CloseOpen(s, TailChk(s).id), TailChk(s).id) ELSE s

CheckOpen(s, force, elapsed) ==
  IF CreatesChk(s, force, elapsed)
  THEN AddNew(CloseOpen(s, TailChk(s).id), TailChk(s).id + 1)
  ELSE s

\* canCreateNewCheckpoint in queueDirty and removeClosedUnrefCheckpoints
CanCreate(s) ==
  \/ Len(s.chks) < MaxCheckpoints
  \/ Len(s.chks) = MaxCheckpoints /\ s.chks[1].cursors = {}

WithinBounds(s) == s.mc <= MaxMutationId /\ (Len(s.chks) > 0 => TailChk(s).id <= MaxChkId)

\* Keys whose latest version is in the item list items.
Delivers(items) == {k \in Keys : \E i \in 1..Len(items) : items[i].key = k /\ items[i].mid = lastMid[k]}


(***************************************************************************)
(* Garbage collection: removeClosedUnrefCheckpoints and its helpers.       *)
(***************************************************************************)

\* Mutant: removeInvalidCursorsOnCheckpoint treats the persistence cursor's
\* name like an unknown TAP name.
RemoveInvalidCursorsTapOnly(s, i) ==
  [s EXCEPT !.chks[i].cursors = {n \in @ : n \in s.taps /\ s.cur[n].chk = i}]

\* removeInvalidCursorsOnCheckpoint: drop the names of cursors that are not
\* on checkpoint i.
RemoveInvalidCursors(s, i) ==
  [s EXCEPT !.chks[i].cursors = {n \in @ : n \in Live(s) /\ s.cur[n].chk = i}]

\* The scan loop from the oldest checkpoint: <<state, removed, unrefItems>>.
RECURSIVE GcScan(_, _, _, _)
GcScan(s, i, removed, unref) ==
  IF i > Len(s.chks) THEN <<s, removed, unref>>
  ELSE LET s1 == RemoveInvalidCursors(s, i)
           r  == removed + 1
           u  == unref + NumItemsOf(s1.chks[i]) + 2
       IN  IF s1.chks[i].cursors # {} THEN <<s1, removed, unref>>
           ELSE IF KeepClosedChks /\ Len(s.chks) - r <= MaxCheckpoints THEN <<s1, r, u>>
           ELSE GcScan(s1, i + 1, r, u)

\* Splice the first r checkpoints out of the list; the cursors keep
\* pointing at their checkpoints.
DropPrefix(s, r) ==
  [s EXCEPT !.chks = SubSeq(@, r + 1, Len(@)),
            !.cur = [n \in Names |-> IF n \in Live(s) THEN [@[n] EXCEPT !.chk = @ - r] ELSE @[n]]]

\* The cursors on the checkpoint with id oldId that reached its end move to
\* the next checkpoint (removeClosedUnrefCheckpoints, after a new open
\* checkpoint was created).
MoveAtOldEnd(s, oldId) ==
  LET AtEnd(n) == /\ s.chks[s.cur[n].chk].id = oldId
                  /\ s.cur[n].pos + 1 = Len(s.chks[s.cur[n].chk].items) + 1
  IN  FoldSet(LAMBDA n, acc : IF AtEnd(n) /\ CanMoveToNext(acc, acc.cur[n]) THEN MoveToNext(acc, n)
                              ELSE IF AtEnd(n) THEN [acc EXCEPT !.cur[n].pos = @ + 1]
                              ELSE acc,
              s, Live(s))

\* Checkpoint::mergePrevCheckpoint: the set/del items of prev whose key is
\* not in target, inserted in their order after target's two meta items.
MergeInto(target, prev) ==
  LET new == SelectSeq(prev, LAMBDA it : it.op \in {"set", "del"} /\ IndexOfKey(target, it.key) = 0)
  IN  SubSeq(target, 1, 2) \o new \o SubSeq(target, 3, Len(target))

\* Merge checkpoints j, j-1, ..., 1 into the item list items:
\* <<items, duplicated items>>.
RECURSIVE MergeDown(_, _, _, _)
MergeDown(s, items, j, dup) ==
  IF j = 0 THEN <<items, dup>>
  ELSE LET merged == MergeInto(items, s.chks[j].items)
           added  == Len(merged) - Len(items)
       IN  MergeDown(s, merged, j - 1, dup + NumItemsOf(s.chks[j]) - added)

\* collapseClosedCheckpoints: all closed checkpoints but the latest are
\* merged into the latest closed one; cursors on them ("slow") restart at
\* its beginning, cursors on it or on the open checkpoint ("fast") lose the
\* duplicated and meta items from their offsets.
Collapse(s) ==
  IF Len(s.chks) <= 2 THEN s
  ELSE LET lc     == Len(s.chks) - 1
           md     == MergeDown(s, s.chks[lc].items, lc - 1, 0)
           added  == Len(md[1]) - Len(s.chks[lc].items)
           drop   == md[2] + 2 * (lc - 1)
           slow   == UNION {s.chks[j].cursors : j \in 1..(lc - 1)} \cap Live(s)
           fast   == (s.chks[lc].cursors \cup s.chks[lc + 1].cursors) \cap Live(s)
           New(n) ==
             LET c0 == IF n \in slow THEN [s.cur[n] EXCEPT !.chk = lc, !.pos = 1, !.offset = 0]
                       ELSE s.cur[n]
                 c1 == IF n \in fast THEN DecrOffset(c0, drop) ELSE c0
                 c2 == IF n \notin slow /\ c1.chk = lc /\ c1.pos >= 3
                       THEN [c1 EXCEPT !.pos = @ + added] ELSE c1
             IN  [c2 EXCEPT !.chk = @ - (lc - 1)]
       IN  [s EXCEPT !.chks = << [s.chks[lc] EXCEPT !.items = md[1], !.cursors = @ \cup slow],
                                 s.chks[lc + 1] >>,
                     !.cur = [n \in Names |-> IF n \in Live(s) THEN New(n) ELSE s.cur[n]],
                     !.numItems = @ - drop]

\* The first half of removeClosedUnrefCheckpoints: on an active vbucket a
\* new open checkpoint may be created (forced when memory is above the high
\* watermark, every cursor is on the open checkpoint and the tail holds
\* enough items), and the cursors that reached the end of the checkpoint
\* just closed move to the new one.  mem compares the memory used with the
\* high watermark; htAll stands for the tail holding at least
\* MIN_CHECKPOINT_ITEMS items or as many as the hash table.
GcCreate(s0, mem, htAll, elapsed) ==
  LET create == VbState = "active" /\ ~InconsistentSlaveChk /\ CanCreate(s0)
      force  == /\ mem = "above"
                /\ Cardinality(s0.taps) + 1 = Cardinality(TailChk(s0).cursors)
                /\ htAll
      oldId  == TailChk(s0).id
  IN  IF create /\ CreatesChk(s0, force, elapsed)
      THEN IF oldId > 0 THEN MoveAtOldEnd(CheckOpen(s0, force, elapsed), oldId)
                        ELSE CheckOpen(s0, force, elapsed)
      ELSE s0

\* Whether removeClosedUnrefCheckpoints returns before scanning: closed
\* checkpoints are kept while memory is below the high watermark.
GcKeeps(s2, mem) == KeepClosedChks /\ mem = "below" /\ Len(s2.chks) <= MaxCheckpoints

\* The second half of removeClosedUnrefCheckpoints, given the scan result
\* <<state, removed, unrefItems>>: the unreferenced items leave numItems and
\* every cursor's offset, the removed checkpoints are spliced out, and on a
\* replica (or with inconsistent_slave_chk) the closed ones are collapsed.
GcRemove(s2, scan) ==
  LET s3 == [scan[1] EXCEPT !.numItems = @ - scan[3],
                            !.cur = [n \in Names |-> IF n \in Live(s2) THEN DecrOffset(@[n], scan[3])
                                                     ELSE @[n]]]
      collapse == ~KeepClosedChks /\ (VbState = "replica" \/ (VbState = "active" /\ InconsistentSlaveChk))
  IN  IF collapse THEN Collapse(DropPrefix(s3, scan[2])) ELSE DropPrefix(s3, scan[2])

(***************************************************************************)
(* Reading through a cursor.                                               *)
(***************************************************************************)

\* Mutant: getAllItemsFromCurrentPosition stops one item before the end of
\* each checkpoint.
RECURSIVE DrainShort(_, _, _)
DrainShort(s, n, out) ==
  LET c == s.cur[n]
      chk == s.chks[c.chk]
      out1 == out \o SubSeq(chk.items, c.pos + 1, Len(chk.items) - 1)
  IN  IF CanMoveToNext(s, c) THEN DrainShort(MoveToNext(s, n), n, out1)
      ELSE <<[s EXCEPT !.cur[n].pos = Len(chk.items)], out1>>

\* Mutant: getAllItemsFromCurrentPosition reads the cursor's checkpoint only
\* and never moves on to the next one.
DrainCurrentOnly(s, n, out) ==
  LET c == s.cur[n]
      chk == s.chks[c.chk]
  IN  <<[s EXCEPT !.cur[n].pos = Len(chk.items)], out \o SubSeq(chk.items, c.pos + 1, Len(chk.items))>>

\* getAllItemsFromCurrentPosition (every caller passes barrier 0):
\* <<state, items read>>.
RECURSIVE Drain(_, _, _)
Drain(s, n, out) ==
  LET c    == s.cur[n]
      chk  == s.chks[c.chk]
      out1 == out \o SubSeq(chk.items, c.pos + 1, Len(chk.items))
  IN  IF CanMoveToNext(s, c) THEN Drain(MoveToNext(s, n), n, out1)
      ELSE <<[s EXCEPT !.cur[n].pos = Len(chk.items)], out1>>

\* nextItemFromOpenCheckpoint: <<state, items read>>.
FromOpen(s, t) ==
  LET c == s.cur[t] IN
  IF c.closedOnly \/ c.pos + 1 > Len(s.chks[c.chk].items) THEN <<s, <<>>>>
  ELSE <<[s EXCEPT !.cur[t] = [c EXCEPT !.pos = @ + 1, !.offset = @ + 1]],
         <<s.chks[c.chk].items[c.pos + 1]>>>>

\* nextItemFromClosedCheckpoint: <<state, items read>>.
FromClosed(s, t) ==
  LET c   == s.cur[t]
      chk == s.chks[c.chk]
  IN  IF c.closedOnly /\ c.openIdAtReg <= chk.id THEN <<s, <<>>>>
      ELSE IF c.pos + 1 <= Len(chk.items)
      THEN <<[s EXCEPT !.cur[t] = [c EXCEPT !.pos = @ + 1, !.offset = @ + 1]], <<chk.items[c.pos + 1]>>>>
      ELSE IF ~CanMoveToNext(s, c) THEN <<s, <<>>>>
      ELSE LET s1 == MoveToNext(s, t)
               nx == s1.chks[c.chk + 1]
           IN  IF nx.state = "closed"
               THEN <<[s1 EXCEPT !.cur[t].pos = 2, !.cur[t].offset = @ + 1], <<nx.items[2]>>>>
               ELSE FromOpen(s1, t)

(***************************************************************************)
(* TAP cursor registration.                                                *)
(***************************************************************************)

\* registerTAPCursor_UNLOCKED(name, checkpointId, closedOnly, alwaysFromBeginning)
RegisterTap(s, t, id, closedOnly, fromBeginning) ==
  LET found  == {j \in 1..Len(s.chks) : s.chks[j].id = id}
      j      == IF found # {} THEN Min(found) ELSE Len(s.chks)
      exists == t \in s.taps
      s1     == IF exists THEN [s EXCEPT !.chks[s.cur[t].chk].cursors = @ \ {t}] ELSE s
      reuse  == found # {} /\ ~fromBeginning /\ exists /\ s.chks[s.cur[t].chk].id = s.chks[j].id
      offset == IF found = {} THEN s.numItems - (NumItemsOf(s.chks[j]) + 1)
                ELSE IF reuse THEN s.cur[t].offset
                ELSE SumFunction([i \in 1..(j - 1) |-> NumItemsOf(s.chks[i]) + 2])
      pos    == IF reuse THEN s.cur[t].pos ELSE 1
  IN  [s1 EXCEPT !.cur[t] = [chk |-> j, pos |-> pos, offset |-> offset,
                             closedOnly |-> closedOnly, openIdAtReg |-> IF closedOnly THEN OpenChkId(s) ELSE 0],
                 !.taps = @ \cup {t},
                 !.chks[j].cursors = @ \cup {t}]

\* resetCursors: every cursor to the beginning of the first checkpoint.
ResetCursors(s) ==
  [s EXCEPT !.cur = [n \in Names |-> IF n \in Live(s) THEN [@[n] EXCEPT !.chk = 1, !.pos = 1, !.offset = 0]
                                     ELSE @[n]],
            !.chks[1].cursors = @ \cup Live(s)]

\* setOpenCheckpointId_UNLOCKED: relabel the tail (its start item is
\* replaced by one carrying the new id; the item is the same here).
SetOpenId(s, id) == [s EXCEPT !.chks[Len(s.chks)].id = id]

\* Mutants of checkAndAddNewCheckpoint's merge: without resetCursors, and
\* without --numItems for the end item it pops.
MergeAllIntoTailNoReset(s, id) ==
  LET md == MergeDown(s, TailChk(s).items, Len(s.chks) - 1, 0)
      s1 == [s EXCEPT !.chks = << [TailChk(s) EXCEPT !.items = md[1]] >>,
                      !.numItems = @ - md[2] - 2 * (Len(s.chks) - 1)]
      t == TailChk(s1)
  IN  SetOpenId(IF t.state = "closed"
                THEN [s1 EXCEPT !.chks[1].items = Front(t.items), !.chks[1].state = "open",
                                !.numItems = @ - 1]
                ELSE s1, id)
MergeAllIntoTailNoCount(s, id) ==
  LET md == MergeDown(s, TailChk(s).items, Len(s.chks) - 1, 0)
      s1 == [s EXCEPT !.chks = << [TailChk(s) EXCEPT !.items = md[1]] >>,
                      !.numItems = @ - md[2] - 2 * (Len(s.chks) - 1)]
      t == TailChk(s1)
  IN  ResetCursors(SetOpenId(IF t.state = "closed"
                             THEN [s1 EXCEPT !.chks[1].items = Front(t.items), !.chks[1].state = "open"]
                             ELSE s1, id))

\* checkAndAddNewCheckpoint when a checkpoint with an id >= id exists: all
\* checkpoints are merged into the tail, which is reopened with the new id.
MergeAllIntoTail(s, id) ==
  LET b     == Len(s.chks)
      md    == MergeDown(s, TailChk(s).items, b - 1, 0)
      drop  == md[2] + 2 * (b - 1)
      s1    == [s EXCEPT !.chks = << [TailChk(s) EXCEPT !.items = md[1]] >>,
                         !.numItems = @ - drop]
      t     == TailChk(s1)
      reopen == [s1 EXCEPT !.chks[1].items = IF Len(t.items) > 0 /\ Last(t.items).op = "end"
                                              THEN Front(t.items) ELSE t.items,
                           !.chks[1].state = "open",
                           !.numItems = @ - 1]
      s2    == IF t.state = "closed" THEN reopen ELSE s1
  IN  ResetCursors(SetOpenId(s2, id))

\* Mutant: checkAndAddNewCheckpoint looks for a checkpoint with an id > id
\* instead of >= id.
CheckAndAddStrict(s, id) ==
  IF id = 0 THEN s
  ELSE IF TailChk(s).id = 0 THEN ResetCursors(SetOpenId(s, id))
  ELSE IF \E j \in 1..Len(s.chks) : id < s.chks[j].id THEN MergeAllIntoTail(s, id)
  ELSE IF TailChk(s).state = "open" /\ NumItemsOf(TailChk(s)) = 0
       THEN [SetOpenId(s, id) EXCEPT
               !.cur = [n \in Names |-> IF n \in TailChk(s).cursors THEN [@[n] EXCEPT !.pos = 1] ELSE @[n]]]
       ELSE AddNew(CloseOpen(s, TailChk(s).id), id)

\* checkAndAddNewCheckpoint(id)
CheckAndAdd(s, id) ==
  IF id = 0 THEN s
  ELSE IF TailChk(s).id = 0 THEN ResetCursors(SetOpenId(s, id))
  ELSE IF \E j \in 1..Len(s.chks) : id <= s.chks[j].id THEN MergeAllIntoTail(s, id)
  ELSE LET b  == Len(s.chks)
           s1 == IF TailChk(s).id + 1 < id
                 THEN [s EXCEPT !.collapsed = TRUE,
                                !.lastClosed = IF OpenChkId(s) > 0 THEN OpenChkId(s) - 1 ELSE 0]
                 ELSE IF TailChk(s).id + 1 = id THEN [s EXCEPT !.collapsed = FALSE]
                 ELSE s
           onTail == TailChk(s1).cursors
       IN  IF TailChk(s1).state = "open" /\ NumItemsOf(TailChk(s1)) = 0
           THEN [SetOpenId(s1, id) EXCEPT
                   !.cur = [n \in Names |-> IF n \in onTail THEN [@[n] EXCEPT !.pos = 1] ELSE @[n]]]
           ELSE AddNew(CloseOpen(s1, TailChk(s1).id), id)

(***************************************************************************)
(* Actions: the manager's public operations, each atomic under queueLock.  *)
(***************************************************************************)

\* The ghost update for a delivery of items to cursor n.
Deliver(n, items) == owed' = [owed EXCEPT ![n] = @ \ Delivers(items)]

\* queueDirty(qi, vbucket): a client mutation of key k.
QueueDirty(k, op, elapsed) ==
  IF VbState # "active" /\ TailChk(Cur).state = "closed"
  THEN \* the replica ignores items that arrive after a checkpoint end
       UNCHANGED vars
  ELSE \E s1 \in {IF VbState = "active" /\ ~InconsistentSlaveChk /\ CanCreate(Cur)
                   THEN CheckOpen(Cur, FALSE, elapsed) ELSE Cur} :
       \E s3 \in {IF IndexOfKey(TailChk(s1).items, k) = 0
                   THEN [QueueIntoTail(s1, k, op) EXCEPT !.numItems = @ + 1]
                   ELSE QueueIntoTail(s1, k, op)} :
         /\ TailChk(s1).state = "open"   \* assert(checkpointList.back()->getState() == CHECKPOINT_OPEN)
         /\ WithinBounds(s3)
         /\ Commit(s3)
         /\ lastMid' = [lastMid EXCEPT ![k] = s3.mc]
         /\ owed' = [n \in Names |-> IF n \in Live(s3) THEN owed[n] \cup {k} ELSE owed[n]]

\* removeClosedUnrefCheckpoints, run periodically by the non-IO dispatcher.
RemoveClosedUnrefCheckpoints(mem, htAll, elapsed) ==
  \E s2 \in {GcCreate(Cur, mem, htAll, elapsed)} :
    \E s \in {IF GcKeeps(s2, mem) THEN s2 ELSE GcRemove(s2, GcScan(s2, 1, 0, 0))} :
      /\ WithinBounds(s)
      /\ Commit(s)
      /\ UNCHANGED <<lastMid, owed>>

\* createNewCheckpoint (CMD_CREATE_CHECKPOINT, accepted on an active vbucket).
CreateNewCheckpoint ==
  /\ VbState = "active"
  /\ NumItemsOf(TailChk(Cur)) > 0
  /\ LET s == AddNew(CloseOpen(Cur, TailChk(Cur).id), TailChk(Cur).id + 1) IN
     /\ WithinBounds(s)
     /\ Commit(s)
  /\ UNCHANGED <<lastMid, owed>>

\* setCheckpointExtension (CMD_EXTEND_CHECKPOINT)
SetCheckpointExtension(b) ==
  /\ chkExtension' = b
  /\ UNCHANGED <<chkList, cursor, tapCursors, numItems, mutationCounter, pCursorPreChkId,
                 lastClosedChkId, isCollapsedChk, lastMid, owed>>

\* getAllItemsForPersistence: the flusher takes every item ahead of the
\* persistence cursor.
GetAllItemsForPersistence ==
  \E d \in {Drain(Cur, Persistence, <<>>)} :
    \E s1 \in {RefreshLastClosed([d[1] EXCEPT !.cur[Persistence].offset = d[1].numItems])} :
      /\ Commit([s1 EXCEPT !.preChkId = s1.lastClosed])
      /\ Deliver(Persistence, d[2])
      /\ UNCHANGED lastMid

\* nextItem(name) for a registered TAP cursor.
NextItem(t) ==
  /\ t \in tapCursors
  /\ TailChk(Cur).id # 0
  /\ LET r == IF chkList[cursor[t].chk].state = "closed" THEN FromClosed(Cur, t) ELSE FromOpen(Cur, t) IN
     /\ r[2] # <<>>
     /\ Commit(r[1])
     /\ Deliver(t, r[2])
  /\ UNCHANGED lastMid

\* decrTapCursorFromCheckpointEnd: the producer steps back over a checkpoint
\* end item that it cannot send yet.
DecrTapCursorFromCheckpointEnd(t) ==
  /\ t \in tapCursors
  /\ chkList[cursor[t].chk].items[cursor[t].pos].op = "end"
  /\ cursor' = [cursor EXCEPT ![t] = DecrPos(DecrOffset(@, 1))]
  /\ UNCHANGED <<chkList, tapCursors, numItems, mutationCounter, pCursorPreChkId,
                 lastClosedChkId, isCollapsedChk, chkExtension, lastMid, owed>>

\* The keys whose latest version is in checkpoint j or a later one.
KeysFrom(s, j) ==
  UNION {Delivers(s.chks[i].items) : i \in j..Len(s.chks)}

\* registerTAPCursor(name, checkpointId, closedCheckpointOnly, alwaysFromBeginning)
RegisterTAPCursor(t, id, closedOnly, fromBeginning) ==
  LET s == RegisterTap(Cur, t, id, closedOnly, fromBeginning)
      c == s.cur[t]
      keep == t \in tapCursors /\ c.pos = cursor[t].pos /\ c.chk = cursor[t].chk /\ ~fromBeginning
  IN  /\ Commit(s)
      /\ owed' = [owed EXCEPT ![t] = IF keep THEN @ ELSE KeysFrom(s, c.chk)]
      /\ UNCHANGED lastMid

\* removeTAPCursor(name)
RemoveTAPCursor(t) ==
  /\ t \in tapCursors
  /\ chkList' = [j \in 1..Len(chkList) |-> [chkList[j] EXCEPT !.cursors = @ \ {t}]]
  /\ tapCursors' = tapCursors \ {t}
  /\ cursor' = [cursor EXCEPT ![t] = NoCursor]
  /\ owed' = [owed EXCEPT ![t] = {}]
  /\ UNCHANGED <<numItems, mutationCounter, pCursorPreChkId, lastClosedChkId,
                 isCollapsedChk, chkExtension, lastMid>>

\* checkAndAddNewCheckpoint (TAP_CHECKPOINT_START received by the consumer).
CheckAndAddNewCheckpoint(id) ==
  /\ VbState = "replica" \/ InconsistentSlaveChk
  /\ LET s == CheckAndAdd(Cur, id) IN
     /\ WithinBounds(s)
     /\ Commit(s)
  /\ UNCHANGED <<lastMid, owed>>

\* closeOpenCheckpoint(id) (TAP_CHECKPOINT_END received by the consumer).
CloseOpenCheckpoint(id) ==
  /\ VbState = "replica" \/ InconsistentSlaveChk
  /\ Commit(CloseOpen(Cur, id))
  /\ UNCHANGED <<lastMid, owed>>

\* checkOpenCheckpoint(false, true) from TapConsumer::checkVBOpenCheckpoint
\* on a non-active vbucket.
CheckOpenCheckpoint(elapsed) ==
  /\ VbState = "replica"
  /\ LET s == CheckOpen(Cur, FALSE, elapsed) IN
     /\ WithinBounds(s)
     /\ Commit(s)
  /\ UNCHANGED <<lastMid, owed>>

\* clear(vbucket_state_replica) from resetVBucket, followed by
\* setOpenCheckpointId(0): the consumer starts a backfill.
StartBackfill ==
  /\ VbState = "replica"
  /\ LET s0 == [Cur EXCEPT !.chks = <<>>, !.numItems = 0, !.mc = 0]
         s1 == ResetCursors(AddNew(s0, 0))
     IN  Commit(SetOpenId(s1, 0))
  /\ owed' = [n \in Names |-> {}]
  /\ UNCHANGED lastMid

(***************************************************************************)
(* The specification.                                                      *)
(***************************************************************************)

\* The constructor: one open checkpoint and the persistence cursor
\* registered at its beginning.
Init ==
  /\ chkList = << [NewCheckpoint(InitChkId, 0) EXCEPT !.cursors = {Persistence}] >>
  /\ cursor = [n \in Names |-> IF n = Persistence
                               THEN [NoCursor EXCEPT !.chk = 1, !.pos = 1]
                               ELSE NoCursor]
  /\ tapCursors = {}
  /\ numItems = 1
  /\ mutationCounter = 2
  /\ pCursorPreChkId = 0
  /\ lastClosedChkId = 0
  /\ isCollapsedChk = FALSE
  /\ chkExtension = FALSE
  /\ lastMid = [k \in Keys |-> 0]
  /\ owed = [n \in Names |-> {}]

ChkIds == 0..MaxChkId

Next ==
  \/ \E k \in Keys, op \in Ops, e \in BOOLEAN : QueueDirty(k, op, e)
  \/ \E m \in MemLevels, h \in HtAllValues, e \in BOOLEAN : RemoveClosedUnrefCheckpoints(m, h, e)
  \/ CreateNewCheckpoint
  \/ \E b \in BOOLEAN : SetCheckpointExtension(b)
  \/ GetAllItemsForPersistence
  \/ \E t \in TapNames : NextItem(t) \/ DecrTapCursorFromCheckpointEnd(t) \/ RemoveTAPCursor(t)
  \/ \E t \in TapNames, id \in 1..MaxChkId :
       RegisterTAPCursor(t, id, ClosedCheckpointOnly, RegisteredTAPClient)
  \/ \E t \in TapNames : RegisterTAPCursor(t, OpenChkId(Cur), ClosedCheckpointOnly, TRUE)
  \/ \E id \in ChkIds : CheckAndAddNewCheckpoint(id) \/ CloseOpenCheckpoint(id)
  \/ \E e \in BOOLEAN : CheckOpenCheckpoint(e)
  \/ StartBackfill

Spec == Init /\ [][Next]_vars

\* The flusher calls getAllItemsForPersistence on every flush, and the
\* flusher task is rescheduled for as long as the engine runs.  Clients,
\* TAP connections, commands and the checkpoint remover get no fairness.
FairSpec == Spec /\ WF_vars(GetAllItemsForPersistence)

(***************************************************************************)
(* Properties.                                                             *)
(***************************************************************************)

CursorRec == [chk : Nat, pos : Nat, offset : Nat, closedOnly : BOOLEAN, openIdAtReg : Nat]
ItemRec == [key : Keys \cup {DummyKey, StartKey, EndKey}, op : {"set", "del", "empty", "start", "end"},
            mid : Nat]

TypeOK ==
  /\ chkList \in Seq([id : Nat, state : {"open", "closed"}, cursors : SUBSET Names,
                      items : Seq(ItemRec)])
  /\ cursor \in [Names -> CursorRec]
  /\ tapCursors \subseteq TapNames
  /\ numItems \in Nat /\ mutationCounter \in Nat
  /\ {pCursorPreChkId, lastClosedChkId} \subseteq Nat
  /\ {isCollapsedChk, chkExtension} \subseteq BOOLEAN
  /\ lastMid \in [Keys -> Nat] /\ owed \in [Names -> SUBSET Keys]

\* Every cursor points at an item of a checkpoint that is in the list and
\* holds its name: garbage collection, collapsing and the replica's
\* reconciliation never free a checkpoint under a cursor or leave a cursor's
\* item iterator at end().
CursorsValid ==
  \A n \in Live(Cur) :
    /\ cursor[n].chk \in 1..Len(chkList)
    /\ cursor[n].pos \in 1..Len(chkList[cursor[n].chk].items)
    /\ n \in chkList[cursor[n].chk].cursors

\* The items ahead of cursor n.
Ahead(n) ==
  SubSeq(chkList[cursor[n].chk].items, cursor[n].pos + 1, Len(chkList[cursor[n].chk].items))
  \o FlattenSeq([j \in 1..(Len(chkList) - cursor[n].chk) |-> chkList[cursor[n].chk + j].items])

\* No cursor skips a mutation: the latest version of every key queued since
\* a cursor was placed, and not yet returned through it, is still ahead of
\* it, across deduplication in queueDirty, checkpoint creation, garbage
\* collection, collapsing and cursor moves.
NoLostMutation ==
  \A n \in Live(Cur) : owed[n] \subseteq Delivers(Ahead(n))

\* The manager's numItems is the number of items in its checkpoints, not
\* counting the dummy item of each checkpoint.
ItemCountConsistent ==
  numItems = SumFunction([j \in 1..Len(chkList) |-> Len(chkList[j].items) - 1])

\* A cursor's offset is the number of items it has passed, counted as
\* numItems counts them, so numItems - offset is what it has still to read
\* (getNumItemsForTAPConnection, getNumItemsForPersistence).
OffsetMatchesPosition ==
  \A n \in Live(Cur) :
    cursor[n].offset = SumFunction([j \in 1..(cursor[n].chk - 1) |-> Len(chkList[j].items) - 1])
                       + cursor[n].pos - 1

\* The checkpoint list is never empty, its ids increase strictly, and only
\* its last checkpoint may be open.
CheckpointListWellFormed ==
  /\ Len(chkList) > 0
  /\ \A j \in 1..(Len(chkList) - 1) : chkList[j].id < chkList[j + 1].id
                                    /\ chkList[j].state = "closed"

\* Offsets and collapsing: a garbage-collection pass
\* (removeClosedUnrefCheckpoints with collapseClosedCheckpoints) that starts
\* with every offset exact leaves every offset exact; spec section 8 says
\* an offset stays a valid count of undelivered items after a collapse.
CollapseKeepsOffsets ==
  [][(\E m \in MemLevels, h \in HtAllValues, e \in BOOLEAN : RemoveClosedUnrefCheckpoints(m, h, e))
      /\ OffsetMatchesPosition => OffsetMatchesPosition']_vars

\* Offsets and the replica's reconciliation: checkAndAddNewCheckpoint, which
\* may relabel the open checkpoint and rewind the cursors on it, keeps
\* every offset exact.
ReconcileKeepsOffsets ==
  [][(\E id \in ChkIds : CheckAndAddNewCheckpoint(id))
      /\ OffsetMatchesPosition => OffsetMatchesPosition']_vars

\* registerTAPCursor gives the cursor it places the offset of its position,
\* also when the checkpoint asked for is not in memory and the cursor is
\* placed on the last checkpoint.
RegisterSetsOffset ==
  [][\A t \in TapNames :
       (\/ \E id \in 1..MaxChkId : RegisterTAPCursor(t, id, ClosedCheckpointOnly, RegisteredTAPClient)
        \/ RegisterTAPCursor(t, OpenChkId(Cur), ClosedCheckpointOnly, TRUE))
       => cursor'[t].offset = SumFunction([j \in 1..(cursor'[t].chk - 1) |-> Len(chkList'[j].items) - 1])
                              + cursor'[t].pos - 1]_vars

\* The tail of an active vbucket is open whenever a client mutation can
\* arrive: queueDirty asserts it (checkpoint.cc, assert(... CHECKPOINT_OPEN))
\* after it skips checkOpenCheckpoint under inconsistent_slave_chk.
ActiveTailOpen ==
  VbState = "active" => TailChk(Cur).state = "open"

\* The persistence cursor eventually reads every mutation queued for it:
\* the latest version of a key written after the flusher's last read is
\* returned by a later getAllItemsForPersistence, across checkpoint
\* creation, deduplication and garbage collection.
PersistenceReadsAll ==
  \A k \in Keys : k \in owed[Persistence] ~> k \notin owed[Persistence]

=============================================================================
