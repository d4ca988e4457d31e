---------------------------- MODULE Checkpoints ----------------------------
(***************************************************************************)
(* The checkpoints of a vbucket (ep-engine/src/checkpoint.{h,cc}): a list  *)
(* of checkpoints, each one a list of queued items in which a key occurs   *)
(* once, and the cursors that walk through them.  The operators below are  *)
(* the methods of CheckpointManager as functions of its state, a record:   *)
(*   chks   the checkpoint list, oldest first: id, whether it is open, and *)
(*          the queued items                                               *)
(*   cur    the registered cursors: index of the checkpoint, position of   *)
(*          the item visited last, number of items visited (offset)        *)
(*   last   lastBySeqno                                                    *)
(*   num    numItems                                                       *)
(*   pre    pCursorPreCheckpointId                                         *)
(* Every method holds queueLock throughout, so each one is a single step.  *)
(* The iterators of the code stay on their item when others come and go;   *)
(* here they are indices, moved along whenever something before them does. *)
(* A cursor whose checkpoint has been freed has an index that is not in    *)
(* the list.  The names a checkpoint keeps of the cursors inside it are    *)
(* not stored: every method moves a name along with its cursor.            *)
(***************************************************************************)
EXTENDS Integers, FiniteSets, SequencesExt, TLC

CONSTANTS
  ChkMaxItems,       \* chk_max_items
  MaxCheckpoints     \* max_checkpoints

persistence == "persistence"       \* the name of the flusher's cursor

\* queue_op_empty, queue_op_checkpoint_start, _end, and queue_op_set or _del.
Ops == {"empty", "start", "end", "set"}
NoKey == "none"
Meta(op, seqno) == [op |-> op, key |-> NoKey, seqno |-> seqno]
Mutation(k, seqno) == [op |-> "set", key |-> k, seqno |-> seqno]
IsMutation(i) == i.op = "set"

Back(m) == m.chks[Len(m.chks)]
CursorNames(m) == DOMAIN m.cur
Chk(m, n) == m.chks[m.cur[n].chk]
ItemAt(m, n) == Chk(m, n).items[m.cur[n].pos]
\* getCursorNameList of the checkpoint with index i
NamesIn(m, i) == {n \in CursorNames(m) : m.cur[n].chk = i}

\* getNumItems: the meta items of a checkpoint are not counted.
NumItems(c) == Cardinality({p \in DOMAIN c.items : IsMutation(c.items[p])})
LowSeqno(c) == c.items[2].seqno
HighSeqno(c) == Last(c.items).seqno
KeysOf(c) == {i.key : i \in {j \in ToSet(c.items) : IsMutation(j)}}

Minus(a, b) == IF a >= b THEN a - b ELSE 0      \* decrCursorOffset_UNLOCKED

\* The items, checkpoint_start and checkpoint_end included, of the first n checkpoints.
SizeOf(chks, n) ==
  LET size[i \in 0 .. n] == IF i = 0 THEN 0 ELSE size[i - 1] + NumItems(chks[i]) + 2
  IN  size[n]

-----------------------------------------------------------------------------
(***************************************************************************)
(* Opening and closing checkpoints.                                        *)
(***************************************************************************)
NewCheckpoint(id, last) ==
  [id |-> id, open |-> TRUE, items |-> <<Meta("empty", last), Meta("start", last + 1)>>]

\* CheckpointManager(): one open checkpoint, the persistence cursor at its start.
NewManager(id, last) ==
  [chks |-> <<NewCheckpoint(id, last)>>,
   cur |-> [n \in {persistence} |-> [chk |-> 1, pos |-> 1, offset |-> 0]],
   last |-> last, num |-> 1, pre |-> 0]

\* moveCursorToNextCheckpoint for every cursor of S; each one has a next checkpoint.
MoveToNext(m, S) ==
  [m EXCEPT !.cur = [n \in S |-> [m.cur[n] EXCEPT !.chk = @ + 1, !.pos = 1]] @@ @]

\* Mutation: checkpoint_end is not counted.
closeOpenCheckpointMutant(m, id) ==
  IF id # Back(m).id \/ ~Back(m).open THEN m
  ELSE [m EXCEPT !.chks[Len(m.chks)] =
                   [@ EXCEPT !.items = Append(@, Meta("end", m.last)), !.open = FALSE]]

closeOpenCheckpoint(m, id) ==
  IF id # Back(m).id \/ ~Back(m).open THEN m
  ELSE [m EXCEPT
          !.chks[Len(m.chks)] =
             [@ EXCEPT !.items = Append(@, Meta("end", m.last)), !.open = FALSE],
          !.num = @ + 1]

\* A cursor that has visited its whole checkpoint moves on to the new one; the
\* persistence cursor does not wait to visit checkpoint_end.
addNewCheckpoint(m, id) ==
  LET closed == closeOpenCheckpoint(m, Back(m).id)
      added == [closed EXCEPT !.chks = Append(@, NewCheckpoint(id, m.last)), !.num = @ + 1]
      Left(n) == Len(Chk(added, n).items) - added.cur[n].pos
      skips == /\ Left(persistence) = 1
               /\ Last(Chk(added, persistence).items).op = "end"
      done == {n \in CursorNames(m) :
                 /\ ~Chk(added, n).open
                 /\ \/ Left(n) = 0
                    \/ n = persistence /\ skips}
  IN  MoveToNext([added EXCEPT !.cur[persistence].offset = IF skips THEN @ + 1 ELSE @], done)

\* checkOpenCheckpoint_UNLOCKED; expired: the open checkpoint is chk_period old.
checkOpenCheckpoint(m, force, expired) ==
  IF \/ force
     \/ NumItems(Back(m)) >= ChkMaxItems
     \/ NumItems(Back(m)) > 0 /\ expired
  THEN addNewCheckpoint(closeOpenCheckpoint(m, Back(m).id), Back(m).id + 1)
  ELSE m

canCreateNewCheckpoint(m) ==
  \/ Len(m.chks) < MaxCheckpoints
  \/ Len(m.chks) = MaxCheckpoints /\ NamesIn(m, 1) = {}

\* Mutation: the new id is given to the checkpoint even when it holds items.
checkAndAddNewCheckpointMutant(m, id) ==
  [m EXCEPT !.chks[Len(m.chks)].id = id,
            !.cur = [n \in NamesIn(m, Len(m.chks)) \ {persistence} |->
                       [m.cur[n] EXCEPT !.pos = 1]] @@ @]

\* checkAndAddNewCheckpoint(id) for an id above every id in the list.  An empty
\* open checkpoint only takes the new id; the cursors in it, the persistence cursor
\* excepted, go back to announce it again, their offsets as they were.
checkAndAddNewCheckpoint(m, id) ==
  IF Back(m).open /\ NumItems(Back(m)) = 0
  THEN [m EXCEPT !.chks[Len(m.chks)].id = id,
                 !.cur = [n \in NamesIn(m, Len(m.chks)) \ {persistence} |->
                            [m.cur[n] EXCEPT !.pos = 1]] @@ @]
  ELSE addNewCheckpoint(closeOpenCheckpoint(m, Back(m).id), id)

-----------------------------------------------------------------------------
(***************************************************************************)
(* Queueing a mutation.                                                    *)
(***************************************************************************)
\* Checkpoint::queueDirty: the item of the same key, if there is one, is taken
\* out, and the cursors on it or behind it step back by one.
QueueInOpen(m, k, seqno) ==
  LET b == Len(m.chks)
      items == m.chks[b].items
      old == {p \in DOMAIN items : items[p].key = k}
      behind == {n \in NamesIn(m, b) : \E p \in old : p <= m.cur[n].pos}
  IN  [m EXCEPT
         !.chks[b].items =
            Append(IF old = {} THEN @ ELSE RemoveAt(@, CHOOSE p \in old : TRUE),
                   Mutation(k, seqno)),
         !.cur = [n \in behind |-> [m.cur[n] EXCEPT !.pos = @ - 1, !.offset = Minus(@, 1)]] @@ @,
         !.num = IF old = {} THEN @ + 1 ELSE @,
         !.last = seqno]

\* CheckpointManager::queueDirty
queueDirty(m, active, k, seqno, expired) ==
  LET checked == IF active /\ canCreateNewCheckpoint(m)
                   THEN checkOpenCheckpoint(m, FALSE, expired) ELSE m
      opened == IF Back(checked).open THEN checked
                ELSE addNewCheckpoint(checked, Back(checked).id + 1)
  IN  QueueInOpen(opened, k, seqno)

-----------------------------------------------------------------------------
(***************************************************************************)
(* The cursors.                                                            *)
(***************************************************************************)
removeCursor(m, n) == [m EXCEPT !.cur = Restrict(@, DOMAIN @ \ {n})]

\* registerTAPCursorBySeqno: the position to start from, and the seqno and flag it
\* returns: the first seqno the cursor will visit, and whether nothing in memory
\* comes before it.
BySeqno(m, startBySeqno) ==
  LET i == CHOOSE j \in DOMAIN m.chks :
             /\ startBySeqno <= HighSeqno(m.chks[j]) \/ startBySeqno < LowSeqno(m.chks[j])
             /\ \A h \in 1 .. j - 1 : startBySeqno > HighSeqno(m.chks[h])
      c == m.chks[i]
      \* The items the loop steps over, the dummy item included.
      p == IF startBySeqno < LowSeqno(c) THEN 1
           ELSE CHOOSE q \in DOMAIN c.items :
                  /\ \A x \in 2 .. q : c.items[x].seqno <= startBySeqno
                  /\ q = Len(c.items) \/ c.items[q + 1].seqno > startBySeqno
      first == IF startBySeqno < LowSeqno(c) THEN LowSeqno(c)
               ELSE IF p = Len(c.items) THEN Last(c.items).seqno + 1
               ELSE c.items[p + 1].seqno
  IN  [chk |-> i, pos |-> p, offset |-> SizeOf(m.chks, i - 1) + p - 1,
       first |-> first, isFirst |-> first = LowSeqno(m.chks[1])]

\* Mutation of registerBySeqno: a cursor that starts before what is in memory is
\* taken away and not put in front of it.
registerBySeqnoMutant(m, n, startBySeqno) ==
  LET r == BySeqno(m, startBySeqno)
  IN  IF startBySeqno < LowSeqno(m.chks[1]) THEN removeCursor(m, n)
      ELSE [m EXCEPT !.cur = (n :> [chk |-> r.chk, pos |-> r.pos, offset |-> r.offset]) @@ @]

registerBySeqno(m, n, startBySeqno) ==
  LET r == BySeqno(m, startBySeqno)
  IN  [m EXCEPT !.cur = (n :> [chk |-> r.chk, pos |-> r.pos, offset |-> r.offset]) @@ @]

\* incrCursor: where the cursor's next item is, when it has one.
HasNext(m, n) == m.cur[n].pos < Len(Chk(m, n).items) \/ (~Chk(m, n).open /\ m.cur[n].chk < Len(m.chks))
NextChk(m, n) == IF m.cur[n].pos < Len(Chk(m, n).items) THEN m.cur[n].chk ELSE m.cur[n].chk + 1
NextPos(m, n) == IF m.cur[n].pos < Len(Chk(m, n).items) THEN m.cur[n].pos + 1 ELSE 2

\* What getAllItemsForCursor hands out: the rest of one checkpoint.
ItemsForCursor(m, n) ==
  IF HasNext(m, n)
  THEN LET items == m.chks[NextChk(m, n)].items IN SubSeq(items, NextPos(m, n), Len(items))
  ELSE << >>

\* What getAllItemsForPersistence hands out: the rest of all of them.
ItemsAhead(m, n) ==
  ToSet(ItemsForCursor(m, n)) \union
  UNION {ToSet(Tail(m.chks[i].items)) : i \in NextChk(m, n) + 1 .. Len(m.chks)}

\* The cursor has visited checkpoint i, and those before it, to the end.
Visited(m, n, i) ==
  [m EXCEPT !.cur[n] = [chk |-> i, pos |-> Len(m.chks[i].items),
                        offset |-> @.offset + Len(ItemsForCursor(m, n))
                                   + SizeOf(m.chks, i) - SizeOf(m.chks, NextChk(m, n))
                                   - (IF m.chks[i].open /\ i > NextChk(m, n) THEN 1 ELSE 0)]]

getAllItemsForPersistence(m) ==
  IF HasNext(m, persistence) THEN Visited(m, persistence, Len(m.chks)) ELSE m

\* After checkpoint_end the cursor moves to the next checkpoint at once.
getAllItemsForCursor(m, n) ==
  IF ~HasNext(m, n) THEN m
  ELSE LET i == NextChk(m, n)
       IN  IF ~m.chks[i].open /\ i < Len(m.chks)
             THEN MoveToNext(Visited(m, n, i), {n}) ELSE Visited(m, n, i)

\* Mutation: the checkpoint that the cursor is in counts as persisted.
itemsPersistedMutant(m) == [m EXCEPT !.pre = Chk(m, persistence).id]

itemsPersisted(m) == [m EXCEPT !.pre = Minus(Chk(m, persistence).id, 1)]

\* getNumOfMetaItemsFromCursor: the meta items the cursor has still to visit.
MetaItemsAhead(m, n) ==
  LET here == m.cur[n]
      Closed(i) == IF m.chks[i].open THEN 0 ELSE 1
      InCurrent == IF here.pos = Len(Chk(m, n).items) THEN 0
                   ELSE IF Chk(m, n).items[here.pos + 1].op = "start" THEN 1 + Closed(here.chk)
                   ELSE Closed(here.chk)
      count[i \in here.chk .. Len(m.chks)] ==
        IF i = here.chk THEN InCurrent ELSE count[i - 1] + 1 + Closed(i)
  IN  count[Len(m.chks)]

\* getNumItemsForPersistence, and getNumItemsForTAPConnection
NumItemsFor(m, n) == Minus(m.num, m.cur[n].offset + MetaItemsAhead(m, n))

-----------------------------------------------------------------------------
(***************************************************************************)
(* Freeing checkpoints.                                                    *)
(***************************************************************************)
\* isCheckpointCreationForHighMemUsage needs every cursor in the open checkpoint.
AllCursorsInOpen(m) == CursorNames(m) = NamesIn(m, Len(m.chks))

\* Mutation: a persisted checkpoint is freed while a cursor is in it.
UnreferencedMutant(m, keepClosed) ==
  Max({j \in 0 .. Len(m.chks) - 1 : \A i \in 1 .. j : m.chks[i].id <= m.pre})

\* How many checkpoints at the front of the list are freed.
Unreferenced(m, keepClosed) ==
  LET Freed(i) == NamesIn(m, i) = {} /\ m.chks[i].id <= m.pre
      n == Max({j \in 0 .. Len(m.chks) : \A i \in 1 .. j : Freed(i)})
      wanted == Max({1, Len(m.chks) - MaxCheckpoints})
  IN  IF keepClosed THEN Min({n, wanted}) ELSE n

DropFront(m, n) ==
  LET items == SizeOf(m.chks, n)
  IN  [m EXCEPT !.chks = SubSeq(@, n + 1, Len(@)),
                !.num = @ - items,
                !.cur = [x \in DOMAIN @ |->
                           [m.cur[x] EXCEPT !.chk = @ - n, !.offset = Minus(@, items)]] @@ @]

\* mergePrevCheckpoint for every closed checkpoint but the last, newest first: the
\* last closed one gets, in order, the items whose key no later one holds.
MergedItems(m, l) ==
  LET Unique(i) ==
        SelectSeq(m.chks[i].items,
                  LAMBDA x : IsMutation(x) /\ \A j \in i + 1 .. l : x.key \notin KeysOf(m.chks[j]))
  IN  SubSeq(m.chks[1].items, 1, 2)
      \o FlattenSeq([i \in 1 .. l - 1 |-> Unique(i)])
      \o SubSeq(m.chks[l].items, 3, Len(m.chks[l].items))

\* putCursorsInCollapsedChk: a cursor goes to the item before the first one with a
\* higher mutation id than the item it was on.
PutCursor(items, i) ==
  LET Stops(p) == \/ i.seqno < items[p].seqno
                  \/ /\ i.seqno = items[p].seqno /\ i.op = "start"
                     /\ p > 1 /\ items[p - 1].op = "start"
      stops == {p \in DOMAIN items : Stops(p)}
      p == IF stops = {} THEN Len(items) + 1 ELSE Min(stops)
  IN  [chk |-> 1, pos |-> Max({p - 1, 1}), offset |-> Max({p - 2, 0})]

collapseClosedCheckpoints(m) ==
  LET l == Len(m.chks) - 1            \* the last closed checkpoint
      items == MergedItems(m, l)
      inserted == Len(items) - Len(m.chks[l].items)
      total == SizeOf(m.chks, l - 1) - inserted
      Collapsed(n) ==
        LET c == m.cur[n]
        IN  IF c.chk < l THEN PutCursor(items, ItemAt(m, n))
            ELSE IF c.chk = l THEN [chk |-> 1, pos |-> c.pos + inserted, offset |-> Minus(c.offset, total)]
            ELSE [chk |-> 2, pos |-> c.pos, offset |-> Minus(c.offset, total)]
  IN  IF \/ Len(m.chks) <= 2
         \/ \E n \in NamesIn(m, l) : ItemAt(m, n).op \in {"empty", "start"}
      THEN m
      ELSE [m EXCEPT
              !.chks = <<[m.chks[l] EXCEPT !.items = items], Back(m)>>,
              !.num = @ - total,
              !.cur = [n \in DOMAIN @ |-> Collapsed(n)]]

\* force: memory usage is high and the open checkpoint holds enough of the vbucket;
\* keepClosed and merge: keep_closed_chks and enable_chk_merge, which may be set at
\* any time.
removeClosedUnrefCheckpoints(m, active, expired, highMem, force, keepClosed, merge) ==
  LET created == IF active /\ canCreateNewCheckpoint(m)
                   THEN checkOpenCheckpoint(m, force /\ AllCursorsInOpen(m), expired) ELSE m
      dropped == DropFront(created, Unreferenced(created, keepClosed))
  IN  IF keepClosed /\ ~highMem /\ Len(created.chks) <= MaxCheckpoints THEN created
      ELSE IF merge /\ ~keepClosed /\ ~active THEN collapseClosedCheckpoints(dropped)
      ELSE dropped
=============================================================================
