------------------------- MODULE CheckpointManager -------------------------
(***************************************************************************)
(* The checkpoint manager of one vbucket with everything that works on it  *)
(* at the same time: front-end threads or the replication stream that      *)
(* queue mutations, the flusher, the checkpoint remover, and the streams   *)
(* that read through cursors of their own (ep-engine/src/checkpoint.cc,    *)
(* checkpoint_remover.cc, ep.cc, vbucket.cc).                              *)
(*                                                                         *)
(* The vbucket is past the backfill phase in which its open checkpoint has *)
(* id 0 and no cursor may be registered, and its state has been persisted  *)
(* once: until then flushVBucket returns at once.                          *)
(***************************************************************************)
EXTENDS Checkpoints

CONSTANTS
  Keys,
  Streams,      \* the names of the cursors of the streams
  MaxSeqno,     \* bound: highest seqno
  MaxChkId,     \* bound: highest id of a checkpoint opened by a snapshot or by force
  KeepClosed,   \* the values keep_closed_chks is set to
  MergeClosed   \* the values enable_chk_merge is set to

ASSUME NamesAssumption == persistence \notin Streams /\ NoKey \notin Keys
ASSUME ConfigAssumption ==
  /\ ChkMaxItems \in Nat \ {0} /\ MaxCheckpoints \in Nat \ {0}
  /\ KeepClosed \subseteq BOOLEAN /\ MergeClosed \subseteq BOOLEAN

VARIABLES
  cm,         \* the checkpoint manager, see Checkpoints
  vbState,    \* the state of the vbucket
  latest,     \* latest[k]: seqno of k in the hash table
  disk,       \* disk[k]: seqno of k in the vbucket's file
  rejectQueue,  \* rejectQueue[k]: seqno of k in the vbucket's reject queue
  flusher,    \* what flushVBucket is doing, and the newest item it holds of each key
  deleting,   \* the file that the vbucket had before its reset has still to be deleted
  seen        \* seen[n][k]: seqno of the item of k that cursor n handed out last

diskVars == <<disk, rejectQueue, flusher, deleting>>
vars == <<cm, vbState, latest, diskVars, seen>>

Nothing == [k \in Keys |-> 0]
Names == Streams \union {persistence}

Init ==
  /\ \E s \in {"active", "replica"} :
       vbState = s /\ cm = NewManager(IF s = "active" THEN 2 ELSE 1, 0)
  /\ latest = Nothing
  /\ disk = Nothing
  /\ rejectQueue = Nothing
  /\ flusher = [phase |-> "idle", batch |-> Nothing]
  /\ deleting \in BOOLEAN
  /\ seen = [n \in Names |-> Nothing]

-----------------------------------------------------------------------------
\* A mutation: the next seqno on an active vbucket, the producer's on a replica.
QueueDirty(k, seqno, expired) ==
  /\ seqno > cm.last
  /\ deleting => seqno < MaxSeqno                  \* bound: the last write finds it deleted
  /\ vbState = "active" => seqno = cm.last + 1
  /\ expired => vbState = "active"                 \* not looked at otherwise
  /\ cm' = queueDirty(cm, vbState = "active", k, seqno, expired)
  /\ latest' = [latest EXCEPT ![k] = seqno]
  /\ UNCHANGED <<vbState, diskVars, seen>>

\* PassiveStream::processMarker: a snapshot of the producer opens a checkpoint.
NewSnapshot ==
  /\ vbState = "replica"
  /\ Back(cm).id < MaxChkId
  /\ cm' = checkAndAddNewCheckpoint(cm, Back(cm).id + 1)
  /\ UNCHANGED <<vbState, latest, diskVars, seen>>

\* VBucket::setState: the first checkpoint of an active vbucket has id 2.
SetState(to) ==
  /\ vbState # to
  /\ cm.last < MaxSeqno                            \* bound
  /\ vbState' = to
  /\ cm' = IF to = "active" /\ Back(cm).id < 2
             THEN [cm EXCEPT !.chks[Len(cm.chks)].id = 2] ELSE cm
  /\ UNCHANGED <<latest, diskVars, seen>>

\* The newest seqno of key k in a set of queued items, or in what was there before.
Newest(k, items, before) ==
  LET seqnos == {i.seqno : i \in {j \in items : j.key = k}}
  IN  IF seqnos = {} THEN before ELSE Max(seqnos)

\* What the reader of these items has been handed last.
Handed(n, items) ==
  seen' = [seen EXCEPT ![n] = [k \in Keys |-> Newest(k, items, @[k])]]

\* flushVBucket: take what was rejected before and what the cursor has not visited;
\* of each key only the newest item is written.
TakeItems(items) ==
  /\ flusher.phase = "idle"
  /\ flusher' = [phase |-> "write",
                 batch |-> [k \in Keys |-> Newest(k, items, rejectQueue[k])]]
  /\ rejectQueue' = Nothing
  /\ cm' = getAllItemsForPersistence(cm)
  /\ UNCHANGED <<vbState, latest, disk, deleting>>

FlushBegin ==
  LET items == ItemsAhead(cm, persistence)
  IN  TakeItems(items) /\ Handed(persistence, items)

\* The file once the batch is in it
Written == [k \in Keys |-> IF flusher.batch[k] = 0 THEN disk[k] ELSE flusher.batch[k]]

\* flushOneDelOrSet for each item and the commit, retried until it succeeds.  While
\* the old file has still to be deleted every item is rejected.
FlushCommit ==
  /\ flusher.phase = "write"
  /\ flusher' = [phase |-> "persisted", batch |-> Nothing]
  /\ IF deleting
       THEN rejectQueue' = flusher.batch /\ UNCHANGED disk
       ELSE disk' = Written /\ UNCHANGED rejectQueue
  /\ UNCHANGED <<cm, vbState, latest, deleting, seen>>

\* itemsPersisted, unless something was rejected.
FlushEnd ==
  /\ flusher.phase = "persisted"
  /\ flusher' = [flusher EXCEPT !.phase = "idle"]
  /\ cm' = IF rejectQueue = Nothing THEN itemsPersisted(cm) ELSE cm
  /\ UNCHANGED <<vbState, latest, disk, rejectQueue, deleting, seen>>

\* completeVBucketDeletion; it and the flusher exclude each other.
CompleteDeletion ==
  /\ deleting
  /\ flusher.phase = "idle"
  /\ deleting' = FALSE
  /\ disk' = Nothing
  /\ UNCHANGED <<cm, vbState, latest, rejectQueue, flusher, seen>>

\* ClosedUnrefCheckpointRemoverTask, or the item pager under memory pressure.
RemoveCheckpoints(expired, highMem, force, keepClosed, merge) ==
  LET active == vbState = "active"
  IN  /\ expired => active                          \* not looked at otherwise,
      /\ highMem <=> force \/ (highMem /\ keepClosed)   \* nor is highMem
      /\ merge => ~active /\ ~keepClosed            \* nor enable_chk_merge
      /\ force => active /\ Back(cm).id < MaxChkId
      /\ cm' = removeClosedUnrefCheckpoints(cm, active, expired, highMem, force, keepClosed, merge)
      /\ UNCHANGED <<vbState, latest, diskVars, seen>>

\* A stream registers its cursor to read everything after startBySeqno; what the
\* cursor will not visit the stream reads from disk.
RegisterCursor(n, startBySeqno) ==
  /\ startBySeqno <= HighSeqno(Back(cm))          \* asserted by the code
  /\ cm' = registerBySeqno(cm, n, startBySeqno)
  /\ LET first == BySeqno(cm, startBySeqno).first
     IN  seen' = [seen EXCEPT ![n] = [k \in Keys |-> IF latest[k] < first THEN latest[k] ELSE 0]]
  /\ UNCHANGED <<vbState, latest, diskVars>>

RemoveCursor(n) ==
  /\ n \in CursorNames(cm)
  /\ cm' = removeCursor(cm, n)
  /\ seen' = [seen EXCEPT ![n] = Nothing]
  /\ UNCHANGED <<vbState, latest, diskVars>>

\* ActiveStream::nextCheckpointItem reads the rest of a checkpoint.
ReadItems(n) ==
  /\ n \in CursorNames(cm)
  /\ HasNext(cm, n)
  /\ cm' = getAllItemsForCursor(cm, n)
  /\ LET items == ToSet(ItemsForCursor(cm, n)) IN Handed(n, items)
  /\ UNCHANGED <<vbState, latest, diskVars>>

Flush == FlushBegin \/ FlushCommit \/ FlushEnd

Next ==
  \/ \E k \in Keys, s \in 1 .. MaxSeqno, e \in BOOLEAN : QueueDirty(k, s, e)
  \/ NewSnapshot
  \/ \E to \in {"active", "replica"} : SetState(to)
  \/ Flush
  \/ CompleteDeletion
  \/ \E e, h, f \in BOOLEAN, keep \in KeepClosed, merge \in MergeClosed :
       RemoveCheckpoints(e, h, f, keep, merge)
  \/ \E n \in Streams : (\E s \in 0 .. MaxSeqno : RegisterCursor(n, s)) \/ RemoveCursor(n) \/ ReadItems(n)

Spec == Init /\ [][Next]_vars

-----------------------------------------------------------------------------
Item == [op : Ops, key : Keys \union {NoKey}, seqno : 0 .. MaxSeqno + 1]

\* The state of the manager and of its clients is well formed: in particular every
\* cursor is on an item of a checkpoint that is still in the list.
TypeOK ==
  /\ \A i \in DOMAIN cm.chks :
       /\ cm.chks[i].id \in Nat /\ cm.chks[i].open \in BOOLEAN
       /\ ToSet(cm.chks[i].items) \subseteq Item
  /\ persistence \in CursorNames(cm) /\ CursorNames(cm) \subseteq Names
  /\ cm.last \in 0 .. MaxSeqno /\ cm.num \in Nat /\ cm.pre \in Nat
  /\ \A n \in CursorNames(cm) :
       /\ cm.cur[n].chk \in DOMAIN cm.chks
       /\ cm.cur[n].pos \in DOMAIN Chk(cm, n).items
       /\ cm.cur[n].offset \in Nat
  /\ vbState \in {"active", "replica"}
  /\ latest \in [Keys -> 0 .. MaxSeqno] /\ disk \in [Keys -> 0 .. MaxSeqno]
  /\ rejectQueue \in [Keys -> 0 .. MaxSeqno] /\ deleting \in BOOLEAN
  /\ flusher \in [phase : {"idle", "write", "persisted"}, batch : [Keys -> 0 .. MaxSeqno]]
  /\ seen \in [Names -> [Keys -> 0 .. MaxSeqno]]

\* The items a cursor has still to visit.
Ahead(n) == ItemsAhead(cm, n)

\* A mutation that is not on disk is still in a checkpoint: the remover frees a
\* closed checkpoint only when the file holds every item of it, although the
\* flusher's cursor left it before the flusher wrote anything.
UnpersistedStaysInMemory ==
  \A k \in Keys :
    disk[k] # latest[k] =>
      \E i \in DOMAIN cm.chks : Mutation(k, latest[k]) \in ToSet(cm.chks[i].items)

\* getNumItemsForPersistence, which is computed from two running counts, is the
\* number of mutations that the flusher's cursor has still to visit.
RemainingIsExact ==
  NumItemsFor(cm, persistence) = Cardinality({i \in Ahead(persistence) : IsMutation(i)})

\* What a cursor has still to visit is what its reader still lacks: over
\* deduplication, closing, freeing and collapsing of checkpoints no cursor is moved
\* past the newest mutation of a key its reader has not been handed, nor put back in
\* front of one it has.
NothingMissed ==
  \A n \in CursorNames(cm) :
    LET ahead == Ahead(n)
    IN  \A k \in Keys : Mutation(k, latest[k]) \in ahead <=> seen[n][k] # latest[k]

\* The checkpoints implement the feed of mutations that the flusher and the streams
\* rely on: nothing is handed to them out of order or twice.
Feed == INSTANCE MutationFeed WITH
  Readers <- Names, registered <- CursorNames(cm)

FeedSpec == Feed!Spec
=============================================================================
