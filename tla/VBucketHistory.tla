-------------------------- MODULE VBucketHistory ---------------------------
(***************************************************************************)
(* One vbucket kept on several nodes by ep-engine: its active copy, its    *)
(* replicas, the DCP streams that feed them, the couchstore file under     *)
(* each copy, and what happens to all of them across failovers, crashes,   *)
(* rollbacks and compactions.  The failover table (module FailoverTable)   *)
(* decides whether a replica may resume where it stopped; the module asks  *)
(* whether a replica allowed to resume really ends up with the same data.  *)
(*                                                                         *)
(*  vb[n]      the VBucket object of node n                                *)
(*  header[n]  the current header of its couchstore file, with cachedVBStates*)
(*  older[n]   the earlier headers of the file a rewind can stop at        *)
(*  stream[n]  the PassiveStream of n with the ActiveStream that feeds it  *)
(*  task[n]    the seqno of a scheduled RollbackTask, or NoTask            *)
(*  owner      the node the cluster map names active: clients write to it  *)
(*             and the cluster manager sets up replication from it         *)
(*                                                                         *)
(* A document version is its seqno, the number of the client write that    *)
(* made it (standing for its value) and whether it is a deletion.          *)
(***************************************************************************)
EXTENDS FailoverTable, Integers

CONSTANTS
  Node, Key,
  Deletes,           \* what clients write: FALSE a value, TRUE a deletion
  MaxWrites,         \* bound on client writes
  MaxPromotions,     \* bound on failovers
  MaxCrashes,        \* bound on node crashes
  MaxCompactions,    \* bound on compactions
  Uuid,              \* the uuids a new branch may take
  Assumed            \* which of the Conditions the environment meets

(***************************************************************************)
(* Conditions under which the copies agree.  The code enforces none of     *)
(* them; a configuration that drops one shows what it is needed for.       *)
(***************************************************************************)
Conditions ==
  { "flushed-at-rollback",       \* a RollbackTask finds the vbucket flushed
    "whole-snapshot-promoted",   \* a replica is promoted at a snapshot end
    "fresh-persistence-seqno",   \* ... with persistenceSeqno not above its seqno
    "ordered-erase",             \* the erase loop meets no two adjacent victims
    "purge-never-forgotten",     \* a compaction never lowers purge_seqno
    "branch-persisted-first",    \* the flusher runs after the VBStatePersistTask
    "prompt-rollback"            \* a RollbackTask runs before the vbucket is
                                 \* promoted or streamed to again
  }

ASSUME ConstantsAssumption ==
  /\ Assumed \subseteq Conditions /\ Deletes \subseteq BOOLEAN
  /\ Uuid \subseteq Nat \ {0} /\ "none" \notin Node
  /\ {MaxWrites, MaxPromotions, MaxCrashes, MaxCompactions} \subseteq Nat

VARIABLES vb, header, older, stream, task, up, owner,
          writes, promotions, crashes, compactions

counters == <<writes, promotions, crashes, compactions>>
vars == <<vb, header, older, stream, task, up, owner, counters>>

NoTask == -1
Absent == [seqno |-> 0, write |-> 0, deleted |-> TRUE]
NoDocs == [k \in Key |-> Absent]
Visible(doc) == IF doc.deleted THEN 0 ELSE doc.write

-----------------------------------------------------------------------------
(* The couchstore file. *)

\* No file.  (delVBucket leaves a dead cached state behind.)
NoHeader ==
  [docs |-> NoDocs, high |-> 0, snapStart |-> 0, snapEnd |-> 0,
   table |-> << >>, state |-> "dead", purge |-> 0]

\* A file whose deletion is still scheduled belongs to the vbucket's earlier life.
Persisted(n) == IF vb[n].deleteFile THEN NoHeader ELSE header[n]

\* A commit appends a header.  Earlier headers not below it are never where a
\* rewind stops: it stops at the newest header at or below its target.
Commit(n, h) ==
  /\ header' = [header EXCEPT ![n] = h]
  /\ older' = [older EXCEPT ![n] = {g \in older[n] \cup {header[n]} : g.high < h.high}]

\* Items the flusher has still to write.
Dirty(n) == {k \in Key : vb[n].log[k].seqno > Persisted(n).high}

-----------------------------------------------------------------------------
(* The VBucket object. *)

\* Uuids are random 48-bit numbers: the first one that no table mentions.
UuidsIn(t) == {t[i].vb_uuid : i \in DOMAIN t}
UsedUuids ==
  UNION {UuidsIn(vb[n].table) \cup UuidsIn(header[n].table) \cup
         UNION {UuidsIn(h.table) : h \in older[n]} : n \in Node}
Fresh(u) == u \notin UsedUuids /\ \A w \in Uuid : w < u => w \in UsedUuids

\* setVBucketState on a vbucket that does not exist yet.  creation is
\* bucketCreation: no flush before the new state is on disk.
NewVBucket(state, uuid, deleteFile) ==
  [state |-> state, ht |-> NoDocs, log |-> NoDocs, high |-> 0,
   snapStart |-> 0, snapEnd |-> 0, table |-> NewTable(uuid), purge |-> 0,
   persistenceSeqno |-> 0, persistState |-> TRUE, creation |-> TRUE,
   deleteFile |-> deleteFile]

NoVBucket == [NewVBucket("dead", 0, FALSE) EXCEPT !.table = << >>]

NoStream ==
  [from |-> "none", lastRead |-> 0, firstMarkerSent |-> FALSE, reqSnapStart |-> 0,
   snapStart |-> 0, snapEnd |-> 0, saveSnapshot |-> FALSE, readyQ |-> {}]

Streaming(c) == stream[c].from # "none"
CloseStreamsOf(n) ==
  [c \in Node |-> IF c = n \/ stream[c].from = n THEN NoStream ELSE stream[c]]

\* An active copy and its replicas, all on the first branch and empty.
Init ==
  \E a \in Node, u \in Uuid :
    LET State(n) == IF n = a THEN "active" ELSE "replica"
    IN  /\ \A w \in Uuid : u <= w
        /\ vb = [n \in Node |-> [NewVBucket(State(n), u, FALSE) EXCEPT
                                   !.persistState = FALSE, !.creation = FALSE]]
        /\ header = [n \in Node |-> [NoHeader EXCEPT !.table = NewTable(u),
                                                     !.state = State(n)]]
        /\ older = [n \in Node |-> {}]
        /\ stream = [n \in Node |-> NoStream]
        /\ task = [n \in Node |-> NoTask]
        /\ up = Node /\ owner = a
        /\ writes = 0 /\ promotions = 0 /\ crashes = 0 /\ compactions = 0

-----------------------------------------------------------------------------
(* Client operations and persistence. *)

\* EventuallyPersistentStore::set / deleteItem on an active vbucket: queueDirty
\* assigns the next seqno and moves the snapshot onto it.
Mutate(n, k, deleted) ==
  /\ n \in up /\ n = owner /\ vb[n].state = "active"
  /\ writes < MaxWrites
  /\ deleted => ~vb[n].ht[k].deleted
  /\ LET seqno == vb[n].high + 1
         doc == [seqno |-> seqno, write |-> writes + 1, deleted |-> deleted]
     IN  vb' = [vb EXCEPT ![n] = [vb[n] EXCEPT
           !.ht = [vb[n].ht EXCEPT ![k] = doc], !.log = [vb[n].log EXCEPT ![k] = doc],
           !.high = seqno, !.snapStart = seqno, !.snapEnd = seqno]]
  /\ writes' = writes + 1
  /\ UNCHANGED <<header, older, stream, task, up, owner, promotions, crashes, compactions>>

\* flushVBucket: one commit with everything queued, the snapshot range, and the
\* state and failover table last written by snapshotVBucket (the cached ones).
FlushedHeader(n) ==
  LET active == vb[n].state = "active"
  IN  [Persisted(n) EXCEPT
         !.docs = [k \in Key |-> IF k \in Dirty(n) THEN vb[n].log[k] ELSE @[k]],
         !.high = vb[n].high,
         !.snapStart = IF active THEN vb[n].high ELSE vb[n].snapStart,
         !.snapEnd = IF active THEN vb[n].high ELSE vb[n].snapEnd]

Flush(n) ==
  /\ n \in up /\ ~vb[n].creation /\ Dirty(n) # {}
  /\ "branch-persisted-first" \in Assumed => ~vb[n].persistState
  /\ Commit(n, FlushedHeader(n))
  /\ vb' = [vb EXCEPT ![n] = [vb[n] EXCEPT !.persistenceSeqno = vb[n].high]]
  /\ UNCHANGED <<stream, task, up, owner, counters>>

\* persistVBState (VBStatePersistTask): the state and the failover table, with
\* the seqnos of the last flush.
PersistVBState(n) ==
  /\ n \in up /\ vb[n].persistState /\ ~vb[n].deleteFile
  /\ Commit(n, [header[n] EXCEPT !.state = vb[n].state, !.table = vb[n].table])
  /\ vb' = [vb EXCEPT ![n] = [vb[n] EXCEPT !.persistState = FALSE, !.creation = FALSE]]
  /\ UNCHANGED <<stream, task, up, owner, counters>>

\* completeVBucketDeletion (VBDeleteTask) for a vbucket that was reset.
CompleteDeletion(n) ==
  /\ n \in up /\ vb[n].deleteFile
  /\ header' = [header EXCEPT ![n] = NoHeader]
  /\ older' = [older EXCEPT ![n] = {}]
  /\ vb' = [vb EXCEPT ![n] = [vb[n] EXCEPT !.deleteFile = FALSE, !.persistenceSeqno = 0]]
  /\ UNCHANGED <<stream, task, up, owner, counters>>

\* compactVBucket: the tombstones up to some age go, the newest seqno stays, one
\* header is left; purge_seqno becomes the highest seqno purged by THIS compaction
\* (max_purged_seq starts at 0).  A tombstone that an open stream has still to
\* read stays in the checkpoints, held by the stream's cursor.
Purgeable(n, cut) ==
  {k \in Key : LET d == header[n].docs[k]
               IN  d.deleted /\ d.seqno \in 1..cut /\ d.seqno # header[n].high}

MaxPurgedSeq(n, gone, purge) ==
  LET seqnos == {0} \cup {header[n].docs[k].seqno : k \in gone}
  IN  purge \in seqnos /\ \A s \in seqnos : s <= purge

HeldByCursor(n, doc) ==
  \E c \in Node : stream[c].from = n /\ stream[c].lastRead < doc.seqno

Purged(docs, keys) == [k \in Key |-> IF k \in keys THEN Absent ELSE docs[k]]

Compact(n) ==
  /\ n \in up /\ compactions < MaxCompactions
  /\ ~vb[n].deleteFile /\ ~vb[n].creation
  /\ \E cut, purge \in 0..MaxWrites :
       LET gone  == Purgeable(n, cut)
           old   == header[n].docs
           freed == {k \in gone : vb[n].log[k] = old[k] /\ ~HeldByCursor(n, old[k])}
       IN  /\ MaxPurgedSeq(n, gone, purge)
           /\ "purge-never-forgotten" \in Assumed => purge >= vb[n].purge
           /\ header' = [header EXCEPT ![n] =
                           [header[n] EXCEPT !.docs = Purged(old, gone), !.purge = purge]]
           /\ older' = [older EXCEPT ![n] = {}]
           /\ vb' = [vb EXCEPT ![n] = [vb[n] EXCEPT
                       !.purge = purge, !.log = Purged(vb[n].log, freed),
                       !.ht = Purged(vb[n].ht, freed)]]
  /\ compactions' = compactions + 1
  /\ UNCHANGED <<stream, task, up, owner, writes, promotions, crashes>>

-----------------------------------------------------------------------------
(* Cluster manager, crashes and warmup. *)

\* The condition "ordered-erase": the loop of createEntry and pruneEntries leaves
\* no entry above the seqno it erases from.
OrderedErase(t, seqno) ==
  "ordered-erase" \in Assumed =>
    \A i \in DOMAIN EraseAbove(t, seqno) : EraseAbove(t, seqno)[i].by_seqno <= seqno

\* Mutant: the branch begins with its first own item.
BranchSeqnoMutant(v) == v.snapEnd + 1

\* The seqno at which setVBucketState opens a new branch.
BranchSeqno(v) == IF v.snapEnd = v.persistenceSeqno THEN v.snapEnd ELSE v.snapStart

\* The cluster manager fails the vbucket over to n, or finds that the copy its map
\* names came back as a replica: it stops the node's incoming replication, then
\* setVBucketState(active, transfer = false).
Promote(n) ==
  /\ n \in up /\ vb[n].state = "replica"
  /\ n = owner \/ promotions < MaxPromotions
  /\ "whole-snapshot-promoted" \in Assumed => vb[n].high = vb[n].snapEnd
  /\ "fresh-persistence-seqno" \in Assumed => vb[n].persistenceSeqno <= vb[n].high
  /\ "prompt-rollback" \in Assumed => task[n] = NoTask
  /\ OrderedErase(vb[n].table, BranchSeqno(vb[n]))
  /\ \E u \in Uuid :
       /\ Fresh(u)
       /\ vb' = [vb EXCEPT ![n] = [vb[n] EXCEPT
                   !.state = "active", !.persistState = TRUE,
                   !.table = createEntry(vb[n].table, BranchSeqno(vb[n]), u)]]
  /\ stream' = CloseStreamsOf(n)
  /\ owner' = n
  /\ promotions' = IF n = owner THEN promotions ELSE promotions + 1
  /\ UNCHANGED <<header, older, task, up, writes, crashes, compactions>>

\* Failing over to a copy that is still active: setVBucketState returns at once.
Reappoint(n) ==
  /\ n \in up /\ n # owner /\ vb[n].state = "active"
  /\ promotions < MaxPromotions
  /\ owner' = n
  /\ promotions' = promotions + 1
  /\ UNCHANGED <<vb, header, older, stream, task, up, writes, crashes, compactions>>

\* setVBucketState(replica) on an active copy the cluster map no longer names:
\* vbucketStateChanged ends the streams it produces.
Demote(n) ==
  /\ n \in up /\ n # owner /\ vb[n].state = "active"
  /\ vb' = [vb EXCEPT ![n] = [vb[n] EXCEPT !.state = "replica", !.persistState = TRUE]]
  /\ stream' = CloseStreamsOf(n)
  /\ UNCHANGED <<header, older, task, up, owner, counters>>

Crash(n) ==
  /\ n \in up /\ crashes < MaxCrashes
  /\ up' = up \ {n}
  /\ vb' = [vb EXCEPT ![n] = NoVBucket]
  /\ stream' = CloseStreamsOf(n)
  /\ task' = [task EXCEPT ![n] = NoTask]
  /\ crashes' = crashes + 1
  /\ UNCHANGED <<header, older, owner, writes, promotions, compactions>>

\* Mutant: no new branch after an unclean shutdown.
WarmVBucketMutant(h, uuid) ==
  [state |-> h.state, ht |-> h.docs, log |-> h.docs, high |-> h.high,
   snapStart |-> h.snapStart, snapEnd |-> h.snapEnd, table |-> h.table,
   purge |-> h.purge, persistenceSeqno |-> h.high,
   persistState |-> TRUE, creation |-> FALSE, deleteFile |-> FALSE]

\* Warmup::createVBuckets after an unclean shutdown.
WarmVBucket(h, uuid) ==
  [state |-> h.state, ht |-> h.docs, log |-> h.docs, high |-> h.high,
   snapStart |-> h.snapStart, snapEnd |-> h.snapEnd,
   table |-> IF h.state = "active" THEN createEntry(h.table, h.snapStart, uuid) ELSE h.table,
   purge |-> h.purge, persistenceSeqno |-> h.high,
   persistState |-> TRUE, creation |-> FALSE, deleteFile |-> FALSE]

\* Without a file the cluster manager creates the replica anew.
Warmup(n) ==
  /\ n \notin up
  /\ up' = up \cup {n}
  /\ \E u \in Uuid :
       /\ Fresh(u)
       /\ \/ /\ header[n].state = "dead"
             /\ vb' = [vb EXCEPT ![n] = NewVBucket("replica", u, FALSE)]
          \/ /\ header[n].state # "dead"
             /\ header[n].state = "active" =>
                  OrderedErase(header[n].table, header[n].snapStart)
             /\ vb' = [vb EXCEPT ![n] = WarmVBucket(header[n], u)]
  /\ UNCHANGED <<header, older, stream, task, owner, counters>>

-----------------------------------------------------------------------------
(* DCP: stream requests, rollback, snapshots. *)

NeedsRollback(c, p) ==
  needsRollback(vb[p].table, vb[c].high, vb[p].high, getLatestEntry(vb[c].table).vb_uuid,
                vb[c].snapStart, vb[c].snapEnd, vb[p].purge)

RollbackTo(c, p) ==
  RollbackSeqno(vb[p].table, vb[c].high, vb[p].high, getLatestEntry(vb[c].table).vb_uuid,
                vb[c].snapStart, vb[c].snapEnd, vb[p].purge)

\* DcpConsumer::addStream (or reconnectStream after a rollback) on c and
\* DcpProducer::streamRequest on p, up to the producer's range checks.
Requests(c, p) ==
  /\ c # p /\ c \in up /\ p \in up
  /\ p = owner /\ vb[p].state = "active" /\ vb[c].state = "replica"
  /\ ~Streaming(c)
  /\ "prompt-rollback" \in Assumed => task[c] = NoTask
  /\ vb[c].snapStart <= vb[c].high /\ vb[c].high <= vb[c].snapEnd

\* The producer accepts; streamAccepted replaces the consumer's failover log and
\* schedules a snapshot of its vbucket state.
AcceptStream(c, p) ==
  /\ Requests(c, p) /\ ~NeedsRollback(c, p)
  /\ stream' = [stream EXCEPT ![c] = [NoStream EXCEPT
                  !.from = p, !.lastRead = vb[c].high, !.reqSnapStart = vb[c].snapStart]]
  /\ vb' = [vb EXCEPT ![c] = [vb[c] EXCEPT !.table = vb[p].table, !.persistState = TRUE]]
  /\ UNCHANGED <<header, older, task, up, owner, counters>>

\* The producer answers ENGINE_ROLLBACK; handleResponse schedules a RollbackTask.
RefuseStream(c, p) ==
  /\ Requests(c, p) /\ NeedsRollback(c, p)
  /\ task' = [task EXCEPT ![c] = RollbackTo(c, p)]
  /\ UNCHANGED <<vb, header, older, stream, up, owner, counters>>

\* Mutant: RollbackCB is not called.
RolledBackMutant(n, h) ==
  [vb[n] EXCEPT
     !.table = pruneEntries(@, h.high), !.log = h.docs, !.high = h.high,
     !.snapStart = h.snapStart, !.snapEnd = h.snapEnd]

\* CouchKVStore::rollback rewinds to the newest header at or below the target,
\* RollbackCB restores in memory the documents persisted after that header, and
\* EventuallyPersistentStore::rollback drops the checkpoints.  persistenceSeqno
\* and purge_seqno stay.
RolledBack(n, h) ==
  [vb[n] EXCEPT
     !.table = pruneEntries(@, h.high), !.log = h.docs, !.high = h.high,
     !.snapStart = h.snapStart, !.snapEnd = h.snapEnd,
     !.ht = [k \in Key |-> IF header[n].docs[k].seqno > h.high THEN h.docs[k] ELSE @[k]]]

\* Keys stand for a few of the vbucket's documents, so "more than half of the
\* changes are undone" may hold or not, but it always holds for a header at 0.
RewindsTo(n, h, seqno) ==
  /\ 0 < h.high /\ h.high <= seqno
  /\ \A g \in older[n] \cup {header[n]} : g.high <= seqno => g.high <= h.high

RollbackPartly(n) ==
  /\ n \in up /\ task[n] > 0 /\ ~vb[n].deleteFile
  /\ "flushed-at-rollback" \in Assumed => Dirty(n) = {}
  /\ \E h \in older[n] \cup {header[n]} :
       /\ RewindsTo(n, h, task[n])
       /\ OrderedErase(vb[n].table, h.high)
       /\ vb' = [vb EXCEPT ![n] = RolledBack(n, h)]
       /\ Commit(n, h)
  /\ task' = [task EXCEPT ![n] = NoTask]
  /\ UNCHANGED <<stream, up, owner, counters>>

\* resetVBucket: asked for seqno 0, no header to rewind to, more than half of the
\* changes to undo, or a couchstore error.
RollbackReset(n) ==
  /\ n \in up /\ task[n] # NoTask
  /\ \E u \in Uuid :
       /\ Fresh(u)
       /\ vb' = [vb EXCEPT ![n] = NewVBucket(vb[n].state, u, TRUE)]
  /\ task' = [task EXCEPT ![n] = NoTask]
  /\ UNCHANGED <<header, older, stream, up, owner, counters>>

\* What the stream feeding c has not read yet: the latest version of each key, as
\* the checkpoints and the file keep it.
Unread(c) ==
  LET log == vb[stream[c].from].log
  IN  {[key |-> k, doc |-> log[k]] : k \in {j \in Key : log[j].seqno > stream[c].lastRead}}

\* ActiveStream::nextCheckpointItem and snapshot: a marker from the first to the
\* last item, then the items; processMarker on the consumer.
SendSnapshot(c) ==
  /\ Streaming(c) /\ stream[c].readyQ = {}
  /\ \E first, last \in Unread(c) :
       /\ \A i \in Unread(c) :
            first.doc.seqno <= i.doc.seqno /\ i.doc.seqno <= last.doc.seqno
       /\ stream' = [stream EXCEPT ![c] = [stream[c] EXCEPT
            !.lastRead = last.doc.seqno, !.firstMarkerSent = TRUE, !.saveSnapshot = TRUE,
            !.snapStart = IF stream[c].firstMarkerSent
                             \/ first.doc.seqno <= stream[c].reqSnapStart
                          THEN first.doc.seqno ELSE stream[c].reqSnapStart,
            !.snapEnd = last.doc.seqno, !.readyQ = Unread(c)]]
  /\ UNCHANGED <<vb, header, older, task, up, owner, counters>>

\* Mutant: the marker's range is not saved with the first item.
SnapshotAfterMutant(v, s, seqno) ==
  IF seqno = s.snapEnd THEN <<seqno, seqno>> ELSE <<v.snapStart, v.snapEnd>>

\* PassiveStream::processMutation / processDeletion, then handleSnapshotEnd; the
\* connection delivers in seqno order.
SnapshotAfter(v, s, seqno) ==
  IF seqno = s.snapEnd THEN <<seqno, seqno>>
  ELSE IF s.saveSnapshot THEN <<s.snapStart, s.snapEnd>>
  ELSE <<v.snapStart, v.snapEnd>>

Receive(c) ==
  /\ Streaming(c)
  /\ \E item \in stream[c].readyQ :
       /\ \A i \in stream[c].readyQ : item.doc.seqno <= i.doc.seqno
       /\ LET snap == SnapshotAfter(vb[c], stream[c], item.doc.seqno)
          IN  vb' = [vb EXCEPT ![c] = [vb[c] EXCEPT
                !.ht = [vb[c].ht EXCEPT ![item.key] = item.doc],
                !.log = [vb[c].log EXCEPT ![item.key] = item.doc],
                !.high = item.doc.seqno, !.snapStart = snap[1], !.snapEnd = snap[2]]]
       /\ stream' = [stream EXCEPT ![c] = [stream[c] EXCEPT
                       !.readyQ = stream[c].readyQ \ {item}, !.saveSnapshot = FALSE]]
  /\ UNCHANGED <<header, older, task, up, owner, counters>>

\* The connection goes; what was in flight is lost.
CloseStream(c) ==
  /\ Streaming(c)
  /\ stream' = [stream EXCEPT ![c] = NoStream]
  /\ UNCHANGED <<vb, header, older, task, up, owner, counters>>

NodeStep(n) ==
  \/ \E k \in Key, deleted \in Deletes : Mutate(n, k, deleted)
  \/ Flush(n) \/ PersistVBState(n) \/ CompleteDeletion(n) \/ Compact(n)
  \/ Promote(n) \/ Reappoint(n) \/ Demote(n) \/ Crash(n) \/ Warmup(n)
  \/ RollbackPartly(n) \/ RollbackReset(n)
  \/ SendSnapshot(n) \/ Receive(n) \/ CloseStream(n)

Next ==
  \/ \E n \in Node : NodeStep(n)
  \/ \E c, p \in Node : AcceptStream(c, p) \/ RefuseStream(c, p)

Spec == Init /\ [][Next]_vars

(***************************************************************************)
(* The executor pool runs every scheduled task, a connection is stepped    *)
(* while it has something to send, and the cluster manager restarts nodes, *)
(* demotes copies the map does not name and re-adds missing streams.       *)
(***************************************************************************)
Fairness ==
  \A n \in Node :
    /\ WF_vars(Flush(n)) /\ WF_vars(PersistVBState(n)) /\ WF_vars(CompleteDeletion(n))
    /\ WF_vars(Demote(n)) /\ WF_vars(Warmup(n))
    /\ WF_vars(RollbackPartly(n) \/ RollbackReset(n))
    /\ WF_vars(SendSnapshot(n)) /\ WF_vars(Receive(n))
    /\ \A p \in Node : WF_vars(AcceptStream(n, p) \/ RefuseStream(n, p))

FairSpec == Spec /\ Fairness

-----------------------------------------------------------------------------
(* Properties. *)

DocSet == [Key -> [seqno : Nat, write : Nat, deleted : BOOLEAN]]
StateSet == {"active", "replica", "dead"}
Table == {t \in Seq(Entry) : Len(t) <= MaxFailoverEntries}

\* Types, with the bound on the table's length that createEntry enforces by
\* dropping its oldest entries.
TypeOK ==
  /\ \A n \in Node :
       /\ vb[n].state \in StateSet /\ vb[n].ht \in DocSet /\ vb[n].log \in DocSet
       /\ {vb[n].high, vb[n].snapStart, vb[n].snapEnd, vb[n].purge,
           vb[n].persistenceSeqno} \subseteq Nat
       /\ {vb[n].persistState, vb[n].creation, vb[n].deleteFile} \subseteq BOOLEAN
       /\ vb[n].table \in Table
       /\ \A h \in older[n] \cup {header[n]} :
            /\ h.docs \in DocSet /\ h.state \in StateSet /\ h.table \in Table
            /\ {h.high, h.snapStart, h.snapEnd, h.purge} \subseteq Nat
       /\ stream[n].from \in Node \cup {"none"}
       /\ task[n] \in Nat \cup {NoTask}
  /\ up \subseteq Node /\ owner \in Node
  /\ writes \in 0..MaxWrites /\ promotions \in 0..MaxPromotions
  /\ crashes \in 0..MaxCrashes /\ compactions \in 0..MaxCompactions

\* A copy's high seqno lies in the snapshot range it would send with a stream
\* request, through markers, partial snapshots, flushes, crashes and rollbacks:
\* otherwise the producer answers ENGINE_ERANGE (DcpProducer::streamRequest)
\* for ever and the replica is never fed again.
RequestInRange ==
  \A n \in up : vb[n].snapStart <= vb[n].high /\ vb[n].high <= vb[n].snapEnd

\* "The sequence numbers are always guarenteed to be increasing": no branch of a
\* table began above the branch that came after it.  needsRollback ends a branch
\* where the next one begins, so it relies on it.
TableOrdered ==
  \A n \in up : \A i \in 1..(Len(vb[n].table) - 1) :
    vb[n].table[i + 1].by_seqno <= vb[n].table[i].by_seqno

\* A refused consumer is told to go back: the rollback point is below the seqno it
\* asked to start at, so refuse - roll back - ask again makes progress.
RollbackLowersStart ==
  \A c, p \in Node : Requests(c, p) /\ NeedsRollback(c, p) => RollbackTo(c, p) < vb[c].high

\* A consumer that the producer let resume has the producer's data: of every key
\* whose latest version is not after the consumer's high seqno (and not on its way)
\* both hold the same value, whatever failovers, crashes, rollbacks and purges the
\* two went through.
StreamedPrefix ==
  \A c \in Node : Streaming(c) =>
    LET p == stream[c].from
    IN  \A k \in Key :
          /\ vb[p].log[k].seqno <= vb[c].high
          /\ \A i \in stream[c].readyQ : i.key # k
          => Visible(vb[p].log[k]) = Visible(vb[c].log[k])

\* The newest branch of an active copy begins inside its history: promotion never
\* opens a branch at a seqno the copy has not reached.
BranchWithinHistory ==
  \A n \in up : vb[n].state = "active" => getLatestEntry(vb[n].table).by_seqno <= vb[n].high

\* A read from memory returns what replication and persistence hold, after a
\* rollback too: the hash table and the checkpoint/disk log agree on every key.
MemoryMatchesLog ==
  \A n \in up, k \in Key : Visible(vb[n].ht[k]) = Visible(vb[n].log[k])

\* Once connections hold, every live replica of a live active copy ends up with its
\* data: stream, refuse, roll back, reset and stream again terminates.
Agrees(c, p) ==
  /\ vb[c].high = vb[p].high
  /\ \A k \in Key : Visible(vb[c].ht[k]) = Visible(vb[p].ht[k])

Converges ==
  <>[][\A c \in Node : ~CloseStream(c)]_vars =>
    <>[](owner \in up /\ vb[owner].state = "active" =>
           \A c \in up : vb[c].state = "replica" => Agrees(c, owner))
=============================================================================
