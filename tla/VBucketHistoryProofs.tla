------------------------ MODULE VBucketHistoryProofs ------------------------
(***************************************************************************)
(* Proofs about module VBucketHistory, for any number of nodes, any        *)
(* failover table capacity and any bounds: a rollback always lowers the    *)
(* seqno the consumer asks for next, and a consumer never asks for a       *)
(* stream that starts outside the snapshot it reports.                     *)
(***************************************************************************)
EXTENDS VBucketHistory, WellFoundedInduction, TLAPS

\* A bounded non-empty set of naturals has a greatest element.
LEMMA GreatestIndex ==
  ASSUME NEW N \in Nat, NEW S \in SUBSET (1..N), S # {}
  PROVE  \E i \in S : \A j \in S : j <= i
<1> DEFINE T == {N - i : i \in S}
<1>1. T \subseteq Nat /\ T # {}
  <2>1. \A i \in S : i \in 1..N /\ N - i \in Nat
    OBVIOUS
  <2>2. PICK i \in S : TRUE
    BY Zenon
  <2> QED
    BY <2>1, <2>2
<1>2. PICK x \in T : \A y \in T : ~ (<<y, x>> \in OpToRel(<, Nat))
  <2> HIDE DEF T
  <2> QED
    BY <1>1, NatLessThanWellFounded, WFMin, Zenon
<1>3. \A y \in T : ~(y < x)
  BY <1>1, <1>2, Zenon DEF OpToRel
<1>4. PICK i \in S : x = N - i
  OBVIOUS
<1>5. ASSUME NEW j \in S
      PROVE  j <= i
  <2>1. N - j \in T
    OBVIOUS
  <2>2. ~(N - j < N - i)
    BY <2>1, <1>3, <1>4, Zenon
  <2>3. i \in 1..N /\ j \in 1..N
    OBVIOUS
  <2> QED
    BY <2>2, <2>3
<1> QED
  BY <1>5

\* The oldest entry with a uuid exists once the table knows the uuid.
LEMMA OldestOfIsIndex ==
  ASSUME NEW t \in Seq(Entry), NEW uuid, KnowsBranch(t, uuid)
  PROVE  OldestOf(t, uuid) \in DOMAIN t
<1> DEFINE S == {i \in DOMAIN t : t[i].vb_uuid = uuid}
<1>1. S \in SUBSET (1..Len(t)) /\ S # {} /\ Len(t) \in Nat
  BY DEF KnowsBranch
<1>2. \E i \in S : \A j \in S : j <= i
  <2> HIDE DEF S
  <2> QED
    BY <1>1, GreatestIndex, Zenon
<1> QED
  BY <1>2 DEF OldestOf

\* So a branch the table knows ends at a seqno.
LEMMA BranchUpperIsSeqno ==
  ASSUME NEW t \in Seq(Entry), NEW uuid, KnowsBranch(t, uuid), NEW cur \in Nat
  PROVE  BranchUpper(t, cur, uuid) \in Nat
<1> DEFINE i == OldestOf(t, uuid)
<1>1. i \in DOMAIN t
  BY OldestOfIsIndex
<1>2. i # 1 => i - 1 \in DOMAIN t
  <2> HIDE DEF i
  <2> QED
    BY <1>1
<1>3. \A j \in DOMAIN t : t[j] \in Entry
  OBVIOUS
<1> HIDE DEF i
<1>4. i # 1 => t[i - 1].by_seqno \in Nat
  BY <1>2, <1>3 DEF Entry
<1> QED
  BY <1>4 DEF BranchUpper, i

\* needsRollback only ever sends a client back: for every table and every request
\* in range, the rollback seqno is below the start seqno.
THEOREM RollbackIsBelowStart ==
  ASSUME NEW t \in Seq(Entry), NEW uuid, NEW start \in Nat, NEW cur \in Nat,
         NEW snap_start \in Nat, NEW snap_end \in Nat, NEW purge \in Nat,
         snap_start <= start,
         needsRollback(t, start, cur, uuid, snap_start, snap_end, purge)
  PROVE  RollbackSeqno(t, start, cur, uuid, snap_start, snap_end, purge) < start
<1> DEFINE from == EffectiveSnapStart(start, snap_start, snap_end)
           upper == BranchUpper(t, cur, uuid)
<1>1. from \in Nat /\ from <= start /\ start > 0
  BY DEF EffectiveSnapStart, needsRollback
<1>2. CASE from < purge \/ ~KnowsBranch(t, uuid)
  BY <1>1, <1>2 DEF RollbackSeqno
<1>3. CASE ~(from < purge) /\ KnowsBranch(t, uuid)
  <2>1. upper \in Nat
    BY <1>3, BranchUpperIsSeqno
  <2>2. ~(from = start /\ upper = start) /\ (from >= upper \/ from # start)
    BY <1>3 DEF needsRollback
  <2>3. RollbackSeqno(t, start, cur, uuid, snap_start, snap_end, purge)
          = IF from >= upper THEN upper ELSE from
    BY <1>3 DEF RollbackSeqno
  <2> HIDE DEF from, upper
  <2> QED
    BY <1>1, <2>1, <2>2, <2>3
<1> QED
  BY <1>2, <1>3

\* RollbackLowersStart holds of every well-typed state, for every set of nodes and
\* every bound: a refused consumer that rolls back and asks again asks from lower.
THEOREM RollbackMakesProgress == TypeOK => RollbackLowersStart
<1> SUFFICES ASSUME TypeOK, NEW c \in Node, NEW p \in Node,
                    Requests(c, p), NeedsRollback(c, p)
             PROVE  RollbackTo(c, p) < vb[c].high
  BY DEF RollbackLowersStart
<1>1. vb[p].table \in Seq(Entry)
  BY DEF TypeOK, Table
<1>2. vb[c].high \in Nat /\ vb[p].high \in Nat /\ vb[c].snapStart \in Nat
      /\ vb[c].snapEnd \in Nat /\ vb[p].purge \in Nat
  BY DEF TypeOK
<1>3. vb[c].snapStart <= vb[c].high
  BY DEF Requests
<1> QED
  BY <1>1, <1>2, <1>3, RollbackIsBelowStart, SMTT(30) DEF NeedsRollback, RollbackTo
-----------------------------------------------------------------------------
(***************************************************************************)
(* The inductive invariant behind RequestInRange.  The range a copy keeps  *)
(* comes from markers it has not received in full, headers flushed in the  *)
(* middle of a snapshot and rewinds to such headers, so the invariant has  *)
(* to follow the seqnos through all of them: versions of a log or a file   *)
(* have distinct seqnos up to its high seqno; what a stream has in flight  *)
(* lies after the consumer's high seqno, inside the announced snapshot,    *)
(* which the consumer has made its own unless it is still to save it.      *)
(***************************************************************************)
VBFields ==
  {"state", "ht", "log", "high", "snapStart", "snapEnd", "table", "purge",
   "persistenceSeqno", "persistState", "creation", "deleteFile"}
HeaderFields == {"docs", "high", "snapStart", "snapEnd", "table", "state", "purge"}
StreamFields ==
  {"from", "lastRead", "firstMarkerSent", "reqSnapStart", "snapStart", "snapEnd",
   "saveSnapshot", "readyQ"}

InRange(r) ==
  /\ r.high \in Nat /\ r.snapStart \in Nat /\ r.snapEnd \in Nat
  /\ r.snapStart <= r.high /\ r.high <= r.snapEnd

DocsUpTo(docs, high) ==
  /\ DOMAIN docs = Key
  /\ \A k \in Key : docs[k].seqno \in Nat /\ docs[k].seqno <= high
  /\ \A j, k \in Key : docs[j].seqno = docs[k].seqno /\ docs[k].seqno > 0 => j = k

VBInv(v) == VBFields \subseteq DOMAIN v /\ InRange(v) /\ DocsUpTo(v.log, v.high)

HeaderInv(h) == HeaderFields \subseteq DOMAIN h /\ InRange(h) /\ DocsUpTo(h.docs, h.high)

InFlight(readyQ, high, snapEnd) ==
  /\ \A i \in readyQ : i.doc.seqno \in Nat /\ high < i.doc.seqno /\ i.doc.seqno <= snapEnd
  /\ \A i, j \in readyQ : i.doc.seqno = j.doc.seqno => i = j

\* Of a stream s that feeds a copy with this state, high seqno and snapshot end.
FeedInv(s, state, high, snapEnd, scheduled) ==
  s.from # "none" =>
    /\ s.from \in Node /\ state = "replica" /\ scheduled = NoTask
    /\ s.lastRead \in Nat /\ high <= s.lastRead
    /\ s.reqSnapStart \in Nat /\ s.snapStart \in Nat /\ s.snapEnd \in Nat
    /\ s.snapEnd <= s.lastRead
    /\ InFlight(s.readyQ, high, s.snapEnd)
    /\ s.saveSnapshot => \A i \in s.readyQ : s.snapStart <= i.doc.seqno
    /\ ~s.saveSnapshot /\ s.readyQ # {} => snapEnd = s.snapEnd

StreamInv(c) ==
  /\ StreamFields \subseteq DOMAIN stream[c]
  /\ Streaming(c) => c \in up
  /\ FeedInv(stream[c], vb[c].state, vb[c].high, vb[c].snapEnd, task[c])

Shape ==
  /\ DOMAIN vb = Node /\ DOMAIN header = Node /\ DOMAIN older = Node
  /\ DOMAIN stream = Node /\ DOMAIN task = Node /\ up \subseteq Node

VBsInv == \A n \in Node : VBInv(vb[n])
HeadersInv == \A n \in Node : HeaderInv(header[n]) /\ \A h \in older[n] : HeaderInv(h)
StreamsInv == \A c \in Node : StreamInv(c)

SeqnoInv == Shape /\ VBsInv /\ HeadersInv /\ StreamsInv

-----------------------------------------------------------------------------
\* A vbucket just created.
LEMMA FreshVBucketInv ==
  ASSUME NEW state, NEW uuid, NEW deleteFile
  PROVE  VBInv(NewVBucket(state, uuid, deleteFile))
  BY DEF VBInv, VBFields, InRange, DocsUpTo, NewVBucket, NoDocs, Absent

\* A node without the vbucket.
LEMMA NoVBucketInv == VBInv(NoVBucket)
  BY FreshVBucketInv DEF NoVBucket, NewVBucket, VBInv, VBFields, InRange, DocsUpTo

\* A node without a file for it.
LEMMA NoHeaderInv == HeaderInv(NoHeader)
  BY DEF HeaderInv, HeaderFields, InRange, DocsUpTo, NoHeader, NoDocs, Absent

\* A node without a stream.
LEMMA NoStreamInv ==
  /\ StreamFields \subseteq DOMAIN NoStream
  /\ \A state, high, snapEnd, scheduled : FeedInv(NoStream, state, high, snapEnd, scheduled)
  BY DEF StreamFields, NoStream, FeedInv

\* Purging tombstones leaves no document above the file's last seqno.
LEMMA PurgedDocsUpTo ==
  ASSUME NEW docs, NEW keys, NEW high \in Nat, DocsUpTo(docs, high)
  PROVE  DocsUpTo(Purged(docs, keys), high)
  BY DEF DocsUpTo, Purged, Absent

\* Writing the fields that are not about seqnos disturbs nothing.
LEMMA SameSeqnosVBInv ==
  ASSUME NEW v, NEW w, VBInv(v), DOMAIN w = DOMAIN v,
         w.log = v.log, w.high = v.high, w.snapStart = v.snapStart, w.snapEnd = v.snapEnd
  PROVE  VBInv(w)
  BY DEF VBInv, InRange

\* A header that differs in its failover table only.
LEMMA SameSeqnosHeaderInv ==
  ASSUME NEW g, NEW h, HeaderInv(g), DOMAIN h = DOMAIN g,
         h.docs = g.docs, h.high = g.high, h.snapStart = g.snapStart, h.snapEnd = g.snapEnd
  PROVE  HeaderInv(h)
  BY SMTT(30) DEF HeaderInv, InRange

\* The cluster as it starts.
LEMMA InitSeqnoInv == Init => SeqnoInv
<1> SUFFICES ASSUME Init PROVE SeqnoInv
  OBVIOUS
<1>1. PICK a \in Node, u \in Uuid :
        LET State(n) == IF n = a THEN "active" ELSE "replica"
        IN  /\ vb = [n \in Node |-> [NewVBucket(State(n), u, FALSE) EXCEPT
                                       !.persistState = FALSE, !.creation = FALSE]]
            /\ header = [n \in Node |-> [NoHeader EXCEPT !.table = NewTable(u),
                                                         !.state = State(n)]]
            /\ older = [n \in Node |-> {}]
            /\ stream = [n \in Node |-> NoStream]
            /\ task = [n \in Node |-> NoTask]
            /\ up = Node
  BY Zenon DEF Init
<1>2. ASSUME NEW n \in Node PROVE VBInv(vb[n])
  <2>1. PICK state : vb[n] = [NewVBucket(state, u, FALSE) EXCEPT
                                !.persistState = FALSE, !.creation = FALSE]
    BY <1>1, Zenon
  <2> DEFINE v == NewVBucket(state, u, FALSE)
  <2>2. VBInv(v) /\ VBFields \subseteq DOMAIN v
    BY FreshVBucketInv, Zenon DEF VBInv
  <2> HIDE DEF v
  <2>3. vb[n] = [v EXCEPT !.persistState = FALSE, !.creation = FALSE]
    BY <2>1 DEF v
  <2> QED
    BY <2>2, <2>3, SameSeqnosVBInv, Zenon DEF VBFields
<1>3. ASSUME NEW n \in Node PROVE HeaderInv(header[n])
  <2>1. PICK state : header[n] = [NoHeader EXCEPT !.table = NewTable(u), !.state = state]
    BY <1>1, Zenon
  <2>2. HeaderInv(NoHeader) /\ HeaderFields \subseteq DOMAIN NoHeader
    BY NoHeaderInv DEF HeaderInv
  <2> QED
    BY <2>1, <2>2, SameSeqnosHeaderInv, Zenon DEF HeaderFields
<1>4. ASSUME NEW n \in Node PROVE StreamInv(n)
  <2>1. stream[n] = NoStream
    BY <1>1, Zenon
  <2>2. ~Streaming(n)
    BY <2>1 DEF Streaming, NoStream
  <2> QED
    BY <2>1, <2>2, NoStreamInv, SMTT(30) DEF StreamInv
<1> QED
  BY <1>1, <1>2, <1>3, <1>4, Zenon DEF SeqnoInv, Shape, VBsInv, HeadersInv, StreamsInv

-----------------------------------------------------------------------------
(* What the steps have in common. *)

\* A commit appends a header that is as good as the earlier ones.
LEMMA CommitHeadersInv ==
  ASSUME Shape, HeadersInv, NEW n \in Node, NEW h, HeaderInv(h), Commit(n, h)
  PROVE  HeadersInv' /\ DOMAIN header' = Node /\ DOMAIN older' = Node
  BY DEF HeadersInv, Commit, Shape

\* A copy whose stream, task, state and seqnos stay as they are.
LEMMA SameFeedStreamInv ==
  ASSUME NEW c \in Node, StreamInv(c), stream'[c] = stream[c], task'[c] = task[c],
         c \in up => c \in up',
         vb'[c].state = vb[c].state, vb'[c].high = vb[c].high, vb'[c].snapEnd = vb[c].snapEnd
  PROVE  StreamInv(c)'
  BY DEF StreamInv, Streaming

\* A copy without a stream may change in any way.
LEMMA IdleStreamInv ==
  ASSUME NEW c \in Node, StreamInv(c), ~Streaming(c), stream'[c] = stream[c]
  PROVE  StreamInv(c)'
  BY DEF StreamInv, Streaming, FeedInv

\* Closing a stream leaves the consumer with nothing out of range.
LEMMA ClosedStreamInv ==
  ASSUME NEW c \in Node, stream'[c] = NoStream
  PROVE  StreamInv(c)'
<1>1. ~Streaming(c)'
  BY DEF Streaming, NoStream
<1> QED
  BY <1>1, NoStreamInv DEF StreamInv

\* A step that changes one copy, its seqnos excepted, and no stream.
LEMMA SameSeqnosStep ==
  ASSUME Shape, VBsInv, StreamsInv, NEW n \in Node, NEW v, vb' = [vb EXCEPT ![n] = v],
         DOMAIN v = DOMAIN vb[n], v.state = vb[n].state, v.log = vb[n].log,
         v.high = vb[n].high, v.snapStart = vb[n].snapStart, v.snapEnd = vb[n].snapEnd,
         UNCHANGED <<stream, task, up>>
  PROVE  VBsInv' /\ StreamsInv' /\ DOMAIN vb' = Node
<1>1. DOMAIN vb' = Node /\ vb'[n] = v /\ \A m \in Node : m # n => vb'[m] = vb[m]
  BY DEF Shape
<1>2. VBsInv'
  BY <1>1, SameSeqnosVBInv DEF VBsInv
<1>3. ASSUME NEW c \in Node PROVE StreamInv(c)'
  <2>1. /\ vb'[c].state = vb[c].state /\ vb'[c].high = vb[c].high
        /\ vb'[c].snapEnd = vb[c].snapEnd
    BY <1>1
  <2> QED
    BY <2>1, SameFeedStreamInv DEF StreamsInv
<1> QED
  BY <1>1, <1>2, <1>3 DEF StreamsInv

\* Closing every stream to and from one copy lets that copy change in any way.
LEMMA CloseStreamsOfStep ==
  ASSUME StreamsInv, NEW n \in Node, stream' = CloseStreamsOf(n),
         \A c \in Node \ {n} : /\ vb'[c] = vb[c] /\ task'[c] = task[c]
                               /\ c \in up => c \in up'
  PROVE  StreamsInv' /\ DOMAIN stream' = Node
<1>1. DOMAIN stream' = Node /\ stream'[n] = NoStream
      /\ \A c \in Node : stream'[c] = NoStream \/ stream'[c] = stream[c]
  BY DEF CloseStreamsOf
<1>2. ASSUME NEW c \in Node PROVE StreamInv(c)'
  <2>1. CASE stream'[c] = NoStream
    BY <2>1, ClosedStreamInv
  <2>2. CASE stream'[c] = stream[c] /\ c # n
    BY <2>2, SameFeedStreamInv DEF StreamsInv
  <2> QED
    BY <1>1, <2>1, <2>2
<1> QED
  BY <1>1, <1>2 DEF StreamsInv

\* The active node has no stream of its own.
LEMMA ActiveIsIdle ==
  ASSUME NEW n \in Node, StreamInv(n), vb[n].state = "active"
  PROVE  ~Streaming(n)
  BY DEF StreamInv, FeedInv, Streaming

-----------------------------------------------------------------------------
(* One lemma per action. *)

\* A mutation raises the high seqno by one.
LEMMA MutateSeqnoInv ==
  ASSUME SeqnoInv, NEW n \in Node, NEW k \in Key, NEW deleted, Mutate(n, k, deleted)
  PROVE  SeqnoInv'
<1> USE DEF SeqnoInv
<1> DEFINE seqno == vb[n].high + 1
           doc == [seqno |-> seqno, write |-> writes + 1, deleted |-> deleted]
           v == [vb[n] EXCEPT
                   !.ht = [vb[n].ht EXCEPT ![k] = doc], !.log = [vb[n].log EXCEPT ![k] = doc],
                   !.high = seqno, !.snapStart = seqno, !.snapEnd = seqno]
<1>1. /\ vb' = [vb EXCEPT ![n] = v] /\ vb[n].state = "active"
      /\ UNCHANGED <<header, older, stream, task, up>>
  BY DEF Mutate
<1>2. VBInv(v)
  <2>1. VBFields \subseteq DOMAIN vb[n] /\ InRange(vb[n]) /\ DocsUpTo(vb[n].log, vb[n].high)
    BY DEF VBsInv, VBInv
  <2>2. /\ DOMAIN v = DOMAIN vb[n] /\ v.log = [vb[n].log EXCEPT ![k] = doc]
        /\ v.high = seqno /\ v.snapStart = seqno /\ v.snapEnd = seqno
    BY <2>1 DEF VBFields
  <2>3. seqno \in Nat /\ doc.seqno = seqno /\ seqno > vb[n].high /\ vb[n].high \in Nat
    BY <2>1 DEF InRange
  <2> HIDE DEF seqno, doc, v
  <2>4. InRange(v)
    BY <2>2, <2>3 DEF InRange
  <2>5. DocsUpTo(v.log, v.high)
    BY <2>1, <2>2, <2>3 DEF DocsUpTo
  <2> QED
    BY <2>1, <2>2, <2>4, <2>5 DEF VBInv
<1> HIDE DEF v
<1>3. VBsInv'
  BY <1>1, <1>2 DEF VBsInv, Shape
<1>4. ASSUME NEW c \in Node PROVE StreamInv(c)'
  <2>1. CASE c = n
    BY <1>1, <2>1, ActiveIsIdle, IdleStreamInv DEF StreamsInv
  <2>2. CASE c # n
    BY <1>1, <2>2, SameFeedStreamInv DEF StreamsInv, Shape
  <2> QED
    BY <2>1, <2>2
<1> QED
  BY <1>1, <1>3, <1>4 DEF Shape, HeadersInv, StreamsInv

\* The flusher commits what is in memory.
LEMMA FlushSeqnoInv ==
  ASSUME SeqnoInv, NEW n \in Node, Flush(n)
  PROVE  SeqnoInv'
<1> USE DEF SeqnoInv
<1> DEFINE p == Persisted(n)
           h == FlushedHeader(n)
<1>1. HeaderInv(p) /\ VBInv(vb[n])
  BY NoHeaderInv DEF Persisted, HeadersInv, VBsInv
<1>2. HeaderInv(h)
  <2>1. /\ DOMAIN h = DOMAIN p /\ h.high = vb[n].high
        /\ h.docs = [k \in Key |-> IF vb[n].log[k].seqno > p.high
                                   THEN vb[n].log[k] ELSE p.docs[k]]
        /\ \/ h.snapStart = vb[n].high /\ h.snapEnd = vb[n].high
           \/ h.snapStart = vb[n].snapStart /\ h.snapEnd = vb[n].snapEnd
    BY <1>1 DEF FlushedHeader, Dirty, HeaderInv, HeaderFields
  <2>2. p.high < vb[n].high /\ p.high \in Nat /\ vb[n].high \in Nat
    <3>1. PICK k \in Key : vb[n].log[k].seqno > p.high
      BY DEF Flush, Dirty
    <3> HIDE DEF p
    <3> QED
      BY <1>1, <3>1 DEF VBInv, HeaderInv, InRange, DocsUpTo
  <2> HIDE DEF p, h
  <2>3. InRange(h)
    BY <1>1, <2>1, SMTT(30) DEF VBInv, InRange
  <2>4. DocsUpTo(h.docs, h.high)
    BY <1>1, <2>1, <2>2 DEF VBInv, HeaderInv, DocsUpTo
  <2> QED
    BY <1>1, <2>1, <2>3, <2>4 DEF HeaderInv
<1> HIDE DEF p, h
<1>3. HeadersInv' /\ DOMAIN header' = Node /\ DOMAIN older' = Node
  BY <1>2, CommitHeadersInv DEF Flush, h
<1>4. VBsInv' /\ StreamsInv' /\ DOMAIN vb' = Node
  <2> DEFINE v == [vb[n] EXCEPT !.persistenceSeqno = vb[n].high]
  <2>1. /\ DOMAIN v = DOMAIN vb[n] /\ v.state = vb[n].state /\ v.log = vb[n].log
        /\ v.high = vb[n].high /\ v.snapStart = vb[n].snapStart /\ v.snapEnd = vb[n].snapEnd
    BY <1>1 DEF VBInv, VBFields
  <2>2. vb' = [vb EXCEPT ![n] = v] /\ UNCHANGED <<stream, task, up>>
    BY DEF Flush
  <2> HIDE DEF v
  <2> QED
    BY <2>1, <2>2, SameSeqnosStep, Zenon
<1> QED
  BY <1>3, <1>4 DEF Shape, Flush

\* VBStatePersistTask commits the table and state with the data of the last commit.
LEMMA PersistVBStateSeqnoInv ==
  ASSUME SeqnoInv, NEW n \in Node, PersistVBState(n)
  PROVE  SeqnoInv'
<1> USE DEF SeqnoInv
<1> DEFINE h == [header[n] EXCEPT !.state = vb[n].state, !.table = vb[n].table]
           v == [vb[n] EXCEPT !.persistState = FALSE, !.creation = FALSE]
<1>1. HeaderInv(header[n]) /\ HeaderFields \subseteq DOMAIN header[n]
      /\ VBFields \subseteq DOMAIN vb[n]
  BY DEF HeadersInv, HeaderInv, VBsInv, VBInv
<1>2. HeaderInv(h)
  BY <1>1, SameSeqnosHeaderInv, Zenon DEF HeaderFields
<1>3. /\ DOMAIN v = DOMAIN vb[n] /\ v.state = vb[n].state /\ v.log = vb[n].log
      /\ v.high = vb[n].high /\ v.snapStart = vb[n].snapStart /\ v.snapEnd = vb[n].snapEnd
  BY <1>1 DEF VBFields
<1>4. Commit(n, h) /\ vb' = [vb EXCEPT ![n] = v] /\ UNCHANGED <<stream, task, up>>
  BY DEF PersistVBState
<1> HIDE DEF h, v
<1> QED
  BY <1>2, <1>3, <1>4, CommitHeadersInv, SameSeqnosStep, Zenon DEF Shape

\* VBucketMemoryDeletionTask and the deletion of the file.
LEMMA CompleteDeletionSeqnoInv ==
  ASSUME SeqnoInv, NEW n \in Node, CompleteDeletion(n)
  PROVE  SeqnoInv'
<1> USE DEF SeqnoInv
<1> DEFINE v == [vb[n] EXCEPT !.deleteFile = FALSE, !.persistenceSeqno = 0]
<1>1. /\ DOMAIN v = DOMAIN vb[n] /\ v.state = vb[n].state /\ v.log = vb[n].log
      /\ v.high = vb[n].high /\ v.snapStart = vb[n].snapStart /\ v.snapEnd = vb[n].snapEnd
  BY DEF VBsInv, VBInv, VBFields
<1>2. /\ header' = [header EXCEPT ![n] = NoHeader] /\ older' = [older EXCEPT ![n] = {}]
      /\ vb' = [vb EXCEPT ![n] = v] /\ UNCHANGED <<stream, task, up>>
  BY DEF CompleteDeletion
<1> HIDE DEF v
<1>3. HeadersInv'
  BY <1>2, NoHeaderInv DEF HeadersInv, Shape
<1> QED
  BY <1>1, <1>2, <1>3, SameSeqnosStep, ZenonT(40) DEF Shape

\* Compaction raises the purge seqno up to the file's last seqno at most.
LEMMA CompactSeqnoInv ==
  ASSUME SeqnoInv, NEW n \in Node, Compact(n)
  PROVE  SeqnoInv'
<1> USE DEF SeqnoInv
<1>1. PICK gone, freed, purge :
        /\ header' = [header EXCEPT ![n] =
                        [header[n] EXCEPT !.docs = Purged(header[n].docs, gone), !.purge = purge]]
        /\ older' = [older EXCEPT ![n] = {}]
        /\ vb' = [vb EXCEPT ![n] = [vb[n] EXCEPT
                    !.purge = purge, !.log = Purged(vb[n].log, freed),
                    !.ht = Purged(vb[n].ht, freed)]]
        /\ UNCHANGED <<stream, task, up>>
  BY ZenonT(40) DEF Compact
<1> DEFINE h == [header[n] EXCEPT !.docs = Purged(header[n].docs, gone), !.purge = purge]
           v == [vb[n] EXCEPT !.purge = purge, !.log = Purged(vb[n].log, freed),
                              !.ht = Purged(vb[n].ht, freed)]
<1>2. HeaderInv(header[n]) /\ VBInv(vb[n])
  BY DEF HeadersInv, VBsInv
<1>3. HeaderInv(h)
  <2>1. /\ DOMAIN h = DOMAIN header[n] /\ h.docs = Purged(header[n].docs, gone)
        /\ h.high = header[n].high
        /\ h.snapStart = header[n].snapStart /\ h.snapEnd = header[n].snapEnd
    BY <1>2 DEF HeaderInv, HeaderFields
  <2> HIDE DEF h
  <2> QED
    BY <1>2, <2>1, PurgedDocsUpTo DEF HeaderInv, InRange
<1>4. /\ DOMAIN v = DOMAIN vb[n] /\ v.log = Purged(vb[n].log, freed) /\ v.state = vb[n].state
      /\ v.high = vb[n].high /\ v.snapStart = vb[n].snapStart /\ v.snapEnd = vb[n].snapEnd
  BY <1>2 DEF VBInv, VBFields
<1>5. vb' = [vb EXCEPT ![n] = v] /\ header' = [header EXCEPT ![n] = h]
  BY <1>1
<1> HIDE DEF h, v
<1>6. VBInv(v)
  BY <1>2, <1>4, PurgedDocsUpTo DEF VBInv, InRange
<1>7. VBsInv' /\ HeadersInv'
  BY <1>1, <1>3, <1>5, <1>6 DEF VBsInv, HeadersInv, Shape
<1>8. ASSUME NEW c \in Node PROVE StreamInv(c)'
  BY <1>1, <1>4, <1>5, SameFeedStreamInv DEF StreamsInv, Shape
<1> QED
  BY <1>1, <1>5, <1>7, <1>8 DEF Shape, StreamsInv

\* setVBucketState, either way.
LEMMA StateChangeSeqnoInv ==
  ASSUME SeqnoInv, NEW n \in Node, Promote(n) \/ Demote(n)
  PROVE  SeqnoInv'
<1> USE DEF SeqnoInv
<1>1. PICK state, table :
        /\ vb' = [vb EXCEPT ![n] = [vb[n] EXCEPT
                    !.state = state, !.persistState = TRUE, !.table = table]]
        /\ stream' = CloseStreamsOf(n)
        /\ UNCHANGED <<header, older, task, up>>
  <2>1. CASE Promote(n)
    BY <2>1, ZenonT(40) DEF Promote
  <2>2. CASE Demote(n)
    <3>1. [vb[n] EXCEPT !.state = "replica", !.persistState = TRUE] =
          [vb[n] EXCEPT !.state = "replica", !.persistState = TRUE, !.table = vb[n].table]
      BY Zenon
    <3> QED
      BY <2>2, <3>1, Zenon DEF Demote
  <2> QED
    BY <2>1, <2>2, ZenonT(40)
<1> DEFINE v == [vb[n] EXCEPT !.state = state, !.persistState = TRUE, !.table = table]
<1>2. /\ DOMAIN v = DOMAIN vb[n] /\ v.log = vb[n].log /\ v.high = vb[n].high
      /\ v.snapStart = vb[n].snapStart /\ v.snapEnd = vb[n].snapEnd
  BY DEF VBsInv, VBInv, VBFields
<1>3. vb' = [vb EXCEPT ![n] = v]
  BY <1>1
<1> HIDE DEF v
<1>4. VBsInv' /\ DOMAIN vb' = Node
  BY <1>2, <1>3, SameSeqnosVBInv DEF VBsInv, Shape
<1>5. StreamsInv' /\ DOMAIN stream' = Node
  BY <1>1, <1>3, CloseStreamsOfStep DEF Shape
<1> QED
  BY <1>1, <1>4, <1>5, SMTT(30) DEF Shape, HeadersInv

\* A crash loses what is in memory.
LEMMA CrashSeqnoInv ==
  ASSUME SeqnoInv, NEW n \in Node, Crash(n)
  PROVE  SeqnoInv'
<1> USE DEF SeqnoInv
<1>1. VBsInv'
  BY NoVBucketInv DEF Crash, VBsInv, Shape
<1>2. StreamsInv' /\ DOMAIN stream' = Node
  BY CloseStreamsOfStep DEF Crash, Shape
<1> QED
  BY <1>1, <1>2 DEF Crash, Shape, HeadersInv

\* Warmup rebuilds the vbucket from the last header.
LEMMA WarmupSeqnoInv ==
  ASSUME SeqnoInv, NEW n \in Node, Warmup(n)
  PROVE  SeqnoInv'
<1> USE DEF SeqnoInv
<1>1. PICK v : vb' = [vb EXCEPT ![n] = v] /\ VBInv(v)
  <2>1. PICK u \in Uuid : \/ vb' = [vb EXCEPT ![n] = NewVBucket("replica", u, FALSE)]
                          \/ vb' = [vb EXCEPT ![n] = WarmVBucket(header[n], u)]
    BY Zenon DEF Warmup
  <2>2. VBInv(WarmVBucket(header[n], u))
    <3>1. InRange(header[n]) /\ DocsUpTo(header[n].docs, header[n].high)
      BY DEF HeadersInv, HeaderInv
    <3> QED
      BY <3>1 DEF WarmVBucket, VBInv, VBFields, InRange
  <2> QED
    BY <2>1, <2>2, FreshVBucketInv, Zenon
<1>2. VBsInv' /\ DOMAIN vb' = Node
  BY <1>1 DEF VBsInv, Shape
<1>3. ~Streaming(n)
  BY DEF Warmup, StreamsInv, StreamInv
<1>4. ASSUME NEW c \in Node PROVE StreamInv(c)'
  <2>1. CASE c = n
    BY <1>3, <2>1, IdleStreamInv, SMTT(30) DEF Warmup, StreamsInv
  <2>2. CASE c # n
    BY <1>1, <2>2, SameFeedStreamInv, SMTT(30) DEF Warmup, StreamsInv, Shape
  <2> QED
    BY <2>1, <2>2
<1> QED
  BY <1>2, <1>4 DEF Warmup, Shape, HeadersInv, StreamsInv

\* streamRequest lets the consumer start where it asks to.
LEMMA AcceptStreamSeqnoInv ==
  ASSUME SeqnoInv, "prompt-rollback" \in Assumed,
         NEW c \in Node, NEW p \in Node, AcceptStream(c, p)
  PROVE  SeqnoInv'
<1> USE DEF SeqnoInv
<1> DEFINE v == [vb[c] EXCEPT !.table = vb[p].table, !.persistState = TRUE]
           s == [NoStream EXCEPT !.from = p, !.lastRead = vb[c].high,
                                 !.reqSnapStart = vb[c].snapStart]
<1>1. /\ vb' = [vb EXCEPT ![c] = v] /\ stream' = [stream EXCEPT ![c] = s]
      /\ UNCHANGED <<header, older, task, up>>
      /\ c \in up /\ vb[c].state = "replica" /\ task[c] = NoTask
  BY DEF AcceptStream, Requests
<1>2. VBInv(vb[c])
  BY DEF VBsInv
<1>3. /\ DOMAIN v = DOMAIN vb[c] /\ v.state = vb[c].state /\ v.log = vb[c].log
      /\ v.high = vb[c].high /\ v.snapStart = vb[c].snapStart /\ v.snapEnd = vb[c].snapEnd
  BY <1>2 DEF VBInv, VBFields
<1>4. /\ DOMAIN s = DOMAIN NoStream /\ s.from = p /\ s.lastRead = vb[c].high
      /\ s.reqSnapStart = vb[c].snapStart /\ s.snapStart = 0 /\ s.snapEnd = 0
      /\ s.saveSnapshot = FALSE /\ s.readyQ = {}
  BY DEF NoStream
<1> HIDE DEF v, s
<1>5. VBsInv' /\ DOMAIN vb' = Node /\ DOMAIN stream' = Node
  BY <1>1, <1>3, SameSeqnosVBInv DEF VBsInv, Shape
<1>6. StreamInv(c)'
  <2>1. stream'[c] = s /\ vb'[c] = v /\ task'[c] = NoTask /\ c \in up'
    BY <1>1, SMTT(30) DEF Shape
  <2>2. FeedInv(s, v.state, v.high, v.snapEnd, NoTask)
    BY <1>1, <1>2, <1>3, <1>4, SMTT(30) DEF FeedInv, InFlight, VBInv, InRange
  <2> QED
    BY <1>4, <2>1, <2>2, NoStreamInv DEF StreamInv
<1>7. ASSUME NEW d \in Node, d # c PROVE StreamInv(d)'
  BY <1>1, <1>7, SameFeedStreamInv, SMTT(30) DEF StreamsInv, Shape
<1> QED
  BY <1>1, <1>5, <1>6, <1>7 DEF Shape, HeadersInv, StreamsInv

\* streamRequest turns the consumer away with a seqno to roll back to.
LEMMA RefuseStreamSeqnoInv ==
  ASSUME SeqnoInv, NEW c \in Node, NEW p \in Node, RefuseStream(c, p)
  PROVE  SeqnoInv'
<1> USE DEF SeqnoInv
<1>1. ~Streaming(c) /\ UNCHANGED <<vb, header, older, stream, up>>
      /\ \A d \in Node \ {c} : task'[d] = task[d]
  BY DEF RefuseStream, Requests, Shape
<1>2. ASSUME NEW d \in Node PROVE StreamInv(d)'
  <2>1. CASE d = c
    BY <1>1, <2>1, IdleStreamInv DEF StreamsInv
  <2>2. CASE d # c
    BY <1>1, <2>2, SameFeedStreamInv DEF StreamsInv
  <2> QED
    BY <2>1, <2>2
<1> QED
  BY <1>1, <1>2, SMTT(30) DEF RefuseStream, Shape, VBsInv, HeadersInv, StreamsInv

\* A RollbackTask finds no stream: this is what "prompt-rollback" buys.
LEMMA TaskIsIdle ==
  ASSUME NEW n \in Node, StreamInv(n), task[n] # NoTask
  PROVE  ~Streaming(n)
  BY SMTT(30) DEF StreamInv, FeedInv, Streaming

\* Either form of rollback takes the vbucket back to a header of its file, or to nothing.
LEMMA RollbackSeqnoInv ==
  ASSUME SeqnoInv, NEW n \in Node, RollbackPartly(n) \/ RollbackReset(n)
  PROVE  SeqnoInv'
<1> USE DEF SeqnoInv
<1>1. ~Streaming(n)
  <2>1. RollbackPartly(n) => task[n] # NoTask
    BY DEF RollbackPartly, NoTask
  <2>2. RollbackReset(n) => task[n] # NoTask
    BY DEF RollbackReset
  <2> QED
    BY <2>1, <2>2, TaskIsIdle, SMTT(30) DEF StreamsInv
<1>2. /\ \E v : vb' = [vb EXCEPT ![n] = v] /\ VBInv(v)
      /\ HeadersInv' /\ DOMAIN header' = Node /\ DOMAIN older' = Node
  <2>1. CASE RollbackPartly(n)
    <3>1. PICK h \in older[n] \cup {header[n]} :
            vb' = [vb EXCEPT ![n] = RolledBack(n, h)] /\ Commit(n, h)
      BY <2>1, Zenon DEF RollbackPartly
    <3>2. HeaderInv(h)
      BY DEF HeadersInv
    <3> DEFINE v == RolledBack(n, h)
    <3>3. /\ DOMAIN v = DOMAIN vb[n] /\ v.log = h.docs /\ v.high = h.high
          /\ v.snapStart = h.snapStart /\ v.snapEnd = h.snapEnd
      BY DEF RolledBack, VBsInv, VBInv, VBFields
    <3> HIDE DEF v
    <3>4. VBInv(v)
      BY <3>2, <3>3 DEF VBsInv, VBInv, HeaderInv, InRange
    <3> QED
      BY <3>1, <3>2, <3>4, CommitHeadersInv, Zenon DEF v
  <2>2. CASE RollbackReset(n)
    BY <2>2, FreshVBucketInv, Zenon DEF RollbackReset, HeadersInv, Shape
  <2> QED
    BY <2>1, <2>2
<1>3. VBsInv' /\ DOMAIN vb' = Node /\ \A c \in Node \ {n} : vb'[c] = vb[c]
  BY <1>2 DEF VBsInv, Shape
<1>4. /\ UNCHANGED <<stream, up>> /\ DOMAIN task' = Node
      /\ \A c \in Node \ {n} : task'[c] = task[c]
  BY Zenon DEF RollbackPartly, RollbackReset, Shape
<1>5. ASSUME NEW c \in Node PROVE StreamInv(c)'
  <2>1. CASE c = n
    BY <1>1, <1>4, <2>1, IdleStreamInv DEF StreamsInv
  <2>2. CASE c # n
    BY <1>3, <1>4, <2>2, SameFeedStreamInv DEF StreamsInv
  <2> QED
    BY <2>1, <2>2
<1> QED
  BY <1>2, <1>3, <1>4, <1>5 DEF Shape, StreamsInv

\* What a stream has still to read lies after what it has read, with distinct seqnos.
LEMMA UnreadItems ==
  ASSUME SeqnoInv, NEW c \in Node, Streaming(c)
  PROVE  /\ \A i \in Unread(c) : i.doc.seqno \in Nat /\ stream[c].lastRead < i.doc.seqno
         /\ \A i, j \in Unread(c) : i.doc.seqno = j.doc.seqno => i = j
<1> DEFINE p == stream[c].from
<1>1. p \in Node /\ stream[c].lastRead \in Nat
  BY DEF SeqnoInv, StreamsInv, StreamInv, FeedInv, Streaming
<1>2. DocsUpTo(vb[p].log, vb[p].high)
  BY <1>1 DEF SeqnoInv, VBsInv, VBInv
<1>3. \A i \in Unread(c) : \E k \in Key :
        /\ i = [key |-> k, doc |-> vb[p].log[k]]
        /\ vb[p].log[k].seqno > stream[c].lastRead
  BY SMTT(30) DEF Unread
<1>4. ASSUME NEW i \in Unread(c)
      PROVE  i.doc.seqno \in Nat /\ stream[c].lastRead < i.doc.seqno
  <2>1. PICK k \in Key : /\ i = [key |-> k, doc |-> vb[p].log[k]]
                         /\ vb[p].log[k].seqno > stream[c].lastRead
    BY <1>3, SMTT(30)
  <2>2. vb[p].log[k].seqno \in Nat /\ i.doc.seqno = vb[p].log[k].seqno
    BY <1>2, <2>1, Zenon DEF DocsUpTo
  <2> QED
    BY <1>1, <2>1, <2>2, SMTT(30)
<1>5. ASSUME NEW i \in Unread(c), NEW j \in Unread(c), i.doc.seqno = j.doc.seqno
      PROVE  i = j
  <2>1. PICK k \in Key : /\ i = [key |-> k, doc |-> vb[p].log[k]]
                         /\ vb[p].log[k].seqno > stream[c].lastRead
    BY <1>3
  <2>2. PICK l \in Key : j = [key |-> l, doc |-> vb[p].log[l]]
    BY <1>3, SMTT(30)
  <2>3. vb[p].log[k].seqno = vb[p].log[l].seqno /\ vb[p].log[k].seqno > 0
    <3>1. i.doc = vb[p].log[k] /\ j.doc = vb[p].log[l]
      BY <2>1, <2>2, SMTT(30)
    <3>2. vb[p].log[k].seqno \in Nat
      BY <1>2, SMTT(30) DEF DocsUpTo
    <3>3. vb[p].log[k].seqno = vb[p].log[l].seqno
      BY <1>5, <3>1, Zenon
    <3>4. vb[p].log[k].seqno > 0
      BY <1>1, <2>1, <3>2, SMTT(30)
    <3> QED
      BY <3>3, <3>4, Zenon
  <2>4. k = l
    BY <1>2, <2>3, Zenon DEF DocsUpTo
  <2> QED
    BY <2>1, <2>2, <2>4, SMTT(30)
<1> QED
  BY <1>4, <1>5

\* The producer sends a snapshot that starts where the last one ended.
LEMMA SendSnapshotSeqnoInv ==
  ASSUME SeqnoInv, NEW c \in Node, SendSnapshot(c)
  PROVE  SeqnoInv'
<1> USE DEF SeqnoInv
<1>1. PICK first \in Unread(c), last \in Unread(c) :
        /\ \A i \in Unread(c) :
             first.doc.seqno <= i.doc.seqno /\ i.doc.seqno <= last.doc.seqno
        /\ stream' = [stream EXCEPT ![c] = [stream[c] EXCEPT
             !.lastRead = last.doc.seqno, !.firstMarkerSent = TRUE, !.saveSnapshot = TRUE,
             !.snapStart = IF stream[c].firstMarkerSent
                              \/ first.doc.seqno <= stream[c].reqSnapStart
                           THEN first.doc.seqno ELSE stream[c].reqSnapStart,
             !.snapEnd = last.doc.seqno, !.readyQ = Unread(c)]]
  BY Zenon DEF SendSnapshot
<1>2. Streaming(c) /\ StreamInv(c) /\ UNCHANGED <<vb, header, older, task, up>>
  BY DEF SendSnapshot, StreamsInv
<1>3. DOMAIN stream' = Node /\ \A d \in Node \ {c} : stream'[d] = stream[d]
  BY <1>1 DEF Shape
<1> DEFINE s == stream'[c]
<1>4. /\ DOMAIN s = DOMAIN stream[c] /\ s.from = stream[c].from
      /\ s.lastRead = last.doc.seqno /\ s.saveSnapshot = TRUE
      /\ s.reqSnapStart = stream[c].reqSnapStart
      /\ s.snapEnd = last.doc.seqno /\ s.readyQ = Unread(c)
      /\ s.snapStart = IF stream[c].firstMarkerSent
                          \/ first.doc.seqno <= stream[c].reqSnapStart
                       THEN first.doc.seqno ELSE stream[c].reqSnapStart
  BY <1>1, <1>2 DEF Shape, StreamInv, StreamFields
<1>5. StreamInv(c)'
  <2>1. /\ stream[c].from \in Node /\ vb[c].state = "replica" /\ task[c] = NoTask
        /\ stream[c].lastRead \in Nat /\ vb[c].high <= stream[c].lastRead
        /\ stream[c].reqSnapStart \in Nat /\ vb[c].high \in Nat
    BY <1>2 DEF StreamInv, FeedInv, Streaming, VBsInv, VBInv, InRange
  <2>2. /\ first.doc.seqno \in Nat /\ last.doc.seqno \in Nat
        /\ stream[c].lastRead < last.doc.seqno
    BY <1>2, UnreadItems
  <2>3. InFlight(Unread(c), vb[c].high, last.doc.seqno)
    <3>1. \A i \in Unread(c) : i.doc.seqno \in Nat /\ stream[c].lastRead < i.doc.seqno
      BY <1>2, UnreadItems
    <3>2. \A i \in Unread(c) : vb[c].high < i.doc.seqno /\ i.doc.seqno <= last.doc.seqno
      BY <1>1, <2>1, <3>1
    <3>3. \A i, j \in Unread(c) : i.doc.seqno = j.doc.seqno => i = j
      BY <1>2, UnreadItems
    <3> QED
      BY <3>1, <3>2, <3>3, SMTT(30) DEF InFlight
  <2>4. s.snapStart \in Nat /\ s.snapStart <= first.doc.seqno
    BY <1>4, <2>1, <2>2
  <2>5. \A i \in Unread(c) : i.doc.seqno \in Nat /\ first.doc.seqno <= i.doc.seqno
    BY <1>1, <1>2, UnreadItems
  <2>6. \A i \in Unread(c) : s.snapStart <= i.doc.seqno
    BY <2>2, <2>4, <2>5, SMTT(30)
  <2> HIDE DEF s
  <2>7. FeedInv(s, vb[c].state, vb[c].high, vb[c].snapEnd, task[c])
    BY <1>4, <2>1, <2>2, <2>3, <2>4, <2>6, SMTT(30) DEF FeedInv
  <2>8. /\ StreamFields \subseteq DOMAIN stream'[c] /\ c \in up'
        /\ FeedInv(stream'[c], vb'[c].state, vb'[c].high, vb'[c].snapEnd, task'[c])
    <3>1. c \in up /\ StreamFields \subseteq DOMAIN s
      BY <1>2, <1>4 DEF StreamInv
    <3> QED
      BY <1>2, <3>1, <2>7, SMTT(30) DEF s
  <2> QED
    BY <2>8, SMTT(30) DEF StreamInv
<1>6. ASSUME NEW d \in Node, d # c PROVE StreamInv(d)'
  BY <1>2, <1>3, <1>6, SameFeedStreamInv DEF StreamsInv
<1> QED
  BY <1>2, <1>3, <1>5, <1>6, SMTT(30) DEF Shape, VBsInv, HeadersInv, StreamsInv

\* The consumer applies the next message of a snapshot.
LEMMA ReceiveSeqnoInv ==
  ASSUME SeqnoInv, NEW c \in Node, Receive(c)
  PROVE  SeqnoInv'
<1> USE DEF SeqnoInv
<1> DEFINE s == stream[c]
<1>1. PICK item \in s.readyQ :
        /\ \A i \in s.readyQ : item.doc.seqno <= i.doc.seqno
        /\ LET snap == SnapshotAfter(vb[c], s, item.doc.seqno)
           IN  vb' = [vb EXCEPT ![c] = [vb[c] EXCEPT
                 !.ht = [vb[c].ht EXCEPT ![item.key] = item.doc],
                 !.log = [vb[c].log EXCEPT ![item.key] = item.doc],
                 !.high = item.doc.seqno, !.snapStart = snap[1], !.snapEnd = snap[2]]]
        /\ stream' = [stream EXCEPT ![c] = [stream[c] EXCEPT
                        !.readyQ = s.readyQ \ {item}, !.saveSnapshot = FALSE]]
  BY Zenon DEF Receive
<1>2. s.from # "none" /\ UNCHANGED <<header, older, task, up>>
  BY DEF Receive, Streaming
<1>3. /\ StreamFields \subseteq DOMAIN s /\ c \in up
      /\ FeedInv(s, vb[c].state, vb[c].high, vb[c].snapEnd, task[c])
  BY <1>2 DEF StreamsInv, StreamInv, Streaming
<1>4. VBInv(vb[c])
  BY DEF VBsInv
<1> DEFINE seqno == item.doc.seqno
           snap == SnapshotAfter(vb[c], s, seqno)
           v == [vb[c] EXCEPT
                   !.ht = [vb[c].ht EXCEPT ![item.key] = item.doc],
                   !.log = [vb[c].log EXCEPT ![item.key] = item.doc],
                   !.high = seqno, !.snapStart = snap[1], !.snapEnd = snap[2]]
           t == [stream[c] EXCEPT !.readyQ = s.readyQ \ {item}, !.saveSnapshot = FALSE]
<1>5. vb' = [vb EXCEPT ![c] = v] /\ stream' = [stream EXCEPT ![c] = t]
  BY <1>1
<1>6. /\ DOMAIN v = DOMAIN vb[c] /\ v.log = [vb[c].log EXCEPT ![item.key] = item.doc]
      /\ v.state = vb[c].state /\ v.high = seqno
      /\ v.snapStart = snap[1] /\ v.snapEnd = snap[2]
  BY <1>4 DEF VBInv, VBFields
<1>7. /\ DOMAIN t = DOMAIN s /\ t.from = s.from /\ t.lastRead = s.lastRead
      /\ t.reqSnapStart = s.reqSnapStart /\ t.snapStart = s.snapStart /\ t.snapEnd = s.snapEnd
      /\ t.readyQ = s.readyQ \ {item} /\ t.saveSnapshot = FALSE
  BY <1>3 DEF StreamFields
<1>8. /\ seqno \in Nat /\ vb[c].high < seqno /\ seqno <= s.snapEnd /\ vb[c].high \in Nat
      /\ s.snapStart \in Nat /\ s.snapEnd \in Nat /\ s.snapEnd <= s.lastRead
      /\ s.lastRead \in Nat
      /\ s.saveSnapshot => s.snapStart <= seqno
      /\ ~s.saveSnapshot => vb[c].snapEnd = s.snapEnd
      /\ vb[c].snapStart \in Nat /\ vb[c].snapStart <= vb[c].high
  BY <1>1, <1>2, <1>3, <1>4 DEF FeedInv, InFlight, VBInv, InRange
<1>9. snap[1] \in Nat /\ snap[1] <= seqno /\ snap[2] = s.snapEnd
  <2> HIDE DEF seqno, s
  <2> QED
    BY <1>8 DEF SnapshotAfter
<1> HIDE DEF v, t, seqno, snap, s
<1>10. VBInv(v)
  <2>1. InRange(v)
    BY <1>6, <1>8, <1>9, SMTT(30) DEF InRange
  <2>2. DocsUpTo(v.log, v.high)
    <3>1. DocsUpTo(vb[c].log, vb[c].high) /\ item.doc.seqno = seqno
      BY <1>4, SMTT(30) DEF VBInv, seqno
    <3> QED
      BY <1>6, <1>8, <3>1 DEF DocsUpTo
  <2> QED
    BY <1>4, <1>6, <2>1, <2>2 DEF VBInv
<1>11. FeedInv(t, v.state, v.high, v.snapEnd, task[c])
  <2>1. \A i \in s.readyQ \ {item} :
          i.doc.seqno \in Nat /\ seqno < i.doc.seqno /\ i.doc.seqno <= s.snapEnd
    <3> SUFFICES ASSUME NEW i \in s.readyQ, i # item
                 PROVE  i.doc.seqno \in Nat /\ seqno < i.doc.seqno /\ i.doc.seqno <= s.snapEnd
      OBVIOUS
    <3>1. i.doc.seqno \in Nat /\ i.doc.seqno <= s.snapEnd /\ i.doc.seqno # item.doc.seqno
      BY <1>2, <1>3, <1>1 DEF FeedInv, InFlight
    <3>2. seqno = item.doc.seqno /\ item.doc.seqno <= i.doc.seqno
      BY <1>1 DEF seqno
    <3> QED
      BY <1>8, <3>1, <3>2
  <2>2. \A i, j \in s.readyQ \ {item} : i.doc.seqno = j.doc.seqno => i = j
    BY <1>2, <1>3 DEF FeedInv, InFlight
  <2>3. InFlight(t.readyQ, v.high, t.snapEnd)
    BY <1>6, <1>7, <2>1, <2>2 DEF InFlight
  <2>4. v.high <= t.lastRead
    BY <1>6, <1>7, <1>8
  <2> QED
    BY <1>2, <1>3, <1>6, <1>7, <1>8, <1>9, <2>3, <2>4, SMTT(30) DEF FeedInv
<1>12. VBsInv' /\ DOMAIN vb' = Node /\ DOMAIN stream' = Node
  BY <1>5, <1>10 DEF VBsInv, Shape
<1>13. StreamInv(c)'
  <2>1. vb'[c] = v /\ stream'[c] = t /\ task'[c] = task[c] /\ c \in up'
    BY <1>2, <1>3, <1>5, SMTT(30) DEF Shape
  <2>2. StreamFields \subseteq DOMAIN t
    BY <1>3, <1>7, SMTT(30)
  <2> QED
    BY <1>11, <2>1, <2>2 DEF StreamInv
<1>14. ASSUME NEW d \in Node, d # c PROVE StreamInv(d)'
  BY <1>2, <1>5, <1>14, SameFeedStreamInv, SMTT(30) DEF StreamsInv, Shape
<1> QED
  BY <1>2, <1>12, <1>13, <1>14, SMTT(30) DEF Shape, HeadersInv, StreamsInv

\* A stream that ends keeps what the consumer received.
LEMMA CloseStreamSeqnoInv ==
  ASSUME SeqnoInv, NEW c \in Node, CloseStream(c)
  PROVE  SeqnoInv'
<1> USE DEF SeqnoInv
<1>1. /\ stream' = [stream EXCEPT ![c] = NoStream]
      /\ UNCHANGED <<vb, header, older, task, up>>
  BY SMTT(30) DEF CloseStream
<1>2. ASSUME NEW d \in Node PROVE StreamInv(d)'
  <2>1. CASE d = c
    BY <1>1, <2>1, ClosedStreamInv DEF Shape
  <2>2. CASE d # c
    BY <1>1, <2>2, SameFeedStreamInv DEF StreamsInv, Shape
  <2> QED
    BY <2>1, <2>2
<1> QED
  BY <1>1, <1>2 DEF Shape, VBsInv, HeadersInv, StreamsInv

-----------------------------------------------------------------------------
\* Every step keeps the seqnos in order.
LEMMA NextSeqnoInv ==
  ASSUME "prompt-rollback" \in Assumed, SeqnoInv, [Next]_vars
  PROVE  SeqnoInv'
<1>1. CASE UNCHANGED vars
  BY <1>1 DEF vars, SeqnoInv, Shape, VBsInv, HeadersInv, StreamsInv, StreamInv, Streaming
<1>2. ASSUME NEW n \in Node, NodeStep(n) PROVE SeqnoInv'
  <2>1. ASSUME NEW k \in Key, NEW deleted \in Deletes, Mutate(n, k, deleted) PROVE SeqnoInv'
    BY <2>1, MutateSeqnoInv
  <2>2. CASE Flush(n)
    BY <2>2, FlushSeqnoInv
  <2>3. CASE PersistVBState(n)
    BY <2>3, PersistVBStateSeqnoInv
  <2>4. CASE CompleteDeletion(n)
    BY <2>4, CompleteDeletionSeqnoInv
  <2>5. CASE Compact(n)
    BY <2>5, CompactSeqnoInv
  <2>6. CASE Promote(n) \/ Demote(n)
    BY <2>6, StateChangeSeqnoInv, SMTT(30)
  <2>7. CASE Reappoint(n)
    BY <2>7 DEF Reappoint, SeqnoInv, Shape, VBsInv, HeadersInv, StreamsInv, StreamInv, Streaming
  <2>8. CASE Crash(n)
    BY <2>8, CrashSeqnoInv
  <2>9. CASE Warmup(n)
    BY <2>9, WarmupSeqnoInv
  <2>10. CASE RollbackPartly(n) \/ RollbackReset(n)
    BY <2>10, RollbackSeqnoInv
  <2>11. CASE SendSnapshot(n)
    BY <2>11, SendSnapshotSeqnoInv
  <2>12. CASE Receive(n)
    BY <2>12, ReceiveSeqnoInv
  <2>13. CASE CloseStream(n)
    BY <2>13, CloseStreamSeqnoInv
  <2> QED
    BY <1>2, <2>1, <2>2, <2>3, <2>4, <2>5, <2>6, <2>7, <2>8, <2>9, <2>10, <2>11, <2>12, <2>13
       DEF NodeStep
<1>3. ASSUME NEW c \in Node, NEW p \in Node, AcceptStream(c, p) \/ RefuseStream(c, p)
      PROVE  SeqnoInv'
  BY <1>3, AcceptStreamSeqnoInv, RefuseStreamSeqnoInv
<1> QED
  BY <1>1, <1>2, <1>3, SMTT(30) DEF Next

\* For every set of nodes and keys and every bound, provided a RollbackTask runs
\* before its vbucket is streamed to again: no sequence of writes, snapshots cut
\* anywhere, flushes, crashes, promotions, compactions and rollbacks leaves a copy
\* whose next stream request DcpProducer::streamRequest rejects with ENGINE_ERANGE.
THEOREM RequestsStayInRange ==
  ASSUME "prompt-rollback" \in Assumed
  PROVE  Spec => []RequestInRange
<1>1. Init => SeqnoInv
  BY InitSeqnoInv
<1>2. SeqnoInv /\ [Next]_vars => SeqnoInv'
  BY NextSeqnoInv
<1>3. SeqnoInv => RequestInRange
  BY DEF SeqnoInv, Shape, VBsInv, VBInv, InRange, RequestInRange
<1> QED
  BY <1>1, <1>2, <1>3, PTL DEF Spec
=============================================================================
