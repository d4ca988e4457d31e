---------------------------- MODULE ActiveStream ---------------------------
(***************************************************************************)
(* A DCP stream of a vbucket (ActiveStream and DCPBackfill of              *)
(* ep-engine/src/dcp-stream.cc) on top of the checkpoints it reads: what   *)
(* the memory no longer holds comes from a backfill of the file, the rest  *)
(* through a cursor, and a takeover stream hands the vbucket over at the   *)
(* end.  The stream is opened, broken and opened again while front-end     *)
(* threads write, the flusher persists and the remover frees checkpoints.  *)
(*                                                                         *)
(* The consumer at the other end is modelled by what it answers.  When the *)
(* producer is woken is the subject of DcpProducerWakeup; here a stream    *)
(* may be asked for its next response at any time.                         *)
(***************************************************************************)
EXTENDS CheckpointManager

CONSTANTS
  Flags,            \* the flags of the stream requests
  MaxEvents,        \* bound: how many writes and stream requests there are together
  Assumed           \* the conditions that are taken for granted

Conditions == {
  "closed_first",   \* a connection's streams are closed before another of the same
                    \* name opens one
  "state_lock",     \* no write that has checked the vbucket's state is queued after
                    \* the state has changed
  "scan_opens"}     \* the file of a backfill can be opened

ASSUME StreamAssumption ==
  /\ Flags \subseteq {"none", "takeover", "diskonly", "latest"}
  /\ MaxEvents \in Nat /\ Assumed \subseteq Conditions

VARIABLES
  stream,           \* the stream of the current connection
  stale,            \* the earlier streams that are not closed or whose backfill still runs
  opened,           \* how many streams have been opened
  persistedSeqno,   \* vbMap's persistence seqno
  lateWrite,        \* a front-end thread saw the vbucket active before it was set dead
  consumer          \* the other end: the vbucket it has, the snapshot it is in, and
                    \* the answers it has sent

streamVars == <<stream, stale, opened, persistedSeqno, lateWrite, consumer>>
allVars == <<vars, streamVars>>

name == CHOOSE n \in Streams : TRUE      \* all the streams use the name of the connection
Infinite == MaxSeqno + 1                 \* dcpMaxSeqno

Marker(start, end, ack) == [op |-> "marker", start |-> start, end |-> end, ack |-> ack]
SetVBucketState(to) == [op |-> "state", to |-> to]
StreamEnd == [op |-> "streamend"]
NoResponse == [op |-> "none"]

NoTask == [phase |-> "none", from |-> 0, upto |-> 0, items |-> << >>, end |-> 0]

NoStream == [state |-> "dead", task |-> NoTask, readyQ |-> << >>]

StreamInit ==
  /\ Init
  /\ vbState = "active" /\ deleting = FALSE
  /\ stream = NoStream
  /\ stale = {}
  /\ opened = 0
  /\ persistedSeqno = 0
  /\ lateWrite = FALSE
  /\ consumer = [has |-> Nothing, high |-> 0, start |-> 0, end |-> 0, ack |-> FALSE,
                 state |-> "replica", acks |-> << >>]

-----------------------------------------------------------------------------
(***************************************************************************)
(* The methods of ActiveStream, as functions of the stream s and the       *)
(* checkpoint manager m, and of the response to send.                      *)
(***************************************************************************)
Result(s, m) == [s |-> s, m |-> m, resp |-> NoResponse]

nextQueuedItem(p) ==
  IF p.s.readyQ = << >> THEN p
  ELSE LET resp == Head(p.s.readyQ)
       IN  [p EXCEPT !.resp = resp,
                     !.s.readyQ = Tail(@),
                     !.s.lastSent = IF IsMutation(resp) THEN resp.seqno ELSE @]

\* Mutation of snapshot: waitForSnapshot is not counted up.
snapshotMutant(s, items) ==
  [s EXCEPT
     !.marked = TRUE,
     !.lastRead = Last(items).seqno,
     !.readyQ = @ \o <<Marker(IF s.marked THEN Head(items).seqno
                                ELSE Min({s.snapStart, Head(items).seqno}),
                              Last(items).seqno, s.state = "takeover-send")>> \o items]

snapshot(s, items) ==
  LET start == Head(items).seqno
      waits == s.state = "takeover-send"
  IN  [s EXCEPT
         !.wait = IF waits THEN @ + 1 ELSE @,
         !.marked = TRUE,
         !.lastRead = Last(items).seqno,
         !.readyQ = @ \o <<Marker(IF s.marked THEN start ELSE Min({s.snapStart, start}),
                                  Last(items).seqno, waits)>> \o items]

\* Read on until a checkpoint has yielded a mutation or the cursor is at the end;
\* without a cursor there is nothing to read.
nextCheckpointItem(p) ==
  LET n == Len(p.m.chks) + 1
      read[j \in 0 .. n] ==
        IF j = 0 THEN [m |-> p.m, items |-> << >>]
        ELSE LET q == read[j - 1]
             IN  IF q.items # << >> \/ name \notin CursorNames(q.m) \/ ~HasNext(q.m, name) THEN q
                 ELSE [m |-> getAllItemsForCursor(q.m, name),
                       items |-> SelectSeq(ItemsForCursor(q.m, name), IsMutation)]
      last == read[n]
  IN  [p EXCEPT !.m = last.m,
                !.s = IF last.items = << >> THEN @ ELSE snapshot(@, last.items)]

\* transitionState, but for the one to backfilling
transitionState(p, to) ==
  LET q == [p EXCEPT !.s.state = to]
  IN  CASE to = "takeover-send" -> nextCheckpointItem(q)
        [] to = "dead" -> [q EXCEPT !.m = removeCursor(@, name)]
        [] OTHER -> q

endStream(p) ==
  IF p.s.state = "dead" THEN p
  ELSE transitionState([p EXCEPT !.s.readyQ = Append(@, StreamEnd)], "dead")

\* Where a stream goes once it has nothing to read from disk.
AfterBackfill(p) ==
  CASE p.s.flags = "takeover" -> transitionState(p, "takeover-send")
    [] p.s.flags = "diskonly" -> endStream(p)
    [] OTHER -> transitionState(p, "in-memory")

\* Mutation of scheduleBackfill: a single missing seqno is not read from disk.
scheduleBackfillMutant(p) ==
  LET reg == BySeqno(p.m, p.s.lastRead)
      from == p.s.lastRead + 1
      upto == IF p.s.flags = "diskonly" THEN p.s.end
              ELSE IF from >= reg.first THEN 0
              ELSE IF reg.first > p.s.end THEN p.s.end
              ELSE reg.first - 1
      q == [p EXCEPT !.m = registerBySeqno(@, name, p.s.lastRead), !.s.state = "backfilling"]
  IN  IF from < upto /\ (reg.isFirst \/ p.s.flags = "diskonly")
        THEN [q EXCEPT !.s.task = [NoTask EXCEPT !.phase = "scheduled", !.from = from, !.upto = upto]]
        ELSE AfterBackfill(q)

\* setActive: transitionState to backfilling, and scheduleBackfill
scheduleBackfill(p) ==
  LET reg == BySeqno(p.m, p.s.lastRead)
      from == p.s.lastRead + 1
      upto == IF p.s.flags = "diskonly" THEN p.s.end
              ELSE IF from >= reg.first THEN 0
              ELSE IF reg.first > p.s.end THEN p.s.end
              ELSE reg.first - 1
      q == [p EXCEPT !.m = registerBySeqno(@, name, p.s.lastRead), !.s.state = "backfilling"]
  IN  IF from <= upto /\ (reg.isFirst \/ p.s.flags = "diskonly")
        THEN [q EXCEPT !.s.task = [NoTask EXCEPT !.phase = "scheduled", !.from = from, !.upto = upto]]
        ELSE AfterBackfill(q)

backfillPhase(p) ==
  LET sent == nextQueuedItem(p)
      moved == IF sent.s.lastRead >= sent.s.end THEN endStream(sent) ELSE AfterBackfill(sent)
  IN  IF sent.s.task # NoTask \/ sent.s.readyQ # << >> THEN sent
      ELSE IF sent.resp = NoResponse THEN nextQueuedItem(moved) ELSE moved

inMemoryPhase(p) ==
  nextQueuedItem(IF p.s.readyQ # << >> THEN p
                 ELSE IF p.s.lastSent >= p.s.end THEN endStream(p)
                 ELSE nextCheckpointItem(p))

takeoverSendPhase(p) ==
  LET q == IF p.s.readyQ # << >> THEN p ELSE nextCheckpointItem(p)
  IN  IF q.s.readyQ # << >> THEN nextQueuedItem(q)
      ELSE IF q.s.wait # 0 THEN q
      ELSE [transitionState(q, "takeover-wait") EXCEPT !.resp = SetVBucketState(q.s.takeoverState)]

next(p) ==
  CASE p.s.state = "backfilling" -> backfillPhase(p)
    [] p.s.state = "in-memory" -> inMemoryPhase(p)
    [] p.s.state = "takeover-send" -> takeoverSendPhase(p)
    [] OTHER -> nextQueuedItem(p)

-----------------------------------------------------------------------------
(***************************************************************************)
(* The consumer, which is external to the stream: it applies what it gets, *)
(* answers the marker of a snapshot that asks for it when it has the whole *)
(* snapshot, and answers each change of state.                             *)
(***************************************************************************)
Received(c, resp) ==
  CASE resp.op = "marker" ->
         [c EXCEPT !.start = resp.start, !.end = resp.end, !.ack = resp.ack]
    [] resp.op = "set" ->
         [c EXCEPT !.has[resp.key] = resp.seqno, !.high = resp.seqno,
                   !.ack = @ /\ resp.seqno # c.end,
                   !.acks = IF c.ack /\ resp.seqno = c.end THEN Append(@, "marker") ELSE @]
    [] resp.op = "state" ->
         [c EXCEPT !.state = resp.to, !.acks = Append(@, "state")]
    [] OTHER -> c

-----------------------------------------------------------------------------
(***************************************************************************)
(* DCPBackfill::run, as the step that the backfill of a stream can take.   *)
(***************************************************************************)
\* The items of the file from seqno from on, in order
OnDisk(from) ==
  SetToSortSeq({Mutation(k, disk[k]) : k \in {j \in Keys : disk[j] >= from}},
               LAMBDA a, b : a.seqno < b.seqno)

\* Mutation of markDiskSnapshot: the cursor stays where it was.
markDiskSnapshotMutant(p) ==
  LET s == p.s
      q == [p EXCEPT !.s.task.phase = "scanning"]
  IN  IF s.state # "backfilling" THEN q
      ELSE [q EXCEPT !.s.marked = TRUE,
                     !.s.readyQ = Append(@, Marker(Min({s.snapStart, s.task.from}), s.task.end, FALSE))]

\* The cursor is registered again, behind what the file holds.
markDiskSnapshot(p) ==
  LET s == p.s
      q == [p EXCEPT !.s.task.phase = "scanning"]
  IN  IF s.state # "backfilling" THEN q
      ELSE [q EXCEPT !.s.marked = TRUE,
                     !.s.readyQ = Append(@, Marker(Min({s.snapStart, s.task.from}), s.task.end, FALSE)),
                     !.m = registerBySeqno(@, name, Min({s.task.end, s.end}))]

backfillReceived(p) ==
  LET item == Head(p.s.task.items)
      q == [p EXCEPT !.s.task.items = Tail(@)]
  IN  IF p.s.state # "backfilling" THEN q
      ELSE [q EXCEPT !.s.readyQ = Append(@, item), !.s.lastRead = item.seqno]

\* Mutation of completeBackfill: for a stream that has been closed meanwhile the
\* cursor is removed once more.
completeBackfillMutant(p) ==
  [p EXCEPT !.s.task = NoTask,
            !.m = IF p.s.state = "backfilling" THEN @ ELSE removeCursor(@, name)]

completeBackfill(p) == [p EXCEPT !.s.task = NoTask]

\* The task waits until the file has what it needs, and opens it.
BackfillSteps(p) ==
  LET task == p.s.task
  IN  CASE task.phase = "scheduled" /\ persistedSeqno >= task.upto ->
             {[p EXCEPT !.s.task.phase = "opened",
                        !.s.task.items = OnDisk(task.from),
                        !.s.task.end = Max(Range(disk))]}
             \union (IF "scan_opens" \in Assumed THEN {}
                     ELSE {[p EXCEPT !.s.task.phase = "scanning"]})
        [] task.phase = "opened" -> {markDiskSnapshot(p)}
        [] task.phase = "scanning" /\ task.items # << >> -> {backfillReceived(p)}
        [] task.phase = "scanning" /\ task.items = << >> -> {completeBackfill(p)}
        [] OTHER -> {}

-----------------------------------------------------------------------------
(***************************************************************************)
(* The vbucket.                                                            *)
(***************************************************************************)
\* EventuallyPersistentStore::set and its like: the state is checked first.
\* That chk_period is over is left to FreeCheckpoints.
Write(k) ==
  /\ cm.last < MaxSeqno /\ cm.last + opened < MaxEvents
  /\ vbState = "active" \/ lateWrite
  /\ QueueDirty(k, cm.last + 1, FALSE)
  /\ lateWrite' = FALSE
  /\ UNCHANGED <<stream, stale, opened, persistedSeqno, consumer>>

\* flushVBucket.  Its last steps, which CheckpointManager tells apart, are one here.
FlushVBucket ==
  /\ \/ TakeItems(ItemsAhead(cm, persistence)) /\ UNCHANGED persistedSeqno
     \/ /\ flusher.phase = "write"
        /\ flusher' = [phase |-> "idle", batch |-> Nothing]
        /\ disk' = Written
        /\ persistedSeqno' = Max(Range(Written))
        /\ cm' = itemsPersisted(cm)
        /\ UNCHANGED <<vbState, latest, rejectQueue, deleting>>
  /\ UNCHANGED <<seen, stream, stale, opened, lateWrite, consumer>>

FreeCheckpoints(expired) ==
  /\ RemoveCheckpoints(expired, FALSE, FALSE, FALSE, FALSE)
  /\ UNCHANGED streamVars

-----------------------------------------------------------------------------
(***************************************************************************)
(* The stream of the current connection.                                   *)
(***************************************************************************)
vbVars == <<latest, diskVars, seen>>

\* What is left of a stream that has been closed: its backfill, if one runs.
Remains(s) == IF s.task = NoTask THEN {} ELSE {[NoStream EXCEPT !.task = s.task]}

\* DcpProducer::streamRequest on a new connection, from where the consumer is.
StreamRequest(flags) ==
  LET end == CASE flags = "latest" -> cm.last
               [] flags = "diskonly" -> persistedSeqno
               [] OTHER -> Infinite
      start == consumer.high
      new == [state |-> "pending", flags |-> flags, end |-> end,
              snapStart |-> IF start = consumer.end THEN start ELSE consumer.start,
              lastRead |-> start, lastSent |-> start, marked |-> FALSE, wait |-> 0,
              takeoverState |-> "pending", task |-> NoTask, readyQ |-> << >>]
      p == IF start >= end THEN endStream(Result(new, cm)) ELSE scheduleBackfill(Result(new, cm))
  IN  /\ cm.last + opened < MaxEvents
      /\ opened' = opened + 1
      /\ "closed_first" \in Assumed => stream = NoStream
      /\ vbState = "active" /\ consumer.state = "replica"
      /\ start <= end
      /\ stream' = p.s
      /\ stale' = stale \union (IF stream = NoStream THEN {} ELSE {stream})
      /\ cm' = p.m
      /\ consumer' = [consumer EXCEPT !.acks = << >>, !.ack = FALSE]
      /\ UNCHANGED <<vbState, vbVars, persistedSeqno, lateWrite>>

\* DcpProducer::step asks the stream for a response; after the last one the stream
\* is of no use any more.
SendNext ==
  /\ stream # NoStream
  /\ LET p == next(Result(stream, cm))
     IN  /\ stream' = IF p.resp = StreamEnd THEN NoStream ELSE p.s
         /\ cm' = p.m
         /\ consumer' = Received(consumer, p.resp)
  /\ UNCHANGED <<vbState, vbVars, stale, opened, persistedSeqno, lateWrite>>

\* Mutation of AckReceived: the vbucket stays active while the rest is sent.
AckReceivedMutant ==
  /\ stream # NoStream /\ consumer.acks # << >>
  /\ consumer' = [consumer EXCEPT !.acks = Tail(@)]
  /\ LET ack == Head(consumer.acks)
         p == Result(stream, cm)
         waiting == ack = "state" /\ stream.state = "takeover-wait"
         q == IF ack = "marker" THEN [p EXCEPT !.s.wait = @ - 1]
              ELSE IF ~waiting THEN p
              ELSE IF stream.takeoverState # "pending" THEN endStream(p)
              ELSE transitionState([p EXCEPT !.s.takeoverState = "active"], "takeover-send")
     IN  stream' = q.s /\ cm' = q.m
  /\ UNCHANGED <<vbState, lateWrite, vbVars, stale, opened, persistedSeqno>>

\* snapshotMarkerAckReceived, setVBucketStateAckRecieved
AckReceived ==
  /\ stream # NoStream /\ consumer.acks # << >>
  /\ consumer' = [consumer EXCEPT !.acks = Tail(@)]
  /\ LET ack == Head(consumer.acks)
         p == Result(stream, cm)
         waiting == ack = "state" /\ stream.state = "takeover-wait"
         dies == waiting /\ stream.takeoverState = "pending"
         q == IF ack = "marker" THEN [p EXCEPT !.s.wait = @ - 1]
              ELSE IF dies THEN transitionState([p EXCEPT !.s.takeoverState = "active"], "takeover-send")
              ELSE IF waiting THEN endStream(p)
              ELSE p
     IN  /\ stream' = q.s
         /\ cm' = q.m
         /\ vbState' = IF dies THEN "dead" ELSE vbState
         /\ lateWrite' \in IF dies /\ "state_lock" \notin Assumed THEN BOOLEAN ELSE {lateWrite}
  /\ UNCHANGED <<vbVars, stale, opened, persistedSeqno>>

\* closeStream, or the connection breaks and closeAllStreams is called.
CloseStream ==
  /\ stream # NoStream
  /\ cm' = endStream(Result(stream, cm)).m
  /\ stream' = NoStream
  /\ stale' = stale \union Remains(stream)
  /\ UNCHANGED <<vbState, vbVars, opened, persistedSeqno, lateWrite, consumer>>

Backfill ==
  /\ \E p \in BackfillSteps(Result(stream, cm)) : stream' = p.s /\ cm' = p.m
  /\ UNCHANGED <<vbState, vbVars, stale, opened, persistedSeqno, lateWrite, consumer>>

-----------------------------------------------------------------------------
(***************************************************************************)
(* The streams of earlier connections.  These are not asked for responses. *)
(***************************************************************************)
StaleBackfill(s) ==
  /\ \E p \in BackfillSteps(Result(s, cm)) :
       /\ stale' = (stale \ {s}) \union (IF p.s = NoStream THEN {} ELSE {p.s})
       /\ cm' = p.m
  /\ UNCHANGED <<vbState, vbVars, stream, opened, persistedSeqno, lateWrite, consumer>>

\* disconnect of an earlier connection: closeAllStreams
StaleClose(s) ==
  /\ s.state # "dead"
  /\ cm' = endStream(Result(s, cm)).m
  /\ stale' = (stale \ {s}) \union Remains(s)
  /\ UNCHANGED <<vbState, vbVars, stream, opened, persistedSeqno, lateWrite, consumer>>

StreamNext ==
  \/ \E k \in Keys : Write(k)
  \/ FlushVBucket
  \/ \E e \in BOOLEAN : FreeCheckpoints(e)
  \/ \E f \in Flags : StreamRequest(f)
  \/ SendNext \/ AckReceived \/ CloseStream \/ Backfill
  \/ \E s \in stale : StaleBackfill(s) \/ StaleClose(s)

StreamSpec == StreamInit /\ [][StreamNext]_allVars

-----------------------------------------------------------------------------
\* The streams and the consumer are well formed.
StreamTypeOK ==
  /\ \A s \in stale \union {stream} :
       /\ s.state \in {"backfilling", "in-memory", "takeover-send", "takeover-wait", "dead"}
       /\ s.task.phase \in {"none", "scheduled", "opened", "scanning"}
  /\ stream.state # "dead" =>
       /\ stream.lastRead \in 0 .. MaxSeqno /\ stream.lastSent \in 0 .. MaxSeqno
       /\ stream.wait \in Nat
  /\ persistedSeqno \in 0 .. cm.last
  /\ lateWrite \in BOOLEAN /\ opened \in 0 .. MaxEvents
  /\ consumer.has \in [Keys -> 0 .. MaxSeqno]
  /\ consumer.high \in 0 .. MaxSeqno

\* The consumer lacks nothing below the seqno it has reached: between the file and
\* the memory nothing is lost, whatever the flusher, the remover and the front-end
\* threads do between the steps of the backfill.
NoGap ==
  \A k \in Keys : latest[k] <= consumer.high => consumer.has[k] = latest[k]

\* Mutations arrive in the order of their seqnos and within the snapshot that was
\* announced for them, so the consumer never refuses one.
InOrder ==
  [][consumer'.has # consumer.has =>
       consumer'.high > consumer.high /\ consumer'.high \in consumer.start .. consumer.end]_allVars

\* When the consumer has been told to be active it has everything that was ever
\* acknowledged to a client of the old active vbucket.
TakeoverComplete == consumer.state = "active" => consumer.has = latest

\* A stream that is not dead has its cursor in the checkpoints.
CursorIsOwned == stream.state # "dead" => name \in CursorNames(cm)
=============================================================================
