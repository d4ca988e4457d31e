---------------------------- MODULE DcpConsumer ----------------------------
(***************************************************************************)
(* One vbucket of a DCP connection from end to end: the consumer           *)
(* (ep-engine/src/dcp-consumer.cc and PassiveStream of dcp-stream.cc), the *)
(* producer it talks to (dcp-producer.cc) and the cluster manager's proxy, *)
(* which opens and closes the stream (ns_server/src/dcp_consumer_conn.erl).*)
(* Messages are buffered by the connection's worker thread and applied by  *)
(* the Processer task; the bytes of every message have to find their way   *)
(* back to the producer, which stops sending when too many are             *)
(* unacknowledged.                                                         *)
(*                                                                         *)
(* What the worker does for one packet is one step, except that closing a  *)
(* stream and acknowledging bytes are two, between which the tasks run.    *)
(* itemsToProcess, which only makes the Processer run sooner, and the      *)
(* notifications of the connection are left out: the tasks and the worker  *)
(* run again by themselves.  A batch of the Processer is one message.      *)
(***************************************************************************)
EXTENDS Integers, Sequences, FiniteSetsExt

CONSTANTS
  BufferSize,     \* connection_buffer_size
  High,           \* the producer's high seqno, all of it to be replicated
  MaxOpaque       \* bound: how many streams are opened

ASSUME ConsumerAssumption == BufferSize \in Nat \ {0} /\ High \in Nat /\ MaxOpaque \in Nat

VARIABLES
  vb,             \* the consumer's vbucket: the producer's mutations it has, the
                  \* mutations of a history of its own, whether its failover log is
                  \* the producer's, and how far the two histories agree
  stream,         \* the PassiveStream
  opaqueCounter, opaqueMap,
  rollbacks,      \* the RollbackTasks that are scheduled
  worker,         \* what the worker is in the middle of, and the bytes it is about
  processed,      \* bytes the Processer has taken from the buffer and not yet freed
  freedBytes,
  toConsumer, toProducer,     \* what is under way, oldest first
  producer,       \* the ActiveStream: its opaque, 0 when there is none, whether it has
                  \* ended, the next seqno to send and the end of its snapshot
  bytes_sent,     \* unacknowledged bytes in the producer's BufferLog
  partitions,     \* the proxy has the vbucket in its list of streams
  waiting         \* what the proxy waits for before it answers setup_streams

consumerVars == <<vb, stream, opaqueCounter, opaqueMap, rollbacks, worker, processed, freedBytes>>
producerVars == <<producer, bytes_sent>>
wires == <<toConsumer, toProducer>>
proxyVars == <<partitions, waiting>>
vars == <<consumerVars, producerVars, wires, proxyVars>>

\* getMessageSize: what counts is that a mutation and the others differ.
Size(m) == IF m.op = "mutation" THEN 2 ELSE 1

Messages == {"marker", "mutation", "end"}

BytesOf(q) ==
  LET sum[i \in 0 .. Len(q)] ==
        IF i = 0 THEN 0
        ELSE sum[i - 1] + IF q[i].op \in Messages THEN Size(q[i]) ELSE 0
  IN  sum[Len(q)]

NoStream == [opaque |-> 0, state |-> "dead", buffer |-> << >>, last |-> 0, snapEnd |-> 0, readyQ |-> << >>]

getHighSeqno == Max(vb.theirs \union vb.own \union {0})

StreamRequest(opaque, start) == [op |-> "request", opaque |-> opaque, start |-> start, same |-> vb.adopted]

isActive == stream.state # "dead"

Init ==
  /\ \E common, own \in 0 .. High, adopted \in BOOLEAN :
       /\ adopted => own <= common
       /\ vb = [theirs |-> 1 .. common, own |-> common + 1 .. own, adopted |-> adopted, common |-> common]
  /\ stream = NoStream
  /\ opaqueCounter = 0 /\ opaqueMap = {} /\ rollbacks = {}
  /\ worker = [pc |-> "idle", bytes |-> 0]
  /\ processed = 0 /\ freedBytes = 0
  /\ toConsumer = << >> /\ toProducer = << >>
  /\ producer = [opaque |-> 0, dead |-> FALSE, next |-> 1, snapEnd |-> 0]
  /\ bytes_sent = 0
  /\ partitions = FALSE /\ waiting = {}

-----------------------------------------------------------------------------
(***************************************************************************)
(* The proxy.  It does one thing at a time: whoever calls it meanwhile is  *)
(* refused.                                                                *)
(***************************************************************************)
\* setup_streams with the vbucket in the list or not
setup_streams ==
  /\ waiting = {}
  /\ waiting' = IF partitions THEN {"close", "close_on_producer"} ELSE {"add"}
  /\ partitions \/ opaqueCounter < MaxOpaque         \* bound
  /\ UNCHANGED <<consumerVars, producerVars, wires, partitions>>

-----------------------------------------------------------------------------
(***************************************************************************)
(* The worker of the consumer's connection.                                *)
(***************************************************************************)
\* Mutation of addStream: the stream goes on after what the last one received.
addStreamMutant ==
  /\ worker.pc = "idle" /\ "add" \in waiting
  /\ IF isActive
       THEN waiting' = {} /\ UNCHANGED <<opaqueCounter, opaqueMap, stream>>
       ELSE LET opaque == opaqueCounter + 1
                start == Max({getHighSeqno, stream.last})
            IN  /\ opaqueCounter' = opaque
                /\ opaqueMap' = opaqueMap \union {opaque}
                /\ stream' = [NoStream EXCEPT !.opaque = opaque, !.state = "pending", !.last = start,
                                              !.readyQ = <<StreamRequest(opaque, start)>>]
                /\ waiting' = {"added"}
  /\ UNCHANGED <<vb, rollbacks, worker, processed, freedBytes, wires, producerVars, partitions>>

\* A new stream takes the place of one that is dead; otherwise the answer is an error.
addStream ==
  /\ worker.pc = "idle" /\ "add" \in waiting
  /\ IF isActive
       THEN waiting' = {} /\ UNCHANGED <<opaqueCounter, opaqueMap, stream>>
       ELSE LET opaque == opaqueCounter + 1
            IN  /\ opaqueCounter' = opaque
                /\ opaqueMap' = opaqueMap \union {opaque}
                /\ stream' = [NoStream EXCEPT !.opaque = opaque, !.state = "pending", !.last = getHighSeqno,
                                              !.readyQ = <<StreamRequest(opaque, getHighSeqno)>>]
                /\ waiting' = {"added"}
  /\ UNCHANGED <<vb, rollbacks, worker, processed, freedBytes, wires, producerVars, partitions>>

\* closeStream: the stream is dead first; then its buffer is cleared.
closeStream ==
  /\ worker.pc = "idle" /\ "close" \in waiting
  /\ stream' = [stream EXCEPT !.state = "dead"]
  /\ worker' = [worker EXCEPT !.pc = "clear"]
  /\ UNCHANGED <<vb, opaqueCounter, opaqueMap, rollbacks, processed, freedBytes, wires, producerVars, proxyVars>>

\* Mutation of clearBuffer: the bytes of the messages thrown away are not freed.
clearBufferMutant ==
  /\ worker.pc = "clear"
  /\ stream' = [stream EXCEPT !.buffer = << >>]
  /\ worker' = [worker EXCEPT !.pc = "idle"]
  /\ waiting' = waiting \ {"close"} /\ partitions' = FALSE
  /\ UNCHANGED <<vb, opaqueCounter, opaqueMap, rollbacks, processed, freedBytes, wires, producerVars>>

clearBuffer ==
  /\ worker.pc = "clear"
  /\ freedBytes' = freedBytes + BytesOf(stream.buffer)
  /\ stream' = [stream EXCEPT !.buffer = << >>]
  /\ worker' = [worker EXCEPT !.pc = "idle"]
  /\ waiting' = waiting \ {"close"} /\ partitions' = FALSE
  /\ UNCHANGED <<vb, opaqueCounter, opaqueMap, rollbacks, processed, wires, producerVars>>

\* mutation, snapshotMarker, streamEnd and messageReceived: what is not buffered is
\* freed at once.
Erroneous(m) ==
  CASE m.op = "mutation" -> m.seqno <= stream.last
    [] m.op = "marker" -> m.start < stream.last /\ m.end <= stream.last
    [] OTHER -> FALSE

messageReceived ==
  /\ worker.pc = "idle" /\ toConsumer # << >>
  /\ LET m == Head(toConsumer)
     IN  /\ m.op \in Messages
         /\ IF stream.opaque = m.opaque /\ isActive /\ ~Erroneous(m)
              THEN /\ stream' = [stream EXCEPT !.buffer = Append(@, m),
                                               !.last = IF m.op = "mutation" THEN m.seqno ELSE @]
                   /\ UNCHANGED freedBytes
              ELSE freedBytes' = freedBytes + Size(m) /\ UNCHANGED stream
  /\ toConsumer' = Tail(toConsumer)
  /\ UNCHANGED <<vb, opaqueCounter, opaqueMap, rollbacks, worker, processed, toProducer, producerVars, proxyVars>>

\* Mutation of handleResponse: the proxy is told of a success only.
handleResponseMutant ==
  /\ worker.pc = "idle" /\ toConsumer # << >>
  /\ LET r == Head(toConsumer)
         valid == r.opaque \in opaqueMap /\ r.opaque = stream.opaque
     IN  /\ r.op = "response"
         /\ rollbacks' = IF valid /\ r.status = "rollback" THEN rollbacks \union {r} ELSE rollbacks
         /\ opaqueMap' = IF valid /\ r.status # "rollback" THEN opaqueMap \ {r.opaque} ELSE opaqueMap
         /\ IF valid /\ r.status # "rollback" /\ stream.state = "pending"
              THEN /\ vb' = [vb EXCEPT !.adopted = @ \/ r.status = "success"]
                   /\ stream' = [stream EXCEPT !.state = IF r.status = "success" THEN "reading" ELSE "dead",
                                               !.readyQ = IF r.status = "success" THEN Append(@, [op |-> "added", status |-> r.status]) ELSE @]
              ELSE UNCHANGED <<vb, stream>>
  /\ toConsumer' = Tail(toConsumer)
  /\ UNCHANGED <<opaqueCounter, worker, processed, freedBytes, toProducer, producerVars, proxyVars>>

\* handleResponse, streamAccepted and acceptStream
handleResponse ==
  /\ worker.pc = "idle" /\ toConsumer # << >>
  /\ LET r == Head(toConsumer)
         valid == r.opaque \in opaqueMap /\ r.opaque = stream.opaque
     IN  /\ r.op = "response"
         /\ rollbacks' = IF valid /\ r.status = "rollback" THEN rollbacks \union {r} ELSE rollbacks
         /\ opaqueMap' = IF valid /\ r.status # "rollback" THEN opaqueMap \ {r.opaque} ELSE opaqueMap
         /\ IF valid /\ r.status # "rollback" /\ stream.state = "pending"
              THEN /\ vb' = [vb EXCEPT !.adopted = @ \/ r.status = "success"]
                   /\ stream' = [stream EXCEPT !.state = IF r.status = "success" THEN "reading" ELSE "dead",
                                               !.readyQ = Append(@, [op |-> "added", status |-> r.status])]
              ELSE UNCHANGED <<vb, stream>>
  /\ toConsumer' = Tail(toConsumer)
  /\ UNCHANGED <<opaqueCounter, worker, processed, freedBytes, toProducer, producerVars, proxyVars>>

\* step: handleFlowCtl, which acknowledges when a fifth of the buffer is drained and
\* at least every five seconds,
isBufferSufficientlyDrained(bytes) == bytes * 5 > BufferSize

\* Mutation of handleFlowCtl: bytes are acknowledged once the buffer is overdrawn.
handleFlowCtlMutant ==
  /\ worker.pc = "idle" /\ freedBytes > BufferSize
  /\ worker' = [pc |-> "ack", bytes |-> freedBytes]
  /\ UNCHANGED <<vb, stream, opaqueCounter, opaqueMap, rollbacks, processed, freedBytes, wires, producerVars, proxyVars>>

handleFlowCtl ==
  /\ worker.pc = "idle" /\ (isBufferSufficientlyDrained(freedBytes) \/ freedBytes > 0)
  /\ worker' = [pc |-> "ack", bytes |-> freedBytes]
  /\ UNCHANGED <<vb, stream, opaqueCounter, opaqueMap, rollbacks, processed, freedBytes, wires, producerVars, proxyVars>>

\* ... with what was freed when it looked,
sendAck ==
  /\ worker.pc = "ack"
  /\ toProducer' = Append(toProducer, [op |-> "ack", bytes |-> worker.bytes])
  /\ freedBytes' = freedBytes - worker.bytes
  /\ worker' = [pc |-> "idle", bytes |-> 0]
  /\ UNCHANGED <<vb, stream, opaqueCounter, opaqueMap, rollbacks, processed, toConsumer, producerVars, proxyVars>>

\* ... and getNextItem: the answer to addStream is for the proxy.
getNextItem ==
  /\ worker.pc = "idle" /\ stream.readyQ # << >>
  /\ LET r == Head(stream.readyQ)
     IN  IF r.op = "request"
           THEN toProducer' = Append(toProducer, r) /\ UNCHANGED proxyVars
           ELSE /\ waiting' = waiting \ {"added"}
                /\ partitions' = (r.status = "success")
                /\ UNCHANGED toProducer
  /\ stream' = [stream EXCEPT !.readyQ = Tail(@)]
  /\ UNCHANGED <<vb, opaqueCounter, opaqueMap, rollbacks, worker, processed, freedBytes, toConsumer, producerVars>>

-----------------------------------------------------------------------------
(***************************************************************************)
(* The tasks of the consumer.                                              *)
(***************************************************************************)
\* Mutation of processBufferedMessages: the end of the stream is not acted on.
processBufferedMessagesMutant ==
  /\ processed = 0 /\ stream.buffer # << >>
  /\ LET m == Head(stream.buffer)
         beyond == m.op = "mutation" /\ m.seqno > stream.snapEnd
     IN  /\ stream' = [stream EXCEPT !.buffer = Tail(@),
                                     !.snapEnd = IF m.op = "marker" THEN m.end ELSE @]
         /\ vb' = IF m.op = "mutation" /\ ~beyond THEN [vb EXCEPT !.theirs = @ \union {m.seqno}] ELSE vb
         /\ processed' = IF beyond THEN 0 ELSE Size(m)
  /\ UNCHANGED <<opaqueCounter, opaqueMap, rollbacks, worker, freedBytes, wires, producerVars, proxyVars>>

\* processBufferedMessages.  A message that fails for now stays and is tried again;
\* one beyond the snapshot is dropped, and its bytes are not freed.
processBufferedMessages ==
  /\ processed = 0 /\ stream.buffer # << >>
  /\ LET m == Head(stream.buffer)
         beyond == m.op = "mutation" /\ m.seqno > stream.snapEnd
     IN  /\ stream' = [stream EXCEPT !.buffer = Tail(@),
                                     !.snapEnd = IF m.op = "marker" THEN m.end ELSE @,
                                     !.state = IF m.op = "end" THEN "dead" ELSE @]
         /\ vb' = IF m.op = "mutation" /\ ~beyond THEN [vb EXCEPT !.theirs = @ \union {m.seqno}] ELSE vb
         /\ processed' = IF beyond THEN 0 ELSE Size(m)
  /\ UNCHANGED <<opaqueCounter, opaqueMap, rollbacks, worker, freedBytes, wires, producerVars, proxyVars>>

\* processBufferedItems, after each batch
freeProcessed ==
  /\ processed > 0
  /\ freedBytes' = freedBytes + processed
  /\ processed' = 0
  /\ UNCHANGED <<vb, stream, opaqueCounter, opaqueMap, rollbacks, worker, wires, producerVars, proxyVars>>

\* RollbackTask: doRollback, which may have to go back further than was asked, and
\* reconnectStream, on whatever stream there is now.
doRollback(r, to) ==
  LET Kept(s) == {x \in s : x <= to}
      high == Max(Kept(vb.theirs) \union Kept(vb.own) \union {0})
  IN  /\ to <= r.seqno
      /\ vb' = [vb EXCEPT !.theirs = Kept(@), !.own = Kept(@)]
      /\ stream' = [stream EXCEPT !.last = high, !.readyQ = Append(@, StreamRequest(r.opaque, high))]
      /\ rollbacks' = rollbacks \ {r}
      /\ UNCHANGED <<opaqueCounter, opaqueMap, worker, processed, freedBytes, wires, producerVars, proxyVars>>

-----------------------------------------------------------------------------
(***************************************************************************)
(* The producer.                                                           *)
(***************************************************************************)
\* streamRequest: an error, a demand for a rollback to where the histories agree, or
\* a stream, also in place of one that has ended.
Answers(r) ==
  IF producer.opaque # 0 /\ ~producer.dead THEN {"error"}
  ELSE {"error", IF ~r.same /\ r.start > vb.common THEN "rollback" ELSE "success"}

streamRequest ==
  /\ toProducer # << >>
  /\ LET r == Head(toProducer)
     IN  /\ r.op = "request"
         /\ \E status \in Answers(r) :
              /\ toConsumer' = Append(toConsumer, [op |-> "response", opaque |-> r.opaque,
                                                   status |-> status, seqno |-> vb.common])
              /\ producer' = IF status = "success"
                               THEN [opaque |-> r.opaque, dead |-> FALSE, next |-> r.start + 1, snapEnd |-> r.start]
                               ELSE producer
  /\ toProducer' = Tail(toProducer)
  /\ UNCHANGED <<consumerVars, bytes_sent, proxyVars>>

bufferAcknowledgement ==
  /\ toProducer # << >>
  /\ Head(toProducer).op = "ack"
  /\ bytes_sent' = LET n == Head(toProducer).bytes IN IF bytes_sent >= n THEN bytes_sent - n ELSE 0
  /\ toProducer' = Tail(toProducer)
  /\ UNCHANGED <<consumerVars, toConsumer, producer, proxyVars>>

\* Mutation of isFull: one message more.
isFullMutant == BufferSize < bytes_sent

isFull == BufferSize <= bytes_sent

\* getNextItem and step
Send(m) ==
  /\ producer.opaque # 0 /\ ~isFull
  /\ toConsumer' = Append(toConsumer, m)
  /\ bytes_sent' = bytes_sent + Size(m)
  /\ UNCHANGED <<consumerVars, toProducer, proxyVars>>

\* The next message of the stream.  One that has ended sends what it has queued, then
\* the end.
SendNext ==
  LET p == producer
  IN  \/ /\ p.next > p.snapEnd /\ p.next <= High
         /\ Send([op |-> "marker", opaque |-> p.opaque, start |-> p.next, end |-> High])
         /\ producer' = [p EXCEPT !.snapEnd = High]
      \/ /\ p.next <= p.snapEnd
         /\ Send([op |-> "mutation", opaque |-> p.opaque, seqno |-> p.next])
         /\ producer' = [p EXCEPT !.next = @ + 1]

SendEnd ==
  /\ producer.dead
  /\ Send([op |-> "end", opaque |-> producer.opaque])
  /\ producer' = [producer EXCEPT !.opaque = 0]

\* setDead: the vbucket leaves the producer.
setDead ==
  /\ producer.opaque # 0 /\ ~producer.dead
  /\ producer' = [producer EXCEPT !.dead = TRUE]
  /\ UNCHANGED <<consumerVars, wires, bytes_sent, proxyVars>>

\* DcpProducer::closeStream: what the stream has queued, its end included, goes with it.
producerCloseStream ==
  /\ "close_on_producer" \in waiting
  /\ producer' = [producer EXCEPT !.opaque = 0]
  /\ waiting' = waiting \ {"close_on_producer"} /\ partitions' = FALSE
  /\ UNCHANGED <<consumerVars, wires, bytes_sent>>

-----------------------------------------------------------------------------
Worker ==
  \/ addStream \/ closeStream \/ clearBuffer \/ messageReceived \/ handleResponse
  \/ handleFlowCtl \/ sendAck \/ getNextItem
Processer == processBufferedMessages \/ freeProcessed
Producer == streamRequest \/ bufferAcknowledgement \/ SendNext \/ SendEnd \/ producerCloseStream

Next ==
  \/ setup_streams
  \/ Worker \/ Processer
  \/ \E r \in rollbacks, to \in 0 .. High : doRollback(r, to)
  \/ Producer \/ setDead

\* Each end reads its socket, the worker is woken for what is ready or to be
\* acknowledged, the tasks run again by themselves, and there is memory for a message
\* in the end.
Fairness ==
  /\ WF_vars(messageReceived \/ handleResponse) /\ WF_vars(addStream) /\ WF_vars(closeStream)
  /\ WF_vars(clearBuffer) /\ WF_vars(handleFlowCtl) /\ WF_vars(sendAck) /\ WF_vars(getNextItem)
  /\ WF_vars(processBufferedMessages) /\ WF_vars(freeProcessed)
  /\ WF_vars(\E r \in rollbacks, to \in 0 .. High : doRollback(r, to))
  /\ WF_vars(streamRequest \/ bufferAcknowledgement) /\ WF_vars(producerCloseStream)
  /\ WF_vars(SendNext \/ SendEnd)

Spec == Init /\ [][Next]_vars /\ Fairness

-----------------------------------------------------------------------------
\* The state of both ends is well formed, and the producer overruns the buffer by
\* less than a message.
TypeOK ==
  /\ vb.theirs \subseteq 1 .. High /\ vb.own \subseteq 1 .. High
  /\ stream.state \in {"pending", "reading", "dead"}
  /\ stream.opaque \in 0 .. MaxOpaque /\ opaqueMap \subseteq 1 .. MaxOpaque
  /\ worker.pc \in {"idle", "clear", "ack"}
  /\ freedBytes \in Nat /\ processed \in Nat
  /\ producer.opaque \in 0 .. MaxOpaque
  /\ bytes_sent \in 0 .. BufferSize + 1
  /\ partitions \in BOOLEAN
  /\ waiting \subseteq {"add", "added", "close", "close_on_producer"}

\* Flow control loses no bytes and invents none: what the producer holds to be
\* unacknowledged is under way, buffered, being processed, freed, or acknowledged by
\* a message on its way back, however streams end, are closed and are replaced.
ByteConservation ==
  LET acks == SelectSeq(toProducer, LAMBDA m : m.op = "ack")
      acked[i \in 0 .. Len(acks)] == IF i = 0 THEN 0 ELSE acked[i - 1] + acks[i].bytes
  IN  bytes_sent = BytesOf(toConsumer) + BytesOf(stream.buffer) + processed + freedBytes + acked[Len(acks)]

\* A vbucket with the producer's failover log has the producer's mutations up to its
\* high seqno, all of them and nothing else: over rollbacks and streams that are
\* closed and opened again, nothing is skipped and nothing of its own history is left.
NoGap == vb.adopted => vb.own = {} /\ vb.theirs = 1 .. getHighSeqno

\* The consumer does not read a stream that the producer does not have, unless the end
\* of it is still to be processed or it is about to be closed.
StreamsAgree ==
  stream.state = "reading" =>
    \/ producer.opaque = stream.opaque
    \/ "close" \in waiting
    \/ \E q \in {toConsumer, stream.buffer} : \E i \in DOMAIN q :
         q[i].op = "end" /\ q[i].opaque = stream.opaque

\* Whoever asks the proxy to open or close a stream gets an answer.
CallAnswered == waiting # {} ~> waiting = {}

\* A stream that stays open catches up: flow control does not bring it to a halt.
CatchUp == <>[](stream.state = "reading") => <>(vb.theirs = 1 .. High)
=============================================================================
