--------------------------- MODULE DcpReplicator ---------------------------
(***************************************************************************)
(* The cluster manager's replicator between two nodes: it opens, closes    *)
(* and takes over vbucket streams through a pair of proxies that pass the  *)
(* DCP traffic between the consumer and the producer and pick their own    *)
(* answers out of it (ns_server/src/dcp_replicator.erl,                    *)
(* dcp_consumer_conn.erl, dcp_producer_conn.erl, dcp_proxy.erl), together  *)
(* with the streams of the two engines (ep-engine/src/dcp-consumer.cc,     *)
(* dcp-producer.cc, dcp-stream.cc).                                        *)
(*                                                                         *)
(* Mutations and flow control are left out, see DcpConsumer, and so are    *)
(* the phases of a stream before it sends a vbucket state, see             *)
(* ActiveStream.  A message of a stream is applied when it is received:    *)
(* while it is buffered it might as well be under way.  What the producer  *)
(* conn passes on reaches the consumer in one step.                        *)
(***************************************************************************)
EXTENDS Integers, SequencesExt

CONSTANTS
  Partitions,     \* the vbuckets, numbers: they are the opaques of the proxy's commands
  MaxCalls,       \* bound: how many calls the replicator is asked to make
  Assumed         \* the conditions that are taken for granted

Conditions == {
  "stays_active"}   \* the producer's vbucket does not change state while it is taken over

ASSUME ReplicatorAssumption ==
  Partitions \subseteq Nat /\ MaxCalls \in Nat /\ Assumed \subseteq Conditions

VARIABLES
  calls,          \* the number of calls made
  takeover_next,  \* the vbucket that is taken over once maybe_close_stream has returned, or 0
  conn,           \* the state of dcp_consumer_conn,
  partitions,     \* ... and its list of vbuckets that have a stream
  casts,          \* what dcp_producer_conn has cast to it, oldest first
  producer_casts, \* ... and what it has cast to dcp_producer_conn
  cIn, cOut,      \* the consumer's socket, in and out, oldest first
  pIn,            \* the producer's socket, in
  streams,        \* streams[p]: the PassiveStream of p
  opaqueCounter,
  opaqueMap,      \* the pairs of an opaque and the vbucket it was made for
  vb,             \* vb[p]: state of p at the consumer
  active,         \* active[p]: the ActiveStream of p
  pvb,            \* pvb[p]: state of p at the producer
  left            \* the vbuckets that have changed state at the producer, by order from outside

connVars == <<calls, takeover_next, conn, partitions>>
wires == <<casts, producer_casts, cIn, cOut, pIn>>
consumerVars == <<streams, opaqueCounter, opaqueMap, vb>>
producerVars == <<active, pvb, left>>
vars == <<connVars, wires, consumerVars, producerVars>>

Idle == [state |-> "idle"]
Shut == [state |-> "shut"]

StreamState(toAdd, toClose, toCloseOnProducer, next) ==
  [state |-> "streams", to_add |-> toAdd, to_close |-> toClose,
   to_close_on_producer |-> toCloseOnProducer, next |-> next]

NoStream == [opaque |-> 0, state |-> "dead", takeover |-> FALSE, rolled |-> FALSE, readyQ |-> << >>]
NoActive == [opaque |-> 0, state |-> "dead", takeover |-> FALSE, sends |-> "pending", end |-> FALSE]

Init ==
  /\ calls = 0 /\ takeover_next = 0
  /\ conn = Idle /\ partitions = {}
  /\ casts = << >> /\ producer_casts = {}
  /\ cIn = << >> /\ cOut = << >> /\ pIn = << >>
  /\ streams = [p \in Partitions |-> NoStream]
  /\ opaqueCounter = 0 /\ opaqueMap = {}
  /\ vb = [p \in Partitions |-> "replica"]
  /\ active = [p \in Partitions |-> NoActive]
  /\ pvb = [p \in Partitions |-> "active"]
  /\ left = {}

-----------------------------------------------------------------------------
(***************************************************************************)
(* Calls of the replicator, which makes one at a time.                     *)
(***************************************************************************)
\* A sequence of one command for each vbucket of a set.
Commands(op, ps) ==
  LET list == SetToSeq(ps)
  IN  [i \in DOMAIN list |-> [op |-> op, part |-> list[i], takeover |-> FALSE]]

\* handle_call({setup_streams, ...}): a stream is closed at both ends.
SetupStreams(ps) ==
  LET start == ps \ partitions
      stop == partitions \ ps
  IN  IF start \union stop = {} THEN UNCHANGED <<conn, cIn, producer_casts>>
      ELSE /\ conn' = StreamState(start, stop, stop, Idle)
           /\ cIn' = cIn \o Commands("add", start) \o Commands("close", stop)
           /\ producer_casts' = producer_casts \union stop

Called ==
  /\ conn = Idle /\ takeover_next = 0
  /\ calls < MaxCalls
  /\ calls' = calls + 1

setup_replication(ps) ==
  /\ Called
  /\ SetupStreams(ps)
  /\ UNCHANGED <<takeover_next, partitions, casts, cOut, pIn, consumerVars, producerVars>>

\* takeover: maybe_close_stream,
takeover(p) ==
  /\ Called
  /\ SetupStreams(partitions \ {p})
  /\ takeover_next' = p
  /\ UNCHANGED <<partitions, casts, cOut, pIn, consumerVars, producerVars>>

\* ... and when that has returned, the takeover itself.
handle_call_takeover ==
  /\ conn = Idle /\ takeover_next # 0
  /\ takeover_next' = 0
  /\ IF takeover_next \in partitions THEN UNCHANGED <<conn, cIn>>      \* refused
     ELSE /\ conn' = [state |-> "takeover", part |-> takeover_next, phase |-> "requested",
                      opaque |-> takeover_next, requested |-> "none", open_ack |-> FALSE]
          /\ cIn' = Append(cIn, [op |-> "add", part |-> takeover_next, takeover |-> TRUE])
  /\ UNCHANGED <<calls, partitions, casts, producer_casts, cOut, pIn, consumerVars, producerVars>>

\* Mutation of shut_connection: the answers of the consumer are not awaited.
shut_connectionMutant ==
  /\ Called
  /\ conn' = Shut
  /\ cIn' = cIn \o Commands("close", partitions)
  /\ UNCHANGED <<takeover_next, partitions, casts, producer_casts, cOut, pIn, consumerVars, producerVars>>

\* terminate: the consumer's streams are closed, the producer's are not waited for.
shut_connection ==
  /\ Called
  /\ conn' = IF partitions = {} THEN Shut ELSE StreamState({}, partitions, {}, Shut)
  /\ cIn' = cIn \o Commands("close", partitions)
  /\ UNCHANGED <<takeover_next, partitions, casts, producer_casts, cOut, pIn, consumerVars, producerVars>>

-----------------------------------------------------------------------------
(***************************************************************************)
(* dcp_consumer_conn: what comes from the consumer and what is cast.       *)
(***************************************************************************)
\* Mutation of maybe_reply_setup_streams: the producer's answers to close are not awaited.
maybe_reply_setup_streamsMutant(c) ==
  IF c.to_add \union c.to_close = {} THEN c.next ELSE c

maybe_reply_setup_streams(c) ==
  IF c.to_add \union c.to_close \union c.to_close_on_producer = {} THEN c.next ELSE c

maybe_reply_takeover(c) == IF c.open_ack /\ c.phase = "active" THEN Idle ELSE c

proxy == pIn' = Append(pIn, Head(cOut))
block == UNCHANGED pIn

\* Mutation of add_stream_response: the vbucket goes on the list whatever the answer.
add_stream_responseMutant(m) ==
  /\ block
  /\ IF conn.state = "streams"
       THEN /\ conn' = maybe_reply_setup_streams([conn EXCEPT !.to_add = @ \ {m.part}])
            /\ partitions' = partitions \union {m.part}
       ELSE /\ conn' = IF m.status = "success" THEN maybe_reply_takeover([conn EXCEPT !.open_ack = TRUE]) ELSE Idle
            /\ UNCHANGED partitions

add_stream_response(m) ==
  /\ block
  /\ IF conn.state = "streams"
       THEN /\ conn' = maybe_reply_setup_streams([conn EXCEPT !.to_add = @ \ {m.part}])
            /\ partitions' = IF m.status = "success" THEN partitions \union {m.part} ELSE partitions
       ELSE /\ conn' = IF m.status = "success" THEN maybe_reply_takeover([conn EXCEPT !.open_ack = TRUE]) ELSE Idle
            /\ UNCHANGED partitions

\* An answer that the stream does not exist is as good as success.
close_stream_response(m) ==
  /\ block
  /\ conn' = maybe_reply_setup_streams([conn EXCEPT !.to_close = @ \ {m.part}])
  /\ partitions' = partitions \ {m.part}

\* Mutation of stream_request: the opaque of the stream is not kept.
stream_requestMutant(m) ==
  /\ proxy
  /\ conn' = IF conn.state = "takeover" /\ conn.phase = "requested"
               THEN [conn EXCEPT !.phase = "opaque_known"] ELSE conn
  /\ UNCHANGED partitions

stream_request(m) ==
  /\ proxy
  /\ conn' = IF conn.state = "takeover" /\ conn.phase = "requested"
               THEN [conn EXCEPT !.phase = "opaque_known", !.opaque = m.opaque] ELSE conn
  /\ UNCHANGED partitions

\* Mutation of set_vbucket_state_response: any state the consumer confirms will do.
set_vbucket_state_responseMutant(m) ==
  /\ proxy
  /\ conn' = IF conn.state = "takeover" /\ conn.phase = "opaque_known" /\ conn.opaque = m.opaque
               THEN maybe_reply_takeover([conn EXCEPT !.phase = "active"])
               ELSE conn
  /\ UNCHANGED partitions

set_vbucket_state_response(m) ==
  /\ proxy
  /\ conn' = IF conn.state = "takeover" /\ conn.phase = "opaque_known" /\ conn.opaque = m.opaque
               THEN IF conn.requested = "active"
                      THEN maybe_reply_takeover([conn EXCEPT !.phase = "active"])
                      ELSE [conn EXCEPT !.requested = "none"]
               ELSE conn
  /\ UNCHANGED partitions

\* handle_packet.  A vbucket state was announced by a cast before the packet that the
\* consumer responds to was passed on, so the cast is in the mailbox already.
Announced == \A i \in DOMAIN casts : casts[i].op # "set_vbucket_state"

Owned(m) ==
  CASE m.op = "add_response" -> conn.state = "streams" \/ (conn.state = "takeover" /\ ~conn.open_ack)
    [] m.op = "close_response" -> conn.state = "streams"
    [] OTHER -> FALSE

handle_packet ==
  /\ cOut # << >>
  /\ cOut' = Tail(cOut)
  /\ LET m == Head(cOut)
     IN  CASE conn = Shut -> block /\ UNCHANGED <<conn, partitions>>
           [] m.op = "add_response" /\ Owned(m) -> add_stream_response(m)
           [] m.op = "close_response" /\ Owned(m) -> close_stream_response(m)
           [] m.op = "request" -> stream_request(m)
           [] m.op = "set_vb_response" -> Announced /\ set_vbucket_state_response(m)
           [] OTHER -> proxy /\ UNCHANGED <<conn, partitions>>
  /\ UNCHANGED <<calls, takeover_next, casts, producer_casts, cIn, consumerVars, producerVars>>

\* handle_cast
handle_cast ==
  /\ casts # << >>
  /\ casts' = Tail(casts)
  /\ LET m == Head(casts)
     IN  CASE m.op = "producer_stream_closed" /\ conn.state = "streams" ->
                /\ conn' = maybe_reply_setup_streams([conn EXCEPT !.to_close_on_producer = @ \ {m.part}])
                /\ partitions' = partitions \ {m.part}
           [] m.op = "set_vbucket_state" /\ conn.state = "takeover" /\ conn.phase = "opaque_known"
                /\ conn.requested = "none" /\ conn.opaque = m.opaque ->
                conn' = [conn EXCEPT !.requested = m.to] /\ UNCHANGED partitions
           [] OTHER -> UNCHANGED <<conn, partitions>>       \* unhandled
  /\ UNCHANGED <<calls, takeover_next, producer_casts, cIn, cOut, pIn, consumerVars, producerVars>>

\* dcp_producer_conn: handle_cast({close_stream, ...})
producer_handle_cast(p) ==
  /\ p \in producer_casts
  /\ producer_casts' = producer_casts \ {p}
  /\ pIn' = Append(pIn, [op |-> "close", part |-> p])
  /\ UNCHANGED <<connVars, casts, cIn, cOut, consumerVars, producerVars>>

-----------------------------------------------------------------------------
(***************************************************************************)
(* The consumer's engine.                                                  *)
(***************************************************************************)
Response(op, p, status) == [op |-> op, part |-> p, status |-> status]
Request(p, s) == [op |-> "request", part |-> p, opaque |-> s.opaque, takeover |-> s.takeover, rolled |-> s.rolled]

\* Mutation of addStream: the opaque of the last stream is used again.
addStreamMutant(m) ==
  LET p == m.part
      opaque == IF opaqueCounter = 0 THEN 1 ELSE opaqueCounter
      new == [NoStream EXCEPT !.opaque = opaque, !.state = "pending", !.takeover = m.takeover]
  IN  IF vb[p] = "active" \/ streams[p].state # "dead"
        THEN /\ cOut' = Append(cOut, Response("add_response", p, "error"))
             /\ UNCHANGED consumerVars
        ELSE /\ opaqueCounter' = opaque
             /\ opaqueMap' = opaqueMap \union {<<opaque, p>>}
             /\ streams' = [streams EXCEPT ![p] = [new EXCEPT !.readyQ = <<Request(p, new)>>]]
             /\ UNCHANGED <<vb, cOut>>

addStream(m) ==
  LET p == m.part
      opaque == opaqueCounter + 1
      new == [NoStream EXCEPT !.opaque = opaque, !.state = "pending", !.takeover = m.takeover]
  IN  IF vb[p] = "active" \/ streams[p].state # "dead"
        THEN /\ cOut' = Append(cOut, Response("add_response", p, "error"))
             /\ UNCHANGED consumerVars
        ELSE /\ opaqueCounter' = opaque
             /\ opaqueMap' = opaqueMap \union {<<opaque, p>>}
             /\ streams' = [streams EXCEPT ![p] = [new EXCEPT !.readyQ = <<Request(p, new)>>]]
             /\ UNCHANGED <<vb, cOut>>

\* closeStream forgets the opaque of the command, which the proxy has made the number
\* of the vbucket.
closeStream(m) ==
  LET p == m.part
  IN  /\ opaqueMap' = {e \in opaqueMap : e[1] # p}
      /\ streams' = [streams EXCEPT ![p].state = "dead"]
      /\ cOut' = Append(cOut, Response("close_response", p, IF streams[p].opaque = 0 THEN "enoent" ELSE "success"))
      /\ UNCHANGED <<opaqueCounter, vb>>

\* handleResponse and streamAccepted; after a rollback the request is made again.
handleResponse(m) ==
  LET valid == {e \in opaqueMap : e[1] = m.opaque /\ streams[e[2]].opaque = m.opaque}
  IN  /\ IF valid = {} THEN UNCHANGED <<opaqueMap, streams>>
         ELSE LET p == (CHOOSE e \in valid : TRUE)[2]
                  s == [streams[p] EXCEPT !.rolled = TRUE]
              IN  IF m.status = "rollback"
                    THEN /\ streams' = [streams EXCEPT ![p] = [s EXCEPT !.readyQ = Append(@, Request(p, s))]]
                         /\ UNCHANGED opaqueMap
                    ELSE /\ streams' = IF streams[p].state # "pending" THEN streams
                                       ELSE [streams EXCEPT
                                              ![p].state = IF m.status = "success" THEN "reading" ELSE "dead",
                                              ![p].readyQ = Append(@, Response("add_response", p, m.status))]
                         /\ opaqueMap' = opaqueMap \ valid
      /\ UNCHANGED <<opaqueCounter, vb, cOut>>

\* The stream a message of the producer is for takes it, unless it is dead.
Takes(m) == streams[m.part].opaque = m.opaque /\ streams[m.part].state # "dead"

\* processSetVBucketState
processSetVBucketState(m) ==
  /\ IF Takes(m)
       THEN /\ vb' = [vb EXCEPT ![m.part] = m.to]
            /\ streams' = [streams EXCEPT ![m.part].readyQ = Append(@, [op |-> "set_vb_response", opaque |-> m.opaque])]
       ELSE UNCHANGED <<vb, streams>>
  /\ UNCHANGED <<opaqueCounter, opaqueMap, cOut>>

streamEnd(m) ==
  /\ streams' = IF Takes(m) THEN [streams EXCEPT ![m.part].state = "dead"] ELSE streams
  /\ UNCHANGED <<opaqueCounter, opaqueMap, vb, cOut>>

ConsumerReceive ==
  /\ cIn # << >>
  /\ cIn' = Tail(cIn)
  /\ LET m == Head(cIn)
     IN  \/ m.op = "add" /\ addStream(m)
         \/ m.op = "close" /\ closeStream(m)
         \/ m.op = "response" /\ handleResponse(m)
         \/ m.op = "set_vb" /\ processSetVBucketState(m)
         \/ m.op = "end" /\ streamEnd(m)
  /\ UNCHANGED <<connVars, casts, producer_casts, pIn, producerVars>>

\* getNextItem
ConsumerSend(p) ==
  /\ streams[p].readyQ # << >>
  /\ cOut' = Append(cOut, Head(streams[p].readyQ))
  /\ streams' = [streams EXCEPT ![p].readyQ = Tail(@)]
  /\ UNCHANGED <<connVars, casts, producer_casts, cIn, pIn, opaqueCounter, opaqueMap, vb, producerVars>>

-----------------------------------------------------------------------------
(***************************************************************************)
(* The producer's engine, and dcp_producer_conn for what it sends.         *)
(***************************************************************************)
streamRequest(m) ==
  \E status \in IF active[m.part].state # "dead" THEN {"error"}
                ELSE {"error", "success"} \union IF m.rolled THEN {} ELSE {"rollback"} :
    /\ cIn' = Append(cIn, [op |-> "response", opaque |-> m.opaque, status |-> status])
    /\ active' = IF status = "success"
                   THEN [active EXCEPT ![m.part] = [NoActive EXCEPT !.opaque = m.opaque, !.state = "send",
                                                                    !.takeover = m.takeover]]
                   ELSE active
    /\ UNCHANGED <<pvb, casts>>

producerCloseStream(m) ==
  /\ casts' = Append(casts, [op |-> "producer_stream_closed", part |-> m.part])
  /\ active' = [active EXCEPT ![m.part] = NoActive]
  /\ UNCHANGED <<pvb, cIn>>

\* Mutation of setVBucketStateAckRecieved: the producer's vbucket stays active.
setVBucketStateAckRecievedMutant(m) ==
  LET acked == {p \in Partitions : active[p].opaque = m.opaque /\ active[p].state = "wait"}
      pending == {p \in acked : active[p].sends = "pending"}
  IN  /\ active' = [p \in Partitions |->
                     IF p \in pending THEN [active[p] EXCEPT !.state = "send", !.sends = "active"]
                     ELSE IF p \in acked THEN [active[p] EXCEPT !.state = "dead", !.end = TRUE]
                     ELSE active[p]]
      /\ UNCHANGED <<pvb, casts, cIn>>

\* When the consumer's vbucket is pending the producer's is dead, without its streams
\* being told; when it is active the stream ends.
setVBucketStateAckRecieved(m) ==
  LET acked == {p \in Partitions : active[p].opaque = m.opaque /\ active[p].state = "wait"}
      pending == {p \in acked : active[p].sends = "pending"}
  IN  /\ active' = [p \in Partitions |->
                     IF p \in pending THEN [active[p] EXCEPT !.state = "send", !.sends = "active"]
                     ELSE IF p \in acked THEN [active[p] EXCEPT !.state = "dead", !.end = TRUE]
                     ELSE active[p]]
      /\ pvb' = [p \in Partitions |-> IF p \in pending THEN "dead" ELSE pvb[p]]
      /\ UNCHANGED <<casts, cIn>>

ProducerReceive ==
  /\ pIn # << >>
  /\ pIn' = Tail(pIn)
  /\ LET m == Head(pIn)
     IN  \/ m.op = "request" /\ streamRequest(m)
         \/ m.op = "close" /\ producerCloseStream(m)
         \/ m.op = "set_vb_response" /\ setVBucketStateAckRecieved(m)
  /\ UNCHANGED <<connVars, producer_casts, cOut, consumerVars, left>>

\* takeoverSendPhase, when everything else has been sent
takeoverSendPhase(p) ==
  LET a == active[p]
  IN  /\ a.takeover /\ a.state = "send"
      /\ casts' = Append(casts, [op |-> "set_vbucket_state", opaque |-> a.opaque, to |-> a.sends])
      /\ cIn' = Append(cIn, [op |-> "set_vb", part |-> p, opaque |-> a.opaque, to |-> a.sends])
      /\ active' = [active EXCEPT ![p].state = "wait"]
      /\ UNCHANGED <<connVars, producer_casts, cOut, pIn, consumerVars, pvb, left>>

SendEnd(p) ==
  /\ active[p].end
  /\ cIn' = Append(cIn, [op |-> "end", part |-> p, opaque |-> active[p].opaque])
  /\ active' = [active EXCEPT ![p] = NoActive]
  /\ UNCHANGED <<connVars, casts, producer_casts, cOut, pIn, consumerVars, pvb, left>>

\* setVBucketState by order from outside: the streams of the vbucket end.
TakenOver(p) == takeover_next = p \/ (conn.state = "takeover" /\ conn.part = p)

setVBucketState(p) ==
  /\ p \notin left /\ pvb[p] = "active"                \* bound: once
  /\ "stays_active" \in Assumed => ~TakenOver(p)
  /\ left' = left \union {p}
  /\ pvb' = [pvb EXCEPT ![p] = "replica"]
  /\ active' = IF active[p].state = "dead" THEN active
               ELSE [active EXCEPT ![p].state = "dead", ![p].end = TRUE]
  /\ UNCHANGED <<connVars, wires, consumerVars>>

-----------------------------------------------------------------------------
Conn == handle_packet \/ handle_cast \/ handle_call_takeover

Next ==
  \/ \E ps \in SUBSET Partitions \ {{}} : setup_replication(ps)
  \/ \E p \in Partitions : takeover(p)
  \/ shut_connection
  \/ Conn \/ ConsumerReceive \/ ProducerReceive
  \/ \E p \in Partitions :
       producer_handle_cast(p) \/ ConsumerSend(p) \/ takeoverSendPhase(p) \/ SendEnd(p) \/ setVBucketState(p)

\* Every process reads its sockets and its mailbox and sends what it has ready.
Fairness ==
  /\ WF_vars(handle_packet) /\ WF_vars(handle_cast) /\ WF_vars(handle_call_takeover)
  /\ WF_vars(ConsumerReceive) /\ WF_vars(ProducerReceive)
  /\ \A p \in Partitions :
       WF_vars(producer_handle_cast(p)) /\ WF_vars(ConsumerSend(p)) /\ WF_vars(takeoverSendPhase(p))
       /\ WF_vars(SendEnd(p))

Spec == Init /\ [][Next]_vars /\ Fairness

-----------------------------------------------------------------------------
\* The state is well formed, and no two streams of the consumer have the same opaque.
TypeOK ==
  /\ conn.state \in {"idle", "shut", "streams", "takeover"}
  /\ conn.state = "streams" => conn.to_add \union conn.to_close \union conn.to_close_on_producer \subseteq Partitions
  /\ conn.state = "takeover" => conn.phase \in {"requested", "opaque_known", "active"}
  /\ partitions \subseteq Partitions /\ producer_casts \subseteq Partitions
  /\ \A p \in Partitions :
       /\ streams[p].state \in {"pending", "reading", "dead"}
       /\ active[p].state \in {"send", "wait", "dead"}
       /\ vb[p] \in {"replica", "pending", "active"} /\ pvb[p] \in {"active", "replica", "dead"}
       /\ \A q \in Partitions \ {p} : streams[p].opaque # 0 => streams[q].opaque # streams[p].opaque

\* dcp_consumer_conn never gets an answer it does not wait for, which would make it
\* fail with the connection, nor passes on one that is its own.
NoUnexpectedAnswer ==
  /\ cOut # << >> /\ conn # Shut =>
       LET m == Head(cOut)
       IN  /\ m.op \in {"add_response", "close_response"} => Owned(m)
           /\ conn.state = "streams" =>
                /\ m.op = "add_response" => m.part \in conn.to_add
                /\ m.op = "close_response" => m.part \in conn.to_close
           /\ conn.state = "takeover" /\ m.op \in {"add_response", "request"} => m.part = conn.part
  /\ casts # << >> /\ conn.state = "streams" /\ Head(casts).op = "producer_stream_closed" =>
       Head(casts).part \in conn.to_close_on_producer

\* A vbucket on the list of dcp_consumer_conn has a stream, as long as the producer
\* keeps the vbucket.
ListedIsOpen ==
  conn = Idle => \A p \in partitions \ left : streams[p].state = "reading"

\* The streams that are open are on the list, and when the connection is shut there are
\* none: another replicator that wants the vbuckets is not told that they have a stream
\* already.
OpenIsListed ==
  LET open == {p \in Partitions : streams[p].state # "dead" /\ ~streams[p].takeover}
  IN  (conn = Idle => open \subseteq partitions) /\ (conn = Shut => open = {})

\* A stream that waits for the producer's answer is one of the open sessions by which
\* the consumer recognises answers.
SessionIsOpen ==
  \A p \in Partitions : streams[p].state = "pending" => <<streams[p].opaque, p>> \in opaqueMap

\* At no time is a vbucket active at both ends.
OneActive == \A p \in Partitions : ~(vb[p] = "active" /\ pvb[p] = "active")

\* Who asked for a takeover is told of its success only when the vbucket is active here
\* and no longer there.
TakeoverIsDone ==
  [][conn.state = "takeover" /\ conn' = Idle /\ conn.requested # "none" =>
       vb[conn.part] = "active" /\ pvb[conn.part] # "active"]_vars

\* Every call of the replicator returns.
CallReturns ==
  LET returned == conn \in {Idle, Shut} /\ takeover_next = 0
  IN  ~returned ~> returned
=============================================================================
