---------------------- MODULE DcpProducerWakeupProofs ----------------------
(***************************************************************************)
(* Proofs about module DcpProducerWakeup, for any number of streams and    *)
(* threads, any buffer size and any bound on the items: its type           *)
(* invariant, the notification held by one party, and the ready list.      *)
(***************************************************************************)
EXTENDS DcpProducerWakeup, SequenceTheorems, TLAPS

-----------------------------------------------------------------------------
(***************************************************************************)
(* The ready list: a stream taken off it, put on it, or served from it.    *)
(***************************************************************************)
Lists(q, s) == \E i \in DOMAIN q : q[i] = s
Once(q) == \A i, j \in DOMAIN q : q[i] = q[j] => i = j

\* ready.remove yields a list of streams.
LEMMA WithoutType ==
  ASSUME NEW q \in Seq(Streams), NEW s
  PROVE  Without(q, s) \in Seq(Streams)
<1>1. CASE ~Lists(q, s)
  BY <1>1 DEF Without, Lists
<1>2. CASE Lists(q, s)
  <2> DEFINE i == CHOOSE j \in DOMAIN q : q[j] = s
  <2>1. i \in 1..Len(q)
    BY <1>2 DEF Lists
  <2>2. Without(q, s) = SubSeq(q, 1, i - 1) \o SubSeq(q, i + 1, Len(q))
    BY <1>2, Zenon DEF Without, Lists
  <2> HIDE DEF i
  <2>3. SubSeq(q, 1, i - 1) \in Seq(Streams) /\ SubSeq(q, i + 1, Len(q)) \in Seq(Streams)
    BY <2>1
  <2> QED BY <2>2, <2>3
<1> QED BY <1>1, <1>2

\* ready.remove takes the stream off a list that has it at most once, and leaves
\* every other stream there, at most once.
LEMMA WithoutProperties ==
  ASSUME NEW q \in Seq(Streams), NEW s \in Streams, Once(q)
  PROVE  /\ Once(Without(q, s))
         /\ \A v \in Streams : Lists(Without(q, s), v) <=> v # s /\ Lists(q, v)
<1>1. CASE ~Lists(q, s)
  BY <1>1 DEF Without, Lists
<1>2. CASE Lists(q, s)
  <2> DEFINE i == CHOOSE j \in DOMAIN q : q[j] = s
             a == SubSeq(q, 1, i - 1)
             b == SubSeq(q, i + 1, Len(q))
             w == a \o b
  <2>1. i \in 1..Len(q) /\ q[i] = s
    BY <1>2 DEF Lists
  <2>2. Without(q, s) = w
    BY <1>2, Zenon DEF Without, Lists
  <2> HIDE DEF i
  <2>3. a \in Seq(Streams) /\ Len(a) = i - 1 /\ \A j \in 1..i-1 : a[j] = q[j]
    BY <2>1
  <2>4. /\ b \in Seq(Streams) /\ Len(b) = Len(q) - i
        /\ \A j \in 1..Len(q)-i : b[j] = q[i + j]
    BY <2>1
  <2> HIDE DEF a, b
  <2>5. /\ w \in Seq(Streams) /\ Len(w) = Len(q) - 1
        /\ \A j \in 1..Len(w) : w[j] = IF j < i THEN q[j] ELSE q[j + 1]
    <3>1. /\ w \in Seq(Streams) /\ Len(w) = Len(a) + Len(b)
          /\ \A j \in 1..Len(a)+Len(b) : w[j] = IF j <= Len(a) THEN a[j] ELSE b[j - Len(a)]
      BY <2>3, <2>4, ConcatProperties, Zenon
    <3> HIDE DEF w
    <3>2. Len(w) = Len(q) - 1
      BY <2>1, <2>3, <2>4, <3>1
    <3>3. ASSUME NEW j \in 1..Len(w)
          PROVE  w[j] = IF j < i THEN q[j] ELSE q[j + 1]
      <4>1. CASE j < i
        BY <2>1, <2>3, <2>4, <3>1, <3>2, <4>1
      <4>2. CASE ~(j < i)
        <5>1. j - Len(a) \in 1..Len(q)-i /\ w[j] = b[j - Len(a)] /\ i + (j - Len(a)) = j + 1
          BY <2>1, <2>3, <2>4, <3>1, <3>2, <4>2
        <5>2. b[j - Len(a)] = q[i + (j - Len(a))]
          BY <2>4, <5>1
        <5> QED BY <4>2, <5>1, <5>2
      <4> QED BY <4>1, <4>2
    <3> QED BY <3>1, <3>2, <3>3
  <2> HIDE DEF w
  <2>6. Once(w)
    <3> SUFFICES ASSUME NEW j \in 1..Len(w), NEW k \in 1..Len(w), w[j] = w[k]
                 PROVE  j = k
      BY <2>5 DEF Once
    <3> DEFINE x == IF j < i THEN j ELSE j + 1
               y == IF k < i THEN k ELSE k + 1
    <3>1. x \in 1..Len(q) /\ y \in 1..Len(q) /\ q[x] = q[y]
      BY <2>1, <2>5
    <3>2. x = y
      <4> HIDE DEF x, y
      <4> QED BY <3>1 DEF Once
    <3> QED BY <2>1, <2>5, <3>2
  <2>7. ASSUME NEW v \in Streams, v # s, Lists(q, v)
        PROVE  Lists(w, v)
    <3>1. PICK j \in 1..Len(q) : q[j] = v
      BY <2>7 DEF Lists
    <3>2. CASE j < i
      <4>1. j \in 1..Len(w) /\ w[j] = v
        BY <2>1, <2>5, <3>1, <3>2
      <4> QED BY <4>1, <2>5 DEF Lists
    <3>3. CASE j > i
      <4>1. j - 1 \in 1..Len(w) /\ w[j - 1] = v
        BY <2>1, <2>5, <3>1, <3>3
      <4> QED BY <4>1, <2>5 DEF Lists
    <3> QED BY <2>1, <2>7, <3>1, <3>2, <3>3
  <2>8. ASSUME NEW v \in Streams, Lists(w, v)
        PROVE  v # s /\ Lists(q, v)
    <3>1. PICK j \in 1..Len(w) : w[j] = v
      BY <2>5, <2>8 DEF Lists
    <3>2. PICK k \in 1..Len(q) : q[k] = v /\ k # i
      BY <2>1, <2>5, <3>1
    <3> QED BY <2>1, <3>2 DEF Lists, Once
  <2> QED BY <2>2, <2>6, <2>7, <2>8
<1> QED BY <1>1, <1>2

\* ready.push_back of a stream that is not on the list.
LEMMA AppendOnce ==
  ASSUME NEW q \in Seq(Streams), NEW s \in Streams, Once(q), ~Lists(q, s)
  PROVE  /\ Once(Append(q, s))
         /\ \A v \in Streams : Lists(Append(q, s), v) <=> v = s \/ Lists(q, v)
<1> DEFINE w == Append(q, s)
<1>1. /\ w \in Seq(Streams) /\ Len(w) = Len(q) + 1 /\ w[Len(q) + 1] = s
      /\ \A i \in 1..Len(q) : w[i] = q[i]
  BY AppendProperties
<1> HIDE DEF w
<1>2. Once(w)
  BY <1>1 DEF Once, Lists
<1>3. ASSUME NEW v \in Streams
      PROVE  Lists(w, v) <=> v = s \/ Lists(q, v)
  BY <1>1 DEF Lists
<1> QED BY <1>2, <1>3 DEF w

\* What getNextItem leaves on the list when the stream it serves is the nth: the
\* streams behind it, none of them twice, and not the one served.
LEMMA RestOfList ==
  ASSUME NEW q \in Seq(Streams), NEW n \in 1..Len(q), Once(q)
  PROVE  /\ SubSeq(q, n + 1, Len(q)) \in Seq(Streams)
         /\ Once(SubSeq(q, n + 1, Len(q)))
         /\ \A v \in Streams : Lists(SubSeq(q, n + 1, Len(q)), v)
                                 <=> \E i \in n+1..Len(q) : q[i] = v
<1> DEFINE w == SubSeq(q, n + 1, Len(q))
<1>1. /\ w \in Seq(Streams) /\ Len(w) = Len(q) - n
      /\ \A j \in 1..Len(q)-n : w[j] = q[n + j]
  OBVIOUS
<1> HIDE DEF w
<1>2. Once(w)
  <2> SUFFICES ASSUME NEW j \in 1..Len(q)-n, NEW k \in 1..Len(q)-n, w[j] = w[k]
               PROVE  j = k
    BY <1>1 DEF Once
  <2>1. n + j \in 1..Len(q) /\ n + k \in 1..Len(q) /\ q[n + j] = q[n + k]
    BY <1>1
  <2>2. n + j = n + k
    BY <2>1 DEF Once
  <2> QED BY <2>2
<1>3. ASSUME NEW v \in Streams, NEW i \in n+1..Len(q), q[i] = v
      PROVE  Lists(w, v)
  <2>1. i - n \in 1..Len(w) /\ w[i - n] = v
    BY <1>1, <1>3
  <2> QED BY <1>1, <2>1 DEF Lists
<1>4. ASSUME NEW v \in Streams, Lists(w, v)
      PROVE  \E i \in n+1..Len(q) : q[i] = v
  <2>1. PICK j \in 1..Len(q)-n : w[j] = v
    BY <1>1, <1>4 DEF Lists
  <2>2. n + j \in n+1..Len(q) /\ q[n + j] = v
    BY <1>1, <2>1
  <2> QED BY <2>2
<1> QED BY <1>1, <1>2, <1>3, <1>4 DEF w

-----------------------------------------------------------------------------
(***************************************************************************)
(* Type correctness.  It takes one fact besides: a process that is about   *)
(* to announce a stream has a stream to announce (NoArg has none).         *)
(***************************************************************************)
ArgInv == \A p \in Procs : pc[p] \in {"setReady", "enlist"} => arg[p].vb \in Streams
TypeInv == TypeOK /\ ArgInv

ArgType == [vb : Streams \union {"none"}, schedule : BOOLEAN]

\* A call leaves the processes at labels, with arguments of their type.
LEMMA CallType ==
  ASSUME pc \in [Procs -> Labels], arg \in [Procs -> ArgType],
         NEW p \in Procs, NEW l \in Labels, NEW s \in Streams \union {"none"},
         NEW schedule \in BOOLEAN, Call(p, l, s, schedule)
  PROVE  pc' \in [Procs -> Labels] /\ arg' \in [Procs -> ArgType]
<1>1. [vb |-> s, schedule |-> schedule] \in ArgType
  BY DEF ArgType
<1> QED BY <1>1 DEF Call, Jump

\* So does a return.
LEMMA ReturnType ==
  ASSUME pc \in [Procs -> Labels], arg \in [Procs -> ArgType], NEW p \in Procs, Return(p)
  PROVE  pc' \in [Procs -> Labels] /\ arg' \in [Procs -> ArgType]
<1>1. NoArg \in ArgType
  BY DEF ArgType, NoArg
<1>2. Home(p) \in Labels
  BY DEF Home, Labels
<1> QED BY <1>1, <1>2 DEF Return, Jump

\* So does MarkReady, which leaves itemsReady a function to Booleans.
LEMMA MarkReadyType ==
  ASSUME TypeOK, NEW p \in Procs, NEW s \in Streams, NEW schedule \in BOOLEAN,
         MarkReady(p, s, schedule)
  PROVE  /\ itemsReady' \in [Streams -> BOOLEAN]
         /\ pc' \in [Procs -> Labels] /\ arg' \in [Procs -> ArgType]
<1>1. pc \in [Procs -> Labels] /\ arg \in [Procs -> ArgType]
  BY DEF TypeOK, ArgType
<1>2. itemsReady' \in [Streams -> BOOLEAN]
  BY Zenon DEF TypeOK, MarkReady
<1>3. CASE itemsReady[s]
  BY <1>1, <1>2, <1>3, ReturnType DEF MarkReady
<1>4. CASE ~itemsReady[s]
  <2>1. "enlist" \in Labels
    BY DEF Labels
  <2> QED BY <1>1, <1>2, <1>4, <2>1, CallType DEF MarkReady
<1> QED BY <1>3, <1>4

\* A connection just opened.
LEMMA InitTypeInv == Init => TypeInv
<1> SUFFICES ASSUME Init PROVE TypeInv
  OBVIOUS
<1>1. arg \in [Procs -> ArgType]
  BY DEF Init, NoArg, ArgType
<1>2. pc \in [Procs -> Labels] /\ state \in [Streams -> StreamStates]
  BY DEF Init, Labels, StreamStates
<1>3. ArgInv
  BY DEF Init, ArgInv
<1>4. ready \in Seq(Streams)
  BY DEF Init
<1>5. /\ backlog \in [Streams -> Nat] /\ held \in [Streams -> Nat]
      /\ itemsReady \in [Streams -> BOOLEAN]
  BY DEF Init
<1> QED BY <1>1, <1>2, <1>3, <1>4, <1>5, Zenon DEF Init, TypeInv, TypeOK, ArgType

\* Threads that queue items for a stream or end it.
LEMMA ThreadTypeOK ==
  ASSUME TypeInv, NEW t \in Threads, NEW s \in Streams,
         QueueMutation(t, s) \/ BackfillReceived(t, s) \/ CompleteBackfill(t, s) \/ SetDead(t, s)
  PROVE  TypeOK'
<1> USE DEF TypeInv, TypeOK, notifyVars, taskVars
<1>0. t \in Procs
  BY DEF Procs
<1>1. CASE QueueMutation(t, s)
  <2>1. pc' \in [Procs -> Labels] /\ arg' \in [Procs -> ArgType]
    <3>1. "setReady" \in Labels
      BY DEF Labels
    <3> QED BY <1>0, <1>1, <3>1, CallType, Zenon DEF QueueMutation, ArgType
  <2>2. backlog' \in [Streams -> Nat] /\ held' \in [Streams -> Nat] /\ queued' \in Nat
    BY <1>1 DEF QueueMutation
  <2> QED BY <1>1, <2>1, <2>2 DEF QueueMutation, ArgType
<1>2. CASE BackfillReceived(t, s)
  <2>1. backlog' \in [Streams -> Nat] /\ queued' \in Nat
    BY <1>2 DEF BackfillReceived
  <2>2. MarkReady(t, s, FALSE)
    BY <1>2, Zenon DEF BackfillReceived
  <2> QED BY <1>0, <1>2, <2>1, <2>2, MarkReadyType, Zenon DEF BackfillReceived, ArgType
<1>3. CASE CompleteBackfill(t, s)
  <2>1. /\ backlog' \in [Streams -> Nat] /\ held' \in [Streams -> Nat]
        /\ state' \in [Streams -> StreamStates]
    BY <1>3 DEF CompleteBackfill, StreamStates
  <2>2. MarkReady(t, s, FALSE)
    BY <1>3, Zenon DEF CompleteBackfill
  <2> QED BY <1>0, <1>3, <2>1, <2>2, MarkReadyType, ZenonT(40) DEF CompleteBackfill, ArgType
<1>4. CASE SetDead(t, s)
  <2>1. held' \in [Streams -> Nat] /\ state' \in [Streams -> StreamStates]
    BY <1>4 DEF SetDead, StreamStates
  <2>2. backlog' \in [Streams -> Nat]
    <3>1. CASE state[s] = "inMemory"
      <4>1. PICK fetched \in 0..backlog[s] : backlog' = [backlog EXCEPT ![s] = fetched + 1]
        BY <1>4, <3>1 DEF SetDead
      <4>2. fetched + 1 \in Nat
        BY <4>1
      <4> QED BY <4>1, <4>2
    <3> QED BY <1>4, <3>1 DEF SetDead
  <2>3. MarkReady(t, s, TRUE)
    BY <1>4, Zenon DEF SetDead
  <2> QED BY <1>0, <1>4, <2>1, <2>2, <2>3, MarkReadyType, Zenon DEF SetDead, ArgType
<1> QED BY <1>1, <1>2, <1>3, <1>4, SMTT(30)

\* A process that announces a stream.
LEMMA AnnounceTypeOK ==
  ASSUME TypeInv, NEW p \in Procs, Announce(p)
  PROVE  TypeOK'
<1> USE DEF TypeInv, TypeOK, ArgType, notifyVars, taskVars, streamVars
<1>1. CASE SetReady(p)
  <2>1. arg[p].vb \in Streams
    BY <1>1 DEF SetReady, ArgInv
  <2>2. CASE isActive(arg[p].vb)
    BY <1>1, <2>1, <2>2, MarkReadyType, ZenonT(40) DEF SetReady
  <2>3. CASE ~isActive(arg[p].vb)
    BY <1>1, <2>3, ReturnType DEF SetReady
  <2> QED BY <2>2, <2>3
<1>2. CASE Enlist(p)
  <2>1. arg[p].vb \in Streams /\ arg[p].schedule \in BOOLEAN
    BY <1>2 DEF Enlist, ArgInv
  <2>2. CASE InReady(arg[p].vb)
    BY <1>2, <2>2, ReturnType DEF Enlist
  <2>3. CASE ~InReady(arg[p].vb)
    <3>0. /\ Call(p, "isFull", "none", arg[p].schedule)
          /\ ready' = Append(ready, arg[p].vb)
      BY <1>2, <2>3 DEF Enlist
    <3>1. ready' \in Seq(Streams)
      BY <2>1, <3>0
    <3>2. "isFull" \in Labels
      BY DEF Labels
    <3>3. [vb |-> "none", schedule |-> arg[p].schedule] \in ArgType
      BY <2>1
    <3>4. pc' \in [Procs -> Labels] /\ arg' \in [Procs -> ArgType]
      BY <3>0, <3>2, <3>3 DEF Call, Jump
    <3> QED BY <1>2, <3>1, <3>4 DEF Enlist
  <2> QED BY <2>2, <2>3
<1>3. CASE TestFull(p)
  BY <1>3, ReturnType, Zenon DEF TestFull, Goto, Jump, Labels
<1>4. CASE TestPaused(p)
  BY <1>4, ReturnType, Zenon DEF TestPaused, Goto, Jump, Labels
<1>5. CASE Schedule(p)
  BY <1>5, ReturnType, Zenon DEF Schedule, Goto, Jump, Labels
<1>6. CASE PushNotification(p)
  BY <1>6, ReturnType DEF PushNotification
<1>7. CASE NotifyDirect(p)
  BY <1>7, ReturnType DEF NotifyDirect
<1> QED BY <1>1, <1>2, <1>3, <1>4, <1>5, <1>6, <1>7 DEF Announce

\* The two tasks, and the passing of time.
LEMMA TaskTypeOK ==
  ASSUME TypeInv, Notifier \/ Manager \/ BecomeIdle
  PROVE  TypeOK'
<1> USE DEF TypeInv, TypeOK, notifyVars, streamVars
<1>1. CASE Notifier
  <2>1. CASE NotifierTake
    BY <2>1 DEF NotifierTake
  <2>2. CASE NotifierCheck
    BY <2>2 DEF NotifierCheck
  <2>3. CASE NotifierNotify \/ NotifierClear
    BY <2>3, Zenon DEF NotifierNotify, NotifierClear
  <2> QED BY <1>1, <2>1, <2>2, <2>3 DEF Notifier
<1>2. CASE Manager
  BY <1>2, Zenon DEF Manager, ManagerCollect, ManagerNotify
<1>3. CASE BecomeIdle
  BY <1>3 DEF BecomeIdle
<1> QED BY <1>1, <1>2, <1>3, Zenon

\* A scan of the ready list leaves the flags Boolean.
LEMMA QuietedType ==
  ASSUME TypeOK, NEW n
  PROVE  Quieted(n) \in [Streams -> BOOLEAN]
BY DEF Quieted, TypeOK

\* The worker, serving requests on the connection or stepping it.
LEMMA WorkerTypeOK ==
  ASSUME TypeInv,
         Acknowledge \/ Worker
           \/ \E s \in Streams : StreamRequest(s) \/ CloseStream(s) \/ RefuseRequest(s)
  PROVE  TypeOK'
<1> USE DEF TypeInv, TypeOK, ArgType, notifyVars, taskVars, streamVars
<1>0. worker \in Procs
  BY DEF Procs
<1>1. CASE Acknowledge
  <2>1. PICK n \in 1..bytes_sent : BufferAck(n)
    BY <1>1 DEF Acknowledge
  <2>2. bytes_sent' \in Nat
    BY <2>1 DEF BufferAck
  <2>3. pc' \in [Procs -> Labels] /\ arg' \in [Procs -> ArgType]
    BY <1>0, <2>1 DEF BufferAck, Goto, Jump, Labels
  <2> QED BY <2>1, <2>2, <2>3, Zenon DEF BufferAck
<1>2. CASE WorkerWakes \/ Step \/ GetNoRoom
  BY <1>0, <1>2, ZenonT(40) DEF WorkerWakes, Step, GetNoRoom, Goto, Jump, Labels
<1>3. CASE GetNothing
  <2>1. itemsReady' \in [Streams -> BOOLEAN]
    BY <1>3, QuietedType DEF GetNothing
  <2>2. ready' \in Seq(Streams)
    BY <1>3 DEF GetNothing
  <2> QED BY <1>0, <1>3, <2>1, <2>2 DEF GetNothing, Goto, Jump, Labels
<1>4. ASSUME NEW size \in Sizes, GetItem(size)
      PROVE  TypeOK'
  <2>1. PICK n \in 1..Len(ready) :
          /\ HasItem(ready[n])
          /\ ready' = Append(SubSeq(ready, n + 1, Len(ready)), ready[n])
          /\ backlog' = [backlog EXCEPT ![ready[n]] = @ - 1]
          /\ itemsReady' = [Quieted(n - 1) EXCEPT ![ready[n]] = TRUE]
    BY <1>4, Zenon DEF GetItem
  <2>2. ready[n] \in Streams /\ SubSeq(ready, n + 1, Len(ready)) \in Seq(Streams)
    OBVIOUS
  <2>3. ready' \in Seq(Streams)
    BY <2>1, <2>2
  <2>4. backlog' \in [Streams -> Nat]
    <3>1. backlog[ready[n]] > 0
      BY <2>1 DEF HasItem
    <3>2. backlog[ready[n]] \in Nat
      BY <2>2
    <3>3. backlog[ready[n]] - 1 \in Nat
      BY <3>1, <3>2
    <3> QED BY <2>1, <2>2, <3>3
  <2>5. itemsReady' \in [Streams -> BOOLEAN]
    BY <2>1, <2>2, QuietedType, SMTT(30)
  <2>6. bytes_sent' \in Nat
    BY <1>4, SizesAssumption DEF GetItem
  <2> QED BY <1>0, <1>4, <2>3, <2>4, <2>5, <2>6, Zenon DEF GetItem, Goto, Jump, Labels
<1>5. ASSUME NEW s \in Streams, StreamRequest(s)
      PROVE  TypeOK'
  <2>1. PICK n \in 0..(MaxItems - queued), inMemory \in BOOLEAN :
          /\ queued' = queued + n
          /\ state' = [state EXCEPT ![s] = IF inMemory THEN "inMemory" ELSE "backfilling"]
          /\ backlog' = [backlog EXCEPT ![s] = IF inMemory THEN n ELSE 0]
          /\ held' = [held EXCEPT ![s] = IF inMemory THEN 0 ELSE n]
          /\ itemsReady' = [itemsReady EXCEPT ![s] = inMemory]
    BY <1>5, Zenon DEF StreamRequest
  <2>2. queued' \in Nat /\ backlog' \in [Streams -> Nat] /\ held' \in [Streams -> Nat]
    BY <2>1, MaxItemsAssumption
  <2>3. state' \in [Streams -> StreamStates]
    BY <2>1 DEF StreamStates
  <2>4. itemsReady' \in [Streams -> BOOLEAN]
    BY <2>1
  <2>5. ready' \in Seq(Streams)
    <3>1. ready' = Append(Without(ready, s), s)
      BY <1>5 DEF StreamRequest
    <3>2. Without(ready, s) \in Seq(Streams)
      BY WithoutType
    <3> QED BY <3>1, <3>2
  <2>6. pc' \in [Procs -> Labels]
    BY <1>5 DEF StreamRequest, Labels
  <2>7. arg' \in [Procs -> ArgType]
    <3>1. NoArg \in ArgType
      BY DEF NoArg
    <3> QED BY <1>5, <3>1 DEF StreamRequest
  <2> QED BY <1>5, <2>2, <2>3, <2>4, <2>5, <2>6, <2>7, Zenon DEF StreamRequest
<1>6. ASSUME NEW s \in Streams, CloseStream(s)
      PROVE  TypeOK'
  <2>1. backlog' \in [Streams -> Nat] /\ held' \in [Streams -> Nat]
    BY <1>6 DEF CloseStream
  <2>2. state' \in [Streams -> StreamStates]
    BY <1>6 DEF CloseStream, StreamStates
  <2>3. ready' \in Seq(Streams)
    BY <1>6, WithoutType DEF CloseStream
  <2>4. /\ itemsReady' \in [Streams -> BOOLEAN]
        /\ pc' \in [Procs -> Labels] /\ arg' \in [Procs -> ArgType]
    <3>1. CASE isActive(s)
      BY <1>0, <1>6, <3>1, MarkReadyType, Zenon DEF CloseStream
    <3>2. CASE ~isActive(s)
      BY <1>0, <1>6, <3>2, ReturnType DEF CloseStream
    <3> QED BY <3>1, <3>2
  <2> QED BY <1>6, <2>1, <2>2, <2>3, <2>4, Zenon DEF CloseStream
<1>7. ASSUME NEW s \in Streams, RefuseRequest(s)
      PROVE  TypeOK'
  <2>1. backlog' \in [Streams -> Nat]
    BY <1>7 DEF RefuseRequest
  <2>2. state' \in [Streams -> StreamStates]
    BY <1>7 DEF RefuseRequest, StreamStates
  <2>3. ready' \in Seq(Streams)
    BY <1>7, WithoutType DEF RefuseRequest
  <2>4. pc' \in [Procs -> Labels] /\ arg' \in [Procs -> ArgType]
    BY <1>0, <1>7 DEF RefuseRequest, Goto, Jump, Labels
  <2> QED BY <1>7, <2>1, <2>2, <2>3, <2>4, Zenon DEF RefuseRequest
<1> QED BY <1>1, <1>2, <1>3, <1>4, <1>5, <1>6, <1>7, SMTT(30) DEF Worker

\* Every step keeps the types.
LEMMA NextTypeOK == TypeInv /\ [Next]_vars => TypeOK'
<1> SUFFICES ASSUME TypeInv, [Next]_vars PROVE TypeOK'
  OBVIOUS
<1>1. CASE UNCHANGED vars
  BY <1>1 DEF TypeInv, TypeOK, vars, streamVars, notifyVars, taskVars
<1>2. CASE Next
  BY <1>2, ThreadTypeOK, AnnounceTypeOK, TaskTypeOK, WorkerTypeOK DEF Next
<1> QED BY <1>1, <1>2

\* What a process does with its stream when it calls, returns or moves on.
LEMMA CallArgInv ==
  ASSUME TypeInv, NEW p \in Procs, NEW l, NEW s, NEW schedule, Call(p, l, s, schedule),
         s \in Streams \/ l \notin {"setReady", "enlist"}
  PROVE  ArgInv'
BY DEF TypeInv, TypeOK, ArgInv, Call, Jump

\* A return goes where no stream is to be announced.
LEMMA ReturnArgInv ==
  ASSUME TypeInv, NEW p \in Procs, Return(p)
  PROVE  ArgInv'
BY DEF TypeInv, TypeOK, ArgInv, Return, Jump, Home

\* A jump past the announcement.
LEMMA GotoArgInv ==
  ASSUME TypeInv, NEW p \in Procs, NEW l, Goto(p, l), l \notin {"setReady", "enlist"}
  PROVE  ArgInv'
BY DEF TypeInv, TypeOK, ArgInv, Goto, Jump

\* MarkReady sends a process to announce a stream, or home.
LEMMA MarkReadyArgInv ==
  ASSUME TypeInv, NEW p \in Procs, NEW s \in Streams, NEW schedule, MarkReady(p, s, schedule)
  PROVE  ArgInv'
BY CallArgInv, ReturnArgInv DEF MarkReady

\* Every step leaves each announcing process with a stream to announce.
LEMMA NextArgInv == TypeInv /\ [Next]_vars => ArgInv'
<1> SUFFICES ASSUME TypeInv, [Next]_vars PROVE ArgInv'
  OBVIOUS
<1>0. worker \in Procs /\ Threads \subseteq Procs
  BY DEF Procs
<1>1. CASE UNCHANGED vars
  BY <1>1 DEF TypeInv, ArgInv, vars
<1>2. ASSUME NEW t \in Threads, NEW s \in Streams,
             QueueMutation(t, s) \/ BackfillReceived(t, s) \/ CompleteBackfill(t, s)
               \/ SetDead(t, s)
      PROVE  ArgInv'
  BY <1>0, <1>2, CallArgInv, MarkReadyArgInv, Zenon
     DEF QueueMutation, BackfillReceived, CompleteBackfill, SetDead
<1>3. ASSUME NEW p \in Procs, Announce(p)
      PROVE  ArgInv'
  <2>1. CASE SetReady(p)
    <3>1. arg[p].vb \in Streams
      BY <2>1 DEF SetReady, TypeInv, ArgInv
    <3> QED BY <2>1, <3>1, MarkReadyArgInv, ReturnArgInv, Zenon DEF SetReady
  <2>2. CASE Enlist(p)
    BY <2>2, CallArgInv, ReturnArgInv, SMTT(30) DEF Enlist
  <2>3. CASE TestFull(p) \/ TestPaused(p) \/ Schedule(p)
    BY <2>3, GotoArgInv, ReturnArgInv DEF TestFull, TestPaused, Schedule
  <2>4. CASE PushNotification(p) \/ NotifyDirect(p)
    BY <2>4, ReturnArgInv DEF PushNotification, NotifyDirect
  <2> QED BY <1>3, <2>1, <2>2, <2>3, <2>4 DEF Announce
<1>4. CASE Notifier \/ Manager \/ BecomeIdle
  BY <1>4 DEF Notifier, Manager, NotifierTake, NotifierCheck, NotifierNotify, NotifierClear,
              ManagerCollect, ManagerNotify, BecomeIdle, TypeInv, ArgInv
<1>5. CASE Acknowledge \/ Worker
  BY <1>0, <1>5, GotoArgInv
     DEF Acknowledge, BufferAck, Worker, WorkerWakes, Step, GetNoRoom, GetNothing, GetItem
<1>6. ASSUME NEW s \in Streams, StreamRequest(s)
      PROVE  ArgInv'
  BY <1>6 DEF StreamRequest, Stale, TypeInv, ArgInv
<1>7. ASSUME NEW s \in Streams, CloseStream(s)
      PROVE  ArgInv'
  BY <1>0, <1>7, MarkReadyArgInv, ReturnArgInv, Zenon DEF CloseStream
<1>8. ASSUME NEW s \in Streams, RefuseRequest(s)
      PROVE  ArgInv'
  BY <1>0, <1>8, GotoArgInv, Zenon DEF RefuseRequest
<1> QED BY <1>1, <1>2, <1>3, <1>4, <1>5, <1>6, <1>7, <1>8 DEF Next

\* The type invariant, strengthened, holds throughout.
LEMMA TypeInvHolds == Spec => []TypeInv
<1>1. TypeInv /\ [Next]_vars => TypeInv'
  BY NextTypeOK, NextArgInv DEF TypeInv
<1> QED BY InitTypeInv, <1>1, PTL DEF Spec

\* Every variable keeps its type; in particular the flow-control log never holds
\* less than nothing, and next() is never counted on for an item the stream lacks.
THEOREM TypesAreKept == Spec => []TypeOK
<1>1. TypeInv => TypeOK
  BY DEF TypeInv
<1> QED BY TypeInvHolds, <1>1, PTL

-----------------------------------------------------------------------------
(***************************************************************************)
(* The notification.  OneNotification is inductive once it is taken apart  *)
(* into who may hold the notification together with whom.                  *)
(***************************************************************************)
Pushing(p) == pc[p] = "push"

NotifInv ==
  /\ pendingNotifications \in {0, 1}
  /\ \A p, q \in Procs : Pushing(p) /\ Pushing(q) => p = q
  /\ \A p \in Procs : Pushing(p) => pendingNotifications = 0 /\ notifier = "idle"
  /\ pendingNotifications = 1 => notifier = "idle"
  /\ notificationScheduled <=>
       (\E p \in Procs : Pushing(p)) \/ pendingNotifications = 1 \/ notifier # "idle"

\* A connection just opened has no notification.
LEMMA InitNotifInv == Init => NotifInv
BY DEF Init, NotifInv, Pushing

\* A step that leaves the flag, the queue and the notifier alone, and takes no
\* process to or from the push, leaves the holders as they were.
LEMMA QuietNotifInv ==
  ASSUME NotifInv, UNCHANGED <<notificationScheduled, pendingNotifications, notifier>>,
         \A p \in Procs : Pushing(p)' <=> Pushing(p)
  PROVE  NotifInv'
BY DEF NotifInv

\* Calls, returns and jumps that neither start nor end at the push.
LEMMA MovePushing ==
  ASSUME TypeInv, NEW p \in Procs, ~Pushing(p), NEW l, l # "push", Jump(p, l)
  PROVE  \A q \in Procs : Pushing(q)' <=> Pushing(q)
BY DEF TypeInv, TypeOK, Jump, Pushing

\* The notification goes from the thread that won the exchange in
\* notifyPausedConnection to the queue, the notifier and back; nobody else gets it.
LEMMA NextNotifInv == TypeInv /\ NotifInv /\ [Next]_vars => NotifInv'
<1> SUFFICES ASSUME TypeInv, NotifInv, [Next]_vars PROVE NotifInv'
  OBVIOUS
<1> USE DEF notifyVars, taskVars
<1>0. /\ worker \in Procs /\ Threads \subseteq Procs
      /\ \A p : Home(p) # "push"
  BY DEF Procs, Home
<1>1. CASE UNCHANGED vars
  BY <1>1 DEF NotifInv, Pushing, vars
<1>2. ASSUME NEW t \in Threads, NEW s \in Streams,
             QueueMutation(t, s) \/ BackfillReceived(t, s) \/ CompleteBackfill(t, s)
               \/ SetDead(t, s)
      PROVE  NotifInv'
  <2>1. ~Pushing(t) /\ \E l : l # "push" /\ Jump(t, l)
    BY <1>0, <1>2 DEF QueueMutation, BackfillReceived, CompleteBackfill, SetDead, MarkReady,
                      Call, Return, Pushing
  <2>2. UNCHANGED <<notificationScheduled, pendingNotifications, notifier>>
    BY <1>2, Zenon DEF QueueMutation, BackfillReceived, CompleteBackfill, SetDead
  <2> QED BY <1>0, <2>1, <2>2, MovePushing, QuietNotifInv, SMTT(30)
<1>3. ASSUME NEW p \in Procs, Announce(p)
      PROVE  NotifInv'
  <2>1. CASE SetReady(p) \/ Enlist(p) \/ TestFull(p) \/ TestPaused(p) \/ NotifyDirect(p)
    <3>1. ~Pushing(p) /\ \E l : l # "push" /\ Jump(p, l)
      BY <1>0, <2>1 DEF SetReady, Enlist, TestFull, TestPaused, NotifyDirect, MarkReady,
                        Call, Return, Goto, Pushing
    <3>2. UNCHANGED <<notificationScheduled, pendingNotifications, notifier>>
      BY <2>1, Zenon DEF SetReady, Enlist, TestFull, TestPaused, NotifyDirect
    <3> QED BY <3>1, <3>2, MovePushing, QuietNotifInv, SMTT(30)
  <2>2. CASE Schedule(p)
    <3>1. UNCHANGED <<pendingNotifications, notifier>> /\ notificationScheduled' /\ ~Pushing(p)
      BY <2>2 DEF Schedule, Pushing
    <3>2. CASE notificationScheduled
      <4>1. Jump(p, Home(p))
        BY <2>2, <3>2 DEF Schedule, Return
      <4>2. notificationScheduled' = notificationScheduled
        BY <2>2, <3>2 DEF Schedule, TypeInv, TypeOK
      <4> QED BY <1>0, <3>1, <4>1, <4>2, MovePushing, QuietNotifInv, Zenon
    <3>3. CASE ~notificationScheduled
      <4>1. pc' = [pc EXCEPT ![p] = "push"] /\ pc \in [Procs -> Labels]
        BY <2>2, <3>3 DEF Schedule, Goto, Jump, TypeInv, TypeOK
      <4>2. \A q \in Procs : Pushing(q)' <=> q = p
        BY <3>3, <4>1 DEF NotifInv, Pushing
      <4> QED BY <3>1, <3>3, <4>2 DEF NotifInv
    <3> QED BY <3>2, <3>3
  <2>3. CASE PushNotification(p)
    <3>1. Pushing(p) /\ UNCHANGED <<notificationScheduled, notifier>>
      BY <2>3 DEF PushNotification, Pushing
    <3>2. pendingNotifications = 0 /\ pendingNotifications' = 1
      BY <2>3, <3>1 DEF PushNotification, NotifInv
    <3>3. \A q \in Procs : ~Pushing(q)'
      BY <1>0, <2>3, <3>1 DEF PushNotification, Return, Jump, NotifInv, TypeInv, TypeOK, Pushing
    <3> QED BY <3>1, <3>2, <3>3 DEF NotifInv
  <2> QED BY <1>3, <2>1, <2>2, <2>3 DEF Announce
<1>4. CASE Notifier
  BY <1>4 DEF Notifier, NotifierTake, NotifierCheck, NotifierNotify, NotifierClear,
              NotifInv, Pushing
<1>5. CASE Manager \/ BecomeIdle
  BY <1>5, QuietNotifInv DEF Manager, ManagerCollect, ManagerNotify, BecomeIdle, Pushing
<1>6. CASE Acknowledge \/ Worker \/ \E s \in Streams : CloseStream(s) \/ RefuseRequest(s)
  <2>1. ~Pushing(worker) /\ \E l : l # "push" /\ Jump(worker, l)
    BY <1>0, <1>6 DEF Acknowledge, BufferAck, Worker, WorkerWakes, Step, GetNoRoom, GetNothing,
                      GetItem, CloseStream, RefuseRequest, MarkReady, Call, Return, Goto, Pushing
  <2>2. UNCHANGED <<notificationScheduled, pendingNotifications, notifier>>
    BY <1>6, Zenon DEF Acknowledge, BufferAck, Worker, WorkerWakes, Step, GetNoRoom, GetNothing,
                GetItem, CloseStream, RefuseRequest
  <2> QED BY <1>0, <2>1, <2>2, MovePushing, QuietNotifInv, SMTT(30)
<1>7. ASSUME NEW s \in Streams, StreamRequest(s)
      PROVE  NotifInv'
  BY <1>7, QuietNotifInv, Zenon DEF StreamRequest, Stale, Pushing
<1> QED BY <1>1, <1>2, <1>3, <1>4, <1>5, <1>6, <1>7 DEF Next

\* What is shown inductive says what OneNotification says.
LEMMA NotifInvImplies == NotifInv => OneNotification
<1> SUFFICES ASSUME NotifInv PROVE OneNotification
  OBVIOUS
<1> DEFINE T == {<<"thread", p>> : p \in {q \in Procs : pc[q] = "push"}}
           Q == {<<"queue", i>> : i \in 1..pendingNotifications}
           N == {<<"notifier", x>> : x \in {notifier} \ {"idle"}}
<1>0. Holders = T \union Q \union N
  BY DEF Holders
<1>1. CASE \E p \in Procs : Pushing(p)
  <2>1. PICK p \in Procs : Pushing(p)
    BY <1>1
  <2>2. T = {<<"thread", p>>}
    BY <2>1 DEF NotifInv, Pushing
  <2>3. Q = {} /\ N = {}
    BY <2>1 DEF NotifInv
  <2> QED BY <1>0, <1>1, <2>2, <2>3, Zenon DEF NotifInv, OneNotification
<1>2. CASE pendingNotifications = 1
  <2>1. Q = {<<"queue", 1>>}
    BY <1>2
  <2>2. T = {} /\ N = {}
    BY <1>2 DEF NotifInv, Pushing
  <2> QED BY <1>0, <1>2, <2>1, <2>2, Zenon DEF NotifInv, OneNotification
<1>3. CASE notifier # "idle"
  <2>1. N = {<<"notifier", notifier>>}
    BY <1>3
  <2>2. T = {} /\ Q = {}
    BY <1>3 DEF NotifInv, Pushing
  <2> QED BY <1>0, <1>3, <2>1, <2>2, Zenon DEF NotifInv, OneNotification
<1>4. CASE ~notificationScheduled
  BY <1>0, <1>4 DEF NotifInv, OneNotification, Pushing
<1> QED BY <1>1, <1>2, <1>3, <1>4 DEF NotifInv

\* A paused connection is queued for the ConnNotifier at most once, and its
\* notificationScheduled flag is never left set with nobody to clear it.
THEOREM NotificationHeldOnce == Spec => []OneNotification
<1>1. TypeInv /\ NotifInv /\ [Next]_vars => NotifInv'
  BY NextNotifInv
<1> QED BY TypeInvHolds, InitNotifInv, <1>1, NotifInvImplies, PTL DEF Spec

-----------------------------------------------------------------------------
(***************************************************************************)
(* The ready list.  That a stream with items is on it, or about to be put  *)
(* there, rests on the itemsReady flag being truthful, and a dead stream   *)
(* that still has items to send has its flag set.                          *)
(***************************************************************************)
Announcing(p, s) == pc[p] = "enlist" /\ arg[p].vb = s
Bringing(p, s) == pc[p] \in {"setReady", "enlist"} /\ arg[p].vb = s

ListInv ==
  /\ Once(ready)
  /\ \A s \in Streams : state[s] = "dead" /\ backlog[s] > 0 => itemsReady[s]
  /\ \A s \in Streams : state[s] # "gone" /\ itemsReady[s] =>
       Lists(ready, s) \/ \E p \in Procs : Announcing(p, s)
  /\ \A s \in Streams : HasItem(s) =>
       Lists(ready, s) \/ \E p \in Procs : Bringing(p, s)

\* A connection just opened has no stream.
LEMMA InitListInv == Init => ListInv
BY DEF Init, ListInv, Once, HasItem

\* A step that leaves the streams and the list alone and interrupts no process
\* that has a stream to announce.
LEMMA QuietListInv ==
  ASSUME ListInv, UNCHANGED <<ready, backlog, state, itemsReady>>,
         \A p \in Procs : pc[p] \in {"setReady", "enlist"} => pc'[p] = pc[p] /\ arg'[p] = arg[p]
  PROVE  ListInv'
<1>1. ASSUME NEW v \in Streams, NEW p \in Procs
      PROVE  /\ Announcing(p, v) => Announcing(p, v)'
             /\ Bringing(p, v) => Bringing(p, v)'
  BY DEF Announcing, Bringing
<1>2. \A v \in Streams : HasItem(v)' <=> HasItem(v)
  BY DEF HasItem
<1> QED BY <1>1, <1>2, Zenon DEF ListInv

\* After MarkReady the stream's flag is set, and the stream listed or announced.
LEMMA MarkReadyListInv ==
  ASSUME TypeInv, ListInv, NEW p \in Procs, NEW s \in Streams, NEW schedule,
         MarkReady(p, s, schedule), UNCHANGED ready, pc[p] # "enlist", 
         state[s] # "gone", 
         \A v \in Streams \ {s} : backlog'[v] = backlog[v] /\ state'[v] = state[v],
         pc[p] = "setReady" => arg[p].vb = s
  PROVE  ListInv'
<1>1. pc \in [Procs -> Labels] /\ arg \in [Procs -> ArgType] /\ itemsReady \in [Streams -> BOOLEAN]
  BY DEF TypeInv, TypeOK, ArgType
<1>2. itemsReady'[s] /\ \A v \in Streams \ {s} : itemsReady'[v] = itemsReady[v]
  BY <1>1, SMTT(30) DEF MarkReady
<1>3. \A q \in Procs \ {p} : pc'[q] = pc[q] /\ arg'[q] = arg[q]
  BY <1>1, SMTT(30) DEF MarkReady, Call, Return, Jump
<1>4. Lists(ready, s) \/ \E q \in Procs : Announcing(q, s)'
  <2>1. CASE itemsReady[s]
    BY <1>3, <2>1 DEF ListInv, Announcing
  <2>2. CASE ~itemsReady[s]
    <3>1. pc'[p] = "enlist" /\ arg'[p].vb = s
      BY <1>1, <2>2 DEF MarkReady, Call, Jump
    <3> QED BY <3>1, Zenon DEF Announcing
  <2> QED BY <2>1, <2>2, SMTT(30)
<1>5. ASSUME NEW v \in Streams \ {s}, NEW q \in Procs
      PROVE  /\ Announcing(q, v) => Announcing(q, v)'
             /\ Bringing(q, v) => Bringing(q, v)'
  BY <1>3, SMTT(30) DEF Announcing, Bringing
<1>6. \A v \in Streams \ {s} : HasItem(v)' => HasItem(v)
  BY SMTT(30) DEF HasItem
<1>7. \A q \in Procs : Announcing(q, s)' => Bringing(q, s)'
  BY DEF Announcing, Bringing
<1>8. \A v \in Streams : HasItem(v)' =>
        Lists(ready, v) \/ \E q \in Procs : Bringing(q, v)'
  BY <1>4, <1>5, <1>6, <1>7, ZenonT(40) DEF ListInv
<1>9. \A v \in Streams : state'[v] # "gone" /\ itemsReady'[v] =>
        Lists(ready, v) \/ \E q \in Procs : Announcing(q, v)'
  BY <1>2, <1>4, <1>5, ZenonT(40) DEF ListInv
<1>10. \A v \in Streams : state'[v] = "dead" /\ backlog'[v] > 0 => itemsReady'[v]
  BY <1>2, Zenon DEF ListInv
<1> QED BY <1>8, <1>9, <1>10, Zenon DEF ListInv

\* Whoever adds an item to a stream is on its way to announce it, or it is announced.
LEMMA ThreadListInv ==
  ASSUME TypeInv, ListInv, NEW t \in Threads, NEW s \in Streams,
         QueueMutation(t, s) \/ BackfillReceived(t, s) \/ CompleteBackfill(t, s) \/ SetDead(t, s)
  PROVE  ListInv'
<1>0. t \in Procs /\ pc \in [Procs -> Labels] /\ arg \in [Procs -> ArgType]
  BY DEF Procs, TypeInv, TypeOK, ArgType
<1>1. CASE QueueMutation(t, s)
  <2>1. /\ UNCHANGED <<ready, state, itemsReady>>
        /\ \A v \in Streams \ {s} : backlog'[v] = backlog[v]
        /\ state[s] # "dead" /\ pc[t] = "idle"
    BY <1>1 DEF QueueMutation, TypeInv, TypeOK, isActive
  <2>2. \A q \in Procs \ {t} : pc'[q] = pc[q] /\ arg'[q] = arg[q]
    BY <1>0, <1>1 DEF QueueMutation, Call, Jump
  <2>3. Bringing(t, s)'
    BY <1>0, <1>1 DEF QueueMutation, Call, Jump, Bringing
  <2>4. ASSUME NEW v \in Streams, NEW q \in Procs
        PROVE  /\ Announcing(q, v) => Announcing(q, v)'
               /\ Bringing(q, v) => Bringing(q, v)'
    BY <2>1, <2>2, ZenonT(40) DEF Announcing, Bringing
  <2>5. \A v \in Streams : HasItem(v)' => v = s \/ HasItem(v)
    BY <2>1 DEF HasItem
  <2>6. \A v \in Streams : HasItem(v)' =>
          Lists(ready, v) \/ \E q \in Procs : Bringing(q, v)'
    BY <1>0, <2>3, <2>4, <2>5, ZenonT(40) DEF ListInv
  <2> QED BY <2>1, <2>4, <2>6, Zenon DEF ListInv
<1>2. CASE BackfillReceived(t, s) \/ CompleteBackfill(t, s) \/ SetDead(t, s)
  <2>1. pc[t] = "idle" /\ state[s] # "gone" /\ UNCHANGED ready
    BY <1>2, Zenon DEF BackfillReceived, CompleteBackfill, SetDead
  <2>2. \E schedule \in BOOLEAN : MarkReady(t, s, schedule)
    BY <1>2, Zenon DEF BackfillReceived, CompleteBackfill, SetDead
  <2>3. \A v \in Streams \ {s} : backlog'[v] = backlog[v] /\ state'[v] = state[v]
    BY <1>2, Zenon DEF BackfillReceived, CompleteBackfill, SetDead, TypeInv, TypeOK
  <2> QED BY <1>0, <2>1, <2>2, <2>3, MarkReadyListInv, ZenonT(40)
<1> QED BY <1>1, <1>2

\* notifySeqnoAvailable and notifyStreamReady drop an announcement only for a
\* stream that is announced or listed already.
LEMMA AnnounceListInv ==
  ASSUME TypeInv, ListInv, NEW p \in Procs, Announce(p)
  PROVE  ListInv'
<1>0. pc \in [Procs -> Labels] /\ arg \in [Procs -> ArgType] /\ ready \in Seq(Streams)
  BY DEF TypeInv, TypeOK, ArgType
<1>1. CASE SetReady(p)
  <2> DEFINE s == arg[p].vb
  <2>1. s \in Streams /\ pc[p] = "setReady" /\ UNCHANGED <<ready, backlog, state>>
    BY <1>1 DEF SetReady, TypeInv, ArgInv
  <2>2. CASE isActive(s)
    <3>1. MarkReady(p, s, TRUE) /\ state[s] # "gone"
      BY <1>1, <2>2, Zenon DEF SetReady, isActive
    <3> HIDE DEF s
    <3>2. arg[p].vb = s
      BY DEF s
    <3> QED BY <2>1, <3>1, <3>2, MarkReadyListInv, Zenon
  <2>3. CASE ~isActive(s)
    <3>1. /\ UNCHANGED itemsReady
          /\ \A q \in Procs \ {p} : pc'[q] = pc[q] /\ arg'[q] = arg[q]
      BY <1>0, <1>1, <2>3 DEF SetReady, Return, Jump
    <3>2. HasItem(s) => itemsReady[s] /\ state[s] # "gone"
      BY <2>1, <2>3, SMTT(30) DEF HasItem, isActive, ListInv, TypeInv, TypeOK, StreamStates
    <3>3. ASSUME NEW v \in Streams, NEW q \in Procs
          PROVE  /\ Announcing(q, v) => Announcing(q, v)'
                 /\ v # s /\ Bringing(q, v) => Bringing(q, v)'
                 /\ Announcing(q, v)' => Bringing(q, v)'
      BY <2>1, <3>1, SMTT(30) DEF Announcing, Bringing
    <3>4. \A v \in Streams : HasItem(v)' <=> HasItem(v)
      BY <2>1 DEF HasItem
    <3>5. \A v \in Streams : HasItem(v) =>
            Lists(ready, v) \/ \E q \in Procs : Bringing(q, v)'
      BY <2>1, <3>2, <3>3, ZenonT(40) DEF ListInv
    <3> QED BY <2>1, <3>1, <3>3, <3>4, <3>5, Zenon DEF ListInv
  <2> QED BY <2>2, <2>3
<1>2. CASE Enlist(p)
  <2> DEFINE s == arg[p].vb
  <2>1. s \in Streams /\ pc[p] = "enlist" /\ UNCHANGED <<itemsReady, backlog, state>>
    BY <1>2 DEF Enlist, TypeInv, ArgInv, streamVars
  <2>2. \A q \in Procs \ {p} : pc'[q] = pc[q] /\ arg'[q] = arg[q]
    BY <1>0, <1>2 DEF Enlist, Return, Call, Jump
  <2>3. Once(ready') /\ \A v \in Streams : Lists(ready', v) <=> v = s \/ Lists(ready, v)
    <3>1. CASE Lists(ready, s)
      BY <1>2, <2>1, <3>1, ZenonT(40) DEF Enlist, InReady, Lists, ListInv
    <3>2. CASE ~Lists(ready, s)
      <4>1. ready' = Append(ready, s)
        BY <1>2, <3>2 DEF Enlist, InReady, Lists
      <4> HIDE DEF s
      <4> QED BY <1>0, <2>1, <3>2, <4>1, AppendOnce, Zenon DEF ListInv
    <3> QED BY <3>1, <3>2
  <2>4. ASSUME NEW v \in Streams, v # s, NEW q \in Procs
        PROVE  /\ Announcing(q, v) => Announcing(q, v)'
               /\ Bringing(q, v) => Bringing(q, v)'
    BY <2>2, <2>4 DEF Announcing, Bringing
  <2>5. \A v \in Streams : HasItem(v)' <=> HasItem(v)
    BY <2>1 DEF HasItem
  <2> HIDE DEF s
  <2> QED BY <2>1, <2>3, <2>4, <2>5, Zenon DEF ListInv
<1>3. CASE TestFull(p) \/ TestPaused(p) \/ Schedule(p) \/ PushNotification(p) \/ NotifyDirect(p)
  <2>1. pc[p] \notin {"setReady", "enlist"} /\ UNCHANGED <<ready, backlog, state, itemsReady>>
    BY <1>3, Zenon DEF TestFull, TestPaused, Schedule, PushNotification, NotifyDirect, streamVars
  <2>2. \A q \in Procs \ {p} : pc'[q] = pc[q] /\ arg'[q] = arg[q]
    BY <1>0, <1>3 DEF TestFull, TestPaused, Schedule, PushNotification, NotifyDirect, Return,
                      Goto, Jump
  <2> QED BY <2>1, <2>2, QuietListInv, SMTT(30)
<1> QED BY <1>1, <1>2, <1>3 DEF Announce

\* getNextItem: the streams it looks at and finds empty leave the list with their
\* flags cleared; the others keep both.
LEMMA GetListInv ==
  ASSUME TypeInv, ListInv, GetNothing \/ \E size \in Sizes : GetItem(size)
  PROVE  ListInv'
<1>0. /\ pc \in [Procs -> Labels] /\ ready \in Seq(Streams) /\ backlog \in [Streams -> Nat]
      /\ worker \in Procs
  BY DEF TypeInv, TypeOK, Procs
<1>1. /\ pc[worker] = "getNextItem" /\ UNCHANGED <<arg, state>>
      /\ \A q \in Procs \ {worker} : pc'[q] = pc[q]
  BY <1>0 DEF GetNothing, GetItem, Goto, Jump
<1>2. ASSUME NEW v \in Streams, NEW q \in Procs
      PROVE  /\ Announcing(q, v) => Announcing(q, v)'
             /\ Bringing(q, v) => Bringing(q, v)'
  BY <1>1 DEF Announcing, Bringing
<1>3. CASE GetNothing
  <2>1. /\ ready' = << >> /\ UNCHANGED backlog
        /\ \A v \in Streams : Lists(ready, v) => ~HasItem(v)
        /\ \A v \in Streams : itemsReady'[v] <=>
             itemsReady[v] /\ ~(state[v] # "gone" /\ Lists(ready, v))
    <3>1. \A v \in Streams : Lists(ready, v) <=> \E i \in 1..Len(ready) : ready[i] = v
      BY <1>0 DEF Lists
    <3>2. ready' = << >> /\ UNCHANGED backlog /\ itemsReady' = Quieted(Len(ready))
      BY <1>3 DEF GetNothing
    <3>3. \A i \in 1..Len(ready) : ~HasItem(ready[i])
      BY <1>3 DEF GetNothing, AllQuiet
    <3>4. \A v \in Streams : itemsReady'[v] <=>
             itemsReady[v] /\ ~(state[v] # "gone" /\ Lists(ready, v))
      BY <3>1, <3>2, ZenonT(40) DEF Quieted
    <3>5. \A v \in Streams : Lists(ready, v) => ~HasItem(v)
      BY <3>1, <3>3, ZenonT(40)
    <3> QED BY <3>2, <3>4, <3>5, ZenonT(40)
  <2>2. \A v \in Streams : HasItem(v)' <=> HasItem(v)
    BY <1>1, <2>1 DEF HasItem
  <2>3. Once(ready')
    BY <2>1, SMTT(30) DEF Once
  <2>4. \A v \in Streams : state[v] = "dead" /\ backlog[v] > 0 => HasItem(v) /\ itemsReady[v]
    BY DEF HasItem, ListInv
  <2> QED BY <1>1, <1>2, <2>1, <2>2, <2>3, <2>4, ZenonT(40) DEF ListInv
<1>4. ASSUME NEW size \in Sizes, GetItem(size)
      PROVE  ListInv'
  <2>1. PICK n \in 1..Len(ready) :
          /\ AllQuiet(n - 1)
          /\ ready' = Append(SubSeq(ready, n + 1, Len(ready)), ready[n])
          /\ backlog' = [backlog EXCEPT ![ready[n]] = @ - 1]
          /\ itemsReady' = [Quieted(n - 1) EXCEPT ![ready[n]] = TRUE]
    BY <1>4, Zenon DEF GetItem
  <2> DEFINE w == SubSeq(ready, n + 1, Len(ready))
             Served(v) == \E i \in 1..n-1 : ready[i] = v
  <2>2. ready[n] \in Streams
    BY <1>0
  <2>3. /\ w \in Seq(Streams) /\ Once(w)
        /\ \A v \in Streams : Lists(w, v) <=> \E i \in n+1..Len(ready) : ready[i] = v
    BY <1>0, RestOfList, Zenon DEF ListInv
  <2> HIDE DEF w
  <2>4. ~Lists(w, ready[n])
    <3>1. ASSUME NEW i \in n+1..Len(ready), ready[i] = ready[n]
          PROVE  FALSE
      <4>1. i \in DOMAIN ready /\ n \in DOMAIN ready /\ i # n
        BY <1>0
      <4> QED BY <3>1, <4>1 DEF ListInv, Once
    <3> QED BY <2>2, <2>3, <3>1
  <2>5. Once(ready') /\ \A v \in Streams : Lists(ready', v) <=> v = ready[n] \/ Lists(w, v)
    BY <2>1, <2>2, <2>3, <2>4, AppendOnce, Zenon DEF w
  <2>6. \A v \in Streams : Lists(ready, v) => Lists(ready', v) \/ Served(v)
    <3> SUFFICES ASSUME NEW v \in Streams, Lists(ready, v)
                 PROVE  Lists(ready', v) \/ Served(v)
      OBVIOUS
    <3>1. PICK i \in 1..Len(ready) : ready[i] = v
      BY <1>0 DEF Lists
    <3>2. i \in 1..n-1 \/ i = n \/ i \in n+1..Len(ready)
      BY <1>0
    <3> QED BY <2>3, <2>5, <3>1, <3>2
  <2>7. \A v \in Streams : Served(v) => ~HasItem(v)
    BY <2>1 DEF AllQuiet
  <2>8. /\ itemsReady'[ready[n]]
        /\ \A v \in Streams \ {ready[n]} :
             itemsReady'[v] <=> itemsReady[v] /\ ~(state[v] # "gone" /\ Served(v))
    BY <2>1, <2>2, ZenonT(40) DEF Quieted
  <2>9. \A v \in Streams \ {ready[n]} : backlog'[v] = backlog[v]
    BY <1>0, <2>1
  <2>10. \A v \in Streams \ {ready[n]} : HasItem(v)' => HasItem(v)
    BY <1>1, <2>9 DEF HasItem
  <2> HIDE DEF Served
  <2>11. \A v \in Streams : state'[v] = "dead" /\ backlog'[v] > 0 => itemsReady'[v]
    <3>1. \A v \in Streams : state[v] = "dead" /\ backlog[v] > 0 => itemsReady[v] /\ ~Served(v)
      BY <2>7, ZenonT(40) DEF HasItem, ListInv
    <3> QED BY <1>1, <2>8, <2>9, <3>1
  <2>12. \A v \in Streams : state'[v] # "gone" /\ itemsReady'[v] =>
           Lists(ready', v) \/ \E q \in Procs : Announcing(q, v)'
    BY <1>1, <1>2, <2>5, <2>6, <2>8, ZenonT(40) DEF ListInv
  <2>13. \A v \in Streams : HasItem(v)' =>
           Lists(ready', v) \/ \E q \in Procs : Bringing(q, v)'
    BY <1>2, <2>5, <2>6, <2>7, <2>10, Zenon DEF ListInv
  <2> QED BY <2>5, <2>11, <2>12, <2>13, ZenonT(40) DEF ListInv
<1> QED BY <1>3, <1>4

\* streamRequest and closeStream replace or remove at most one stream.
LEMMA RequestListInv ==
  ASSUME TypeInv, ListInv, NEW s \in Streams,
         StreamRequest(s) \/ CloseStream(s) \/ RefuseRequest(s)
  PROVE  ListInv'
<1>0. /\ pc \in [Procs -> Labels] /\ arg \in [Procs -> ArgType] /\ ready \in Seq(Streams)
      /\ itemsReady \in [Streams -> BOOLEAN] /\ worker \in Procs
  BY DEF TypeInv, TypeOK, ArgType, Procs
<1>1. /\ pc[worker] = "blocked"
      /\ \A v \in Streams \ {s} : /\ backlog'[v] = backlog[v] /\ state'[v] = state[v]
                                  /\ itemsReady'[v] = itemsReady[v]
  BY ZenonT(40) DEF StreamRequest, CloseStream, RefuseRequest, MarkReady, TypeInv, TypeOK
<1>2. ASSUME NEW v \in Streams, v # s, NEW q \in Procs
      PROVE  /\ Announcing(q, v) => Announcing(q, v)'
             /\ Bringing(q, v) => Bringing(q, v)'
  <2>1. CASE StreamRequest(s)
    BY <1>0, <1>1, <1>2, <2>1, SMTT(30) DEF StreamRequest, Stale, Announcing, Bringing
  <2>2. CASE CloseStream(s)
    <3>1. \A r \in Procs \ {worker} : pc'[r] = pc[r] /\ arg'[r] = arg[r]
      BY <1>0, <2>2 DEF CloseStream, MarkReady, Call, Return, Jump
    <3> QED BY <1>1, <3>1, Zenon DEF Announcing, Bringing
  <2>3. CASE RefuseRequest(s)
    <3>1. pc' = [pc EXCEPT ![worker] = "step"] /\ arg' = arg
      BY <2>3, Zenon DEF RefuseRequest, Goto, Jump
    <3>2. \A r \in Procs \ {worker} : pc'[r] = pc[r] /\ arg'[r] = arg[r]
      BY <1>0, <3>1
    <3> QED BY <1>1, <3>2, Zenon DEF Announcing, Bringing
  <2> QED BY <2>1, <2>2, <2>3
<1>3. \A v \in Streams \ {s} : HasItem(v)' => HasItem(v)
  BY <1>1, Zenon DEF HasItem
<1> DEFINE w == Without(ready, s)
<1>4. w \in Seq(Streams) /\ Once(w) /\ ~Lists(w, s)
      /\ \A v \in Streams \ {s} : Lists(w, v) <=> Lists(ready, v)
  BY <1>0, WithoutType, WithoutProperties, ZenonT(40) DEF ListInv
<1>5. CASE StreamRequest(s)
  <2>1. Once(ready') /\ Lists(ready', s)
        /\ \A v \in Streams \ {s} : Lists(ready', v) <=> Lists(ready, v)
    <3>1. ready' = Append(w, s)
      BY <1>5, Zenon DEF StreamRequest
    <3> HIDE DEF w
    <3> QED BY <1>4, <3>1, AppendOnce, SMTT(30)
  <2>2. state'[s] # "dead"
    BY <1>5 DEF StreamRequest, TypeInv, TypeOK
  <2> HIDE DEF w
  <2> QED BY <1>1, <1>2, <1>3, <2>1, <2>2, Zenon DEF ListInv
<1>6. CASE CloseStream(s)
  <2>1. ready' = w /\ state'[s] = "gone" /\ ~HasItem(s)'
    BY <1>6 DEF CloseStream, TypeInv, TypeOK, HasItem
  <2> HIDE DEF w
  <2> QED BY <1>1, <1>2, <1>3, <1>4, <2>1, Zenon DEF ListInv
<1>7. CASE RefuseRequest(s)
  <2>1. CASE UNCHANGED <<state, backlog, ready>>
    <3>1. pc' = [pc EXCEPT ![worker] = "step"] /\ UNCHANGED <<itemsReady, arg>>
      BY <1>7, Zenon DEF RefuseRequest, Goto, Jump
    <3>2. \A q \in Procs \ {worker} : pc'[q] = pc[q]
      BY <1>0, <3>1
    <3> QED BY <1>1, <2>1, <3>1, <3>2, QuietListInv, Zenon
  <2>2. CASE ~UNCHANGED <<state, backlog, ready>>
    <3>1. ready' = w /\ state'[s] = "gone" /\ ~HasItem(s)'
      BY <1>7, <2>2, SMTT(30) DEF RefuseRequest, TypeInv, TypeOK, HasItem
    <3> HIDE DEF w
    <3> QED BY <1>1, <1>2, <1>3, <1>4, <3>1, Zenon DEF ListInv
  <2> QED BY <2>1, <2>2
<1> QED BY <1>5, <1>6, <1>7

\* Every step keeps the list truthful.
LEMMA NextListInv == TypeInv /\ ListInv /\ [Next]_vars => ListInv'
<1> SUFFICES ASSUME TypeInv, ListInv, [Next]_vars PROVE ListInv'
  OBVIOUS
<1>1. CASE UNCHANGED vars
  BY <1>1, QuietListInv DEF vars, streamVars
<1>2. CASE Notifier \/ Manager \/ BecomeIdle
  BY <1>2, QuietListInv, ZenonT(40)
     DEF Notifier, Manager, NotifierTake, NotifierCheck, NotifierNotify, NotifierClear,
         ManagerCollect, ManagerNotify, BecomeIdle, streamVars
<1>3. CASE Acknowledge \/ WorkerWakes \/ Step \/ GetNoRoom
  <2>1. /\ pc[worker] \notin {"setReady", "enlist"}
        /\ UNCHANGED <<ready, backlog, state, itemsReady, arg>>
        /\ \E l : Jump(worker, l)
    BY <1>3 DEF Acknowledge, BufferAck, WorkerWakes, Step, GetNoRoom, Goto, streamVars
  <2>2. \A q \in Procs \ {worker} : pc'[q] = pc[q]
    BY <2>1 DEF Jump, TypeInv, TypeOK
  <2> QED BY <2>1, <2>2, QuietListInv, Zenon
<1> QED BY <1>1, <1>2, <1>3, ThreadListInv, AnnounceListInv, GetListInv, RequestListInv, SMTT(30)
        DEF Next, Worker

\* The list is truthful throughout.
LEMMA ListInvHolds == Spec => []ListInv
<1>1. TypeInv /\ ListInv /\ [Next]_vars => ListInv'
  BY NextListInv
<1> QED BY TypeInvHolds, InitListInv, <1>1, PTL DEF Spec

\* notifyStreamReady, streamRequest and getNextItem never list a stream twice.
THEOREM StreamListedOnce == Spec => []ReadyOnce
<1>1. ListInv => ReadyOnce
  BY ZenonT(40) DEF ListInv, ReadyOnce, Once
<1> QED BY ListInvHolds, <1>1, PTL

\* A stream whose itemsReady flag keeps later items from announcing it is on the
\* list, or a thread is on its way to put it there.
THEOREM FlagIsTruthful == Spec => []AnnouncedIsListed
<1>1. ListInv => AnnouncedIsListed
  BY ZenonT(40) DEF ListInv, AnnouncedIsListed, InReady, Lists, Announcing
<1> QED BY ListInvHolds, <1>1, PTL

\* No item is ever forgotten: its stream is listed, or about to be.
THEOREM NoStreamForgotten == Spec => []BacklogIsAnnounced
<1>1. ListInv => BacklogIsAnnounced
  BY Zenon DEF ListInv, BacklogIsAnnounced, InReady, Lists, Bringing
<1> QED BY ListInvHolds, <1>1, PTL
=============================================================================
