------------------------- MODULE DcpProducerWakeup -------------------------
(***************************************************************************)
(* How a DCP producer connection goes to sleep and is woken up             *)
(* (ep-engine/src/dcp-producer.cc, dcp-stream.cc, connmap.cc).             *)
(*                                                                         *)
(* The connection's memcached worker calls step() until there is nothing   *)
(* to send, and then blocks with the paused flag set.  Front-end threads   *)
(* and backfill tasks queue items for a stream, put the stream on the      *)
(* producer's ready list and, when the connection looks paused, have it    *)
(* notified: directly, or through the queue that the ConnNotifier task     *)
(* empties.  The ConnManager task is the backstop: it notifies every       *)
(* paused connection that has not been walked for a while.                 *)
(*                                                                         *)
(* A lock section is one step, and every atomic that is read or written    *)
(* outside a lock is a step of its own.  Two sections are several steps:   *)
(* getNextItem, because the paused flag it clears first can be read while  *)
(* it holds queueLock, and the notifications made under releaseLock,       *)
(* which wait there for the worker.                                        *)
(***************************************************************************)
EXTENDS Naturals, Sequences

CONSTANTS
  Streams,           \* the vbuckets streamed over the connection
  Threads,           \* front-end threads and backfill tasks
  MaxItems,          \* bound: items queued in all
  BufferSize,        \* max_bytes of the flow-control log
  Sizes,             \* sizes a message may have
  worker             \* the memcached worker that owns the connection

ASSUME WorkerAssumption == worker \notin Threads
ASSUME SizesAssumption == Sizes \subseteq Nat \ {0} /\ BufferSize \in Nat \ {0}
ASSUME MaxItemsAssumption == MaxItems \in Nat

VARIABLES
  backlog,      \* backlog[s]: items that next() on stream s would return
  held,         \* held[s]: items it will read once its backfill is complete
  itemsReady,   \* itemsReady[s]: the stream's flag
  state,        \* state[s], see StreamStates
  ready,        \* the producer's ready list
  bytes_sent,   \* unacknowledged bytes in the flow-control log
  paused, notificationScheduled, notifySent,    \* the Notifiable flags
  pendingNotifications,   \* entries for this connection in ConnMap's queue
  notifier,     \* what the ConnNotifier task is about to do with the connection
  manager,      \* what the ConnManager task is about to do with it
  ioPending,    \* the connection is on its worker's pending_io list
  idle,         \* the connection was last walked more than maxIdleTime ago
  queued,       \* items queued so far
  pc, arg       \* where each process is, and the stream and mode it works for

streamVars == <<backlog, held, itemsReady, state, queued>>
notifyVars == <<notificationScheduled, notifySent, pendingNotifications>>
taskVars   == <<notifier, manager, idle>>
vars == <<streamVars, ready, bytes_sent, paused, notifyVars, taskVars, ioPending, pc, arg>>

\* Waiting for a backfill, reading checkpoints, dead, or not in the streams map.
StreamStates == {"backfilling", "inMemory", "dead", "gone"}
isActive(s) == state[s] \in {"backfilling", "inMemory"}

Procs == Threads \union {worker}
NoArg == [vb |-> "none", schedule |-> TRUE]

isFull == BufferSize <= bytes_sent

\* The worker holds queueLock inside getNextItem, and its thread's lock (which
\* notify_io_complete takes) for as long as it serves the connection.
QueueLockFree  == pc[worker] # "getNextItem"
ThreadLockFree == pc[worker] = "blocked"

\* A thread that notifies directly, and the ConnNotifier, hold releaseLock from the
\* look at the connection on.
ReleaseLockFree == notifier \in {"idle", "check"} /\ \A p \in Procs : pc[p] # "direct"

\* Where a process goes when the call it makes returns.
Home(p) == IF p = worker THEN "step" ELSE "idle"
Jump(p, l) == pc' = [pc EXCEPT ![p] = l]
Goto(p, l) == Jump(p, l) /\ UNCHANGED arg
Call(p, l, s, schedule) ==
  Jump(p, l) /\ arg' = [arg EXCEPT ![p] = [vb |-> s, schedule |-> schedule]]
Return(p) == Jump(p, Home(p)) /\ arg' = [arg EXCEPT ![p] = NoArg]

Init ==
  /\ backlog = [s \in Streams |-> 0]
  /\ held = [s \in Streams |-> 0]
  /\ itemsReady = [s \in Streams |-> FALSE]
  /\ state = [s \in Streams |-> "gone"]
  /\ ready = << >>
  /\ bytes_sent = 0
  /\ paused = TRUE
  /\ notificationScheduled = FALSE
  /\ notifySent = FALSE
  /\ pendingNotifications = 0
  /\ notifier = "idle"
  /\ manager = "idle"
  /\ ioPending = FALSE
  /\ idle = FALSE
  /\ queued = 0
  /\ pc = [p \in Procs |-> IF p = worker THEN "blocked" ELSE "idle"]
  /\ arg = [p \in Procs |-> NoArg]

-----------------------------------------------------------------------------
(***************************************************************************)
(* Queueing an item and announcing its stream.                             *)
(***************************************************************************)
\* A front-end thread queues a mutation in the checkpoint, and then
\* DcpProducer::notifySeqnoAvailable finds the stream in the map under queueLock.
QueueMutation(t, s) ==
  /\ pc[t] = "idle"
  /\ queued < MaxItems
  /\ isActive(s)
  /\ QueueLockFree
  /\ queued' = queued + 1
  /\ IF state[s] = "inMemory"
       THEN backlog' = [backlog EXCEPT ![s] = @ + 1] /\ UNCHANGED held
       ELSE held' = [held EXCEPT ![s] = @ + 1] /\ UNCHANGED backlog
  /\ Call(t, "setReady", s, TRUE)
  /\ UNCHANGED <<itemsReady, state, ready, bytes_sent, paused, notifyVars, taskVars, ioPending>>

\* if (!itemsReady) { itemsReady = true; lh.unlock(); producer->notifyStreamReady(vb_, ...); }
\* A stream that is already announced is left alone.
MarkReady(p, s, schedule) ==
  IF itemsReady[s]
    THEN Return(p) /\ UNCHANGED itemsReady
    ELSE Call(p, "enlist", s, schedule) /\ itemsReady' = [itemsReady EXCEPT ![s] = TRUE]

\* ActiveStream::notifySeqnoAvailable, under streamMutex.
SetReady(p) ==
  /\ pc[p] = "setReady"
  /\ IF isActive(arg[p].vb)
       THEN MarkReady(p, arg[p].vb, TRUE)
       ELSE Return(p) /\ UNCHANGED itemsReady
  /\ UNCHANGED <<backlog, held, state, queued, ready, bytes_sent, paused, notifyVars, taskVars,
                 ioPending>>

\* ActiveStream::markDiskSnapshot and backfillReceived: a message read from disk
\* goes on the stream's own queue under streamMutex.
BackfillReceived(t, s) ==
  /\ pc[t] = "idle"
  /\ queued < MaxItems
  /\ state[s] = "backfilling"
  /\ queued' = queued + 1
  /\ backlog' = [backlog EXCEPT ![s] = @ + 1]
  /\ MarkReady(t, s, FALSE)
  /\ UNCHANGED <<held, state, ready, bytes_sent, paused, notifyVars, taskVars, ioPending>>

\* Mutation: the end of the backfill is not announced.
CompleteBackfillMutant(t, s) ==
  /\ pc[t] = "idle"
  /\ state[s] = "backfilling"
  /\ state' = [state EXCEPT ![s] = "inMemory"]
  /\ backlog' = [backlog EXCEPT ![s] = @ + held[s]]
  /\ held' = [held EXCEPT ![s] = 0]
  /\ UNCHANGED <<queued, itemsReady, ready, bytes_sent, paused, notifyVars, taskVars, ioPending,
                 pc, arg>>

\* ActiveStream::completeBackfill: from here on next() goes over to the checkpoints
\* when the stream's own queue is empty.
CompleteBackfill(t, s) ==
  /\ pc[t] = "idle"
  /\ state[s] = "backfilling"
  /\ state' = [state EXCEPT ![s] = "inMemory"]
  /\ backlog' = [backlog EXCEPT ![s] = @ + held[s]]
  /\ held' = [held EXCEPT ![s] = 0]
  /\ MarkReady(t, s, FALSE)
  /\ UNCHANGED <<queued, ready, bytes_sent, paused, notifyVars, taskVars, ioPending>>

\* vbucketStateChanged and ActiveStream::setDead: of the items of the stream, only
\* those on its own queue still go out, then the end of the stream.  A stream that
\* is already dead is announced again.
SetDead(t, s) ==
  /\ pc[t] = "idle"
  /\ state[s] # "gone"
  /\ QueueLockFree
  /\ state' = [state EXCEPT ![s] = "dead"]
  /\ held' = [held EXCEPT ![s] = 0]
  /\ \/ state[s] = "dead" /\ UNCHANGED backlog
     \/ state[s] = "backfilling" /\ backlog' = [backlog EXCEPT ![s] = @ + 1]
     \/ /\ state[s] = "inMemory"
        /\ \E fetched \in 0..backlog[s] : backlog' = [backlog EXCEPT ![s] = fetched + 1]
  /\ MarkReady(t, s, TRUE)
  /\ UNCHANGED <<queued, ready, bytes_sent, paused, notifyVars, taskVars, ioPending>>

InReady(s) == \E i \in DOMAIN ready : ready[i] = s

\* ready.remove(vbucket): a vbucket is on the list at most once (ReadyOnce).
Without(q, s) ==
  LET i == CHOOSE j \in DOMAIN q : q[j] = s
  IN  IF \E j \in DOMAIN q : q[j] = s
        THEN SubSeq(q, 1, i - 1) \o SubSeq(q, i + 1, Len(q)) ELSE q

\* Mutation: the list is not searched first.
EnlistMutant(p) ==
  /\ pc[p] = "enlist"
  /\ QueueLockFree
  /\ Call(p, "isFull", "none", arg[p].schedule)
  /\ ready' = Append(ready, arg[p].vb)
  /\ UNCHANGED <<streamVars, bytes_sent, paused, notifyVars, taskVars, ioPending>>

\* DcpProducer::notifyStreamReady, the part under queueLock.
Enlist(p) ==
  /\ pc[p] = "enlist"
  /\ QueueLockFree
  /\ IF InReady(arg[p].vb)
       THEN Return(p) /\ UNCHANGED ready
       ELSE Call(p, "isFull", "none", arg[p].schedule) /\ ready' = Append(ready, arg[p].vb)
  /\ UNCHANGED <<streamVars, bytes_sent, paused, notifyVars, taskVars, ioPending>>

\* notifyStreamReady reads the log after it released queueLock.
TestFull(p) ==
  /\ pc[p] = "isFull"
  /\ IF isFull THEN Return(p) ELSE Goto(p, "isPaused")
  /\ UNCHANGED <<streamVars, ready, bytes_sent, paused, notifyVars, taskVars, ioPending>>

-----------------------------------------------------------------------------
(***************************************************************************)
(* ConnMap::notifyPausedConnection.                                        *)
(***************************************************************************)
\* if (tp->isPaused() && ...), under releaseLock for a direct notification.
TestPaused(p) ==
  /\ pc[p] = "isPaused"
  /\ arg[p].schedule \/ ReleaseLockFree
  /\ IF ~paused THEN Return(p)
     ELSE Goto(p, IF arg[p].schedule THEN "schedule" ELSE "direct")
  /\ UNCHANGED <<streamVars, ready, bytes_sent, paused, notifyVars, taskVars, ioPending>>

\* Mutation: the result of the exchange is ignored.
ScheduleMutant(p) ==
  /\ pc[p] = "schedule"
  /\ notificationScheduled' = TRUE
  /\ Goto(p, "push")
  /\ UNCHANGED <<streamVars, ready, bytes_sent, paused, notifySent, pendingNotifications,
                 taskVars, ioPending>>

\* ... && tp->setNotificationScheduled(true), a compare-and-exchange.
Schedule(p) ==
  /\ pc[p] = "schedule"
  /\ notificationScheduled' = TRUE
  /\ IF notificationScheduled THEN Return(p) ELSE Goto(p, "push")
  /\ UNCHANGED <<streamVars, ready, bytes_sent, paused, notifySent, pendingNotifications,
                 taskVars, ioPending>>

\* pendingNotifications.push(conn)
PushNotification(p) ==
  /\ pc[p] = "push"
  /\ pendingNotifications' = pendingNotifications + 1
  /\ Return(p)
  /\ UNCHANGED <<streamVars, ready, bytes_sent, paused, notificationScheduled, notifySent,
                 taskVars, ioPending>>

\* engine.notifyIOComplete waits for the worker's thread lock.
NotifyDirect(p) ==
  /\ pc[p] = "direct"
  /\ ThreadLockFree
  /\ ioPending' = TRUE
  /\ notifySent' = TRUE
  /\ Return(p)
  /\ UNCHANGED <<streamVars, ready, bytes_sent, paused, notificationScheduled,
                 pendingNotifications, taskVars>>

-----------------------------------------------------------------------------
(***************************************************************************)
(* ConnMap::notifyAllPausedConnections, run by the ConnNotifier task.      *)
(***************************************************************************)
\* pendingNotifications.getAll(queue), before releaseLock is taken.
NotifierTake ==
  /\ notifier = "idle"
  /\ pendingNotifications > 0
  /\ pendingNotifications' = 0
  /\ notifier' = "check"
  /\ UNCHANGED <<streamVars, ready, bytes_sent, paused, notificationScheduled, notifySent,
                 manager, idle, ioPending, pc, arg>>

NotifierCheck ==
  /\ notifier = "check"
  /\ ReleaseLockFree
  /\ notifier' = IF paused THEN "notify" ELSE "clear"
  /\ UNCHANGED <<streamVars, ready, bytes_sent, paused, notifyVars, manager, idle,
                 ioPending, pc, arg>>

NotifierNotify ==
  /\ notifier = "notify"
  /\ ThreadLockFree
  /\ ioPending' = TRUE
  /\ notifySent' = TRUE
  /\ notifier' = "clear"
  /\ UNCHANGED <<streamVars, ready, bytes_sent, paused, notificationScheduled,
                 pendingNotifications, manager, idle, pc, arg>>

\* tp->setNotificationScheduled(false)
NotifierClear ==
  /\ notifier = "clear"
  /\ notificationScheduled' = FALSE
  /\ notifier' = "idle"
  /\ UNCHANGED <<streamVars, ready, bytes_sent, paused, notifySent, pendingNotifications,
                 manager, idle, ioPending, pc, arg>>

-----------------------------------------------------------------------------
(***************************************************************************)
(* DcpConnMap::manageConnections, run by the ConnManager task.             *)
(***************************************************************************)
\* Mutation: a connection that was notified once is not looked at again.
ManagerCollectMutant ==
  /\ manager = "idle"
  /\ paused /\ ~notifySent
  /\ manager' = "notify"
  /\ UNCHANGED <<streamVars, ready, bytes_sent, paused, notifyVars, notifier, idle,
                 ioPending, pc, arg>>

ManagerCollect ==
  /\ manager = "idle"
  /\ paused /\ (~notifySent \/ idle)
  /\ manager' = "notify"
  /\ UNCHANGED <<streamVars, ready, bytes_sent, paused, notifyVars, notifier, idle,
                 ioPending, pc, arg>>

ManagerNotify ==
  /\ manager = "notify"
  /\ ReleaseLockFree
  /\ ThreadLockFree
  /\ ioPending' = TRUE
  /\ notifySent' = TRUE
  /\ manager' = "idle"
  /\ UNCHANGED <<streamVars, ready, bytes_sent, paused, notificationScheduled,
                 pendingNotifications, notifier, idle, pc, arg>>

\* maxIdleTime seconds pass without a step().
BecomeIdle ==
  /\ ~idle
  /\ ThreadLockFree
  /\ idle' = TRUE
  /\ UNCHANGED <<streamVars, ready, bytes_sent, paused, notifyVars, notifier, manager,
                 ioPending, pc, arg>>

-----------------------------------------------------------------------------
(***************************************************************************)
(* The worker.                                                             *)
(***************************************************************************)
\* thread_libevent_process takes the connection off pending_io and runs it.
WorkerWakes ==
  /\ pc[worker] = "blocked"
  /\ ioPending
  /\ ioPending' = FALSE
  /\ Goto(worker, "step")
  /\ UNCHANGED <<streamVars, ready, bytes_sent, paused, notifyVars, taskVars>>

\* Mutation: the bytes are freed twice.
BufferAckMutant(n) ==
  /\ pc[worker] = "blocked"
  /\ n <= bytes_sent
  /\ bytes_sent' = bytes_sent - 2 * n
  /\ ioPending' = FALSE
  /\ Goto(worker, IF isFull THEN "isPaused" ELSE "step")
  /\ UNCHANGED <<streamVars, ready, paused, notifyVars, taskVars>>

\* bufferAcknowledgement: a socket event runs the connection, which frees the
\* bytes under queueLock, asks for a notification if the log was full, and then
\* steps.
BufferAck(n) ==
  /\ pc[worker] = "blocked"
  /\ n <= bytes_sent
  /\ bytes_sent' = bytes_sent - n
  /\ ioPending' = FALSE
  /\ Goto(worker, IF isFull THEN "isPaused" ELSE "step")
  /\ UNCHANGED <<streamVars, ready, paused, notifyVars, taskVars>>

Stale(p, s) == pc[p] = "setReady" /\ arg[p].vb = s

\* streamRequest, a request on this connection like the next one.  The stream has
\* what the checkpoints hold for it to send, at once or after a backfill; in the
\* first case it counts itself ready.  A thread still holding the stream this one
\* replaces finds that one dead.
StreamRequest(s) ==
  /\ pc[worker] = "blocked"
  /\ ~isActive(s)
  /\ \E n \in 0..(MaxItems - queued), inMemory \in BOOLEAN :
       /\ queued' = queued + n
       /\ state' = [state EXCEPT ![s] = IF inMemory THEN "inMemory" ELSE "backfilling"]
       /\ backlog' = [backlog EXCEPT ![s] = IF inMemory THEN n ELSE 0]
       /\ held' = [held EXCEPT ![s] = IF inMemory THEN 0 ELSE n]
       /\ itemsReady' = [itemsReady EXCEPT ![s] = inMemory]
  /\ ready' = Append(Without(ready, s), s)
  /\ ioPending' = FALSE
  /\ pc' = [p \in Procs |-> IF p = worker THEN "step"
                           ELSE IF Stale(p, s) THEN "idle" ELSE pc[p]]
  /\ arg' = [p \in Procs |-> IF Stale(p, s) THEN NoArg ELSE arg[p]]
  /\ UNCHANGED <<bytes_sent, paused, notifyVars, taskVars>>

\* closeStream: the stream leaves the map and the ready list; if it was active it
\* is then set dead, which announces it once more.
CloseStream(s) ==
  /\ pc[worker] = "blocked"
  /\ state[s] # "gone"
  /\ state' = [state EXCEPT ![s] = "gone"]
  /\ backlog' = [backlog EXCEPT ![s] = 0]
  /\ held' = [held EXCEPT ![s] = 0]
  /\ ready' = Without(ready, s)
  /\ ioPending' = FALSE
  /\ IF isActive(s) THEN MarkReady(worker, s, TRUE)
     ELSE Return(worker) /\ UNCHANGED itemsReady
  /\ UNCHANGED <<queued, bytes_sent, paused, notifyVars, taskVars>>

\* A request that is answered with an error still has the connection step.  By the
\* time streamRequest asks for a rollback, it has erased the dead stream it found.
RefuseRequest(s) ==
  /\ pc[worker] = "blocked"
  /\ \/ /\ state[s] = "dead"
        /\ state' = [state EXCEPT ![s] = "gone"]
        /\ backlog' = [backlog EXCEPT ![s] = 0]
        /\ ready' = Without(ready, s)
     \/ UNCHANGED <<state, backlog, ready>>
  /\ ioPending' = FALSE
  /\ Goto(worker, "step")
  /\ UNCHANGED <<held, itemsReady, queued, bytes_sent, paused, notifyVars, taskVars>>

\* step(): setLastWalkTime, then getNextItem takes queueLock and clears paused.
Step ==
  /\ pc[worker] = "step"
  /\ idle' = FALSE
  /\ paused' = FALSE
  /\ Goto(worker, "getNextItem")
  /\ UNCHANGED <<streamVars, ready, bytes_sent, notifyVars, notifier, manager, ioPending>>

HasItem(s) == state[s] # "gone" /\ backlog[s] > 0
AllQuiet(n) == \A i \in 1..n : ~HasItem(ready[i])

\* Mutation: a stream without items keeps its flag.
QuietedMutant(n) == itemsReady

\* ActiveStream::next on the first n streams of the list finds nothing:
\* itemsReady = response ? true : false.
Quieted(n) ==
  [s \in Streams |-> itemsReady[s] /\ ~(state[s] # "gone" /\ \E i \in 1..n : ready[i] = s)]

\* getNextItem finds the log full: the list is left as it is.
GetNoRoom ==
  /\ pc[worker] = "getNextItem"
  /\ ready # << >>
  /\ isFull
  /\ paused' = TRUE
  /\ Goto(worker, "blocked")
  /\ UNCHANGED <<streamVars, ready, bytes_sent, notifyVars, taskVars, ioPending>>

\* getNextItem empties the list without finding an item.
GetNothing ==
  /\ pc[worker] = "getNextItem"
  /\ ready = << >> \/ ~isFull
  /\ AllQuiet(Len(ready))
  /\ ready' = << >>
  /\ itemsReady' = Quieted(Len(ready))
  /\ paused' = TRUE
  /\ Goto(worker, "blocked")
  /\ UNCHANGED <<backlog, held, state, queued, bytes_sent, notifyVars, taskVars, ioPending>>

\* getNextItem returns the first item there is; its stream goes to the back of the
\* list, and paused stays false.
GetItem(size) ==
  /\ pc[worker] = "getNextItem"
  /\ ~isFull
  /\ \E n \in 1..Len(ready) :
       /\ AllQuiet(n - 1)
       /\ HasItem(ready[n])
       /\ ready' = Append(SubSeq(ready, n + 1, Len(ready)), ready[n])
       /\ backlog' = [backlog EXCEPT ![ready[n]] = @ - 1]
       /\ itemsReady' = [Quieted(n - 1) EXCEPT ![ready[n]] = TRUE]
  /\ bytes_sent' = bytes_sent + size
  /\ Goto(worker, "step")
  /\ UNCHANGED <<held, state, queued, paused, notifyVars, taskVars, ioPending>>

-----------------------------------------------------------------------------
Announce(p) ==
  SetReady(p) \/ Enlist(p) \/ TestFull(p) \/ TestPaused(p)
    \/ Schedule(p) \/ PushNotification(p) \/ NotifyDirect(p)

Acknowledge == \E n \in 1..bytes_sent : BufferAck(n)
Worker == WorkerWakes \/ Step \/ GetNoRoom \/ GetNothing \/ (\E size \in Sizes : GetItem(size))
Notifier == NotifierTake \/ NotifierCheck \/ NotifierNotify \/ NotifierClear
Manager == ManagerCollect \/ ManagerNotify

Next ==
  \/ \E t \in Threads, s \in Streams :
       QueueMutation(t, s) \/ BackfillReceived(t, s) \/ CompleteBackfill(t, s) \/ SetDead(t, s)
  \/ \E p \in Procs : Announce(p)
  \/ Notifier
  \/ Manager
  \/ BecomeIdle
  \/ Acknowledge
  \/ \E s \in Streams : StreamRequest(s) \/ CloseStream(s) \/ RefuseRequest(s)
  \/ Worker

Spec == Init /\ [][Next]_vars

\* Every thread keeps running, the two tasks are rescheduled by the executor
\* (every second, every two seconds), time passes and the consumer acknowledges
\* what it received.  A thread that waits for a mutex gets it, and a backfill completes.
Fairness ==
  /\ \A s \in Streams : SF_vars(\E t \in Threads : CompleteBackfill(t, s))
  /\ \A p \in Procs : SF_vars(Announce(p))
  /\ SF_vars(Notifier)
  /\ SF_vars(Manager)
  /\ WF_vars(BecomeIdle)
  /\ SF_vars(Acknowledge)
  /\ WF_vars(Worker)

FairSpec == Spec /\ Fairness

-----------------------------------------------------------------------------
Labels == {"idle", "blocked", "step", "getNextItem", "setReady", "enlist", "isFull",
           "isPaused", "schedule", "push", "direct"}

\* Every variable has the type its C++ counterpart has.
TypeOK ==
  /\ backlog \in [Streams -> Nat]
  /\ itemsReady \in [Streams -> BOOLEAN]
  /\ held \in [Streams -> Nat]
  /\ state \in [Streams -> StreamStates]
  /\ ready \in Seq(Streams)
  /\ bytes_sent \in Nat
  /\ paused \in BOOLEAN /\ notificationScheduled \in BOOLEAN /\ notifySent \in BOOLEAN
  /\ pendingNotifications \in Nat
  /\ notifier \in {"idle", "check", "notify", "clear"}
  /\ manager \in {"idle", "notify"}
  /\ ioPending \in BOOLEAN /\ idle \in BOOLEAN
  /\ queued \in Nat
  /\ pc \in [Procs -> Labels]
  /\ arg \in [Procs -> [vb : Streams \union {"none"}, schedule : BOOLEAN]]

\* notificationScheduled is set exactly while one party holds the notification: the
\* thread about to push it, the queue, or the ConnNotifier handling it; and never
\* two of them.  Otherwise a connection would be queued twice, or its flag would
\* stay set with nobody left to clear it and no notification would ever be
\* scheduled for it again.
Holders == {<<"thread", p>> : p \in {q \in Procs : pc[q] = "push"}}
             \union {<<"queue", i>> : i \in 1..pendingNotifications}
             \union {<<"notifier", x>> : x \in {notifier} \ {"idle"}}
OneNotification ==
  /\ notificationScheduled <=> Holders # {}
  /\ \A h, g \in Holders : h = g

\* A stream whose itemsReady flag is set is on the ready list or about to be put
\* there.  No later item announces such a stream again, so one that is neither
\* would never be served, whatever wakes the connection.
AnnouncedIsListed ==
  \A s \in Streams :
    state[s] # "gone" /\ itemsReady[s] =>
      InReady(s) \/ \E p \in Procs : pc[p] = "enlist" /\ arg[p].vb = s

\* A stream with something to send is listed, or some thread is about to list it.
BacklogIsAnnounced ==
  \A s \in Streams :
    HasItem(s) =>
      InReady(s) \/ \E p \in Procs : pc[p] \in {"setReady", "enlist"} /\ arg[p].vb = s

\* No stream is on the ready list twice: notifyStreamReady, streamRequest and
\* getNextItem each add it, and each would serve it out of turn otherwise.
ReadyOnce == \A i, j \in DOMAIN ready : ready[i] = ready[j] => i = j

\* A connection that blocked although it has a stream to serve and room in the log
\* has a wake-up coming that does not wait for the ConnManager.
WakeUpComing ==
  pc[worker] = "blocked" /\ ~isFull /\ (\E s \in Streams : InReady(s) /\ HasItem(s)) =>
    \/ ioPending
    \/ pendingNotifications > 0 \/ notifier \in {"check", "notify"}
    \/ \E p \in Procs : pc[p] \in {"isFull", "isPaused", "schedule", "push", "direct"}

\* Whatever is queued for a stream is sent, or the stream is closed.
EverythingIsSent ==
  \A s \in Streams :
    (HasItem(s) \/ held[s] > 0) ~> (backlog[s] + held[s] = 0 \/ state[s] = "gone")
=============================================================================
