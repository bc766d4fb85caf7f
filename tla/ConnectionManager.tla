-------------------------- MODULE ConnectionManager --------------------------
(***************************************************************************)
(* The connection pool of one Riak node (connection_manager.go), with the  *)
(* bounded queue it keeps idle connections in (queue.go).                  *)
(*                                                                         *)
(* Three kinds of goroutine share the pool:                                *)
(*   - workers run Node.execute: get a connection, run a command on it,    *)
(*     then put it back or remove it (node.go);                            *)
(*   - the expirer runs manageConnections: on every tick it walks the      *)
(*     queue and closes connections that are idle for too long;            *)
(*   - the owner runs start and, later, stop on behalf of the node.        *)
(* They synchronise with two mutexes, the manager's own and the queue's,   *)
(* an atomic counter of connections and an atomic lifecycle state.  One    *)
(* action below is one stretch of code between two accesses that another   *)
(* goroutine can see.                                                      *)
(***************************************************************************)
EXTENDS Integers, Sequences, FiniteSets

CONSTANTS
  Workers,         \* goroutines that execute commands on the node
  Conns,           \* connection objects; a closed one may be reused as new
  NoConn,          \* the nil connection
  NoProc,          \* owner of a free mutex
  MinConnections,  \* minConnections of the options
  MaxConnections,  \* maxConnections, also the capacity of the queue
  CanStop          \* does the application call stop in this run?

Expirer == "expirer"
Owner   == "owner"
Procs   == Workers \cup {Expirer, Owner}

MaxUint16 == 65535

ASSUME ConnAssumption ==
  /\ IsFiniteSet(Conns)
  /\ NoConn \notin Conns
ASSUME ProcAssumption ==
  /\ Expirer \notin Workers /\ Owner \notin Workers
  /\ NoProc \notin Procs
\* newConnectionManager replaces zero by the defaults and refuses min > max.
ASSUME LimitAssumption ==
  /\ MinConnections \in 1..MaxUint16
  /\ MaxConnections \in 1..MaxUint16
  /\ MinConnections <= MaxConnections
ASSUME StopAssumption == CanStop \in BOOLEAN

\* Lifecycle states, in the order isStateLessThan relies on.  cmError is left
\* out: stop enters it when iterate fails, and iterate can only fail on a
\* queue that an earlier stop has destroyed.
cmCreated      == 0
cmRunning      == 1
cmShuttingDown == 2
cmShutdown     == 3

VARIABLES
  cmState,     \* stateData of the manager
  counter,     \* connectionCounter.value
  q,           \* contents of queueChan, oldest first
  qOpen,       \* FALSE once destroy has closed queueChan
  qLock,       \* who holds the queue's mutex
  cmLock,      \* who holds the manager's mutex
  stopClosed,  \* stopChan is closed and the ticker stopped
  tick,        \* a tick is buffered in expireTicker.C
  conn,        \* state of each connection object
  hand,        \* the connection a goroutine is working on, not in the queue
  rest,        \* elements an iteration has still to visit
  pc,          \* what each goroutine does next
  panicked     \* why the program died, "no" while it is alive

shared == <<cmState, counter, q, qOpen, qLock, cmLock, stopClosed, tick, conn>>
vars   == <<shared, hand, rest, pc, panicked>>

WorkerPC  == {"idle", "get", "scan", "scanCount", "scanClose", "createCheck",
              "createLock", "dial", "use", "putCheck", "enqueue",
              "removeCheck", "count", "close"}
ExpirerPC == {"off", "select", "sweep", "visit", "wantCm", "expire", "requeue",
              "quit"}
OwnerPC   == {"starting", "running", "closeStop", "stopCount", "stopLock",
              "stopQueue", "drain", "destroy", "finish", "stopped"}

\* Connections that own an open socket of the pool.
Open == {c \in Conns : conn[c] # "none"}

\* put and remove count a connection off before they close its socket.
Closing == {hand[w] : w \in {x \in Workers : pc[x] \in {"scanClose", "close"}}}
Pooled  == Open \ Closing
-----------------------------------------------------------------------------
(* Helpers shared by the actions. *)

Goto(p, l) == pc' = [pc EXCEPT ![p] = l]

isStateLessThan(st) == cmState < st

\* conn.available(): the socket is there and no read or write has failed.
available(c) == conn[c] = "active"

LimitReached == counter >= MaxConnections

incremented == IF counter < MaxUint16 THEN counter + 1 ELSE counter
decremented == IF counter > 0 THEN counter - 1 ELSE counter

\* conn.close(): a goroutine closes the connection it works on.
CloseHand(p) ==
  /\ conn' = [conn EXCEPT ![hand[p]] = "none"]
  /\ hand' = [hand EXCEPT ![p] = NoConn]

\* A send on queueChan: a panic once the channel is closed.  A full queue is an
\* error that the callers only log: the connection stays open with no holder.
SendHand(p) ==
  /\ hand' = [hand EXCEPT ![p] = NoConn]
  /\ IF Len(q) = MaxConnections
       THEN UNCHANGED <<q, panicked>>
       ELSE IF qOpen
         THEN q' = Append(q, hand[p]) /\ UNCHANGED panicked
         ELSE panicked' = "closedQueue" /\ UNCHANGED q
-----------------------------------------------------------------------------
Init ==
  /\ cmState = cmCreated
  /\ counter = 0
  /\ q = <<>>
  /\ qOpen = TRUE
  /\ qLock = NoProc
  /\ cmLock = NoProc
  /\ stopClosed = FALSE
  /\ tick = FALSE
  /\ conn = [c \in Conns |-> "none"]
  /\ hand = [p \in Procs |-> NoConn]
  /\ rest = [p \in Procs |-> IF p = Owner THEN MinConnections ELSE 0]
  /\ pc = [p \in Procs |-> IF p = Expirer THEN "off"
                           ELSE IF p = Owner THEN "starting" ELSE "idle"]
  /\ panicked = "no"
-----------------------------------------------------------------------------
(* start(): dial minConnections connections, then let everybody in.  The   *)
(* node takes no command yet, so nothing interleaves with the loop.        *)

StartDial(c) ==
  /\ pc[Owner] = "starting" /\ rest[Owner] > 0
  /\ conn[c] = "none"
  /\ conn' = [conn EXCEPT ![c] = "active"]
  /\ counter' = incremented
  /\ q' = Append(q, c)
  /\ rest' = [rest EXCEPT ![Owner] = @ - 1]
  /\ UNCHANGED <<cmState, qOpen, qLock, cmLock, stopClosed, tick, hand, pc,
                 panicked>>

StartDialFails ==
  /\ pc[Owner] = "starting" /\ rest[Owner] > 0
  /\ rest' = [rest EXCEPT ![Owner] = @ - 1]
  /\ UNCHANGED <<shared, hand, pc, panicked>>

StartDone ==
  /\ pc[Owner] = "starting" /\ rest[Owner] = 0
  /\ cmState' = cmRunning
  /\ pc' = [pc EXCEPT ![Owner] = "running", ![Expirer] = "select"]
  /\ UNCHANGED <<counter, q, qOpen, qLock, cmLock, stopClosed, tick, conn,
                 hand, rest, panicked>>
-----------------------------------------------------------------------------
(* stop() *)

StopBegin ==
  /\ CanStop
  /\ pc[Owner] = "running"
  /\ cmState = cmRunning
  /\ cmState' = cmShuttingDown
  /\ Goto(Owner, "closeStop")
  /\ UNCHANGED <<counter, q, qOpen, qLock, cmLock, stopClosed, tick, conn,
                 hand, rest, panicked>>

\* close(stopChan) and expireTicker.Stop(); a buffered tick stays buffered.
StopCloseChan ==
  /\ pc[Owner] = "closeStop"
  /\ stopClosed' = TRUE
  /\ Goto(Owner, "stopCount")
  /\ UNCHANGED <<cmState, counter, q, qOpen, qLock, cmLock, tick, conn, hand,
                 rest, panicked>>

\* Mutant: the queue is not counted, so its mutex is not waited for.
StopCountNoWait ==
  /\ pc[Owner] = "stopCount"
  /\ Goto(Owner, "stopLock")
  /\ UNCHANGED <<shared, hand, rest, panicked>>

\* q.count() is called for a log message only, but it takes the queue's mutex:
\* it waits for a sweep that has seen the manager running to end, before stop
\* takes the manager's mutex.
StopCount ==
  /\ pc[Owner] = "stopCount"
  /\ qLock = NoProc
  /\ Goto(Owner, "stopLock")
  /\ UNCHANGED <<shared, hand, rest, panicked>>

StopLock ==
  /\ pc[Owner] = "stopLock"
  /\ cmLock = NoProc
  /\ cmLock' = Owner
  /\ Goto(Owner, "stopQueue")
  /\ UNCHANGED <<cmState, counter, q, qOpen, qLock, stopClosed, tick, conn,
                 hand, rest, panicked>>

\* iterate: take the queue's mutex and read its length.
StopQueue ==
  /\ pc[Owner] = "stopQueue"
  /\ qLock = NoProc
  /\ IF q = <<>>
       THEN Goto(Owner, "destroy") /\ UNCHANGED <<qLock, rest>>
       ELSE /\ Goto(Owner, "drain")
            /\ qLock' = Owner
            /\ rest' = [rest EXCEPT ![Owner] = Len(q)]
  /\ UNCHANGED <<cmState, counter, q, qOpen, cmLock, stopClosed, tick, conn,
                 hand, panicked>>

\* One call of f: close the connection; break when the counter reaches zero.
StopDrain ==
  /\ pc[Owner] = "drain"
  /\ q' = Tail(q)
  /\ conn' = [conn EXCEPT ![Head(q)] = "none"]
  /\ counter' = decremented
  /\ rest' = [rest EXCEPT ![Owner] = @ - 1]
  /\ IF decremented = 0 \/ rest[Owner] = 1
       THEN Goto(Owner, "destroy") /\ qLock' = NoProc
       ELSE UNCHANGED <<pc, qLock>>
  /\ UNCHANGED <<cmState, qOpen, cmLock, stopClosed, tick, hand, panicked>>

\* destroy closes queueChan without taking the queue's mutex.
StopDestroy ==
  /\ pc[Owner] = "destroy"
  /\ qOpen' = FALSE
  /\ Goto(Owner, "finish")
  /\ UNCHANGED <<cmState, counter, q, qLock, cmLock, stopClosed, tick, conn,
                 hand, rest, panicked>>

StopFinish ==
  /\ pc[Owner] = "finish"
  /\ cmState' = cmShutdown
  /\ cmLock' = NoProc
  /\ Goto(Owner, "stopped")
  /\ UNCHANGED <<counter, q, qOpen, qLock, stopClosed, tick, conn, hand, rest,
                 panicked>>
-----------------------------------------------------------------------------
(* manageConnections() *)

\* The runtime's ticker: drops the tick when one is buffered already.
Tick ==
  /\ pc[Expirer] # "off" /\ ~stopClosed /\ ~tick
  /\ tick' = TRUE
  /\ UNCHANGED <<cmState, counter, q, qOpen, qLock, cmLock, stopClosed, conn,
                 hand, rest, pc, panicked>>

ExpirerQuit ==
  /\ pc[Expirer] = "select" /\ stopClosed
  /\ Goto(Expirer, "quit")
  /\ UNCHANGED <<shared, hand, rest, panicked>>

ExpirerTick ==
  /\ pc[Expirer] = "select" /\ tick
  /\ tick' = FALSE
  /\ Goto(Expirer, "sweep")
  /\ UNCHANGED <<cmState, counter, q, qOpen, qLock, cmLock, stopClosed, conn,
                 hand, rest, panicked>>

ExpirerSweep ==
  /\ pc[Expirer] = "sweep"
  /\ qLock = NoProc
  /\ IF q = <<>>
       THEN Goto(Expirer, "select") /\ UNCHANGED <<qLock, rest>>
       ELSE /\ Goto(Expirer, "visit")
            /\ qLock' = Expirer
            /\ rest' = [rest EXCEPT ![Expirer] = Len(q)]
  /\ UNCHANGED <<cmState, counter, q, qOpen, cmLock, stopClosed, tick, conn,
                 hand, panicked>>

\* Dequeue; while shutting down give the connection back and break.
ExpirerVisit ==
  /\ pc[Expirer] = "visit"
  /\ q' = Tail(q)
  /\ hand' = [hand EXCEPT ![Expirer] = Head(q)]
  /\ IF isStateLessThan(cmShuttingDown)
       THEN /\ Goto(Expirer, "wantCm")
            /\ rest' = [rest EXCEPT ![Expirer] = @ - 1]
       ELSE /\ Goto(Expirer, "requeue")
            /\ rest' = [rest EXCEPT ![Expirer] = 0]
  /\ UNCHANGED <<cmState, counter, qOpen, qLock, cmLock, stopClosed, tick,
                 conn, panicked>>

\* f takes the manager's mutex while iterate holds the queue's.  Above the
\* minimum a connection that is unavailable, or idle for longer than
\* idleTimeout, is expired; at the minimum the sweep ends.
ExpirerDecide(idleTimedOut) ==
  /\ pc[Expirer] = "wantCm"
  /\ cmLock = NoProc
  /\ IF counter > MinConnections
       THEN /\ IF ~available(hand[Expirer]) \/ idleTimedOut
                 THEN Goto(Expirer, "expire") /\ cmLock' = Expirer
                 ELSE Goto(Expirer, "requeue") /\ UNCHANGED cmLock
            /\ UNCHANGED rest
       ELSE /\ Goto(Expirer, "requeue")
            /\ rest' = [rest EXCEPT ![Expirer] = 0]
            /\ UNCHANGED cmLock
  /\ UNCHANGED <<cmState, counter, q, qOpen, qLock, stopClosed, tick, conn,
                 hand, panicked>>

\* Mutant: iterate returns without releasing the queue's mutex.
ExpirerNextElementNoUnlock ==
  /\ Goto(Expirer, IF rest[Expirer] = 0 THEN "select" ELSE "visit")
  /\ UNCHANGED qLock

\* End of one call of f: visit the next element or leave iterate.
ExpirerNextElement ==
  IF rest[Expirer] = 0
    THEN Goto(Expirer, "select") /\ qLock' = NoProc
    ELSE Goto(Expirer, "visit") /\ UNCHANGED qLock

ExpirerExpire ==
  /\ pc[Expirer] = "expire"
  /\ counter' = decremented
  /\ CloseHand(Expirer)
  /\ cmLock' = NoProc
  /\ ExpirerNextElement
  /\ UNCHANGED <<cmState, q, qOpen, stopClosed, tick, rest, panicked>>

\* Mutant: the callback puts the connection back and so does iterate.
ExpirerRequeueTwice ==
  /\ pc[Expirer] = "requeue"
  /\ hand' = [hand EXCEPT ![Expirer] = NoConn]
  /\ q' = Append(Append(q, hand[Expirer]), hand[Expirer])
  /\ ExpirerNextElement
  /\ UNCHANGED <<cmState, counter, qOpen, cmLock, stopClosed, tick, conn, rest,
                 panicked>>

ExpirerRequeue ==
  /\ pc[Expirer] = "requeue"
  /\ SendHand(Expirer)
  /\ ExpirerNextElement
  /\ UNCHANGED <<cmState, counter, qOpen, cmLock, stopClosed, tick, conn, rest>>
-----------------------------------------------------------------------------
(* A worker: get() *)

\* Node.execute found the node running; a running node has a running manager,
\* but nothing keeps it running until the worker reaches get.
WorkerBegin(w) ==
  /\ pc[w] = "idle"
  /\ cmState = cmRunning
  /\ Goto(w, "get")
  /\ UNCHANGED <<shared, hand, rest, panicked>>

GetIterate(w) ==
  /\ pc[w] = "get"
  /\ qLock = NoProc
  /\ IF q = <<>>
       THEN Goto(w, "createCheck") /\ UNCHANGED <<qLock, rest>>
       ELSE /\ Goto(w, "scan")
            /\ qLock' = w
            /\ rest' = [rest EXCEPT ![w] = Len(q)]
  /\ UNCHANGED <<cmState, counter, q, qOpen, cmLock, stopClosed, tick, conn,
                 hand, panicked>>

\* Mutant: the connection that is handed out is re-queued as well.
GetTakeAndRequeue(w) ==
  /\ pc[w] = "scan" /\ available(Head(q))
  /\ q' = Append(Tail(q), Head(q))
  /\ hand' = [hand EXCEPT ![w] = Head(q)]
  /\ rest' = [rest EXCEPT ![w] = 0]
  /\ qLock' = NoProc
  /\ Goto(w, "use")
  /\ UNCHANGED <<cmState, counter, qOpen, cmLock, stopClosed, tick, conn,
                 panicked>>

\* "we found our connection, don't re-queue"
GetTake(w) ==
  /\ pc[w] = "scan" /\ available(Head(q))
  /\ q' = Tail(q)
  /\ hand' = [hand EXCEPT ![w] = Head(q)]
  /\ rest' = [rest EXCEPT ![w] = 0]
  /\ qLock' = NoProc
  /\ Goto(w, "use")
  /\ UNCHANGED <<cmState, counter, qOpen, cmLock, stopClosed, tick, conn,
                 panicked>>

\* An unavailable connection is removed and the scan goes on; remove() does
\* nothing once the manager is shutting down.
GetDiscard(w) ==
  /\ pc[w] = "scan" /\ ~available(Head(q))
  /\ q' = Tail(q)
  /\ rest' = [rest EXCEPT ![w] = @ - 1]
  /\ IF isStateLessThan(cmShuttingDown)
       THEN /\ hand' = [hand EXCEPT ![w] = Head(q)]
            /\ Goto(w, "scanCount")
            /\ UNCHANGED qLock
       ELSE /\ IF rest[w] = 1
                 THEN Goto(w, "createCheck") /\ qLock' = NoProc
                 ELSE UNCHANGED <<pc, qLock>>
            /\ UNCHANGED hand
  /\ UNCHANGED <<cmState, counter, qOpen, cmLock, stopClosed, tick, conn,
                 panicked>>

GetDiscardCount(w) ==
  /\ pc[w] = "scanCount"
  /\ counter' = decremented
  /\ Goto(w, "scanClose")
  /\ UNCHANGED <<cmState, q, qOpen, qLock, cmLock, stopClosed, tick, conn, hand,
                 rest, panicked>>

GetDiscardClose(w) ==
  /\ pc[w] = "scanClose"
  /\ CloseHand(w)
  /\ IF rest[w] = 0
       THEN Goto(w, "createCheck") /\ qLock' = NoProc
       ELSE Goto(w, "scan") /\ UNCHANGED qLock
  /\ UNCHANGED <<cmState, counter, q, qOpen, cmLock, stopClosed, tick, rest,
                 panicked>>
-----------------------------------------------------------------------------
(* A worker: create() *)

\* A nil connection without an error is what create returns while shutting
\* down; Node.execute panics on it.
CreateCheck(w) ==
  /\ pc[w] = "createCheck"
  /\ IF isStateLessThan(cmShuttingDown)
       THEN Goto(w, "createLock") /\ UNCHANGED panicked
       ELSE Goto(w, "idle") /\ panicked' = "nilConnection"
  /\ UNCHANGED <<shared, hand, rest>>

\* At the limit: ErrConnMgrAllConnectionsInUse, back to the node.
CreateLock(w) ==
  /\ pc[w] = "createLock"
  /\ cmLock = NoProc
  /\ IF LimitReached
       THEN Goto(w, "idle") /\ UNCHANGED cmLock
       ELSE Goto(w, "dial") /\ cmLock' = w
  /\ UNCHANGED <<cmState, counter, q, qOpen, qLock, stopClosed, tick, conn,
                 hand, rest, panicked>>

DialSucceeds(w, c) ==
  /\ pc[w] = "dial"
  /\ conn[c] = "none"
  /\ conn' = [conn EXCEPT ![c] = "active"]
  /\ counter' = incremented
  /\ hand' = [hand EXCEPT ![w] = c]
  /\ cmLock' = NoProc
  /\ Goto(w, "use")
  /\ UNCHANGED <<cmState, q, qOpen, qLock, stopClosed, tick, rest, panicked>>

\* Mutant: the error path returns without releasing the manager's mutex.
DialFailsKeepsLock(w) ==
  /\ pc[w] = "dial"
  /\ Goto(w, "idle")
  /\ UNCHANGED <<shared, hand, rest, panicked>>

DialFails(w) ==
  /\ pc[w] = "dial"
  /\ cmLock' = NoProc
  /\ Goto(w, "idle")
  /\ UNCHANGED <<cmState, counter, q, qOpen, qLock, stopClosed, tick, conn,
                 hand, rest, panicked>>
-----------------------------------------------------------------------------
(* A worker: the command, then put() or remove() *)

\* Success, a RiakError and a ClientError give the connection back.  The
\* ClientError of a short read leaves the connection inactive.
UseKeeps(w, st) ==
  /\ pc[w] = "use"
  /\ conn' = [conn EXCEPT ![hand[w]] = st]
  /\ Goto(w, "putCheck")
  /\ UNCHANGED <<cmState, counter, q, qOpen, qLock, cmLock, stopClosed, tick,
                 hand, rest, panicked>>

\* Any other error: the connection is to be closed.
UseFails(w) ==
  /\ pc[w] = "use"
  /\ Goto(w, "removeCheck")
  /\ UNCHANGED <<shared, hand, rest, panicked>>

PutCheck(w) ==
  /\ pc[w] = "putCheck"
  /\ Goto(w, IF isStateLessThan(cmShuttingDown) THEN "enqueue" ELSE "count")
  /\ UNCHANGED <<shared, hand, rest, panicked>>

PutEnqueue(w) ==
  /\ pc[w] = "enqueue"
  /\ qLock = NoProc
  /\ SendHand(w)
  /\ Goto(w, "idle")
  /\ UNCHANGED <<cmState, counter, qOpen, qLock, cmLock, stopClosed, tick,
                 conn, rest>>

\* Mutant: the state check of remove is inverted.
RemoveCheckInverted(w) ==
  /\ pc[w] = "removeCheck"
  /\ IF isStateLessThan(cmShuttingDown)
       THEN Goto(w, "idle") /\ hand' = [hand EXCEPT ![w] = NoConn]
       ELSE Goto(w, "count") /\ UNCHANGED hand
  /\ UNCHANGED <<shared, rest, panicked>>

\* While shutting down remove neither closes the connection nor counts it off.
RemoveCheck(w) ==
  /\ pc[w] = "removeCheck"
  /\ IF isStateLessThan(cmShuttingDown)
       THEN Goto(w, "count") /\ UNCHANGED hand
       ELSE Goto(w, "idle") /\ hand' = [hand EXCEPT ![w] = NoConn]
  /\ UNCHANGED <<shared, rest, panicked>>

\* Mutant: the connection is closed but not counted off.
CountOffForgotten(w) ==
  /\ pc[w] = "count"
  /\ Goto(w, "close")
  /\ UNCHANGED <<shared, hand, rest, panicked>>

\* The end of put while shutting down and of remove while not: decrement the
\* counter, without the manager's mutex, then close the socket.
CountOff(w) ==
  /\ pc[w] = "count"
  /\ counter' = decremented
  /\ Goto(w, "close")
  /\ UNCHANGED <<cmState, q, qOpen, qLock, cmLock, stopClosed, tick, conn, hand,
                 rest, panicked>>

Close(w) ==
  /\ pc[w] = "close"
  /\ CloseHand(w)
  /\ Goto(w, "idle")
  /\ UNCHANGED <<cmState, counter, q, qOpen, qLock, cmLock, stopClosed, tick,
                 rest, panicked>>
-----------------------------------------------------------------------------
OwnerNext ==
  \/ \E c \in Conns : StartDial(c)
  \/ StartDialFails \/ StartDone
  \/ StopBegin \/ StopCloseChan \/ StopCount \/ StopLock \/ StopQueue
  \/ StopDrain \/ StopDestroy \/ StopFinish

ExpirerNext ==
  \/ ExpirerQuit \/ ExpirerTick \/ ExpirerSweep \/ ExpirerVisit
  \/ \E idleTimedOut \in BOOLEAN : ExpirerDecide(idleTimedOut)
  \/ ExpirerExpire \/ ExpirerRequeue

WorkerNext(w) ==
  \/ WorkerBegin(w)
  \/ GetIterate(w) \/ GetTake(w) \/ GetDiscard(w) \/ GetDiscardCount(w)
  \/ GetDiscardClose(w)
  \/ CreateCheck(w) \/ CreateLock(w)
  \/ \E c \in Conns : DialSucceeds(w, c)
  \/ DialFails(w)
  \/ \E st \in {"active", "inactive"} : UseKeeps(w, st)
  \/ UseFails(w)
  \/ PutCheck(w) \/ PutEnqueue(w) \/ RemoveCheck(w)
  \/ CountOff(w) \/ Close(w)

\* A panic ends the program, whichever goroutine raised it.
Next ==
  /\ panicked = "no"
  /\ OwnerNext \/ Tick \/ ExpirerNext \/ \E w \in Workers : WorkerNext(w)

Spec == Init /\ [][Next]_vars

(***************************************************************************)
(* Fairness.  A goroutine that can run is run eventually; sync.Mutex hands *)
(* itself to a waiter that has been passed over for long (its starvation   *)
(* mode), so the steps of a goroutine are strongly fair: one that waits    *)
(* for a mutex is enabled again and again, any other stays enabled.        *)
(* Commands, ticks and stop come from outside and are not forced.          *)
(***************************************************************************)
Alive(A) == panicked = "no" /\ A

Fairness ==
  /\ SF_vars(Alive(OwnerNext /\ pc[Owner] # "running"))
  /\ SF_vars(Alive(ExpirerNext))
  /\ \A w \in Workers : SF_vars(Alive(WorkerNext(w) /\ pc[w] # "idle"))

FairSpec == Spec /\ Fairness
-----------------------------------------------------------------------------
(* Properties *)

\* Every goroutine is at a step of its own program.
PcOK ==
  /\ pc \in [Procs -> WorkerPC \cup ExpirerPC \cup OwnerPC]
  /\ \A w \in Workers : pc[w] \in WorkerPC
  /\ pc[Expirer] \in ExpirerPC /\ pc[Owner] \in OwnerPC

\* Every variable keeps its type.
TypeOK ==
  /\ cmState \in cmCreated..cmShutdown
  /\ counter \in 0..MaxUint16
  /\ q \in Seq(Conns) /\ Len(q) <= MaxConnections
  /\ qOpen \in BOOLEAN
  /\ qLock \in Procs \cup {NoProc}
  /\ cmLock \in Procs \cup {NoProc}
  /\ stopClosed \in BOOLEAN
  /\ tick \in BOOLEAN
  /\ conn \in [Conns -> {"none", "active", "inactive"}]
  /\ hand \in [Procs -> Conns \cup {NoConn}]
  /\ rest \in [Procs -> 0..MaxConnections]
  /\ PcOK
  /\ panicked \in {"no", "nilConnection", "closedQueue"}

Queued == {q[i] : i \in 1..Len(q)}

\* connectionCounter counts exactly the open sockets, less those that put or
\* remove is about to close, in every interleaving of get, put, remove, the
\* expirer and stop; a connection that shutdown leaks stays counted.
CounterMatchesPool == counter = Cardinality(Pooled)

\* create keeps the pool within maxConnections although remove decrements the
\* counter without the mutex under which create checks it.  Sockets that are
\* counted off and not closed yet come on top.
PoolBounded == Cardinality(Pooled) <= MaxConnections

\* A connection is in one place: once in the queue, or with one goroutine.
\* Two workers never execute on the same connection.
ExclusiveConnection ==
  /\ \A i, j \in 1..Len(q) : i # j => q[i] # q[j]
  /\ \A p \in Procs : hand[p] # NoConn => hand[p] \notin Queued
  /\ \A p, r \in Procs : p # r /\ hand[p] # NoConn => hand[p] # hand[r]

\* put never meets the "queue is full" error, which would leak the connection.
QueueHasRoom ==
  \A w \in Workers : pc[w] = "enqueue" => Len(q) < MaxConnections

Placed == \A c \in Open : c \in Queued \/ \E p \in Procs : hand[p] = c

\* Until stop begins no socket is lost: each open one is queued or is in the
\* hands of a goroutine that will queue or close it.
NoLeakWhileRunning == cmState < cmShuttingDown => Placed

\* stop takes the queue's mutex inside the manager's and the expirer takes them
\* in the other order.  Still they never wait for each other: once stop has
\* counted the queue, the expirer is done with the manager's mutex for good.
NoLockCycle ==
  pc[Owner] \in {"stopLock", "stopQueue", "drain", "destroy", "finish",
                 "stopped"}
    => pc[Expirer] \notin {"wantCm", "expire"}

\* Users of the pool are not exposed to its death while it runs: only once stop
\* has begun does a worker get a nil connection without an error, or put one on
\* the closed queue.
PanicOnlyInStop == panicked # "no" => cmState >= cmShuttingDown

\* The pool in terms of Pool: the connections that are counted, and the one that
\* each worker runs a command on.
Users == [w \in Workers |-> IF pc[w] = "use" THEN hand[w] ELSE NoConn]
Abstract == INSTANCE Pool WITH members <- Pooled, user <- Users

\* Two mutexes, an atomic counter and a queue that is shared with the expirer and
\* stop behave as the pool of Pool: within the limit, lent to one worker at a
\* time, not closed while lent.
ImplementsPool == Abstract!Spec

InUseKept ==
  \A w \in Workers :
    pc[w] = "use" /\ pc'[w] = "use" => conn'[hand[w]] = conn[hand[w]]

\* A connection on which a worker runs a command is closed by nobody else:
\* neither the expirer, nor stop, nor another worker.
InUseNotClosed == [][InUseKept]_vars

\* get always returns, with a connection or an error, while connections are put
\* back, expire and stop goes on: no lock is kept, no scan goes on for ever.
GetReturns ==
  \A w \in Workers : pc[w] = "get" ~> (pc[w] \in {"use", "idle"} \/ panicked # "no")

\* A connection that was handed out is queued, closed or, during stop, given up.
ConnectionComesBack ==
  \A w \in Workers : pc[w] = "use" ~> (hand[w] = NoConn \/ panicked # "no")

\* stop, once begun, ends (or the program is dead), although it takes the two
\* mutexes in the opposite order of a sweep: queue.iterate inside cm.Lock, while
\* the expirer's callback takes cm.Lock inside queue.iterate.
StopTerminates ==
  pc[Owner] = "closeStop" ~> (pc[Owner] = "stopped" \/ panicked # "no")

-----------------------------------------------------------------------------
(* The parts of the inductive invariant behind these properties *)

\* Who is inside a critical section holds its mutex.
LockDiscipline ==
  /\ \A w \in Workers :
       /\ pc[w] \in {"scan", "scanCount", "scanClose"} => qLock = w
       /\ pc[w] = "dial" => cmLock = w
  /\ pc[Expirer] \in {"visit", "wantCm", "expire", "requeue"} => qLock = Expirer
  /\ pc[Expirer] = "expire" => cmLock = Expirer
  /\ pc[Owner] = "drain" => qLock = Owner
  /\ pc[Owner] \in {"stopQueue", "drain", "destroy", "finish"} => cmLock = Owner

\* Nothing interleaves with start, and the queue has room for what it dials.
StartAlone ==
  pc[Owner] = "starting" =>
    /\ cmState = cmCreated
    /\ pc[Expirer] = "off"
    /\ \A w \in Workers : pc[w] = "idle"
    /\ Len(q) + rest[Owner] <= MinConnections
    /\ counter + rest[Owner] <= MinConnections

\* An iteration never has more elements to visit than the queue holds, so its
\* dequeue never finds the queue empty.
IterationWithinQueue ==
  /\ \A w \in Workers :
       /\ pc[w] = "scan" => rest[w] \in 1..Len(q)
       /\ pc[w] \in {"scanCount", "scanClose"} => rest[w] <= Len(q)
  /\ pc[Expirer] = "visit" => rest[Expirer] \in 1..Len(q)
  /\ pc[Expirer] \in {"wantCm", "expire", "requeue"} =>
       rest[Expirer] <= Len(q) /\ Len(q) < MaxConnections
  /\ pc[Owner] = "drain" => rest[Owner] \in 1..Len(q)

\* The lifecycle state follows the owner; the queue is closed late in stop.
Lifecycle ==
  /\ pc[Owner] = "starting" <=> cmState = cmCreated
  /\ pc[Owner] = "running" <=> cmState = cmRunning
  /\ pc[Owner] = "stopped" <=> cmState = cmShutdown
  /\ ~qOpen => pc[Owner] \in {"finish", "stopped"}

Holding == {"scanCount", "scanClose", "use", "putCheck", "enqueue",
            "removeCheck", "count", "close", "wantCm", "expire", "requeue"}

\* A goroutine holds a connection exactly in the steps that work on one.
HoldsWhileWorking == \A p \in Procs : hand[p] # NoConn <=> pc[p] \in Holding

\* What is held or queued has an open socket.
HeldAndQueuedOpen ==
  /\ \A p \in Procs : hand[p] # NoConn => hand[p] \in Open
  /\ \A i \in 1..Len(q) : q[i] \in Open

\* The limit checked under the manager's mutex still holds when the dial ends.
LimitHolds ==
  /\ counter <= MaxConnections
  /\ \A w \in Workers : pc[w] = "dial" => counter < MaxConnections

ControlInv ==
  /\ LockDiscipline /\ StartAlone /\ IterationWithinQueue
  /\ Lifecycle /\ HoldsWhileWorking
PoolInv    == HeldAndQueuedOpen /\ ExclusiveConnection
IndInv ==
  /\ TypeOK /\ ControlInv /\ LimitHolds
  /\ PoolInv /\ CounterMatchesPool
==============================================================================
