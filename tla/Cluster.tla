------------------------------- MODULE Cluster -------------------------------
(***************************************************************************)
(* Execution of commands by a cluster (cluster.go) and their completion    *)
(* (async.go), with the bounded queue for commands that found no healthy   *)
(* node (queue.go).                                                        *)
(*                                                                         *)
(* A command is run by one goroutine at a time: the one that called        *)
(* Execute or that ExecuteAsync started and, after the command has been    *)
(* queued, the one that the queue routine starts.  pc[c] is where that     *)
(* goroutine is; "queued" says that there is none and the command is in    *)
(* the queue, "lost" that it is in no place at all.  Two more goroutines   *)
(* share the state: the queue routine (executeEnqueuedCommands) and the    *)
(* owner, which calls Start and Stop.                                      *)
(*                                                                         *)
(* What the nodes make of a command is chosen freely: NodeManager and Node *)
(* are seen through the two results of ExecuteOnNode.  Time is a choice    *)
(* too: a tick may come at any moment, and a queued command may be due or  *)
(* not.                                                                    *)
(***************************************************************************)
EXTENDS Integers, Sequences, FiniteSets

CONSTANTS
  Cmds,               \* commands, each submitted at most once
  Retryable,          \* those that implement retryableCommand
  Synchronous,        \* those passed to Execute, the others to ExecuteAsync
  Waited,             \* those whose Async has a WaitGroup, counting one
  ExecutionAttempts,  \* executionAttempts of the options, a byte
  QueueMaxDepth,      \* depth of the command queue; 0 means no queue
  NoProc,             \* owner of a free mutex
  CanStop             \* does the application call Stop in this run?

Routine == "routine"
Owner   == "owner"
Procs   == Cmds \cup {Routine, Owner}

ASSUME CmdAssumption ==
  /\ IsFiniteSet(Cmds)
  /\ Retryable \subseteq Cmds /\ Synchronous \subseteq Cmds
  /\ Waited \subseteq Cmds \ Synchronous
  /\ Routine \notin Cmds /\ Owner \notin Cmds /\ NoProc \notin Procs
\* NewCluster replaces zero attempts by the default.
ASSUME OptionAssumption ==
  /\ ExecutionAttempts \in 1..255
  /\ QueueMaxDepth \in Nat
  /\ CanStop \in BOOLEAN

clusterCreated      == 0
clusterRunning      == 1
clusterShuttingDown == 2
clusterShutdown     == 3

VARIABLES
  clState,     \* stateData of the cluster
  cq,          \* contents of the command queue, oldest first
  cqOpen,      \* FALSE once destroy has closed its channel
  cqLock,      \* who holds its mutex
  stopClosed,  \* stopChan is closed and the ticker stopped
  tick,        \* a tick is buffered in commandQueueTicker.C
  pc,          \* what the goroutine of a command, the routine, the owner do next
  tries,       \* the local variable of execute
  err,         \* the local variable err of execute is not nil
  rest,        \* elements an iteration has still to visit
  done,        \* how often async.done was called
  failed,      \* async.Error is not nil
  served,      \* a node answered the command without an error
  sent,        \* how often a node sent the command to Riak, up to SentBound
  returned,    \* what Execute returned: "no", "nil" or "error"
  waiting,     \* history: the commands in the queue when Stop began
  panicked     \* why the program died, "no" while it is alive

shared == <<clState, cq, cqOpen, cqLock, stopClosed, tick>>
local  == <<tries, err, rest>>
record == <<done, failed, served, sent, returned, waiting>>
vars   == <<shared, pc, local, record, panicked>>

\* A saturating count: enough to tell one more than the attempts allowed.
SentBound == ExecutionAttempts + 1

queueCommands == QueueMaxDepth > 0

Queued == {cq[i] : i \in 1..Len(cq)}

CmdPC     == {"new", "begin", "check", "run", "enqueueCheck", "enqueue",
              "refused", "done", "queued", "lost", "finished"}
RoutinePC == {"off", "select", "tickCheck", "sweep", "visit", "quit"}
OwnerPC   == {"created", "running", "closeStop", "stopCount", "stopSweep",
              "drain", "destroy", "stopNodes", "stopped"}
-----------------------------------------------------------------------------
(* Helpers shared by the actions. *)

Goto(p, l) == pc' = [pc EXCEPT ![p] = l]

stateCheckRunning   == clState = clusterRunning
isStateLessThan(st) == clState < st

\* async.done(e): remember the error, signal Done and Wait.  The application is
\* taken to receive every signal on Done; a WaitGroup below zero is a panic.
AsyncDone(c, e) ==
  /\ done' = [done EXCEPT ![c] = @ + 1]
  /\ failed' = IF e THEN [failed EXCEPT ![c] = TRUE] ELSE failed
  /\ panicked' = IF c \in Waited /\ done[c] > 0 THEN "negativeWait"
                                               ELSE panicked

\* How Execute returns to its caller, who waits only the first time.
Return(c, how) ==
  returned' = IF c \in Synchronous /\ returned[c] = "no"
                THEN [returned EXCEPT ![c] = how]
                ELSE returned
-----------------------------------------------------------------------------
\* NewCluster starts the queue routine, if there is a queue.
Init ==
  /\ clState = clusterCreated
  /\ cq = <<>> /\ cqOpen = TRUE /\ cqLock = NoProc
  /\ stopClosed = FALSE /\ tick = FALSE
  /\ pc = [p \in Procs |->
             CASE p = Owner   -> "created"
               [] p = Routine -> IF queueCommands THEN "select" ELSE "off"
               [] OTHER       -> "new"]
  /\ tries = [c \in Cmds |-> 0]
  /\ err = [c \in Cmds |-> FALSE]
  /\ rest = [p \in {Routine, Owner} |-> 0]
  /\ done = [c \in Cmds |-> 0]
  /\ failed = [c \in Cmds |-> FALSE]
  /\ served = [c \in Cmds |-> FALSE]
  /\ sent = [c \in Cmds |-> 0]
  /\ returned = [c \in Cmds |-> "no"]
  /\ waiting = {}
  /\ panicked = "no"
-----------------------------------------------------------------------------
(* A command: ExecuteAsync() or Execute(), then execute() *)

Submit(c) ==
  /\ pc[c] = "new"
  /\ Goto(c, "begin")
  /\ UNCHANGED <<shared, local, record, panicked>>

\* Mutant: every command gets all the attempts.
BeginRetryAll(c) ==
  /\ pc[c] = "begin"
  /\ tries' = [tries EXCEPT ![c] = ExecutionAttempts]
  /\ err' = [err EXCEPT ![c] = FALSE]
  /\ Goto(c, "check")
  /\ UNCHANGED <<shared, rest, record, panicked>>

\* The attempts of this call of execute, also after a stay in the queue.
Begin(c) ==
  /\ pc[c] = "begin"
  /\ tries' = [tries EXCEPT ![c] = IF c \in Retryable THEN ExecutionAttempts
                                                      ELSE 1]
  /\ err' = [err EXCEPT ![c] = FALSE]
  /\ Goto(c, "check")
  /\ UNCHANGED <<shared, rest, record, panicked>>

\* Mutant: the state check completes the command before it leaves the loop.
CheckCompletes(c) ==
  /\ pc[c] = "check"
  /\ IF stateCheckRunning
       THEN Goto(c, "run") /\ UNCHANGED <<err, done, failed, panicked>>
       ELSE /\ Goto(c, "done")
            /\ err' = [err EXCEPT ![c] = TRUE]
            /\ AsyncDone(c, TRUE)
  /\ UNCHANGED <<shared, tries, rest, served, sent, returned, waiting>>

\* Mutant: the state check returns instead of leaving the loop.
CheckReturns(c) ==
  /\ pc[c] = "check"
  /\ Goto(c, IF stateCheckRunning THEN "run" ELSE "finished")
  /\ UNCHANGED <<shared, local, record, panicked>>

Check(c) ==
  /\ pc[c] = "check"
  /\ IF stateCheckRunning
       THEN Goto(c, "run") /\ UNCHANGED err
       ELSE Goto(c, "done") /\ err' = [err EXCEPT ![c] = TRUE]
  /\ UNCHANGED <<shared, tries, rest, record, panicked>>

\* Mutant: the attempts are not counted down.
NextAttemptForever(c) ==
  /\ Goto(c, "check")
  /\ UNCHANGED <<tries, err>>

\* The end of the loop's body: another attempt, or ErrClusterNoNodesAvailable.
NextAttempt(c) ==
  /\ tries' = [tries EXCEPT ![c] = @ - 1]
  /\ IF tries[c] > 1
       THEN Goto(c, "check") /\ UNCHANGED err
       ELSE Goto(c, "done") /\ err' = [err EXCEPT ![c] = TRUE]

CountSent(c) ==
  sent' = [sent EXCEPT ![c] = IF @ < SentBound THEN @ + 1 ELSE @]

\* ExecuteOnNode answers (true, nil).
RunSucceeds(c) ==
  /\ pc[c] = "run"
  /\ CountSent(c)
  /\ served' = [served EXCEPT ![c] = TRUE]
  /\ err' = [err EXCEPT ![c] = FALSE]
  /\ Goto(c, "done")
  /\ UNCHANGED <<shared, tries, rest, done, failed, returned, waiting, panicked>>

\* (true, err): Riak or the connection failed.
RunFails(c) ==
  /\ pc[c] = "run"
  /\ CountSent(c)
  /\ NextAttempt(c)
  /\ UNCHANGED <<shared, rest, done, failed, served, returned, waiting, panicked>>

\* (false, err): no node, no connection or a node that is not running.
RunRefused(c) ==
  /\ pc[c] = "run"
  /\ NextAttempt(c)
  /\ UNCHANGED <<shared, rest, record, panicked>>

\* (false, nil): the node is health checking.  The command is queued, if there
\* is a queue, with the attempts it has left forgotten.
RunUnavailable(c) ==
  /\ pc[c] = "run"
  /\ IF queueCommands
       THEN Goto(c, "enqueueCheck") /\ UNCHANGED <<tries, err>>
       ELSE NextAttempt(c)
  /\ UNCHANGED <<shared, rest, record, panicked>>

EnqueueCheck(c) ==
  /\ pc[c] = "enqueueCheck"
  /\ Goto(c, IF isStateLessThan(clusterShuttingDown) THEN "enqueue"
                                                     ELSE "refused")
  /\ UNCHANGED <<shared, local, record, panicked>>

\* Mutant: a command that was queued is completed as well.
EnqueueAndFinish(c) ==
  /\ pc[c] = "enqueue"
  /\ cqLock = NoProc
  /\ cq' = Append(cq, c)
  /\ Goto(c, "done")
  /\ UNCHANGED <<clState, cqOpen, cqLock, stopClosed, tick, local, record,
                 panicked>>

\* cq.enqueue under the queue's mutex: an error on a full queue, a panic on a
\* closed channel.  A caller of Execute gets its nil now.
Enqueue(c) ==
  /\ pc[c] = "enqueue"
  /\ cqLock = NoProc
  /\ \/ /\ Len(cq) = QueueMaxDepth
        /\ Goto(c, "refused")
        /\ UNCHANGED <<cq, returned, panicked>>
     \/ /\ Len(cq) # QueueMaxDepth /\ ~cqOpen
        /\ panicked' = "closedQueue"
        /\ UNCHANGED <<cq, returned, pc>>
     \/ /\ Len(cq) # QueueMaxDepth /\ cqOpen
        /\ cq' = Append(cq, c)
        /\ Goto(c, "queued")
        /\ Return(c, "nil")
        /\ UNCHANGED panicked
  /\ UNCHANGED <<clState, cqOpen, cqLock, stopClosed, tick, local, done,
                 failed, served, sent, waiting>>

\* enqueueCommand completes the command it could not queue and returns the
\* error, for which execute completes it once more.
Refused(c) ==
  /\ pc[c] = "refused"
  /\ AsyncDone(c, TRUE)
  /\ err' = [err EXCEPT ![c] = TRUE]
  /\ Goto(c, "done")
  /\ UNCHANGED <<shared, tries, rest, served, sent, returned, waiting>>

\* Mutant: the error is not handed to done.
DoneForgetsError(c) ==
  /\ pc[c] = "done"
  /\ AsyncDone(c, FALSE)
  /\ Return(c, IF failed[c] THEN "error" ELSE "nil")
  /\ Goto(c, "finished")
  /\ UNCHANGED <<shared, local, served, sent, waiting>>

Done(c) ==
  /\ pc[c] = "done"
  /\ AsyncDone(c, err[c])
  /\ Return(c, IF failed[c] \/ err[c] THEN "error" ELSE "nil")
  /\ Goto(c, "finished")
  /\ UNCHANGED <<shared, local, served, sent, waiting>>
-----------------------------------------------------------------------------
(* executeEnqueuedCommands() *)

\* The runtime's ticker: drops the tick when one is buffered already.
Tick ==
  /\ queueCommands /\ ~stopClosed /\ ~tick
  /\ tick' = TRUE
  /\ UNCHANGED <<clState, cq, cqOpen, cqLock, stopClosed, pc, local, record,
                 panicked>>

RoutineQuit ==
  /\ pc[Routine] = "select" /\ stopClosed
  /\ Goto(Routine, "quit")
  /\ UNCHANGED <<shared, local, record, panicked>>

RoutineTick ==
  /\ pc[Routine] = "select" /\ tick
  /\ tick' = FALSE
  /\ Goto(Routine, "tickCheck")
  /\ UNCHANGED <<clState, cq, cqOpen, cqLock, stopClosed, local, record,
                 panicked>>

RoutineCheck ==
  /\ pc[Routine] = "tickCheck"
  /\ Goto(Routine, IF isStateLessThan(clusterShuttingDown) THEN "sweep"
                                                           ELSE "quit")
  /\ UNCHANGED <<shared, local, record, panicked>>

\* Mutant: the routine ends when it finds the queue empty.
RoutineSweepQuits ==
  /\ pc[Routine] = "sweep"
  /\ cqLock = NoProc
  /\ IF cq = <<>>
       THEN Goto(Routine, "quit") /\ UNCHANGED <<cqLock, rest>>
       ELSE /\ Goto(Routine, "visit")
            /\ cqLock' = Routine
            /\ rest' = [rest EXCEPT ![Routine] = Len(cq)]
  /\ UNCHANGED <<clState, cq, cqOpen, stopClosed, tick, tries, err, record,
                 panicked>>

RoutineSweep ==
  /\ pc[Routine] = "sweep"
  /\ cqLock = NoProc
  /\ IF cq = <<>>
       THEN Goto(Routine, "select") /\ UNCHANGED <<cqLock, rest>>
       ELSE /\ Goto(Routine, "visit")
            /\ cqLock' = Routine
            /\ rest' = [rest EXCEPT ![Routine] = Len(cq)]
  /\ UNCHANGED <<clState, cq, cqOpen, stopClosed, tick, tries, err, record,
                 panicked>>

\* Mutant: a command that is due is started and queued again.
RoutineRunsAndRequeues ==
  /\ pc[Routine] = "visit" /\ isStateLessThan(clusterShuttingDown)
  /\ cq' = Append(Tail(cq), Head(cq))
  /\ rest' = [rest EXCEPT ![Routine] = @ - 1]
  /\ pc' = [pc EXCEPT ![Head(cq)] = "begin",
                      ![Routine] = IF rest[Routine] = 1 THEN "select"
                                                        ELSE "visit"]
  /\ cqLock' = IF rest[Routine] = 1 THEN NoProc ELSE Routine
  /\ UNCHANGED <<clState, cqOpen, stopClosed, tick, tries, err, record,
                 panicked>>

\* One element of iterate: a command that is due is given a goroutine.
RoutineRuns ==
  /\ pc[Routine] = "visit" /\ isStateLessThan(clusterShuttingDown)
  /\ cq' = Tail(cq)
  /\ rest' = [rest EXCEPT ![Routine] = @ - 1]
  /\ pc' = [pc EXCEPT ![Head(cq)] = "begin",
                      ![Routine] = IF rest[Routine] = 1 THEN "select"
                                                        ELSE "visit"]
  /\ cqLock' = IF rest[Routine] = 1 THEN NoProc ELSE Routine
  /\ UNCHANGED <<clState, cqOpen, stopClosed, tick, tries, err, record,
                 panicked>>

\* A command that is not due goes to the end of the queue.
RoutineSkips ==
  /\ pc[Routine] = "visit" /\ isStateLessThan(clusterShuttingDown)
  /\ cq' = Append(Tail(cq), Head(cq))
  /\ rest' = [rest EXCEPT ![Routine] = @ - 1]
  /\ Goto(Routine, IF rest[Routine] = 1 THEN "select" ELSE "visit")
  /\ cqLock' = IF rest[Routine] = 1 THEN NoProc ELSE Routine
  /\ UNCHANGED <<clState, cqOpen, stopClosed, tick, tries, err, record,
                 panicked>>

\* Mutant: the callback does not ask iterate to break.
RoutineDropsAll ==
  /\ pc[Routine] = "visit" /\ ~isStateLessThan(clusterShuttingDown)
  /\ cq' = Tail(cq)
  /\ rest' = [rest EXCEPT ![Routine] = @ - 1]
  /\ pc' = [pc EXCEPT ![Head(cq)] = "lost",
                      ![Routine] = IF rest[Routine] = 1 THEN "select"
                                                        ELSE "visit"]
  /\ cqLock' = IF rest[Routine] = 1 THEN NoProc ELSE Routine
  /\ UNCHANGED <<clState, cqOpen, stopClosed, tick, tries, err, record,
                 panicked>>

\* While shutting down the callback asks iterate to break and not to re-queue:
\* the command that was dequeued for it is forgotten.
RoutineDrops ==
  /\ pc[Routine] = "visit" /\ ~isStateLessThan(clusterShuttingDown)
  /\ cq' = Tail(cq)
  /\ rest' = [rest EXCEPT ![Routine] = 0]
  /\ pc' = [pc EXCEPT ![Head(cq)] = "lost", ![Routine] = "select"]
  /\ cqLock' = NoProc
  /\ UNCHANGED <<clState, cqOpen, stopClosed, tick, tries, err, record,
                 panicked>>
-----------------------------------------------------------------------------
(* Start() and Stop() *)

\* Start also starts every node; its state is set last.
Start ==
  /\ pc[Owner] = "created" /\ clState = clusterCreated
  /\ clState' = clusterRunning
  /\ Goto(Owner, "running")
  /\ UNCHANGED <<cq, cqOpen, cqLock, stopClosed, tick, local, record, panicked>>

StopBegin ==
  /\ CanStop
  /\ pc[Owner] = "running" /\ stateCheckRunning
  /\ clState' = clusterShuttingDown
  /\ waiting' = Queued
  /\ Goto(Owner, IF queueCommands THEN "closeStop" ELSE "stopNodes")
  /\ UNCHANGED <<cq, cqOpen, cqLock, stopClosed, tick, local, done, failed,
                 served, sent, returned, panicked>>

\* close(stopChan) and commandQueueTicker.Stop(); a buffered tick stays.
StopCloseChan ==
  /\ pc[Owner] = "closeStop"
  /\ stopClosed' = TRUE
  /\ Goto(Owner, "stopCount")
  /\ UNCHANGED <<clState, cq, cqOpen, cqLock, tick, local, record, panicked>>

StopCount ==
  /\ pc[Owner] = "stopCount"
  /\ cqLock = NoProc
  /\ Goto(Owner, IF cq = <<>> THEN "destroy" ELSE "stopSweep")
  /\ UNCHANGED <<shared, local, record, panicked>>

StopSweep ==
  /\ pc[Owner] = "stopSweep"
  /\ cqLock = NoProc
  /\ IF cq = <<>>
       THEN Goto(Owner, "destroy") /\ UNCHANGED <<cqLock, rest>>
       ELSE /\ Goto(Owner, "drain")
            /\ cqLock' = Owner
            /\ rest' = [rest EXCEPT ![Owner] = Len(cq)]
  /\ UNCHANGED <<clState, cq, cqOpen, stopClosed, tick, tries, err, record,
                 panicked>>

\* A command that waits in the queue is completed: ErrClusterShuttingDown.
StopDrain ==
  /\ pc[Owner] = "drain"
  /\ cq' = Tail(cq)
  /\ rest' = [rest EXCEPT ![Owner] = @ - 1]
  /\ AsyncDone(Head(cq), TRUE)
  /\ pc' = [pc EXCEPT ![Head(cq)] = "finished",
                      ![Owner] = IF rest[Owner] = 1 THEN "destroy" ELSE "drain"]
  /\ cqLock' = IF rest[Owner] = 1 THEN NoProc ELSE Owner
  /\ UNCHANGED <<clState, cqOpen, stopClosed, tick, tries, err, served, sent,
                 returned, waiting>>

\* destroy closes the channel without taking the queue's mutex.
StopDestroy ==
  /\ pc[Owner] = "destroy"
  /\ cqOpen' = FALSE
  /\ Goto(Owner, "stopNodes")
  /\ UNCHANGED <<clState, cq, cqLock, stopClosed, tick, local, record, panicked>>

\* Every node is stopped; a node that is not shut down afterwards is a panic.
StopNodes(allStopped) ==
  /\ pc[Owner] = "stopNodes"
  /\ IF allStopped
       THEN /\ clState' = clusterShutdown
            /\ Goto(Owner, "stopped")
            /\ UNCHANGED panicked
       ELSE panicked' = "nodesRunning" /\ UNCHANGED <<clState, pc>>
  /\ UNCHANGED <<cq, cqOpen, cqLock, stopClosed, tick, local, record>>
-----------------------------------------------------------------------------
CmdNext(c) ==
  \/ Begin(c) \/ Check(c)
  \/ RunSucceeds(c) \/ RunFails(c) \/ RunRefused(c) \/ RunUnavailable(c)
  \/ EnqueueCheck(c) \/ Enqueue(c) \/ Refused(c) \/ Done(c)

RoutineNext ==
  \/ RoutineQuit \/ RoutineTick \/ RoutineCheck \/ RoutineSweep
  \/ RoutineRuns \/ RoutineSkips \/ RoutineDrops

OwnerNext ==
  \/ Start
  \/ StopBegin \/ StopCloseChan \/ StopCount \/ StopSweep \/ StopDrain
  \/ StopDestroy \/ \E all \in BOOLEAN : StopNodes(all)

\* A panic ends the program, whichever goroutine raised it.
Next ==
  /\ panicked = "no"
  /\ \/ \E c \in Cmds : Submit(c) \/ CmdNext(c)
     \/ Tick \/ RoutineNext \/ OwnerNext

Spec == Init /\ [][Next]_vars

(***************************************************************************)
(* Fairness.  A goroutine that can run is run eventually, a mutex does not *)
(* pass over a waiter for ever, the ticker ticks, and a command that stays *)
(* in the queue becomes due because its executeAt is fixed when it is      *)
(* queued.  Nothing is assumed of the nodes: ExecuteOnNode may answer      *)
(* anything, and need not return at all (its loop over the nodes can spin, *)
(* see NodeManager).                                                       *)
(***************************************************************************)
Alive(A) == panicked = "no" /\ A

Fairness ==
  /\ WF_vars(Alive(Tick)) /\ WF_vars(Alive(RoutineNext))
  /\ SF_vars(Alive(RoutineSweep))
  /\ \A c \in Cmds : SF_vars(Alive(RoutineRuns /\ Head(cq) = c))
  /\ WF_vars(Alive(OwnerNext /\ pc[Owner] # "running"))
  /\ SF_vars(Alive(StopCount)) /\ SF_vars(Alive(StopSweep))
  /\ \A c \in Cmds : /\ WF_vars(Alive(CmdNext(c) /\ pc[c] # "run"))
                     /\ SF_vars(Alive(Enqueue(c)))

FairSpec == Spec /\ Fairness
-----------------------------------------------------------------------------
(* Properties *)

Ended == {"done", "finished"}

\* Every goroutine is at a step of its own program.
PcOK ==
  /\ pc \in [Procs -> CmdPC \cup RoutinePC \cup OwnerPC]
  /\ \A c \in Cmds : pc[c] \in CmdPC
  /\ pc[Routine] \in RoutinePC /\ pc[Owner] \in OwnerPC

\* Every variable keeps its type.
TypeOK ==
  /\ clState \in clusterCreated..clusterShutdown
  /\ cq \in Seq(Cmds) /\ Len(cq) <= QueueMaxDepth
  /\ cqOpen \in BOOLEAN
  /\ cqLock \in Procs \cup {NoProc}
  /\ stopClosed \in BOOLEAN /\ tick \in BOOLEAN
  /\ PcOK
  /\ tries \in [Cmds -> 0..ExecutionAttempts]
  /\ err \in [Cmds -> BOOLEAN]
  /\ rest \in [{Routine, Owner} -> 0..QueueMaxDepth]
  /\ done \in [Cmds -> 0..2]
  /\ failed \in [Cmds -> BOOLEAN] /\ served \in [Cmds -> BOOLEAN]
  /\ sent \in [Cmds -> 0..SentBound]
  /\ returned \in [Cmds -> {"no", "nil", "error"}]
  /\ waiting \subseteq Cmds
  /\ panicked \in {"no", "closedQueue", "nodesRunning", "negativeWait"}

\* A command is in the queue at most once, and only while no goroutine runs
\* it: execute re-enqueues, the queue routine starts goroutines and re-queues,
\* and never are two of them at work on one command.
OnePlace ==
  /\ \A i, j \in 1..Len(cq) : i # j => cq[i] # cq[j]
  /\ \A c \in Cmds : c \in Queued <=> pc[c] = "queued"

\* What Done or Wait has announced is over: a completed command is neither
\* queued nor sent to a node again, so the application may read its result.
CompletedIsFinal ==
  \A c \in Cmds : done[c] > 0 => pc[c] \in Ended /\ c \notin Queued

\* async.Error is nil exactly for the commands that Riak has served, through
\* retries, the queue and shutdown.
TruthfulCompletion ==
  \A c \in Cmds : done[c] > 0 => (served[c] <=> ~failed[c])

\* A command that cannot be retried (a listing, a query, map-reduce) is sent to
\* Riak at most once, however often it is queued.
SingleShot == \A c \in Cmds \ Retryable : sent[c] <= 1

\* Without a queue no command is sent more than executionAttempts times.  (With
\* one, each stay in the queue gives a retryable command new attempts.)
AttemptsBounded ==
  ~queueCommands => \A c \in Cmds : sent[c] <= ExecutionAttempts

\* A command is completed at most once: a second completion sends on Done again
\* and takes the WaitGroup below zero.
CompletedOnce == \A c \in Cmds : done[c] <= 1

\* Of the commands that wait in the queue when Stop begins, all but one at most
\* have been completed when Stop closes the queue.  The one is the command that
\* the queue routine, in the middle of a sweep, takes from the queue while the
\* cluster shuts down.  (A command that enters the queue only after the drain,
\* because it has looked at the state before Stop, is not one of them: it stays
\* in the queue and nobody completes it either.)
DropsAtMostOne ==
  pc[Owner] \in {"destroy", "stopNodes", "stopped"} =>
    /\ \A c \in waiting : IF pc[c] = "lost" THEN done[c] = 0
                                            ELSE done[c] = 1 /\ failed[c]
    /\ \A c, d \in waiting : pc[c] = "lost" /\ pc[d] = "lost" => c = d

\* The program dies of a command only when Stop was faster and has closed the
\* queue, or when a command that the queue refused, full or in a cluster that
\* shuts down, takes its WaitGroup below zero with its second completion.
PanicExplained ==
  /\ panicked \in {"closedQueue", "nodesRunning"} =>
       clState >= clusterShuttingDown
  /\ panicked = "negativeWait" =>
       \E c \in Waited : done[c] = 2 /\ failed[c] /\ ~served[c]

\* A command that hangs in ExecuteOnNode, as NodeManager shows it may.
Hangs(c) == [](pc[c] = "run")

\* Each call of execute ends, with a completion or with the command in the
\* queue, unless ExecuteOnNode never returns.
ExecuteEnds ==
  \A c \in Cmds : pc[c] = "begin" ~> (pc[c] \in {"queued", "finished"} \/ Hangs(c))

\* A queued command gets another goroutine.
QueuedRunsAgain ==
  \A c \in Cmds : pc[c] = "queued" ~> pc[c] = "begin"

\* Without a queue every command is completed, also when Stop comes in between,
\* unless the program dies or ExecuteOnNode never returns.
EveryCommandCompletes ==
  \A c \in Cmds :
    pc[c] = "begin" ~> (done[c] > 0 \/ panicked # "no" \/ Hangs(c))
-----------------------------------------------------------------------------
(* The parts of the inductive invariant behind these properties *)

\* Who iterates holds the queue's mutex and never outruns the queue; there is
\* nothing of this without a queue.
Iterating ==
  /\ pc[Routine] = "visit" => cqLock = Routine /\ rest[Routine] \in 1..Len(cq)
  /\ pc[Owner] = "drain" => cqLock = Owner /\ rest[Owner] \in 1..Len(cq)

\* What is known of a command at each point of execute.
ProgressOf(c) ==
  /\ pc[c] \notin Ended => done[c] = 0 /\ ~failed[c] /\ ~served[c]
  /\ pc[c] = "done" => /\ served[c] <=> ~err[c]
                       /\ failed[c] <=> done[c] = 1
                       /\ failed[c] => err[c]
                       /\ done[c] <= 1
  /\ pc[c] = "finished" => /\ done[c] \in 1..2
                           /\ served[c] <=> ~failed[c]
Progress == \A c \in Cmds : ProgressOf(c)

\* How often a command may have been sent at each point.
SendingOf(c) ==
  /\ pc[c] \in {"check", "run"} => tries[c] > 0
  /\ c \notin Retryable =>
       /\ pc[c] \in {"check", "run"} => tries[c] = 1
       /\ pc[c] \notin Ended => sent[c] = 0
       /\ sent[c] <= 1
Sending == \A c \in Cmds : SendingOf(c)

IndInv == TypeOK /\ Iterating /\ OnePlace /\ Progress /\ Sending
==============================================================================
