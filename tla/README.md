# A verification project for riak-go-client

riak-go-client is a Go client for the Riak database. An application builds
commands, hands them to a `Cluster`, and the cluster runs each one on a pooled
TCP connection of one of its `Node`s. The concurrency of the client is in the
middle of that path: goroutines that execute commands share a connection pool,
a command queue, node and cluster lifecycle states and a round-robin index with
background goroutines (an expirer per pool, health checks, a queue ticker) and
with `Start`/`Stop`.

This directory holds TLA+ models of those parts, TLC configurations that check
them on small instances, and proofs checked by TLAPS.

    tlasany ConnectionManager.tla                       parse
    tlc -workers 2 -config cm_safety.cfg MCConnectionManager
    tlc -workers 2 -config cl_queue.cfg MCCluster
    tlc -workers 2 -config nm_dispatch.cfg MCNodeManager
    tlc -workers 2 -config cmd_exec.cfg MCConnection
    tlapm ConnectionManagerProofs.tla                   all proofs of a module

## 1. Inventory

| Component | State | Operations | Talks to |
|---|---|---|---|
| Connection manager (`connection_manager.go`) | lifecycle state, atomic `connectionCounter`, idle queue, two mutexes, `stopChan`, expiry ticker | `start`, `stop`, `get`, `put`, `remove`, `create`, `manageConnections` | called by Node; owns connections |
| Queue (`queue.go`) | a buffered channel and a mutex | `enqueue`, `dequeue`, `iterate`, `count`, `destroy` | used by the connection manager and the cluster |
| Node (`node.go`) | lifecycle state, `stopChan`, its connection manager | `start`, `stop`, `execute`, `doHealthCheck`, `healthCheck` goroutine | called by the node manager and the cluster |
| Node manager (`node_manager.go`) | `nodeIndex`, a mutex | `ExecuteOnNode` (round robin) | called by Cluster.execute; calls Node.execute |
| Cluster (`cluster.go`) | lifecycle state, node list, command queue, ticker, `stopChan` | `Start`, `Stop`, `AddNode`, `RemoveNode`, `Execute`, `ExecuteAsync`, `executeEnqueuedCommands` | calls everything above |
| Async (`async.go`) | `Error`, `Done`, `Wait`, back-off times | `onExecute`, `onRetry`, `onEnqueued`, `done` | one per execution |
| Connection (`connection.go`, `net.go`, `rpb.go`) | socket, state, `inFlight`, read buffers | `connect`, `execute`, `read`, `write`, `close`, `startTls` | runs a command's request and responses |
| Lifecycle states (`states.go`) | a byte under a mutex | `setState`, `stateCheck`, `isCurrentState`, `isStateLessThan` | embedded in cluster, node, manager, connection |
| Command base (`command.go`) | `error`, `success`, `lastNode` | `onError`, `onRetry`, message framing | every command |
| Commands (`kv_`, `crdt_`, `ts_`, `yz_`, `misc_commands.go`) | request, partial response, `done` flag | `Build` (validation), `constructPbRequest`, `onSuccess` (streaming ones accumulate) | connection.execute |
| Object (`object.go`) | siblings, indexes, links | conversion from and to protobuf | KV commands |
| Errors, constants, logging, client, addresses | none, or configuration | | |
| `rpb/` | generated protobuf code | | |

What is hard here, and which property is about it:

* **Two mutexes and callbacks.** `queue.iterate` runs its callback with the
  queue's mutex held, and the callback takes the manager's mutex; `stop` takes
  them in the other order (`StopTerminates`, `NoLockCycle`, `GetReturns`).
* **A limit checked in one place and changed in another.** `create` compares
  the counter with `maxConnections` under the manager's mutex and increments it
  only after a dial; `remove`, `put` and the expirer decrement it, two of them
  without the mutex (`CounterMatchesPool`, `PoolBounded`).
* **Exclusive use.** `connection.inFlight` is not synchronised: it is correct
  only if a connection is with one goroutine at a time (`ExclusiveConnection`,
  `InUseNotClosed`).
* **Shutdown racing everything.** Each operation reads a lifecycle state once
  and goes on (`PanicOnlyInStop` of the pool, `PanicExplained` of the cluster and
  of the dispatch, `NilConnExplained`, `StopUndoneByRaceOnly`, `StopShutsDown`).
* **Ownership on error paths.** A connection must come back to the queue or be
  closed, also when a queue operation fails (`QueueHasRoom`,
  `NoLeakWhileRunning`, `ConnectionComesBack`).
* **One command, several goroutines.** A command passes from `execute` to the
  queue, to a new goroutine and back, while a sweep rotates the queue and
  `Stop` drains it (`OnePlace`, `CompletedIsFinal`, `DropsAtMostOne`).
* **Completion exactly once, and truthfully.** Four paths lead to `async.done`
  (`CompletedOnce`, `TruthfulCompletion`, `EveryCommandCompletes`).
* **Retries of what was already done.** Each stay in the queue starts the
  attempts anew (`SingleShot`, `AttemptsBounded`).
* **Health checks.** Any worker may start one, with a look at the state and a
  write that are two steps; a check ends by what it reads of the state
  (`CheckedWhileHealthChecking`, `ServiceResumes`, `ChecksEnd`).
* **A round robin that everybody moves.** Its end is a comparison with an index
  that other goroutines increment, over a slice that `AddNode` and `RemoveNode`
  change underneath (`GivenUpAfterAll`, `AttemptEnds`, `SliceWellFormed`,
  `PanicExplained`).
* **Connections that are used again.** The answers on a connection belong to the
  command that runs on it only if every earlier one was read to its end
  (`InSync`, `NothingForeign`, `StreamComplete`).
* **Errors that mean different things.** One type switch decides what becomes of
  the connection, of the node and of the command (`FailureVisible`,
  `Terminates`).
* **Builders.** What `Build` validates, copies or forgets decides much later
  whether a command can run, and what it shares with the command lets a builder
  that is used again change a command on its way (`TimeoutCovers`,
  `ResponseLocated`, `ContextDemanded`, `PanicExplained` of the commands).

Most of these properties are checked by a run. `PoolBounded`, `QueueHasRoom`,
`InUseNotClosed`, `PanicOnlyInStop`, `AttemptsBounded`, `NilConnExplained` and the
`PanicExplained` of `Cluster`, the inductive invariants, and the types of `Cluster`, `Node` and `NodeManager` are
theorems: they hold for every value of the constants, and no run repeats them.

PROJECT.json lists the hazards with their lines. Where the code really has what the
hazard describes, no property of a passing run can exclude it: such a hazard is a
violation run, or has a note that says which step of the model it is and which
properties except it by name.

## 2. Plan

| | Modules | Models | State |
|---|---|---|---|
| 1 | `ConnectionManager`, `MCConnectionManager`, `ConnectionManagerProofs` | pool and queue | done |
| 2 | `Cluster`, `MCCluster`, `ClusterProofs` | execution, command queue, `Async`, `Stop` | done |
| 3 | `Node`, `MCNode`, `NodeProofs` | lifecycle and health checks | done |
| 4 | `NodeManager`, `MCNodeManager`, `NodeManagerProofs` | dispatch over the node list; composes `Node` with `Start`, `Stop`, `AddNode`, `RemoveNode` | done |
| 5 | `Command`, `KVCommands`, `CRDTCommands`, `TSCommands`, `YZCommands`, `MiscCommands`, `Connection`, `MCConnection`, `CommandProofs`, `ConnectionProofs` | commands, their builders, the connection | done |
| 6 | `MapOperation`, `MCMapOperation`, `MapOperationProofs` | the CRDT map operation | done |
| 7 | `Pool` | abstract pool, implemented by `ConnectionManager` | done |

Left: the composition of `Cluster` with `NodeManager`, in which the three kinds
of answer of `ExecuteOnNode` would be derived and not assumed.

## 3. ConnectionManager

### State and actions

Goroutines are the *workers* (each runs `Node.execute` over and over), the
*expirer* (`manageConnections`) and the *owner* (the goroutine that calls
`start` and `stop`). One action is one stretch of code between two accesses
that another goroutine can observe: a mutex operation, an atomic access of the
counter or the lifecycle state, a channel operation, a dial.

| Variable | Code |
|---|---|
| `cmState` | `stateData.stateVal` of the manager |
| `counter` | `connectionCounter`, modulo 2^16 |
| `q`, `qOpen`, `qLock` | the queue's channel, whether it is closed, its mutex |
| `cmLock` | the manager's mutex |
| `stopClosed`, `tick` | `stopChan` closed; a pending tick (a ticker's channel holds one) |
| `conn` | per connection object: no socket, active, or inactive |
| `hand`, `rest`, `pc` | per goroutine: the connection it holds, elements left to visit in its `iterate`, its next step |
| `panicked` | a run-time or explicit panic, which ends the program |

| Code | Actions |
|---|---|
| `start` | `StartDial`, `StartDialFails`, `StartDone` |
| `stop` | `StopBegin`, `StopCloseChan`, `StopCount`, `StopLock`, `StopQueue`, `StopDrain`, `StopDestroy`, `StopFinish` |
| `manageConnections` | `Tick`, `ExpirerQuit`, `ExpirerTick`, `ExpirerSweep`, `ExpirerVisit`, `ExpirerDecide`, `ExpirerExpire`, `ExpirerRequeue` |
| `get` | `WorkerBegin`, `GetIterate`, `GetTake`, `GetDiscard`, `GetDiscardCount`, `GetDiscardClose` |
| `create` | `CreateCheck`, `CreateLock`, `DialSucceeds`, `DialFails` |
| the command on the connection | `UseKeeps`, `UseFails` |
| `put`, `remove` | `PutCheck`, `PutEnqueue`, `RemoveCheck`, `CountOff`, `Close` |

Abstractions:

* Time is a nondeterministic choice: a tick may come at any time, and the
  expirer's idle test may answer either way.
* A connection is a member of `Conns`; a closed object may serve again as a new
  connection, which keeps the model finite. `Conns` is large enough that a dial
  is never refused for want of an object.
* The queue's operations are inlined: each is a critical section of `qLock`;
  `iterate` is as many steps as it visits elements.
* The reads of the two counters for log messages are left out, except
  `q.count()` in `stop`, which takes the queue's mutex. `cmError` is left out:
  it needs an `iterate` on a destroyed queue, so a second `stop`.
* A connection that comes back to the queue inactive is possible because of the
  short-read branches of `connection.read`, which return a `ClientError`.
  `io.ReadFull` excludes short reads without an error, so this over-approximates
  the code; it is kept because it is what `get`'s discard branch is written for.
  No counterexample below uses it.
* The sockets of health checks come from `createConnection` directly and are
  outside the pool: the node's model has them.

### Runs

| Run | Instance | Shows |
|---|---|---|
| `cm_safety` | 3 workers, 5 connections, min 1, max 2, with `stop` | `TypeOK`, `CounterMatchesPool`, `ExclusiveConnection`, `NoLeakWhileRunning`, `NoLockCycle`, `ImplementsPool` (below) |
| `cm_liveness` | 2 workers, 2 connections, min 1, max 2, with `stop` | `GetReturns`, `ConnectionComesBack`, `StopTerminates` |

Bounds. Three workers on a pool of two is the smallest instance in which one
worker is refused at the limit while two others hold connections and the
expirer sweeps. Five connection objects are the two that are counted and one
per worker that is counted off and not closed yet, so that a dial always finds
one. The counter is at most two, so its wrap-around is not reached; that it
never wraps for any limits is part of what is proved. The liveness run has two
workers and two connection objects because its fairness makes the graph
expensive; a dial then waits for a socket that is counted off to be closed,
which the closing worker does by itself. `NoLockCycle`, checked with three
workers and proved for all, says why more would change nothing. Neither run
checks deadlock: after `stop`, or a panic, everything may be at rest.

`PoolBounded` is about the connections that count: `remove` counts a connection
off before it closes the socket, so the number of sockets may exceed
`maxConnections` for a moment by one per goroutine in `remove`.

### Fairness

Weak fairness for each goroutine that is inside an operation: the Go scheduler
runs every runnable goroutine. Strong fairness for the steps that wait for a
mutex: since Go 1.9 `sync.Mutex` hands itself to a waiter that has waited for
more than a millisecond, so nobody is passed over for ever. `get`, ticks and
`stop` are never forced; a command or dial is assumed to return, which the
connection's deadlines guarantee.

### The lock order of stop

`manageConnections` calls `cm.Lock` from the callback of `queue.iterate`, which
holds the queue's mutex; `stop` calls `queue.iterate` with `cm.Lock` held. The
two never block each other (`NoLockCycle`, `StopTerminates`), for a reason the
code does not mention: after it has set `cmShuttingDown`, and before it takes
`cm.Lock`, `stop` compares two counts for a log message, and `q.count()` takes
the queue's mutex. That waits for a sweep which has seen the manager running to
end, and a later sweep finds it shutting down before its callback would lock.
The mutant `StopCountNoWait`, a `stop` without that log statement, deadlocks.

### What stop does to the pool

While the manager shuts down, `create` answers `(nil, nil)`, on which
`Node.execute` panics, `remove` returns without closing the connection, and a
`put` that passed its state check before `stop` queues a connection after the
queue was drained, or sends on the closed channel. All of these need a goroutine
that overlaps `stop`; `PanicOnlyInStop` and `NoLeakWhileRunning` say that none
happens before.

The expirer may also leave fewer than `minConnections`: its comparison is stale
when it decrements, because `remove` decrements without the manager's mutex.
The next `get` dials again, and no property is stated for it.

### The abstract pool

`Pool` is the promise to the workers without queue, counter, mutexes and
expirer: a set of at most `MaxConnections` members, each lent to one worker at a
time, none leaving while it is lent. `ConnectionManager` implements it with
`members` the connections that count (open and not counted off) and `user` the
connection in the hand of a worker that runs a command (`ImplementsPool`).

### Proofs

`ConnectionManagerProofs` proves, for any number of workers and connections and
any limits `1 <= min <= max <= 65535`:

| Theorem | Statement |
|---|---|
| `TypeCorrect` | `Spec => [](TypeOK /\ ControlInv)` |
| `Invariance` | `Spec => []IndInv` |
| `Exclusivity` | `Spec => []ExclusiveConnection` |
| `Counting` | `Spec => []CounterMatchesPool` |
| `Bounded` | `Spec => []PoolBounded` |
| `Room` | `Spec => []QueueHasRoom` |
| `NoLeak` | `Spec => []NoLeakWhileRunning` |
| `LockOrder` | `Spec => []NoLockCycle` |
| `InUse` | `Spec => InUseNotClosed` |
| `Panics` | `Spec => []PanicOnlyInStop` |
| `Refinement` | `Spec => ImplementsPool` |

Assumptions: `ConnAssumption` (finitely many connections, nil is not one),
`ProcAssumption` (goroutine names are distinct), `LimitAssumption`
(`newConnectionManager` substitutes defaults for zero and refuses `min > max`)
and `StopAssumption`.

None of the properties is inductive alone. The inductive invariant has four
layers, each preserved with the help of the ones before it:

1. `TypeOK` and `ControlInv`: which mutex each step holds, that `start` is
   alone, that an `iterate` never visits more elements than are queued (its
   dequeue cannot find the channel empty), how the lifecycle follows the owner,
   and which steps hold a connection.
2. `PoolInv`: what is held or queued is open, and is in one place only.
3. `CounterMatchesPool`: the counter is the cardinality of the open sockets
   less those about to be closed. A step that closes, opens or counts off one
   changes both sides by one; that needs layer 2 (nobody else holds it).
4. `LimitHolds`: between `CreateLock` and `DialSucceeds` the counter can only
   fall, because whoever increments holds the manager's mutex.

`QueueHasRoom` then follows by counting: the queued connections and the one in
the putting worker's hand are distinct pooled sockets, so there are fewer than
`MaxConnections` in the queue. `NoLeakWhileRunning`, `NoLockCycle` and `InUseNotClosed` are
invariance arguments on top of `IndInv`. `Refinement` maps each action to a step
of `Pool` or a stutter, with `ExclusiveConnection` for "not lent to anybody else"
and `LimitHolds` for the room.

Only model-checked: `GetReturns`, `ConnectionComesBack` and `StopTerminates`
(liveness under fairness is outside TLAPS's reach).

## 4. Cluster

### State and actions

`Cluster` models what happens to a command between `Execute`/`ExecuteAsync` and
the signal on `Done` or `Wait`: the retry loop of `execute`, the command queue
with the goroutine that empties it, and `Start`/`Stop`.

| Variable | Code |
|---|---|
| `clState` | `stateData` of the cluster |
| `cq`, `cqOpen`, `cqLock` | the channel of `Cluster.cq`, whether it is closed, its mutex |
| `stopClosed`, `tick` | `stopChan`, a tick buffered in `commandQueueTicker.C` |
| `pc` | the next step of each command's goroutine, the queue routine, the owner |
| `tries`, `err` | the local variables of `execute` |
| `rest` | `count - c` in `queue.iterate` |
| `done`, `failed` | calls of `async.done`, `async.Error != nil` |
| `served`, `sent`, `returned` | history: Riak answered without an error, how often a node sent the command, what `Execute` returned |
| `waiting` | history: the commands in the queue when `Stop` began |
| `panicked` | why the program died: a send on the closed queue, nodes that still run at the end of `Stop`, a `WaitGroup` below zero |

A command is one `Async`; its goroutine changes when the queue routine starts a
new one, so `pc[c]` is `"queued"` in between. The steps are cut where the code
reads or writes something another goroutine shares: `Begin` and `Check` (the
loop's state check), one action per answer of `ExecuteOnNode` (`RunSucceeds`,
`RunFails`, `RunRefused`, `RunUnavailable`), `EnqueueCheck`, `Enqueue` and
`Refused` for `enqueueCommand`, `Done`. The routine takes a tick
(`RoutineTick`), checks the state (`RoutineCheck`), takes the queue's mutex
(`RoutineSweep`) and visits each element (`RoutineRuns`, `RoutineSkips`,
`RoutineDrops`); `Stop` is `StopBegin`, `StopCloseChan`, `StopCount`,
`StopSweep`, `StopDrain`, `StopDestroy` and `StopNodes`.

Abstractions. The nodes are what `ExecuteOnNode` can answer: any answer at any
time, so every health or connection behaviour is included. `executeAt` is a
choice between due and not due at each visit. Whether all nodes are shut down
at the end of `Stop` is a choice too, because a racing health check can prevent
it; the alternative is the panic of `cluster.go:217`. `Start` succeeds: a
node's `start` fails only if it was started before. The application is taken to
receive every signal; an application that does not blocks `async.done`. The
commands in `Waited` have a `WaitGroup` of their own, whose second `Done` panics
(`AsyncDone`).
`sent` saturates at `SentBound`, one more than the attempts, which is all that
the properties compare it with. `AddNode` and
`RemoveNode` are in `NodeManager`; a second caller of `Stop` is not modelled.

### Runs

| Run | Instance | Shows |
|---|---|---|
| `cl_queue` | 3 commands (a synchronous one with 2 attempts, two single-shot ones), depth 2, with `Stop` | `OnePlace`, `CompletedIsFinal`, `TruthfulCompletion`, `SingleShot`, `DropsAtMostOne` |
| `cl_direct` | 2 commands, 3 attempts, no queue, with `Stop` | `CompletedOnce`, `EveryCommandCompletes` |
| `cl_liveness` | 2 commands, 2 attempts, depth 2, no `Stop` | `ExecuteEnds`, `QueuedRunsAgain`, no deadlock |
| `cl_double_done` | violation of `CompletedOnce` | a refused command is completed twice |

Bounds. Three commands on two places is the smallest instance in which a sweep
rotates the queue while a command it started is refused at the limit. The
retryable command passes a first and a last attempt, with the queue in between;
without a queue (`cl_direct`) there are three attempts, so also a middle one.
The two single-shot commands are interchangeable, hence the symmetry. The
states are finite without a bound on time: the program has no counter besides
`tries`.
Deadlock is checked in `cl_liveness`, where the ticker always goes on; the
other runs may end after `Stop` or a panic.

### Fairness

Weak fairness for every goroutine (the Go scheduler), for the ticker, and for
`Start` and a `Stop` that has begun; `Stop` itself is never forced. Strong
fairness for the steps that wait for the queue's mutex (Go's mutex does not
starve a waiter) and for `RoutineRuns` of each command: `executeAt` is fixed
when a command is queued, so a command that is visited again and again is due
at some visit. Nothing is assumed of the nodes: a command at `"run"`, inside of
`ExecuteOnNode`, has no fairness, because the loop over the nodes may spin for
ever (`nm_spin`). `ExecuteEnds` and `EveryCommandCompletes` therefore have the
alternative `Hangs(c)`, that the command stays there for ever. Neither does any
property say that a command is served: it may go from the queue to a node and
back for ever, and `QueuedRunsAgain` is what the library can promise.

### Violation

`cl_double_done`: `enqueueCommand` completes the command it cannot queue and
also returns the error; `execute` completes it again. With a `WaitGroup` of its
own the second completion panics; one that several commands share releases
somebody else's wait.

### What Stop does to the queue

`enqueueCommand` checks the state, and when `Stop` goes through before the send
and closes the channel, the send panics. A sweep that was under way when `Stop`
set the state has dequeued a command, and its callback answers "break, do not
re-queue": nobody completes this command. `DropsAtMostOne` bounds this loss: of
the commands that wait in the queue when `Stop` begins all others have been
completed, with an error, when `Stop` closes the queue. It says nothing of
commands that enter the queue later: `enqueueCommand` may have looked at the state
before `Stop` and enqueue after the drain. Such commands, any number of them up to
the depth of the queue, stay in a queue that nobody reads and are never completed;
when they come after the close they panic. `PanicExplained` says when the program
can die: of the closed queue or the nodes only once `Stop` has begun, of a
`WaitGroup` only by the second completion of a command that the queue refused,
which needs no `Stop`.
When a node is health checking, `Execute` queues the command and returns nil at
once, and the queue routine runs it later, while the caller already reads its
result; `TruthfulCompletion` is therefore about `async.done`, not about the
return of `Execute`.

### Proofs

`ClusterProofs` proves, for any commands, attempts from 1 to 255 and any depth:

| Theorem | Statement |
|---|---|
| `Invariance`, `TypeCorrect` | `Spec => []IndInv`, `Spec => []TypeOK` |
| `Placement` | `Spec => []OnePlace` |
| `Finality` | `Spec => []CompletedIsFinal` |
| `Truthfulness` | `Spec => []TruthfulCompletion` |
| `AtMostOnce` | `Spec => []SingleShot` |
| `WithoutQueue` | without a queue, `Spec => [](CompletedOnce /\ AttemptsBounded)` |
| `Attempts` | without a queue, `Spec => []AttemptsBounded` |
| `Panics` | `Spec => []PanicExplained` |
| `Drops` | `Spec => []DropsAtMostOne` |
| `WithRoom` | with a place for every command and no `Stop`, `Spec => []CompletedOnce` |
| `NoPanicWithRoom` | in the same configurations, no command kills the program |

Assumptions: `CmdAssumption` (finitely many commands, distinct from the two
other goroutines) and `OptionAssumption` (`NewCluster` replaces zero attempts).

`IndInv` adds to the types what each property needs of the control:
`Iterating` (an iteration holds the mutex and has no more to visit than is
queued, so that what it dequeues is a command), `OnePlace` itself, `Progress`
(before its end a command has no completion, error or answer; at `"done"` the
local `err` tells whether it was served) and `Sending` (a single-shot command
that still runs has not been sent). `Progress` rests on `OnePlace`: the drain
of `Stop` completes the head of the queue, which must not be a command that
some goroutine is completing. The types in turn rest on `Progress`, because a
third completion has to be excluded.

`Drops` adds to `IndInv` that every command of `waiting` is still queued, completed
with an error, or the one that the sweep took (`Drained`). The sweep takes at most
one because it breaks off there, and the routine finds the shutdown before it could
begin another.

`CompletedOnce` is false in general, as `cl_double_done` shows, so its two
theorems name the configurations in which it holds. `WithRoom` counts: the
queued commands are distinct and the one about to be queued is not among them,
so fewer than `Cardinality(Cmds)` are queued and none is refused.

Only model-checked: `ExecuteEnds`, `QueuedRunsAgain`, `EveryCommandCompletes`
(liveness) and the violation.

## 5. Node

### State and actions

`Node` models the nodes of a cluster with the goroutines that read and write
their lifecycle state. Every access of the state is locked, and nothing is
locked between two of them: one action is one access.

| Variable | Code |
|---|---|
| `nodeState` | `stateData` of each node |
| `stopped` | how far `stop` has come: not begun, `stopChan` closed, done |
| `raced` | history: the nodes where, when `stop` began, a goroutine had looked at the state and not set it yet |
| `wpc`, `wnode`, `result` | per worker: its place in `execute`, the node, what `execute` returned |
| `hpc`, `hnode` | per health check: its place in `healthCheck`, the node |
| `panicked` | the "expected non-nil connection" of `execute` |

| Code | Actions |
|---|---|
| `start`, `stop` | `start`, `stopBegin`, `stopFinish` |
| `execute` | `Call`, `stateCheck`, `isRunning`, `getFails`, `getNil`, `connExecutes`, `connBreaks`, `Taken` |
| `doHealthCheck` | the look at the state is part of `getFails` and `connBreaks`; `doHealthCheckSet` |
| `healthCheck` | `hcQuit`, `hcDial`, `hcPing`, `hcFails`, `hcSetRunning` |

Abstractions. The pool and the connection are their results: `get` fails,
answers nil (only once `stopChan` is closed, as `ConnectionManager` has it) or
gives a connection, on which the command is executed or which breaks.
`healthCheck` looks at the state between any two of its steps; a look that fails
only ends the check, so one look after each step has the same effect. At most
`Checks` health checks run at a time.

### Run

`nd_node`: one node, two workers, two health checks, `start` and `stop`. Two
workers are needed for two checks of the same node, two checks for one to set
the state under the other. `CheckedWhileHealthChecking` and `StopUndoneByRaceOnly`
are invariants. The second says that a node that is in service or health checking
although its `stopChan` is closed is in `raced`: a goroutine that looks at the
state only after `stop` has begun never brings a node back. `ServiceResumes` and `ChecksEnd` assume weak
fairness of goroutines, strong fairness of the `stopChan` case of the `select`
(Go chooses fairly among ready cases) and that a health check that is repeated
for ever succeeds some time (Riak comes back). After `stop` or a panic all may be
at rest, so deadlock is not checked.

### Proofs

`NodeProofs`, for any nodes, workers and health checks:

| Theorem | Statement |
|---|---|
| `NodeTypeCorrect` | `NodeSpec => []NodeTypeOK` |
| `AlwaysChecked` | `NodeSpec => []CheckedWhileHealthChecking` |
| `NilConn` | `NodeSpec => []NilConnExplained` |
| `StopUndone` | `NodeSpec => []StopUndoneByRaceOnly` |

`CheckedWhileHealthChecking` is inductive together with the types: a check ends
only after a look that finds another state, or with `stopChan` closed, and
whoever sets the state starts a check in the same step. `StopUndone` needs
`StopsQuietly`: a stopped node that is not in `raced` is shutting down or shut down,
and nobody is between look and set on it, since every look finds that state.
The liveness properties
are model-checked only.

## 6. NodeManager

### State and actions

`NodeManager` extends `Node`: the nodes' steps are those of `Node`, the calls of
`start`, `stop` and `execute` are made by the cluster and the node manager.

| Variable | Code |
|---|---|
| `array`, `len` | the array and the length of the slice `c.nodes` |
| `nodeIndex` | of `defaultNodeManager` |
| `cpc`, `tries`, `previous` | per worker: its place in `Cluster.execute` and `ExecuteOnNode`, attempts left, the node that `execute` read before the attempts |
| `wlen`, `start0` | its copy of the slice's length, `startingIndex` |
| `tried`, `alone` | history: the nodes of this attempt; whether nobody else moved the index or the slice |
| `cst` | `stateData` of the cluster |
| `opc`, `pos`, `target` | who has the cluster's mutex and where: `Start` or `Stop` at position `pos` of the slice, `RemoveNode`; the node that is stopped |
| `fatal` | a nil node dereferenced, a `stopChan` closed twice, or the panic of `Stop` |

| Code | Actions |
|---|---|
| `Cluster.execute` | `Begin`, `Attempt`, `AfterAttempt` |
| `ExecuteOnNode` | `Start`, `PickNode`, `PickNil`, `NodeReturns`; `OthersPick` for callers beyond the workers |
| `Start` | `StartCluster`, `StartNode`, `StartDone` |
| `Stop` | `StopCluster` (the state, without the mutex), `StopLocks`, for each node `StopNode` and `StopNodeDone` or `StopNodeFails` or `StopNodeTwice`, `Verify` |
| `AddNode`, `RemoveNode` | `AddNode`, `RemoveNode` (then the stop of the node as in `Stop`) |

`AddNode` and `RemoveNode` run whenever the mutex is free, in any state of the
cluster: `AddNode` starts the node only in a running one, so between the two steps
of `Stop` that set the state and take the mutex, or before `Start`, or after the
shutdown, it appends a node that is not started. `Stop` then finds a node whose
`stop` fails, logs that, and panics at `cluster.go:217`.

`execute` copies the slice without the cluster's mutex: length and pointer are
copied, the array is shared. `RemoveNode` moves the last node into the gap and
writes nil to the last slot, so a worker with the longer copy meets the nil.
`append` in `AddNode` writes to the shared array; when Go has to move it, a
worker sees less of what happens, which the model includes as another length.
`OthersPick` lets any number of other goroutines move the index.

### Runs

| Run | Instance | Shows |
|---|---|---|
| `nm_dispatch` | 2 nodes, of which 1 at first, 1 worker, 1 check, 2 attempts, nodes added and removed in every state of the cluster | `SliceWellFormed`, `GivenUpAfterAll`, `PanicExplained`, `NodeSpec` |
| `nd_restart` | violation of `StopShutsDown` | `Stop` panics: a health check sets the state after the shutdown |
| `nm_spin` | violation of `AttemptEnds` | the round robin never ends |

The two nodes are enough for a removal with a swap and for a skip of the
previous node; the other callers are `OthersPick`, so one worker is enough to be
disturbed. Two checks of one node are the matter of `nd_node`; here one is enough to
bring a node back after its stop, and a round without a node that takes the command
is met with one node health checking and the other stopped. `PanicExplained` lists what kills the program outside of the nodes: a
worker with an old, longer copy of the slice meets the nil of `RemoveNode`; a node
that a race brought back (`raced`) is stopped again; and `Stop`, having been to
every node, finds one that a race brought back or that was never started.
`nd_restart` has no `AddNode` (`Churn`), so its panic is the race. `nm_spin` assumes weak fairness of the worker and of the owner's
`Stop`, nothing of the health checks: Riak stays away.

* `nd_restart`. `healthCheck` finds the node health checking; `stop` runs
  through; `healthCheck` sets `nodeRunning`. `Stop` verifies that all nodes are
  shut down and panics.
* `nm_spin`. The first command starts at index 0. Each pick leaves the index at 1
  or more, so `startingIndex == nm.nodeIndex` is never true: with every node
  health checking the loop spins.

### Proofs

`NodeManagerProofs`, for any finite set of nodes and any workers, checks and
attempts:

| Theorem | Statement |
|---|---|
| `DispatchTypeCorrect` | `Spec => []TypeOK` |
| `NodesBehave` | `Spec => NodeSpec`: the composition implements the component |
| `NodesKept` | `Spec => []SliceWellFormed` |
| `FullRound` | `Spec => []GivenUpAfterAll` |
| `DispatchPanics` | `Spec => []PanicExplained` |

Assumptions: `NodeAssumption` (nil is not a node) and `DispatchAssumption`
(finitely many nodes, the cluster is made with distinct ones, at least one).

The inductive invariant: `Control` (types; `Slice`, the array holds distinct
nodes up to the length and nils behind it; `Nested`, where a worker is in the
three functions), `Started` (who is on a node is on one that was started),
`Stopping` (one node at a time; behind the position of `Stop` each node is stopped or
was never started), `Gone` (a node out
of the slice was never started or is stopped) and `Round` (while it is alone, a
worker has tried or skipped every slot between its start and the index, or, once
it wrapped, from its start on and up to the index). That an added node finds a
slot is a pigeonhole argument on `Slice`. By `NodesBehave` the theorems of
`NodeProofs` hold of the nodes of a cluster.

## 7. Commands and Connection

### State and actions

`Connection` follows a command from its builder to its result, and a second
command that meets what the first one left on the connection. `Command` has what
commands share (`command.go`, `locatable.go`); `KVCommands`, `CRDTCommands`,
`MiscCommands`, `TSCommands` and `YZCommands` have for each of the 35 commands a
record of its codes and interfaces, its `onSuccess`, the options of its builder
with the fields they set, the fields that `Build` copies and what `Build`
accepts.

| Variable | Code |
|---|---|
| `kind`, `builder`, `cmd` | the command's type, the fields its builder was given, the command |
| `aux`, `running` | `startTlsCommand` or `authCommand`, and which command `connection.execute` runs |
| `pc`, `tries`, `err`, `try` | control: attempts left in `Cluster.execute`, the error of `connection.execute`, retries in `read` |
| `conn`, `wire` | socket, state, `inFlight` and authentication; the answers that Riak has sent and nobody has read |
| `answer`, `sentTo`, `deadline`, `cause`, `reused`, `spoilt` | history for the properties |

| Code | Actions |
|---|---|
| builder options, `Build` | `WithOption`, `Build`, `ReuseBuilder` |
| `connect`, `startTls` | `Connect`, `DialFails`, `SetupStep`, `SetupFails`; `GetPooled` for a pooled connection |
| `execute` to the write | `ListingRefused`, `ConstructPanics`, `MarshalFails`, `Write`, `WriteFails` |
| `read`, `maybeRiakError`, `decodeRiakMessage`, `onSuccess`, `isDone` | `ReadMessage`, `RetryRead`, `ReadFails`, `ReadGarbage`, `ReadZeroLength`; `CallbackPanics` when `onSuccess` streams without a callback |
| `Node.execute`, `Cluster.execute` | `NodeDone` |

Abstractions. Fields have a few values each; an item of an answer is the number
of the attempt it answers and a number. Options that decide nothing by
themselves are used `MaxPlain` at a time. Riak answers a request in any legal
way (an error, one message, a stream of at most `MaxChunks` chunks, with `done`
alone or in the last chunk, or with a message without a body); an answer may
also never come. The application's next command is one that its `Build` accepts.
A read retried in mid message makes the rest of the
connection's bytes arbitrary. The pool is one connection; the node is always
running, so an attempt is an execution. Conflict resolvers keep the first
sibling. A callback returns nil, a `RiakError`, a `ClientError`, a temporary network
error or any other error. `ReuseBuilder` is the application that goes on with a
builder after `Build`: command and builder share the protobuf message, so a With
method changes the command's place (`Key` stands for bucket and type as well),
Riak's timeout or the streaming, at most `MaxReuse` of them, while what `Build` has
copied stays as it was. The conversion of contents, cells, documents and bucket properties is
left out.

### Run

`cmd_exec`: all 35 commands, then a `FetchValue`, with authentication, two
attempts, one retry of a read, one option besides the relevant ones, one field
changed by a builder that is used again (`MaxReuse`; the proofs have any number),
streams of two chunks: 1.4 million states. Two commands are what it takes to see leftovers; two attempts a
first and a last. Deadlock is checked. `Terminates` assumes weak fairness of the
client alone: reads have deadlines, so a read fails if nothing comes.

| Property | Says |
|---|---|
| `InSync` | a connection goes back to the pool without unread answers, but in the five ways that `spoilt` records |
| `NothingForeign` | on a connection that is not spoilt a command receives no answer to another one, or to an earlier attempt |
| `StreamComplete` | a stream that ended without an error, on a connection that is not spoilt, was delivered whole, once and in order; a streamed `TsQuery` always spoils its connection, so it is not among them |
| `FailureVisible` | a command that failed does not say it succeeded, and keeps the error; without an error and without success, its answer had no body |
| `Authenticated` | requests are sent on authenticated connections only |
| `TimeoutCovers` | the client waits as long as it allows Riak to take, except for `ListBuckets` and when `WithTimeout` is called again meanwhile |
| `ResponseLocated` | a response reports the place that was asked for, unless the builder is given another one meanwhile |
| `PanicExplained` | the program dies of a `StoreValue` without content, of a misframed read, or of a command without a callback whose builder is told to stream after `Build`, and of nothing else |
| `Terminates` | every execution ends |

The exceptions are what the code does:

* Five ways to spoil a connection. The streamed `TsQuery` has no `isDone`:
  `connection.execute` returns after one chunk, without an error (`"query"`). A
  message without a body ends a stream (`"empty"`). A callback's `RiakError` or
  `ClientError` is taken by `Node.execute` (`node.go:216`) for one of its own, and
  the connection is kept (`"callback"`); after any other error it is closed. A read
  that is retried in mid message reads its length from the message (`"frame"`). A
  builder that switches streaming on or off while the command reads makes it stop
  early (`"reuse"`).
* The builder's protobuf is the command's: a second use of the builder changes the
  place that the response reports, the timeout that Riak gets but not the one the
  client waits for, and the streaming, which panics in `onSuccess` when there is no
  callback.
* `TsListKeysCommandBuilder.Build` does not copy `allowListing`, so
  `connection.execute` refuses the command. `ListBuckets` has no `timeoutImpl`.
* Errors of the setup of a connection, of marshalling and of the write do not
  reach `cmd.onError`; the caller sees them in `Execute`'s error only.
* The Riak Search commands, `MapReduce` and the index of a secondary index query
  are not validated, and a request that does not marshal starts a health check.

### Proofs

`ConnectionProofs`, for any commands that the application builds and runs
afterwards, any numbers of attempts, read retries, chunks and options, with and
without authentication:

| Theorem | Statement |
|---|---|
| `ConnectionTypeCorrect` | `Spec => []TypeOK` |
| `AlwaysAuthenticated` | `Spec => []Authenticated` |
| `PooledInSync` | `Spec => []InSync` |
| `NothingForeignReceived` | `Spec => []NothingForeign` |
| `StreamsComplete` | `Spec => []StreamComplete` |
| `FailuresVisible` | `Spec => []FailureVisible` |
| `ValuesLocated` | `Spec => []ResponseLocated` |
| `TimeoutsCovered` | `Spec => []TimeoutCovers` |
| `PanicsExplained` | `Spec => []PanicExplained` |

Assumptions: `ConnectionAssumption` (numbers are numbers, at least one attempt)
and `KindAssumption` (the application runs commands of the five tables, but not
the two that secure a connection, for which it has no builder).

The 35 commands enter the argument once, in `CommandProofs`: `TraitsFacts` and
`BuilderFacts` say what the entries of the tables have in common, and
`OnSuccessEffect` says what any `onSuccess` may do to its command: it keeps the
fields and the error, takes items from the message only, names a place of the
request or a key of Riak, and appends the items of a chunk to what there was,
through the callback or in the Response. The proofs about the execution use these
facts and never a particular command.

The inductive invariant has parts that build on each other:

1. `TypeInv`: the types; `wire` and `answer` are sequences of messages; between
   executions nothing but the application's command runs.
2. `CommandInv`: a command is untouched (`Fresh`) until its request has been
   written, and again at each retry. That holds because a command that may be
   retried is done after one message and has no callback, which is a fact about
   the tables: a stream that has delivered a chunk is never executed again.
3. `SyncInv`: before a request nothing is on the wire; while its answer is read
   the wire holds the rest of an answer to this request, at most one message of
   which is the last; afterwards nothing is left, unless the connection is
   spoilt or inactive. `InSync` is the case of a connection in the pool.
4. `AnswerInv`: while a stream is read, there is a number of chunks such that
   the command has those and the wire holds the others (`PartlyDelivered`); all
   that the command got and all that is on the wire is of this attempt. A last
   message without data, for which a `MapReduce` adds an element, is the reason
   why `StreamComplete` has its second case. It rests on `CommandInv` (the
   command is fresh when the request is written) and on `SyncInv` (the wire is
   empty then).
5. `PlaceInv` and `RequestInv`: the place of the request and what `Build` put
   into the command are still there when the answer is read. A builder that was
   given a timeout has it in the message and in a field that `Build` copies
   (`BuilderTimed`); making the message (`constructPbRequest`) changes other
   fields only, and using the builder again changes the fields that `reused`
   records (`SameBut`).

Only model-checked: `Terminates` (liveness).

## 8. MapOperation

`MapOperation` models the operation that an application puts together for
`UpdateMapCommand`: eleven calls on it and on the nested operations that `Map`
returns. Operations are objects with numbers, because the application may keep
a pointer to a nested one that was removed. `populate` and `hasRemoves` are the
code's, over these objects; `log` is the history of calls, and `Meant` says from
the log alone what the message should be: for each field the positions in the log
of the calls after its last removal (`Since`), and what the calls there come to
(`Meaning`: the sum of the increments, all arguments in order, or the last one).
Increments are by 1 and -1.

`map_ops` checks every sequence of four calls on at most three operations, with
one field name (the fields of a Go map do not interact), two values and an
integer of two bits, in which increments wrap around:

* `MessageMeansCalls`: the message is what the calls since the last removal of
  each field come to;
* `TypeOK`: the Go maps have the values they may have, no field is updated and
  removed (`UpdatedOrRemoved`), and nested operations form a tree, so that the
  recursions end (`Nesting`);
* `ContextDemanded`: `Build` asks for a context exactly when the message removes a
  field, at any depth, or elements from a set of the outermost map. It asks for none
  when elements are removed from sets in nested maps, although its error speaks of
  "any removes" (`crdt_commands.go:1483`);
* `RemovedForGood`: a nested operation that was removed never comes back, so
  calls on a pointer to it are lost.

Four calls are enough for update, removal, update again and a call on a nested
operation after its removal. The run may stop: `MaxCalls` ends it.

### Proofs

`MapOperationProofs`, for any finite set of field names, any values, any number
of operations and calls and any width of the integers (`MapAssumption`):

| Theorem | Statement |
|---|---|
| `MapTypeCorrect` | `Spec => []TypeOK` |
| `ContextAlwaysDemanded` | `Spec => []ContextDemanded` |
| `MessagesMeanCalls` | `Spec => []MessageMeansCalls` |
| `RemovedStaysRemoved` | `Spec => RemovedForGood` |

`TypeOK` is inductive as it stands: a call changes one operation, and either keeps
or drops what is nested in it (`Harmless`) or nests an operation with a new
number (`MapNew`), so numbers grow along the nesting. `ContextAlwaysDemanded` and
`RemovedStaysRemoved` follow the nesting. `removesIn` and `isSent` are recursive functions; that they satisfy the
equations they are defined by is not given by their definition and is proved
first (`RemovesIn`, `IsSent`: the least set that is closed under the recursion is
a solution). Then the induction is a least counterexample: of the sent operations
with a removal in them the one with the least number is the root, the one with the
greatest has the removal itself (the two directions of `ContextAlwaysDemanded`), and of the operations that come back into the message
the one with the least number would have to be nested in one that was sent
before, in an entry that no call writes (`RemovedStaysRemoved`).

`MessagesMeanCalls` compares state that each call updates in place with a reading
of the whole log. Its inductive invariant, `MeansInv`, says that each of the eleven
Go maps of every operation equals what the log asks for, and that the positions
that count are ranked without gaps (`RankedIn`: the n-th argument exists for every n
up to their number). The log is read by sets of positions and not by recursion, so
one more call needs no induction over the log: a new position is the greatest, it
empties the positions that count when it is a removal (`SinceStep`), has the next
rank (`RankStep`) and leaves what is said of the others alone (`MeaningKept`). A sum
that wraps around at each addition is the sum wrapped around once (`WrapPlus`, from
the uniqueness of remainders). `CallMeans` then has one step per call. The removes
that `populate` skips are empty by the equation of `removesIn`, and `Map` on a
nested operation that is there logs the number it already has.

Every property of `map_ops` is proved.

## 9. Not modelled

* `rpb/`, generated protobuf code: the tables of the command modules have the
  required fields and the places of each message. `logging.go`, `examples/`,
  `tools/`.
* `object.go`, and the field-by-field conversion of contents, time series cells,
  search documents and bucket properties: data without state. `client.go` only
  makes options.
* TLS itself: a handshake succeeds or fails. `authOptions` without a
  `TlsConfig` fails every connection in the way a failed handshake does.
* A second caller of `Stop`, and a second `stop` of a pool or node with the
  states `cmError` and `nodeError` that it leads to. A node that is given to two
  clusters.
* A data race: `connection.inFlight` and `lastUsed` are unsynchronised, which
  `ExclusiveConnection` justifies; a `MapOperation` or a builder that two
  goroutines use at the same time is the application's.
* Which updates Riak applied when an answer is lost: a retried counter update
  may count twice, and the library cannot know.

Outside TLAPS's reach, and model-checked only: liveness under fairness.
