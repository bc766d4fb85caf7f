-------------------------------- MODULE Node ---------------------------------
(***************************************************************************)
(* The nodes of a cluster (node.go): their lifecycle state, which start,   *)
(* stop, execute and the health checks read and write, each access locked  *)
(* and nothing between two of them (states.go).                            *)
(*                                                                         *)
(* Goroutines: workers, which are in execute on some node; health checks,  *)
(* which execute starts; the owner, who starts and stops nodes.  The pool  *)
(* of a node (ConnectionManager) and its connections (Connection) are seen *)
(* through the results of get and of connection.execute.  A worker is      *)
(* "out" when it is not in execute, and "returned" until the caller has     *)
(* looked at the result.                                                    *)
(***************************************************************************)
EXTENDS Integers, Sequences, FiniteSets

CONSTANTS
  Nodes,    \* the nodes
  Workers,  \* goroutines that call execute
  Checks,   \* bound on the health checks at a time
  NoNode    \* the nil node

ASSUME NodeAssumption == NoNode \notin Nodes

\* In the order of isStateLessThan.  nodeError is left out: it takes a second
\* stop of the same pool.
nodeCreated        == 0
nodeRunning        == 1
nodeHealthChecking == 2
nodeShuttingDown   == 3
nodeShutdown       == 4

VARIABLES
  nodeState,   \* stateData of each node
  stopped,     \* how far stop has come
  raced,       \* history: nodes for which stop began between a look and a set
  wpc,         \* where a worker is in execute
  wnode,       \* on which node
  result,      \* what execute has returned: executed and an error or none
  hpc,         \* where a health check is, "off" if there is none
  hnode,       \* and for which node
  panicked     \* has execute panicked, on a connection that is nil?

caller    == <<wpc, wnode, result>>
checker   == <<hpc, hnode>>
nodeVars  == <<nodeState, stopped, raced, caller, checker, panicked>>

WorkerPC == {"out", "check", "running", "get", "hcSet", "returned"}
CheckPC  == {"off", "select", "ping", "set"}
StopPC   == {"no", "begun", "done"}
Result(executed, err) == [executed |-> executed, err |-> err]
NoResult == Result(FALSE, FALSE)
Results == [executed : BOOLEAN, err : BOOLEAN]

At(w, l) == wpc' = [wpc EXCEPT ![w] = l]

\* execute returns.
Returns(w, r) == At(w, "returned") /\ result' = [result EXCEPT ![w] = r]

\* stopChan is closed, and the pool stops or has stopped.
StopClosed(n) == n \in Nodes /\ stopped[n] # "no"

\* Checks that are under way for node n.
Active(n) == {h \in Checks : hpc[h] # "off" /\ hnode[h] = n}

\* Goroutines that have looked at the state of node n and are about to set it.
AboutToSet(n) ==
  {w \in Workers : wpc[w] = "hcSet" /\ wnode[w] = n}
    \cup {h \in Checks : hpc[h] = "set" /\ hnode[h] = n}
-----------------------------------------------------------------------------
(* start and stop, called by the owner. *)

\* Errors of the pool's start are only logged.
start(n) ==
  /\ nodeState[n] = nodeCreated
  /\ nodeState' = [nodeState EXCEPT ![n] = nodeRunning]
  /\ UNCHANGED <<stopped, raced, caller, checker, panicked>>

\* The state, close(n.stopChan), and the pool begins to stop.  (A second stop, of a
\* node that a race has brought back, dies of the closed channel: see NodeManager.)
stopBegin(n) ==
  /\ stopped[n] = "no"
  /\ nodeState[n] \in {nodeRunning, nodeHealthChecking}
  /\ nodeState' = [nodeState EXCEPT ![n] = nodeShuttingDown]
  /\ stopped' = [stopped EXCEPT ![n] = "begun"]
  /\ raced' = IF AboutToSet(n) = {} THEN raced ELSE raced \cup {n}
  /\ UNCHANGED <<caller, checker, panicked>>

\* The pool has stopped.
stopFinish(n) ==
  /\ stopped[n] = "begun"
  /\ nodeState' = [nodeState EXCEPT ![n] = nodeShutdown]
  /\ stopped' = [stopped EXCEPT ![n] = "done"]
  /\ UNCHANGED <<raced, caller, checker, panicked>>
-----------------------------------------------------------------------------
(* execute *)

Call(w, n) ==
  /\ wpc[w] = "out"
  /\ wnode' = [wnode EXCEPT ![w] = n]
  /\ At(w, "check")
  /\ UNCHANGED <<nodeState, stopped, raced, result, checker, panicked>>

stateCheck(w) ==
  /\ wpc[w] = "check"
  /\ IF nodeState[wnode[w]] \in {nodeRunning, nodeHealthChecking}
       THEN At(w, "running") /\ UNCHANGED result
       ELSE Returns(w, Result(FALSE, TRUE))
  /\ UNCHANGED <<nodeState, stopped, raced, wnode, checker, panicked>>

\* A node that is health checking, or has stopped meanwhile, is no error.
isRunning(w) ==
  /\ wpc[w] = "running"
  /\ IF nodeState[wnode[w]] = nodeRunning
       THEN At(w, "get") /\ UNCHANGED result
       ELSE Returns(w, Result(FALSE, FALSE))
  /\ UNCHANGED <<nodeState, stopped, raced, wnode, checker, panicked>>

\* Mutant: doHealthCheck does not look at the state.
doHealthCheckBlindly(w) == At(w, "hcSet")

\* doHealthCheck looks at the state first.
doHealthCheck(w) ==
  At(w, IF nodeState[wnode[w]] < nodeHealthChecking THEN "hcSet" ELSE "returned")

\* get fails: the dial does, or all connections are in use, or the pool is gone.
getFails(w) ==
  /\ wpc[w] = "get"
  /\ doHealthCheck(w)
  /\ result' = [result EXCEPT ![w] = Result(FALSE, TRUE)]
  /\ UNCHANGED <<nodeState, stopped, raced, wnode, checker, panicked>>

\* create returns nil without an error while the pool is being stopped.
getNil(w) ==
  /\ wpc[w] = "get" /\ StopClosed(wnode[w])
  /\ panicked' = TRUE
  /\ UNCHANGED <<nodeState, stopped, raced, caller, checker>>

\* There is a connection, and the command is executed on this node: with
\* success, or a Riak or client error, or a temporary one.
connExecutes(w) ==
  /\ wpc[w] = "get"
  /\ \E err \in BOOLEAN : Returns(w, Result(TRUE, err))
  /\ UNCHANGED <<nodeState, stopped, raced, wnode, checker, panicked>>

\* Any other error.
connBreaks(w) ==
  /\ wpc[w] = "get"
  /\ doHealthCheck(w)
  /\ result' = [result EXCEPT ![w] = Result(TRUE, TRUE)]
  /\ UNCHANGED <<nodeState, stopped, raced, wnode, checker, panicked>>

\* Later it sets the state and starts a health check.
doHealthCheckSet(w, h) ==
  /\ wpc[w] = "hcSet" /\ hpc[h] = "off"
  /\ nodeState' = [nodeState EXCEPT ![wnode[w]] = nodeHealthChecking]
  /\ hpc' = [hpc EXCEPT ![h] = "select"]
  /\ hnode' = [hnode EXCEPT ![h] = wnode[w]]
  /\ At(w, "returned")
  /\ UNCHANGED <<stopped, raced, wnode, result, panicked>>

\* The caller takes the result.
Taken(w) ==
  /\ wpc[w] = "returned"
  /\ At(w, "out")
  /\ wnode' = [wnode EXCEPT ![w] = NoNode]
  /\ result' = [result EXCEPT ![w] = NoResult]
  /\ UNCHANGED <<nodeState, stopped, raced, checker, panicked>>
-----------------------------------------------------------------------------
(* healthCheck *)

HcAt(h, l) == hpc' = [hpc EXCEPT ![h] = l] /\ UNCHANGED hnode

\* Mutant: a break leaves the select and not the loop.
HcBreaks(h) == HcAt(h, "select")

HcEnds(h) == hpc' = [hpc EXCEPT ![h] = "off"] /\ hnode' = [hnode EXCEPT ![h] = NoNode]

\* The check goes on only while the node is health checking.  The code looks at
\* the state between any two of its steps; a look that fails only ends the check,
\* so the model looks once, after the step.
ensureHealthCheckCanContinue(h, l) ==
  IF nodeState[hnode[h]] = nodeHealthChecking THEN HcAt(h, l) ELSE HcEnds(h)

hcUnchanged == <<nodeState, stopped, raced, caller, panicked>>

hcQuit(h) ==
  /\ hpc[h] = "select" /\ StopClosed(hnode[h])
  /\ HcEnds(h)
  /\ UNCHANGED hcUnchanged

\* The ticker ticks and the connection is made.
hcDial(h) ==
  /\ hpc[h] = "select"
  /\ ensureHealthCheckCanContinue(h, "ping")
  /\ UNCHANGED hcUnchanged

\* getHealthCheckCommand, and the command succeeds.
hcPing(h) ==
  /\ hpc[h] = "ping"
  /\ ensureHealthCheckCanContinue(h, "set")
  /\ UNCHANGED hcUnchanged

\* Mutant: the check ends with the first failure.
hcFailsOnce(h) ==
  /\ hpc[h] \in {"select", "ping"}
  /\ HcEnds(h)
  /\ UNCHANGED hcUnchanged

\* The connection or the command fails: wait for the next tick.
hcFails(h) ==
  /\ hpc[h] \in {"select", "ping"}
  /\ ensureHealthCheckCanContinue(h, "select")
  /\ UNCHANGED hcUnchanged

\* Mutant: the state is not set.
hcSetNothing(h) ==
  /\ hpc[h] = "set"
  /\ HcEnds(h)
  /\ UNCHANGED hcUnchanged

hcSetRunning(h) ==
  /\ hpc[h] = "set"
  /\ nodeState' = [nodeState EXCEPT ![hnode[h]] = nodeRunning]
  /\ HcEnds(h)
  /\ UNCHANGED <<stopped, raced, caller, panicked>>
-----------------------------------------------------------------------------
NodeInit ==
  /\ nodeState = [n \in Nodes |-> nodeCreated]
  /\ stopped = [n \in Nodes |-> "no"] /\ raced = {}
  /\ wpc = [w \in Workers |-> "out"] /\ wnode = [w \in Workers |-> NoNode]
  /\ result = [w \in Workers |-> NoResult]
  /\ hpc = [h \in Checks |-> "off"] /\ hnode = [h \in Checks |-> NoNode]
  /\ panicked = FALSE

\* A step of a worker inside execute, and one of a health check.
Execute(w) ==
  \/ stateCheck(w) \/ isRunning(w)
  \/ getFails(w) \/ getNil(w) \/ connExecutes(w) \/ connBreaks(w)
  \/ \E h \in Checks : doHealthCheckSet(w, h)

HealthCheck(h) ==
  \/ hcQuit(h) \/ hcDial(h) \/ hcPing(h) \/ hcFails(h)
  \/ hcSetRunning(h)

Alive == ~panicked

NodeNext ==
  /\ Alive
  /\ \/ \E n \in Nodes : start(n) \/ stopBegin(n) \/ stopFinish(n)
     \/ \E w \in Workers : (\E n \in Nodes : Call(w, n)) \/ Execute(w) \/ Taken(w)
     \/ \E h \in Checks : HealthCheck(h)

NodeSpec == NodeInit /\ [][NodeNext]_nodeVars

\* Goroutines run on, stop included, and Go's select takes a closed stopChan
\* sooner or later although the ticker goes on.
OutageNodeSpec ==
  /\ NodeSpec
  /\ \A n \in Nodes : WF_nodeVars(Alive /\ stopFinish(n))
  /\ \A w \in Workers : WF_nodeVars(Alive /\ Execute(w))
  /\ \A h \in Checks : /\ WF_nodeVars(Alive /\ HealthCheck(h))
                       /\ SF_nodeVars(Alive /\ hcQuit(h))

\* And Riak does not stay away for good: a health check that is repeated succeeds.
FairNodeSpec ==
  /\ OutageNodeSpec
  /\ \A h \in Checks : /\ SF_nodeVars(Alive /\ hcDial(h))
                       /\ SF_nodeVars(Alive /\ hcPing(h))
-----------------------------------------------------------------------------
\* The values of the variables.
NodeTypeOK ==
  /\ nodeState \in [Nodes -> nodeCreated..nodeShutdown]
  /\ stopped \in [Nodes -> StopPC] /\ raced \subseteq Nodes
  /\ wpc \in [Workers -> WorkerPC] /\ wnode \in [Workers -> Nodes \cup {NoNode}]
  /\ \A w \in Workers : wpc[w] # "out" => wnode[w] \in Nodes
  /\ result \in [Workers -> Results]
  /\ hpc \in [Checks -> CheckPC] /\ hnode \in [Checks -> Nodes \cup {NoNode}]
  /\ \A h \in Checks : hpc[h] # "off" => hnode[h] \in Nodes
  /\ panicked \in BOOLEAN

\* A node that is health checking has a health check under way, so it is not
\* taken out of service for good, whatever the checks of several workers do to
\* each other.
CheckedWhileHealthChecking ==
  \A n \in Nodes : nodeState[n] = nodeHealthChecking /\ ~StopClosed(n) => Active(n) # {}

\* The program dies inside of execute only for a pool that is being stopped.
NilConnExplained == panicked => \E n \in Nodes : StopClosed(n)

\* stop is final, but for one window: a node is in service again after stop has
\* begun only if, when it began, a goroutine stood between its look at the state
\* and its set (doHealthCheck, or the end of a health check).  Without such a
\* goroutine no later failure, check or race brings the node back.
StopUndoneByRaceOnly ==
  \A n \in Nodes :
    StopClosed(n) /\ nodeState[n] \in {nodeRunning, nodeHealthChecking} => n \in raced

\* A node that is health checking is back in service some time, if Riak is.
ServiceResumes ==
  \A n \in Nodes :
    nodeState[n] = nodeHealthChecking ~>
      (nodeState[n] = nodeRunning \/ stopped[n] # "no" \/ ~Alive)

\* Every health check of a node that is stopped ends.
ChecksEnd ==
  \A h \in Checks :
    (hpc[h] # "off" /\ StopClosed(hnode[h])) ~> (hpc[h] = "off" \/ ~Alive)
=============================================================================
