----------------------------- MODULE NodeManager -----------------------------
(***************************************************************************)
(* The nodes together with what the cluster does with them: the dispatch   *)
(* of commands by defaultNodeManager (node_manager.go), which Cluster's    *)
(* execute calls once per attempt, and Start, Stop, AddNode and RemoveNode *)
(* (cluster.go).                                                           *)
(*                                                                         *)
(* c.nodes is a slice: an array that all share and a length.  execute      *)
(* copies the length without the cluster's mutex, while AddNode and        *)
(* RemoveNode write to the array.                                          *)
(*                                                                         *)
(* Start, the second half of Stop, AddNode and RemoveNode hold the         *)
(* cluster's mutex: opc is what its holder does.  The application calls    *)
(* Start and Stop once; it may add and remove nodes at any time, also      *)
(* before Start, while Stop waits for the mutex, and after it.             *)
(***************************************************************************)
EXTENDS Node

CONSTANTS
  First,     \* the nodes the cluster is made with
  Attempts,  \* executionAttempts of the cluster
  Retryable, \* the workers that execute retryable commands
  Churn      \* may the application add and remove nodes?

ASSUME DispatchAssumption ==
  /\ IsFiniteSet(Nodes) /\ First \in Seq(Nodes) /\ First # <<>>
  /\ \A i, j \in DOMAIN First : First[i] = First[j] => i = j
  /\ Attempts \in Nat \ {0} /\ Retryable \subseteq Workers
  /\ Churn \in BOOLEAN

VARIABLES
  array,      \* the array under c.nodes, NoNode where it holds nil
  len,        \* the length of c.nodes
  nodeIndex,  \* of the node manager, counted from 0
  cpc,        \* what a worker does outside of Node.execute
  tries,      \* attempts left
  wlen,       \* the length of the worker's copy of c.nodes
  start0,     \* startingIndex
  previous,   \* the previous node, read once before the attempts
  tried,      \* nodes that this attempt was tried on
  alone,      \* nobody else has moved nodeIndex or c.nodes during this attempt
  cst,        \* stateData of the cluster
  opc,        \* what the holder of the cluster's mutex does, "free" if none
  pos,        \* how far Stop has come in c.nodes
  target,     \* the node that Stop or RemoveNode stops
  fatal       \* why the program died outside of the nodes, "no" if it has not

manager == <<array, len, nodeIndex>>
dispatch == <<cpc, tries, wlen, start0, previous, tried, alone>>
owner   == <<cst, opc, pos, target, fatal>>
vars    == <<nodeVars, manager, dispatch, owner>>

Slots == 0..(Cardinality(Nodes) - 1)
DispatchPC == {"idle", "attempt", "start", "pick", "in", "over"}
OwnerPC == {"free", "starting", "removing", "stopping", "verify"}
ClusterState == {"created", "running", "shuttingDown", "shutdown"}

Goto(w, l) == cpc' = [cpc EXCEPT ![w] = l]

\* The workers of W that are in ExecuteOnNode are not alone any more.
Disturb(W) ==
  alone' = [w \in Workers |->
              IF w \in W THEN cpc[w] \notin {"pick", "in"} ELSE alone[w]]
-----------------------------------------------------------------------------
(* Cluster.execute around the node manager. *)

\* execute is over: its variables are gone.
Over(w) ==
  /\ Goto(w, "over")
  /\ tries' = [tries EXCEPT ![w] = 0] /\ wlen' = [wlen EXCEPT ![w] = 0]
  /\ previous' = [previous EXCEPT ![w] = NoNode]

\* The cluster passes the state check.
Running == cst = "running"

\* execute copies c.nodes and calls ExecuteOnNode.
CopyNodes(w) == Goto(w, "start") /\ wlen' = [wlen EXCEPT ![w] = len]

\* A worker executes one command.  A retryable command has several attempts, and
\* its last node is read once, before the first: any node, for a command that was
\* queued after an execution.
Begin(w) ==
  /\ cpc[w] = "idle" /\ Running
  /\ \E p \in {NoNode} \cup IF w \in Retryable THEN Nodes ELSE {} :
       previous' = [previous EXCEPT ![w] = p]
  /\ tries' = [tries EXCEPT ![w] = IF w \in Retryable THEN Attempts ELSE 1]
  /\ CopyNodes(w)
  /\ UNCHANGED <<nodeVars, manager, start0, tried, alone, owner>>

Attempt(w) ==
  /\ cpc[w] = "attempt"
  /\ IF Running THEN CopyNodes(w) /\ UNCHANGED <<tries, previous>> ELSE Over(w)
  /\ UNCHANGED <<nodeVars, manager, start0, tried, alone, owner>>

\* The variables of ExecuteOnNode are gone.
NodeManagerReturns(w) ==
  /\ start0' = [start0 EXCEPT ![w] = 0]
  /\ tried' = [tried EXCEPT ![w] = {}] /\ alone' = [alone EXCEPT ![w] = TRUE]

\* An attempt that was executed without an error ends the command; one that no
\* node has taken, without an error, ends it if there is a queue to put it in.
\* Otherwise there is another attempt, while there are tries.
AfterAttempt(w, r) ==
  /\ NodeManagerReturns(w)
  /\ \/ /\ tries[w] = 1 \/ ~r.err
        /\ Over(w)
     \/ /\ tries[w] > 1 /\ r # Result(TRUE, FALSE)
        /\ tries' = [tries EXCEPT ![w] = @ - 1] /\ Goto(w, "attempt")
        /\ UNCHANGED <<wlen, previous>>
-----------------------------------------------------------------------------
(* ExecuteOnNode *)

\* A slice without a node is an error.
Start(w) ==
  /\ cpc[w] = "start"
  /\ IF wlen[w] = 0 \/ array[0] = NoNode
       THEN AfterAttempt(w, Result(FALSE, TRUE))
       ELSE /\ start0' = [start0 EXCEPT ![w] = nodeIndex]
            /\ Goto(w, "pick")
            /\ UNCHANGED <<tries, wlen, previous, tried, alone>>
  /\ UNCHANGED <<nodeVars, manager, owner>>

\* Where the round robin has come to.
Wrap(w) == IF nodeIndex >= wlen[w] THEN 0 ELSE nodeIndex

\* The previous node is skipped without a look at the end of the loop.
Skips(w, n) == wlen[w] > 1 /\ previous[w] # NoNode /\ previous[w] = n

PickNode(w) ==
  LET i == Wrap(w)
      n == array[i]
  IN /\ cpc[w] = "pick"
     /\ nodeIndex' = i + 1
     /\ Disturb(Workers \ {w})
     /\ \/ /\ Skips(w, n)
           /\ UNCHANGED <<nodeVars, cpc, tried>>
        \/ /\ ~Skips(w, n) /\ n # NoNode
           /\ Call(w, n)
           /\ tried' = [tried EXCEPT ![w] = @ \cup {n}]
           /\ Goto(w, "in")
     /\ UNCHANGED <<array, len, tries, wlen, start0, previous, owner>>

\* The slot has been emptied by RemoveNode.
PickNil(w) ==
  /\ cpc[w] = "pick" /\ array[Wrap(w)] = NoNode
  /\ fatal' = "nilNode"
  /\ UNCHANGED <<nodeVars, manager, dispatch, cst, opc, pos, target>>

\* Mutant: one node is asked.
GivesUpAtOnce(w) == ~result[w].executed

\* No node has taken the command, and the index is where it was.
GivesUp(w) == ~result[w].executed /\ start0[w] = nodeIndex

\* execute has returned: the attempt is over or goes on with the next node.
NodeReturns(w) ==
  /\ cpc[w] = "in"
  /\ Taken(w)
  /\ IF result[w].executed \/ GivesUp(w)
       THEN AfterAttempt(w, result[w])
       ELSE Goto(w, "pick") /\ UNCHANGED <<tries, wlen, start0, previous, tried, alone>>
  /\ UNCHANGED <<manager, owner>>

\* One of the other goroutines in ExecuteOnNode picks a node; of what it does then
\* the Node module knows.
OthersPick ==
  /\ Running /\ len > 0
  /\ nodeIndex' = (IF nodeIndex >= len THEN 0 ELSE nodeIndex) + 1
  /\ Disturb(Workers)
  /\ UNCHANGED <<nodeVars, array, len, cpc, tries, wlen, start0, previous, tried, owner>>
-----------------------------------------------------------------------------
(* Start, AddNode, RemoveNode, Stop. *)

StartCluster ==
  /\ opc = "free" /\ cst = "created"
  /\ opc' = "starting"
  /\ UNCHANGED <<nodeVars, manager, dispatch, cst, pos, target, fatal>>

\* Cluster.Start starts the nodes in turn.
StartNode ==
  /\ opc = "starting"
  /\ \E i \in 0..(len - 1) :
       /\ \A j \in 0..(i - 1) : nodeState[array[j]] # nodeCreated
       /\ start(array[i])
  /\ UNCHANGED <<manager, dispatch, owner>>

StartDone ==
  /\ opc = "starting"
  /\ \A i \in 0..(len - 1) : nodeState[array[i]] # nodeCreated
  /\ opc' = "free" /\ cst' = "running"
  /\ UNCHANGED <<nodeVars, manager, dispatch, pos, target, fatal>>

\* The node is started only in a cluster that is running; what start refuses is
\* not added.  append writes behind the end of the slice; if it has to move the
\* array, copies of the slice see less of what happens, not more.
AddNode(n) ==
  /\ Churn /\ opc = "free"
  /\ \A i \in 0..(len - 1) : array[i] # n
  /\ IF Running THEN start(n) ELSE UNCHANGED nodeVars
  /\ array' = [array EXCEPT ![len] = n]
  /\ len' = len + 1
  /\ Disturb(Workers)
  /\ UNCHANGED <<nodeIndex, cpc, tries, wlen, start0, previous, tried, owner>>

\* A node that was never started is not stopped either.
StopsRemoved(n) ==
  IF nodeState[n] = nodeCreated
    THEN UNCHANGED <<opc, target>>
    ELSE opc' = "removing" /\ target' = n

\* Mutant: the last node goes instead of n.
RemoveNodeLast(i) ==
  /\ Churn /\ opc = "free" /\ i < len
  /\ array' = [array EXCEPT ![len - 1] = NoNode]
  /\ len' = len - 1
  /\ StopsRemoved(array[i])
  /\ Disturb(Workers)
  /\ UNCHANGED <<nodeVars, nodeIndex, cpc, tries, wlen, start0, previous, tried,
                 cst, pos, fatal>>

\* The last node takes the place of n, and its own slot becomes nil; then n is
\* stopped.
RemoveNode(i) ==
  /\ Churn /\ opc = "free" /\ i < len
  /\ array' = [array EXCEPT ![i] = array[len - 1], ![len - 1] = NoNode]
  /\ len' = len - 1
  /\ StopsRemoved(array[i])
  /\ Disturb(Workers)
  /\ UNCHANGED <<nodeVars, nodeIndex, cpc, tries, wlen, start0, previous, tried,
                 cst, pos, fatal>>

\* Stop sets the state without the mutex; the queue of commands is Cluster's.
StopCluster ==
  /\ Running
  /\ cst' = "shuttingDown"
  /\ UNCHANGED <<nodeVars, manager, dispatch, opc, pos, target, fatal>>

\* Where Stop goes: to the node at i or, behind the last one, to its check.
StopAt(i) ==
  IF i < len THEN opc' = "stopping" /\ pos' = i /\ target' = array[i]
             ELSE opc' = "verify" /\ pos' = 0 /\ target' = NoNode

\* Stop has the mutex and goes through the nodes in turn.
StopLocks ==
  /\ opc = "free" /\ cst = "shuttingDown"
  /\ StopAt(0)
  /\ UNCHANGED <<nodeVars, manager, dispatch, cst, fatal>>

\* Mutant: the node is marked and not stopped.
StopNodeAtOnce ==
  /\ target # NoNode
  /\ stopped[target] = "no"
  /\ nodeState' = [nodeState EXCEPT ![target] = nodeShutdown]
  /\ stopped' = [stopped EXCEPT ![target] = "done"]
  /\ UNCHANGED <<raced, caller, checker, panicked, manager, dispatch, owner>>

StopNode ==
  /\ target # NoNode
  /\ stopBegin(target)
  /\ UNCHANGED <<manager, dispatch, owner>>

\* Mutant: Stop is content with one node.
NextNodeNone ==
  /\ opc' = IF opc = "removing" THEN "free" ELSE "verify"
  /\ pos' = 0 /\ target' = NoNode
  /\ UNCHANGED <<cst, fatal>>

\* The stop of the target is over: RemoveNode returns, Stop goes on.
NextNode ==
  /\ IF opc = "removing" THEN opc' = "free" /\ pos' = 0 /\ target' = NoNode
                         ELSE StopAt(pos + 1)
  /\ UNCHANGED <<cst, fatal>>

StopNodeDone ==
  /\ target # NoNode
  /\ stopFinish(target)
  /\ NextNode
  /\ UNCHANGED <<manager, dispatch>>

\* The state check of stop fails: RemoveNode returns the error, Stop logs it.
StopNodeFails ==
  /\ target # NoNode
  /\ stopped[target] # "begun"
  /\ nodeState[target] \notin {nodeRunning, nodeHealthChecking}
  /\ NextNode
  /\ UNCHANGED <<nodeVars, manager, dispatch>>

\* A node that a race has brought back passes the check a second time, and its
\* closed stopChan is closed again.
StopNodeTwice ==
  /\ target # NoNode
  /\ stopped[target] = "done"
  /\ nodeState[target] \in {nodeRunning, nodeHealthChecking}
  /\ fatal' = "closedTwice"
  /\ UNCHANGED <<nodeVars, manager, dispatch, cst, opc, pos, target>>

\* Stop panics unless every node is shut down.
Verify ==
  /\ opc = "verify"
  /\ IF \A i \in 0..(len - 1) : nodeState[array[i]] = nodeShutdown
       THEN cst' = "shutdown" /\ opc' = "free" /\ UNCHANGED fatal
       ELSE fatal' = "stillRunning" /\ UNCHANGED <<cst, opc>>
  /\ UNCHANGED <<nodeVars, manager, dispatch, pos, target>>
-----------------------------------------------------------------------------
Init ==
  /\ NodeInit
  /\ len = Len(First)
  /\ array = [i \in Slots |-> IF i < Len(First) THEN First[i + 1] ELSE NoNode]
  /\ nodeIndex = 0
  /\ cpc = [w \in Workers |-> "idle"]
  /\ tries = [w \in Workers |-> 0] /\ wlen = [w \in Workers |-> 0]
  /\ start0 = [w \in Workers |-> 0] /\ previous = [w \in Workers |-> NoNode]
  /\ tried = [w \in Workers |-> {}] /\ alone = [w \in Workers |-> TRUE]
  /\ cst = "created" /\ opc = "free" /\ pos = 0 /\ target = NoNode
  /\ fatal = "no"

Dispatch(w) ==
  \/ Attempt(w) \/ Start(w) \/ PickNode(w) \/ PickNil(w) \/ NodeReturns(w)

Stops == StopNode \/ StopNodeDone \/ StopNodeFails \/ StopNodeTwice

Owner ==
  \/ StartCluster \/ StartNode \/ StartDone \/ StopCluster
  \/ StopLocks \/ Stops \/ Verify
  \/ \E n \in Nodes : AddNode(n)
  \/ \E i \in Slots : RemoveNode(i)

InNode(A) == A /\ UNCHANGED <<manager, dispatch, owner>>

Up == Alive /\ fatal = "no"

Next ==
  /\ Up
  /\ \/ Owner \/ OthersPick
     \/ \E w \in Workers : Begin(w) \/ Dispatch(w) \/ InNode(Execute(w))
     \/ \E h \in Checks : InNode(HealthCheck(h))

Spec == Init /\ [][Next]_vars

\* Goroutines run on.
OutageSpec ==
  /\ Spec
  /\ \A w \in Workers : WF_vars(Up /\ (Dispatch(w) \/ InNode(Execute(w))))
  /\ WF_vars(Up /\ (StopLocks \/ Stops \/ Verify))
-----------------------------------------------------------------------------
(* Properties. *)

\* The values of the variables.
TypeOK ==
  /\ NodeTypeOK
  /\ array \in [Slots -> Nodes \cup {NoNode}] /\ len \in 0..Cardinality(Nodes)
  /\ nodeIndex \in 0..Cardinality(Nodes)
  /\ cpc \in [Workers -> DispatchPC] /\ tries \in [Workers -> 0..Attempts]
  /\ wlen \in [Workers -> 0..Cardinality(Nodes)]
  /\ start0 \in [Workers -> 0..Cardinality(Nodes)]
  /\ previous \in [Workers -> Nodes \cup {NoNode}] /\ tried \in [Workers -> SUBSET Nodes]
  /\ alone \in [Workers -> BOOLEAN]
  /\ cst \in ClusterState /\ opc \in OwnerPC
  /\ pos \in 0..Cardinality(Nodes) /\ target \in Nodes \cup {NoNode}
  /\ fatal \in {"no", "nilNode", "closedTwice", "stillRunning"}

\* c.nodes itself never holds a nil or a node twice, and a node outside of it was
\* never started or has been told to stop.
SliceWellFormed ==
  /\ \A i \in 0..(len - 1) : array[i] \in Nodes
  /\ \A i, j \in 0..(len - 1) : array[i] = array[j] => i = j
  /\ \A n \in Nodes : (\A i \in 0..(len - 1) : array[i] # n)
       => nodeState[n] = nodeCreated \/ stopped[n] # "no" \/ target = n

\* A command that is given up because no node could take it has been tried on every
\* node but the previous one, unless another command moved the index meanwhile.
GivenUpAfterAll ==
  \A w \in Workers :
    wpc[w] = "returned" /\ GivesUp(w) /\ alone[w] =>
      \A i \in 0..(wlen[w] - 1) : array[i] \in tried[w] \cup {previous[w]}

\* Outside of the nodes the program dies for these reasons only.  A worker whose
\* copy of c.nodes is longer than c.nodes meets the slot that RemoveNode has
\* emptied.  A node that a race has brought back is stopped again.  Or Stop has
\* been to every node, and one of them was brought back by a race, or had never
\* been started: AddNode put it there while the cluster was not running.
PanicExplained ==
  /\ fatal = "nilNode" => \E w \in Workers : wlen[w] > len
  /\ fatal = "closedTwice" => target \in raced
  /\ fatal = "stillRunning" =>
       /\ \A i \in 0..(len - 1) : \/ stopped[array[i]] = "done"
                                  \/ nodeState[array[i]] = nodeCreated
       /\ \E i \in 0..(len - 1) : \/ array[i] \in raced
                                  \/ nodeState[array[i]] = nodeCreated

\* "nodes still running when all should be stopped" is what Stop takes for impossible.
StopShutsDown == fatal # "stillRunning"

\* "Command did not execute but there was no error, so enqueue it": ExecuteOnNode
\* tells when no node could take the command.
AttemptEnds ==
  \A w \in Workers : cpc[w] = "start" ~> (cpc[w] \in {"attempt", "over"} \/ ~Up)
=============================================================================
