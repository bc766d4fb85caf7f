--------------------------- MODULE NodeManagerProofs ---------------------------
(***************************************************************************)
(* Proofs of the safety properties of NodeManager, for any number of       *)
(* nodes, workers, health checks and attempts, and that the nodes of a     *)
(* cluster behave as Node says.                                            *)
(*                                                                         *)
(* The inductive invariant: the array under c.nodes holds the nodes of the *)
(* slice and then nils; who gets past the state check of a node is on one  *)
(* that was started; the owner stops one node at a time, those of c.nodes  *)
(* in turn; a stopped node that no race has met stays stopped (NodeProofs);*)
(* and a worker whose round robin nobody disturbs has left every slot      *)
(* behind it that lies between its start and nodeIndex.                    *)
(***************************************************************************)
EXTENDS NodeManager, NodeProofs, FiniteSetTheorems

\* The nodes of c.nodes, each once, and nothing behind them.
Slice ==
  /\ \A i \in 0..(len - 1) : array[i] \in Nodes
  /\ \A i, j \in 0..(len - 1) : array[i] = array[j] => i = j
  /\ \A i \in Slots : i >= len => array[i] = NoNode

\* Who is on a node, past the state check of execute.
On(n) ==
  \/ \E w \in Workers : wpc[w] \in {"running", "get", "hcSet"} /\ wnode[w] = n
  \/ \E h \in Checks : hpc[h] # "off" /\ hnode[h] = n

\* Such a node has been started.
Started == \A n \in Nodes : On(n) => nodeState[n] # nodeCreated

\* Where a worker is in execute, ExecuteOnNode and Node.execute.
Nested ==
  \A w \in Workers :
    /\ wpc[w] # "out" => cpc[w] = "in"
    /\ cpc[w] \in {"pick", "in"} => wlen[w] > 0
    /\ cpc[w] \in {"attempt", "start", "pick", "in"} => tries[w] > 0

\* Stop is done with a node: it is stopped, or its stop has failed at the state of a
\* node that was never started.
Stopped(n) == stopped[n] = "done" \/ nodeState[n] = nodeCreated

\* The owner stops one node at a time, and Stop those of c.nodes in turn.
Stopping ==
  /\ opc \in {"removing", "stopping"} <=> target # NoNode
  /\ opc = "stopping" => /\ pos < len /\ target = array[pos]
                         /\ \A i \in 0..(pos - 1) : Stopped(array[i])
  /\ opc = "verify" => \A i \in 0..(len - 1) : Stopped(array[i])
  /\ \A n \in Nodes : stopped[n] = "begun" => target = n
  /\ \A n \in Nodes : nodeState[n] = nodeShuttingDown => stopped[n] = "begun"
  /\ \A n \in Nodes : nodeState[n] = nodeShutdown => stopped[n] = "done"

\* A node that is out of c.nodes was never started or is stopped.
Outside(n) == \A i \in 0..(len - 1) : array[i] # n
Gone ==
  \A n \in Nodes : Outside(n) => nodeState[n] = nodeCreated \/ stopped[n] # "no" \/ target = n

Behind(w, i) == array[i] \in tried[w] \cup {previous[w]}

\* The slots that the round robin of a worker has left behind: those from its start
\* to nodeIndex or, after the end of the slice, those from its start and those up to
\* nodeIndex.
Covered(w) ==
  \/ /\ start0[w] <= nodeIndex /\ (cpc[w] = "in" => start0[w] < nodeIndex)
     /\ \A i \in 0..(wlen[w] - 1) : start0[w] <= i /\ i < nodeIndex => Behind(w, i)
  \/ \A i \in 0..(wlen[w] - 1) : start0[w] <= i \/ i < nodeIndex => Behind(w, i)

Round == \A w \in Workers : cpc[w] \in {"pick", "in"} /\ alone[w] => Covered(w)

-----------------------------------------------------------------------------
(* Types and control *)

Control == TypeOK /\ Slice /\ Nested

\* The number of nodes is a number.
LEMMA NodeCount == Cardinality(Nodes) \in Nat
  BY DispatchAssumption, FS_CardinalityType

\* A node that is not in c.nodes finds a free slot.
LEMMA RoomForNode ==
  ASSUME TypeOK, Slice, NEW n \in Nodes, Outside(n)
  PROVE  len < Cardinality(Nodes)
<1> DEFINE Others == Nodes \ {n}
           f == [i \in 0..(len - 1) |-> array[i]]
<1>1. IsFiniteSet(Others) /\ Cardinality(Others) = Cardinality(Nodes) - 1
  BY DispatchAssumption, FS_RemoveElement
<1>2. len \in Nat /\ len <= Cardinality(Nodes)
  BY NodeCount DEF TypeOK
<1>3. SUFFICES ASSUME len = Cardinality(Nodes) PROVE FALSE
  BY <1>2, NodeCount
<1>4. IsFiniteSet(0..(len - 1)) /\ Cardinality(0..(len - 1)) = len
  <2>1. /\ IsFiniteSet(0..(len - 1))
        /\ Cardinality(0..(len - 1)) = IF 0 > len - 1 THEN 0 ELSE len - 1 - 0 + 1
    BY <1>2, FS_Interval
  <2> QED BY <1>2, <2>1
<1>5. f \in [0..(len - 1) -> Others]
  BY DEF Slice, Outside
<1>6. \E x, y \in 0..(len - 1) : x # y /\ f[x] = f[y]
  <2>1. Cardinality(Others) < Cardinality(0..(len - 1))
    BY <1>1, <1>2, <1>3, <1>4, NodeCount
  <2> HIDE DEF Others, f
  <2> QED BY <1>1, <1>4, <1>5, <2>1, FS_PigeonHole
<1> QED
  BY <1>6 DEF Slice

\* The cluster is made with at most as many nodes as there are.
LEMMA FirstFits == Len(First) \in 1..Cardinality(Nodes)
<1> DEFINE f == [i \in 1..Len(First) |-> First[i]]
<1>1. Len(First) \in Nat /\ Len(First) > 0
  BY DispatchAssumption
<1>2. IsFiniteSet(1..Len(First)) /\ Cardinality(1..Len(First)) = Len(First)
  <2>1. /\ IsFiniteSet(1..Len(First))
        /\ Cardinality(1..Len(First)) = IF 1 > Len(First) THEN 0 ELSE Len(First) - 1 + 1
    BY <1>1, FS_Interval
  <2> QED BY <1>1, <2>1
<1>3. f \in [1..Len(First) -> Nodes]
  BY DispatchAssumption
<1>4. ASSUME Cardinality(Nodes) < Len(First) PROVE FALSE
  <2>1. \E x, y \in 1..Len(First) : x # y /\ f[x] = f[y]
    <3> HIDE DEF f
    <3> QED BY <1>2, <1>3, <1>4, DispatchAssumption, FS_PigeonHole
  <2>2. DOMAIN First = 1..Len(First)
    BY DispatchAssumption
  <2> QED BY <2>1, <2>2, DispatchAssumption
<1> QED
  BY <1>1, <1>4, NodeCount

\* The cluster is made with a well-formed slice and idle workers.
LEMMA ControlInit == Init => Control
<1> SUFFICES ASSUME Init PROVE Control
  OBVIOUS
<1>1. NodeTypeOK
  BY NodeTypeInit DEF Init
<1>2. /\ len = Len(First) /\ len \in Nat /\ len <= Cardinality(Nodes)
      /\ array = [i \in Slots |-> IF i < Len(First) THEN First[i + 1] ELSE NoNode]
      /\ 0..(len - 1) \subseteq Slots
  BY FirstFits, NodeCount DEF Init, Slots
<1>3. \A i \in 0..(len - 1) : array[i] = First[i + 1] /\ First[i + 1] \in Nodes
                               /\ i + 1 \in DOMAIN First
  BY <1>2, DispatchAssumption
<1>4. Slice
  <2>1. \A i, j \in 0..(len - 1) : array[i] = array[j] => i = j
    <3> SUFFICES ASSUME NEW i \in 0..(len - 1), NEW j \in 0..(len - 1),
                        array[i] = array[j]
                 PROVE  i = j
      OBVIOUS
    <3>1. i + 1 = j + 1
      BY <1>3, DispatchAssumption
    <3> QED BY <3>1, <1>2
  <2>2. \A i \in Slots : i >= len => array[i] = NoNode
    BY <1>2, NodeCount DEF Slots
  <2> QED BY <1>3, <2>1, <2>2 DEF Slice
<1>5. array \in [Slots -> Nodes \cup {NoNode}]
  <2>1. \A i \in Slots : (IF i < Len(First) THEN First[i + 1] ELSE NoNode)
                          \in Nodes \cup {NoNode}
    BY <1>2, <1>3, NodeCount DEF Slots
  <2> QED BY <1>2, <2>1
<1>6. TypeOK
  BY <1>1, <1>2, <1>5, NodeCount, DispatchAssumption
  DEF Init, TypeOK, DispatchPC, OwnerPC, ClusterState
<1>7. Nested
  BY DEF Init, Nested, NodeInit
<1> QED
  BY <1>4, <1>6, <1>7 DEF Control

\* The slot that a worker picks is one of the array.
LEMMA WrapInSlots ==
  ASSUME Control, NEW w \in Workers, cpc[w] = "pick"
  PROVE  Wrap(w) \in Slots /\ Wrap(w) < wlen[w] /\ Wrap(w) \in Nat
  BY NodeCount DEF Control, TypeOK, Nested, Wrap, Slots

\* What a step does to the nodes is a step of Node.
LEMMA NodeEffect ==
  ASSUME Control, Next
  PROVE  NodeStep \/ UNCHANGED nodeVars
<1> USE DEF Control
<1>1. CASE StartNode
  <2>1. PICK i \in 0..(len - 1) : start(array[i])
    BY <1>1 DEF StartNode
  <2> QED BY <2>1 DEF Slice, NodeStep
<1>2. CASE StopNode
  <2>1. target \in Nodes
    BY <1>2 DEF StopNode, TypeOK
  <2> QED BY <1>2, <2>1 DEF StopNode, NodeStep
<1>3. CASE StopNodeDone
  <2>1. target \in Nodes
    BY <1>3 DEF StopNodeDone, TypeOK
  <2> QED BY <1>3, <2>1 DEF StopNodeDone, NodeStep
<1>9. ASSUME NEW n \in Nodes, AddNode(n) PROVE NodeStep \/ UNCHANGED nodeVars
  BY <1>9 DEF AddNode, NodeStep
<1>4. ASSUME NEW w \in Workers, PickNode(w) PROVE NodeStep \/ UNCHANGED nodeVars
  <2>1. CASE UNCHANGED nodeVars
    BY <2>1
  <2>2. CASE array[Wrap(w)] # NoNode /\ Call(w, array[Wrap(w)])
    <3>1. array[Wrap(w)] \in Nodes
      BY <1>4, <2>2, WrapInSlots DEF PickNode, TypeOK
    <3> QED BY <2>2, <3>1 DEF NodeStep
  <2> QED BY <1>4, <2>1, <2>2 DEF PickNode
<1>5. ASSUME NEW w \in Workers, NodeReturns(w) \/ InNode(Execute(w)) PROVE NodeStep
  BY <1>5 DEF NodeReturns, InNode, NodeStep
<1>6. ASSUME NEW h \in Checks, InNode(HealthCheck(h)) PROVE NodeStep
  BY <1>6 DEF InNode, NodeStep
<1>7. CASE StartCluster \/ StartDone \/ StopCluster \/ StopLocks \/ StopNodeFails \/
           StopNodeTwice \/ Verify \/ OthersPick \/ \E i \in Slots : RemoveNode(i)
  BY <1>7 DEF StartCluster, StartDone, StopCluster, StopLocks, StopNodeFails,
              StopNodeTwice, Verify, OthersPick, RemoveNode
<1>8. ASSUME NEW w \in Workers, Begin(w) \/ Attempt(w) \/ Start(w) \/ PickNil(w)
      PROVE  UNCHANGED nodeVars
  BY <1>8 DEF Begin, Attempt, Start, PickNil
<1> QED
  BY <1>1, <1>2, <1>3, <1>4, <1>5, <1>6, <1>7, <1>8, <1>9
  DEF Next, Owner, Stops, Dispatch

\* The types of the variables that NodeManager adds.
DispatchTypes ==
  /\ array \in [Slots -> Nodes \cup {NoNode}] /\ len \in 0..Cardinality(Nodes)
  /\ nodeIndex \in 0..Cardinality(Nodes)
  /\ cpc \in [Workers -> DispatchPC] /\ tries \in [Workers -> 0..Attempts]
  /\ wlen \in [Workers -> 0..Cardinality(Nodes)]
  /\ start0 \in [Workers -> 0..Cardinality(Nodes)]
  /\ previous \in [Workers -> Nodes \cup {NoNode}] /\ tried \in [Workers -> SUBSET Nodes]
  /\ alone \in [Workers -> BOOLEAN]
  /\ cst \in ClusterState /\ opc \in OwnerPC
  /\ pos \in 0..Cardinality(Nodes) /\ target \in Nodes \cup {NoNode}
  /\ fatal \in {"no", "nilNode", "closedTwice", "stillRunning"}

\* The end of an attempt leaves the types alone.
LEMMA AfterAttemptTypes ==
  ASSUME DispatchTypes, NEW w \in Workers, NEW r, tries[w] > 0, AfterAttempt(w, r),
         UNCHANGED <<manager, owner>>
  PROVE  DispatchTypes'
<1> USE NodeCount, DispatchAssumption DEF DispatchTypes
<1>1. alone' \in [Workers -> BOOLEAN]
  BY DEF AfterAttempt, NodeManagerReturns
<1>2. /\ tried' \in [Workers -> SUBSET Nodes]
      /\ start0' \in [Workers -> 0..Cardinality(Nodes)]
  BY DEF AfterAttempt, NodeManagerReturns
<1>3. CASE Over(w)
  <2>1. /\ cpc' \in [Workers -> DispatchPC] /\ tries' \in [Workers -> 0..Attempts]
        /\ wlen' \in [Workers -> 0..Cardinality(Nodes)]
        /\ previous' \in [Workers -> Nodes \cup {NoNode}]
    BY <1>3 DEF Over, Goto, DispatchPC
  <2> QED BY <1>1, <1>2, <2>1 DEF manager, owner
<1>4. CASE /\ tries[w] > 1 /\ tries' = [tries EXCEPT ![w] = @ - 1]
           /\ Goto(w, "attempt") /\ UNCHANGED <<wlen, previous>>
  <2>1. cpc' \in [Workers -> DispatchPC] /\ tries' \in [Workers -> 0..Attempts]
    BY <1>4 DEF Goto, DispatchPC
  <2> QED BY <1>1, <1>2, <1>4, <2>1 DEF manager, owner
<1> QED
  BY <1>3, <1>4 DEF AfterAttempt

\* Disturb makes Booleans.
LEMMA DisturbType ==
  ASSUME NEW W, alone \in [Workers -> BOOLEAN], Disturb(W)
  PROVE  alone' \in [Workers -> BOOLEAN]
  BY Zenon DEF Disturb

\* Every step leaves the types alone.
LEMMA DispatchTypeStep ==
  ASSUME Control, Next
  PROVE  DispatchTypes'
<1>1. DispatchTypes
  BY DEF Control, TypeOK, DispatchTypes
<1> USE NodeCount, DispatchAssumption DEF DispatchTypes, manager, dispatch, owner
<1>2. CASE StartCluster \/ StartNode \/ StartDone \/ StopCluster \/ StopNode \/
           StopNodeTwice \/ Verify
  BY <1>1, <1>2 DEF StartCluster, StartNode, StartDone, StopCluster, StopNode,
                    StopNodeTwice, Verify, OwnerPC, ClusterState
<1>3. CASE StopLocks \/ StopNodeDone \/ StopNodeFails
  <2>1. ASSUME NEW i \in Nat, StopAt(i)
        PROVE  /\ opc' \in OwnerPC /\ pos' \in 0..Cardinality(Nodes)
               /\ target' \in Nodes \cup {NoNode}
    <3>1. i < len => array[i] \in Nodes /\ i \in 0..Cardinality(Nodes)
      BY <1>1 DEF Control, Slice
    <3> QED BY <2>1, <3>1 DEF StopAt, OwnerPC
  <2>2. pos + 1 \in Nat /\ 0 \in Nat
    BY <1>1
  <2>3. /\ opc' \in OwnerPC /\ pos' \in 0..Cardinality(Nodes)
        /\ target' \in Nodes \cup {NoNode}
    BY <1>3, <2>1, <2>2 DEF StopLocks, StopNodeDone, StopNodeFails, NextNode, OwnerPC
  <2>4. UNCHANGED <<manager, dispatch, cst, fatal>>
    BY <1>3 DEF StopLocks, StopNodeDone, StopNodeFails, NextNode
  <2> QED BY <1>1, <2>3, <2>4
<1>4. ASSUME NEW n \in Nodes, AddNode(n) PROVE DispatchTypes'
  <2>1. len < Cardinality(Nodes)
    BY <1>4, RoomForNode DEF AddNode, Outside, Control
  <2>2. alone' \in [Workers -> BOOLEAN]
    BY <1>1, <1>4, DisturbType DEF AddNode
  <2>3. /\ array' \in [Slots -> Nodes \cup {NoNode}]
        /\ len' \in 0..Cardinality(Nodes)
    <3>1. array \in [Slots -> Nodes \cup {NoNode}] /\ len \in 0..Cardinality(Nodes)
      BY <1>1
    <3>2. array' = [array EXCEPT ![len] = n] /\ len' = len + 1
      BY <1>4 DEF AddNode
    <3>3. array' \in [Slots -> Nodes \cup {NoNode}]
      BY ONLY <3>1, <3>2, n \in Nodes
    <3>4. len' \in 0..Cardinality(Nodes)
      BY <2>1, <3>1, <3>2
    <3> QED BY <3>3, <3>4
  <2> QED BY <1>1, <1>4, <2>2, <2>3 DEF AddNode
<1>5. ASSUME NEW i \in Slots, RemoveNode(i) PROVE DispatchTypes'
  <2>1. array[i] \in Nodes /\ array[len - 1] \in Nodes /\ len \in Nat /\ len > 0
    BY <1>1, <1>5 DEF RemoveNode, Control, Slice, Slots
  <2>2. alone' \in [Workers -> BOOLEAN]
    BY <1>1, <1>5, DisturbType DEF RemoveNode
  <2>3. /\ array' \in [Slots -> Nodes \cup {NoNode}]
        /\ len' \in 0..Cardinality(Nodes)
        /\ target' \in Nodes \cup {NoNode} /\ opc' \in OwnerPC
    <3>1. array \in [Slots -> Nodes \cup {NoNode}] /\ len \in 0..Cardinality(Nodes)
      BY <1>1
    <3>2. /\ array' = [array EXCEPT ![i] = array[len - 1], ![len - 1] = NoNode]
          /\ len' = len - 1 /\ StopsRemoved(array[i])
      BY <1>5 DEF RemoveNode
    <3>3. array' \in [Slots -> Nodes \cup {NoNode}]
      BY ONLY <2>1, <3>1, <3>2
    <3>4. len' \in 0..Cardinality(Nodes)
      BY <2>1, <3>1, <3>2
    <3>5. target' \in Nodes \cup {NoNode} /\ opc' \in OwnerPC
      BY <1>1, <2>1, <3>2 DEF StopsRemoved, OwnerPC
    <3> QED BY <3>3, <3>4, <3>5
  <2> QED BY <1>1, <1>5, <2>2, <2>3 DEF RemoveNode
<1>6. CASE OthersPick
  <2>1. alone' \in [Workers -> BOOLEAN]
    BY <1>1, <1>6, DisturbType DEF OthersPick
  <2> QED BY <1>1, <1>6, <2>1 DEF OthersPick
<1>7. ASSUME NEW w \in Workers, Begin(w) PROVE DispatchTypes'
  BY <1>1, <1>7 DEF Begin, CopyNodes, Goto, DispatchPC
<1>8. ASSUME NEW w \in Workers, Attempt(w) PROVE DispatchTypes'
  <2>1. /\ cpc' \in [Workers -> DispatchPC] /\ tries' \in [Workers -> 0..Attempts]
        /\ wlen' \in [Workers -> 0..Cardinality(Nodes)]
        /\ previous' \in [Workers -> Nodes \cup {NoNode}]
    <3>1. /\ cpc \in [Workers -> DispatchPC] /\ tries \in [Workers -> 0..Attempts]
          /\ wlen \in [Workers -> 0..Cardinality(Nodes)]
          /\ previous \in [Workers -> Nodes \cup {NoNode}]
          /\ len \in 0..Cardinality(Nodes)
      BY <1>1
    <3>2. CASE Over(w)
      BY <3>1, <3>2 DEF Over, Goto, DispatchPC
    <3>3. CASE CopyNodes(w) /\ UNCHANGED <<tries, previous>>
      BY <3>1, <3>3 DEF CopyNodes, Goto, DispatchPC
    <3> QED BY <1>8, <3>2, <3>3 DEF Attempt
  <2> QED BY <1>1, <1>8, <2>1 DEF Attempt
<1>9. ASSUME NEW w \in Workers, Start(w) PROVE DispatchTypes'
  <2>1. tries[w] > 0
    BY <1>9 DEF Start, Control, Nested
  <2>2. CASE wlen[w] = 0 \/ array[0] = NoNode
    BY <1>1, <1>9, <2>1, <2>2, AfterAttemptTypes DEF Start
  <2>3. CASE ~(wlen[w] = 0 \/ array[0] = NoNode)
    <3>1. /\ cpc' \in [Workers -> DispatchPC]
          /\ start0' \in [Workers -> 0..Cardinality(Nodes)]
      <4>1. /\ cpc \in [Workers -> DispatchPC] /\ nodeIndex \in 0..Cardinality(Nodes)
            /\ start0 \in [Workers -> 0..Cardinality(Nodes)]
        BY <1>1
      <4>2. start0' = [start0 EXCEPT ![w] = nodeIndex] /\ Goto(w, "pick")
        BY <1>9, <2>3 DEF Start
      <4> QED BY <4>1, <4>2 DEF Goto, DispatchPC
    <3> QED BY <1>1, <1>9, <2>3, <3>1 DEF Start
  <2> QED BY <2>2, <2>3
<1>10. ASSUME NEW w \in Workers, PickNode(w) PROVE DispatchTypes'
  <2>1. alone' \in [Workers -> BOOLEAN]
    BY <1>1, <1>10, DisturbType DEF PickNode
  <2>2. nodeIndex' \in 0..Cardinality(Nodes)
    BY <1>10, WrapInSlots DEF PickNode, Slots
  <2>3. array[Wrap(w)] # NoNode => array[Wrap(w)] \in Nodes
    BY <1>1, <1>10, WrapInSlots DEF PickNode
  <2>4. cpc' \in [Workers -> DispatchPC]
    BY <1>1, <1>10 DEF PickNode, Goto, DispatchPC
  <2>5. tried' \in [Workers -> SUBSET Nodes]
    <3>1. CASE tried' = tried
      BY <1>1, <3>1
    <3>2. CASE array[Wrap(w)] # NoNode
               /\ tried' = [tried EXCEPT ![w] = @ \cup {array[Wrap(w)]}]
      BY <1>1, <2>3, <3>2
    <3> QED BY <1>10, <3>1, <3>2 DEF PickNode
  <2> QED BY <1>1, <1>10, <2>1, <2>2, <2>4, <2>5 DEF PickNode
<1>11. ASSUME NEW w \in Workers, PickNil(w) PROVE DispatchTypes'
  BY <1>1, <1>11 DEF PickNil
<1>12. ASSUME NEW w \in Workers, NodeReturns(w) PROVE DispatchTypes'
  <2>1. tries[w] > 0
    BY <1>12 DEF NodeReturns, Control, Nested
  <2>2. CASE result[w].executed \/ GivesUp(w)
    BY <1>1, <1>12, <2>1, <2>2, AfterAttemptTypes DEF NodeReturns
  <2>3. CASE ~(result[w].executed \/ GivesUp(w))
    BY <1>1, <1>12, <2>3 DEF NodeReturns, Goto, DispatchPC
  <2> QED BY <2>2, <2>3
<1>13. ASSUME (\E w \in Workers : InNode(Execute(w))) \/
              (\E h \in Checks : InNode(HealthCheck(h)))
       PROVE  DispatchTypes'
  BY <1>1, <1>13 DEF InNode
<1> QED
  BY <1>2, <1>3, <1>4, <1>5, <1>6, <1>7, <1>8, <1>9, <1>10, <1>11, <1>12, <1>13
  DEF Next, Owner, Stops, Dispatch

\* AddNode fills the slot behind the slice, RemoveNode empties the last one.
LEMMA SliceStep ==
  ASSUME Control, Next
  PROVE  Slice'
<1> USE NodeCount DEF Control, TypeOK, Slots
<1>1. ASSUME NEW n \in Nodes, AddNode(n) PROVE Slice'
  <2>1. len < Cardinality(Nodes) /\ len \in Nat
    BY <1>1, RoomForNode DEF AddNode, Outside
  <2>2. array' = [array EXCEPT ![len] = n] /\ len' = len + 1
        /\ \A i \in 0..(len - 1) : array[i] # n
    BY <1>1 DEF AddNode
  <2> QED BY <2>1, <2>2 DEF Slice
<1>2. ASSUME NEW i \in Slots, RemoveNode(i) PROVE Slice'
  <2>1. len \in Nat /\ len <= Cardinality(Nodes) /\ i < len /\ i \in Nat
    BY <1>2 DEF RemoveNode
  <2>2. array' = [array EXCEPT ![i] = array[len - 1], ![len - 1] = NoNode]
        /\ len' = len - 1
    BY <1>2 DEF RemoveNode
  <2>3. \A j \in Slots : array'[j] = IF j = len - 1 THEN NoNode
                                     ELSE IF j = i THEN array[len - 1] ELSE array[j]
    BY <2>1, <2>2
  <2> QED BY <2>1, <2>2, <2>3 DEF Slice
<1>3. ASSUME UNCHANGED <<array, len>> PROVE Slice'
  BY <1>3 DEF Slice
<1>4. CASE StartCluster \/ StartNode \/ StartDone \/ StopCluster \/ StopLocks \/ Stops \/
           Verify \/ OthersPick
  BY <1>3, <1>4 DEF StartCluster, StartNode, StartDone, StopCluster, StopLocks, Stops,
                    StopNode, StopNodeDone, StopNodeFails, StopNodeTwice, Verify,
                    OthersPick, manager
<1>5. ASSUME NEW w \in Workers, Begin(w) \/ Dispatch(w) \/ InNode(Execute(w))
      PROVE  Slice'
  BY <1>3, <1>5 DEF Begin, Dispatch, Attempt, Start, PickNode, PickNil, NodeReturns,
                    InNode, manager
<1>6. ASSUME NEW h \in Checks, InNode(HealthCheck(h)) PROVE Slice'
  BY <1>3, <1>6 DEF InNode, manager
<1> QED
  BY <1>1, <1>2, <1>4, <1>5, <1>6 DEF Next, Owner

\* What a worker or a health check does inside of Node: the workers stay inside, only
\* who is on a node sets its state, and nobody gets on a node that was not started.
Inside ==
  /\ stopped' = stopped
  /\ \A x \in Workers : wpc'[x] # "out" <=> wpc[x] # "out"
  /\ \A n \in Nodes : nodeState'[n] # nodeState[n] =>
                         On(n) /\ nodeState'[n] \in {nodeRunning, nodeHealthChecking}
  /\ \A n \in Nodes : On(n)' => On(n) \/ nodeState[n] # nodeCreated

\* The steps of a worker inside of execute are of this kind.
LEMMA ExecuteInside ==
  ASSUME NodeTypeOK, NEW w \in Workers, Execute(w)
  PROVE  Inside
<1> USE DEF NodeTypeOK, WorkerPC, CheckPC
<1>1. CASE stateCheck(w)
  <2>1. /\ stopped' = stopped /\ nodeState' = nodeState /\ wpc[w] = "check"
        /\ UNCHANGED <<wnode, hpc, hnode>>
        /\ \/ wpc' = [wpc EXCEPT ![w] = "returned"]
           \/ /\ nodeState[wnode[w]] \in {nodeRunning, nodeHealthChecking}
              /\ wpc' = [wpc EXCEPT ![w] = "running"]
    BY <1>1 DEF stateCheck, Returns, At, checker
  <2> QED BY <2>1 DEF Inside, On, nodeRunning, nodeHealthChecking, nodeCreated
<1>2. CASE isRunning(w) \/ getFails(w) \/ connBreaks(w) \/ connExecutes(w)
  <2>1. /\ stopped' = stopped /\ nodeState' = nodeState
        /\ wpc[w] \in {"running", "get"} /\ UNCHANGED <<wnode, hpc, hnode>>
        /\ \E l \in {"get", "hcSet", "returned"} : wpc' = [wpc EXCEPT ![w] = l]
    BY <1>2 DEF isRunning, getFails, connBreaks, connExecutes, doHealthCheck, Returns,
                At, checker
  <2> QED BY <2>1 DEF Inside, On
<1>3. CASE getNil(w)
  BY <1>3 DEF getNil, Inside, On, caller, checker
<1>4. ASSUME NEW h \in Checks, doHealthCheckSet(w, h) PROVE Inside
  <2>1. /\ stopped' = stopped /\ wpc[w] = "hcSet" /\ wnode' = wnode
        /\ wpc' = [wpc EXCEPT ![w] = "returned"]
        /\ hpc' = [hpc EXCEPT ![h] = "select"] /\ hnode' = [hnode EXCEPT ![h] = wnode[w]]
        /\ nodeState' = [nodeState EXCEPT ![wnode[w]] = nodeHealthChecking]
    BY <1>4 DEF doHealthCheckSet, At
  <2>2. wnode[w] \in Nodes /\ On(wnode[w])
    BY <2>1 DEF On
  <2>3. ASSUME NEW n \in Nodes, On(n)' PROVE On(n)
    <3>1. CASE \E x \in Workers : wpc'[x] \in {"running", "get", "hcSet"} /\ wnode'[x] = n
      BY <2>1, <3>1 DEF On
    <3>2. ASSUME NEW g \in Checks, hpc'[g] # "off", hnode'[g] = n PROVE On(n)
      <4>1. CASE g = h
        BY <2>1, <2>2, <3>2, <4>1
      <4>2. CASE g # h
        BY <2>1, <3>2, <4>2 DEF On
      <4> QED BY <4>1, <4>2
    <3> QED BY <2>3, <3>1, <3>2 DEF On
  <2>4. \A x \in Workers : wpc'[x] # "out" <=> wpc[x] # "out"
    BY <2>1
  <2>5. \A n \in Nodes : nodeState'[n] # nodeState[n] =>
                            On(n) /\ nodeState'[n] \in {nodeRunning, nodeHealthChecking}
    BY <2>1, <2>2
  <2> QED BY <2>1, <2>3, <2>4, <2>5 DEF Inside
<1> QED
  BY <1>1, <1>2, <1>3, <1>4 DEF Execute

\* And so are the steps of a health check.
LEMMA HealthCheckInside ==
  ASSUME NodeTypeOK, NEW h \in Checks, HealthCheck(h)
  PROVE  Inside
<1> USE DEF NodeTypeOK, WorkerPC, CheckPC
<1>0. UNCHANGED <<stopped, caller>> /\ hpc[h] # "off"
  BY DEF HealthCheck, hcQuit, hcDial, hcPing, hcFails, hcSetRunning, hcUnchanged
<1>1. hnode[h] \in Nodes /\ On(hnode[h])
  BY <1>0 DEF On
<1>2. \A g \in Checks : hpc'[g] # "off" => hpc[g] # "off" /\ hnode'[g] = hnode[g]
  BY <1>0
  DEF HealthCheck, hcQuit, hcDial, hcPing, hcFails, hcSetRunning,
      ensureHealthCheckCanContinue, HcAt, HcEnds
<1>3. \A n \in Nodes : On(n)' => On(n)
  BY <1>0, <1>2 DEF On, caller
<1>4. nodeState' = nodeState \/ nodeState' = [nodeState EXCEPT ![hnode[h]] = nodeRunning]
  BY DEF HealthCheck, hcQuit, hcDial, hcPing, hcFails, hcSetRunning, hcUnchanged
<1>5. \A n \in Nodes : nodeState'[n] # nodeState[n] =>
                          On(n) /\ nodeState'[n] \in {nodeRunning, nodeHealthChecking}
  BY <1>1, <1>4
<1> QED
  BY <1>0, <1>3, <1>5 DEF Inside, caller

\* The end of an attempt keeps the nesting of worker w.
LEMMA AfterAttemptNested ==
  ASSUME TypeOK, NEW w \in Workers, NEW r, AfterAttempt(w, r)
  PROVE  /\ \A x \in Workers \ {w} : cpc'[x] = cpc[x] /\ wlen'[x] = wlen[x]
                                     /\ tries'[x] = tries[x]
         /\ cpc'[w] \in {"attempt", "over"}
         /\ cpc'[w] = "attempt" => tries'[w] > 0
<1> USE DEF TypeOK
<1>1. CASE Over(w)
  BY <1>1 DEF Over, Goto
<1>2. CASE /\ tries[w] > 1 /\ tries' = [tries EXCEPT ![w] = @ - 1]
           /\ Goto(w, "attempt") /\ UNCHANGED <<wlen, previous>>
  BY <1>2, DispatchAssumption DEF Goto
<1> QED
  BY <1>1, <1>2 DEF AfterAttempt

\* Nested for one worker.
NestedOf(w) ==
  /\ wpc[w] # "out" => cpc[w] = "in"
  /\ cpc[w] \in {"pick", "in"} => wlen[w] > 0
  /\ cpc[w] \in {"attempt", "start", "pick", "in"} => tries[w] > 0

\* A step that changes nothing of what NestedOf speaks of.
LEMMA NestedSame ==
  ASSUME NEW w \in Workers, NestedOf(w),
         wpc'[w] # "out" => wpc[w] # "out", cpc'[w] = cpc[w], wlen'[w] = wlen[w],
         tries'[w] = tries[w]
  PROVE  NestedOf(w)'
  BY DEF NestedOf

\* A worker goes through execute, ExecuteOnNode and Node.execute in this order.
LEMMA NestedStep ==
  ASSUME Control, Next
  PROVE  Nested'
<1> SUFFICES ASSUME NEW x \in Workers PROVE NestedOf(x)'
  BY DEF Nested, NestedOf
<1>0. /\ NestedOf(x) /\ TypeOK /\ NodeTypeOK
      /\ cpc \in [Workers -> DispatchPC] /\ wpc \in [Workers -> WorkerPC]
  BY DEF Control, Nested, NestedOf, TypeOK, NodeTypeOK
<1> USE DEF nodeVars, caller, manager, dispatch, owner
<1>1. ASSUME UNCHANGED <<wpc, cpc, wlen, tries>>
      PROVE  NestedOf(x)'
  BY <1>0, <1>1, NestedSame
<1>2. CASE StartCluster \/ StartNode \/ StartDone \/ StopCluster \/ StopLocks \/ Stops \/
           Verify
  BY <1>1, <1>2
  DEF StartCluster, StartNode, StartDone, StopCluster, StopLocks, Stops, StopNode,
      StopNodeDone, StopNodeFails, StopNodeTwice, Verify, start, stopBegin, stopFinish
<1>3. CASE OthersPick \/ (\E n \in Nodes : AddNode(n)) \/ \E i \in Slots : RemoveNode(i)
  BY <1>1, <1>3 DEF OthersPick, AddNode, RemoveNode, start
<1>4. ASSUME NEW w \in Workers, Begin(w) PROVE NestedOf(x)'
  <2>1. /\ wpc' = wpc /\ wpc[w] = "out"
        /\ cpc'[w] = "start" /\ tries'[w] > 0
        /\ x # w => cpc'[x] = cpc[x] /\ tries'[x] = tries[x] /\ wlen'[x] = wlen[x]
    <3>1. wpc' = wpc
      BY <1>4 DEF Begin
    <3>2. cpc[w] # "in" /\ cpc' = [cpc EXCEPT ![w] = "start"]
          /\ wlen' = [wlen EXCEPT ![w] = len]
      BY <1>4 DEF Begin, CopyNodes, Goto
    <3>3. wpc[w] = "out"
      BY <3>2 DEF Control, Nested
    <3>4. tries' = [tries EXCEPT ![w] = IF w \in Retryable THEN Attempts ELSE 1]
      BY <1>4 DEF Begin
    <3> QED BY <1>0, <3>1, <3>2, <3>3, <3>4, DispatchAssumption DEF TypeOK
  <2> QED BY <1>0, <2>1 DEF NestedOf
<1>5. ASSUME NEW w \in Workers, Attempt(w) PROVE NestedOf(x)'
  <2>1. /\ wpc' = wpc /\ cpc[w] = "attempt"
        /\ cpc'[w] \in {"start", "over"}
        /\ cpc'[w] = "start" => tries'[w] = tries[w]
        /\ x # w => cpc'[x] = cpc[x] /\ tries'[x] = tries[x] /\ wlen'[x] = wlen[x]
    BY <1>0, <1>5 DEF Attempt, CopyNodes, Over, Goto, TypeOK
  <2>2. wpc[w] = "out" /\ tries[w] > 0
    BY <2>1 DEF Control, Nested
  <2> QED BY <1>0, <2>1, <2>2 DEF NestedOf
<1>6. ASSUME NEW w \in Workers, Start(w) PROVE NestedOf(x)'
  <2>0. wpc' = wpc /\ cpc[w] = "start"
    BY <1>6 DEF Start
  <2>1. wpc[w] = "out" /\ tries[w] > 0 /\ wlen[w] \in Nat
    BY <1>0, <2>0, NodeCount DEF Control, Nested, TypeOK
  <2>2. CASE wlen[w] = 0 \/ array[0] = NoNode
    <3>1. AfterAttempt(w, Result(FALSE, TRUE))
      BY <1>6, <2>2 DEF Start
    <3> QED BY <1>0, <2>0, <2>1, <3>1, AfterAttemptNested DEF NestedOf
  <2>3. CASE ~(wlen[w] = 0 \/ array[0] = NoNode)
    <3>1. cpc' = [cpc EXCEPT ![w] = "pick"] /\ UNCHANGED <<tries, wlen>> /\ wlen[w] > 0
      BY <1>6, <2>1, <2>3 DEF Start, Goto
    <3> QED BY <1>0, <2>0, <2>1, <3>1 DEF NestedOf
  <2> QED BY <2>2, <2>3
<1>7. ASSUME NEW w \in Workers, PickNode(w) PROVE NestedOf(x)'
  <2>0. cpc[w] = "pick" /\ UNCHANGED <<tries, wlen>>
    BY <1>7 DEF PickNode
  <2>1. wpc[w] = "out" /\ tries[w] > 0 /\ wlen[w] > 0
    BY <2>0 DEF Control, Nested
  <2>2. CASE UNCHANGED <<nodeVars, cpc>>
    BY <1>0, <2>0, <2>2, NestedSame
  <2>3. CASE Call(w, array[Wrap(w)]) /\ Goto(w, "in")
    <3>1. wpc' = [wpc EXCEPT ![w] = "check"] /\ cpc' = [cpc EXCEPT ![w] = "in"]
      BY <2>3 DEF Call, At, Goto
    <3> QED BY <1>0, <2>0, <2>1, <3>1 DEF NestedOf
  <2> QED BY <1>7, <2>2, <2>3 DEF PickNode
<1>8. ASSUME NEW w \in Workers, PickNil(w) PROVE NestedOf(x)'
  BY <1>1, <1>8 DEF PickNil
<1>9. ASSUME NEW w \in Workers, NodeReturns(w) PROVE NestedOf(x)'
  <2>0. cpc[w] = "in" /\ wpc' = [wpc EXCEPT ![w] = "out"]
    BY <1>9 DEF NodeReturns, Taken, At
  <2>1. tries[w] > 0 /\ wlen[w] > 0
    BY <2>0 DEF Control, Nested
  <2>2. CASE result[w].executed \/ GivesUp(w)
    <3>1. AfterAttempt(w, result[w])
      BY <1>9, <2>2 DEF NodeReturns
    <3> QED BY <1>0, <2>0, <2>1, <3>1, AfterAttemptNested DEF NestedOf
  <2>3. CASE ~(result[w].executed \/ GivesUp(w))
    <3>1. cpc' = [cpc EXCEPT ![w] = "pick"] /\ UNCHANGED <<tries, wlen>>
      BY <1>9, <2>3 DEF NodeReturns, Goto
    <3> QED BY <1>0, <2>0, <2>1, <3>1 DEF NestedOf
  <2> QED BY <2>2, <2>3
<1>10. ASSUME Inside, UNCHANGED <<manager, dispatch, owner>> PROVE NestedOf(x)'
  BY <1>0, <1>10, NestedSame DEF Inside
<1>11. ASSUME NEW w \in Workers, InNode(Execute(w)) PROVE NestedOf(x)'
  BY <1>0, <1>10, <1>11, ExecuteInside DEF InNode
<1>12. ASSUME NEW h \in Checks, InNode(HealthCheck(h)) PROVE NestedOf(x)'
  BY <1>0, <1>10, <1>12, HealthCheckInside DEF InNode
<1> QED
  BY <1>2, <1>3, <1>4, <1>5, <1>6, <1>7, <1>8, <1>9, <1>11, <1>12
  DEF Next, Owner, Dispatch

\* The three together.
LEMMA ControlStep ==
  ASSUME Control, [Next]_vars
  PROVE  Control'
<1>1. CASE UNCHANGED vars
  <2>1. NodeTypeOK'
    BY <1>1, NodeTypeSame DEF Control, TypeOK, vars
  <2> QED
    BY <1>1, <2>1
    DEF Control, TypeOK, Slice, Nested, vars, nodeVars, caller, manager, dispatch, owner
<1>2. CASE Next
  <2>1. NodeTypeOK'
    BY <1>2, NodeEffect, NodeTypeStep, NodeTypeSame DEF Control, TypeOK
  <2>2. TypeOK'
    BY <1>2, <2>1, DispatchTypeStep DEF TypeOK, DispatchTypes
  <2> QED BY <1>2, <2>2, SliceStep, NestedStep DEF Control
<1> QED BY <1>1, <1>2

\* Every variable keeps its type; in particular nodeIndex stays within the slice and
\* no worker has more than executionAttempts attempts.
THEOREM DispatchTypeCorrect == Spec => []TypeOK
<1>1. Control => TypeOK
  BY DEF Control
<1> QED
  BY <1>1, ControlInit, ControlStep, PTL DEF Spec

\* However the cluster uses its nodes, they behave as Node allows: each node is
\* started once, before a worker gets past its state check, and stopped once.
THEOREM NodesBehave == Spec => NodeSpec
<1>1. Init => NodeInit
  BY DEF Init
<1>2. Control /\ [Next]_vars => [NodeNext]_nodeVars
  <2>1. Control /\ Next => NodeNext \/ UNCHANGED nodeVars
    BY NodeEffect DEF NodeNext, NodeStep, Next, Up
  <2>2. UNCHANGED vars => UNCHANGED nodeVars
    BY DEF vars
  <2> QED BY <2>1, <2>2
<1> QED
  BY <1>1, <1>2, ControlInit, ControlStep, PTL DEF Spec, NodeSpec
-----------------------------------------------------------------------------
(* Started nodes *)

\* The steps of the owner and of the dispatch, as against those inside of Node.
Outer ==
  \/ Owner \/ OthersPick
  \/ \E w \in Workers : Begin(w) \/ Dispatch(w)

\* A step is one inside of Node, or it leaves the health checks alone.
LEMMA InsideOrOuter ==
  ASSUME Control, Next
  PROVE  (Inside /\ UNCHANGED <<manager, dispatch, owner>>) \/ Outer
<1>1. NodeTypeOK
  BY DEF Control, TypeOK
<1>2. ASSUME NEW w \in Workers, InNode(Execute(w))
      PROVE  Inside /\ UNCHANGED <<manager, dispatch, owner>>
  BY <1>1, <1>2, ExecuteInside DEF InNode
<1>3. ASSUME NEW h \in Checks, InNode(HealthCheck(h))
      PROVE  Inside /\ UNCHANGED <<manager, dispatch, owner>>
  BY <1>1, <1>3, HealthCheckInside DEF InNode
<1> QED
  BY <1>2, <1>3 DEF Next, Outer

\* The health checks are Node's own.
LEMMA OuterChecks == Outer => UNCHANGED <<checker, panicked>>
<1>1. Owner \/ OthersPick => UNCHANGED <<checker, panicked>>
  BY DEF Owner, OthersPick, StartCluster, StartNode, StartDone, StopCluster, StopLocks,
         Stops, StopNode, StopNodeDone, StopNodeFails, StopNodeTwice, Verify, AddNode,
         RemoveNode, start, stopBegin, stopFinish, nodeVars
<1>2. ASSUME NEW w \in Workers, Begin(w) \/ Dispatch(w)
      PROVE  UNCHANGED <<checker, panicked>>
  BY <1>2 DEF Begin, Dispatch, Attempt, Start, PickNode, PickNil, NodeReturns, Call,
              Taken, nodeVars
<1> QED
  BY <1>1, <1>2 DEF Outer

\* What a step of the owner or of the dispatch does to the state of a node: start
\* of one that was created, or a stop of the target.
LEMMA OuterState ==
  ASSUME Control, Outer
  PROVE  \/ UNCHANGED <<nodeState, stopped>>
         \/ StartNode /\ \E i \in 0..(len - 1) : start(array[i])
         \/ \E n \in Nodes : AddNode(n) /\ start(n)
         \/ StopNode \/ StopNodeDone
<1>1. CASE StartNode
  BY <1>1 DEF StartNode
<1>2. ASSUME NEW n \in Nodes, AddNode(n)
      PROVE  UNCHANGED <<nodeState, stopped>> \/ start(n)
  BY <1>2 DEF AddNode, nodeVars
<1>3. CASE StartCluster \/ StartDone \/ StopCluster \/ StopLocks \/ StopNodeFails \/
           StopNodeTwice \/ Verify \/ OthersPick \/ \E i \in Slots : RemoveNode(i)
  BY <1>3
  DEF StartCluster, StartDone, StopCluster, StopLocks, StopNodeFails, StopNodeTwice,
      Verify, OthersPick, RemoveNode, nodeVars
<1>4. ASSUME NEW w \in Workers, Begin(w) \/ Dispatch(w)
      PROVE  UNCHANGED <<nodeState, stopped>>
  BY <1>4 DEF Begin, Dispatch, Attempt, Start, PickNode, PickNil, NodeReturns, Call,
              Taken, nodeVars
<1> QED
  BY <1>1, <1>2, <1>3, <1>4 DEF Outer, Owner, Stops

\* No node is created again.
LEMMA NeverCreatedAgain ==
  ASSUME Control, Next, NEW n \in Nodes, nodeState'[n] = nodeCreated
  PROVE  nodeState[n] = nodeCreated
<1>1. CASE Inside
  BY <1>1 DEF Inside, nodeCreated, nodeRunning, nodeHealthChecking
<1>2. CASE Outer
  <2> USE DEF Control, TypeOK, NodeTypeOK, Slice, nodeCreated, nodeRunning,
              nodeShuttingDown, nodeShutdown
  <2>1. CASE UNCHANGED <<nodeState, stopped>>
    BY <2>1
  <2>2. ASSUME NEW m \in Nodes, start(m) \/ stopBegin(m) \/ stopFinish(m)
        PROVE  nodeState[n] = nodeCreated
    BY <2>2 DEF start, stopBegin, stopFinish
  <2>3. CASE StopNode \/ StopNodeDone
    BY <2>2, <2>3 DEF StopNode, StopNodeDone
  <2> QED BY <1>2, <2>1, <2>2, <2>3, OuterState
<1> QED
  BY <1>1, <1>2, InsideOrOuter

\* The owner and the dispatch bring a worker to the state check of a node, not past it.
LEMMA OuterOn ==
  ASSUME Control, Outer, NEW n \in Nodes, On(n)'
  PROVE  On(n)
<1>0. wpc \in [Workers -> WorkerPC] /\ wnode \in [Workers -> Nodes \cup {NoNode}]
  BY DEF Control, TypeOK, NodeTypeOK
<1>1. \A x \in Workers : wpc'[x] \in {"running", "get", "hcSet"} =>
                             wpc[x] = wpc'[x] /\ wnode[x] = wnode'[x]
  <2>1. CASE UNCHANGED caller
    BY <2>1 DEF caller
  <2>2. Owner \/ OthersPick => UNCHANGED caller
    BY DEF Owner, OthersPick, StartCluster, StartNode, StartDone, StopCluster, StopLocks,
           Stops, StopNode, StopNodeDone, StopNodeFails, StopNodeTwice, Verify, AddNode,
           RemoveNode, start, stopBegin, stopFinish, nodeVars
  <2>3. ASSUME NEW w \in Workers, Begin(w) \/ Attempt(w) \/ Start(w) \/ PickNil(w)
        PROVE  UNCHANGED caller
    BY <2>3 DEF Begin, Attempt, Start, PickNil, nodeVars
  <2>4. ASSUME NEW w \in Workers, PickNode(w) \/ NodeReturns(w)
        PROVE  \/ UNCHANGED caller
               \/ /\ \E l \in {"check", "out"} : wpc' = [wpc EXCEPT ![w] = l]
                  /\ \E m : wnode' = [wnode EXCEPT ![w] = m]
    BY <2>4 DEF PickNode, NodeReturns, Call, Taken, At, nodeVars
  <2>5. ASSUME NEW w \in Workers, NEW l \in {"check", "out"}, NEW m,
               wpc' = [wpc EXCEPT ![w] = l], wnode' = [wnode EXCEPT ![w] = m]
        PROVE  \A x \in Workers : wpc'[x] \in {"running", "get", "hcSet"} =>
                                     wpc[x] = wpc'[x] /\ wnode[x] = wnode'[x]
    BY <1>0, <2>5
  <2> QED BY <2>1, <2>2, <2>3, <2>4, <2>5 DEF Outer, Dispatch
<1>2. UNCHANGED <<hpc, hnode>>
  BY OuterChecks DEF checker
<1> QED
  BY <1>1, <1>2 DEF On

\* Nobody gets past the state check of a node before it is started.
LEMMA StartedStep ==
  ASSUME Control, Started, Next
  PROVE  Started'
<1> SUFFICES ASSUME NEW n \in Nodes, On(n)' PROVE nodeState'[n] # nodeCreated
  BY DEF Started
<1>1. CASE Inside
  BY <1>1, NeverCreatedAgain DEF Inside, Started
<1>2. CASE Outer
  BY <1>2, OuterOn, NeverCreatedAgain DEF Started
<1> QED
  BY <1>1, <1>2, InsideOrOuter
-----------------------------------------------------------------------------
(* Stopping and removing *)

\* Stop goes on at slot k: it is done with the nodes before, and no stop is under way.
LEMMA StopAtStopping ==
  ASSUME Control, NEW k \in Nat, StopAt(k), UNCHANGED <<array, len>>,
         \A i \in 0..(len - 1) : i < k => Stopped(array[i])',
         \A n \in Nodes : stopped'[n] # "begun" /\ nodeState'[n] # nodeShuttingDown,
         \A n \in Nodes : nodeState'[n] = nodeShutdown => stopped'[n] = "done"
  PROVE  Stopping'
<1>0. len \in Nat /\ \A i \in 0..(len - 1) : array[i] \in Nodes
  BY NodeCount DEF Control, TypeOK, Slice
<1>1. CASE k < len
  <2>1. opc' = "stopping" /\ pos' = k /\ target' = array[k] /\ array[k] \in Nodes
    BY <1>0, <1>1 DEF StopAt
  <2>2. \A i \in 0..(pos' - 1) : Stopped(array[i])'
    BY <1>0, <1>1, <2>1
  <2> QED BY <1>1, <2>1, <2>2, NodeAssumption DEF Stopping
<1>2. CASE ~(k < len)
  <2>1. opc' = "verify" /\ target' = NoNode
    BY <1>2 DEF StopAt
  <2>2. \A i \in 0..(len' - 1) : Stopped(array[i])'
    BY <1>0, <1>2
  <2> QED BY <2>1, <2>2 DEF Stopping
<1> QED BY <1>1, <1>2

\* RemoveNode is over, or Stop goes on with the next node.
LEMMA NextNodeStopping ==
  ASSUME Control, Stopping, target # NoNode, NextNode, UNCHANGED <<array, len>>,
         \A n \in Nodes : Stopped(n) \/ n = target => Stopped(n)',
         \A n \in Nodes : stopped'[n] # "begun" /\ nodeState'[n] # nodeShuttingDown,
         \A n \in Nodes : nodeState'[n] = nodeShutdown => stopped'[n] = "done"
  PROVE  Stopping'
<1>1. CASE opc = "removing"
  BY <1>1 DEF NextNode, Stopping
<1>2. CASE opc # "removing"
  <2>1. /\ pos < len /\ pos \in Nat /\ len \in Nat /\ target = array[pos]
        /\ \A i \in 0..(pos - 1) : Stopped(array[i])
    BY <1>2, NodeCount DEF Stopping, Control, TypeOK
  <2>2. \A i \in 0..(len - 1) : array[i] \in Nodes
    BY DEF Control, Slice
  <2>3. ASSUME NEW i \in 0..(len - 1), i < pos + 1 PROVE Stopped(array[i])'
    <3>1. CASE i = pos
      BY <2>1, <2>2, <3>1 DEF Stopped
    <3>2. CASE i # pos
      <4>1. i \in 0..(pos - 1) /\ array[i] \in Nodes
        BY <2>1, <2>2, <2>3, <3>2
      <4>2. Stopped(array[i])
        BY <2>1, <4>1
      <4> QED BY <4>1, <4>2 DEF Stopped
    <3> QED BY <3>1, <3>2
  <2>4. StopAt(pos + 1) /\ pos + 1 \in Nat
    BY <1>2, <2>1 DEF NextNode
  <2> QED BY <2>3, <2>4, StopAtStopping
<1> QED BY <1>1, <1>2

\* The owner stops one node at a time, and Stop verifies when it is done with all.
LEMMA StoppingStep ==
  ASSUME Control, Started, Stopping, Next
  PROVE  Stopping'
<1>0. /\ stopped \in [Nodes -> StopPC] /\ nodeState \in [Nodes -> nodeCreated..nodeShutdown]
      /\ NoNode \notin Nodes /\ target \in Nodes \cup {NoNode}
      /\ len \in Nat /\ pos \in Nat
      /\ \A i \in 0..(len - 1) : array[i] \in Nodes
  BY NodeAssumption, NodeCount DEF Control, TypeOK, NodeTypeOK, Slice
<1> USE DEF nodeCreated, nodeRunning, nodeHealthChecking, nodeShuttingDown, nodeShutdown
<1>1. ASSUME UNCHANGED <<stopped, opc, pos, target, array, len>>,
             \A n \in Nodes : nodeState'[n] # nodeState[n] =>
                /\ nodeState[n] # nodeCreated
                /\ nodeState'[n] \in {nodeRunning, nodeHealthChecking}
      PROVE  Stopping'
  <2>1. \A n \in Nodes : Stopped(n) => Stopped(n)'
    BY <1>1 DEF Stopped
  <2>2. opc = "stopping" => \A i \in 0..(pos - 1) : i \in 0..(len - 1)
    BY <1>0 DEF Stopping
  <2>3. \A i \in 0..(len - 1) : Stopped(array[i]) => Stopped(array[i])'
    BY <1>0, <1>1, <2>1 DEF Stopped
  <2> QED BY <1>0, <1>1, <2>2, <2>3 DEF Stopping
<1>2. CASE Inside /\ UNCHANGED <<manager, dispatch, owner>>
  BY <1>1, <1>2 DEF Inside, Started, manager, owner
<1>3. CASE StopCluster \/ StopNodeTwice \/ OthersPick \/
           \E w \in Workers : Begin(w) \/ Dispatch(w)
  <2>1. UNCHANGED <<stopped, nodeState>>
    BY <1>3 DEF StopCluster, StopNodeTwice, OthersPick, Begin, Dispatch, Attempt, Start,
                PickNode, PickNil, NodeReturns, Call, Taken, nodeVars
  <2>2. UNCHANGED <<opc, pos, target, array, len>>
    BY <1>3 DEF StopCluster, StopNodeTwice, OthersPick, Begin, Dispatch, Attempt, Start,
                PickNode, PickNil, NodeReturns, manager, owner
  <2> QED BY <1>1, <2>1, <2>2
<1>4. ASSUME target = NoNode, target' = NoNode, stopped' = stopped,
             opc' \notin {"removing", "stopping", "verify"},
             \A n \in Nodes : nodeState'[n] # nodeState[n] => nodeState'[n] = nodeRunning
      PROVE  Stopping'
  BY <1>0, <1>4 DEF Stopping
<1>5. CASE StartCluster \/ StartDone
  <2>1. /\ UNCHANGED <<stopped, nodeState, target>> /\ opc' \in {"free", "starting"}
        /\ opc \in {"free", "starting"}
    BY <1>5 DEF StartCluster, StartDone, nodeVars
  <2> QED BY <1>4, <2>1 DEF Stopping
<1>6. CASE StartNode
  <2>1. PICK i \in 0..(len - 1) : start(array[i])
    BY <1>6 DEF StartNode
  <2>2. /\ UNCHANGED <<stopped, target, opc>> /\ opc = "starting"
        /\ nodeState' = [nodeState EXCEPT ![array[i]] = nodeRunning]
    BY <1>6, <2>1 DEF StartNode, start, owner
  <2> QED BY <1>0, <1>4, <2>2 DEF Stopping
<1>7. ASSUME NEW n \in Nodes, AddNode(n) PROVE Stopping'
  <2>1. /\ UNCHANGED <<stopped, target, opc>> /\ opc = "free"
        /\ \/ nodeState' = nodeState
           \/ nodeState' = [nodeState EXCEPT ![n] = nodeRunning]
    BY <1>7 DEF AddNode, start, nodeVars, owner
  <2> QED BY <1>0, <1>4, <2>1 DEF Stopping
<1>8. ASSUME NEW i \in Slots, RemoveNode(i) PROVE Stopping'
  <2>1. /\ UNCHANGED <<stopped, nodeState>> /\ opc = "free" /\ array[i] \in Nodes
        /\ StopsRemoved(array[i])
    BY <1>0, <1>8, NodeCount DEF RemoveNode, nodeVars, Slots
  <2>2. CASE nodeState[array[i]] = nodeCreated
    BY <1>4, <2>1, <2>2 DEF StopsRemoved, Stopping
  <2>3. CASE nodeState[array[i]] # nodeCreated
    BY <1>0, <2>1, <2>3 DEF StopsRemoved, Stopping
  <2> QED BY <2>2, <2>3
<1>9. CASE StopLocks
  <2>1. /\ UNCHANGED <<stopped, nodeState, array, len>> /\ target = NoNode /\ StopAt(0)
    BY <1>9 DEF StopLocks, Stopping, nodeVars, manager
  <2>2. \A n \in Nodes : stopped'[n] # "begun" /\ nodeState'[n] # nodeShuttingDown
    BY <1>0, <2>1 DEF Stopping
  <2>3. \A n \in Nodes : nodeState'[n] = nodeShutdown => stopped'[n] = "done"
    BY <2>1 DEF Stopping
  <2>4. \A i \in 0..(len - 1) : i < 0 => Stopped(array[i])'
    BY <1>0
  <2> QED BY <2>1, <2>2, <2>3, <2>4, StopAtStopping
<1>10. CASE StopNode
  <2>1. /\ target \in Nodes /\ UNCHANGED <<opc, pos, target, array, len>>
        /\ stopped' = [stopped EXCEPT ![target] = "begun"]
        /\ nodeState' = [nodeState EXCEPT ![target] = nodeShuttingDown]
        /\ ~Stopped(target)
    BY <1>0, <1>10 DEF StopNode, stopBegin, manager, owner, Stopped
  <2>2. \A n \in Nodes : Stopped(n) => Stopped(n)'
    BY <1>0, <2>1 DEF Stopped
  <2>3. \A i \in 0..(len - 1) : Stopped(array[i]) => Stopped(array[i])'
    BY <1>0, <2>1, <2>2 DEF Stopped
  <2>4. opc = "stopping" => \A i \in 0..(pos - 1) : i \in 0..(len - 1)
    BY <1>0 DEF Stopping
  <2>5. opc' # "verify"
    BY <1>0, <2>1 DEF Stopping
  <2>6. opc' = "stopping" => \A i \in 0..(pos' - 1) : Stopped(array[i])'
    BY <2>1, <2>3, <2>4 DEF Stopping
  <2>7. /\ \A n \in Nodes : stopped'[n] = "begun" => target' = n
        /\ \A n \in Nodes : nodeState'[n] = nodeShuttingDown => stopped'[n] = "begun"
        /\ \A n \in Nodes : nodeState'[n] = nodeShutdown => stopped'[n] = "done"
    BY <1>0, <2>1 DEF Stopping
  <2> QED BY <2>1, <2>5, <2>6, <2>7 DEF Stopping
<1>11. CASE StopNodeDone
  <2>1. /\ target \in Nodes /\ UNCHANGED <<array, len>> /\ NextNode
        /\ stopped[target] = "begun"
        /\ stopped' = [stopped EXCEPT ![target] = "done"]
        /\ nodeState' = [nodeState EXCEPT ![target] = nodeShutdown]
    BY <1>0, <1>11 DEF StopNodeDone, stopFinish, manager
  <2>2. \A n \in Nodes : Stopped(n) \/ n = target => Stopped(n)'
    BY <1>0, <2>1 DEF Stopped
  <2>3. \A n \in Nodes : stopped'[n] # "begun" /\ nodeState'[n] # nodeShuttingDown
    BY <1>0, <2>1 DEF Stopping
  <2>4. \A n \in Nodes : nodeState'[n] = nodeShutdown => stopped'[n] = "done"
    BY <1>0, <2>1 DEF Stopping
  <2> QED BY <1>0, <2>1, <2>2, <2>3, <2>4, NextNodeStopping
<1>12. CASE StopNodeFails
  <2>1. /\ target \in Nodes /\ UNCHANGED <<array, len, stopped, nodeState>> /\ NextNode
        /\ stopped[target] # "begun"
        /\ nodeState[target] \notin {nodeRunning, nodeHealthChecking}
    BY <1>0, <1>12 DEF StopNodeFails, nodeVars, manager
  <2>2. \A n \in Nodes : stopped'[n] # "begun" /\ nodeState'[n] # nodeShuttingDown
    BY <1>0, <2>1 DEF Stopping
  <2>3. Stopped(target)
    BY <1>0, <2>1, <2>2 DEF Stopping, Stopped
  <2>4. \A n \in Nodes : nodeState'[n] = nodeShutdown => stopped'[n] = "done"
    BY <2>1 DEF Stopping
  <2>5. \A n \in Nodes : Stopped(n) \/ n = target => Stopped(n)'
    BY <2>1, <2>3 DEF Stopped
  <2> QED BY <1>0, <2>1, <2>2, <2>4, <2>5, NextNodeStopping
<1>13. CASE Verify
  <2>1. /\ UNCHANGED <<stopped, nodeState, target, pos, array, len>> /\ opc = "verify"
        /\ opc' \in {"verify", "free"}
    BY <1>13 DEF Verify, nodeVars, manager
  <2> QED BY <2>1 DEF Stopping, Stopped
<1> QED
  BY <1>2, <1>3, <1>5, <1>6, <1>7, <1>8, <1>9, <1>10, <1>11, <1>12, <1>13, InsideOrOuter
  DEF Outer, Owner, Stops

\* A node leaves c.nodes as the target of the stop that follows, or was never started.
LEMMA GoneStep ==
  ASSUME Control, Started, Stopping, Gone, Next
  PROVE  Gone'
<1> SUFFICES ASSUME NEW n \in Nodes, Outside(n)'
             PROVE  (nodeState[n] = nodeCreated \/ stopped[n] # "no" \/ target = n)'
  BY DEF Gone
<1>0. /\ stopped \in [Nodes -> StopPC] /\ nodeState \in [Nodes -> nodeCreated..nodeShutdown]
      /\ NoNode \notin Nodes /\ target \in Nodes \cup {NoNode}
      /\ \A i \in 0..(len - 1) : array[i] \in Nodes
  BY NodeAssumption DEF Control, TypeOK, NodeTypeOK, Slice
<1>1. CASE Inside /\ UNCHANGED <<manager, dispatch, owner>>
  <2>1. Outside(n) /\ UNCHANGED <<stopped, target>>
    BY <1>1 DEF Outside, Inside, manager, owner
  <2>2. nodeState[n] = nodeCreated => nodeState'[n] = nodeCreated
    BY <1>1 DEF Inside, Started
  <2> QED BY <2>1, <2>2 DEF Gone
<1>2. CASE StartNode
  <2>1. PICK i \in 0..(len - 1) : start(array[i])
    BY <1>2 DEF StartNode
  <2>2. Outside(n) /\ UNCHANGED <<stopped, target>> /\ array[i] # n
    BY <1>2, <2>1 DEF StartNode, start, Outside, manager, owner
  <2>3. nodeState'[n] = nodeState[n]
    BY <1>0, <2>1, <2>2 DEF start
  <2> QED BY <2>2, <2>3 DEF Gone
<1>3. ASSUME UNCHANGED <<nodeState, stopped, array, len>>, target = NoNode \/ target' = target
      PROVE  (nodeState[n] = nodeCreated \/ stopped[n] # "no" \/ target = n)'
  BY <1>0, <1>3 DEF Gone, Outside
<1>4. CASE StartCluster \/ StartDone \/ StopCluster \/ StopLocks \/ StopNodeTwice \/ Verify
           \/ OthersPick \/ \E w \in Workers : Begin(w) \/ Dispatch(w)
  <2>1. UNCHANGED <<nodeState, stopped>>
    BY <1>4 DEF StartCluster, StartDone, StopCluster, StopLocks, StopNodeTwice, Verify,
                OthersPick, Begin, Dispatch, Attempt, Start, PickNode, PickNil,
                NodeReturns, Call, Taken, nodeVars
  <2>2. UNCHANGED <<array, len>> /\ (target = NoNode \/ target' = target)
    BY <1>4 DEF StartCluster, StartDone, StopCluster, StopLocks, StopNodeTwice, Verify,
                OthersPick, Begin, Dispatch, Attempt, Start, PickNode, PickNil,
                NodeReturns, Stopping, manager, owner
  <2> QED BY <1>3, <2>1, <2>2
<1>6. ASSUME NEW m \in Nodes, AddNode(m)
      PROVE  (nodeState[n] = nodeCreated \/ stopped[n] # "no" \/ target = n)'
  <2>1. /\ array' = [array EXCEPT ![len] = m] /\ len' = len + 1
        /\ UNCHANGED <<stopped, target>>
        /\ nodeState' = nodeState \/ nodeState' = [nodeState EXCEPT ![m] = nodeRunning]
    BY <1>6 DEF AddNode, start, nodeVars, owner
  <2>2. len \in Slots /\ array \in [Slots -> Nodes \cup {NoNode}] /\ len \in Nat
        /\ len <= Cardinality(Nodes)
    <3>1. Outside(m)
      BY <1>6 DEF AddNode, Outside
    <3>2. len < Cardinality(Nodes)
      BY <3>1, RoomForNode DEF Control
    <3> QED BY <3>2, NodeCount DEF Control, TypeOK, Slots
  <2>3. \A i \in 0..(len - 1) : i \in 0..(len' - 1) /\ array'[i] = array[i]
    BY <2>1, <2>2
  <2>4. len \in 0..(len' - 1) /\ array'[len] = m
    BY <2>1, <2>2
  <2>5. Outside(n) /\ n # m
    BY <2>3, <2>4 DEF Outside
  <2>6. nodeState'[n] = nodeState[n]
    BY <1>0, <2>1, <2>5
  <2> QED BY <2>1, <2>5, <2>6 DEF Gone
<1>7. ASSUME NEW i \in Slots, RemoveNode(i)
      PROVE  (nodeState[n] = nodeCreated \/ stopped[n] # "no" \/ target = n)'
  <2>1. /\ array' = [array EXCEPT ![i] = array[len - 1], ![len - 1] = NoNode]
        /\ len' = len - 1 /\ i < len /\ target = NoNode /\ StopsRemoved(array[i])
        /\ UNCHANGED <<nodeState, stopped>>
    BY <1>7 DEF RemoveNode, Stopping, nodeVars
  <2>2. array \in [Slots -> Nodes \cup {NoNode}] /\ len \in Nat /\ i \in Nat
        /\ len <= Cardinality(Nodes)
    BY <2>1, NodeCount DEF Control, TypeOK, Slots
  <2>3. \A j \in 0..(len' - 1) : array'[j] = IF j = i THEN array[len - 1] ELSE array[j]
    BY <2>1, <2>2, NodeCount DEF Slots
  <2>4. ASSUME n # array[i] PROVE Outside(n)
    <3> SUFFICES ASSUME NEW j \in 0..(len - 1), array[j] = n PROVE FALSE
      BY DEF Outside
    <3>1. j # i
      BY <2>4
    <3>2. CASE j < len - 1
      <4>1. j \in 0..(len' - 1)
        BY <2>1, <2>2, <3>2
      <4>2. array'[j] = n
        BY <2>3, <3>1, <4>1
      <4> QED BY <4>1, <4>2 DEF Outside
    <3>3. CASE j = len - 1
      <4>1. i \in 0..(len' - 1) /\ array'[i] = n
        BY <2>1, <2>2, <2>3, <3>1, <3>3
      <4> QED BY <4>1 DEF Outside
    <3> QED BY <2>2, <3>2, <3>3
  <2>5. CASE n = array[i]
    BY <2>1, <2>5 DEF StopsRemoved
  <2>6. CASE n # array[i]
    BY <1>0, <2>1, <2>4, <2>6 DEF Gone
  <2> QED BY <2>5, <2>6
<1>8. CASE StopNode \/ StopNodeDone
  <2>1. /\ UNCHANGED <<array, len>> /\ target \in Nodes
        /\ \E v \in {"begun", "done"} : stopped' = [stopped EXCEPT ![target] = v]
        /\ \E v \in {nodeShuttingDown, nodeShutdown} :
             nodeState' = [nodeState EXCEPT ![target] = v]
    BY <1>8 DEF StopNode, StopNodeDone, stopBegin, stopFinish, Control, TypeOK, manager
  <2>2. Outside(n)
    BY <2>1 DEF Outside
  <2>3. CASE n = target
    BY <1>0, <2>1, <2>3
  <2>4. CASE n # target
    <3>1. nodeState'[n] = nodeState[n] /\ stopped'[n] = stopped[n]
      BY <1>0, <2>1, <2>4
    <3> QED BY <2>2, <2>4, <3>1 DEF Gone
  <2> QED BY <2>3, <2>4
<1>9. CASE StopNodeFails
  <2>1. /\ UNCHANGED <<nodeState, stopped, array, len>> /\ target # NoNode
        /\ nodeState[target] \notin {nodeRunning, nodeHealthChecking}
    BY <1>9 DEF StopNodeFails, nodeVars, manager
  <2>2. nodeState[target] = nodeCreated \/ stopped[target] # "no"
    BY <1>0, <2>1 DEF Stopping, nodeCreated, nodeRunning, nodeHealthChecking,
                      nodeShuttingDown, nodeShutdown
  <2>3. Outside(n)
    BY <2>1 DEF Outside
  <2> QED BY <1>0, <2>1, <2>2, <2>3 DEF Gone
<1> QED
  BY <1>1, <1>2, <1>4, <1>6, <1>7, <1>8, <1>9, InsideOrOuter DEF Outer, Owner, Stops

\* What the cluster does is a step of Node, so its stops are as quiet.
LEMMA QuietlyStep ==
  ASSUME Control, StopsQuietly, Next
  PROVE  StopsQuietly'
<1>1. CASE NodeStep
  BY <1>1, QuietStep DEF Control, TypeOK, StopsQuietly
<1> QED
  BY <1>1, NodeEffect, QuietUnchanged

\* The program dies at an empty slot, at the second stop of a node or in Verify, and
\* does nothing afterwards.
LEMMA PanicStep ==
  ASSUME Control, Stopping, StopsQuietly, Next
  PROVE  PanicExplained'
<1>0. fatal = "no"
  BY DEF Next, Up
<1>1. ASSUME fatal' = fatal PROVE PanicExplained'
  BY <1>0, <1>1 DEF PanicExplained
<1>2. ASSUME NEW w \in Workers, PickNil(w) PROVE PanicExplained'
  <2>1. Wrap(w) \in Slots /\ Wrap(w) < wlen[w] /\ Wrap(w) \in Nat
    BY <1>2, WrapInSlots DEF PickNil
  <2>2. ~(Wrap(w) \in 0..(len - 1))
    BY <1>2, NodeAssumption DEF PickNil, Control, Slice
  <2>3. wlen[w] > len
    BY <2>1, <2>2, NodeCount DEF Control, TypeOK
  <2>4. fatal' = "nilNode" /\ wlen' = wlen /\ len' = len
    BY <1>2 DEF PickNil, manager, dispatch
  <2> QED BY <2>3, <2>4 DEF PanicExplained
<1>3. CASE Verify
  <2>1. fatal' \in {"no", "stillRunning"} /\ UNCHANGED <<stopped, raced, nodeState, array, len>>
    BY <1>0, <1>3 DEF Verify, nodeVars, manager
  <2>2. CASE fatal' = "no"
    BY <2>2 DEF PanicExplained
  <2>3. CASE fatal' = "stillRunning"
    <3>1. PICK i \in 0..(len - 1) : nodeState[array[i]] # nodeShutdown
      BY <1>0, <1>3, <2>3 DEF Verify
    <3>2. \A j \in 0..(len - 1) : \/ stopped[array[j]] = "done"
                                    \/ nodeState[array[j]] = nodeCreated
      BY <1>3 DEF Verify, Stopping, Stopped
    <3>3. array[i] \in raced \/ nodeState[array[i]] = nodeCreated
      <4>1. array[i] \in Nodes /\ nodeState[array[i]] \in nodeCreated..nodeShutdown
        BY DEF Control, Slice, TypeOK, NodeTypeOK
      <4>2. nodeState[array[i]] = nodeShuttingDown => stopped[array[i]] = "begun"
        BY <4>1 DEF Stopping
      <4>3. StopUndoneByRaceOnly
        BY QuietStops DEF Control, TypeOK
      <4> QED
        BY <3>1, <3>2, <4>1, <4>2, <4>3
        DEF StopUndoneByRaceOnly, StopClosed, nodeCreated, nodeRunning,
            nodeHealthChecking, nodeShuttingDown, nodeShutdown
    <3> QED BY <2>1, <2>3, <3>2, <3>3 DEF PanicExplained
  <2> QED BY <2>1, <2>2, <2>3
<1>4. CASE Inside /\ UNCHANGED <<manager, dispatch, owner>>
  BY <1>1, <1>4 DEF owner
<1>5. CASE StartCluster \/ StartNode \/ StartDone \/ StopCluster \/ StopLocks \/ StopNode \/
           StopNodeDone \/ StopNodeFails \/ OthersPick \/ (\E n \in Nodes : AddNode(n)) \/
           \E i \in Slots : RemoveNode(i)
  BY <1>1, <1>5 DEF StartCluster, StartNode, StartDone, StopCluster, StopLocks, StopNode,
                    StopNodeDone, StopNodeFails, NextNode, OthersPick, AddNode,
                    RemoveNode, owner
<1>6. ASSUME NEW w \in Workers, Begin(w) \/ Attempt(w) \/ Start(w) \/ PickNode(w) \/
             NodeReturns(w)
      PROVE  PanicExplained'
  BY <1>1, <1>6 DEF Begin, Attempt, Start, PickNode, NodeReturns, owner
<1>7. CASE StopNodeTwice
  <2>1. /\ target \in Nodes /\ fatal' = "closedTwice" /\ UNCHANGED <<target, raced>>
        /\ StopClosed(target) /\ nodeState[target] \in {nodeRunning, nodeHealthChecking}
    BY <1>7 DEF StopNodeTwice, StopClosed, nodeVars, Control, TypeOK
  <2>2. StopUndoneByRaceOnly
    BY QuietStops DEF Control, TypeOK
  <2> QED BY <2>1, <2>2 DEF PanicExplained, StopUndoneByRaceOnly
<1> QED
  BY <1>2, <1>3, <1>4, <1>5, <1>6, <1>7, InsideOrOuter DEF Outer, Owner, Stops, Dispatch
-----------------------------------------------------------------------------
(* The round robin *)

\* Behind depends on what the worker alone writes, while nobody disturbs it.
LEMMA CoveredSame ==
  ASSUME NEW x \in Workers, Covered(x), cpc'[x] = cpc[x] \/ cpc'[x] = "pick",
         UNCHANGED <<array, nodeIndex>>, wlen'[x] = wlen[x], start0'[x] = start0[x],
         tried'[x] = tried[x], previous'[x] = previous[x]
  PROVE  Covered(x)'
  BY DEF Covered, Behind

\* The slot that a worker picks is behind it afterwards.
LEMMA PickCovers ==
  ASSUME Control, Round, NEW w \in Workers, PickNode(w), alone[w]
  PROVE  Covered(w)'
<1>0. PICK i0 \in Nat : i0 = Wrap(w)
  BY WrapInSlots DEF PickNode
<1>1. /\ cpc[w] = "pick" /\ nodeIndex' = i0 + 1
      /\ UNCHANGED <<array, wlen, start0, previous>>
  BY <1>0 DEF PickNode
<1>2. /\ i0 \in Nat /\ i0 < wlen[w] /\ nodeIndex \in Nat /\ start0[w] \in Nat
      /\ wlen[w] \in Nat /\ tried \in [Workers -> SUBSET Nodes]
  BY <1>0, <1>1, WrapInSlots, NodeCount DEF Control, TypeOK
<1>3. tried[w] \subseteq tried'[w] /\ Behind(w, i0)'
  <2>1. CASE Skips(w, array[i0]) /\ tried' = tried
    BY <1>1, <2>1 DEF Skips, Behind
  <2>2. CASE tried' = [tried EXCEPT ![w] = @ \cup {array[i0]}]
    <3>1. tried'[w] = tried[w] \cup {array[i0]}
      BY <1>2, <2>2
    <3> QED BY <1>1, <3>1 DEF Behind
  <2> QED BY <1>0, <2>1, <2>2 DEF PickNode
<1>4. \A i : Behind(w, i) => Behind(w, i)'
  BY <1>1, <1>3 DEF Behind
<1>5. Covered(w)
  BY <1>1 DEF Round
<1>6. i0 = IF nodeIndex >= wlen[w] THEN 0 ELSE nodeIndex
  BY <1>0 DEF Wrap
<1>7. CASE nodeIndex < wlen[w]
  <2>0. i0 = nodeIndex
    BY <1>2, <1>6, <1>7
  <2>1. CASE /\ start0[w] <= nodeIndex
             /\ \A i \in 0..(wlen[w] - 1) : start0[w] <= i /\ i < nodeIndex => Behind(w, i)
    <3>1. \A i \in 0..(wlen'[w] - 1) : start0'[w] <= i /\ i < nodeIndex' => Behind(w, i)'
      BY <1>1, <1>2, <1>3, <1>4, <2>0, <2>1
    <3>2. start0'[w] <= nodeIndex' /\ start0'[w] < nodeIndex'
      BY <1>1, <1>2, <2>0, <2>1
    <3> QED BY <3>1, <3>2 DEF Covered
  <2>2. CASE \A i \in 0..(wlen[w] - 1) : start0[w] <= i \/ i < nodeIndex => Behind(w, i)
    <3>1. \A i \in 0..(wlen'[w] - 1) : start0'[w] <= i \/ i < nodeIndex' => Behind(w, i)'
      BY <1>1, <1>2, <1>3, <1>4, <2>0, <2>2
    <3> QED BY <3>1 DEF Covered
  <2> QED BY <1>5, <2>1, <2>2 DEF Covered
<1>8. CASE nodeIndex >= wlen[w]
  <2>0. i0 = 0
    BY <1>6, <1>8
  <2>1. \A i \in 0..(wlen[w] - 1) : start0[w] <= i => Behind(w, i)
    BY <1>2, <1>5, <1>8 DEF Covered
  <2>2. \A i \in 0..(wlen'[w] - 1) : start0'[w] <= i \/ i < nodeIndex' => Behind(w, i)'
    BY <1>1, <1>2, <1>3, <1>4, <2>0, <2>1
  <2> QED BY <2>2 DEF Covered
<1> QED
  BY <1>2, <1>7, <1>8

\* Nobody but a worker itself moves it on its round, unless it is told.
LEMMA RoundStep ==
  ASSUME Control, Round, Next
  PROVE  Round'
<1> SUFFICES ASSUME NEW x \in Workers, cpc'[x] \in {"pick", "in"}, alone'[x]
             PROVE  Covered(x)'
  BY DEF Round
<1>0. /\ cpc \in [Workers -> DispatchPC] /\ wlen \in [Workers -> 0..Cardinality(Nodes)]
      /\ start0 \in [Workers -> 0..Cardinality(Nodes)]
      /\ previous \in [Workers -> Nodes \cup {NoNode}]
      /\ tried \in [Workers -> SUBSET Nodes] /\ nodeIndex \in Nat
      /\ tries \in [Workers -> 0..Attempts] /\ alone \in [Workers -> BOOLEAN]
  BY NodeCount DEF Control, TypeOK
<1> USE DEF manager, dispatch, owner
<1>1. ASSUME alone'[x] = alone[x], cpc[x] \in {"pick", "in"},
             cpc'[x] = cpc[x] \/ cpc'[x] = "pick", UNCHANGED <<array, nodeIndex>>,
             wlen'[x] = wlen[x], start0'[x] = start0[x], tried'[x] = tried[x],
             previous'[x] = previous[x]
      PROVE  Covered(x)'
  BY <1>1, CoveredSame DEF Round
<1>2. CASE (Inside /\ UNCHANGED <<manager, dispatch, owner>>) \/ StartCluster \/ StartNode \/
           StartDone \/ StopCluster \/ StopLocks \/ Stops \/ Verify \/
           \E w \in Workers : PickNil(w)
  <2>1. UNCHANGED <<array, nodeIndex, cpc, tries, wlen, start0, previous, tried, alone>>
    BY <1>2 DEF StartCluster, StartNode, StartDone, StopCluster, StopLocks, Stops,
                StopNode, StopNodeDone, StopNodeFails, StopNodeTwice, Verify, PickNil
  <2> QED BY <1>1, <2>1
<1>3. ASSUME NEW W \in SUBSET Workers, x \in W, Disturb(W), cpc' = cpc PROVE FALSE
  BY <1>3 DEF Disturb
<1>4. CASE OthersPick \/ (\E n \in Nodes : AddNode(n)) \/ \E i \in Slots : RemoveNode(i)
  BY <1>3, <1>4 DEF OthersPick, AddNode, RemoveNode
<1>5. ASSUME NEW w \in Workers, Begin(w) \/ Attempt(w) PROVE Covered(x)'
  <2>1. /\ cpc'[w] \in {"start", "over"} /\ UNCHANGED <<array, nodeIndex, start0, tried, alone>>
        /\ x # w => cpc'[x] = cpc[x] /\ wlen'[x] = wlen[x] /\ previous'[x] = previous[x]
    BY <1>0, <1>5 DEF Begin, Attempt, CopyNodes, Over, Goto
  <2> QED BY <1>1, <2>1
<1>6. ASSUME NEW w \in Workers, NEW r, AfterAttempt(w, r), UNCHANGED <<array, nodeIndex>>
      PROVE  Covered(x)'
  <2>1. cpc'[w] \in {"attempt", "over"}
    BY <1>6, AfterAttemptNested DEF Control
  <2>2. x # w => /\ cpc'[x] = cpc[x] /\ wlen'[x] = wlen[x] /\ previous'[x] = previous[x]
                 /\ start0'[x] = start0[x] /\ tried'[x] = tried[x]
    BY <1>0, <1>6 DEF AfterAttempt, NodeManagerReturns, Over, Goto
  <2>3. x # w => alone'[x] = alone[x]
    BY <1>0, <1>6 DEF AfterAttempt, NodeManagerReturns
  <2>4. x # w
    BY <2>1
  <2>5. cpc[x] \in {"pick", "in"}
    BY <2>2, <2>4
  <2> QED BY <1>1, <1>6, <2>2, <2>3, <2>4, <2>5
<1>7. ASSUME NEW w \in Workers, Start(w) PROVE Covered(x)'
  <2>1. CASE AfterAttempt(w, Result(FALSE, TRUE))
    BY <1>6, <1>7, <2>1 DEF Start
  <2>2. CASE /\ start0' = [start0 EXCEPT ![w] = nodeIndex] /\ Goto(w, "pick")
             /\ UNCHANGED <<tries, wlen, previous, tried, alone>>
    <3>1. CASE x = w
      <4>1. start0'[x] = nodeIndex' /\ cpc'[x] = "pick" /\ nodeIndex' \in Nat
            /\ wlen'[x] \in Nat
        BY <1>0, <1>7, <2>2, <3>1, NodeCount DEF Start, Goto
      <4> QED BY <4>1 DEF Covered
    <3>2. CASE x # w
      BY <1>0, <1>1, <1>7, <2>2, <3>2 DEF Start, Goto
    <3> QED BY <3>1, <3>2
  <2> QED BY <1>7, <2>1, <2>2 DEF Start
<1>8. ASSUME NEW w \in Workers, PickNode(w) PROVE Covered(x)'
  <2>1. CASE x = w
    <3>1. alone[w]
      BY <1>8, <2>1 DEF PickNode, Disturb
    <3> QED BY <1>8, <2>1, <3>1, PickCovers
  <2>2. CASE x # w
    <3>1. cpc'[x] = cpc[x] /\ Disturb(Workers \ {w})
      BY <1>0, <1>8, <2>2 DEF PickNode, Goto
    <3>2. ~alone'[x]
      BY <2>2, <3>1 DEF Disturb
    <3> QED BY <3>2
  <2> QED BY <2>1, <2>2
<1>9. ASSUME NEW w \in Workers, NodeReturns(w) PROVE Covered(x)'
  <2>1. CASE AfterAttempt(w, result[w])
    BY <1>6, <1>9, <2>1 DEF NodeReturns
  <2>2. CASE Goto(w, "pick") /\ UNCHANGED <<tries, wlen, start0, previous, tried, alone>>
    <3>1. cpc'[x] = cpc[x] \/ (x = w /\ cpc[x] = "in" /\ cpc'[x] = "pick")
      BY <1>0, <1>9, <2>2 DEF NodeReturns, Goto
    <3> QED BY <1>1, <1>9, <2>2, <3>1 DEF NodeReturns
  <2> QED BY <1>9, <2>1, <2>2 DEF NodeReturns
<1> QED
  BY <1>2, <1>4, <1>5, <1>7, <1>8, <1>9, InsideOrOuter DEF Outer, Owner, Dispatch
-----------------------------------------------------------------------------
(* The properties *)

IndInv ==
  /\ Control /\ Started /\ Stopping /\ Gone /\ StopsQuietly
  /\ PanicExplained /\ Round

\* The inductive invariant holds at all times.
LEMMA Invariance == Spec => []IndInv
<1>1. Init => IndInv
  <2> SUFFICES ASSUME Init PROVE IndInv
    OBVIOUS
  <2>1. Control
    BY ControlInit
  <2>2. Started /\ Stopping /\ Gone
    BY NodeAssumption DEF Init, NodeInit, Started, On, Stopping, Gone, nodeCreated,
                          nodeShuttingDown, nodeShutdown
  <2>3. StopsQuietly
    BY QuietInit DEF Init
  <2>4. PanicExplained /\ Round
    BY DEF Init, PanicExplained, Round
  <2> QED BY <2>1, <2>2, <2>3, <2>4 DEF IndInv
<1>2. IndInv /\ [Next]_vars => IndInv'
  <2>1. IndInv /\ Next => IndInv'
    BY ControlStep, StartedStep, StoppingStep, GoneStep, QuietlyStep, PanicStep, RoundStep
    DEF IndInv
  <2>2. ASSUME IndInv, UNCHANGED vars PROVE IndInv'
    <3>1. Control'
      BY <2>2, ControlStep DEF IndInv
    <3>2. /\ UNCHANGED <<nodeState, stopped, raced, wpc, wnode, hpc, hnode, array, len>>
          /\ UNCHANGED <<nodeIndex, cpc, wlen, start0, previous, tried, alone, opc, pos>>
          /\ UNCHANGED <<target, fatal>>
      BY <2>2 DEF vars, nodeVars, caller, checker, manager, dispatch, owner
    <3>3. Started' /\ Stopping' /\ Gone'
      BY <2>2, <3>2 DEF IndInv, Started, On, Stopping, Stopped, Gone, Outside
    <3>4. PanicExplained' /\ Round'
      BY <2>2, <3>2 DEF IndInv, PanicExplained, Round, Covered, Behind
    <3>5. StopsQuietly'
      BY <2>2, QuietUnchanged DEF IndInv, vars
    <3> QED BY <3>1, <3>3, <3>4, <3>5 DEF IndInv
  <2> QED BY <2>1, <2>2
<1> QED
  BY <1>1, <1>2, PTL DEF Spec

\* Through any AddNode and RemoveNode, c.nodes holds its nodes once and no nil, and
\* no node that was started is left out of it without being stopped.
THEOREM NodesKept == Spec => []SliceWellFormed
<1>1. IndInv => SliceWellFormed
  BY DEF IndInv, Control, Slice, Gone, Outside, SliceWellFormed
<1> QED
  BY <1>1, Invariance, PTL

\* A command that ExecuteOnNode gives up, with nobody else moving the index, was
\* offered to every node but the one that is skipped.
THEOREM FullRound == Spec => []GivenUpAfterAll
<1>1. IndInv => GivenUpAfterAll
  <2> SUFFICES ASSUME IndInv, NEW w \in Workers, wpc[w] = "returned", GivesUp(w), alone[w],
                      NEW i \in 0..(wlen[w] - 1)
               PROVE  array[i] \in tried[w] \cup {previous[w]}
    BY DEF GivenUpAfterAll
  <2>1. cpc[w] = "in"
    BY DEF IndInv, Control, Nested
  <2>2. Covered(w)
    BY <2>1 DEF IndInv, Round
  <2>3. /\ start0[w] = nodeIndex /\ nodeIndex \in Nat /\ wlen[w] \in Nat
    BY NodeCount DEF GivesUp, IndInv, Control, TypeOK
  <2> QED BY <2>1, <2>2, <2>3 DEF Covered, Behind
<1> QED
  BY <1>1, Invariance, PTL

\* The panics outside of Node.execute have the causes that PanicExplained names and no
\* other: an emptied slot under a longer copy of c.nodes, a node that a race has
\* brought back, a node of c.nodes that was never started.
THEOREM DispatchPanics == Spec => []PanicExplained
<1>1. IndInv => PanicExplained
  BY DEF IndInv
<1> QED
  BY <1>1, Invariance, PTL
===============================================================================
