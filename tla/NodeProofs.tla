------------------------------ MODULE NodeProofs ------------------------------
(***************************************************************************)
(* Proofs of the safety properties of Node, for any number of nodes,       *)
(* workers and health checks.                                              *)
(***************************************************************************)
EXTENDS Node, TLAPS

\* A step of the nodes is one of these, whoever takes it.
NodeStep ==
  \/ \E n \in Nodes : start(n) \/ stopBegin(n) \/ stopFinish(n)
  \/ \E w \in Workers : (\E n \in Nodes : Call(w, n)) \/ Execute(w) \/ Taken(w)
  \/ \E h \in Checks : HealthCheck(h)

\* What execute returns.
LEMMA ResultType == \A e, f \in BOOLEAN : Result(e, f) \in Results
  BY Zenon DEF Result, Results

\* Nodes, workers and health checks stay what they are.
LEMMA NodeTypeStep ==
  ASSUME NodeTypeOK, NodeStep
  PROVE  NodeTypeOK'
<1> USE NodeAssumption, ResultType
    DEF NodeTypeOK, WorkerPC, CheckPC, StopPC, NoResult,
        nodeCreated, nodeRunning, nodeHealthChecking, nodeShuttingDown,
        nodeShutdown, caller, checker
<1>1. ASSUME NEW n \in Nodes, start(n) \/ stopBegin(n) \/ stopFinish(n)
      PROVE  NodeTypeOK'
  BY <1>1 DEF start, stopBegin, stopFinish
<1>2. ASSUME NEW w \in Workers, NEW n \in Nodes, Call(w, n) PROVE NodeTypeOK'
  BY <1>2 DEF Call, At
<1>3. ASSUME NEW w \in Workers, stateCheck(w) \/ isRunning(w) PROVE NodeTypeOK'
  BY <1>3 DEF stateCheck, isRunning, Returns, At
<1>4. ASSUME NEW w \in Workers, getFails(w) \/ connBreaks(w) PROVE NodeTypeOK'
  <2>1. /\ UNCHANGED <<nodeState, stopped, raced, wnode, hpc, hnode, panicked>>
        /\ wpc[w] # "out"
        /\ \E l \in {"hcSet", "returned"} : wpc' = [wpc EXCEPT ![w] = l]
    BY <1>4 DEF getFails, connBreaks, doHealthCheck, At
  <2>2. \E r \in Results : result' = [result EXCEPT ![w] = r]
    BY <1>4 DEF getFails, connBreaks
  <2>3. wpc' \in [Workers -> WorkerPC]
    BY <2>1
  <2>4. result' \in [Workers -> Results]
    BY <2>2
  <2>5. \A v \in Workers : wpc'[v] # "out" => wnode'[v] \in Nodes
    BY <2>1
  <2> QED BY <2>1, <2>3, <2>4, <2>5
<1>5. ASSUME NEW w \in Workers, getNil(w) PROVE NodeTypeOK'
  BY <1>5 DEF getNil
<1>6. ASSUME NEW w \in Workers, connExecutes(w) PROVE NodeTypeOK'
  BY <1>6 DEF connExecutes, Returns, At
<1>7. ASSUME NEW w \in Workers, NEW h \in Checks, doHealthCheckSet(w, h)
      PROVE  NodeTypeOK'
  BY <1>7 DEF doHealthCheckSet, At
<1>8. ASSUME NEW w \in Workers, Taken(w) PROVE NodeTypeOK'
  BY <1>8 DEF Taken, At
<1>9. ASSUME NEW h \in Checks, hcQuit(h) \/ hcDial(h) \/ hcPing(h) \/ hcFails(h)
      PROVE  NodeTypeOK'
  BY <1>9 DEF hcQuit, hcDial, hcPing, hcFails, ensureHealthCheckCanContinue, HcAt,
              HcEnds, hcUnchanged
<1>10. ASSUME NEW h \in Checks, hcSetRunning(h) PROVE NodeTypeOK'
  BY <1>10 DEF hcSetRunning, HcEnds
<1> QED
  BY <1>1, <1>2, <1>3, <1>4, <1>5, <1>6, <1>7, <1>8, <1>9, <1>10
  DEF NodeStep, Execute, HealthCheck

\* A step that leaves the nodes alone.
LEMMA NodeTypeSame ==
  ASSUME NodeTypeOK, UNCHANGED nodeVars
  PROVE  NodeTypeOK'
  BY DEF NodeTypeOK, nodeVars, caller, checker

\* The cluster is made of well-typed nodes.
LEMMA NodeTypeInit == NodeInit => NodeTypeOK
<1> SUFFICES ASSUME NodeInit PROVE NodeTypeOK
  OBVIOUS
<1>1. nodeState \in [Nodes -> nodeCreated..nodeShutdown] /\ stopped \in [Nodes -> StopPC]
  BY DEF NodeInit, StopPC, nodeCreated, nodeShutdown
<1>2. result \in [Workers -> Results]
  BY ResultType, Zenon DEF NodeInit, NoResult
<1>3. /\ wpc \in [Workers -> WorkerPC] /\ wnode \in [Workers -> Nodes \cup {NoNode}]
      /\ \A w \in Workers : wpc[w] # "out" => wnode[w] \in Nodes
  BY DEF NodeInit, WorkerPC
<1>4. /\ hpc \in [Checks -> CheckPC] /\ hnode \in [Checks -> Nodes \cup {NoNode}]
      /\ \A h \in Checks : hpc[h] # "off" => hnode[h] \in Nodes
  BY DEF NodeInit, CheckPC
<1>5. panicked \in BOOLEAN /\ raced \subseteq Nodes
  BY DEF NodeInit
<1> QED
  BY <1>1, <1>2, <1>3, <1>4, <1>5 DEF NodeTypeOK

\* The variables of the nodes, their workers and health checks keep their types: a
\* goroutine inside of execute or healthCheck is on a node.
THEOREM NodeTypeCorrect == NodeSpec => []NodeTypeOK
<1>1. NodeTypeOK /\ [NodeNext]_nodeVars => NodeTypeOK'
  BY NodeTypeStep, NodeTypeSame DEF NodeNext, NodeStep
<1> QED
  BY <1>1, NodeTypeInit, PTL DEF NodeSpec

\* A health check ends only when the node is stopped, or is not health checking.
LEMMA CheckedStep ==
  ASSUME NodeTypeOK, CheckedWhileHealthChecking, NodeStep
  PROVE  CheckedWhileHealthChecking'
<1> USE DEF NodeTypeOK, CheckedWhileHealthChecking, Active, StopClosed, StopPC, CheckPC,
            nodeCreated, nodeRunning, nodeHealthChecking, nodeShuttingDown,
            nodeShutdown, caller, checker
<1>1. ASSUME NEW n \in Nodes, start(n) \/ stopBegin(n) \/ stopFinish(n)
      PROVE  CheckedWhileHealthChecking'
  BY <1>1 DEF start, stopBegin, stopFinish
<1>2. ASSUME UNCHANGED <<nodeState, stopped, hpc, hnode>>
      PROVE  CheckedWhileHealthChecking'
  BY <1>2
<1>3. ASSUME NEW w \in Workers, NEW h \in Checks, doHealthCheckSet(w, h)
      PROVE  CheckedWhileHealthChecking'
  <2> SUFFICES ASSUME NEW n \in Nodes, nodeState'[n] = nodeHealthChecking,
                      ~StopClosed(n)'
               PROVE  Active(n)' # {}
    OBVIOUS
  <2>1. CASE n = wnode[w]
    <3>1. h \in Active(n)'
      BY <1>3, <2>1 DEF doHealthCheckSet
    <3> QED BY <3>1
  <2>2. CASE n # wnode[w]
    <3>1. nodeState[n] = nodeHealthChecking /\ ~StopClosed(n)
      BY <1>3, <2>2 DEF doHealthCheckSet
    <3>2. PICK g \in Checks : hpc[g] # "off" /\ hnode[g] = n
      BY <3>1
    <3>3. g \in Active(n)'
      BY <1>3, <3>2 DEF doHealthCheckSet
    <3> QED BY <3>3
  <2> QED BY <2>1, <2>2
<1>4. ASSUME NEW h \in Checks, hpc[h] # "off", UNCHANGED <<nodeState, stopped>>,
             HcEnds(h), StopClosed(hnode[h]) \/ nodeState[hnode[h]] # nodeHealthChecking
      PROVE  CheckedWhileHealthChecking'
  <2> SUFFICES ASSUME NEW n \in Nodes, nodeState[n] = nodeHealthChecking, ~StopClosed(n)
               PROVE  Active(n)' # {}
    BY <1>4
  <2>1. PICK g \in Checks : hpc[g] # "off" /\ hnode[g] = n
    OBVIOUS
  <2>2. g # h
    BY <1>4, <2>1
  <2>3. g \in Active(n)'
    BY <1>4, <2>1, <2>2 DEF HcEnds
  <2> QED BY <2>3
<1>5. ASSUME NEW h \in Checks, UNCHANGED <<nodeState, stopped>>, NEW l \in CheckPC \ {"off"},
             HcAt(h, l)
      PROVE  CheckedWhileHealthChecking'
  <2> SUFFICES ASSUME NEW n \in Nodes, nodeState[n] = nodeHealthChecking, ~StopClosed(n)
               PROVE  Active(n)' # {}
    BY <1>5
  <2>1. PICK g \in Checks : hpc[g] # "off" /\ hnode[g] = n
    OBVIOUS
  <2>2. g \in Active(n)'
    BY <1>5, <2>1 DEF HcAt
  <2> QED BY <2>2
<1>6. ASSUME NEW h \in Checks, hcQuit(h) PROVE CheckedWhileHealthChecking'
  BY <1>4, <1>6 DEF hcQuit, hcUnchanged
<1>7. ASSUME NEW h \in Checks, hcDial(h) PROVE CheckedWhileHealthChecking'
  BY <1>4, <1>5, <1>7 DEF hcDial, ensureHealthCheckCanContinue, hcUnchanged
<1>8. ASSUME NEW h \in Checks, hcPing(h) PROVE CheckedWhileHealthChecking'
  BY <1>4, <1>5, <1>8 DEF hcPing, ensureHealthCheckCanContinue, hcUnchanged
<1>9. ASSUME NEW h \in Checks, hcFails(h) PROVE CheckedWhileHealthChecking'
  BY <1>4, <1>5, <1>9 DEF hcFails, ensureHealthCheckCanContinue, hcUnchanged
<1>10. ASSUME NEW h \in Checks, hcSetRunning(h) PROVE CheckedWhileHealthChecking'
  <2> SUFFICES ASSUME NEW n \in Nodes, nodeState'[n] = nodeHealthChecking,
                      ~StopClosed(n)'
               PROVE  Active(n)' # {}
    OBVIOUS
  <2>1. n # hnode[h] /\ nodeState[n] = nodeHealthChecking /\ ~StopClosed(n)
    BY <1>10 DEF hcSetRunning
  <2>2. PICK g \in Checks : hpc[g] # "off" /\ hnode[g] = n
    BY <2>1
  <2>3. g \in Active(n)'
    BY <1>10, <2>1, <2>2 DEF hcSetRunning, HcEnds
  <2> QED BY <2>3
<1>11. ASSUME NEW w \in Workers, (\E n \in Nodes : Call(w, n)) \/ stateCheck(w) \/
              isRunning(w) \/ getFails(w) \/ connBreaks(w) \/ getNil(w) \/
              connExecutes(w) \/ Taken(w)
       PROVE  UNCHANGED <<nodeState, stopped, hpc, hnode>>
  BY <1>11 DEF Call, stateCheck, isRunning, getFails, connBreaks, getNil,
               connExecutes, Taken
<1> QED
  BY <1>1, <1>2, <1>3, <1>6, <1>7, <1>8, <1>9, <1>10, <1>11
  DEF NodeStep, Execute, HealthCheck

\* However many workers start health checks of a node and whichever of them ends
\* first, a node that is health checking and not stopped has one under way.
THEOREM AlwaysChecked == NodeSpec => []CheckedWhileHealthChecking
<1>1. NodeInit => CheckedWhileHealthChecking
  BY DEF NodeInit, CheckedWhileHealthChecking, nodeCreated, nodeHealthChecking
<1>2. NodeTypeOK /\ CheckedWhileHealthChecking /\ [NodeNext]_nodeVars
        => CheckedWhileHealthChecking'
  <2>1. CheckedWhileHealthChecking /\ UNCHANGED nodeVars => CheckedWhileHealthChecking'
    BY DEF CheckedWhileHealthChecking, Active, StopClosed, nodeVars, checker
  <2> QED BY <2>1, CheckedStep DEF NodeNext, NodeStep
<1> QED
  BY <1>1, <1>2, NodeTypeCorrect, PTL DEF NodeSpec

\* What stop has begun is never taken back in stopped.
LEMMA StopClosedStays ==
  ASSUME NodeTypeOK, [NodeNext]_nodeVars, NEW n \in Nodes, StopClosed(n)
  PROVE  StopClosed(n)'
<1> USE DEF NodeTypeOK, StopClosed, nodeVars, caller, checker
<1>1. ASSUME NEW m \in Nodes, start(m) \/ stopBegin(m) \/ stopFinish(m)
      PROVE  StopClosed(n)'
  BY <1>1 DEF start, stopBegin, stopFinish
<1>2. ASSUME NEW w \in Workers, (\E m \in Nodes : Call(w, m)) \/ Execute(w) \/ Taken(w)
      PROVE  stopped' = stopped
  BY <1>2 DEF Call, Taken, Execute, stateCheck, isRunning, getFails, connBreaks, getNil,
              connExecutes, doHealthCheckSet
<1>3. ASSUME NEW h \in Checks, HealthCheck(h) PROVE stopped' = stopped
  BY <1>3 DEF HealthCheck, hcQuit, hcDial, hcPing, hcFails, hcSetRunning, hcUnchanged
<1> QED
  BY <1>1, <1>2, <1>3 DEF NodeNext

\* A worker panics in execute only after stop has begun on some node.
THEOREM NilConn == NodeSpec => []NilConnExplained
<1>1. NodeInit => NilConnExplained
  BY DEF NodeInit, NilConnExplained
<1>2. NodeTypeOK /\ NilConnExplained /\ [NodeNext]_nodeVars => NilConnExplained'
  <2> SUFFICES ASSUME NodeTypeOK, NilConnExplained, [NodeNext]_nodeVars, panicked'
               PROVE  \E n \in Nodes : StopClosed(n)'
    BY DEF NilConnExplained
  <2>1. CASE panicked
    BY <2>1, StopClosedStays DEF NilConnExplained
  <2>2. CASE ~panicked
    <3>1. PICK w \in Workers : getNil(w)
      BY <2>2
      DEF NodeNext, nodeVars, start, stopBegin, stopFinish, Call, Taken, Execute,
          stateCheck, isRunning, getFails, connBreaks, connExecutes,
          doHealthCheckSet, HealthCheck, hcQuit, hcDial, hcPing, hcFails,
          hcSetRunning, hcUnchanged
    <3>2. wnode[w] \in Nodes
      BY <3>1 DEF getNil, StopClosed
    <3> QED BY <3>1, <3>2, StopClosedStays DEF getNil
  <2> QED BY <2>1, <2>2
<1> QED
  BY <1>1, <1>2, NodeTypeCorrect, PTL DEF NodeSpec

\* What stop leaves behind for a node that nobody is about to set: it stays on its
\* way to shutdown, so no goroutine gets past a look at its state any more.
Quiet(n) ==
  StopClosed(n) /\ n \notin raced =>
    /\ nodeState[n] \in {nodeShuttingDown, nodeShutdown}
    /\ \A w \in Workers : ~(wpc[w] = "hcSet" /\ wnode[w] = n)
    /\ \A h \in Checks : ~(hpc[h] = "set" /\ hnode[h] = n)
StopsQuietly == \A n \in Nodes : Quiet(n)

\* A step leaves what matters to the node alone.
LEMMA QuietSame ==
  ASSUME NEW n \in Nodes, Quiet(n), UNCHANGED <<stopped, raced>>,
         nodeState'[n] = nodeState[n],
         \A w \in Workers : wpc'[w] = "hcSet" /\ wnode'[w] = n =>
                             wpc[w] = "hcSet" /\ wnode[w] = n,
         \A h \in Checks : hpc'[h] = "set" /\ hnode'[h] = n =>
                            hpc[h] = "set" /\ hnode[h] = n
  PROVE  Quiet(n)'
  BY DEF Quiet, StopClosed

\* No step lets a goroutine past its look at the state of a stopped node.
LEMMA QuietStep ==
  ASSUME NodeTypeOK, StopsQuietly, NodeStep, NEW n \in Nodes
  PROVE  Quiet(n)'
<1>0. Quiet(n)
  BY DEF StopsQuietly
<1> USE DEF NodeTypeOK, nodeCreated, nodeRunning, nodeHealthChecking,
            nodeShuttingDown, nodeShutdown, caller, checker
<1>1. ASSUME NEW m \in Nodes, start(m) PROVE Quiet(n)'
  BY <1>0, <1>1 DEF start, Quiet, StopClosed
<1>2. ASSUME NEW m \in Nodes, stopBegin(m) PROVE Quiet(n)'
  <2>1. CASE m = n
    <3>1. CASE AboutToSet(n) = {}
      <4>1. /\ \A w \in Workers : ~(wpc[w] = "hcSet" /\ wnode[w] = n)
            /\ \A h \in Checks : ~(hpc[h] = "set" /\ hnode[h] = n)
        BY <3>1 DEF AboutToSet
      <4> QED BY <1>2, <2>1, <4>1 DEF stopBegin, Quiet
    <3>2. CASE AboutToSet(n) # {}
      BY <1>2, <2>1, <3>2 DEF stopBegin, Quiet
    <3> QED BY <3>1, <3>2
  <2>2. CASE m # n
    <3>1. /\ stopped'[n] = stopped[n] /\ nodeState'[n] = nodeState[n]
          /\ n \notin raced' => n \notin raced
          /\ UNCHANGED <<wpc, wnode, hpc, hnode>>
      BY <1>2, <2>2 DEF stopBegin
    <3> QED BY <1>0, <3>1 DEF Quiet, StopClosed
  <2> QED BY <2>1, <2>2
<1>3. ASSUME NEW m \in Nodes, stopFinish(m) PROVE Quiet(n)'
  BY <1>0, <1>3 DEF stopFinish, Quiet, StopClosed
<1>4. ASSUME NEW w \in Workers, (\E m \in Nodes : Call(w, m)) \/ stateCheck(w) \/
             isRunning(w) \/ connExecutes(w) \/ Taken(w) \/ getNil(w)
      PROVE  Quiet(n)'
  <2>1. /\ UNCHANGED <<nodeState, stopped, raced, hpc, hnode>>
        /\ \A v \in Workers : wpc'[v] = "hcSet" => wpc[v] = "hcSet" /\ wnode'[v] = wnode[v]
    BY <1>4 DEF Call, stateCheck, isRunning, connExecutes, Taken, getNil, Returns, At
  <2> QED BY <1>0, <2>1, QuietSame
<1>5. ASSUME NEW w \in Workers, getFails(w) \/ connBreaks(w) PROVE Quiet(n)'
  <2>1. /\ UNCHANGED <<nodeState, stopped, raced, wnode, hpc, hnode>>
        /\ \A v \in Workers : wpc'[v] = "hcSet" =>
             wpc[v] = "hcSet" \/ nodeState[wnode[v]] < nodeHealthChecking
    BY <1>5 DEF getFails, connBreaks, doHealthCheck, At
  <2>2. CASE nodeState[n] < nodeHealthChecking
    BY <1>0, <2>1, <2>2 DEF Quiet, StopClosed
  <2>3. CASE ~(nodeState[n] < nodeHealthChecking)
    BY <1>0, <2>1, <2>3, QuietSame
  <2> QED BY <2>2, <2>3
<1>6. ASSUME NEW w \in Workers, NEW h \in Checks, doHealthCheckSet(w, h)
      PROVE  Quiet(n)'
  <2>1. /\ wpc[w] = "hcSet" /\ UNCHANGED <<stopped, raced, wnode>>
        /\ n # wnode[w] => nodeState'[n] = nodeState[n]
        /\ \A v \in Workers : wpc'[v] = "hcSet" => wpc[v] = "hcSet"
        /\ \A g \in Checks : hpc'[g] = "set" => hpc[g] = "set" /\ hnode'[g] = hnode[g]
    BY <1>6 DEF doHealthCheckSet, At
  <2>2. CASE wnode[w] = n
    BY <1>0, <2>1, <2>2 DEF Quiet, StopClosed
  <2>3. CASE wnode[w] # n
    BY <1>0, <2>1, <2>3, QuietSame
  <2> QED BY <2>2, <2>3
<1>7. ASSUME NEW h \in Checks, hcQuit(h) \/ hcDial(h) \/ hcPing(h) \/ hcFails(h)
      PROVE  Quiet(n)'
  <2>1. /\ UNCHANGED <<nodeState, stopped, raced, wpc, wnode>>
        /\ \A g \in Checks : hpc'[g] = "set" =>
             /\ hnode'[g] = hnode[g]
             /\ hpc[g] = "set" \/ nodeState[hnode[g]] = nodeHealthChecking
    BY <1>7 DEF hcQuit, hcDial, hcPing, hcFails, ensureHealthCheckCanContinue, HcAt,
                HcEnds, hcUnchanged
  <2>2. CASE nodeState[n] = nodeHealthChecking
    BY <1>0, <2>1, <2>2 DEF Quiet, StopClosed
  <2>3. CASE nodeState[n] # nodeHealthChecking
    BY <1>0, <2>1, <2>3, QuietSame
  <2> QED BY <2>2, <2>3
<1>8. ASSUME NEW h \in Checks, hcSetRunning(h) PROVE Quiet(n)'
  <2>1. /\ hpc[h] = "set" /\ UNCHANGED <<stopped, raced, wpc, wnode>>
        /\ n # hnode[h] => nodeState'[n] = nodeState[n]
        /\ \A g \in Checks : hpc'[g] = "set" => hpc[g] = "set" /\ hnode'[g] = hnode[g]
    BY <1>8 DEF hcSetRunning, HcEnds
  <2>2. CASE hnode[h] = n
    BY <1>0, <2>1, <2>2 DEF Quiet, StopClosed
  <2>3. CASE hnode[h] # n
    BY <1>0, <2>1, <2>3, QuietSame
  <2> QED BY <2>2, <2>3
<1> QED
  BY <1>1, <1>2, <1>3, <1>4, <1>5, <1>6, <1>7, <1>8
  DEF NodeStep, Execute, HealthCheck

\* A step that leaves the nodes alone.
LEMMA QuietUnchanged ==
  ASSUME StopsQuietly, UNCHANGED nodeVars
  PROVE  StopsQuietly'
  BY DEF StopsQuietly, Quiet, StopClosed, nodeVars, caller, checker

\* Nothing is stopped at first.
LEMMA QuietInit == NodeInit => StopsQuietly
  BY DEF NodeInit, StopsQuietly, Quiet, StopClosed

\* A stopped node is in service only if the stop came between the look and the set
\* of some goroutine.
LEMMA QuietStops ==
  ASSUME NodeTypeOK, StopsQuietly
  PROVE  StopUndoneByRaceOnly
  BY DEF StopsQuietly, Quiet, StopUndoneByRaceOnly, nodeRunning, nodeHealthChecking,
         nodeShuttingDown, nodeShutdown

\* stop is undone only by a goroutine that had looked at the state of the node, and
\* not set it yet, when stop began.
THEOREM StopUndone == NodeSpec => []StopUndoneByRaceOnly
<1>1. NodeTypeOK /\ StopsQuietly /\ [NodeNext]_nodeVars => StopsQuietly'
  <2>1. NodeTypeOK /\ StopsQuietly /\ NodeStep => StopsQuietly'
    BY QuietStep DEF StopsQuietly
  <2> QED BY <2>1, QuietUnchanged DEF NodeNext, NodeStep
<1>2. NodeTypeOK /\ StopsQuietly => StopUndoneByRaceOnly
  BY QuietStops
<1> QED
  BY <1>1, <1>2, QuietInit, NodeTypeCorrect, PTL DEF NodeSpec
===============================================================================
