----------------------- MODULE ConnectionManagerProofs -----------------------
(***************************************************************************)
(* Proofs of the safety properties of ConnectionManager, for any number of *)
(* workers and connections and any limits that newConnectionManager takes. *)
(*                                                                         *)
(* The inductive invariant IndInv has four layers, proved in this order:   *)
(*   1. types and control: who holds which mutex at which step, and that   *)
(*      an iteration never outruns the queue;                              *)
(*   2. the limit, because the counter only grows under the mutex;         *)
(*   3. the pool: a connection is in one place and its socket is open;     *)
(*   4. the counter is the size of the pool.                               *)
(* QueueHasRoom follows from it by counting; NoLeakWhileRunning and        *)
(* InUseNotClosed are each one more inductive step on top of it.           *)
(***************************************************************************)
EXTENDS ConnectionManager, FiniteSetTheorems, TLAPS

\* The width of connectionCounter, kept opaque in the proofs below.
LEMMA CounterWidth == MaxUint16 \in Nat
  BY DEF MaxUint16

\* What a dequeue leaves of a non-empty queue.
LEMMA HeadTail ==
  ASSUME NEW S, NEW s \in Seq(S), Len(s) > 0
  PROVE  /\ Head(s) \in S /\ Head(s) = s[1]
         /\ Tail(s) \in Seq(S) /\ Len(Tail(s)) = Len(s) - 1
         /\ \A i \in 1..Len(s) - 1 : Tail(s)[i] = s[i + 1]
  OBVIOUS

\* What an enqueue makes of the queue.
LEMMA Appended ==
  ASSUME NEW S, NEW s \in Seq(S), NEW e \in S
  PROVE  /\ Append(s, e) \in Seq(S) /\ Len(Append(s, e)) = Len(s) + 1
         /\ Append(s, e)[Len(s) + 1] = e
         /\ \A i \in 1..Len(s) : Append(s, e)[i] = s[i]
  OBVIOUS

\* newConnectionManager builds a well-typed manager.
LEMMA TypeInit == Init => TypeOK
<1> SUFFICES ASSUME Init PROVE TypeOK
  OBVIOUS
<1>1. PcOK
  BY ProcAssumption DEF Init, PcOK, Procs, Owner, Expirer,
                        WorkerPC, ExpirerPC, OwnerPC
<1>2. rest \in [Procs -> 0..MaxConnections]
  BY CounterWidth, LimitAssumption DEF Init
<1>3. q \in Seq(Conns) /\ Len(q) <= MaxConnections
  BY CounterWidth, LimitAssumption DEF Init
<1>4. conn \in [Conns -> {"none", "active", "inactive"}]
  BY DEF Init
<1>5. hand \in [Procs -> Conns \cup {NoConn}]
  BY DEF Init
<1>6. qOpen \in BOOLEAN /\ stopClosed \in BOOLEAN /\ tick \in BOOLEAN
  BY DEF Init
<1>7. cmState = 0 /\ counter = 0
  BY DEF Init, cmCreated
<1>8. /\ qLock \in Procs \cup {NoProc} /\ cmLock \in Procs \cup {NoProc}
      /\ panicked \in {"no", "nilConnection", "closedQueue"}
  BY DEF Init
<1> QED
  BY <1>1, <1>2, <1>3, <1>4, <1>5, <1>6, <1>7, <1>8, CounterWidth
  DEF TypeOK, cmCreated, cmShutdown

\* A new manager satisfies the control part of the invariant.
LEMMA ControlInit == Init => ControlInv
  BY ConnAssumption, ProcAssumption, LimitAssumption, CounterWidth
  DEF Init, ControlInv, LockDiscipline, StartAlone,
      IterationWithinQueue, Lifecycle, HoldsWhileWorking, Holding,
      Procs, Owner, Expirer,
      cmCreated, cmRunning, cmShutdown

\* No goroutine leaves its own program.
LEMMA PcStep ==
  ASSUME PcOK, [Next]_vars
  PROVE  PcOK'
<1> USE ProcAssumption
    DEF PcOK, Procs, Owner, Expirer, WorkerPC, ExpirerPC, OwnerPC, Goto
<1>1. CASE OwnerNext
  BY <1>1 DEF OwnerNext, StartDial, StartDialFails, StartDone, StopBegin,
      StopCloseChan, StopCount, StopLock, StopQueue, StopDrain, StopDestroy,
      StopFinish
<1>2. CASE ExpirerNext
  BY <1>2 DEF ExpirerNext, ExpirerNextElement, ExpirerQuit, ExpirerTick,
      ExpirerSweep, ExpirerVisit, ExpirerDecide, ExpirerExpire,
      ExpirerRequeue
<1>3. ASSUME NEW w \in Workers, WorkerNext(w)
      PROVE  PcOK'
  BY <1>3 DEF WorkerNext, WorkerBegin, GetIterate, GetTake, GetDiscard,
      GetDiscardCount, GetDiscardClose, CreateCheck, CreateLock,
      DialSucceeds, DialFails, UseKeeps, UseFails, PutCheck, PutEnqueue,
      RemoveCheck, CountOff, Close
<1>4. CASE Tick
  BY <1>4 DEF Tick
<1>5. CASE UNCHANGED vars
  BY <1>5 DEF vars
<1> QED
  BY <1>1, <1>2, <1>3, <1>4, <1>5 DEF Next

\* Every action keeps the types.  The control part is needed where a queue is
\* dequeued (it is not empty) or a held connection is sent (it is not nil).
LEMMA TypeStep ==
  ASSUME TypeOK, ControlInv, [Next]_vars
  PROVE  TypeOK'
<1>0. PcOK'
  BY PcStep DEF TypeOK
<1> USE <1>0, CounterWidth, ProcAssumption, LimitAssumption
    DEF TypeOK, Procs, Owner, Expirer,
        cmCreated, cmRunning, cmShuttingDown, cmShutdown, shared
<1>1. ASSUME NEW c \in Conns, StartDial(c) PROVE TypeOK'
  BY <1>1, Appended DEF StartDial, incremented, ControlInv, StartAlone
<1>2. ASSUME StartDialFails PROVE TypeOK'
  BY <1>2 DEF StartDialFails
<1>3. ASSUME StartDone PROVE TypeOK'
  BY <1>3 DEF StartDone
<1>4. ASSUME StopBegin PROVE TypeOK'
  BY <1>4 DEF StopBegin
<1>5. ASSUME StopCloseChan PROVE TypeOK'
  BY <1>5 DEF StopCloseChan
<1>6. ASSUME StopCount PROVE TypeOK'
  BY <1>6 DEF StopCount
<1>7. ASSUME StopLock PROVE TypeOK'
  BY <1>7 DEF StopLock
<1>8. ASSUME StopQueue PROVE TypeOK'
  BY <1>8 DEF StopQueue
<1>9. ASSUME StopDrain PROVE TypeOK'
  <2>1. Len(q) > 0
    BY <1>9 DEF StopDrain, ControlInv, IterationWithinQueue
  <2> QED
    BY <1>9, <2>1, HeadTail
    DEF StopDrain, decremented, ControlInv, IterationWithinQueue
<1>10. ASSUME StopDestroy PROVE TypeOK'
  BY <1>10 DEF StopDestroy
<1>11. ASSUME StopFinish PROVE TypeOK'
  BY <1>11 DEF StopFinish
<1>12. ASSUME Tick PROVE TypeOK'
  BY <1>12 DEF Tick
<1>13. ASSUME ExpirerQuit PROVE TypeOK'
  BY <1>13 DEF ExpirerQuit
<1>14. ASSUME ExpirerTick PROVE TypeOK'
  BY <1>14 DEF ExpirerTick
<1>15. ASSUME ExpirerSweep PROVE TypeOK'
  BY <1>15 DEF ExpirerSweep
<1>16. ASSUME ExpirerVisit PROVE TypeOK'
  <2>1. Len(q) > 0 /\ rest[Expirer] > 0
    BY <1>16 DEF ExpirerVisit, ControlInv, IterationWithinQueue
  <2>2. Head(q) \in Conns /\ q' \in Seq(Conns) /\ Len(q') <= MaxConnections
    BY <1>16, <2>1, HeadTail DEF ExpirerVisit
  <2>3. hand' \in [Procs -> Conns \cup {NoConn}]
    BY <1>16, <2>2 DEF ExpirerVisit
  <2>4. rest' \in [Procs -> 0..MaxConnections]
    BY <1>16, <2>1 DEF ExpirerVisit
  <2> QED BY <1>16, <2>2, <2>3, <2>4 DEF ExpirerVisit
<1>17. ASSUME NEW b \in BOOLEAN, ExpirerDecide(b) PROVE TypeOK'
  BY <1>17 DEF ExpirerDecide
<1>18. ASSUME ExpirerExpire PROVE TypeOK'
  <2>1. conn' \in [Conns -> {"none", "active", "inactive"}]
    BY <1>18 DEF ExpirerExpire, CloseHand
  <2>2. hand' \in [Procs -> Conns \cup {NoConn}]
    BY <1>18 DEF ExpirerExpire, CloseHand
  <2> QED
    BY <1>18, <2>1, <2>2
    DEF ExpirerExpire, ExpirerNextElement, decremented
<1>19. ASSUME ExpirerRequeue PROVE TypeOK'
  <2>1. hand[Expirer] \in Conns
    BY <1>19 DEF ExpirerRequeue, ControlInv, HoldsWhileWorking, Holding
  <2>2. q' \in Seq(Conns) /\ Len(q') <= MaxConnections
    <3>1. CASE Len(q) = MaxConnections \/ ~qOpen
      BY <1>19, <3>1 DEF ExpirerRequeue, SendHand
    <3>2. CASE Len(q) # MaxConnections /\ qOpen
      <4>1. q' = Append(q, hand[Expirer])
        BY <1>19, <3>2 DEF ExpirerRequeue, SendHand
      <4> QED BY <2>1, <3>2, <4>1
    <3> QED BY <3>1, <3>2
  <2>3. hand' \in [Procs -> Conns \cup {NoConn}]
    BY <1>19 DEF ExpirerRequeue, SendHand
  <2>4. panicked' \in {"no", "nilConnection", "closedQueue"}
    BY <1>19 DEF ExpirerRequeue, SendHand
  <2> QED BY <1>19, <2>2, <2>3, <2>4 DEF ExpirerRequeue, ExpirerNextElement
<1>20. ASSUME NEW w \in Workers, WorkerBegin(w) PROVE TypeOK'
  BY <1>20 DEF WorkerBegin
<1>21. ASSUME NEW w \in Workers, GetIterate(w) PROVE TypeOK'
  BY <1>21 DEF GetIterate
<1>22. ASSUME NEW w \in Workers, GetTake(w) PROVE TypeOK'
  <2>1. Len(q) > 0
    BY <1>22 DEF GetTake, ControlInv, IterationWithinQueue
  <2> QED
    BY <1>22, <2>1, HeadTail
    DEF GetTake, ControlInv, IterationWithinQueue
<1>23. ASSUME NEW w \in Workers, GetDiscard(w) PROVE TypeOK'
  <2>1. Len(q) > 0 /\ rest[w] > 0
    BY <1>23 DEF GetDiscard, ControlInv, IterationWithinQueue
  <2>2. Head(q) \in Conns /\ q' \in Seq(Conns) /\ Len(q') <= MaxConnections
    BY <1>23, <2>1, HeadTail DEF GetDiscard
  <2>3. hand' \in [Procs -> Conns \cup {NoConn}]
    BY <1>23, <2>2 DEF GetDiscard
  <2>4. qLock' \in Procs \cup {NoProc} /\ rest' \in [Procs -> 0..MaxConnections]
    BY <1>23, <2>1 DEF GetDiscard
  <2> QED BY <1>23, <2>2, <2>3, <2>4 DEF GetDiscard
<1>24. ASSUME NEW w \in Workers, GetDiscardCount(w) PROVE TypeOK'
  BY <1>24 DEF GetDiscardCount, decremented
<1>25. ASSUME NEW w \in Workers, GetDiscardClose(w) PROVE TypeOK'
  <2>1. conn' \in [Conns -> {"none", "active", "inactive"}]
    BY <1>25 DEF GetDiscardClose, CloseHand
  <2>2. hand' \in [Procs -> Conns \cup {NoConn}]
    BY <1>25 DEF GetDiscardClose, CloseHand
  <2> QED BY <1>25, <2>1, <2>2 DEF GetDiscardClose
<1>26. ASSUME NEW w \in Workers, CreateCheck(w) PROVE TypeOK'
  <2>1. panicked' \in {"no", "nilConnection", "closedQueue"}
    BY <1>26 DEF CreateCheck
  <2> QED BY <1>26, <2>1 DEF CreateCheck
<1>27. ASSUME NEW w \in Workers, CreateLock(w) PROVE TypeOK'
  BY <1>27 DEF CreateLock
<1>28. ASSUME NEW w \in Workers, NEW c \in Conns, DialSucceeds(w, c)
       PROVE  TypeOK'
  BY <1>28 DEF DialSucceeds, incremented
<1>29. ASSUME NEW w \in Workers, DialFails(w) PROVE TypeOK'
  BY <1>29 DEF DialFails
<1>30. ASSUME NEW w \in Workers, NEW st \in {"active", "inactive"},
              UseKeeps(w, st)
       PROVE  TypeOK'
  BY <1>30 DEF UseKeeps
<1>31. ASSUME NEW w \in Workers, UseFails(w) PROVE TypeOK'
  BY <1>31 DEF UseFails
<1>32. ASSUME NEW w \in Workers, PutCheck(w) PROVE TypeOK'
  BY <1>32 DEF PutCheck
<1>33. ASSUME NEW w \in Workers, PutEnqueue(w) PROVE TypeOK'
  <2>1. hand[w] \in Conns
    BY <1>33 DEF PutEnqueue, ControlInv, HoldsWhileWorking, Holding
  <2>2. q' \in Seq(Conns) /\ Len(q') <= MaxConnections
    <3>1. CASE Len(q) = MaxConnections \/ ~qOpen
      BY <1>33, <3>1 DEF PutEnqueue, SendHand
    <3>2. CASE Len(q) # MaxConnections /\ qOpen
      <4>1. q' = Append(q, hand[w])
        BY <1>33, <3>2 DEF PutEnqueue, SendHand
      <4> QED BY <2>1, <3>2, <4>1
    <3> QED BY <3>1, <3>2
  <2>3. hand' \in [Procs -> Conns \cup {NoConn}]
    BY <1>33 DEF PutEnqueue, SendHand
  <2>4. panicked' \in {"no", "nilConnection", "closedQueue"}
    BY <1>33 DEF PutEnqueue, SendHand
  <2> QED BY <1>33, <2>2, <2>3, <2>4 DEF PutEnqueue
<1>34. ASSUME NEW w \in Workers, RemoveCheck(w) PROVE TypeOK'
  BY <1>34 DEF RemoveCheck
<1>35. ASSUME NEW w \in Workers, CountOff(w) PROVE TypeOK'
  BY <1>35 DEF CountOff, decremented
<1>36. ASSUME NEW w \in Workers, Close(w) PROVE TypeOK'
  <2>1. conn' \in [Conns -> {"none", "active", "inactive"}]
    BY <1>36 DEF Close, CloseHand
  <2>2. hand' \in [Procs -> Conns \cup {NoConn}]
    BY <1>36 DEF Close, CloseHand
  <2> QED BY <1>36, <2>1, <2>2 DEF Close
<1>37. CASE UNCHANGED vars
  BY <1>37 DEF vars
<1> HIDE DEF TypeOK, shared
<1> QED
  BY <1>1, <1>2, <1>3, <1>4, <1>5, <1>6, <1>7, <1>8, <1>9, <1>10, <1>11,
     <1>12, <1>13, <1>14, <1>15, <1>16, <1>17, <1>18, <1>19, <1>20, <1>21,
     <1>22, <1>23, <1>24, <1>25, <1>26, <1>27, <1>28, <1>29, <1>30, <1>31,
     <1>32, <1>33, <1>34, <1>35, <1>36, <1>37
  DEF Next, OwnerNext, ExpirerNext, WorkerNext

\* Every action keeps the mutex discipline, the bounds of the iterations, the
\* lifecycle and the steps at which a goroutine holds a connection.
LEMMA ControlStep ==
  ASSUME TypeOK, TypeOK', ControlInv, [Next]_vars
  PROVE  ControlInv'
<1> USE ConnAssumption, ProcAssumption, LimitAssumption, CounterWidth
    DEF TypeOK, PcOK, ControlInv, LockDiscipline, StartAlone,
        IterationWithinQueue, HoldsWhileWorking, Lifecycle, Holding,
        Procs, Owner, Expirer, Goto, shared,
        cmCreated, cmRunning, cmShuttingDown, cmShutdown
<1>1. ASSUME NEW c \in Conns, StartDial(c) PROVE ControlInv'
  BY <1>1 DEF StartDial, incremented
<1>2. ASSUME StartDialFails PROVE ControlInv'
  BY <1>2 DEF StartDialFails
<1>3. ASSUME StartDone PROVE ControlInv'
  BY <1>3 DEF StartDone
<1>4. ASSUME StopBegin PROVE ControlInv'
  BY <1>4 DEF StopBegin
<1>5. ASSUME StopCloseChan PROVE ControlInv'
  BY <1>5 DEF StopCloseChan
<1>6. ASSUME StopCount PROVE ControlInv'
  BY <1>6 DEF StopCount
<1>7. ASSUME StopLock PROVE ControlInv'
  BY <1>7 DEF StopLock
<1>8. ASSUME StopQueue PROVE ControlInv'
  BY <1>8 DEF StopQueue
<1>9. ASSUME StopDrain PROVE ControlInv'
  BY <1>9 DEF StopDrain, decremented
<1>10. ASSUME StopDestroy PROVE ControlInv'
  BY <1>10 DEF StopDestroy
<1>11. ASSUME StopFinish PROVE ControlInv'
  BY <1>11 DEF StopFinish
<1>12. ASSUME Tick PROVE ControlInv'
  BY <1>12 DEF Tick
<1>13. ASSUME ExpirerQuit PROVE ControlInv'
  BY <1>13 DEF ExpirerQuit
<1>14. ASSUME ExpirerTick PROVE ControlInv'
  BY <1>14 DEF ExpirerTick
<1>15. ASSUME ExpirerSweep PROVE ControlInv'
  BY <1>15 DEF ExpirerSweep
<1>16. ASSUME ExpirerVisit PROVE ControlInv'
  <2>1. /\ Len(q) > 0 /\ Len(q') = Len(q) - 1
        /\ Head(q) \in Conns /\ hand' = [hand EXCEPT ![Expirer] = Head(q)]
    BY <1>16, HeadTail DEF ExpirerVisit
  <2>2. /\ pc[Expirer] = "visit" /\ pc'[Expirer] \in {"wantCm", "requeue"}
        /\ rest'[Expirer] <= rest[Expirer] - 1
        /\ \A p \in Procs \ {Expirer} : pc'[p] = pc[p] /\ rest'[p] = rest[p]
        /\ UNCHANGED <<cmState, counter, qOpen, qLock, cmLock>>
    BY <1>16 DEF ExpirerVisit
  <2>3. LockDiscipline' /\ StartAlone' /\ Lifecycle'
    BY <2>1, <2>2
  <2>4. IterationWithinQueue'
    <3>1. /\ pc[Owner] # "drain"
          /\ \A w \in Workers : pc[w] \notin {"scan", "scanCount", "scanClose"}
      BY <2>2
    <3>2. rest[Expirer] \in 1..Len(q) /\ rest'[Expirer] \in Nat
      BY <2>2
    <3>3. rest'[Expirer] <= Len(q') /\ Len(q') < MaxConnections
      BY <2>1, <2>2, <3>2
    <3> QED BY <2>2, <3>1, <3>3
  <2>5. HoldsWhileWorking'
    BY <2>1, <2>2
  <2> QED BY <2>3, <2>4, <2>5
<1>17. ASSUME NEW b \in BOOLEAN, ExpirerDecide(b) PROVE ControlInv'
  BY <1>17 DEF ExpirerDecide
<1>18. ASSUME ExpirerExpire PROVE ControlInv'
  BY <1>18 DEF ExpirerExpire, CloseHand, decremented, ExpirerNextElement
<1>19. ASSUME ExpirerRequeue PROVE ControlInv'
  BY <1>19 DEF ExpirerRequeue, SendHand, ExpirerNextElement
<1>20. ASSUME NEW w \in Workers, WorkerBegin(w) PROVE ControlInv'
  BY <1>20 DEF WorkerBegin
<1>21. ASSUME NEW w \in Workers, GetIterate(w) PROVE ControlInv'
  BY <1>21 DEF GetIterate
<1>22. ASSUME NEW w \in Workers, GetTake(w) PROVE ControlInv'
  BY <1>22 DEF GetTake
<1>23. ASSUME NEW w \in Workers, GetDiscard(w) PROVE ControlInv'
  <2>1. CASE isStateLessThan(cmShuttingDown)
    <3>1. /\ Len(q) > 0 /\ Len(q') = Len(q) - 1
          /\ Head(q) \in Conns /\ hand' = [hand EXCEPT ![w] = Head(q)]
      BY <1>23, <2>1, HeadTail DEF GetDiscard
    <3>2. /\ pc[w] = "scan" /\ pc'[w] = "scanCount"
          /\ rest'[w] = rest[w] - 1
          /\ \A p \in Procs \ {w} : pc'[p] = pc[p] /\ rest'[p] = rest[p]
          /\ UNCHANGED <<cmState, counter, qOpen, qLock, cmLock>>
      BY <1>23, <2>1 DEF GetDiscard
    <3>3. LockDiscipline' /\ StartAlone' /\ Lifecycle'
      BY <3>1, <3>2
    <3>4. IterationWithinQueue'
      <4>1. /\ pc[Owner] # "drain"
            /\ pc[Expirer] \notin {"visit", "wantCm", "expire", "requeue"}
            /\ \A x \in Workers \ {w} :
                 pc[x] \notin {"scan", "scanCount", "scanClose"}
        BY <3>2
      <4>2. rest'[w] <= Len(q')
        BY <3>1, <3>2
      <4>3. /\ pc'[Owner] # "drain"
            /\ pc'[Expirer] \notin {"visit", "wantCm", "expire", "requeue"}
            /\ \A x \in Workers \ {w} :
                 pc'[x] \notin {"scan", "scanCount", "scanClose"}
        BY <3>2, <4>1
      <4> QED BY <3>2, <4>2, <4>3
    <3>5. HoldsWhileWorking'
      BY <3>1, <3>2
    <3> QED BY <3>3, <3>4, <3>5
  <2>2. CASE ~isStateLessThan(cmShuttingDown) /\ rest[w] = 1
    BY <1>23, <2>2 DEF GetDiscard
  <2>3. CASE ~isStateLessThan(cmShuttingDown) /\ rest[w] # 1
    BY <1>23, <2>3 DEF GetDiscard
  <2> QED BY <2>1, <2>2, <2>3
<1>24. ASSUME NEW w \in Workers, GetDiscardCount(w) PROVE ControlInv'
  BY <1>24 DEF GetDiscardCount, decremented
<1>25. ASSUME NEW w \in Workers, GetDiscardClose(w) PROVE ControlInv'
  BY <1>25 DEF GetDiscardClose, CloseHand
<1>26. ASSUME NEW w \in Workers, CreateCheck(w) PROVE ControlInv'
  BY <1>26 DEF CreateCheck
<1>27. ASSUME NEW w \in Workers, CreateLock(w) PROVE ControlInv'
  <2>1. /\ pc[w] = "createLock" /\ pc'[w] \in {"idle", "dial"}
        /\ \A p \in Procs \ {w} : pc'[p] = pc[p]
        /\ cmLock = NoProc /\ cmLock' \in {NoProc, w}
        /\ pc'[w] = "dial" => cmLock' = w
    BY <1>27 DEF CreateLock
  <2>2. /\ UNCHANGED <<cmState, counter, q, qOpen, qLock, hand, rest>>
        /\ w # Owner /\ w # Expirer
    BY <1>27 DEF CreateLock
  <2>3. LockDiscipline'
    BY <2>1, <2>2
  <2>4. StartAlone' /\ IterationWithinQueue'
    BY <2>1, <2>2
  <2>5. Lifecycle'
    BY <2>1, <2>2
  <2>6. HoldsWhileWorking'
    BY <2>1, <2>2
  <2> QED BY <2>3, <2>4, <2>5, <2>6
<1>28. ASSUME NEW w \in Workers, NEW c \in Conns, DialSucceeds(w, c)
       PROVE  ControlInv'
  BY <1>28 DEF DialSucceeds, incremented
<1>29. ASSUME NEW w \in Workers, DialFails(w) PROVE ControlInv'
  BY <1>29 DEF DialFails
<1>30. ASSUME NEW w \in Workers, NEW st \in {"active", "inactive"},
              UseKeeps(w, st)
       PROVE  ControlInv'
  BY <1>30 DEF UseKeeps
<1>31. ASSUME NEW w \in Workers, UseFails(w) PROVE ControlInv'
  BY <1>31 DEF UseFails
<1>32. ASSUME NEW w \in Workers, PutCheck(w) PROVE ControlInv'
  BY <1>32 DEF PutCheck
<1>33. ASSUME NEW w \in Workers, PutEnqueue(w) PROVE ControlInv'
  BY <1>33 DEF PutEnqueue, SendHand
<1>34. ASSUME NEW w \in Workers, RemoveCheck(w) PROVE ControlInv'
  <2>1. CASE isStateLessThan(cmShuttingDown)
    BY <1>34, <2>1 DEF RemoveCheck
  <2>2. CASE ~isStateLessThan(cmShuttingDown)
    BY <1>34, <2>2 DEF RemoveCheck
  <2> QED BY <2>1, <2>2
<1>35. ASSUME NEW w \in Workers, CountOff(w) PROVE ControlInv'
  BY <1>35 DEF CountOff, decremented
<1>36. ASSUME NEW w \in Workers, Close(w) PROVE ControlInv'
  BY <1>36 DEF Close, CloseHand
<1>37. CASE UNCHANGED vars
  BY <1>37 DEF vars
<1> HIDE DEF TypeOK, ControlInv, shared
<1> QED
  BY <1>1, <1>2, <1>3, <1>4, <1>5, <1>6, <1>7, <1>8, <1>9, <1>10, <1>11,
     <1>12, <1>13, <1>14, <1>15, <1>16, <1>17, <1>18, <1>19, <1>20, <1>21,
     <1>22, <1>23, <1>24, <1>25, <1>26, <1>27, <1>28, <1>29, <1>30, <1>31,
     <1>32, <1>33, <1>34, <1>35, <1>36, <1>37
  DEF Next, OwnerNext, ExpirerNext, WorkerNext

\* The types of the connection manager, and the control structure of start,
\* stop, get, put, remove and manageConnections, hold in every behaviour.
THEOREM TypeCorrect == Spec => [](TypeOK /\ ControlInv)
<1>1. Init => TypeOK /\ ControlInv
  BY TypeInit, ControlInit
<1>2. TypeOK /\ ControlInv /\ [Next]_vars => (TypeOK /\ ControlInv)'
  BY TypeStep, ControlStep
<1> QED
  BY <1>1, <1>2, PTL DEF Spec

\* Steps that leave queue, hands and sockets alone keep the pool consistent.
LEMMA PoolSame ==
  ASSUME PoolInv, conn' = conn, q' = q, hand' = hand
  PROVE  PoolInv'
  BY DEF PoolInv, HeldAndQueuedOpen, ExclusiveConnection, Open, Queued

\* iterate dequeues a connection: a goroutine takes it, or it is dropped.
LEMMA PoolTake ==
  ASSUME TypeOK, PoolInv, NEW p \in Procs, hand[p] = NoConn, Len(q) > 0,
         conn' = conn, q' = Tail(q),
         \/ hand' = [hand EXCEPT ![p] = Head(q)]
         \/ hand' = hand
  PROVE  PoolInv'
<1> USE ConnAssumption, HeadTail
    DEF TypeOK, PoolInv, HeldAndQueuedOpen, ExclusiveConnection, Open, Queued
<1>1. CASE hand' = hand
  BY <1>1
<1>2. CASE hand' = [hand EXCEPT ![p] = Head(q)]
  <2>1. HeldAndQueuedOpen'
    BY <1>2
  <2>2. ExclusiveConnection'
    BY <1>2
  <2> QED BY <2>1, <2>2
<1> QED BY <1>1, <1>2

\* A goroutine gives its connection back, or lets go of it.
LEMMA PoolReturn ==
  ASSUME TypeOK, PoolInv, NEW p \in Procs, hand[p] \in Conns,
         conn' = conn, q' = q \/ q' = Append(q, hand[p]),
         hand' = [hand EXCEPT ![p] = NoConn]
  PROVE  PoolInv'
<1> USE ConnAssumption, Appended
    DEF TypeOK, PoolInv, HeldAndQueuedOpen, ExclusiveConnection, Open, Queued
<1>1. CASE q' = q
  BY <1>1
<1>2. CASE q' = Append(q, hand[p])
  <2>1. HeldAndQueuedOpen'
    BY <1>2
  <2>2. ExclusiveConnection'
    BY <1>2
  <2> QED BY <2>1, <2>2
<1> QED BY <1>1, <1>2

\* A goroutine closes the connection it holds.
LEMMA PoolClose ==
  ASSUME TypeOK, PoolInv, NEW p \in Procs, hand[p] \in Conns, q' = q,
         conn' = [conn EXCEPT ![hand[p]] = "none"],
         hand' = [hand EXCEPT ![p] = NoConn]
  PROVE  PoolInv'
  BY ConnAssumption
  DEF TypeOK, PoolInv, HeldAndQueuedOpen, ExclusiveConnection, Open, Queued

\* stop closes the connection at the head of the queue.
LEMMA PoolDrain ==
  ASSUME TypeOK, PoolInv, Len(q) > 0, q' = Tail(q), hand' = hand,
         conn' = [conn EXCEPT ![Head(q)] = "none"]
  PROVE  PoolInv'
  BY ConnAssumption, HeadTail
  DEF TypeOK, PoolInv, HeldAndQueuedOpen, ExclusiveConnection, Open, Queued

\* A new connection goes to the queue (start) or to a goroutine (create).
LEMMA PoolDial ==
  ASSUME TypeOK, PoolInv, NEW c \in Conns, conn[c] = "none",
         conn' = [conn EXCEPT ![c] = "active"],
         \/ q' = Append(q, c) /\ hand' = hand
         \/ q' = q /\ \E p \in Procs : hand' = [hand EXCEPT ![p] = c]
  PROVE  PoolInv'
<1> USE ConnAssumption, Appended
    DEF TypeOK, PoolInv, HeldAndQueuedOpen, ExclusiveConnection, Open, Queued
<1>1. CASE q' = Append(q, c) /\ hand' = hand
  BY <1>1
<1>2. CASE q' = q /\ \E p \in Procs : hand' = [hand EXCEPT ![p] = c]
  BY <1>2
<1> QED BY <1>1, <1>2

\* Only create, with the manager's mutex held, and start raise the counter; so
\* the limit that create checked cannot be overrun before its increment.
LEMMA LimitStep ==
  ASSUME TypeOK, ControlInv, LimitHolds, [Next]_vars
  PROVE  LimitHolds'
<1> USE LimitAssumption, ProcAssumption, CounterWidth
    DEF TypeOK, PcOK, ControlInv, LockDiscipline, StartAlone, LimitHolds,
        Procs, Owner, Expirer, Goto, shared
<1>1. ASSUME NEW c \in Conns, StartDial(c) PROVE LimitHolds'
  BY <1>1 DEF StartDial, incremented
<1>2. ASSUME StartDialFails PROVE LimitHolds'
  BY <1>2 DEF StartDialFails
<1>3. ASSUME StartDone PROVE LimitHolds'
  BY <1>3 DEF StartDone
<1>4. ASSUME StopBegin PROVE LimitHolds'
  BY <1>4 DEF StopBegin
<1>5. ASSUME StopCloseChan PROVE LimitHolds'
  BY <1>5 DEF StopCloseChan
<1>6. ASSUME StopCount PROVE LimitHolds'
  BY <1>6 DEF StopCount
<1>7. ASSUME StopLock PROVE LimitHolds'
  BY <1>7 DEF StopLock
<1>8. ASSUME StopQueue PROVE LimitHolds'
  BY <1>8 DEF StopQueue
<1>9. ASSUME StopDrain PROVE LimitHolds'
  BY <1>9 DEF StopDrain, decremented
<1>10. ASSUME StopDestroy PROVE LimitHolds'
  BY <1>10 DEF StopDestroy
<1>11. ASSUME StopFinish PROVE LimitHolds'
  BY <1>11 DEF StopFinish
<1>12. ASSUME Tick PROVE LimitHolds'
  BY <1>12 DEF Tick
<1>13. ASSUME ExpirerQuit PROVE LimitHolds'
  BY <1>13 DEF ExpirerQuit
<1>14. ASSUME ExpirerTick PROVE LimitHolds'
  BY <1>14 DEF ExpirerTick
<1>15. ASSUME ExpirerSweep PROVE LimitHolds'
  BY <1>15 DEF ExpirerSweep
<1>16. ASSUME ExpirerVisit PROVE LimitHolds'
  BY <1>16 DEF ExpirerVisit, isStateLessThan
<1>17. ASSUME NEW b \in BOOLEAN, ExpirerDecide(b) PROVE LimitHolds'
  BY <1>17 DEF ExpirerDecide
<1>18. ASSUME ExpirerExpire PROVE LimitHolds'
  BY <1>18 DEF ExpirerExpire, CloseHand, decremented, ExpirerNextElement
<1>19. ASSUME ExpirerRequeue PROVE LimitHolds'
  BY <1>19 DEF ExpirerRequeue, SendHand, ExpirerNextElement
<1>20. ASSUME NEW w \in Workers, WorkerBegin(w) PROVE LimitHolds'
  BY <1>20 DEF WorkerBegin
<1>21. ASSUME NEW w \in Workers, GetIterate(w) PROVE LimitHolds'
  BY <1>21 DEF GetIterate
<1>22. ASSUME NEW w \in Workers, GetTake(w) PROVE LimitHolds'
  BY <1>22 DEF GetTake
<1>23. ASSUME NEW w \in Workers, GetDiscard(w) PROVE LimitHolds'
  BY <1>23 DEF GetDiscard, isStateLessThan
<1>24. ASSUME NEW w \in Workers, GetDiscardCount(w) PROVE LimitHolds'
  BY <1>24 DEF GetDiscardCount, decremented
<1>25. ASSUME NEW w \in Workers, GetDiscardClose(w) PROVE LimitHolds'
  BY <1>25 DEF GetDiscardClose, CloseHand
<1>26. ASSUME NEW w \in Workers, CreateCheck(w) PROVE LimitHolds'
  BY <1>26 DEF CreateCheck
<1>27. ASSUME NEW w \in Workers, CreateLock(w) PROVE LimitHolds'
  BY <1>27 DEF CreateLock, LimitReached
<1>28. ASSUME NEW w \in Workers, NEW c \in Conns, DialSucceeds(w, c)
       PROVE  LimitHolds'
  BY <1>28 DEF DialSucceeds, incremented
<1>29. ASSUME NEW w \in Workers, DialFails(w) PROVE LimitHolds'
  BY <1>29 DEF DialFails
<1>30. ASSUME NEW w \in Workers, NEW st \in {"active", "inactive"},
              UseKeeps(w, st)
       PROVE  LimitHolds'
  BY <1>30 DEF UseKeeps
<1>31. ASSUME NEW w \in Workers, UseFails(w) PROVE LimitHolds'
  BY <1>31 DEF UseFails
<1>32. ASSUME NEW w \in Workers, PutCheck(w) PROVE LimitHolds'
  BY <1>32 DEF PutCheck
<1>33. ASSUME NEW w \in Workers, PutEnqueue(w) PROVE LimitHolds'
  BY <1>33 DEF PutEnqueue, SendHand
<1>34. ASSUME NEW w \in Workers, RemoveCheck(w) PROVE LimitHolds'
  BY <1>34 DEF RemoveCheck
<1>35. ASSUME NEW w \in Workers, CountOff(w) PROVE LimitHolds'
  BY <1>35 DEF CountOff, decremented
<1>36. ASSUME NEW w \in Workers, Close(w) PROVE LimitHolds'
  BY <1>36 DEF Close, CloseHand
<1>37. CASE UNCHANGED vars
  BY <1>37 DEF vars
<1> HIDE DEF TypeOK, ControlInv, LimitHolds, shared
<1> QED
  BY <1>1, <1>2, <1>3, <1>4, <1>5, <1>6, <1>7, <1>8, <1>9, <1>10, <1>11,
     <1>12, <1>13, <1>14, <1>15, <1>16, <1>17, <1>18, <1>19, <1>20, <1>21,
     <1>22, <1>23, <1>24, <1>25, <1>26, <1>27, <1>28, <1>29, <1>30, <1>31,
     <1>32, <1>33, <1>34, <1>35, <1>36, <1>37
  DEF Next, OwnerNext, ExpirerNext, WorkerNext

\* Every action keeps each connection in one place, with its socket open.
LEMMA PoolStep ==
  ASSUME TypeOK, ControlInv, PoolInv, [Next]_vars
  PROVE  PoolInv'
<1> USE DEF Procs, shared
<1>1. ASSUME NEW c \in Conns, StartDial(c) PROVE PoolInv'
  BY <1>1, PoolDial DEF StartDial
<1>2. CASE StopDrain
  <2>1. Len(q) > 0
    BY <1>2 DEF StopDrain, ControlInv, IterationWithinQueue, TypeOK
  <2> QED BY <1>2, <2>1, PoolDrain DEF StopDrain
<1>3. CASE ExpirerVisit
  <2>1. Len(q) > 0
    BY <1>3 DEF ExpirerVisit, ControlInv, IterationWithinQueue, TypeOK
  <2>2. hand[Expirer] = NoConn
    BY <1>3 DEF ExpirerVisit, ControlInv, HoldsWhileWorking, Holding
  <2> QED BY <1>3, <2>1, <2>2, PoolTake DEF ExpirerVisit
<1>4. CASE ExpirerExpire
  <2>1. hand[Expirer] \in Conns
    BY <1>4 DEF ExpirerExpire, ControlInv, HoldsWhileWorking, Holding, TypeOK
  <2> QED BY <1>4, <2>1, PoolClose DEF ExpirerExpire, CloseHand
<1>5. CASE ExpirerRequeue
  <2>1. hand[Expirer] \in Conns
    BY <1>5 DEF ExpirerRequeue, ControlInv, HoldsWhileWorking, Holding, TypeOK
  <2> QED BY <1>5, <2>1, PoolReturn DEF ExpirerRequeue, SendHand
<1>6. ASSUME NEW w \in Workers, GetTake(w) PROVE PoolInv'
  <2>1. Len(q) > 0
    BY <1>6 DEF GetTake, ControlInv, IterationWithinQueue, TypeOK
  <2>2. hand[w] = NoConn
    BY <1>6 DEF GetTake, ControlInv, HoldsWhileWorking, Holding
  <2> QED BY <1>6, <2>1, <2>2, PoolTake DEF GetTake
<1>7. ASSUME NEW w \in Workers, GetDiscard(w) PROVE PoolInv'
  <2>1. Len(q) > 0
    BY <1>7 DEF GetDiscard, ControlInv, IterationWithinQueue, TypeOK
  <2>2. hand[w] = NoConn
    BY <1>7 DEF GetDiscard, ControlInv, HoldsWhileWorking, Holding
  <2> QED BY <1>7, <2>1, <2>2, PoolTake DEF GetDiscard
<1>8. ASSUME NEW w \in Workers, GetDiscardClose(w) PROVE PoolInv'
  <2>1. hand[w] \in Conns
    BY <1>8 DEF GetDiscardClose, ControlInv, HoldsWhileWorking, Holding, TypeOK
  <2> QED BY <1>8, <2>1, PoolClose DEF GetDiscardClose, CloseHand
<1>9. ASSUME NEW w \in Workers, NEW c \in Conns, DialSucceeds(w, c)
      PROVE  PoolInv'
  BY <1>9, PoolDial DEF DialSucceeds
<1>10. ASSUME NEW w \in Workers, NEW st \in {"active", "inactive"},
              UseKeeps(w, st)
       PROVE  PoolInv'
  BY <1>10
  DEF UseKeeps, TypeOK, ControlInv, HoldsWhileWorking, Holding, PoolInv,
      HeldAndQueuedOpen, ExclusiveConnection, Open, Queued
<1>11. ASSUME NEW w \in Workers, PutEnqueue(w) PROVE PoolInv'
  <2>1. hand[w] \in Conns
    BY <1>11 DEF PutEnqueue, ControlInv, HoldsWhileWorking, Holding, TypeOK
  <2> QED BY <1>11, <2>1, PoolReturn DEF PutEnqueue, SendHand
<1>12. ASSUME NEW w \in Workers, RemoveCheck(w) PROVE PoolInv'
  <2>1. hand[w] \in Conns
    BY <1>12 DEF RemoveCheck, ControlInv, HoldsWhileWorking, Holding, TypeOK
  <2> QED BY <1>12, <2>1, PoolReturn, PoolSame DEF RemoveCheck
<1>13. ASSUME NEW w \in Workers, Close(w) PROVE PoolInv'
  <2>1. hand[w] \in Conns
    BY <1>13 DEF Close, ControlInv, HoldsWhileWorking, Holding, TypeOK
  <2> QED BY <1>13, <2>1, PoolClose DEF Close, CloseHand
<1>14. CASE StartDialFails \/ StartDone \/ StopBegin \/ StopCloseChan \/
            StopCount \/ StopLock \/ StopQueue \/ StopDestroy \/
            StopFinish \/ Tick \/ ExpirerQuit \/ ExpirerTick \/
            ExpirerSweep \/ \E b \in BOOLEAN : ExpirerDecide(b)
            \/ UNCHANGED vars
  BY <1>14, PoolSame DEF vars, ExpirerDecide, StartDialFails, StartDone,
      StopBegin, StopCloseChan, StopCount, StopLock, StopQueue, StopDestroy,
      StopFinish, Tick, ExpirerQuit, ExpirerTick, ExpirerSweep
<1>15. ASSUME NEW w \in Workers,
              WorkerBegin(w) \/ GetIterate(w) \/ GetDiscardCount(w) \/
              CreateCheck(w) \/ CreateLock(w) \/
              DialFails(w) \/ UseFails(w) \/ PutCheck(w) \/
              CountOff(w)
       PROVE  PoolInv'
  BY <1>15, PoolSame DEF WorkerBegin, GetIterate, GetDiscardCount,
      CreateCheck, CreateLock, DialFails, UseFails, PutCheck, CountOff
<1> QED
  BY <1>1, <1>2, <1>3, <1>4, <1>5, <1>6, <1>7, <1>8, <1>9, <1>10, <1>11,
     <1>12, <1>13, <1>14, <1>15
  DEF Next, OwnerNext, ExpirerNext, WorkerNext

\* The pool is a finite set, so counting makes sense.
LEMMA PooledFinite == IsFiniteSet(Pooled)
  BY ConnAssumption, FS_Subset DEF Pooled, Open

\* Neither the counter nor the pool changes.
LEMMA CountSame ==
  ASSUME CounterMatchesPool, counter' = counter, Pooled' = Pooled
  PROVE  CounterMatchesPool'
  BY DEF CounterMatchesPool

\* A dialled connection is counted.
LEMMA CountDial ==
  ASSUME TypeOK, CounterMatchesPool, counter < MaxUint16,
         counter' = incremented,
         NEW c, c \notin Pooled, Pooled' = Pooled \cup {c}
  PROVE  CounterMatchesPool'
  BY PooledFinite, FS_AddElement, CounterWidth
  DEF CounterMatchesPool, TypeOK, incremented

\* A connection that leaves the pool is counted off.
LEMMA CountOffOne ==
  ASSUME TypeOK, CounterMatchesPool, counter' = decremented,
         NEW c, c \in Pooled, Pooled' = Pooled \ {c}
  PROVE  CounterMatchesPool'
<1>1. Cardinality(Pooled \ {c}) = Cardinality(Pooled) - 1
  BY PooledFinite, FS_RemoveElement
<1>2. Cardinality(Pooled) # 0
  BY PooledFinite, FS_EmptySet
<1> QED
  BY <1>1, <1>2, CounterWidth DEF CounterMatchesPool, TypeOK, decremented

\* A connection that is about to be closed is open, not queued, and held by no
\* other goroutine.
LEMMA ClosingApart ==
  ASSUME TypeOK, HoldsWhileWorking, PoolInv
  PROVE  /\ Closing \subseteq Open
         /\ \A i \in 1..Len(q) : q[i] \in Pooled
         /\ \A p \in Procs : /\ hand[p] # NoConn
                             /\ p \in Workers =>
                                  pc[p] \notin {"scanClose", "close"}
                             => hand[p] \in Pooled
  BY ProcAssumption
  DEF HoldsWhileWorking, Holding, PoolInv, HeldAndQueuedOpen,
      ExclusiveConnection, Queued, Closing, Pooled, Procs

\* start adds the connection that it dials to the pool.
LEMMA StartDialPool ==
  ASSUME TypeOK, ControlInv, PoolInv, NEW c \in Conns, StartDial(c)
  PROVE  Pooled' = Pooled \cup {c} /\ c \notin Pooled
<1>1. Open' = Open \cup {c} /\ c \notin Open
  BY DEF StartDial, Open, TypeOK
<1>2. Closing' = Closing
  BY DEF StartDial, Closing
<1> QED
  BY <1>1, <1>2, ClosingApart DEF Pooled, ControlInv

\* create adds the connection that it dials to the pool.
LEMMA DialPool ==
  ASSUME TypeOK, ControlInv, PoolInv, NEW w \in Workers, NEW c \in Conns,
         DialSucceeds(w, c)
  PROVE  Pooled' = Pooled \cup {c} /\ c \notin Pooled
<1>1. Open' = Open \cup {c} /\ c \notin Open
  BY DEF DialSucceeds, Open, TypeOK
<1>2. Closing' = Closing
  BY DEF DialSucceeds, Closing, TypeOK, PcOK, Goto, Procs
<1> QED
  BY <1>1, <1>2, ClosingApart DEF Pooled, ControlInv

\* stop takes the head of the queue out of the pool.
LEMMA DrainPool ==
  ASSUME TypeOK, ControlInv, PoolInv, StopDrain
  PROVE  /\ Head(q) \in Pooled /\ Head(q) \in Queued
         /\ Pooled' = Pooled \ {Head(q)}
<1>1. Len(q) > 0
  BY DEF StopDrain, ControlInv, IterationWithinQueue, TypeOK
<1>2. Head(q) \in Pooled /\ Head(q) \in Queued
  BY <1>1, HeadTail, ClosingApart DEF TypeOK, ControlInv, Queued
<1>3. Open' = Open \ {Head(q)}
  BY DEF StopDrain, Open, TypeOK
<1>4. Closing' = Closing
  BY ProcAssumption
  DEF StopDrain, Closing, TypeOK, PcOK, Goto, Procs, Owner, Expirer
<1> QED
  BY <1>2, <1>3, <1>4 DEF Pooled

\* The expirer takes the connection that it holds out of the pool.
LEMMA ExpirePool ==
  ASSUME TypeOK, ControlInv, PoolInv, ExpirerExpire
  PROVE  /\ hand[Expirer] \in Pooled
         /\ Pooled' = Pooled \ {hand[Expirer]}
<1> USE ProcAssumption DEF TypeOK, PcOK, Goto, Procs, Owner, Expirer
<1>1. hand[Expirer] \in Pooled
  BY ClosingApart DEF ExpirerExpire, ControlInv, HoldsWhileWorking, Holding
<1>2. Open' = Open \ {hand[Expirer]}
  BY DEF ExpirerExpire, CloseHand, Open
<1>3. Closing' = Closing
  BY DEF ExpirerExpire, CloseHand, ExpirerNextElement, Closing
<1> QED
  BY <1>1, <1>2, <1>3 DEF Pooled

\* A worker that counts its connection off takes it out of the pool.
LEMMA CountOffPool ==
  ASSUME TypeOK, ControlInv, PoolInv, NEW w \in Workers,
         GetDiscardCount(w) \/ CountOff(w)
  PROVE  hand[w] \in Pooled /\ Pooled' = Pooled \ {hand[w]}
<1> USE DEF TypeOK, PcOK, Goto, Procs
<1>1. hand[w] \in Pooled
  BY ClosingApart
  DEF GetDiscardCount, CountOff, ControlInv, HoldsWhileWorking, Holding
<1>2. Open' = Open
  BY DEF GetDiscardCount, CountOff, Open
<1>3. Closing' = Closing \cup {hand[w]}
  <2>1. hand' = hand /\ \A x \in Workers \ {w} : pc'[x] = pc[x]
    BY DEF GetDiscardCount, CountOff
  <2>2. /\ pc[w] \notin {"scanClose", "close"}
        /\ pc'[w] \in {"scanClose", "close"}
    BY DEF GetDiscardCount, CountOff
  <2> QED BY <2>1, <2>2 DEF Closing
<1> QED
  BY <1>1, <1>2, <1>3 DEF Pooled

\* A connection that is closed after it was counted off has left the pool.
LEMMA ClosePool ==
  ASSUME TypeOK, ControlInv, PoolInv, NEW w \in Workers,
         GetDiscardClose(w) \/ Close(w)
  PROVE  Pooled' = Pooled
<1> USE DEF TypeOK, PcOK, Goto, Procs
<1>1. hand[w] \in Closing /\ hand[w] \in Conns
  BY DEF GetDiscardClose, Close, Closing, ControlInv, HoldsWhileWorking,
         Holding
<1>2. Open' = Open \ {hand[w]}
  BY DEF GetDiscardClose, Close, CloseHand, Open
<1>3. \A x \in Workers \ {w} : /\ pc'[x] = pc[x] /\ hand'[x] = hand[x]
                               /\ hand[x] # hand[w]
  <2>1. hand[w] # NoConn
    BY <1>1, ConnAssumption
  <2>2. \A x \in Workers \ {w} : hand[x] # hand[w]
    BY <2>1 DEF PoolInv, ExclusiveConnection
  <2>3. \A x \in Workers \ {w} : hand'[x] = hand[x]
    BY DEF GetDiscardClose, Close, CloseHand
  <2>4. \A x \in Workers \ {w} : pc'[x] = pc[x]
    BY DEF GetDiscardClose, Close
  <2> QED BY <2>2, <2>3, <2>4
<1>4. pc'[w] \notin {"scanClose", "close"}
  BY DEF GetDiscardClose, Close
<1>5. Closing' = Closing \ {hand[w]}
  BY <1>3, <1>4 DEF Closing
<1> QED
  BY <1>1, <1>2, <1>5 DEF Pooled

\* A command changes the state of its connection, not the pool.
LEMMA UsePool ==
  ASSUME TypeOK, ControlInv, PoolInv, NEW w \in Workers,
         NEW st \in {"active", "inactive"}, UseKeeps(w, st)
  PROVE  Pooled' = Pooled
<1> USE DEF TypeOK, PcOK, Goto, Procs
<1>1. hand[w] \in Open
  BY DEF UseKeeps, ControlInv, HoldsWhileWorking, Holding, PoolInv,
         HeldAndQueuedOpen
<1>2. Open' = Open
  BY <1>1 DEF UseKeeps, Open
<1>3. Closing' = Closing
  BY DEF UseKeeps, Closing
<1> QED
  BY <1>2, <1>3 DEF Pooled

\* The other steps of the owner and of the expirer concern no worker.
LEMMA OthersPool ==
  ASSUME TypeOK,
         StartDialFails \/ StartDone \/ StopBegin \/ StopCloseChan \/
         StopCount \/ StopLock \/ StopQueue \/ StopDestroy \/
         StopFinish \/ Tick \/ ExpirerQuit \/ ExpirerTick \/
         ExpirerSweep \/ ExpirerVisit \/ ExpirerRequeue \/
         (\E b \in BOOLEAN : ExpirerDecide(b)) \/ UNCHANGED vars
  PROVE  /\ counter' = counter /\ Pooled' = Pooled
         /\ \A w \in Workers : pc'[w] = pc[w] /\ hand'[w] = hand[w]
<1> USE ProcAssumption DEF TypeOK, PcOK, Goto, Procs, Owner, Expirer, shared
<1>1. counter' = counter /\ conn' = conn
  BY DEF vars, ExpirerDecide, StartDialFails, StartDone, StopBegin,
      StopCloseChan, StopCount, StopLock, StopQueue, StopDestroy,
      StopFinish, Tick, ExpirerQuit, ExpirerTick, ExpirerSweep,
      ExpirerVisit, ExpirerRequeue
<1>2. \A w \in Workers : pc'[w] = pc[w] /\ hand'[w] = hand[w]
  BY DEF vars, ExpirerDecide, ExpirerNextElement, SendHand,
      StartDialFails, StartDone, StopBegin, StopCloseChan, StopCount,
      StopLock, StopQueue, StopDestroy, StopFinish, Tick, ExpirerQuit,
      ExpirerTick, ExpirerSweep, ExpirerVisit, ExpirerRequeue
<1> QED
  BY <1>1, <1>2 DEF Pooled, Open, Closing

\* The other steps of a worker leave the pool and the other workers alone.
LEMMA WorkerPool ==
  ASSUME TypeOK, NEW w \in Workers,
         WorkerBegin(w) \/ GetIterate(w) \/ GetTake(w) \/ GetDiscard(w) \/
         CreateCheck(w) \/ CreateLock(w) \/ DialFails(w) \/ UseFails(w) \/
         PutCheck(w) \/ PutEnqueue(w) \/ RemoveCheck(w)
  PROVE  /\ counter' = counter /\ Pooled' = Pooled
         /\ \A x \in Workers \ {w} : pc'[x] = pc[x] /\ hand'[x] = hand[x]
<1> USE DEF TypeOK, PcOK, Goto, Procs, shared
<1>1. counter' = counter /\ conn' = conn
  BY DEF WorkerBegin, GetIterate, GetTake, GetDiscard, CreateCheck,
      CreateLock, DialFails, UseFails, PutCheck, PutEnqueue, RemoveCheck
<1>2. /\ pc[w] \notin {"scanClose", "close"}
      /\ pc'[w] \notin {"scanClose", "close"}
  BY DEF WorkerBegin, GetIterate, GetTake, GetDiscard, CreateCheck,
      CreateLock, DialFails, UseFails, PutCheck, PutEnqueue, RemoveCheck
<1>3. \A x \in Workers \ {w} : pc'[x] = pc[x] /\ hand'[x] = hand[x]
  BY DEF SendHand, WorkerBegin, GetIterate, GetTake, GetDiscard,
      CreateCheck, CreateLock, DialFails, UseFails, PutCheck, PutEnqueue,
      RemoveCheck
<1> QED
  BY <1>1, <1>2, <1>3 DEF Pooled, Open, Closing

\* Every action keeps connectionCounter equal to the size of the pool.
LEMMA CountStep ==
  ASSUME TypeOK, ControlInv, LimitHolds, PoolInv, CounterMatchesPool,
         [Next]_vars
  PROVE  CounterMatchesPool'
<1>1. ASSUME NEW c \in Conns, StartDial(c) PROVE CounterMatchesPool'
  <2>1. counter < MaxUint16
    BY <1>1, LimitAssumption, CounterWidth
    DEF StartDial, ControlInv, StartAlone, TypeOK, Procs
  <2> QED BY <1>1, <2>1, StartDialPool, CountDial DEF StartDial
<1>2. CASE StopDrain
  BY <1>2, DrainPool, CountOffOne DEF StopDrain
<1>3. CASE ExpirerExpire
  BY <1>3, ExpirePool, CountOffOne DEF ExpirerExpire
<1>4. ASSUME NEW w \in Workers, GetDiscardCount(w) \/ CountOff(w)
      PROVE  CounterMatchesPool'
  BY <1>4, CountOffPool, CountOffOne DEF GetDiscardCount, CountOff
<1>5. ASSUME NEW w \in Workers, GetDiscardClose(w) \/ Close(w)
      PROVE  CounterMatchesPool'
  BY <1>5, ClosePool, CountSame DEF GetDiscardClose, Close
<1>6. ASSUME NEW w \in Workers, NEW c \in Conns, DialSucceeds(w, c)
      PROVE  CounterMatchesPool'
  <2>1. counter < MaxUint16
    BY <1>6, LimitAssumption, CounterWidth DEF DialSucceeds, LimitHolds, TypeOK
  <2> QED BY <1>6, <2>1, DialPool, CountDial DEF DialSucceeds
<1>7. ASSUME NEW w \in Workers, NEW st \in {"active", "inactive"},
             UseKeeps(w, st)
      PROVE  CounterMatchesPool'
  BY <1>7, UsePool, CountSame DEF UseKeeps
<1>8. CASE StartDialFails \/ StartDone \/ StopBegin \/ StopCloseChan \/
           StopCount \/ StopLock \/ StopQueue \/ StopDestroy \/
           StopFinish \/ Tick \/ ExpirerQuit \/ ExpirerTick \/
           ExpirerSweep \/ ExpirerVisit \/ ExpirerRequeue \/
           (\E b \in BOOLEAN : ExpirerDecide(b)) \/ UNCHANGED vars
  BY <1>8, OthersPool, CountSame
<1>9. ASSUME NEW w \in Workers,
             WorkerBegin(w) \/ GetIterate(w) \/ GetTake(w) \/ GetDiscard(w) \/
             CreateCheck(w) \/ CreateLock(w) \/ DialFails(w) \/ UseFails(w) \/
             PutCheck(w) \/ PutEnqueue(w) \/ RemoveCheck(w)
      PROVE  CounterMatchesPool'
  BY <1>9, WorkerPool, CountSame
<1> QED
  BY <1>1, <1>2, <1>3, <1>4, <1>5, <1>6, <1>7, <1>8, <1>9
  DEF Next, OwnerNext, ExpirerNext, WorkerNext

\* The inductive invariant holds in every behaviour of the manager.
THEOREM Invariance == Spec => []IndInv
<1>1. Init => IndInv
  <2> SUFFICES ASSUME Init PROVE IndInv
    OBVIOUS
  <2>1. TypeOK /\ ControlInv
    BY TypeInit, ControlInit
  <2>2. LimitHolds
    BY CounterWidth, LimitAssumption, ProcAssumption
    DEF Init, LimitHolds, Procs, Owner, Expirer
  <2>3. PoolInv
    BY DEF Init, PoolInv, HeldAndQueuedOpen, ExclusiveConnection, Queued
  <2>4. Pooled = {}
    BY DEF Init, Pooled, Open
  <2>5. CounterMatchesPool
    BY <2>4, FS_EmptySet DEF Init, CounterMatchesPool
  <2> QED BY <2>1, <2>2, <2>3, <2>5 DEF IndInv
<1>2. IndInv /\ [Next]_vars => IndInv'
  BY TypeStep, ControlStep, LimitStep, PoolStep, CountStep DEF IndInv
<1> QED
  BY <1>1, <1>2, PTL DEF Spec

\* Two workers never run a command on the same connection, and a connection
\* that get handed out is not in the queue: for any number of workers.
THEOREM Exclusivity == Spec => []ExclusiveConnection
  BY Invariance, PTL DEF IndInv, PoolInv

\* The counter that create, the expirer and stop rely on is exact.
THEOREM Counting == Spec => []CounterMatchesPool
  BY Invariance, PTL DEF IndInv

\* The pool stays within maxConnections, although remove decrements the counter
\* without the mutex under which create checks it.
THEOREM Bounded == Spec => []PoolBounded
<1>1. IndInv => PoolBounded
  BY DEF IndInv, LimitHolds, CounterMatchesPool, PoolBounded
<1> QED
  BY <1>1, Invariance, PTL

\* The positions of a queue of length n.
LEMMA IntervalSize ==
  ASSUME NEW n \in Nat
  PROVE  IsFiniteSet(1..n) /\ Cardinality(1..n) = n
<1>1. /\ IsFiniteSet(1..n)
      /\ Cardinality(1..n) = IF 1 > n THEN 0 ELSE n - 1 + 1
  BY FS_Interval
<1> QED BY <1>1

\* A worker that is about to enqueue its connection finds room: the queued
\* connections and its own are distinct members of a pool of maxConnections.
LEMMA RoomForHeld ==
  ASSUME IndInv, NEW w \in Workers, pc[w] = "enqueue"
  PROVE  Len(q) < MaxConnections
<1> USE DEF IndInv, TypeOK, Procs
<1> DEFINE Others == Pooled \ {hand[w]}
           f == [i \in 1..Len(q) |-> q[i]]
<1>1. hand[w] \in Pooled
  BY ClosingApart DEF ControlInv, HoldsWhileWorking, Holding
<1>2. IsFiniteSet(Others) /\ Cardinality(Others) = counter - 1
  BY <1>1, PooledFinite, FS_RemoveElement DEF CounterMatchesPool
<1>3. \A i \in 1..Len(q) : q[i] \in Pooled /\ q[i] # hand[w]
  <2>1. hand[w] # NoConn
    BY DEF ControlInv, HoldsWhileWorking, Holding
  <2>2. hand[w] \notin Queued
    BY <2>1 DEF PoolInv, ExclusiveConnection
  <2> QED BY <2>2, ClosingApart DEF ControlInv, Queued
<1>4. /\ Len(q) \in Nat
      /\ IsFiniteSet(1..Len(q)) /\ Cardinality(1..Len(q)) = Len(q)
  <2>1. Len(q) \in Nat
    OBVIOUS
  <2> QED BY <2>1, IntervalSize
<1>5. SUFFICES ASSUME Len(q) >= MaxConnections PROVE FALSE
  BY LimitAssumption, CounterWidth
<1>6. Cardinality(Others) < Cardinality(1..Len(q))
  BY <1>2, <1>4, <1>5, LimitAssumption, CounterWidth DEF LimitHolds
<1>7. f \in [1..Len(q) -> Others]
  BY <1>3
<1>8. \E x, y \in 1..Len(q) : x # y /\ f[x] = f[y]
  <2> HIDE DEF Others, f, IndInv, TypeOK
  <2> QED BY <1>2, <1>4, <1>6, <1>7, FS_PigeonHole
<1> QED
  BY <1>8 DEF PoolInv, ExclusiveConnection

\* put never fails with "attempt to enqueue when queue is full".
THEOREM Room == Spec => []QueueHasRoom
<1>1. IndInv => QueueHasRoom
  BY RoomForHeld DEF QueueHasRoom
<1> QED
  BY <1>1, Invariance, PTL

\* Steps that leave queue, hands and sockets alone lose no socket.
LEMMA PlacedSame ==
  ASSUME Placed, conn' = conn, q' = q, hand' = hand
  PROVE  Placed'
  BY DEF Placed, Open, Queued

\* A connection that leaves the queue is in the hands of who dequeued it.
LEMMA PlacedTake ==
  ASSUME TypeOK, Placed, NEW p \in Procs, hand[p] = NoConn, Len(q) > 0,
         conn' = conn, q' = Tail(q), hand' = [hand EXCEPT ![p] = Head(q)]
  PROVE  Placed'
<1>1. \A c \in Queued : c = Head(q) \/ c \in Queued'
  <2> SUFFICES ASSUME NEW i \in 1..Len(q)
               PROVE  q[i] = Head(q) \/ q[i] \in Queued'
    BY DEF Queued
  <2>1. CASE i = 1
    BY <2>1, HeadTail DEF TypeOK
  <2>2. CASE i # 1
    <3>1. i - 1 \in 1..Len(q') /\ q'[i - 1] = q[i]
      BY <2>2, HeadTail DEF TypeOK
    <3> QED BY <3>1 DEF Queued
  <2> QED BY <2>1, <2>2
<1>2. /\ hand'[p] = Head(q)
      /\ \A r \in Procs : hand[r] # NoConn => hand'[r] = hand[r]
  BY DEF TypeOK
<1>3. Open' = Open /\ NoConn \notin Open
  BY ConnAssumption DEF Open
<1> QED
  BY <1>1, <1>2, <1>3 DEF Placed

\* A connection that is given back is in the queue.
LEMMA PlacedReturn ==
  ASSUME TypeOK, Placed, NEW p \in Procs, hand[p] \in Conns, conn' = conn,
         q' = Append(q, hand[p]), hand' = [hand EXCEPT ![p] = NoConn]
  PROVE  Placed'
<1>1. Queued' = Queued \cup {hand[p]}
  BY Appended DEF TypeOK, Queued
<1>2. Open' = Open /\ \A r \in Procs \ {p} : hand'[r] = hand[r]
  BY DEF TypeOK, Open
<1> QED
  BY <1>1, <1>2 DEF Placed

\* A connection that is closed need not be placed.
LEMMA PlacedClose ==
  ASSUME TypeOK, Placed, NEW p \in Procs, hand[p] \in Conns, q' = q,
         conn' = [conn EXCEPT ![hand[p]] = "none"],
         hand' = [hand EXCEPT ![p] = NoConn]
  PROVE  Placed'
  BY DEF TypeOK, Placed, Open, Queued

\* A dialled connection is queued or held.
LEMMA PlacedDial ==
  ASSUME TypeOK, Placed, NEW c \in Conns,
         conn' = [conn EXCEPT ![c] = "active"],
         \/ q' = Append(q, c) /\ hand' = hand
         \/ /\ q' = q
            /\ \E p \in Procs : /\ hand[p] = NoConn
                                /\ hand' = [hand EXCEPT ![p] = c]
  PROVE  Placed'
<1>1. Open' = Open \cup {c} /\ NoConn \notin Open
  BY ConnAssumption DEF TypeOK, Open
<1>2. CASE q' = Append(q, c) /\ hand' = hand
  <2>1. Queued' = Queued \cup {c}
    BY <1>2, Appended DEF TypeOK, Queued
  <2> QED BY <1>1, <1>2, <2>1 DEF Placed
<1>3. ASSUME NEW p \in Procs, q' = q, hand[p] = NoConn,
             hand' = [hand EXCEPT ![p] = c]
      PROVE  Placed'
  BY <1>1, <1>3 DEF TypeOK, Placed, Queued
<1> QED BY <1>2, <1>3

\* Until shutdown begins no action loses an open socket.
LEMMA LeakStep ==
  ASSUME IndInv, NoLeakWhileRunning, Next
  PROVE  NoLeakWhileRunning'
<1> USE DEF IndInv, ControlInv, NoLeakWhileRunning, Procs, shared
<1>1. ASSUME NEW c \in Conns, StartDial(c) PROVE NoLeakWhileRunning'
  BY <1>1, PlacedDial DEF StartDial
<1>2. CASE StopDrain
  BY <1>2 DEF StopDrain, Lifecycle, TypeOK,
              cmCreated, cmRunning, cmShuttingDown, cmShutdown
<1>3. CASE ExpirerVisit
  <2>1. Len(q) > 0
    BY <1>3 DEF ExpirerVisit, IterationWithinQueue, TypeOK
  <2>2. hand[Expirer] = NoConn
    BY <1>3 DEF ExpirerVisit, HoldsWhileWorking, Holding
  <2> QED BY <1>3, <2>1, <2>2, PlacedTake DEF ExpirerVisit
<1>4. CASE ExpirerExpire
  <2>1. hand[Expirer] \in Conns
    BY <1>4 DEF ExpirerExpire, HoldsWhileWorking, Holding, TypeOK
  <2> QED BY <1>4, <2>1, PlacedClose DEF ExpirerExpire, CloseHand
<1>5. CASE ExpirerRequeue
  <2>1. cmState < cmShuttingDown => qOpen
    BY DEF Lifecycle, TypeOK, cmCreated, cmRunning, cmShuttingDown, cmShutdown
  <2>2. Len(q) < MaxConnections
    BY <1>5 DEF ExpirerRequeue, IterationWithinQueue
  <2>3. hand[Expirer] \in Conns
    BY <1>5 DEF ExpirerRequeue, HoldsWhileWorking, Holding, TypeOK
  <2>4. Len(q) # MaxConnections
    BY <2>2, LimitAssumption DEF TypeOK
  <2> QED
    BY <1>5, <2>1, <2>3, <2>4, PlacedReturn DEF ExpirerRequeue, SendHand
<1>6. ASSUME NEW w \in Workers, GetTake(w) PROVE NoLeakWhileRunning'
  <2>1. Len(q) > 0
    BY <1>6 DEF GetTake, IterationWithinQueue, TypeOK
  <2>2. hand[w] = NoConn
    BY <1>6 DEF GetTake, HoldsWhileWorking, Holding
  <2> QED BY <1>6, <2>1, <2>2, PlacedTake DEF GetTake
<1>7. ASSUME NEW w \in Workers, GetDiscard(w) PROVE NoLeakWhileRunning'
  <2>1. Len(q) > 0
    BY <1>7 DEF GetDiscard, IterationWithinQueue, TypeOK
  <2>2. hand[w] = NoConn
    BY <1>7 DEF GetDiscard, HoldsWhileWorking, Holding
  <2> QED BY <1>7, <2>1, <2>2, PlacedTake DEF GetDiscard, isStateLessThan
<1>8. ASSUME NEW w \in Workers, GetDiscardClose(w) \/ Close(w)
      PROVE  NoLeakWhileRunning'
  <2>1. hand[w] \in Conns
    BY <1>8 DEF GetDiscardClose, Close, HoldsWhileWorking, Holding, TypeOK
  <2> QED BY <1>8, <2>1, PlacedClose DEF GetDiscardClose, Close, CloseHand
<1>9. ASSUME NEW w \in Workers, NEW c \in Conns, DialSucceeds(w, c)
      PROVE  NoLeakWhileRunning'
  <2>1. hand[w] = NoConn
    BY <1>9 DEF DialSucceeds, HoldsWhileWorking, Holding
  <2> QED BY <1>9, <2>1, PlacedDial DEF DialSucceeds
<1>10. ASSUME NEW w \in Workers, NEW st \in {"active", "inactive"},
              UseKeeps(w, st)
       PROVE  NoLeakWhileRunning'
  <2>1. hand[w] \in Open
    BY <1>10 DEF UseKeeps, HoldsWhileWorking, Holding, PoolInv,
                 HeldAndQueuedOpen
  <2> QED BY <1>10, <2>1 DEF UseKeeps, TypeOK, Placed, Open, Queued
<1>11. ASSUME NEW w \in Workers, PutEnqueue(w) PROVE NoLeakWhileRunning'
  <2>1. cmState < cmShuttingDown => qOpen
    BY DEF Lifecycle, TypeOK, cmCreated, cmRunning, cmShuttingDown, cmShutdown
  <2>2. Len(q) < MaxConnections
    BY <1>11, RoomForHeld DEF PutEnqueue
  <2>3. hand[w] \in Conns
    BY <1>11 DEF PutEnqueue, HoldsWhileWorking, Holding, TypeOK
  <2>4. Len(q) # MaxConnections
    BY <2>2, LimitAssumption DEF TypeOK
  <2> QED BY <1>11, <2>1, <2>3, <2>4, PlacedReturn DEF PutEnqueue, SendHand
<1>12. ASSUME NEW w \in Workers, RemoveCheck(w) PROVE NoLeakWhileRunning'
  BY <1>12, PlacedSame DEF RemoveCheck, isStateLessThan
<1>13. CASE StartDialFails \/ StartDone \/ StopBegin \/ StopCloseChan \/
            StopCount \/ StopLock \/ StopQueue \/ StopDestroy \/
            StopFinish \/ Tick \/ ExpirerQuit \/ ExpirerTick \/
            ExpirerSweep \/ \E b \in BOOLEAN : ExpirerDecide(b)
  <2>1. q' = q /\ hand' = hand /\ conn' = conn
    BY <1>13 DEF ExpirerDecide, StartDialFails, StartDone, StopBegin,
        StopCloseChan, StopCount, StopLock, StopQueue, StopDestroy,
        StopFinish, Tick, ExpirerQuit, ExpirerTick, ExpirerSweep
  <2>2. cmState' < cmShuttingDown => cmState < cmShuttingDown
    BY <1>13 DEF Lifecycle, ExpirerDecide, TypeOK, cmCreated, cmRunning,
        cmShuttingDown, cmShutdown, StartDialFails, StartDone, StopBegin,
        StopCloseChan, StopCount, StopLock, StopQueue, StopDestroy,
        StopFinish, Tick, ExpirerQuit, ExpirerTick, ExpirerSweep
  <2> QED BY <2>1, <2>2, PlacedSame
<1>14. ASSUME NEW w \in Workers,
              WorkerBegin(w) \/ GetIterate(w) \/ GetDiscardCount(w) \/
              CreateCheck(w) \/ CreateLock(w) \/
              DialFails(w) \/ UseFails(w) \/ PutCheck(w) \/
              CountOff(w)
       PROVE  NoLeakWhileRunning'
  BY <1>14, PlacedSame DEF WorkerBegin, GetIterate, GetDiscardCount,
      CreateCheck, CreateLock, DialFails, UseFails, PutCheck, CountOff
<1> QED
  BY <1>1, <1>2, <1>3, <1>4, <1>5, <1>6, <1>7, <1>8, <1>9, <1>10, <1>11,
     <1>12, <1>13, <1>14
  DEF Next, OwnerNext, ExpirerNext, WorkerNext

\* Until stop begins, every open socket is queued or held by a goroutine that
\* will queue or close it: put, remove, get and the expirer lose none.
THEOREM NoLeak == Spec => []NoLeakWhileRunning
<1>1. Init => NoLeakWhileRunning
  BY DEF Init, NoLeakWhileRunning, Placed, Open
<1>2. IndInv /\ NoLeakWhileRunning /\ [Next]_vars => NoLeakWhileRunning'
  <2>1. CASE UNCHANGED vars
    BY <2>1 DEF vars, shared, NoLeakWhileRunning, Placed, Open, Queued
  <2> QED BY <2>1, LeakStep
<1> QED
  BY <1>1, <1>2, Invariance, PTL DEF Spec

\* Every assignment to a connection's state is by its holder, to a new one or,
\* in stop, to a queued one; never to one that another worker executes on.
LEMMA InUseStep ==
  ASSUME IndInv, [Next]_vars
  PROVE  InUseKept
<1> USE DEF Procs, shared
<1> SUFFICES ASSUME NEW w \in Workers, pc[w] = "use", pc'[w] = "use"
             PROVE  conn'[hand[w]] = conn[hand[w]]
  BY DEF InUseKept
<1>1. /\ hand[w] \in Open /\ hand[w] \in Conns /\ hand[w] \notin Queued
      /\ \A p \in Procs \ {w} : hand[p] # hand[w]
  BY ConnAssumption
  DEF IndInv, TypeOK, ControlInv, HoldsWhileWorking, Holding, PoolInv,
      HeldAndQueuedOpen, ExclusiveConnection
<1>2. ASSUME NEW c \in Conns, conn[c] = "none" \/ c \in Queued \/
                              \E p \in Procs \ {w} : c = hand[p],
             NEW st, conn' = [conn EXCEPT ![c] = st]
      PROVE  conn'[hand[w]] = conn[hand[w]]
  BY <1>1, <1>2 DEF IndInv, TypeOK, Open
<1>3. ASSUME NEW c \in Conns,
             StartDial(c) \/ \E x \in Workers : DialSucceeds(x, c)
      PROVE  conn'[hand[w]] = conn[hand[w]]
  BY <1>2, <1>3 DEF StartDial, DialSucceeds
<1>4. CASE StopDrain
  <2>1. Len(q) > 0
    BY <1>4 DEF StopDrain, IndInv, ControlInv, IterationWithinQueue, TypeOK
  <2>2. Head(q) \in Conns /\ Head(q) \in Queued
    BY <2>1, HeadTail DEF IndInv, TypeOK, Queued
  <2> QED BY <1>2, <1>4, <2>2 DEF StopDrain
<1>5. CASE ExpirerExpire
  <2>1. hand[Expirer] \in Conns /\ Expirer # w
    BY <1>5, ProcAssumption
    DEF ExpirerExpire, IndInv, ControlInv, HoldsWhileWorking, Holding,
        TypeOK
  <2> QED BY <1>2, <1>5, <2>1 DEF ExpirerExpire, CloseHand
<1>6. ASSUME NEW x \in Workers, GetDiscardClose(x) \/ Close(x)
      PROVE  conn'[hand[w]] = conn[hand[w]]
  <2>1. hand[x] \in Conns /\ x # w
    BY <1>6
    DEF GetDiscardClose, Close, IndInv, ControlInv, HoldsWhileWorking,
        Holding, TypeOK
  <2> QED BY <1>2, <1>6, <2>1 DEF GetDiscardClose, Close, CloseHand
<1>7. ASSUME NEW x \in Workers, NEW st \in {"active", "inactive"},
             UseKeeps(x, st)
      PROVE  conn'[hand[w]] = conn[hand[w]]
  <2>1. hand[x] \in Conns /\ x # w
    BY <1>7
    DEF UseKeeps, IndInv, ControlInv, HoldsWhileWorking, Holding, TypeOK,
        Goto, PcOK
  <2> QED BY <1>2, <1>7, <2>1 DEF UseKeeps
<1>8. CASE StartDialFails \/ StartDone \/ StopBegin \/ StopCloseChan \/
           StopCount \/ StopLock \/ StopQueue \/ StopDestroy \/
           StopFinish \/ Tick \/ ExpirerQuit \/ ExpirerTick \/
           ExpirerSweep \/ ExpirerVisit \/ ExpirerRequeue \/ \E
           b \in BOOLEAN : ExpirerDecide(b) \/ UNCHANGED vars
  BY <1>8 DEF vars, ExpirerDecide, StartDialFails, StartDone, StopBegin,
      StopCloseChan, StopCount, StopLock, StopQueue, StopDestroy,
      StopFinish, Tick, ExpirerQuit, ExpirerTick, ExpirerSweep,
      ExpirerVisit, ExpirerRequeue
<1>9. ASSUME NEW x \in Workers,
             WorkerBegin(x) \/ GetIterate(x) \/ GetDiscardCount(x) \/
             CreateCheck(x) \/ CreateLock(x) \/ DialFails(x)
             \/ UseFails(x) \/ PutCheck(x) \/ CountOff(x) \/
             GetTake(x) \/ GetDiscard(x) \/ PutEnqueue(x) \/
             RemoveCheck(x)
      PROVE  conn' = conn
  BY <1>9 DEF WorkerBegin, GetIterate, GetDiscardCount, CreateCheck,
      CreateLock, DialFails, UseFails, PutCheck, CountOff, GetTake,
      GetDiscard, PutEnqueue, RemoveCheck
<1> QED
  BY <1>3, <1>4, <1>5, <1>6, <1>7, <1>8, <1>9
  DEF Next, OwnerNext, ExpirerNext, WorkerNext

\* stop counts the queue when no sweep holds its mutex, and a later sweep finds
\* the manager shutting down before it would take the manager's mutex.
LEMMA LockOrderStep ==
  ASSUME TypeOK, ControlInv, NoLockCycle, [Next]_vars
  PROVE  NoLockCycle'
<1> USE ProcAssumption
    DEF TypeOK, ControlInv, NoLockCycle, Procs, Owner, Expirer, Goto, shared
<1>1. pc \in [Procs -> WorkerPC \cup ExpirerPC \cup OwnerPC]
  BY DEF PcOK
<1>2. CASE StopCount
  BY <1>1, <1>2 DEF StopCount, LockDiscipline
<1>3. CASE ExpirerVisit
  BY <1>1, <1>3
  DEF ExpirerVisit, isStateLessThan, Lifecycle, cmCreated, cmRunning,
      cmShuttingDown, cmShutdown
<1>4. ASSUME NEW b \in BOOLEAN, ExpirerDecide(b) PROVE NoLockCycle'
  BY <1>1, <1>4 DEF ExpirerDecide
<1>5. CASE ExpirerExpire \/ ExpirerRequeue
  BY <1>1, <1>5 DEF ExpirerExpire, ExpirerRequeue, ExpirerNextElement
<1>6. CASE ExpirerQuit \/ ExpirerTick \/ ExpirerSweep
  BY <1>1, <1>6 DEF ExpirerQuit, ExpirerTick, ExpirerSweep
<1>7. ASSUME NEW c \in Conns, StartDial(c) PROVE NoLockCycle'
  BY <1>1, <1>7 DEF StartDial
<1>8. CASE StartDialFails \/ StartDone \/ StopBegin \/ StopCloseChan
  BY <1>1, <1>8 DEF StartDialFails, StartDone, StopBegin, StopCloseChan
<1>9. CASE StopLock \/ StopQueue \/ StopDrain \/ StopDestroy \/ StopFinish
  BY <1>1, <1>9 DEF StopLock, StopQueue, StopDrain, StopDestroy, StopFinish
<1>10. CASE Tick \/ UNCHANGED vars
  BY <1>10 DEF Tick, vars
<1>11. ASSUME NEW w \in Workers, WorkerNext(w) PROVE NoLockCycle'
  <2>1. pc'[Owner] = pc[Owner] /\ pc'[Expirer] = pc[Expirer]
    BY <1>1, <1>11
    DEF WorkerNext, WorkerBegin, GetIterate, GetTake, GetDiscard,
        GetDiscardCount, GetDiscardClose, CreateCheck, CreateLock,
        DialSucceeds, DialFails, UseKeeps, UseFails, PutCheck, PutEnqueue,
        RemoveCheck, CountOff, Close
  <2> QED BY <2>1
<1> QED
  BY <1>2, <1>3, <1>4, <1>5, <1>6, <1>7, <1>8, <1>9, <1>10, <1>11
  DEF Next, OwnerNext, ExpirerNext

\* Although stop and the expirer take the two mutexes in opposite orders, they
\* never wait for each other.
THEOREM LockOrder == Spec => []NoLockCycle
<1>1. Init => NoLockCycle
  BY ProcAssumption DEF Init, NoLockCycle, Procs, Owner, Expirer
<1> QED
  BY <1>1, LockOrderStep, TypeCorrect, PTL DEF Spec

\* Neither the expirer, nor stop, nor another worker closes a connection on
\* which a worker runs a command.
THEOREM InUse == Spec => InUseNotClosed
  BY Invariance, InUseStep, PTL DEF Spec, InUseNotClosed

\* A panic follows a state check or a send that only stop can spoil.
LEMMA PanicStep ==
  ASSUME TypeOK, ControlInv, PanicOnlyInStop, [Next]_vars
  PROVE  PanicOnlyInStop'
<1> USE DEF TypeOK, ControlInv, Lifecycle, PanicOnlyInStop, shared,
            cmCreated, cmRunning, cmShuttingDown, cmShutdown
<1>1. ASSUME panicked' # panicked PROVE PanicOnlyInStop'
  <2>1. ASSUME NEW w \in Workers, CreateCheck(w) PROVE PanicOnlyInStop'
    BY <2>1 DEF CreateCheck, isStateLessThan
  <2>2. ASSUME NEW w \in Workers, PutEnqueue(w) PROVE PanicOnlyInStop'
    BY <1>1, <2>2 DEF PutEnqueue, SendHand
  <2>3. CASE ExpirerRequeue
    BY <1>1, <2>3 DEF ExpirerRequeue, SendHand
  <2> QED
    BY <1>1, <2>1, <2>2, <2>3
    DEF Next, vars, OwnerNext, ExpirerNext, WorkerNext,
        StartDial, StartDialFails, StartDone, StopBegin, StopCloseChan,
        StopCount, StopLock, StopQueue, StopDrain, StopDestroy, StopFinish,
        Tick, ExpirerQuit, ExpirerTick, ExpirerSweep, ExpirerVisit,
        ExpirerDecide, ExpirerExpire, WorkerBegin, GetIterate, GetTake,
        GetDiscard, GetDiscardCount, GetDiscardClose, CreateLock,
        DialSucceeds, DialFails, UseKeeps, UseFails, PutCheck, RemoveCheck,
        CountOff, Close
<1>2. ASSUME panicked' = panicked PROVE PanicOnlyInStop'
  BY <1>2 DEF Next, vars
<1> QED BY <1>1, <1>2

\* No worker meets a nil connection or a closed queue before stop has begun.
THEOREM Panics == Spec => []PanicOnlyInStop
<1>1. Init => PanicOnlyInStop
  BY DEF Init, PanicOnlyInStop
<1> QED
  BY <1>1, PanicStep, TypeCorrect, PTL DEF Spec
-----------------------------------------------------------------------------
(* The connection manager implements Pool. *)

\* Pool counts its members as the manager's properties do.
LEMMA SameCardinality == \A S : Abstract!Cardinality(S) = Cardinality(S)
  BY DEF Abstract!Cardinality, Cardinality

\* What no worker runs a command on is not lent.
LEMMA NotLent ==
  ASSUME IndInv, NEW c \in Conns,
         c \in Queued \/ \E p \in Procs : c = hand[p] /\ pc[p] # "use"
  PROVE  ~Abstract!Lent(c)
  BY ConnAssumption
  DEF IndInv, PoolInv, ExclusiveConnection, Abstract!Lent, Users, Procs

\* A step after which every worker uses what it used before.
LEMMA UsersSame ==
  ASSUME \A w \in Workers : pc'[w] = pc[w] /\ hand'[w] = hand[w]
  PROVE  Users' = Users
  BY DEF Users

\* A step of one worker changes what that worker uses.
LEMMA UsersOne ==
  ASSUME NEW w \in Workers,
         \A x \in Workers \ {w} : pc'[x] = pc[x] /\ hand'[x] = hand[x]
  PROVE  Users' = [Users EXCEPT ![w] = IF pc'[w] = "use" THEN hand'[w] ELSE NoConn]
  BY DEF Users

\* A step of a worker that uses nothing before and after it.
LEMMA UsersIdle ==
  ASSUME NEW w \in Workers, pc[w] # "use", pc'[w] # "use",
         \A x \in Workers \ {w} : pc'[x] = pc[x] /\ hand'[x] = hand[x]
  PROVE  Users' = Users
  BY DEF Users

\* The step of Pool that each step of the manager is.
LEMMA PoolStepSimulated ==
  ASSUME IndInv, [Next]_vars
  PROVE  [Abstract!Next]_(Abstract!poolVars)
<1> USE DEF IndInv
<1>0. \A w \in Workers : Users[w] = IF pc[w] = "use" THEN hand[w] ELSE NoConn
  BY DEF Users
<1>00. pc \in [Procs -> WorkerPC \cup ExpirerPC \cup OwnerPC]
  BY DEF TypeOK, PcOK
<1>1. ASSUME NEW c \in Conns, StartDial(c) PROVE Abstract!Join(c)
  <2>1. Abstract!Room
    BY <1>1, LimitAssumption, CounterWidth, SameCardinality
    DEF StartDial, ControlInv, StartAlone, TypeOK, CounterMatchesPool,
        Abstract!Room, Procs
  <2>2. Users' = Users
    BY <1>1, UsersSame DEF StartDial
  <2> QED BY <1>1, <2>1, <2>2, StartDialPool DEF Abstract!Join
<1>2. CASE StopDrain
  <2>1. Head(q) \in Conns
    BY <1>2, DrainPool DEF Pooled, Open
  <2>2. Users' = Users
    BY <1>2, <1>00, UsersSame, ProcAssumption
    DEF StopDrain, Goto, Procs, Owner, Expirer
  <2>3. Abstract!Leave(Head(q))
    BY <1>2, <2>1, <2>2, DrainPool, NotLent DEF Abstract!Leave
  <2> QED BY <2>1, <2>3 DEF Abstract!Next
<1>3. CASE ExpirerExpire
  <2>1. hand[Expirer] \in Conns
    BY <1>3, ExpirePool DEF Pooled, Open
  <2>2. Users' = Users
    BY <1>3, <1>00, UsersSame, ProcAssumption
    DEF ExpirerExpire, CloseHand, ExpirerNextElement, Goto, Procs, Owner,
        Expirer, TypeOK
  <2>3. ~Abstract!Lent(hand[Expirer])
    BY <1>3, <2>1, NotLent DEF ExpirerExpire, Procs
  <2>4. Abstract!Leave(hand[Expirer])
    BY <1>3, <2>2, <2>3, ExpirePool DEF Abstract!Leave
  <2> QED BY <2>1, <2>4 DEF Abstract!Next
<1>4. ASSUME NEW w \in Workers, GetDiscardCount(w) \/ CountOff(w)
      PROVE  Abstract!Leave(hand[w])
  <2>1. hand[w] \in Conns
    BY <1>4, CountOffPool DEF Pooled, Open
  <2>2. Users' = Users
    BY <1>4, <1>00, UsersIdle DEF GetDiscardCount, CountOff, Goto, Procs
  <2>3. ~Abstract!Lent(hand[w])
    BY <1>4, <2>1, NotLent DEF GetDiscardCount, CountOff, Procs
  <2> QED BY <1>4, <2>2, <2>3, CountOffPool DEF Abstract!Leave
<1>5. ASSUME NEW w \in Workers, GetDiscardClose(w) \/ Close(w)
      PROVE  UNCHANGED Abstract!poolVars
  <2>1. Users' = Users
    BY <1>5, <1>00, UsersIdle
    DEF GetDiscardClose, Close, CloseHand, Goto, Procs, TypeOK
  <2> QED BY <1>5, <2>1, ClosePool DEF Abstract!poolVars
<1>6. ASSUME NEW w \in Workers, NEW c \in Conns, DialSucceeds(w, c)
      PROVE  Abstract!LendNew(w, c)
  <2>1. Abstract!Room
    BY <1>6, SameCardinality
    DEF DialSucceeds, LimitHolds, CounterMatchesPool, Abstract!Room
  <2>2. /\ \A x \in Workers \ {w} : pc'[x] = pc[x] /\ hand'[x] = hand[x]
        /\ pc[w] # "use" /\ pc'[w] = "use" /\ hand'[w] = c
    BY <1>6, <1>00 DEF DialSucceeds, Goto, Procs, TypeOK
  <2>3. Users' = [Users EXCEPT ![w] = c]
    BY <2>2, UsersOne
  <2> QED BY <1>6, <1>0, <2>1, <2>2, <2>3, DialPool DEF Abstract!LendNew
<1>7. ASSUME NEW w \in Workers, UseFails(w) \/ \E st \in {"active", "inactive"} : UseKeeps(w, st)
      PROVE  Abstract!GiveBack(w)
  <2>1. Users[w] # NoConn
    BY <1>7, <1>0 DEF UseKeeps, UseFails, ControlInv, HoldsWhileWorking, Holding, Procs
  <2>2. /\ \A x \in Workers \ {w} : pc'[x] = pc[x] /\ hand'[x] = hand[x]
        /\ pc'[w] # "use"
    BY <1>7, <1>00 DEF UseKeeps, UseFails, Goto, Procs
  <2>3. Users' = [Users EXCEPT ![w] = NoConn]
    BY <2>2, UsersOne
  <2> QED BY <1>7, <2>1, <2>3, UsePool, WorkerPool DEF Abstract!GiveBack
<1>8. ASSUME NEW w \in Workers, GetTake(w)
      PROVE  Head(q) \in Conns /\ Abstract!Lend(w, Head(q))
  <2>1. Len(q) > 0
    BY <1>8 DEF GetTake, ControlInv, IterationWithinQueue, TypeOK
  <2>2. Head(q) \in Conns /\ Head(q) \in Queued /\ Head(q) \in Pooled
    BY <2>1, HeadTail, ClosingApart DEF TypeOK, Queued, ControlInv
  <2>3. /\ \A x \in Workers \ {w} : pc'[x] = pc[x] /\ hand'[x] = hand[x]
        /\ pc[w] # "use" /\ pc'[w] = "use" /\ hand'[w] = Head(q)
    BY <1>8, <1>00 DEF GetTake, Goto, Procs, TypeOK
  <2>4. Users' = [Users EXCEPT ![w] = Head(q)]
    BY <2>3, UsersOne
  <2> QED BY <1>8, <1>0, <2>2, <2>3, <2>4, NotLent, WorkerPool DEF Abstract!Lend
<1>9. ASSUME NEW w \in Workers,
             WorkerBegin(w) \/ GetIterate(w) \/ GetDiscard(w) \/
             CreateCheck(w) \/ CreateLock(w) \/ DialFails(w) \/
             PutCheck(w) \/ PutEnqueue(w) \/ RemoveCheck(w)
      PROVE  UNCHANGED Abstract!poolVars
  <2>1. pc[w] # "use" /\ pc'[w] # "use"
    BY <1>9, <1>00 DEF WorkerBegin, GetIterate, GetDiscard, CreateCheck,
        CreateLock, DialFails, PutCheck, PutEnqueue, RemoveCheck, Goto, Procs
  <2> QED BY <1>9, <2>1, WorkerPool, UsersIdle DEF Abstract!poolVars
<1>10. CASE StartDialFails \/ StartDone \/ StopBegin \/ StopCloseChan \/
            StopCount \/ StopLock \/ StopQueue \/ StopDestroy \/
            StopFinish \/ Tick \/ ExpirerQuit \/ ExpirerTick \/
            ExpirerSweep \/ ExpirerVisit \/ ExpirerRequeue \/
            (\E b \in BOOLEAN : ExpirerDecide(b)) \/ UNCHANGED vars
  BY <1>10, OthersPool, UsersSame DEF Abstract!poolVars
<1>11. ASSUME NEW w \in Workers, GetDiscardCount(w) \/ CountOff(w)
       PROVE  Abstract!Next
  <2>1. hand[w] \in Conns
    BY <1>11, CountOffPool DEF Pooled, Open
  <2> QED BY <1>4, <1>11, <2>1 DEF Abstract!Next
<1> QED
  BY <1>1, <1>2, <1>3, <1>5, <1>6, <1>7, <1>8, <1>9, <1>10, <1>11
  DEF Next, OwnerNext, ExpirerNext, WorkerNext, Abstract!Next

\* For any number of workers and connections, the manager behaves as the abstract
\* pool: two mutexes, an atomic counter, a queue, the expirer and stop do not show.
THEOREM Refinement == Spec => ImplementsPool
<1>1. Init => Abstract!Init
  BY ProcAssumption
  DEF Init, Abstract!Init, Pooled, Open, Users, Procs, Owner, Expirer
<1> QED
  BY <1>1, PoolStepSimulated, Invariance, PTL
  DEF Spec, ImplementsPool, Abstract!Spec
==============================================================================
