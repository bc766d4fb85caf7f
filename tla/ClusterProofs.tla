--------------------------- MODULE ClusterProofs ---------------------------
(***************************************************************************)
(* Proofs of the safety properties of Cluster, for any commands, attempts  *)
(* and queue depth.                                                        *)
(*                                                                         *)
(* IndInv is inductive in two layers: types and iterations first, then     *)
(* where each command is and what is known of it there.  CompletedOnce     *)
(* needs a hypothesis, because the code completes a refused command twice: *)
(* there is no queue, or a queue with room for every command in a cluster  *)
(* that is never stopped.                                                  *)
(***************************************************************************)
EXTENDS Cluster, FiniteSetTheorems, TLAPS

\* What a dequeue leaves of a non-empty queue.
LEMMA HeadTail ==
  ASSUME NEW S, NEW s \in Seq(S), Len(s) > 0
  PROVE  /\ Head(s) \in S /\ Head(s) = s[1]
         /\ Tail(s) \in Seq(S) /\ Len(Tail(s)) = Len(s) - 1
         /\ \A i \in 1..Len(s) - 1 : Tail(s)[i] = s[i + 1]
  OBVIOUS

\* What an enqueue makes of the queue.
LEMMA Appended ==
  ASSUME NEW S, NEW s \in Seq(S), NEW e \in S
  PROVE  /\ Append(s, e) \in Seq(S) /\ Len(Append(s, e)) = Len(s) + 1
         /\ Append(s, e)[Len(s) + 1] = e
         /\ \A i \in 1..Len(s) : Append(s, e)[i] = s[i]
  OBVIOUS

\* Whoever iterates has a command to visit.
LEMMA Visiting ==
  ASSUME TypeOK, Iterating, pc[Routine] = "visit" \/ pc[Owner] = "drain"
  PROVE  /\ Len(cq) > 0 /\ Head(cq) \in Cmds /\ Head(cq) \in Queued
         /\ Head(cq) # Routine /\ Head(cq) # Owner
         /\ Tail(cq) \in Seq(Cmds) /\ Len(Tail(cq)) = Len(cq) - 1
<1>1. Len(cq) > 0
  BY DEF TypeOK, Iterating
<1> QED
  BY <1>1, HeadTail, CmdAssumption DEF TypeOK, Queued

\* Every goroutine stays in its own program.
LEMMA PcStep ==
  ASSUME TypeOK, Iterating, [Next]_vars
  PROVE  PcOK'
<1> USE CmdAssumption DEF PcOK, Procs, Routine, Owner, Goto, CmdPC, RoutinePC,
                          OwnerPC, shared, local, record
<1> PcOK
  BY DEF TypeOK
<1>1. ASSUME NEW c \in Cmds, Submit(c) PROVE PcOK'
  BY <1>1 DEF Submit
<1>2. ASSUME NEW c \in Cmds, CmdNext(c) PROVE PcOK'
  <2>1. CASE Begin(c) \/ Check(c) \/ RunSucceeds(c)
    BY <2>1 DEF Begin, Check, RunSucceeds
  <2>2. CASE RunFails(c) \/ RunRefused(c) \/ RunUnavailable(c)
    BY <2>2 DEF RunFails, RunRefused, RunUnavailable, NextAttempt
  <2>3. CASE EnqueueCheck(c)
    BY <2>3 DEF EnqueueCheck
  <2>4. CASE Enqueue(c)
    BY <2>4 DEF Enqueue
  <2>5. CASE Refused(c) \/ Done(c)
    <3>1. \/ pc' = [pc EXCEPT ![c] = "done"]
          \/ pc' = [pc EXCEPT ![c] = "finished"]
      BY <2>5 DEF Refused, Done
    <3> QED BY <3>1
  <2> HIDE DEF PcOK
  <2> QED BY <1>2, <2>1, <2>2, <2>3, <2>4, <2>5 DEF CmdNext
<1>3. CASE RoutineRuns \/ RoutineSkips \/ RoutineDrops
  <2>1. Head(cq) \in Cmds
    BY <1>3, Visiting DEF RoutineRuns, RoutineSkips, RoutineDrops
  <2> QED BY <1>3, <2>1 DEF RoutineRuns, RoutineSkips, RoutineDrops
<1>4. CASE Tick \/ RoutineQuit \/ RoutineTick \/ RoutineCheck \/ RoutineSweep
  BY <1>4 DEF Tick, RoutineQuit, RoutineTick, RoutineCheck, RoutineSweep
<1>5. CASE StopDrain
  <2>1. Head(cq) \in Cmds
    BY <1>5, Visiting DEF StopDrain
  <2> QED BY <1>5, <2>1 DEF StopDrain
<1>6. CASE Start \/ StopBegin \/ StopCloseChan \/ StopCount \/ StopSweep \/
           StopDestroy
  BY <1>6 DEF Start, StopBegin, StopCloseChan, StopCount, StopSweep,
              StopDestroy
<1>7. ASSUME NEW all \in BOOLEAN, StopNodes(all) PROVE PcOK'
  BY <1>7 DEF StopNodes
<1>8. CASE UNCHANGED vars
  BY <1>8 DEF vars
<1> HIDE DEF PcOK
<1> QED
  BY <1>1, <1>2, <1>3, <1>4, <1>5, <1>6, <1>7, <1>8
  DEF Next, RoutineNext, OwnerNext

\* Iterations stay within the queue, because they alone take from it.
LEMMA IteratingStep ==
  ASSUME TypeOK, Iterating, [Next]_vars
  PROVE  Iterating'
<1> USE CmdAssumption, OptionAssumption
    DEF Iterating, Procs, Routine, Owner, Goto, shared, local, record
<1>0. /\ pc \in [Procs -> CmdPC \cup RoutinePC \cup OwnerPC]
      /\ rest \in [{Routine, Owner} -> 0..QueueMaxDepth]
      /\ cq \in Seq(Cmds) /\ Len(cq) \in Nat
  BY DEF TypeOK, PcOK
<1>1. ASSUME NEW c \in Cmds, Submit(c) \/ CmdNext(c) PROVE Iterating'
  <2>1. /\ pc'[Routine] = pc[Routine] /\ pc'[Owner] = pc[Owner]
        /\ rest' = rest /\ cqLock' = cqLock
    <3>1. CASE Submit(c) \/ Begin(c) \/ Check(c) \/ RunSucceeds(c)
      BY <1>0, <3>1 DEF Submit, Begin, Check, RunSucceeds
    <3>2. CASE RunFails(c) \/ RunRefused(c) \/ RunUnavailable(c)
      BY <1>0, <3>2 DEF RunFails, RunRefused, RunUnavailable, NextAttempt
    <3>3. CASE EnqueueCheck(c) \/ Refused(c) \/ Done(c)
      BY <1>0, <3>3 DEF EnqueueCheck, Refused, Done
    <3>4. CASE Enqueue(c)
      BY <1>0, <3>4 DEF Enqueue
    <3> QED BY <1>1, <3>1, <3>2, <3>3, <3>4 DEF CmdNext
  <2>2. CASE Enqueue(c)
    <3>1. cqLock = NoProc
      BY <2>2 DEF Enqueue
    <3> QED BY <2>1, <3>1
  <2>3. CASE ~Enqueue(c)
    <3>1. cq' = cq
      BY <1>1, <2>3
      DEF CmdNext, Submit, Begin, Check, RunSucceeds, RunFails, RunRefused,
          RunUnavailable, EnqueueCheck, Refused, Done
    <3> QED BY <2>1, <3>1
  <2> QED BY <2>2, <2>3
<1>2. CASE RoutineRuns \/ RoutineSkips \/ RoutineDrops
  <2>1. /\ Head(cq) # Routine /\ Head(cq) # Owner /\ Head(cq) \in Cmds
        /\ Tail(cq) \in Seq(Cmds) /\ Len(Tail(cq)) = Len(cq) - 1
        /\ rest[Routine] \in 1..Len(cq)
    BY <1>2, Visiting DEF RoutineRuns, RoutineSkips, RoutineDrops
  <2>2. Len(Append(Tail(cq), Head(cq))) = Len(cq)
    BY <1>0, <2>1, Appended
  <2>3. CASE RoutineRuns
    BY <1>0, <2>1, <2>3 DEF RoutineRuns
  <2>4. CASE RoutineSkips
    BY <1>0, <2>1, <2>2, <2>4 DEF RoutineSkips
  <2>5. CASE RoutineDrops
    BY <1>0, <2>1, <2>5 DEF RoutineDrops
  <2> QED BY <1>2, <2>3, <2>4, <2>5
<1>3. CASE RoutineSweep
  <2>1. cq # <<>> => Len(cq) > 0
    BY <1>0
  <2> QED BY <1>0, <1>3, <2>1 DEF RoutineSweep
<1>4. CASE Tick \/ RoutineQuit \/ RoutineTick \/ RoutineCheck
  BY <1>0, <1>4 DEF Tick, RoutineQuit, RoutineTick, RoutineCheck
<1>5. CASE StopDrain
  <2>1. /\ Head(cq) # Routine /\ Head(cq) # Owner /\ Head(cq) \in Cmds
        /\ Tail(cq) \in Seq(Cmds) /\ Len(Tail(cq)) = Len(cq) - 1
        /\ rest[Owner] \in 1..Len(cq)
    BY <1>5, Visiting DEF StopDrain
  <2> QED BY <1>0, <1>5, <2>1 DEF StopDrain
<1>6. CASE StopSweep
  <2>1. cq # <<>> => Len(cq) > 0
    BY <1>0
  <2> QED BY <1>0, <1>6, <2>1 DEF StopSweep
<1>7. CASE Start \/ StopBegin \/ StopCloseChan \/ StopCount \/ StopDestroy
  BY <1>0, <1>7 DEF Start, StopBegin, StopCloseChan, StopCount, StopDestroy
<1>8. ASSUME NEW all \in BOOLEAN, StopNodes(all) PROVE Iterating'
  BY <1>0, <1>8 DEF StopNodes
<1>9. CASE UNCHANGED vars
  BY <1>9 DEF vars
<1> HIDE DEF Iterating
<1> QED
  BY <1>1, <1>2, <1>3, <1>4, <1>5, <1>6, <1>7, <1>8, <1>9
  DEF Next, RoutineNext, OwnerNext

\* A step of a command moves its own goroutine only.
LEMMA CmdMoves ==
  ASSUME TypeOK, NEW c \in Cmds, Submit(c) \/ CmdNext(c)
  PROVE  \A p \in Procs \ {c} : pc'[p] = pc[p]
<1> USE DEF Goto
<1>0. pc \in [Procs -> CmdPC \cup RoutinePC \cup OwnerPC] /\ c \in Procs
  BY DEF TypeOK, PcOK, Procs
<1>1. CASE Submit(c) \/ Begin(c) \/ Check(c) \/ RunSucceeds(c)
  BY <1>0, <1>1 DEF Submit, Begin, Check, RunSucceeds
<1>2. CASE RunFails(c) \/ RunRefused(c) \/ RunUnavailable(c)
  BY <1>0, <1>2 DEF RunFails, RunRefused, RunUnavailable, NextAttempt
<1>3. CASE EnqueueCheck(c)
  BY <1>0, <1>3 DEF EnqueueCheck
<1>4. CASE Enqueue(c)
  BY <1>0, <1>4 DEF Enqueue
<1>5. CASE Refused(c) \/ Done(c)
  <2>1. \/ pc' = [pc EXCEPT ![c] = "done"]
        \/ pc' = [pc EXCEPT ![c] = "finished"]
    BY <1>5 DEF Refused, Done
  <2> QED BY <1>0, <2>1
<1> QED BY <1>1, <1>2, <1>3, <1>4, <1>5 DEF CmdNext

\* The queue and who is queued stay the same.
LEMMA PlaceSame ==
  ASSUME OnePlace, cq' = cq,
         \A c \in Cmds : pc'[c] = "queued" <=> pc[c] = "queued"
  PROVE  OnePlace'
  BY DEF OnePlace, Queued

\* A dequeued command is in no queue any more.
LEMMA PlaceTake ==
  ASSUME TypeOK, OnePlace, Len(cq) > 0, cq' = Tail(cq),
         pc'[Head(cq)] # "queued",
         \A c \in Cmds \ {Head(cq)} : pc'[c] = pc[c]
  PROVE  OnePlace'
<1>1. /\ Head(cq) = cq[1] /\ Head(cq) \in Cmds /\ Len(cq') = Len(cq) - 1
      /\ Len(cq) \in Nat
      /\ \A i \in 1..Len(cq) - 1 : cq'[i] = cq[i + 1]
  BY HeadTail DEF TypeOK
<1>2. \A i, j \in 1..Len(cq') : i # j => cq'[i] # cq'[j]
  BY <1>1 DEF OnePlace
<1>3. Queued' = Queued \ {Head(cq)}
  <2>1. \A i \in 1..Len(cq') : cq'[i] \in Queued \ {Head(cq)}
    BY <1>1 DEF OnePlace, Queued
  <2>2. ASSUME NEW i \in 1..Len(cq), i # 1 PROVE cq[i] \in Queued'
    <3>1. i - 1 \in 1..Len(cq') /\ cq'[i - 1] = cq[i]
      BY <1>1, <2>2
    <3> QED BY <3>1 DEF Queued
  <2> QED BY <1>1, <2>1, <2>2 DEF Queued
<1> QED
  BY <1>2, <1>3 DEF OnePlace

\* Every action keeps a command in one place.
LEMMA OnePlaceStep ==
  ASSUME TypeOK, Iterating, OnePlace, [Next]_vars
  PROVE  OnePlace'
<1> USE CmdAssumption DEF Procs, Routine, Owner, Goto, shared, local, record
<1>0. /\ pc \in [Procs -> CmdPC \cup RoutinePC \cup OwnerPC]
      /\ cq \in Seq(Cmds)
  BY DEF TypeOK, PcOK
<1>1. ASSUME NEW c \in Cmds, Submit(c) \/ CmdNext(c), ~Enqueue(c)
      PROVE  OnePlace'
  <2>1. cq' = cq
    BY <1>1
    DEF CmdNext, Submit, Begin, Check, RunSucceeds, RunFails, RunRefused,
        RunUnavailable, EnqueueCheck, Refused, Done
  <2>2. \A x \in Cmds \ {c} : pc'[x] = pc[x]
    BY <1>1, CmdMoves
  <2>3. pc[c] # "queued" /\ pc'[c] # "queued"
    <3>1. CASE Submit(c) \/ Begin(c) \/ Check(c) \/ RunSucceeds(c)
      BY <1>0, <3>1 DEF Submit, Begin, Check, RunSucceeds
    <3>2. CASE RunFails(c) \/ RunRefused(c) \/ RunUnavailable(c)
      BY <1>0, <3>2 DEF RunFails, RunRefused, RunUnavailable, NextAttempt
    <3>3. CASE EnqueueCheck(c)
      BY <1>0, <3>3 DEF EnqueueCheck
    <3>4. CASE Refused(c) \/ Done(c)
      <4>1. /\ pc[c] \in {"refused", "done"}
            /\ \/ pc' = [pc EXCEPT ![c] = "done"]
               \/ pc' = [pc EXCEPT ![c] = "finished"]
        BY <3>4 DEF Refused, Done
      <4> QED BY <1>0, <4>1
    <3> QED BY <1>1, <3>1, <3>2, <3>3, <3>4 DEF CmdNext
  <2> QED BY <2>1, <2>2, <2>3, PlaceSame
<1>2. ASSUME NEW c \in Cmds, Enqueue(c) PROVE OnePlace'
  <2>1. pc[c] = "enqueue" /\ \A x \in Cmds \ {c} : pc'[x] = pc[x]
    BY <1>2, CmdMoves DEF CmdNext, Enqueue
  <2>2. CASE cq' = cq
    <3>1. pc'[c] # "queued"
      BY <1>0, <1>2, <2>2, Appended DEF Enqueue
    <3> QED BY <2>1, <2>2, <3>1, PlaceSame
  <2>3. CASE cq' = Append(cq, c) /\ pc'[c] = "queued"
    <3>1. c \notin Queued
      BY <2>1 DEF OnePlace
    <3>2. \A i \in 1..Len(cq) : cq'[i] = cq[i]
      BY <1>0, <2>3, Appended
    <3>3. Len(cq') = Len(cq) + 1 /\ cq'[Len(cq) + 1] = c
      BY <1>0, <2>3, Appended
    <3>4. Queued' = Queued \cup {c}
      BY <1>0, <3>2, <3>3 DEF Queued
    <3>5. \A i, j \in 1..Len(cq') : i # j => cq'[i] # cq'[j]
      BY <1>0, <3>1, <3>2, <3>3 DEF OnePlace, Queued
    <3> QED BY <2>1, <2>3, <3>4, <3>5 DEF OnePlace
  <2> QED BY <1>0, <1>2, <2>2, <2>3 DEF Enqueue
<1>3. CASE RoutineRuns \/ RoutineDrops \/ StopDrain
  <2>1. Len(cq) > 0 /\ Head(cq) \in Cmds
    BY <1>3, Visiting DEF RoutineRuns, RoutineDrops, StopDrain
  <2>2. /\ cq' = Tail(cq) /\ pc'[Head(cq)] # "queued"
        /\ \A c \in Cmds \ {Head(cq)} : pc'[c] = pc[c]
    BY <1>0, <1>3, <2>1 DEF RoutineRuns, RoutineDrops, StopDrain
  <2> QED BY <2>1, <2>2, PlaceTake
<1>4. CASE RoutineSkips
  <2>1. Len(cq) > 0 /\ Head(cq) \in Cmds
    BY <1>4, Visiting DEF RoutineSkips
  <2>2. /\ cq' = Append(Tail(cq), Head(cq))
        /\ \A c \in Cmds : pc'[c] = pc[c]
    BY <1>0, <1>4, <2>1 DEF RoutineSkips
  <2>3. /\ Len(cq') = Len(cq) /\ cq'[Len(cq)] = cq[1]
        /\ \A i \in 1..Len(cq) - 1 : cq'[i] = cq[i + 1]
    BY <1>0, <2>1, <2>2, HeadTail, Appended
  <2>4. Queued' = Queued
    <3>1. Queued' \subseteq Queued
      BY <1>0, <2>1, <2>3 DEF Queued
    <3>2. ASSUME NEW i \in 1..Len(cq) PROVE cq[i] \in Queued'
      <4>1. CASE i = 1
        BY <1>0, <2>1, <2>3, <4>1 DEF Queued
      <4>2. CASE i # 1
        <5>1. i - 1 \in 1..Len(cq) - 1 /\ cq'[i - 1] = cq[i]
          BY <1>0, <2>3, <4>2
        <5> QED BY <1>0, <2>3, <5>1 DEF Queued
      <4> QED BY <4>1, <4>2
    <3> QED BY <3>1, <3>2 DEF Queued
  <2>5. \A i, j \in 1..Len(cq') : i # j => cq'[i] # cq'[j]
    BY <1>0, <2>1, <2>3 DEF OnePlace
  <2> QED BY <2>2, <2>4, <2>5 DEF OnePlace
<1>5. CASE Tick \/ RoutineQuit \/ RoutineTick \/ RoutineCheck \/ RoutineSweep
  BY <1>0, <1>5, PlaceSame
  DEF Tick, RoutineQuit, RoutineTick, RoutineCheck, RoutineSweep
<1>6. CASE Start \/ StopBegin \/ StopCloseChan \/ StopCount \/ StopSweep \/
           StopDestroy
  BY <1>0, <1>6, PlaceSame
  DEF Start, StopBegin, StopCloseChan, StopCount, StopSweep, StopDestroy
<1>7. ASSUME NEW all \in BOOLEAN, StopNodes(all) PROVE OnePlace'
  BY <1>0, <1>7, PlaceSame DEF StopNodes
<1>8. CASE UNCHANGED vars
  BY <1>8, PlaceSame DEF vars
<1> QED
  BY <1>1, <1>2, <1>3, <1>4, <1>5, <1>6, <1>7, <1>8
  DEF Next, CmdNext, RoutineNext, OwnerNext

\* A step leaves what is known of a command alone.
LEMMA ProgressSame ==
  ASSUME NEW c \in Cmds, ProgressOf(c), pc'[c] = pc[c], done'[c] = done[c],
         failed'[c] = failed[c], served'[c] = served[c], err'[c] = err[c]
  PROVE  ProgressOf(c)'
  BY DEF ProgressOf, Ended

\* A goroutine before its end moves to another step before its end.
LEMMA ProgressOn ==
  ASSUME NEW c \in Cmds, ProgressOf(c), pc[c] \notin Ended,
         pc'[c] \notin Ended, done'[c] = done[c],
         failed'[c] = failed[c], served'[c] = served[c]
  PROVE  ProgressOf(c)'
  BY DEF ProgressOf, Ended

\* execute leaves its loop with the result of its last attempt.
LEMMA ProgressLoopEnds ==
  ASSUME NEW c \in Cmds, ProgressOf(c), pc[c] \notin Ended,
         pc'[c] = "done", done'[c] = done[c], failed'[c] = failed[c],
         \/ err'[c] = TRUE /\ served'[c] = served[c]
         \/ err'[c] = FALSE /\ served'[c] = TRUE
  PROVE  ProgressOf(c)'
  BY DEF ProgressOf, Ended

\* async.done is told of an error exactly when no node served the command.
LEMMA ProgressStep ==
  ASSUME TypeOK, Iterating, OnePlace, Progress, [Next]_vars
  PROVE  Progress'
<1> USE CmdAssumption DEF Procs, Routine, Owner, Goto, shared, local, record
<1>0. /\ pc \in [Procs -> CmdPC \cup RoutinePC \cup OwnerPC]
      /\ done \in [Cmds -> 0..2] /\ failed \in [Cmds -> BOOLEAN]
      /\ served \in [Cmds -> BOOLEAN] /\ err \in [Cmds -> BOOLEAN]
  BY DEF TypeOK, PcOK
<1>1. ASSUME NEW x \in Cmds PROVE ProgressOf(x)
  BY DEF Progress
<1>2. ASSUME NEW c \in Cmds, Submit(c) \/ CmdNext(c), NEW x \in Cmds, x # c
      PROVE  ProgressOf(x)'
  <2>1. pc'[x] = pc[x]
    BY <1>2, CmdMoves
  <2>2. /\ done'[x] = done[x] /\ failed'[x] = failed[x]
        /\ served'[x] = served[x] /\ err'[x] = err[x]
    <3>1. CASE Submit(c) \/ Begin(c) \/ Check(c) \/ RunSucceeds(c)
      BY <1>0, <1>2, <3>1 DEF Submit, Begin, Check, RunSucceeds
    <3>2. CASE RunFails(c) \/ RunRefused(c) \/ RunUnavailable(c)
      BY <1>0, <1>2, <3>2 DEF RunFails, RunRefused, RunUnavailable, NextAttempt
    <3>3. CASE EnqueueCheck(c) \/ Enqueue(c)
      BY <3>3 DEF EnqueueCheck, Enqueue
    <3>4. CASE Refused(c)
      BY <1>0, <1>2, <3>4 DEF Refused, AsyncDone
    <3>5. CASE Done(c)
      BY <1>0, <1>2, <3>5 DEF Done, AsyncDone
    <3> QED BY <1>2, <3>1, <3>2, <3>3, <3>4, <3>5 DEF CmdNext
  <2> QED BY <1>1, <2>1, <2>2, ProgressSame
<1>3. ASSUME NEW c \in Cmds, Submit(c) \/ Begin(c) \/ EnqueueCheck(c)
      PROVE  ProgressOf(c)'
  BY <1>0, <1>1, <1>3, ProgressOn DEF Submit, Begin, EnqueueCheck, Ended
<1>4. ASSUME NEW c \in Cmds, Check(c) PROVE ProgressOf(c)'
  BY <1>0, <1>1, <1>4, ProgressOn, ProgressLoopEnds DEF Check, Ended
<1>5. ASSUME NEW c \in Cmds, RunSucceeds(c) PROVE ProgressOf(c)'
  BY <1>0, <1>1, <1>5, ProgressLoopEnds DEF RunSucceeds, Ended
<1>6. ASSUME NEW c \in Cmds, RunFails(c) \/ RunRefused(c) \/ RunUnavailable(c)
      PROVE  ProgressOf(c)'
  BY <1>0, <1>1, <1>6, ProgressOn, ProgressLoopEnds
  DEF RunFails, RunRefused, RunUnavailable, NextAttempt, Ended
<1>7. ASSUME NEW c \in Cmds, Enqueue(c) PROVE ProgressOf(c)'
  <2>1. /\ pc[c] = "enqueue" /\ pc'[c] \in {"enqueue", "refused", "queued"}
        /\ UNCHANGED <<done, failed, served>>
    BY <1>0, <1>7 DEF Enqueue
  <2> QED BY <1>1, <2>1, ProgressOn DEF Ended
<1>8. ASSUME NEW c \in Cmds, Refused(c) PROVE ProgressOf(c)'
  <2>1. done[c] = 0 /\ failed[c] = FALSE /\ served[c] = FALSE
    BY <1>0, <1>1, <1>8 DEF Refused, ProgressOf, Ended
  <2>2. /\ pc'[c] = "done" /\ done'[c] = 1 /\ failed'[c] = TRUE
        /\ err'[c] = TRUE /\ served'[c] = FALSE
    BY <1>0, <1>8, <2>1 DEF Refused, AsyncDone
  <2> QED BY <2>2 DEF ProgressOf, Ended
<1>9. ASSUME NEW c \in Cmds, Done(c) PROVE ProgressOf(c)'
  <2>1. /\ served[c] <=> ~err[c]
        /\ failed[c] => err[c]
        /\ done[c] <= 1 /\ pc[c] = "done"
    BY <1>1, <1>9 DEF Done, ProgressOf
  <2>2. /\ pc'[c] = "finished" /\ done'[c] = done[c] + 1
        /\ failed'[c] = (failed[c] \/ err[c]) /\ served'[c] = served[c]
    BY <1>0, <1>9 DEF Done, AsyncDone
  <2>3. done'[c] \in 1..2
    BY <1>0, <2>1, <2>2
  <2>4. served'[c] <=> ~failed'[c]
    BY <1>0, <2>1, <2>2
  <2> QED BY <2>2, <2>3, <2>4 DEF ProgressOf, Ended
<1>10. CASE RoutineRuns \/ RoutineDrops
  <2>0. PICK h \in Cmds : h = Head(cq)
    BY <1>10, Visiting DEF RoutineRuns, RoutineDrops
  <2>1. pc[h] = "queued"
    BY <1>10, <2>0, Visiting DEF RoutineRuns, RoutineDrops, OnePlace
  <2>2. /\ UNCHANGED <<done, failed, served, err>>
        /\ pc'[h] \notin Ended
        /\ \A x \in Cmds \ {h} : pc'[x] = pc[x]
    BY <1>0, <1>10, <2>0, <2>1 DEF RoutineRuns, RoutineDrops, Ended
  <2>3. ProgressOf(h)'
    BY <1>1, <2>1, <2>2, ProgressOn DEF Ended
  <2>4. ASSUME NEW x \in Cmds \ {h} PROVE ProgressOf(x)'
    BY <1>1, <2>2, ProgressSame
  <2> QED BY <2>3, <2>4 DEF Progress
<1>11. CASE StopDrain
  <2>0. PICK h \in Cmds : h = Head(cq)
    BY <1>11, Visiting DEF StopDrain
  <2>1. pc[h] = "queued"
    BY <1>11, <2>0, Visiting DEF StopDrain, OnePlace
  <2>2. /\ done[h] = 0 /\ failed[h] = FALSE
        /\ served[h] = FALSE
    BY <1>0, <1>1, <2>1 DEF ProgressOf, Ended
  <2>3. /\ pc'[h] = "finished" /\ done'[h] = 1
        /\ failed'[h] = TRUE /\ served'[h] = FALSE
    BY <1>0, <1>11, <2>0, <2>1, <2>2 DEF StopDrain, AsyncDone
  <2>4. ASSUME NEW x \in Cmds \ {h} PROVE ProgressOf(x)'
    <3>1. /\ pc'[x] = pc[x] /\ done'[x] = done[x] /\ failed'[x] = failed[x]
          /\ served' = served /\ err' = err
      BY <1>0, <1>11, <2>0, <2>1 DEF StopDrain, AsyncDone
    <3> QED BY <1>1, <3>1, ProgressSame
  <2>5. ProgressOf(h)'
    BY <2>3 DEF ProgressOf, Ended
  <2> QED BY <2>4, <2>5 DEF Progress
<1>12. CASE Tick \/ RoutineQuit \/ RoutineTick \/ RoutineCheck \/
            RoutineSweep \/ RoutineSkips
  <2>1. /\ UNCHANGED <<done, failed, served, err>>
        /\ \A x \in Cmds : pc'[x] = pc[x]
    BY <1>0, <1>12 DEF Tick, RoutineQuit, RoutineTick, RoutineCheck,
                       RoutineSweep, RoutineSkips
  <2> QED BY <1>1, <2>1, ProgressSame DEF Progress
<1>13. CASE Start \/ StopBegin \/ StopCloseChan \/ StopCount \/ StopSweep \/
            StopDestroy
  <2>1. /\ UNCHANGED <<done, failed, served, err>>
        /\ \A x \in Cmds : pc'[x] = pc[x]
    BY <1>0, <1>13 DEF Start, StopBegin, StopCloseChan, StopCount, StopSweep,
                       StopDestroy
  <2> QED BY <1>1, <2>1, ProgressSame DEF Progress
<1>14. ASSUME NEW all \in BOOLEAN, StopNodes(all) PROVE Progress'
  <2>1. /\ UNCHANGED <<done, failed, served, err>>
        /\ \A x \in Cmds : pc'[x] = pc[x]
    BY <1>0, <1>14 DEF StopNodes
  <2> QED BY <1>1, <2>1, ProgressSame DEF Progress
<1>15. CASE UNCHANGED vars
  BY <1>1, <1>15, ProgressSame DEF vars, Progress
<1>16. ASSUME NEW c \in Cmds, Submit(c) \/ CmdNext(c) PROVE Progress'
  <2>1. ProgressOf(c)'
    BY <1>3, <1>4, <1>5, <1>6, <1>7, <1>8, <1>9, <1>16 DEF CmdNext
  <2> QED BY <1>2, <1>16, <2>1 DEF Progress
<1> QED
  BY <1>10, <1>11, <1>12, <1>13, <1>14, <1>15, <1>16
  DEF Next, RoutineNext, OwnerNext

\* A step leaves the attempts of a command alone, or moves it to a step that
\* makes none.
LEMMA SendingSame ==
  ASSUME NEW c \in Cmds, SendingOf(c), tries'[c] = tries[c],
         sent'[c] = sent[c],
         \/ pc'[c] = pc[c]
         \/ pc[c] \notin Ended /\ pc'[c] \notin {"check", "run"}
         \/ pc'[c] \in Ended
         \/ pc[c] = "check" /\ pc'[c] = "run"
  PROVE  SendingOf(c)'
  BY DEF SendingOf, Ended

\* Only an attempt that is the last one for a single-shot command sends it.
LEMMA SendingStep ==
  ASSUME TypeOK, Iterating, OnePlace, Sending, [Next]_vars
  PROVE  Sending'
<1> USE CmdAssumption DEF Procs, Routine, Owner, Goto, shared, local, record
<1>0. /\ pc \in [Procs -> CmdPC \cup RoutinePC \cup OwnerPC]
      /\ tries \in [Cmds -> 0..ExecutionAttempts]
      /\ sent \in [Cmds -> 0..SentBound]
  BY DEF TypeOK, PcOK
<1>1. ASSUME NEW x \in Cmds PROVE SendingOf(x)
  BY DEF Sending
<1>2. ASSUME NEW c \in Cmds, Submit(c) \/ CmdNext(c), NEW x \in Cmds, x # c
      PROVE  SendingOf(x)'
  <2>1. pc'[x] = pc[x]
    BY <1>2, CmdMoves
  <2>2. tries'[x] = tries[x] /\ sent'[x] = sent[x]
    BY <1>0, <1>2
    DEF CmdNext, Submit, Begin, Check, RunSucceeds, RunFails, RunRefused,
        RunUnavailable, NextAttempt, CountSent, EnqueueCheck, Enqueue, Refused,
        Done
  <2> QED BY <1>1, <2>1, <2>2, SendingSame
<1>3. ASSUME NEW c \in Cmds, Submit(c) \/ Check(c) \/ EnqueueCheck(c)
      PROVE  SendingOf(c)'
  BY <1>0, <1>1, <1>3, SendingSame DEF Submit, Check, EnqueueCheck, Ended
<1>4. ASSUME NEW c \in Cmds, Begin(c) PROVE SendingOf(c)'
  <2>1. /\ pc[c] = "begin" /\ pc'[c] = "check" /\ sent'[c] = sent[c]
        /\ tries'[c] = IF c \in Retryable THEN ExecutionAttempts ELSE 1
    BY <1>0, <1>4 DEF Begin
  <2> QED BY <1>1, <2>1, OptionAssumption DEF SendingOf, Ended
<1>5. ASSUME NEW c \in Cmds, RunSucceeds(c) PROVE SendingOf(c)'
  <2>1. /\ pc[c] = "run" /\ pc'[c] = "done"
        /\ sent'[c] = sent[c] \/ sent'[c] = sent[c] + 1
    BY <1>0, <1>5 DEF RunSucceeds, CountSent
  <2> QED BY <1>0, <1>1, <2>1 DEF SendingOf, Ended
<1>6. ASSUME NEW c \in Cmds, RunFails(c) \/ RunRefused(c)
      PROVE  SendingOf(c)'
  <2>1. /\ pc[c] = "run" /\ tries'[c] = tries[c] - 1
        /\ pc'[c] = IF tries[c] > 1 THEN "check" ELSE "done"
        /\ sent'[c] = sent[c] \/ sent'[c] = sent[c] + 1
    BY <1>0, <1>6 DEF RunFails, RunRefused, CountSent, NextAttempt
  <2> QED BY <1>0, <1>1, <2>1, OptionAssumption DEF SendingOf, Ended
<1>7. ASSUME NEW c \in Cmds, RunUnavailable(c) PROVE SendingOf(c)'
  <2>1. CASE queueCommands
    BY <1>0, <1>1, <1>7, <2>1, SendingSame DEF RunUnavailable, Ended
  <2>2. CASE ~queueCommands
    <3>1. /\ pc[c] = "run" /\ tries'[c] = tries[c] - 1
          /\ pc'[c] = IF tries[c] > 1 THEN "check" ELSE "done"
          /\ sent'[c] = sent[c]
      BY <1>0, <1>7, <2>2 DEF RunUnavailable, NextAttempt
    <3> QED BY <1>0, <1>1, <3>1, OptionAssumption DEF SendingOf, Ended
  <2> QED BY <2>1, <2>2
<1>8. ASSUME NEW c \in Cmds, Enqueue(c) PROVE SendingOf(c)'
  <2>1. /\ pc[c] = "enqueue" /\ pc'[c] \in {"enqueue", "refused", "queued"}
        /\ UNCHANGED <<tries, sent>>
    BY <1>0, <1>8 DEF Enqueue
  <2> QED BY <1>1, <2>1, SendingSame DEF Ended
<1>9. ASSUME NEW c \in Cmds, Refused(c) \/ Done(c) PROVE SendingOf(c)'
  <2>1. /\ pc' = [pc EXCEPT ![c] = "done"] \/ pc' = [pc EXCEPT ![c] = "finished"]
        /\ UNCHANGED <<tries, sent>>
    BY <1>9 DEF Refused, Done
  <2> QED BY <1>0, <1>1, <2>1, SendingSame DEF Ended
<1>10. CASE RoutineRuns \/ RoutineDrops \/ StopDrain
  <2>1. PICK h \in Cmds : h = Head(cq)
    BY <1>10, Visiting DEF RoutineRuns, RoutineDrops, StopDrain
  <2>2. pc[h] = "queued"
    BY <1>10, <2>1, Visiting DEF RoutineRuns, RoutineDrops, StopDrain, OnePlace
  <2>3. /\ UNCHANGED <<tries, sent>>
        /\ pc'[h] \in {"begin", "lost", "finished"}
        /\ \A x \in Cmds \ {h} : pc'[x] = pc[x]
    BY <1>0, <1>10, <2>1 DEF RoutineRuns, RoutineDrops, StopDrain
  <2>4. SendingOf(h)'
    BY <1>1, <2>2, <2>3, SendingSame DEF Ended
  <2>5. ASSUME NEW x \in Cmds \ {h} PROVE SendingOf(x)'
    BY <1>1, <2>3, SendingSame
  <2> QED BY <2>4, <2>5 DEF Sending
<1>11. CASE \/ Tick \/ RoutineQuit \/ RoutineTick \/ RoutineCheck
            \/ RoutineSweep \/ RoutineSkips
            \/ Start \/ StopBegin \/ StopCloseChan \/ StopCount
            \/ StopSweep \/ StopDestroy \/ \E all \in BOOLEAN : StopNodes(all)
            \/ UNCHANGED vars
  <2>1. UNCHANGED <<tries, sent>> /\ \A x \in Cmds : pc'[x] = pc[x]
    BY <1>0, <1>11
    DEF Tick, RoutineQuit, RoutineTick, RoutineCheck, RoutineSweep,
        RoutineSkips, Start, StopBegin, StopCloseChan, StopCount, StopSweep,
        StopDestroy, StopNodes, vars
  <2> QED BY <1>1, <2>1, SendingSame DEF Sending
<1>12. ASSUME NEW c \in Cmds, Submit(c) \/ CmdNext(c) PROVE Sending'
  <2>1. SendingOf(c)'
    BY <1>3, <1>4, <1>5, <1>6, <1>7, <1>8, <1>9, <1>12 DEF CmdNext
  <2> QED BY <1>2, <1>12, <2>1 DEF Sending
<1> QED
  BY <1>10, <1>11, <1>12
  DEF Next, RoutineNext, OwnerNext

(* What a step may do to each variable: the cases the types depend on. *)

ControlChange ==
  /\ clState' \in {clState, clusterRunning, clusterShuttingDown, clusterShutdown}
  /\ cqOpen' \in {cqOpen, FALSE} /\ stopClosed' \in {stopClosed, TRUE}
  /\ tick' \in {tick, TRUE, FALSE}
  /\ panicked' \in {panicked, "closedQueue", "nodesRunning", "negativeWait"}
  /\ cqLock' \in {cqLock, NoProc, Routine, Owner}

QueueChange ==
  \/ cq' = cq
  \/ \E c \in Cmds : Len(cq) # QueueMaxDepth /\ cq' = Append(cq, c)
  \/ pc[Routine] = "visit" /\ cq' = Append(Tail(cq), Head(cq))
  \/ (pc[Routine] = "visit" \/ pc[Owner] = "drain") /\ cq' = Tail(cq)

RestChange ==
  \/ rest' = rest
  \/ \E p \in {Routine, Owner} : rest' = [rest EXCEPT ![p] = Len(cq)]
  \/ \E p \in {Routine, Owner} : rest' = [rest EXCEPT ![p] = 0]
  \/ pc[Routine] = "visit" /\ rest' = [rest EXCEPT ![Routine] = @ - 1]
  \/ pc[Owner] = "drain" /\ rest' = [rest EXCEPT ![Owner] = @ - 1]

TriesChange ==
  \/ tries' = tries
  \/ \E c \in Cmds, n \in {1, ExecutionAttempts} :
       tries' = [tries EXCEPT ![c] = n]
  \/ \E c \in Cmds : pc[c] = "run" /\ tries' = [tries EXCEPT ![c] = @ - 1]

ResultChange ==
  /\ err' = err \/ \E c \in Cmds, e \in BOOLEAN : err' = [err EXCEPT ![c] = e]
  /\ served' = served \/ \E c \in Cmds : served' = [served EXCEPT ![c] = TRUE]
  /\ sent' = sent \/ \E c \in Cmds : CountSent(c)
  /\ waiting' \in {waiting, Queued}
  /\ \/ returned' = returned
     \/ \E c \in Cmds, how \in {"nil", "error"} : Return(c, how)

CompletionChange ==
  \/ UNCHANGED <<done, failed>>
  \/ \E c \in Cmds : pc[c] = "refused" /\ AsyncDone(c, TRUE)
  \/ \E c \in Cmds : pc[c] = "done" /\ AsyncDone(c, err[c])
  \/ pc[Owner] = "drain" /\ AsyncDone(Head(cq), TRUE)

\* No action does anything else.
LEMMA Changes ==
  ASSUME [Next]_vars
  PROVE  /\ ControlChange /\ QueueChange /\ RestChange /\ TriesChange
         /\ ResultChange /\ CompletionChange
<1> USE DEF shared, local, record, Next, CmdNext, RoutineNext, OwnerNext, vars,
        Submit, Begin, Check, RunSucceeds, RunFails, RunRefused,
        RunUnavailable, EnqueueCheck, Enqueue, Refused, Done, Tick,
        RoutineQuit, RoutineTick, RoutineCheck, RoutineSweep, RoutineRuns,
        RoutineSkips, RoutineDrops, Start, StopBegin, StopCloseChan, StopCount,
        StopSweep, StopDrain, StopDestroy, StopNodes
<1>1. ControlChange
  <2>1. clState' \in {clState, clusterRunning, clusterShuttingDown,
                      clusterShutdown}
    OBVIOUS
  <2>2. cqOpen' \in {cqOpen, FALSE}
    OBVIOUS
  <2>3. stopClosed' \in {stopClosed, TRUE}
    OBVIOUS
  <2>4. tick' \in {tick, TRUE, FALSE}
    OBVIOUS
  <2>5. panicked' \in {panicked, "closedQueue", "nodesRunning", "negativeWait"}
    BY DEF AsyncDone
  <2>6. cqLock' \in {cqLock, NoProc, Routine, Owner}
    OBVIOUS
  <2> QED
    BY ONLY <2>1, <2>2, <2>3, <2>4, <2>5, <2>6 DEF ControlChange
<1>2. QueueChange
  BY DEF QueueChange
<1>3. RestChange
  BY DEF RestChange
<1>4. TriesChange
  BY DEF NextAttempt, TriesChange
<1>5. ResultChange
  <2>1. err' = err \/ \E c \in Cmds, e \in BOOLEAN : err' = [err EXCEPT ![c] = e]
    BY DEF NextAttempt
  <2>2. served' = served \/ \E c \in Cmds : served' = [served EXCEPT ![c] = TRUE]
    OBVIOUS
  <2>3. sent' = sent \/ \E c \in Cmds : CountSent(c)
    OBVIOUS
  <2>4. \/ returned' = returned
        \/ \E c \in Cmds, how \in {"nil", "error"} : Return(c, how)
    OBVIOUS
  <2>5. waiting' \in {waiting, Queued}
    OBVIOUS
  <2> QED BY ONLY <2>1, <2>2, <2>3, <2>4, <2>5 DEF ResultChange
<1>6. CompletionChange
  BY DEF CompletionChange
<1> QED
  BY ONLY <1>1, <1>2, <1>3, <1>4, <1>5, <1>6

\* Every step keeps the types.
LEMMA TypeStep ==
  ASSUME TypeOK, Iterating, OnePlace, Progress, Sending, [Next]_vars
  PROVE  TypeOK'
<1>1. PcOK'
  BY PcStep
<1>2. /\ clState' \in clusterCreated..clusterShutdown
      /\ cqOpen' \in BOOLEAN /\ stopClosed' \in BOOLEAN /\ tick' \in BOOLEAN
      /\ panicked' \in {"no", "closedQueue", "nodesRunning", "negativeWait"}
      /\ cqLock' \in Procs \cup {NoProc}
  <2>1. ControlChange
    BY Changes
  <2>2. clState' \in clusterCreated..clusterShutdown
    BY <2>1 DEF ControlChange, TypeOK, clusterCreated,
                clusterRunning, clusterShuttingDown, clusterShutdown
  <2>3. cqOpen' \in BOOLEAN /\ stopClosed' \in BOOLEAN /\ tick' \in BOOLEAN
    BY <2>1 DEF ControlChange, TypeOK
  <2>4. /\ panicked' \in {"no", "closedQueue", "nodesRunning", "negativeWait"}
        /\ cqLock' \in Procs \cup {NoProc}
    BY <2>1 DEF ControlChange, TypeOK, Procs
  <2> QED BY <2>2, <2>3, <2>4
<1>3. cq' \in Seq(Cmds) /\ Len(cq') <= QueueMaxDepth
  <2>1. cq \in Seq(Cmds) /\ Len(cq) \in 0..QueueMaxDepth /\ QueueMaxDepth \in Nat
    BY OptionAssumption DEF TypeOK
  <2>2. QueueChange
    BY Changes
  <2>3. ASSUME NEW c \in Cmds, Len(cq) # QueueMaxDepth, cq' = Append(cq, c)
        PROVE  cq' \in Seq(Cmds) /\ Len(cq') <= QueueMaxDepth
    BY <2>1, <2>3, Appended
  <2>4. ASSUME pc[Routine] = "visit" \/ pc[Owner] = "drain",
               cq' = Tail(cq) \/ cq' = Append(Tail(cq), Head(cq))
        PROVE  cq' \in Seq(Cmds) /\ Len(cq') <= QueueMaxDepth
    <3>1. /\ Tail(cq) \in Seq(Cmds) /\ Len(Tail(cq)) = Len(cq) - 1
          /\ Head(cq) \in Cmds
      BY <2>4, Visiting
    <3>2. /\ Append(Tail(cq), Head(cq)) \in Seq(Cmds)
          /\ Len(Append(Tail(cq), Head(cq))) = Len(cq)
      BY <2>1, <3>1, Appended
    <3> QED BY <2>1, <2>4, <3>1, <3>2
  <2> QED BY <2>1, <2>2, <2>3, <2>4 DEF QueueChange
<1>4. rest' \in [{Routine, Owner} -> 0..QueueMaxDepth]
  <2>1. /\ rest \in [{Routine, Owner} -> 0..QueueMaxDepth]
        /\ Len(cq) \in 0..QueueMaxDepth /\ QueueMaxDepth \in Nat
    BY OptionAssumption DEF TypeOK
  <2>2. /\ pc[Routine] = "visit" => rest[Routine] \in 1..Len(cq)
        /\ pc[Owner] = "drain" => rest[Owner] \in 1..Len(cq)
    BY DEF Iterating
  <2>3. RestChange
    BY Changes
  <2> QED BY <2>1, <2>2, <2>3 DEF RestChange
<1>5. tries' \in [Cmds -> 0..ExecutionAttempts]
  <2>1. /\ tries \in [Cmds -> 0..ExecutionAttempts]
        /\ ExecutionAttempts \in Nat /\ ExecutionAttempts >= 1
    BY OptionAssumption DEF TypeOK
  <2>2. \A c \in Cmds : pc[c] = "run" => tries[c] > 0
    BY DEF Sending, SendingOf
  <2>3. TriesChange
    BY Changes
  <2> QED BY <2>1, <2>2, <2>3 DEF TriesChange
<1>6. err' \in [Cmds -> BOOLEAN] /\ served' \in [Cmds -> BOOLEAN]
  BY Changes DEF ResultChange, TypeOK
<1>7. sent' \in [Cmds -> 0..SentBound]
  <2>1. sent \in [Cmds -> 0..SentBound] /\ SentBound \in Nat
    BY OptionAssumption DEF TypeOK, SentBound
  <2>2. sent' = sent \/ \E c \in Cmds : CountSent(c)
    BY Changes DEF ResultChange
  <2> QED BY <2>1, <2>2 DEF CountSent
<1>8. done' \in [Cmds -> 0..2] /\ failed' \in [Cmds -> BOOLEAN]
  <2>1. /\ done \in [Cmds -> 0..2] /\ failed \in [Cmds -> BOOLEAN]
        /\ err \in [Cmds -> BOOLEAN]
    BY DEF TypeOK
  <2>2. ASSUME NEW c \in Cmds, NEW e \in BOOLEAN, AsyncDone(c, e), done[c] <= 1
        PROVE  done' \in [Cmds -> 0..2] /\ failed' \in [Cmds -> BOOLEAN]
    <3>1. done[c] + 1 \in 0..2
      BY <2>1, <2>2
    <3> QED BY <2>1, <2>2, <3>1 DEF AsyncDone
  <2>3. ASSUME NEW c \in Cmds, pc[c] \in {"refused", "done", "queued"}
        PROVE  done[c] <= 1
    BY <2>1, <2>3 DEF Progress, ProgressOf, Ended
  <2>4. pc[Owner] = "drain" => Head(cq) \in Cmds /\ pc[Head(cq)] = "queued"
    BY Visiting DEF OnePlace
  <2>5. CompletionChange
    BY Changes
  <2> QED BY <2>1, <2>2, <2>3, <2>4, <2>5 DEF CompletionChange
<1>9. returned' \in [Cmds -> {"no", "nil", "error"}]
  <2>1. \/ returned' = returned
        \/ \E c \in Cmds, how \in {"nil", "error"} : Return(c, how)
    BY Changes DEF ResultChange
  <2> QED BY <2>1 DEF TypeOK, Return
<1>10. waiting' \subseteq Cmds
  <2>1. waiting \subseteq Cmds /\ Queued \subseteq Cmds
    BY DEF TypeOK, Queued
  <2> QED BY <2>1, Changes DEF ResultChange
<1> QED
  BY <1>1, <1>2, <1>3, <1>4, <1>5, <1>6, <1>7, <1>8, <1>9, <1>10 DEF TypeOK

\* A new cluster meets the invariant.
LEMMA InitInv == Init => IndInv
<1> SUFFICES ASSUME Init PROVE IndInv
  OBVIOUS
<1>0. ExecutionAttempts \in Nat /\ QueueMaxDepth \in Nat /\ SentBound \in Nat
  BY OptionAssumption DEF SentBound
<1> USE CmdAssumption, OptionAssumption DEF Init
<1>1. PcOK
  BY DEF PcOK, Procs, Routine, Owner, CmdPC, RoutinePC, OwnerPC
<1>2. /\ \A c \in Cmds : pc[c] = "new"
      /\ pc[Routine] # "visit" /\ pc[Owner] # "drain"
  BY DEF Procs, Routine, Owner
<1>3. TypeOK
  <2>1. /\ clState \in clusterCreated..clusterShutdown
        /\ cq \in Seq(Cmds) /\ Len(cq) <= QueueMaxDepth
    BY DEF clusterCreated, clusterShutdown
  <2>2. /\ tries \in [Cmds -> 0..ExecutionAttempts]
        /\ rest \in [{Routine, Owner} -> 0..QueueMaxDepth]
        /\ done \in [Cmds -> 0..2] /\ sent \in [Cmds -> 0..SentBound]
    <3>1. /\ tries = [c \in Cmds |-> 0] /\ done = [c \in Cmds |-> 0]
          /\ sent = [c \in Cmds |-> 0] /\ rest = [p \in {Routine, Owner} |-> 0]
      OBVIOUS
    <3> HIDE CmdAssumption, OptionAssumption DEF Init
    <3> QED BY <1>0, <3>1
  <2>3. /\ err \in [Cmds -> BOOLEAN] /\ failed \in [Cmds -> BOOLEAN]
        /\ served \in [Cmds -> BOOLEAN]
        /\ returned \in [Cmds -> {"no", "nil", "error"}]
    OBVIOUS
  <2> QED BY <1>1, <2>1, <2>2, <2>3 DEF TypeOK
<1>4. Iterating /\ OnePlace
  BY <1>2 DEF Iterating, OnePlace, Queued
<1>5. Progress /\ Sending
  BY <1>2 DEF Progress, ProgressOf, Sending, SendingOf, Ended
<1> QED
  BY <1>3, <1>4, <1>5 DEF IndInv

\* Types, iterations, the place of each command and what is known of it there:
\* the inductive invariant of the cluster.
THEOREM Invariance == Spec => []IndInv
<1>1. IndInv /\ [Next]_vars => IndInv'
  BY TypeStep, IteratingStep, OnePlaceStep, ProgressStep, SendingStep DEF IndInv
<1> QED
  BY <1>1, InitInv, PTL DEF Spec

\* Every variable keeps its type; in particular the queue never grows beyond
\* queueMaxDepth and a command is completed at most twice.
THEOREM TypeCorrect == Spec => []TypeOK
<1>1. IndInv => TypeOK
  BY DEF IndInv
<1> QED
  BY <1>1, Invariance, PTL

\* execute, the queue routine and Stop never have one command at two places.
THEOREM Placement == Spec => []OnePlace
<1>1. IndInv => OnePlace
  BY DEF IndInv
<1> QED
  BY <1>1, Invariance, PTL

\* A command whose completion was announced is not touched again.
THEOREM Finality == Spec => []CompletedIsFinal
<1>1. IndInv => CompletedIsFinal
  BY DEF IndInv, TypeOK, OnePlace, Progress, ProgressOf, CompletedIsFinal, Ended
<1> QED
  BY <1>1, Invariance, PTL

\* A completed command carries an error exactly when Riak did not serve it.
THEOREM Truthfulness == Spec => []TruthfulCompletion
<1>1. ASSUME IndInv, NEW c \in Cmds, done[c] > 0
      PROVE  served[c] <=> ~failed[c]
  <2>1. ProgressOf(c) /\ done[c] \in 0..2
    BY <1>1 DEF IndInv, Progress, TypeOK
  <2> QED BY <1>1, <2>1 DEF ProgressOf, Ended
<1>2. IndInv => TruthfulCompletion
  BY <1>1 DEF TruthfulCompletion
<1> QED
  BY <1>2, Invariance, PTL

\* A command that is not retryable is sent at most once, whatever happens to it.
THEOREM AtMostOnce == Spec => []SingleShot
<1>1. IndInv => SingleShot
  BY DEF IndInv, Sending, SendingOf, SingleShot
<1> QED
  BY <1>1, Invariance, PTL
-----------------------------------------------------------------------------
(* A cluster without a command queue *)

\* Where a command can be without a queue, and how the attempts it has left and
\* the attempts it has made add up.
DirectOf(c) ==
  /\ pc[c] \in {"new", "begin", "check", "run", "done", "finished"}
  /\ pc[c] # "finished" => done[c] = 0
  /\ done[c] <= 1
  /\ pc[c] \in {"new", "begin"} => sent[c] = 0
  /\ pc[c] \in {"check", "run"} => sent[c] + tries[c] <= ExecutionAttempts
  /\ sent[c] <= ExecutionAttempts
Direct == \A c \in Cmds : DirectOf(c)

\* Without a queue every attempt that fails is counted, and execute completes
\* the command in one place only.
LEMMA DirectStep ==
  ASSUME ~queueCommands, IndInv, Direct, [Next]_vars
  PROVE  Direct'
<1> USE CmdAssumption DEF Procs, Routine, Owner, Goto, shared, local, record
<1>0. /\ pc \in [Procs -> CmdPC \cup RoutinePC \cup OwnerPC]
      /\ tries \in [Cmds -> 0..ExecutionAttempts]
      /\ sent \in [Cmds -> 0..SentBound] /\ done \in [Cmds -> 0..2]
      /\ ExecutionAttempts \in Nat /\ ExecutionAttempts >= 1
      /\ SentBound = ExecutionAttempts + 1
  BY OptionAssumption DEF IndInv, TypeOK, PcOK, SentBound
<1>1. ASSUME NEW x \in Cmds PROVE DirectOf(x) /\ SendingOf(x)
  BY DEF Direct, IndInv, Sending
<1>2. ASSUME NEW x \in Cmds, pc'[x] = pc[x], tries'[x] = tries[x],
             sent'[x] = sent[x], done'[x] = done[x]
      PROVE  DirectOf(x)'
  BY <1>1, <1>2 DEF DirectOf
<1>3. ASSUME NEW c \in Cmds, Submit(c) \/ CmdNext(c), NEW x \in Cmds, x # c
      PROVE  DirectOf(x)'
  <2>1. pc'[x] = pc[x]
    BY <1>3, CmdMoves DEF IndInv
  <2>2. tries'[x] = tries[x] /\ sent'[x] = sent[x] /\ done'[x] = done[x]
    BY <1>0, <1>3
    DEF CmdNext, Submit, Begin, Check, RunSucceeds, RunFails, RunRefused,
        RunUnavailable, NextAttempt, CountSent, EnqueueCheck, Enqueue, Refused,
        Done, AsyncDone
  <2> QED BY <1>2, <2>1, <2>2
<1>4. ASSUME NEW c \in Cmds, Submit(c) \/ Check(c) PROVE DirectOf(c)'
  BY <1>0, <1>1, <1>4 DEF Submit, Check, DirectOf
<1>5. ASSUME NEW c \in Cmds, Begin(c) PROVE DirectOf(c)'
  <2>1. /\ pc[c] = "begin" /\ pc'[c] = "check" /\ sent'[c] = sent[c]
        /\ tries'[c] \in {1, ExecutionAttempts} /\ done'[c] = done[c]
    BY <1>0, <1>5 DEF Begin
  <2> QED BY <1>0, <1>1, <2>1 DEF DirectOf
<1>6. ASSUME NEW c \in Cmds, RunSucceeds(c) PROVE DirectOf(c)'
  <2>1. /\ pc[c] = "run" /\ pc'[c] = "done" /\ done'[c] = done[c]
        /\ sent'[c] <= sent[c] + 1 /\ tries[c] > 0
    BY <1>0, <1>1, <1>6 DEF RunSucceeds, CountSent, SendingOf
  <2>2. sent'[c] \in Nat
    BY <1>0, <1>6 DEF RunSucceeds, CountSent
  <2> QED BY <1>0, <1>1, <2>1, <2>2 DEF DirectOf
<1>7. ASSUME NEW c \in Cmds, RunFails(c) \/ RunRefused(c) \/ RunUnavailable(c)
      PROVE  DirectOf(c)'
  <2>1. /\ pc[c] = "run" /\ tries'[c] = tries[c] - 1 /\ done'[c] = done[c]
        /\ pc'[c] = IF tries[c] > 1 THEN "check" ELSE "done"
        /\ sent'[c] = sent[c] \/ sent'[c] = sent[c] + 1
    BY <1>0, <1>7
    DEF RunFails, RunRefused, RunUnavailable, CountSent, NextAttempt
  <2>2. tries[c] > 0
    BY <1>1, <2>1 DEF SendingOf
  <2> QED BY <1>0, <1>1, <2>1, <2>2 DEF DirectOf
<1>8. ASSUME NEW c \in Cmds, EnqueueCheck(c) \/ Enqueue(c) \/ Refused(c)
      PROVE  FALSE
  BY <1>1, <1>8 DEF EnqueueCheck, Enqueue, Refused, DirectOf
<1>9. ASSUME NEW c \in Cmds, Done(c) PROVE DirectOf(c)'
  <2>1. pc[c] = "done" /\ pc'[c] = "finished" /\ UNCHANGED <<tries, sent>>
    BY <1>0, <1>9 DEF Done
  <2>2. done'[c] = done[c] + 1
    BY <1>0, <1>9 DEF Done, AsyncDone
  <2> QED BY <1>1, <2>1, <2>2 DEF DirectOf
<1>10. ASSUME pc[Routine] = "visit" \/ pc[Owner] = "drain" PROVE FALSE
  <2>1. PICK h \in Cmds : h = Head(cq) /\ h \in Queued
    BY <1>10, Visiting DEF IndInv
  <2>2. pc[h] = "queued"
    BY <2>1 DEF IndInv, OnePlace
  <2> QED BY <1>1, <2>2 DEF DirectOf
<1>11. CASE RoutineRuns \/ RoutineSkips \/ RoutineDrops \/ StopDrain
  BY <1>10, <1>11 DEF RoutineRuns, RoutineSkips, RoutineDrops, StopDrain
<1>12. CASE \/ Tick \/ RoutineQuit \/ RoutineTick \/ RoutineCheck
            \/ RoutineSweep
            \/ Start \/ StopBegin \/ StopCloseChan \/ StopCount
            \/ StopSweep \/ StopDestroy \/ \E all \in BOOLEAN : StopNodes(all)
            \/ UNCHANGED vars
  <2>1. UNCHANGED <<tries, sent, done>> /\ \A x \in Cmds : pc'[x] = pc[x]
    BY <1>0, <1>12
    DEF Tick, RoutineQuit, RoutineTick, RoutineCheck, RoutineSweep,
        Start, StopBegin, StopCloseChan, StopCount, StopSweep,
        StopDestroy, StopNodes, vars
  <2> QED BY <1>2, <2>1 DEF Direct
<1>13. ASSUME NEW c \in Cmds, Submit(c) \/ CmdNext(c) PROVE Direct'
  <2>1. DirectOf(c)'
    BY <1>4, <1>5, <1>6, <1>7, <1>8, <1>9, <1>13 DEF CmdNext
  <2> QED BY <1>3, <1>13, <2>1 DEF Direct
<1> QED
  BY <1>11, <1>12, <1>13 DEF Next, RoutineNext, OwnerNext

\* Without a queue a command is completed at most once and sent at most
\* executionAttempts times.
THEOREM WithoutQueue ==
  ASSUME ~queueCommands
  PROVE  Spec => [](CompletedOnce /\ AttemptsBounded)
<1>1. Init => Direct
  <2>1. Init => \A c \in Cmds : pc[c] = "new" /\ done[c] = 0 /\ sent[c] = 0
    BY CmdAssumption DEF Init, Procs
  <2> QED BY <2>1, OptionAssumption DEF Direct, DirectOf
<1>2. IndInv /\ Direct /\ [Next]_vars => Direct'
  BY DirectStep
<1>3. Direct => CompletedOnce /\ AttemptsBounded
  BY DEF Direct, DirectOf, CompletedOnce, AttemptsBounded
<1> QED
  BY <1>1, <1>2, <1>3, Invariance, PTL DEF Spec
-----------------------------------------------------------------------------
(* A queue with room for every command, in a cluster that is not stopped *)

\* A command that is not queued leaves one of the others' places free.
LEMMA RoomForOneMore ==
  ASSUME TypeOK, OnePlace, NEW c \in Cmds, pc[c] # "queued"
  PROVE  Len(cq) < Cardinality(Cmds)
<1>1. cq \in Seq(Cmds) /\ Len(cq) \in Nat /\ IsFiniteSet(Cmds)
  BY CmdAssumption DEF TypeOK
<1>2. /\ IsFiniteSet(1..Len(cq)) /\ Cardinality(1..Len(cq)) = Len(cq)
  BY <1>1, FS_Interval
<1>3. /\ IsFiniteSet(Cmds \ {c})
      /\ Cardinality(Cmds \ {c}) = Cardinality(Cmds) - 1
      /\ Cardinality(Cmds) \in Nat
  BY <1>1, FS_RemoveElement, FS_CardinalityType
<1>4. cq \in [1..Len(cq) -> Cmds \ {c}]
  <2>1. \A i \in 1..Len(cq) : cq[i] \in Cmds \ {c}
    BY <1>1 DEF OnePlace, Queued
  <2>2. cq \in [1..Len(cq) -> Cmds]
    BY <1>1
  <2> QED BY <2>1, <2>2
<1>5. CASE Cardinality(Cmds \ {c}) < Len(cq)
  <2>1. \E i, j \in 1..Len(cq) : i # j /\ cq[i] = cq[j]
    BY <1>2, <1>3, <1>4, <1>5, FS_PigeonHole
  <2> QED BY <2>1 DEF OnePlace
<1> QED
  BY <1>1, <1>3, <1>5

\* No command is refused, so only the end of execute completes one.
RoomyOf(c) ==
  /\ pc[c] # "refused"
  /\ pc[c] # "finished" => done[c] = 0
  /\ done[c] <= 1
Roomy ==
  /\ clState \in {clusterCreated, clusterRunning}
  /\ pc[Owner] \in {"created", "running"}
  /\ \A c \in Cmds : RoomyOf(c)

\* A step leaves a command alone.
LEMMA RoomySame ==
  ASSUME NEW c \in Cmds, RoomyOf(c), done'[c] = done[c], pc'[c] = pc[c]
  PROVE  RoomyOf(c)'
  BY DEF RoomyOf

\* A command that is not completed moves on without being refused.
LEMMA RoomyOn ==
  ASSUME NEW c \in Cmds, RoomyOf(c), done'[c] = done[c],
         pc[c] # "finished", pc'[c] # "refused"
  PROVE  RoomyOf(c)'
  BY DEF RoomyOf

\* A running cluster whose queue has room for every command refuses none.
LEMMA RoomyStep ==
  ASSUME ~CanStop, Cardinality(Cmds) <= QueueMaxDepth, IndInv, Roomy,
         [Next]_vars
  PROVE  Roomy'
<1> USE CmdAssumption DEF Procs, Routine, Owner, Goto, shared, local, record,
        clusterCreated, clusterRunning
<1>0. /\ pc \in [Procs -> CmdPC \cup RoutinePC \cup OwnerPC]
      /\ done \in [Cmds -> 0..2]
  BY DEF IndInv, TypeOK, PcOK
<1>1. ASSUME NEW x \in Cmds PROVE RoomyOf(x)
  BY DEF Roomy
<1>2. ASSUME NEW c \in Cmds, Submit(c) \/ CmdNext(c)
      PROVE  /\ clState' = clState /\ pc'[Owner] = pc[Owner]
             /\ \A x \in Cmds \ {c} : pc'[x] = pc[x] /\ done'[x] = done[x]
  <2>1. \A p \in Procs \ {c} : pc'[p] = pc[p]
    BY <1>2, CmdMoves DEF IndInv
  <2>2. \A x \in Cmds \ {c} : done'[x] = done[x]
    BY <1>0, <1>2
    DEF CmdNext, Submit, Begin, Check, RunSucceeds, RunFails, RunRefused,
        RunUnavailable, EnqueueCheck, Enqueue, Refused, Done, AsyncDone
  <2>3. clState' = clState
    BY <1>2
    DEF CmdNext, Submit, Begin, Check, RunSucceeds, RunFails, RunRefused,
        RunUnavailable, EnqueueCheck, Enqueue, Refused, Done
  <2> QED BY <2>1, <2>2, <2>3
<1>3. ASSUME NEW c \in Cmds, Submit(c) \/ Begin(c) \/ Check(c) PROVE RoomyOf(c)'
  BY <1>0, <1>1, <1>3, RoomyOn DEF Submit, Begin, Check
<1>4. ASSUME NEW c \in Cmds,
             RunSucceeds(c) \/ RunFails(c) \/ RunRefused(c) \/ RunUnavailable(c)
      PROVE  RoomyOf(c)'
  BY <1>0, <1>1, <1>4, RoomyOn
  DEF RunSucceeds, RunFails, RunRefused, RunUnavailable, NextAttempt
<1>5. ASSUME NEW c \in Cmds, EnqueueCheck(c) PROVE RoomyOf(c)'
  <2>1. isStateLessThan(clusterShuttingDown)
    BY DEF Roomy, isStateLessThan, clusterShuttingDown
  <2> QED BY <1>0, <1>1, <1>5, <2>1, RoomyOn DEF EnqueueCheck
<1>6. ASSUME NEW c \in Cmds, Enqueue(c) PROVE RoomyOf(c)'
  <2>1. Len(cq) < QueueMaxDepth
    <3>1. Len(cq) < Cardinality(Cmds)
      BY <1>6, RoomForOneMore DEF Enqueue, IndInv
    <3>2. Len(cq) \in Nat /\ Cardinality(Cmds) \in Nat /\ QueueMaxDepth \in Nat
      BY OptionAssumption, FS_CardinalityType DEF IndInv, TypeOK
    <3> QED BY <3>1, <3>2
  <2>2. pc[c] = "enqueue" /\ pc'[c] \in {"enqueue", "queued"} /\ done' = done
    BY <1>0, <1>6, <2>1 DEF Enqueue
  <2> QED BY <1>1, <2>2, RoomyOn
<1>7. ASSUME NEW c \in Cmds, Refused(c) PROVE FALSE
  BY <1>1, <1>7 DEF Refused, RoomyOf
<1>8. ASSUME NEW c \in Cmds, Done(c) PROVE RoomyOf(c)'
  <2>1. pc[c] = "done" /\ pc'[c] = "finished"
    BY <1>0, <1>8 DEF Done
  <2>2. done'[c] = done[c] + 1
    BY <1>0, <1>8 DEF Done, AsyncDone
  <2> QED BY <1>1, <2>1, <2>2 DEF RoomyOf
<1>9. CASE RoutineRuns \/ RoutineDrops
  <2>1. PICK h \in Cmds : h = Head(cq)
    BY <1>9, Visiting DEF RoutineRuns, RoutineDrops, IndInv
  <2>2. pc[h] = "queued"
    BY <1>9, <2>1, Visiting DEF RoutineRuns, RoutineDrops, OnePlace, IndInv
  <2>3. /\ UNCHANGED <<clState, done>> /\ pc'[Owner] = pc[Owner]
        /\ pc'[h] \in {"begin", "lost"}
        /\ \A x \in Cmds \ {h} : pc'[x] = pc[x]
    BY <1>0, <1>9, <2>1 DEF RoutineRuns, RoutineDrops
  <2>4. RoomyOf(h)'
    BY <1>1, <2>2, <2>3, RoomyOn
  <2>5. ASSUME NEW x \in Cmds \ {h} PROVE RoomyOf(x)'
    BY <1>1, <2>3, RoomySame
  <2> QED BY <2>3, <2>4, <2>5 DEF Roomy
<1>10. CASE \/ Tick \/ RoutineQuit \/ RoutineTick \/ RoutineCheck
            \/ RoutineSweep \/ RoutineSkips \/ UNCHANGED vars
  <2>1. /\ UNCHANGED <<clState, done>> /\ pc'[Owner] = pc[Owner]
        /\ \A x \in Cmds : pc'[x] = pc[x]
    BY <1>0, <1>10
    DEF Tick, RoutineQuit, RoutineTick, RoutineCheck, RoutineSweep,
        RoutineSkips, vars
  <2>2. \A x \in Cmds : RoomyOf(x)'
    BY <1>1, <2>1, RoomySame
  <2> QED BY <2>1, <2>2 DEF Roomy
<1>11. CASE OwnerNext
  <2>1. Start
    BY <1>11 DEF OwnerNext, Roomy, StopBegin, StopCloseChan, StopCount,
                 StopSweep, StopDrain, StopDestroy, StopNodes
  <2>2. /\ clState' = clusterRunning /\ pc'[Owner] = "running" /\ done' = done
        /\ \A x \in Cmds : pc'[x] = pc[x]
    BY <1>0, <2>1 DEF Start
  <2>3. \A x \in Cmds : RoomyOf(x)'
    BY <1>1, <2>2, RoomySame
  <2> QED BY <2>2, <2>3 DEF Roomy
<1>12. ASSUME NEW c \in Cmds, Submit(c) \/ CmdNext(c) PROVE Roomy'
  <2>1. RoomyOf(c)'
    BY <1>3, <1>4, <1>5, <1>6, <1>7, <1>8, <1>12 DEF CmdNext
  <2>2. ASSUME NEW x \in Cmds \ {c} PROVE RoomyOf(x)'
    BY <1>1, <1>2, <1>12, RoomySame
  <2> QED BY <1>2, <1>12, <2>1, <2>2 DEF Roomy
<1> QED
  BY <1>9, <1>10, <1>11, <1>12 DEF Next, RoutineNext

\* The queue of a cluster that nobody stops keeps its room.
LEMMA StaysRoomy ==
  ASSUME ~CanStop, Cardinality(Cmds) <= QueueMaxDepth
  PROVE  Spec => []Roomy
<1>1. Init => Roomy
  <2>1. Init => /\ \A c \in Cmds : pc[c] = "new" /\ done[c] = 0
                /\ clState = clusterCreated /\ pc[Owner] = "created"
    BY CmdAssumption DEF Init, Procs, Routine, Owner
  <2> QED BY <2>1 DEF Roomy, RoomyOf
<1>2. IndInv /\ Roomy /\ [Next]_vars => Roomy'
  BY RoomyStep
<1> QED
  BY <1>1, <1>2, Invariance, PTL DEF Spec

\* While the cluster runs and its queue has room for every command, a command
\* is completed at most once.  A queue that can be full, or Stop, breaks this:
\* enqueueCommand completes what it refuses and execute completes it again.
THEOREM WithRoom ==
  ASSUME ~CanStop, Cardinality(Cmds) <= QueueMaxDepth
  PROVE  Spec => []CompletedOnce
<1>1. Roomy => CompletedOnce
  BY DEF Roomy, RoomyOf, CompletedOnce
<1> QED
  BY <1>1, StaysRoomy, PTL

\* Without a queue no command is sent more than executionAttempts times.
THEOREM Attempts == Spec => []AttemptsBounded
<1>1. CASE queueCommands
  <2>1. AttemptsBounded
    BY <1>1 DEF AttemptsBounded
  <2> QED BY <2>1, PTL
<1>2. CASE ~queueCommands
  BY <1>2, WithoutQueue, PTL
<1> QED BY <1>1, <1>2
-----------------------------------------------------------------------------
(* Stop *)

\* The state follows the owner, and Stop closes the queue after it has set it.
StopOrder ==
  /\ pc[Owner] \notin {"created", "running"} => clState >= clusterShuttingDown
  /\ ~cqOpen => clState >= clusterShuttingDown

\* Every step keeps that order.
LEMMA StopOrderStep ==
  ASSUME IndInv, StopOrder, [Next]_vars
  PROVE  StopOrder'
<1> USE CmdAssumption
    DEF StopOrder, IndInv, TypeOK, PcOK, Procs, Routine, Owner,
        Goto, shared, local, record, clusterCreated, clusterRunning,
        clusterShuttingDown, clusterShutdown
<1>1. ASSUME NEW c \in Cmds, Submit(c) \/ Begin(c) \/ Check(c) \/ RunSucceeds(c) \/
             RunFails(c) \/ RunRefused(c) \/ RunUnavailable(c) \/ EnqueueCheck(c) \/
             Refused(c) \/ Done(c)
      PROVE  StopOrder'
  <2>1. /\ pc'[Owner] = pc[Owner] /\ clState' = clState /\ cqOpen' = cqOpen
    BY <1>1
    DEF Submit, Begin, Check, RunSucceeds, RunFails, RunRefused, RunUnavailable,
        EnqueueCheck, Refused, Done, NextAttempt
  <2> QED BY <2>1
<1>2. ASSUME NEW c \in Cmds, Enqueue(c) PROVE StopOrder'
  BY <1>2 DEF Enqueue
<1>3. CASE Tick \/ RoutineQuit \/ RoutineTick \/ RoutineCheck \/ RoutineSweep \/ RoutineSkips
  BY <1>3 DEF Tick, RoutineQuit, RoutineTick, RoutineCheck, RoutineSweep, RoutineSkips
<1>4. CASE RoutineRuns \/ RoutineDrops
  <2>1. Head(cq) \in Cmds
    BY <1>4, Visiting DEF RoutineRuns, RoutineDrops
  <2> QED BY <1>4, <2>1 DEF RoutineRuns, RoutineDrops
<1>5. CASE StopDrain
  <2>1. Head(cq) \in Cmds
    BY <1>5, Visiting DEF StopDrain
  <2> QED BY <1>5, <2>1 DEF StopDrain
<1>6. CASE Start \/ StopBegin \/ StopCloseChan \/ StopCount \/ StopSweep \/ StopDestroy
  BY <1>6 DEF Start, StopBegin, StopCloseChan, StopCount, StopSweep, StopDestroy,
              stateCheckRunning
<1>7. ASSUME NEW all \in BOOLEAN, StopNodes(all) PROVE StopOrder'
  BY <1>7 DEF StopNodes
<1>8. CASE UNCHANGED vars
  BY <1>8 DEF vars
<1> QED
  BY <1>1, <1>2, <1>3, <1>4, <1>5, <1>6, <1>7, <1>8
  DEF Next, CmdNext, RoutineNext, OwnerNext

\* Only the steps that complete a command, enqueue one or end Stop can panic.
LEMMA PanicStep ==
  ASSUME IndInv, StopOrder, PanicExplained, [Next]_vars
  PROVE  PanicExplained'
<1>1. CASE panicked' = panicked
  <2>1. CASE panicked = "no"
    BY <1>1, <2>1 DEF PanicExplained
  <2>2. CASE panicked # "no"
    <3>1. UNCHANGED vars
      BY <2>2 DEF Next
    <3> QED BY <3>1 DEF vars, shared, record, PanicExplained
  <2> QED BY <2>1, <2>2
<1>2. ASSUME NEW c \in Cmds, AsyncDone(c, TRUE) \/ AsyncDone(c, err[c]),
             pc[c] \in {"refused", "done", "queued"}, served' = served,
             panicked' # panicked
      PROVE  PanicExplained'
  <2>1. c \in Waited /\ done[c] > 0 /\ panicked' = "negativeWait"
    BY <1>2 DEF AsyncDone
  <2>2. ProgressOf(c) /\ done \in [Cmds -> 0..2] /\ failed \in [Cmds -> BOOLEAN]
    BY DEF IndInv, Progress, TypeOK
  <2>3. pc[c] = "done" /\ done[c] = 1 /\ failed[c] /\ err[c] /\ ~served[c]
    BY <1>2, <2>1, <2>2 DEF ProgressOf, Ended
  <2>4. done'[c] = 2 /\ failed'[c] /\ ~served'[c]
    BY <1>2, <2>2, <2>3 DEF AsyncDone
  <2> QED BY <2>1, <2>4 DEF PanicExplained
<1>3. ASSUME NEW c \in Cmds, Refused(c) \/ Done(c), panicked' # panicked
      PROVE  PanicExplained'
  BY <1>2, <1>3 DEF Refused, Done
<1>4. ASSUME StopDrain, panicked' # panicked PROVE PanicExplained'
  <2>1. Head(cq) \in Cmds /\ pc[Head(cq)] = "queued"
    BY <1>4, Visiting DEF StopDrain, IndInv, OnePlace
  <2> QED BY <1>2, <1>4, <2>1 DEF StopDrain
<1>5. ASSUME NEW c \in Cmds, Enqueue(c), panicked' # panicked
      PROVE  PanicExplained'
  BY <1>5 DEF Enqueue, StopOrder, PanicExplained
<1>6. ASSUME NEW all \in BOOLEAN, StopNodes(all), panicked' # panicked
      PROVE  PanicExplained'
  <2>1. panicked' = "nodesRunning" /\ clState' = clState
    BY <1>6 DEF StopNodes
  <2>2. clState >= clusterShuttingDown
    BY <1>6 DEF StopNodes, StopOrder
  <2> QED BY <2>1, <2>2 DEF PanicExplained
<1>7. ASSUME panicked' # panicked
      PROVE  \/ \E c \in Cmds : Refused(c) \/ Done(c) \/ Enqueue(c)
             \/ StopDrain \/ \E all \in BOOLEAN : StopNodes(all)
  BY <1>7
  DEF Next, CmdNext, RoutineNext, OwnerNext, vars, Submit, Begin, Check,
      RunSucceeds, RunFails, RunRefused, RunUnavailable, EnqueueCheck, Tick,
      RoutineQuit, RoutineTick, RoutineCheck, RoutineSweep, RoutineRuns,
      RoutineSkips, RoutineDrops, Start, StopBegin, StopCloseChan, StopCount,
      StopSweep, StopDestroy
<1> QED
  BY <1>1, <1>3, <1>4, <1>5, <1>6, <1>7

\* A panic takes a Stop that has begun, or a command that was refused by the
\* queue and is completed a second time.
THEOREM Panics == Spec => []PanicExplained
<1>1. Init => StopOrder /\ PanicExplained
  BY CmdAssumption DEF Init, StopOrder, PanicExplained, Procs, Routine, Owner
<1>2. IndInv /\ StopOrder /\ PanicExplained /\ [Next]_vars
        => StopOrder' /\ PanicExplained'
  BY StopOrderStep, PanicStep
<1> QED
  BY <1>1, <1>2, Invariance, PTL DEF Spec

\* A cluster that nobody stops, with room in its queue for every command, never
\* brings the program down.
THEOREM NoPanicWithRoom ==
  ASSUME ~CanStop, Cardinality(Cmds) <= QueueMaxDepth
  PROVE  Spec => [](panicked = "no")
<1>1. IndInv /\ Roomy /\ PanicExplained => panicked = "no"
  <2> SUFFICES ASSUME IndInv, Roomy, PanicExplained PROVE panicked = "no"
    OBVIOUS
  <2>1. panicked \in {"no", "closedQueue", "nodesRunning", "negativeWait"}
    BY DEF IndInv, TypeOK
  <2>2. ~(clState >= clusterShuttingDown)
    BY DEF Roomy, clusterCreated, clusterRunning, clusterShuttingDown
  <2>3. \A c \in Waited : c \in Cmds /\ done[c] <= 1
    BY CmdAssumption DEF Roomy, RoomyOf
  <2>4. \A c \in Waited : done[c] # 2
    BY <2>3
  <2> QED BY <2>1, <2>2, <2>4 DEF PanicExplained
<1> QED
  BY <1>1, StaysRoomy, Panics, Invariance, PTL

\* Once a command is lost the queue routine does not iterate again.
Dropping ==
  /\ \A c, d \in Cmds : pc[c] = "lost" /\ pc[d] = "lost" => c = d
  /\ \A c \in Cmds : pc[c] = "lost" => clState >= clusterShuttingDown
  /\ (\E c \in Cmds : pc[c] = "lost") => pc[Routine] \notin {"sweep", "visit"}

\* Nothing takes the state of a cluster that shuts down back.
LEMMA StateStays ==
  ASSUME TypeOK, [Next]_vars, clState >= clusterShuttingDown
  PROVE  clState' >= clusterShuttingDown
<1>1. ASSUME NEW c \in Cmds, Submit(c) \/ CmdNext(c) PROVE clState' = clState
  BY <1>1
  DEF Submit, CmdNext, Begin, Check, RunSucceeds, RunFails, RunRefused,
      RunUnavailable, EnqueueCheck, Enqueue, Refused, Done, shared
<1>2. CASE Tick \/ RoutineNext
  BY <1>2
  DEF Tick, RoutineNext, RoutineQuit, RoutineTick, RoutineCheck, RoutineSweep,
      RoutineRuns, RoutineSkips, RoutineDrops, shared
<1>3. CASE Start \/ StopBegin
  BY <1>3 DEF Start, StopBegin, stateCheckRunning, clusterCreated,
              clusterRunning, clusterShuttingDown
<1>4. CASE StopCloseChan \/ StopCount \/ StopSweep \/ StopDrain \/ StopDestroy
  BY <1>4 DEF StopCloseChan, StopCount, StopSweep, StopDrain, StopDestroy, shared
<1>5. ASSUME NEW all \in BOOLEAN, StopNodes(all)
      PROVE  clState' >= clusterShuttingDown
  BY <1>5 DEF StopNodes, clusterShuttingDown, clusterShutdown
<1>6. CASE UNCHANGED vars
  BY <1>6 DEF vars, shared
<1> QED
  BY <1>1, <1>2, <1>3, <1>4, <1>5, <1>6 DEF Next, OwnerNext

\* Every step keeps it that way.
LEMMA DroppingStep ==
  ASSUME IndInv, Dropping, [Next]_vars
  PROVE  Dropping'
<1> USE CmdAssumption
    DEF IndInv, TypeOK, PcOK, Procs, Routine, Owner, Goto, shared, local, record
<1>0. clState >= clusterShuttingDown => clState' >= clusterShuttingDown
  BY StateStays
<1>1. ASSUME \A c \in Cmds : pc'[c] = "lost" => pc[c] = "lost",
             pc'[Routine] \in {"sweep", "visit"} =>
               pc[Routine] \in {"sweep", "visit"} \/ ~(clState >= clusterShuttingDown)
      PROVE  Dropping'
  BY <1>0, <1>1 DEF Dropping
<1>2. ASSUME NEW c \in Cmds, Submit(c) \/ CmdNext(c)
      PROVE  Dropping'
  <2>1. pc'[c] # "lost" \/ pc'[c] = pc[c]
    BY <1>2
    DEF Submit, CmdNext, Begin, Check, RunSucceeds, RunFails, RunRefused, RunUnavailable,
        EnqueueCheck, Enqueue, Refused, Done, NextAttempt
  <2>2. \A d \in Procs \ {c} : pc'[d] = pc[d]
    BY <1>2, CmdMoves
  <2> QED BY <1>1, <2>1, <2>2
<1>3. CASE RoutineDrops
  <2>1. PICK h \in Cmds : h = Head(cq)
    BY <1>3, Visiting DEF RoutineDrops
  <2>2. \A c \in Cmds : pc[c] # "lost"
    BY <1>3 DEF RoutineDrops, Dropping
  <2>3. /\ \A c \in Cmds \ {h} : pc'[c] = pc[c]
        /\ pc'[Routine] = "select" /\ clState >= clusterShuttingDown
    BY <1>3, <2>1 DEF RoutineDrops, isStateLessThan, clusterCreated, clusterRunning,
        clusterShuttingDown, clusterShutdown
  <2> QED BY <1>0, <2>2, <2>3 DEF Dropping
<1>4. CASE RoutineRuns
  <2>1. PICK h \in Cmds : h = Head(cq)
    BY <1>4, Visiting DEF RoutineRuns
  <2>2. \A c \in Cmds : pc'[c] = "lost" => pc[c] = "lost"
    BY <1>4, <2>1 DEF RoutineRuns
  <2> QED BY <1>1, <1>4, <2>2 DEF RoutineRuns
<1>5. CASE StopDrain
  <2>1. PICK h \in Cmds : h = Head(cq)
    BY <1>5, Visiting DEF StopDrain
  <2>2. \A c \in Cmds : pc'[c] = "lost" => pc[c] = "lost"
    BY <1>5, <2>1 DEF StopDrain
  <2>3. pc'[Routine] = pc[Routine]
    BY <1>5, <2>1 DEF StopDrain
  <2> QED BY <1>1, <2>2, <2>3
<1>6. CASE Tick \/ RoutineQuit \/ RoutineTick \/ RoutineCheck \/ RoutineSweep \/ RoutineSkips
  <2>1. \A c \in Cmds : pc'[c] = pc[c]
    BY <1>6 DEF Tick, RoutineQuit, RoutineTick, RoutineCheck, RoutineSweep, RoutineSkips
  <2>2. pc'[Routine] \in {"sweep", "visit"} =>
          pc[Routine] \in {"sweep", "visit"} \/ ~(clState >= clusterShuttingDown)
    BY <1>6 DEF Tick, RoutineQuit, RoutineTick, RoutineCheck, RoutineSweep,
        RoutineSkips, isStateLessThan, clusterCreated, clusterRunning,
        clusterShuttingDown, clusterShutdown
  <2> QED BY <1>1, <2>1, <2>2
<1>7. CASE Start \/ StopBegin \/ StopCloseChan \/ StopCount \/ StopSweep \/ StopDestroy \/
           (\E all \in BOOLEAN : StopNodes(all)) \/ UNCHANGED vars
  <2>1. \A p \in Procs \ {Owner} : pc'[p] = pc[p]
    BY <1>7 DEF Start, StopBegin, StopCloseChan, StopCount, StopSweep, StopDestroy,
                StopNodes, vars
  <2> QED BY <1>1, <2>1
<1> QED
  BY <1>2, <1>3, <1>4, <1>5, <1>6, <1>7 DEF Next, RoutineNext, OwnerNext

\* Where a command is that waited in the queue when Stop began.
WaitOf(c) ==
  \/ pc[c] \in {"queued", "lost"}
  \/ pc[c] = "finished" /\ done[c] = 1 /\ failed[c]

\* Stop takes all that waits: it holds the mutex from the sweep to the last
\* element, and behind it nobody takes a waiting command from the queue.
Drained ==
  /\ waiting # {} => clState >= clusterShuttingDown
  /\ \A c \in waiting : WaitOf(c)
  /\ pc[Owner] = "drain" => rest[Owner] = Len(cq)
  /\ pc[Owner] \in {"destroy", "stopNodes", "stopped"} =>
       \A c \in waiting : pc[c] # "queued"

\* A step leaves the commands that waited, and the owner, alone.
LEMMA DrainedSame ==
  ASSUME TypeOK, [Next]_vars, Drained, waiting' = waiting,
         pc'[Owner] = pc[Owner],
         pc[Owner] = "drain" => rest'[Owner] = rest[Owner] /\ cq' = cq,
         \A c \in waiting : pc'[c] = pc[c] /\ done'[c] = done[c]
                            /\ failed'[c] = failed[c]
  PROVE  Drained'
<1>1. clState >= clusterShuttingDown => clState' >= clusterShuttingDown
  BY StateStays
<1>2. \A c \in waiting : WaitOf(c)'
  BY DEF Drained, WaitOf
<1> QED
  BY <1>1, <1>2 DEF Drained

\* An empty queue holds no command.
LEMMA NobodyWaits ==
  ASSUME OnePlace, cq = <<>>
  PROVE  \A c \in Cmds : pc[c] # "queued"
  BY DEF OnePlace, Queued

\* Every step keeps what is known of the commands that waited.
LEMMA DrainedStep ==
  ASSUME IndInv, Drained, [Next]_vars
  PROVE  Drained'
<1> USE CmdAssumption DEF Procs, Routine, Owner, Goto, shared, local, record
<1>0. /\ pc \in [Procs -> CmdPC \cup RoutinePC \cup OwnerPC]
      /\ done \in [Cmds -> 0..2] /\ failed \in [Cmds -> BOOLEAN]
      /\ rest \in [{Routine, Owner} -> 0..QueueMaxDepth]
      /\ cq \in Seq(Cmds) /\ Len(cq) \in Nat
      /\ waiting \subseteq Cmds /\ TypeOK /\ Iterating /\ OnePlace
  BY DEF IndInv, TypeOK, PcOK
<1>1. ASSUME NEW c \in Cmds, Submit(c) \/ CmdNext(c) PROVE Drained'
  <2>1. c \notin waiting
    BY <1>1 DEF Drained, WaitOf, CmdNext, Submit, Begin, Check, RunSucceeds,
      RunFails, RunRefused, RunUnavailable, EnqueueCheck, Enqueue, Refused, Done
  <2>2. \A p \in Procs \ {c} : pc'[p] = pc[p]
    BY <1>0, <1>1, CmdMoves
  <2>3. waiting' = waiting /\ rest' = rest
    BY <1>1
    DEF CmdNext, Submit, Begin, Check, RunSucceeds, RunFails, RunRefused,
        RunUnavailable, NextAttempt, EnqueueCheck, Enqueue, Refused, Done
  <2>4. \A x \in Cmds \ {c} : done'[x] = done[x] /\ failed'[x] = failed[x]
    BY <1>0, <1>1
    DEF CmdNext, Submit, Begin, Check, RunSucceeds, RunFails, RunRefused,
        RunUnavailable, EnqueueCheck, Enqueue, Refused, Done, AsyncDone
  <2>5. pc[Owner] = "drain" => cq' = cq
    <3>1. pc[Owner] = "drain" => cqLock = Owner
      BY <1>0 DEF Iterating
    <3> QED BY <1>1, <3>1
      DEF CmdNext, Submit, Begin, Check, RunSucceeds, RunFails, RunRefused,
          RunUnavailable, EnqueueCheck, Enqueue, Refused, Done
  <2> QED BY <1>0, <2>1, <2>2, <2>3, <2>4, <2>5, DrainedSame
<1>2. CASE RoutineRuns \/ RoutineSkips
  <2>1. waiting = {} /\ waiting' = waiting
    BY <1>0, <1>2 DEF Drained, RoutineRuns, RoutineSkips, isStateLessThan, TypeOK,
      clusterCreated, clusterShuttingDown, clusterShutdown
  <2>2. pc[Owner] # "drain"
    BY <1>0, <1>2 DEF Iterating, RoutineRuns, RoutineSkips
  <2>3. Head(cq) \in Cmds
    BY <1>0, <1>2, Visiting DEF RoutineRuns, RoutineSkips
  <2>4. pc'[Owner] = pc[Owner]
    BY <1>0, <1>2, <2>3 DEF RoutineRuns, RoutineSkips
  <2> QED BY <1>0, <2>1, <2>2, <2>4, DrainedSame
<1>3. CASE RoutineDrops
  <2>1. PICK h \in Cmds : h = Head(cq)
    BY <1>0, <1>3, Visiting DEF RoutineDrops
  <2>2. pc[h] = "queued" /\ pc[Owner] # "drain"
    BY <1>0, <1>3, <2>1, Visiting DEF RoutineDrops, OnePlace, Iterating
  <2>3. /\ UNCHANGED <<clState, waiting, done, failed>> /\ pc'[Owner] = pc[Owner]
        /\ pc'[h] = "lost" /\ \A x \in Cmds \ {h} : pc'[x] = pc[x]
    BY <1>0, <1>3, <2>1 DEF RoutineDrops
  <2>4. ASSUME NEW x \in waiting
        PROVE  WaitOf(x)' /\ (pc'[x] = "queued" => pc[x] = "queued")
    BY <1>0, <2>2, <2>3 DEF Drained, WaitOf
  <2> QED BY <2>2, <2>3, <2>4 DEF Drained
<1>4. CASE \/ Tick \/ RoutineQuit \/ RoutineTick \/ RoutineCheck
           \/ RoutineSweep \/ UNCHANGED vars
  <2>1. /\ UNCHANGED <<waiting, done, failed, cq>>
        /\ \A p \in Procs \ {Routine} : pc'[p] = pc[p]
        /\ rest'[Owner] = rest[Owner]
    BY <1>0, <1>4
    DEF Tick, RoutineQuit, RoutineTick, RoutineCheck, RoutineSweep, vars
  <2> QED BY <1>0, <2>1, DrainedSame
<1>5. CASE StopBegin
  <2>1. /\ waiting' = Queued /\ clState' = clusterShuttingDown
        /\ \A c \in Cmds : pc'[c] = pc[c]
        /\ pc'[Owner] = IF queueCommands THEN "closeStop" ELSE "stopNodes"
    BY <1>0, <1>5 DEF StopBegin
  <2>2. \A c \in Queued : c \in Cmds /\ pc[c] = "queued"
    BY <1>0 DEF OnePlace, Queued
  <2>3. ~queueCommands => Queued = {}
    BY <1>0, OptionAssumption DEF queueCommands, TypeOK, Queued
  <2> QED BY <2>1, <2>2, <2>3 DEF Drained, WaitOf, clusterShuttingDown
<1>6. CASE StopCount \/ StopSweep
  <2>1. /\ UNCHANGED <<waiting, done, failed, cq, clState>>
        /\ \A c \in Cmds : pc'[c] = pc[c]
        /\ pc'[Owner] \in {"destroy", "stopSweep", "drain"}
        /\ pc'[Owner] = "destroy" => cq = <<>>
        /\ pc'[Owner] = "drain" => rest'[Owner] = Len(cq)
    BY <1>0, <1>6 DEF StopCount, StopSweep
  <2>2. cq = <<>> => \A c \in Cmds : pc[c] # "queued"
    BY <1>0, NobodyWaits
  <2>3. \A c \in waiting : WaitOf(c)'
    BY <1>0, <2>1 DEF Drained, WaitOf
  <2>4. \A c \in waiting : pc'[c] = pc[c]
    BY <1>0, <2>1
  <2> QED BY <1>0, <2>1, <2>2, <2>3, <2>4 DEF Drained
<1>7. CASE StopDrain
  <2>1. PICK h \in Cmds : h = Head(cq)
    BY <1>0, <1>7, Visiting DEF StopDrain
  <2>2. pc[h] = "queued"
    BY <1>0, <1>7, <2>1, Visiting DEF StopDrain, OnePlace
  <2>3. done[h] = 0
    BY <2>2 DEF IndInv, Progress, ProgressOf, Ended
  <2>4. /\ pc'[h] = "finished" /\ done'[h] = 1 /\ failed'[h]
        /\ UNCHANGED <<waiting, clState>>
    BY <1>0, <1>7, <2>1, <2>3 DEF StopDrain, AsyncDone
  <2>5. \A x \in Cmds \ {h} : /\ pc'[x] = pc[x] /\ done'[x] = done[x]
                               /\ failed'[x] = failed[x]
    BY <1>0, <1>7, <2>1 DEF StopDrain, AsyncDone
  <2>6. \A x \in waiting : WaitOf(x)'
    BY <1>0, <2>4, <2>5 DEF Drained, WaitOf
  <2>7. /\ rest[Owner] = Len(cq) /\ Len(cq) > 0 /\ rest'[Owner] = rest[Owner] - 1
        /\ Tail(cq) \in Seq(Cmds) /\ Len(Tail(cq)) = Len(cq) - 1 /\ cq' = Tail(cq)
        /\ pc'[Owner] = IF rest[Owner] = 1 THEN "destroy" ELSE "drain"
    BY <1>0, <1>7, <2>1, Visiting DEF StopDrain, Drained
  <2>8. CASE rest[Owner] = 1
    <3>1. cq' = <<>>
      BY <2>7, <2>8
    <3>2. OnePlace'
      BY OnePlaceStep DEF IndInv
    <3>3. \A x \in Cmds : pc'[x] # "queued"
      BY <3>1, <3>2 DEF OnePlace, Queued
    <3> QED BY <1>0, <2>4, <2>6, <2>7, <2>8, <3>3 DEF Drained
  <2>9. CASE rest[Owner] # 1
    BY <1>0, <2>4, <2>6, <2>7, <2>9 DEF Drained
  <2> QED BY <2>8, <2>9
<1>8. CASE Start \/ StopCloseChan
  <2>1. /\ UNCHANGED <<waiting, done, failed, cq>>
        /\ \A c \in Cmds : pc'[c] = pc[c]
        /\ pc'[Owner] \in {"running", "stopCount"}
    BY <1>0, <1>8 DEF Start, StopCloseChan
  <2>2. clState >= clusterShuttingDown => clState' >= clusterShuttingDown
    BY <1>0, StateStays
  <2>3. \A c \in waiting : WaitOf(c)'
    BY <1>0, <2>1 DEF Drained, WaitOf
  <2> QED BY <2>1, <2>2, <2>3 DEF Drained
<1>9. CASE StopDestroy \/ \E all \in BOOLEAN : StopNodes(all)
  <2>1. /\ UNCHANGED <<waiting, done, failed, cq>>
        /\ \A c \in Cmds : pc'[c] = pc[c]
        /\ pc[Owner] \in {"destroy", "stopNodes"}
        /\ pc'[Owner] \in {"stopNodes", "stopped"}
    BY <1>0, <1>9 DEF StopDestroy, StopNodes
  <2>2. clState >= clusterShuttingDown => clState' >= clusterShuttingDown
    BY <1>0, StateStays
  <2>3. \A c \in waiting : WaitOf(c)' /\ pc'[c] # "queued"
    BY <1>0, <2>1 DEF Drained, WaitOf
  <2> QED BY <2>1, <2>2, <2>3 DEF Drained
<1> QED
  BY <1>1, <1>2, <1>3, <1>4, <1>5, <1>6, <1>7, <1>8, <1>9
  DEF Next, RoutineNext, OwnerNext

\* When Stop closes the queue it has completed every command that waited in it
\* when it began, but for the one that the queue routine took from the queue.
THEOREM Drops == Spec => []DropsAtMostOne
<1>1. Init => Dropping /\ Drained
  BY CmdAssumption DEF Init, Dropping, Drained, Procs, Routine, Owner
<1>2. IndInv /\ Dropping /\ Drained /\ [Next]_vars => Dropping' /\ Drained'
  BY DroppingStep, DrainedStep
<1>3. IndInv /\ Dropping /\ Drained => DropsAtMostOne
  <2> SUFFICES ASSUME IndInv, Dropping, Drained PROVE DropsAtMostOne
    OBVIOUS
  <2>1. \A c \in waiting : c \in Cmds /\ (pc[c] = "lost" => done[c] = 0)
    BY DEF IndInv, TypeOK, Progress, ProgressOf, Ended
  <2> QED BY <2>1 DEF Dropping, Drained, WaitOf, DropsAtMostOne
<1> QED
  BY <1>1, <1>2, <1>3, Invariance, PTL DEF Spec
============================================================================
