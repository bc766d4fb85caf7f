------------------------- MODULE MapOperationProofs --------------------------
(***************************************************************************)
(* Proofs about map operations, for any field names, values, numbers of    *)
(* operations and calls, and any width of the counters.                    *)
(***************************************************************************)
EXTENDS MapOperation, WellFoundedInduction, FiniteSetTheorems,
        SequenceTheorems, TLAPS

(* Go maps. *)

\* An entry of a Go map that is written.
LEMMA PutIsMap ==
  ASSUME NEW S, NEW f, IsMap(f, S), NEW k \in Keys, NEW v \in S
  PROVE  /\ IsMap(Put(f, k, v), S) /\ DOMAIN Put(f, k, v) = DOMAIN f \cup {k}
         /\ \A x \in DOMAIN Put(f, k, v) : Put(f, k, v)[x] = IF x = k THEN v ELSE f[x]
  BY DEF IsMap, Put

\* An entry of a Go map that is deleted.
LEMMA DeleteIsMap ==
  ASSUME NEW S, NEW f, IsMap(f, S), NEW k
  PROVE  /\ IsMap(Delete(f, k), S) /\ DOMAIN Delete(f, k) = DOMAIN f \ {k}
         /\ \A x \in DOMAIN Delete(f, k) : Delete(f, k)[x] = f[x]
  BY DEF IsMap, Delete

\* An entry of a Go map that is read, or the zero value.
LEMMA EntryType ==
  ASSUME NEW S, NEW f, IsMap(f, S), NEW k, NEW d \in S
  PROVE  Entry(f, k, d) \in S
  BY DEF IsMap, Entry

\* A sum of two int64 is one.
LEMMA PlusType ==
  ASSUME NEW a \in Int, NEW b \in Int
  PROVE  Plus(a, b) \in Int64
<1>1. Half \in Nat /\ Half > 0
  BY MapAssumption
<1>2. (a + b + Half) % (2 * Half) \in 0..(2 * Half - 1)
  BY <1>1
<1> QED BY <1>1, <1>2 DEF Plus, Wrap, Int64
-----------------------------------------------------------------------------
(* TypeOK is inductive. *)

\* What the calls but MapNew make of the nested operations: none is added.
Fewer(o, op) == \A k \in DOMAIN op.maps : k \in DOMAIN ops[o].maps /\ op.maps[k] = ops[o].maps[k]

\* A call that makes no operation.
LEMMA DoesTypeOK ==
  ASSUME TypeOK, NEW o \in 1..used, NEW op, NEW call, Does(o, op, call), UNCHANGED used,
         IsOperation(op), UpdatedOrRemoved(op), Fewer(o, op)
  PROVE  TypeOK'
<1>1. o \in Ops
  BY MapAssumption DEF TypeOK, Ops
<1>2. DOMAIN ops' = Ops /\ used' \in Ops
  BY DEF TypeOK, Does
<1>3. \A p \in Ops : ops'[p] = IF p = o THEN op ELSE ops[p]
  BY <1>1 DEF TypeOK, Does
<1>4. \A p \in Ops : IsOperation(ops'[p]) /\ UpdatedOrRemoved(ops'[p])
  BY <1>3 DEF TypeOK
<1>5. \A p \in Ops : \A k \in DOMAIN ops'[p].maps :
        k \in DOMAIN ops[p].maps /\ ops'[p].maps[k] = ops[p].maps[k]
  BY <1>3 DEF Fewer
<1>6. Nesting'
  BY <1>5 DEF TypeOK, Nesting
<1> QED BY <1>2, <1>4, <1>6 DEF TypeOK

\* A call keeps an operation well formed when it writes an entry f of one of the Go
\* maps and takes the field from those to remove, or deletes the entry and adds it.
LEMMA CounterCalls ==
  ASSUME NEW op, IsOperation(op), UpdatedOrRemoved(op), NEW k \in Keys, NEW n \in {1, -1}
  PROVE  /\ LET op1 == [op EXCEPT !.removeCounters = @ \ {k},
                          !.incrementCounters = Put(@, k, Plus(Entry(@, k, 0), n))]
            IN IsOperation(op1) /\ UpdatedOrRemoved(op1) /\ op1.maps = op.maps
         /\ LET op2 == [op EXCEPT !.incrementCounters = Delete(@, k),
                                  !.removeCounters = @ \cup {k}]
            IN IsOperation(op2) /\ UpdatedOrRemoved(op2) /\ op2.maps = op.maps
<1>1. 0 \in Int64 /\ Int64 \subseteq Int /\ n \in Int
  BY MapAssumption DEF Int64
<1>2. IsMap(op.incrementCounters, Int64)
  BY DEF IsOperation
<1> DEFINE e == Plus(Entry(op.incrementCounters, k, 0), n)
<1>3. e \in Int64
  BY <1>1, <1>2, EntryType, PlusType
<1> HIDE DEF e
<1> DEFINE f == Put(op.incrementCounters, k, e)
           g == Delete(op.incrementCounters, k)
<1>4. IsMap(f, Int64) /\ DOMAIN f = DOMAIN op.incrementCounters \cup {k}
  BY <1>2, <1>3, PutIsMap
<1>5. IsMap(g, Int64) /\ DOMAIN g = DOMAIN op.incrementCounters \ {k}
  BY <1>2, DeleteIsMap
<1> HIDE DEF f, g
<1>6. /\ IsOperation([op EXCEPT !.removeCounters = @ \ {k}, !.incrementCounters = f])
      /\ IsOperation([op EXCEPT !.incrementCounters = g, !.removeCounters = @ \cup {k}])
  BY <1>4, <1>5 DEF IsOperation, NewMapOperation
<1>7. /\ UpdatedOrRemoved([op EXCEPT !.removeCounters = @ \ {k}, !.incrementCounters = f])
      /\ UpdatedOrRemoved([op EXCEPT !.incrementCounters = g, !.removeCounters = @ \cup {k}])
  BY <1>4, <1>5 DEF IsOperation, NewMapOperation, UpdatedOrRemoved
<1> QED BY <1>6, <1>7 DEF e, f, g, IsOperation, NewMapOperation

\* The same for a set: two Go maps, elements to add and elements to remove.
LEMMA SetCalls ==
  ASSUME NEW op, IsOperation(op), UpdatedOrRemoved(op), NEW k \in Keys, NEW v \in Values
  PROVE  /\ LET op1 == [op EXCEPT !.removeSets = @ \ {k},
                                  !.addToSets = Put(@, k, Append(Entry(@, k, <<>>), v))]
            IN IsOperation(op1) /\ UpdatedOrRemoved(op1) /\ op1.maps = op.maps
         /\ LET op2 == [op EXCEPT !.removeSets = @ \ {k},
                                  !.removeFromSets = Put(@, k, Append(Entry(@, k, <<>>), v))]
            IN IsOperation(op2) /\ UpdatedOrRemoved(op2) /\ op2.maps = op.maps
<1>1. IsMap(op.addToSets, Seq(Values)) /\ IsMap(op.removeFromSets, Seq(Values))
  BY DEF IsOperation
<1>2. <<>> \in Seq(Values)
  OBVIOUS
<1>3. /\ Entry(op.addToSets, k, <<>>) \in Seq(Values)
      /\ Entry(op.removeFromSets, k, <<>>) \in Seq(Values)
  BY <1>1, <1>2, EntryType
<1> DEFINE d == Append(Entry(op.addToSets, k, <<>>), v)
           e == Append(Entry(op.removeFromSets, k, <<>>), v)
<1>4. d \in Seq(Values) /\ e \in Seq(Values)
  BY <1>3
<1> DEFINE S == Seq(Values)
<1>5. IsMap(op.addToSets, S) /\ IsMap(op.removeFromSets, S) /\ d \in S /\ e \in S
  BY <1>1, <1>4
<1> HIDE DEF d, e, S
<1> DEFINE f == Put(op.addToSets, k, d)
           g == Put(op.removeFromSets, k, e)
<1>6. IsMap(f, S) /\ DOMAIN f = DOMAIN op.addToSets \cup {k}
  BY <1>5 DEF IsMap, Put
<1>7. IsMap(g, S) /\ DOMAIN g = DOMAIN op.removeFromSets \cup {k}
  BY <1>5 DEF IsMap, Put
<1> HIDE DEF f, g
<1>8. /\ IsOperation([op EXCEPT !.removeSets = @ \ {k}, !.addToSets = f])
      /\ IsOperation([op EXCEPT !.removeSets = @ \ {k}, !.removeFromSets = g])
  BY <1>6, <1>7 DEF S, IsOperation, NewMapOperation
<1>9. /\ UpdatedOrRemoved([op EXCEPT !.removeSets = @ \ {k}, !.addToSets = f])
      /\ UpdatedOrRemoved([op EXCEPT !.removeSets = @ \ {k}, !.removeFromSets = g])
  BY <1>6, <1>7 DEF IsOperation, NewMapOperation, UpdatedOrRemoved
<1> QED BY <1>8, <1>9 DEF d, e, f, g, IsOperation, NewMapOperation

\* RemoveSet deletes both entries of the set.
LEMMA RemoveSetCall ==
  ASSUME NEW op, IsOperation(op), UpdatedOrRemoved(op), NEW k \in Keys
  PROVE  LET op1 == [op EXCEPT !.addToSets = Delete(@, k), !.removeFromSets = Delete(@, k),
                               !.removeSets = @ \cup {k}]
         IN IsOperation(op1) /\ UpdatedOrRemoved(op1) /\ op1.maps = op.maps
<1>1. IsMap(op.addToSets, Seq(Values)) /\ IsMap(op.removeFromSets, Seq(Values))
  BY DEF IsOperation
<1> DEFINE f == Delete(op.addToSets, k)
           g == Delete(op.removeFromSets, k)
<1>2. /\ IsMap(f, Seq(Values)) /\ DOMAIN f = DOMAIN op.addToSets \ {k}
      /\ IsMap(g, Seq(Values)) /\ DOMAIN g = DOMAIN op.removeFromSets \ {k}
  BY <1>1, DeleteIsMap
<1> HIDE DEF f, g
<1>3. IsOperation([op EXCEPT !.addToSets = f, !.removeFromSets = g, !.removeSets = @ \cup {k}])
  BY <1>2 DEF IsOperation, NewMapOperation
<1>4. UpdatedOrRemoved([op EXCEPT !.addToSets = f, !.removeFromSets = g, !.removeSets = @ \cup {k}])
  BY <1>2 DEF IsOperation, NewMapOperation, UpdatedOrRemoved
<1> QED BY <1>3, <1>4 DEF f, g, IsOperation, NewMapOperation

\* The same for a register.
LEMMA RegisterCalls ==
  ASSUME NEW op, IsOperation(op), UpdatedOrRemoved(op), NEW k \in Keys
  PROVE  /\ \A v \in Values :
              LET op1 == [op EXCEPT !.removeRegisters = @ \ {k}, !.registersToSet = Put(@, k, v)]
              IN IsOperation(op1) /\ UpdatedOrRemoved(op1) /\ op1.maps = op.maps
         /\ LET op2 == [op EXCEPT !.registersToSet = Delete(@, k), !.removeRegisters = @ \cup {k}]
            IN IsOperation(op2) /\ UpdatedOrRemoved(op2) /\ op2.maps = op.maps
<1>1. IsMap(op.registersToSet, Values)
  BY DEF IsOperation
<1>2. ASSUME NEW v \in Values
      PROVE  LET op1 == [op EXCEPT !.removeRegisters = @ \ {k}, !.registersToSet = Put(@, k, v)]
             IN IsOperation(op1) /\ UpdatedOrRemoved(op1) /\ op1.maps = op.maps
  <2> DEFINE f == Put(op.registersToSet, k, v)
  <2>1. IsMap(f, Values) /\ DOMAIN f = DOMAIN op.registersToSet \cup {k}
    BY <1>1, PutIsMap
  <2> HIDE DEF f
  <2>2. LET op1 == [op EXCEPT !.removeRegisters = @ \ {k}, !.registersToSet = f]
        IN IsOperation(op1) /\ UpdatedOrRemoved(op1) /\ op1.maps = op.maps
    BY <2>1 DEF IsOperation, NewMapOperation, UpdatedOrRemoved
  <2> QED BY <2>2 DEF f
<1> DEFINE g == Delete(op.registersToSet, k)
<1>3. IsMap(g, Values) /\ DOMAIN g = DOMAIN op.registersToSet \ {k}
  BY <1>1, DeleteIsMap
<1> HIDE DEF g
<1>4. LET op2 == [op EXCEPT !.registersToSet = g, !.removeRegisters = @ \cup {k}]
      IN IsOperation(op2) /\ UpdatedOrRemoved(op2) /\ op2.maps = op.maps
  BY <1>3 DEF IsOperation, NewMapOperation, UpdatedOrRemoved
<1> QED BY <1>2, <1>4 DEF g

\* The same for a flag.
LEMMA FlagCalls ==
  ASSUME NEW op, IsOperation(op), UpdatedOrRemoved(op), NEW k \in Keys
  PROVE  /\ \A b \in BOOLEAN :
              LET op1 == [op EXCEPT !.removeFlags = @ \ {k}, !.flagsToSet = Put(@, k, b)]
              IN IsOperation(op1) /\ UpdatedOrRemoved(op1) /\ op1.maps = op.maps
         /\ LET op2 == [op EXCEPT !.flagsToSet = Delete(@, k), !.removeFlags = @ \cup {k}]
            IN IsOperation(op2) /\ UpdatedOrRemoved(op2) /\ op2.maps = op.maps
<1>1. IsMap(op.flagsToSet, BOOLEAN)
  BY DEF IsOperation
<1>2. ASSUME NEW b \in BOOLEAN
      PROVE  LET op1 == [op EXCEPT !.removeFlags = @ \ {k}, !.flagsToSet = Put(@, k, b)]
             IN IsOperation(op1) /\ UpdatedOrRemoved(op1) /\ op1.maps = op.maps
  <2> DEFINE f == Put(op.flagsToSet, k, b)
  <2>1. IsMap(f, BOOLEAN) /\ DOMAIN f = DOMAIN op.flagsToSet \cup {k}
    BY <1>1, PutIsMap
  <2> HIDE DEF f
  <2>2. LET op1 == [op EXCEPT !.removeFlags = @ \ {k}, !.flagsToSet = f]
        IN IsOperation(op1) /\ UpdatedOrRemoved(op1) /\ op1.maps = op.maps
    BY <2>1 DEF IsOperation, NewMapOperation, UpdatedOrRemoved
  <2> QED BY <2>2 DEF f
<1> DEFINE g == Delete(op.flagsToSet, k)
<1>3. IsMap(g, BOOLEAN) /\ DOMAIN g = DOMAIN op.flagsToSet \ {k}
  BY <1>1, DeleteIsMap
<1> HIDE DEF g
<1>4. LET op2 == [op EXCEPT !.flagsToSet = g, !.removeFlags = @ \cup {k}]
      IN IsOperation(op2) /\ UpdatedOrRemoved(op2) /\ op2.maps = op.maps
  BY <1>3 DEF IsOperation, NewMapOperation, UpdatedOrRemoved
<1> QED BY <1>2, <1>4 DEF g

\* The same for a nested map, when it was asked for before and when it is removed.
LEMMA MapCalls ==
  ASSUME NEW op, IsOperation(op), UpdatedOrRemoved(op), NEW k \in Keys
  PROVE  /\ LET op1 == [op EXCEPT !.removeMaps = @ \ {k}]
            IN IsOperation(op1) /\ UpdatedOrRemoved(op1) /\ op1.maps = op.maps
         /\ LET op2 == [op EXCEPT !.maps = Delete(@, k), !.removeMaps = @ \cup {k}]
            IN IsOperation(op2) /\ UpdatedOrRemoved(op2) /\ op2.maps = Delete(op.maps, k)
         /\ \A n \in Ops : LET op3 == [op EXCEPT !.removeMaps = @ \ {k}, !.maps = Put(@, k, n)]
            IN IsOperation(op3) /\ UpdatedOrRemoved(op3) /\ op3.maps = Put(op.maps, k, n)
<1>1. IsMap(op.maps, Ops)
  BY DEF IsOperation
<1> DEFINE g == Delete(op.maps, k)
<1>2. IsMap(g, Ops) /\ DOMAIN g = DOMAIN op.maps \ {k}
  BY <1>1, DeleteIsMap
<1> HIDE DEF g
<1>3. LET op1 == [op EXCEPT !.removeMaps = @ \ {k}]
      IN IsOperation(op1) /\ UpdatedOrRemoved(op1) /\ op1.maps = op.maps
  BY DEF IsOperation, NewMapOperation, UpdatedOrRemoved
<1>4. LET op2 == [op EXCEPT !.maps = g, !.removeMaps = @ \cup {k}]
      IN IsOperation(op2) /\ UpdatedOrRemoved(op2) /\ op2.maps = g
  BY <1>2 DEF IsOperation, NewMapOperation, UpdatedOrRemoved
<1>5. ASSUME NEW n \in Ops
      PROVE  LET op3 == [op EXCEPT !.removeMaps = @ \ {k}, !.maps = Put(@, k, n)]
             IN IsOperation(op3) /\ UpdatedOrRemoved(op3) /\ op3.maps = Put(op.maps, k, n)
  <2> DEFINE f == Put(op.maps, k, n)
  <2>1. IsMap(f, Ops) /\ DOMAIN f = DOMAIN op.maps \cup {k}
    BY <1>1, PutIsMap
  <2> HIDE DEF f
  <2>2. LET op3 == [op EXCEPT !.removeMaps = @ \ {k}, !.maps = f]
        IN IsOperation(op3) /\ UpdatedOrRemoved(op3) /\ op3.maps = f
    BY <2>1 DEF IsOperation, NewMapOperation, UpdatedOrRemoved
  <2> QED BY <2>2 DEF f
<1> QED BY <1>3, <1>4, <1>5 DEF g

\* MapNew nests the next operation, which no other operation has.
LEMMA MapNewTypeOK ==
  ASSUME TypeOK, NEW o \in 1..used, NEW k \in Keys, MapNew(o, k)
  PROVE  TypeOK'
<1> DEFINE op3 == [ops[o] EXCEPT !.removeMaps = @ \ {k}, !.maps = Put(@, k, used + 1)]
<1>0. used < MaxOps /\ used' = used + 1 /\ used \in 1..MaxOps
  BY DEF TypeOK, Ops, MapNew
<1>1. o \in Ops /\ used + 1 \in Ops /\ used' = used + 1 /\ used \in Nat
  BY <1>0, MapAssumption DEF Ops
<1>2. IsOperation(op3) /\ UpdatedOrRemoved(op3) /\ op3.maps = Put(ops[o].maps, k, used + 1)
  <2>1. IsOperation(ops[o]) /\ UpdatedOrRemoved(ops[o])
    BY <1>1 DEF TypeOK
  <2> QED BY <1>1, <2>1, MapCalls
<1>3. DOMAIN ops' = Ops /\ \A p \in Ops : ops'[p] = IF p = o THEN op3 ELSE ops[p]
  BY <1>1 DEF TypeOK, Does, MapNew
<1> HIDE DEF op3
<1>4. \A p \in Ops : IsOperation(ops'[p]) /\ UpdatedOrRemoved(ops'[p])
  BY <1>2, <1>3 DEF TypeOK
<1>5. /\ DOMAIN op3.maps = DOMAIN ops[o].maps \cup {k} /\ op3.maps[k] = used + 1
      /\ \A l \in DOMAIN ops[o].maps : l # k => op3.maps[l] = ops[o].maps[l]
  BY <1>2 DEF Put
<1>6. \A p \in Ops : \A l \in DOMAIN ops'[p].maps :
        \/ p = o /\ l = k /\ ops'[p].maps[l] = used + 1
        \/ l \in DOMAIN ops[p].maps /\ ops'[p].maps[l] = ops[p].maps[l]
  BY <1>3, <1>5
<1>7. \A p \in Ops : \A l \in DOMAIN ops[p].maps : ops[p].maps[l] \in (p + 1)..used
  BY DEF TypeOK, Nesting
<1>8. \A p \in Ops : \A l \in DOMAIN ops'[p].maps : ops'[p].maps[l] \in (p + 1)..used'
  BY <1>1, <1>6, <1>7 DEF Ops
<1>9. \A p, q \in Ops : \A l \in DOMAIN ops[p].maps, m \in DOMAIN ops[q].maps :
        ops[p].maps[l] = ops[q].maps[m] => p = q /\ l = m
  BY DEF TypeOK, Nesting
<1>10. \A p, q \in Ops : \A l \in DOMAIN ops'[p].maps, m \in DOMAIN ops'[q].maps :
        ops'[p].maps[l] = ops'[q].maps[m] => p = q /\ l = m
  BY <1>1, <1>6, <1>7, <1>9 DEF Ops
<1>11. Nesting'
  BY <1>8, <1>10 DEF Nesting
<1> QED BY <1>1, <1>3, <1>4, <1>11 DEF TypeOK

\* A call on operation o that keeps it well formed and nests nothing new in it.
Harmless(o) ==
  \E op, call : /\ Does(o, op, call) /\ UNCHANGED used
                /\ IsOperation(op) /\ UpdatedOrRemoved(op) /\ Fewer(o, op)

\* What the next-state relation is made of: MapNew, and calls that nest nothing new.
LEMMA CallEffect ==
  ASSUME TypeOK, NEW o \in 1..used, NEW k \in Keys, Calls(o, k)
  PROVE  \/ MapNew(o, k)
         \/ Harmless(o)
<1>1. o \in Ops
  BY MapAssumption DEF TypeOK, Ops
<1>2. IsOperation(ops[o]) /\ UpdatedOrRemoved(ops[o])
  BY <1>1 DEF TypeOK
<1>3. ASSUME NEW op, op.maps = ops[o].maps \/ op.maps = Delete(ops[o].maps, k)
      PROVE  Fewer(o, op)
  BY <1>3 DEF Fewer, Delete
<1>4. ASSUME NEW n \in {1, -1}, IncrementCounter(o, k, n) PROVE Harmless(o)
  <2> DEFINE op == [ops[o] EXCEPT !.removeCounters = @ \ {k},
                                !.incrementCounters = Put(@, k, Plus(Entry(@, k, 0), n))]
  <2>1. Does(o, op, Call("IncrementCounter", o, k, n)) /\ UNCHANGED used
    BY <1>4 DEF IncrementCounter
  <2>2. IsOperation(op) /\ UpdatedOrRemoved(op) /\ op.maps = ops[o].maps
    BY <1>2, CounterCalls
  <2> HIDE DEF op
  <2> QED BY <2>1, <2>2, <1>3 DEF Harmless
<1>5. ASSUME RemoveCounter(o, k) PROVE Harmless(o)
  <2> DEFINE op == [ops[o] EXCEPT !.incrementCounters = Delete(@, k), !.removeCounters = @ \cup {k}]
  <2>1. Does(o, op, Call("RemoveCounter", o, k, 0)) /\ UNCHANGED used
    BY <1>5 DEF RemoveCounter
  <2>2. IsOperation(op) /\ UpdatedOrRemoved(op) /\ op.maps = ops[o].maps
    BY <1>2, CounterCalls
  <2> HIDE DEF op
  <2> QED BY <2>1, <2>2, <1>3 DEF Harmless
<1>6. ASSUME NEW v \in Values, AddToSet(o, k, v) PROVE Harmless(o)
  <2> DEFINE op == [ops[o] EXCEPT !.removeSets = @ \ {k},
                                !.addToSets = Put(@, k, Append(Entry(@, k, <<>>), v))]
  <2>1. Does(o, op, Call("AddToSet", o, k, v)) /\ UNCHANGED used
    BY <1>6 DEF AddToSet
  <2>2. IsOperation(op) /\ UpdatedOrRemoved(op) /\ op.maps = ops[o].maps
    BY <1>2, SetCalls
  <2> HIDE DEF op
  <2> QED BY <2>1, <2>2, <1>3 DEF Harmless
<1>7. ASSUME NEW v \in Values, RemoveFromSet(o, k, v) PROVE Harmless(o)
  <2> DEFINE op == [ops[o] EXCEPT !.removeSets = @ \ {k},
                                !.removeFromSets = Put(@, k, Append(Entry(@, k, <<>>), v))]
  <2>1. Does(o, op, Call("RemoveFromSet", o, k, v)) /\ UNCHANGED used
    BY <1>7 DEF RemoveFromSet
  <2>2. IsOperation(op) /\ UpdatedOrRemoved(op) /\ op.maps = ops[o].maps
    BY <1>2, SetCalls
  <2> HIDE DEF op
  <2> QED BY <2>1, <2>2, <1>3 DEF Harmless
<1>8. ASSUME RemoveSet(o, k) PROVE Harmless(o)
  <2> DEFINE op == [ops[o] EXCEPT !.addToSets = Delete(@, k), !.removeFromSets = Delete(@, k),
                                !.removeSets = @ \cup {k}]
  <2>1. Does(o, op, Call("RemoveSet", o, k, 0)) /\ UNCHANGED used
    BY <1>8 DEF RemoveSet
  <2>2. IsOperation(op) /\ UpdatedOrRemoved(op) /\ op.maps = ops[o].maps
    BY <1>2, RemoveSetCall
  <2> HIDE DEF op
  <2> QED BY <2>1, <2>2, <1>3 DEF Harmless
<1>9. ASSUME NEW v \in Values, SetRegister(o, k, v) PROVE Harmless(o)
  <2> DEFINE op == [ops[o] EXCEPT !.removeRegisters = @ \ {k}, !.registersToSet = Put(@, k, v)]
  <2>1. Does(o, op, Call("SetRegister", o, k, v)) /\ UNCHANGED used
    BY <1>9 DEF SetRegister
  <2>2. IsOperation(op) /\ UpdatedOrRemoved(op) /\ op.maps = ops[o].maps
    BY <1>2, RegisterCalls
  <2> HIDE DEF op
  <2> QED BY <2>1, <2>2, <1>3 DEF Harmless
<1>10. ASSUME RemoveRegister(o, k) PROVE Harmless(o)
  <2> DEFINE op == [ops[o] EXCEPT !.registersToSet = Delete(@, k), !.removeRegisters = @ \cup {k}]
  <2>1. Does(o, op, Call("RemoveRegister", o, k, 0)) /\ UNCHANGED used
    BY <1>10 DEF RemoveRegister
  <2>2. IsOperation(op) /\ UpdatedOrRemoved(op) /\ op.maps = ops[o].maps
    BY <1>2, RegisterCalls
  <2> HIDE DEF op
  <2> QED BY <2>1, <2>2, <1>3 DEF Harmless
<1>11. ASSUME NEW b \in BOOLEAN, SetFlag(o, k, b) PROVE Harmless(o)
  <2> DEFINE op == [ops[o] EXCEPT !.removeFlags = @ \ {k}, !.flagsToSet = Put(@, k, b)]
  <2>1. Does(o, op, Call("SetFlag", o, k, b)) /\ UNCHANGED used
    BY <1>11 DEF SetFlag
  <2>2. IsOperation(op) /\ UpdatedOrRemoved(op) /\ op.maps = ops[o].maps
    BY <1>2, FlagCalls
  <2> HIDE DEF op
  <2> QED BY <2>1, <2>2, <1>3 DEF Harmless
<1>12. ASSUME RemoveFlag(o, k) PROVE Harmless(o)
  <2> DEFINE op == [ops[o] EXCEPT !.flagsToSet = Delete(@, k), !.removeFlags = @ \cup {k}]
  <2>1. Does(o, op, Call("RemoveFlag", o, k, 0)) /\ UNCHANGED used
    BY <1>12 DEF RemoveFlag
  <2>2. IsOperation(op) /\ UpdatedOrRemoved(op) /\ op.maps = ops[o].maps
    BY <1>2, FlagCalls
  <2> HIDE DEF op
  <2> QED BY <2>1, <2>2, <1>3 DEF Harmless
<1>13. ASSUME MapAgain(o, k) PROVE Harmless(o)
  <2> DEFINE op == [ops[o] EXCEPT !.removeMaps = @ \ {k}]
  <2>1. Does(o, op, Call("Map", o, k, ops[o].maps[k])) /\ UNCHANGED used
    BY <1>13 DEF MapAgain
  <2>2. IsOperation(op) /\ UpdatedOrRemoved(op) /\ op.maps = ops[o].maps
    BY <1>2, MapCalls
  <2> HIDE DEF op
  <2> QED BY <2>1, <2>2, <1>3 DEF Harmless
<1>14. ASSUME RemoveMap(o, k) PROVE Harmless(o)
  <2> DEFINE op == [ops[o] EXCEPT !.maps = Delete(@, k), !.removeMaps = @ \cup {k}]
  <2>1. Does(o, op, Call("RemoveMap", o, k, 0)) /\ UNCHANGED used
    BY <1>14 DEF RemoveMap
  <2>2. IsOperation(op) /\ UpdatedOrRemoved(op) /\ op.maps = Delete(ops[o].maps, k)
    BY <1>2, MapCalls
  <2> HIDE DEF op
  <2> QED BY <2>1, <2>2, <1>3 DEF Harmless
<1> QED BY <1>4, <1>5, <1>6, <1>7, <1>8, <1>9, <1>10, <1>11, <1>12, <1>13, <1>14 DEF Calls

\* The operations stay well formed and nested as a tree: TypeOK is an invariant.
THEOREM MapTypeCorrect == Spec => []TypeOK
<1>1. Init => TypeOK
  <2> SUFFICES ASSUME Init PROVE TypeOK
    OBVIOUS
  <2>1. 1 \in Ops
    BY MapAssumption DEF Ops
  <2>2. IsOperation(NewMapOperation) /\ UpdatedOrRemoved(NewMapOperation)
    BY DEF IsOperation, UpdatedOrRemoved, NewMapOperation, IsMap, EmptyMap
  <2>3. \A o \in Ops : DOMAIN ops[o].maps = {}
    BY DEF Init, NewMapOperation, EmptyMap
  <2> QED BY <2>1, <2>2, <2>3 DEF Init, TypeOK, Nesting
<1>2. TypeOK /\ [Next]_vars => TypeOK'
  <2> SUFFICES ASSUME TypeOK, [Next]_vars PROVE TypeOK'
    OBVIOUS
  <2>1. CASE UNCHANGED vars
    BY <2>1 DEF TypeOK, Nesting, vars
  <2>2. CASE Next
    <3>1. PICK o \in 1..used, k \in Keys : Calls(o, k)
      BY <2>2 DEF Next
    <3> QED BY <3>1, CallEffect, DoesTypeOK, MapNewTypeOK DEF Harmless
  <2> QED BY <2>1, <2>2
<1> QED BY <1>1, <1>2, PTL DEF Spec
-----------------------------------------------------------------------------
(* The two functions that follow the nesting satisfy the equations they are *)
(* defined by: each is the least fixed point of a monotone condition.       *)

\* A nonempty set of numbers has a least one.
LEMMA Least ==
  ASSUME NEW T \in SUBSET Nat, T # {}
  PROVE  \E m \in T : \A n \in T : m <= n
<1>1. PICK m \in T : \A n \in T : ~(<<n, m>> \in OpToRel(<, Nat))
  BY NatLessThanWellFounded, WFMin
<1>2. \A n \in T : ~(n < m)
  BY <1>1 DEF OpToRel
<1> QED BY <1>2

\* removesIn: the operation itself, or one nested in it, removes a field.
LEMMA RemovesIn ==
  TypeOK => \A o \in Ops : removesIn[o] <=> \/ HasOwnRemoves(ops[o])
                                            \/ \E k \in DOMAIN ops[o].maps : removesIn[ops[o].maps[k]]
<1> SUFFICES ASSUME TypeOK
             PROVE  \A o \in Ops : removesIn[o] <=> \/ HasOwnRemoves(ops[o])
                      \/ \E k \in DOMAIN ops[o].maps : removesIn[ops[o].maps[k]]
  OBVIOUS
<1> DEFINE P(g) == g = [o \in Ops |-> HasOwnRemoves(ops[o])
                                      \/ \E k \in DOMAIN ops[o].maps : g[ops[o].maps[k]]]
<1>1. removesIn = CHOOSE g : P(g)
  BY Zenon DEF removesIn
<1> DEFINE Finds(o, S) == \/ HasOwnRemoves(ops[o])
                          \/ \E k \in DOMAIN ops[o].maps : ops[o].maps[k] \in S
           Closed(S) == \A o \in Ops : Finds(o, S) => o \in S
           R == {o \in Ops : \A S \in SUBSET Ops : Closed(S) => o \in S}
           f == [o \in Ops |-> o \in R]
<1>2. \A S, T \in SUBSET Ops : S \subseteq T => \A o \in Ops : Finds(o, S) => Finds(o, T)
  OBVIOUS
<1>3. \A o \in Ops : \A k \in DOMAIN ops[o].maps : ops[o].maps[k] \in Ops
  BY DEF TypeOK, IsOperation, IsMap
<1> HIDE DEF Finds
<1>4. R \in SUBSET Ops /\ Closed(R)
  BY <1>2
<1>5. \A o \in R : Finds(o, R)
  <2> SUFFICES ASSUME NEW o \in R, ~Finds(o, R) PROVE FALSE
    OBVIOUS
  <2>1. Closed(R \ {o})
    BY <1>2, <1>4
  <2> QED BY <2>1
<1>6. P(f)
  <2>1. \A o \in Ops : o \in R <=> Finds(o, R)
    BY <1>4, <1>5
  <2>2. \A o \in Ops : o \in R <=> \/ HasOwnRemoves(ops[o])
                                   \/ \E k \in DOMAIN ops[o].maps : ops[o].maps[k] \in R
    BY <2>1 DEF Finds
  <2>3. \A o \in Ops : f[o] <=> o \in R
    OBVIOUS
  <2> HIDE DEF R, f
  <2>4. \A o \in Ops : o \in R <=> \/ HasOwnRemoves(ops[o])
                                   \/ \E k \in DOMAIN ops[o].maps : f[ops[o].maps[k]]
    BY <1>3, <2>2, <2>3
  <2> DEFINE Body(o) == HasOwnRemoves(ops[o]) \/ \E k \in DOMAIN ops[o].maps : f[ops[o].maps[k]]
  <2>5. \A o \in Ops : (o \in R) = Body(o)
    BY <2>4
  <2> HIDE DEF Body
  <2>6. f = [o \in Ops |-> Body(o)]
    BY <2>5 DEF f
  <2> QED BY <2>6 DEF Body
<1> HIDE DEF P
<1>7. P(removesIn)
  BY <1>1, <1>6
<1> QED BY <1>7 DEF P

\* isSent: the root, and what is nested in an operation that is sent.
SentRule ==
  \A o \in Ops : isSent[o] <=>
    \/ o = Root
    \/ \E p \in 1..(o - 1) : isSent[p] /\ \E k \in DOMAIN ops[p].maps : ops[p].maps[k] = o

LEMMA IsSent == TypeOK => SentRule
<1> SUFFICES ASSUME TypeOK PROVE SentRule
  OBVIOUS
<1> DEFINE Holds(p, o) == \E k \in DOMAIN ops[p].maps : ops[p].maps[k] = o
           P(g) == g = [o \in Ops |-> o = Root \/ \E p \in 1..(o - 1) : g[p] /\ Holds(p, o)]
<1>1. isSent = CHOOSE g : P(g)
  BY Zenon DEF isSent
<1> HIDE DEF Holds
<1> DEFINE Finds(o, S) == o = Root \/ \E p \in 1..(o - 1) : p \in S /\ Holds(p, o)
           Closed(S) == \A o \in Ops : Finds(o, S) => o \in S
           R == {o \in Ops : \A S \in SUBSET Ops : Closed(S) => o \in S}
           f == [o \in Ops |-> o \in R]
<1>2. \A S, T \in SUBSET Ops : S \subseteq T => \A o \in Ops : Finds(o, S) => Finds(o, T)
  OBVIOUS
<1>3. \A o \in Ops : \A p \in 1..(o - 1) : p \in Ops
  BY MapAssumption DEF Ops
<1> HIDE DEF Finds
<1>4. R \in SUBSET Ops /\ Closed(R)
  BY <1>2
<1>5. \A o \in R : Finds(o, R)
  <2> SUFFICES ASSUME NEW o \in R, ~Finds(o, R) PROVE FALSE
    OBVIOUS
  <2>1. Closed(R \ {o})
    BY <1>2, <1>4
  <2> QED BY <2>1
<1>6. P(f)
  <2>1. \A o \in Ops : o \in R <=> Finds(o, R)
    BY <1>4, <1>5
  <2>2. \A o \in Ops : (o \in R) = (o = Root \/ \E p \in 1..(o - 1) : p \in R /\ Holds(p, o))
    BY <2>1 DEF Finds
  <2> HIDE DEF R
  <2> QED BY <1>3, <2>2
<1> HIDE DEF P
<1>7. P(isSent)
  BY <1>1, <1>6
<1> QED BY <1>7 DEF P, Holds, SentRule

\* The same of the next state.
LEMMA IsSentNext == TypeOK' => SentRule'
  BY IsSent, PTL
-----------------------------------------------------------------------------
(* What the message holds. *)

\* Along the nesting a removal reaches the root: of the sent operations with a
\* removal in them the one with the least number is the root.
LEMMA RemovalReachesRoot ==
  ASSUME TypeOK, NEW o \in InMessage, HasOwnRemoves(ops[o])
  PROVE  removesIn[Root]
<1> DEFINE T == {n \in Ops : isSent[n] /\ removesIn[n]}
<1>1. o \in Ops /\ isSent[o]
  BY MapAssumption DEF InMessage, TypeOK, Ops
<1>2. o \in T
  BY <1>1, RemovesIn
<1>3. T \in SUBSET Nat
  BY MapAssumption DEF Ops
<1>4. PICK m \in T : \A n \in T : m <= n
  BY <1>2, <1>3, Least
<1>5. m \in Ops /\ isSent[m] /\ removesIn[m]
  BY <1>4
<1>6. CASE m = Root
  BY <1>5, <1>6
<1>7. CASE m # Root
  <2>1. PICK p \in 1..(m - 1) : isSent[p] /\ \E k \in DOMAIN ops[p].maps : ops[p].maps[k] = m
    BY <1>5, <1>7, IsSent DEF SentRule
  <2>2. p \in Ops /\ p < m
    BY <1>5, MapAssumption DEF Ops
  <2>3. removesIn[p]
    BY <1>5, <2>1, <2>2, RemovesIn
  <2>4. p \in T
    BY <2>1, <2>2, <2>3
  <2>5. m <= p
    BY <1>4, <2>4
  <2> QED BY <2>2, <2>5, <1>5, MapAssumption DEF Ops
<1> QED BY <1>6, <1>7

\* What is sent is an operation in use.
LEMMA SentInMessage ==
  ASSUME TypeOK, NEW o \in Ops, isSent[o]
  PROVE  o \in InMessage
<1>1. CASE o = Root
  BY <1>1 DEF InMessage, Root, TypeOK, Ops
<1>2. CASE o # Root
  <2>1. PICK p \in 1..(o - 1) : \E k \in DOMAIN ops[p].maps : ops[p].maps[k] = o
    BY <1>2, IsSent DEF SentRule
  <2>2. p \in Ops
    BY MapAssumption DEF Ops
  <2>3. o <= used
    BY <2>1, <2>2, MapAssumption DEF TypeOK, Nesting, Ops
  <2> QED BY <2>3, MapAssumption DEF InMessage, TypeOK, Ops
<1> QED BY <1>1, <1>2

\* And the other way: of the sent operations with a removal in them the one with the
\* greatest number has none in a nested operation, so the removal is its own.
LEMMA RemovalIsSomewhere ==
  ASSUME TypeOK, removesIn[Root]
  PROVE  \E o \in InMessage : HasOwnRemoves(ops[o])
<1> DEFINE T == {n \in Ops : isSent[n] /\ removesIn[n]}
           U == {i \in Nat : MaxOps - i \in T}
<1>1. Root \in T
  BY IsSent, MapAssumption DEF SentRule, Root, Ops
<1>2. MaxOps - Root \in U
  BY <1>1, MapAssumption DEF Root, Ops
<1>3. PICK i \in U : \A j \in U : i <= j
  BY <1>2, Least
<1> DEFINE m == MaxOps - i
<1>4. m \in Ops /\ isSent[m] /\ removesIn[m] /\ i = MaxOps - m
  BY <1>3, MapAssumption
<1> HIDE DEF m
<1>5. HasOwnRemoves(ops[m])
  <2> SUFFICES ASSUME ~HasOwnRemoves(ops[m]) PROVE FALSE
    OBVIOUS
  <2>1. PICK k \in DOMAIN ops[m].maps : removesIn[ops[m].maps[k]]
    BY <1>4, RemovesIn
  <2>2. PICK c : c = ops[m].maps[k]
    OBVIOUS
  <2>3. c \in Ops /\ m < c /\ m \in 1..(c - 1)
    BY <1>4, <2>2, MapAssumption DEF TypeOK, Nesting, Ops
  <2>4. isSent[c]
    BY <1>4, <2>2, <2>3, IsSent DEF SentRule
  <2>5. MaxOps - c \in U
    BY <2>1, <2>2, <2>3, <2>4, MapAssumption DEF Ops
  <2>6. i <= MaxOps - c
    BY <1>3, <2>5
  <2> QED BY <1>4, <2>3, <2>6, MapAssumption DEF Ops
<1> QED BY <1>4, <1>5, SentInMessage

LEMMA TypeOKContext == TypeOK => ContextDemanded
<1> SUFFICES ASSUME TypeOK PROVE ContextDemanded
  OBVIOUS
<1>1. removesIn[Root] <=> \E o \in InMessage : HasOwnRemoves(ops[o])
  BY RemovalReachesRoot, RemovalIsSomewhere
<1> QED BY <1>1 DEF ContextDemanded, NeedsContext, hasRemoves

\* Build asks for a context exactly when the message removes a field, however deeply
\* the operations are nested, or elements from a set of the outermost map.  The removal
\* of elements from sets in nested maps is not among them.
THEOREM ContextAlwaysDemanded == Spec => []ContextDemanded
  BY MapTypeCorrect, TypeOKContext, PTL

\* The operations nested in an operation after a call were nested in it before, except
\* the new one.
LEMMA NestedBefore ==
  ASSUME TypeOK, [Next]_vars
  PROVE  /\ \A p \in Ops : \A k \in DOMAIN ops'[p].maps :
               \/ ops'[p].maps[k] = used + 1
               \/ k \in DOMAIN ops[p].maps /\ ops'[p].maps[k] = ops[p].maps[k]
<1>1. CASE UNCHANGED vars
  BY <1>1 DEF vars
<1>2. CASE Next
  <2>1. PICK o \in 1..used, k \in Keys : Calls(o, k)
    BY <1>2 DEF Next
  <2>2. o \in Ops
    BY MapAssumption DEF TypeOK, Ops
  <2>3. CASE MapNew(o, k)
    <3> DEFINE op == [ops[o] EXCEPT !.removeMaps = @ \ {k}, !.maps = Put(@, k, used + 1)]
    <3>1. \A p \in Ops : ops'[p] = IF p = o THEN op ELSE ops[p]
      BY <2>2, <2>3 DEF MapNew, Does, TypeOK
    <3>2. op.maps = Put(ops[o].maps, k, used + 1)
      BY <2>2 DEF TypeOK, IsOperation, NewMapOperation
    <3> HIDE DEF op
    <3>3. \A l \in DOMAIN op.maps : \/ op.maps[l] = used + 1
                                    \/ l \in DOMAIN ops[o].maps /\ op.maps[l] = ops[o].maps[l]
      BY <3>2 DEF Put
    <3> QED BY <3>1, <3>3
  <2>4. CASE Harmless(o)
    <3>1. PICK op, call : Does(o, op, call) /\ Fewer(o, op)
      BY <2>4 DEF Harmless
    <3>2. \A p \in Ops : ops'[p] = IF p = o THEN op ELSE ops[p]
      BY <2>2, <3>1 DEF Does, TypeOK
    <3> QED BY <3>1, <3>2 DEF Fewer
  <2> QED BY <2>1, <2>3, <2>4, CallEffect
<1> QED BY <1>1, <1>2

\* An operation that is in no message now is in none after a call: of those that
\* come back the one with the least number is nested in one that was sent before.
LEMMA NotSentAgain ==
  ASSUME TypeOK, TypeOK', [Next]_vars, NEW o \in 1..used, o \notin InMessage
  PROVE  o \notin InMessage'
<1> SUFFICES ASSUME o \in InMessage' PROVE FALSE
  OBVIOUS
<1> DEFINE T == {n \in 1..used : isSent'[n] /\ ~isSent[n]}
<1>1. used \in Nat /\ \A n \in 1..used : n \in Ops
  BY MapAssumption DEF TypeOK, Ops
<1>2. o \in T
  BY DEF InMessage
<1>3. T \in SUBSET Nat
  OBVIOUS
<1>4. PICK m \in T : \A n \in T : m <= n
  BY <1>2, <1>3, Least
<1>5. m \in 1..used /\ m \in Ops /\ isSent'[m] /\ ~isSent[m]
  BY <1>1, <1>4
<1> HIDE DEF T
<1>6. m # Root
  BY <1>5, IsSent DEF SentRule
<1>7. SentRule /\ SentRule'
  BY IsSent, IsSentNext
<1>8. PICK p \in 1..(m - 1) : isSent'[p] /\ \E k \in DOMAIN ops'[p].maps : ops'[p].maps[k] = m
  BY <1>5, <1>6, <1>7 DEF SentRule
<1>9. p \in 1..used /\ p < m /\ m < used + 1
  BY <1>1, <1>5
<1>10. \E k \in DOMAIN ops[p].maps : ops[p].maps[k] = m
  BY <1>1, <1>8, <1>9, NestedBefore
<1>11. ~isSent[p]
  BY <1>5, <1>7, <1>10 DEF SentRule
<1>12. p \in T
  BY <1>8, <1>9, <1>11 DEF T
<1> QED BY <1>1, <1>4, <1>5, <1>9, <1>12

\* A nested operation that was removed never comes back, whatever is called on it or
\* on the others.
THEOREM RemovedStaysRemoved == Spec => RemovedForGood
<1>1. TypeOK /\ TypeOK' /\ [Next]_vars
        => [\A o \in 1..used : o \notin InMessage => o \notin InMessage']_vars
  BY NotSentAgain
<1> QED BY <1>1, MapTypeCorrect, PTL DEF Spec, RemovedForGood
-----------------------------------------------------------------------------
(* Sums of int64. *)

LEMMA DivMod ==
  ASSUME NEW a \in Int, NEW m \in Nat, m > 0
  PROVE  a % m \in 0..(m - 1) /\ a \div m \in Int /\ a = m * (a \div m) + (a % m)
  OBVIOUS

\* There is one remainder.
LEMMA OneRemainder ==
  ASSUME NEW m \in Nat, m > 0, NEW p \in Int, NEW q \in Int,
         NEW r \in 0..(m - 1), NEW s \in 0..(m - 1), m * p + r = m * q + s
  PROVE  r = s
<1>1. ASSUME NEW x \in Int, NEW y \in Int, x > y PROVE m * x >= m * y + m
  <2>1. PICK d \in Nat : x = y + 1 + d
    <3>1. x - y - 1 \in Nat /\ x = y + 1 + (x - y - 1)
      BY <1>1
    <3> QED BY <3>1
  <2>2. m * x = m * y + m + m * d
    BY <2>1
  <2>3. m * d >= 0 /\ m * d \in Int /\ m * y \in Int
    OBVIOUS
  <2> QED BY <2>2, <2>3
<1>2. m * p \in Int /\ m * q \in Int
  OBVIOUS
<1>3. CASE p > q
  BY <1>1, <1>2, <1>3
<1>4. CASE p < q
  BY <1>1, <1>2, <1>4
<1>5. CASE p = q
  BY <1>2, <1>5
<1> QED BY <1>3, <1>4, <1>5

LEMMA ModPlus ==
  ASSUME NEW a \in Int, NEW n \in Int, NEW m \in Nat, m > 0
  PROVE  ((a % m) + n) % m = (a + n) % m
<1> DEFINE r == a % m
           q == a \div m
           s == (r + n) % m
           p == (r + n) \div m
           t == (a + n) % m
           u == (a + n) \div m
<1>1. r \in 0..(m - 1) /\ q \in Int /\ a = m * q + r
  BY DivMod
<1>2. s \in 0..(m - 1) /\ p \in Int /\ r + n = m * p + s
  <2>1. r + n \in Int
    BY <1>1
  <2> HIDE DEF r
  <2> QED BY <2>1, DivMod
<1>3. t \in 0..(m - 1) /\ u \in Int /\ a + n = m * u + t
  BY DivMod
<1> HIDE DEF r, q, s, p, t, u
<1>4. m * (q + p) = m * q + m * p
  BY <1>1, <1>2
<1>5. m * (q + p) + s = m * u + t
  BY <1>1, <1>2, <1>3, <1>4
<1>6. s = t
  <2>1. q + p \in Int
    BY <1>1, <1>2
  <2> QED BY <1>2, <1>3, <1>5, <2>1, OneRemainder
<1> QED BY <1>6 DEF r, s, t

\* Wrapping around at each addition or once at the end is the same.
LEMMA WrapPlus ==
  ASSUME NEW s \in Int, NEW n \in Int
  PROVE  Plus(Wrap(s), n) = Wrap(s + n) /\ Wrap(0) = 0
<1> DEFINE M == 2 * Half
           r == (s + Half) % M
<1>1. Half \in Nat /\ Half > 0 /\ M \in Nat /\ M > 0
  BY MapAssumption
<1>2. r \in Int
  BY <1>1, DivMod
<1>3. (r + n) % M = (s + Half + n) % M
  <2>1. s + Half \in Int
    BY <1>1
  <2> HIDE DEF M
  <2> QED BY <1>1, <2>1, ModPlus
<1>4. s + Half + n = s + n + Half
  BY <1>1
<1> HIDE DEF M
<1>5. Plus(Wrap(s), n) = ((r - Half + n + Half) % M) - Half
  BY DEF Plus, Wrap, M
<1> HIDE DEF r
<1>6. r - Half + n + Half = r + n
  BY <1>1, <1>2
<1>7. Plus(Wrap(s), n) = Wrap(s + n)
  BY <1>3, <1>4, <1>5, <1>6 DEF Wrap, M
<1>8. Half % M = Half
  <2>1. Half % M \in 0..(M - 1) /\ Half \div M \in Int /\ Half = M * (Half \div M) + (Half % M)
    BY <1>1, DivMod
  <2>2. M * 0 + Half = M * (Half \div M) + (Half % M)
    BY <1>1, <2>1
  <2>3. Half \in 0..(M - 1)
    BY <1>1 DEF M
  <2> QED BY <1>1, <2>1, <2>2, <2>3, OneRemainder
<1>9. Wrap(0) = 0
  BY <1>1, <1>8 DEF Wrap, M
<1> QED BY <1>7, <1>9
-----------------------------------------------------------------------------
(* What a log with one more call means. *)

\* Log m is log l and call c.
Extended(l, c, m) ==
  /\ Len(l) \in Nat /\ DOMAIN l = 1..Len(l) /\ DOMAIN m = 1..(Len(l) + 1)
  /\ \A i \in 1..Len(l) : m[i] = l[i]
  /\ m[Len(l) + 1] = c

LEMMA AppendExtends ==
  ASSUME NEW S, NEW l \in Seq(S), NEW c \in S
  PROVE  Extended(l, c, Append(l, c))
  BY DEF Extended

Hits(c, o, k, name) == c.op = o /\ c.key = k /\ c.call = name

LEMMA AtStep ==
  ASSUME NEW l, NEW c, NEW m, Extended(l, c, m), NEW o, NEW k, NEW name
  PROVE  /\ At(l, o, k, name) \subseteq 1..Len(l)
         /\ Hits(c, o, k, name) => At(m, o, k, name) = At(l, o, k, name) \cup {Len(l) + 1}
         /\ ~Hits(c, o, k, name) => At(m, o, k, name) = At(l, o, k, name)
<1>1. /\ Len(l) \in Nat /\ DOMAIN l = 1..Len(l) /\ DOMAIN m = 1..(Len(l) + 1)
      /\ \A i \in 1..Len(l) : m[i] = l[i]
      /\ m[Len(l) + 1] = c
  BY DEF Extended
<1>2. 1..(Len(l) + 1) = 1..Len(l) \cup {Len(l) + 1}
  BY <1>1
<1>3. At(m, o, k, name) = At(l, o, k, name)
                            \cup {i \in {Len(l) + 1} : Hits(c, o, k, name)}
  BY <1>1, <1>2 DEF At, Hits
<1> QED BY <1>1, <1>3 DEF At

LEMMA SinceStep ==
  ASSUME NEW l, NEW c, NEW m, Extended(l, c, m), NEW o, NEW k, NEW name, NEW removal,
         name # removal
  PROVE  /\ Since(l, o, k, name, removal) \subseteq 1..Len(l)
         /\ Hits(c, o, k, removal) => Since(m, o, k, name, removal) = {}
         /\ Hits(c, o, k, name) =>
              Since(m, o, k, name, removal) = Since(l, o, k, name, removal) \cup {Len(l) + 1}
         /\ ~Hits(c, o, k, name) /\ ~Hits(c, o, k, removal) =>
              Since(m, o, k, name, removal) = Since(l, o, k, name, removal)
<1> DEFINE A == At(l, o, k, name)
           B == At(l, o, k, removal)
           A2 == At(m, o, k, name)
           B2 == At(m, o, k, removal)
           n == Len(l) + 1
<1>1. Len(l) \in Nat
  BY DEF Extended
<1>2. /\ A \subseteq 1..Len(l)
      /\ Hits(c, o, k, name) => A2 = A \cup {n}
      /\ ~Hits(c, o, k, name) => A2 = A
  BY AtStep
<1>3. /\ B \subseteq 1..Len(l)
      /\ Hits(c, o, k, removal) => B2 = B \cup {n}
      /\ ~Hits(c, o, k, removal) => B2 = B
  BY AtStep
<1>4. ~(Hits(c, o, k, name) /\ Hits(c, o, k, removal))
  BY DEF Hits
<1>5. /\ Since(l, o, k, name, removal) = {i \in A : \A j \in B : j < i}
      /\ Since(m, o, k, name, removal) = {i \in A2 : \A j \in B2 : j < i}
  BY DEF Since
<1> HIDE DEF A, B, A2, B2
<1>6. \A i \in 1..Len(l) : i < n /\ ~(n < i)
  BY <1>1
<1>7. CASE Hits(c, o, k, removal)
  BY <1>2, <1>3, <1>4, <1>5, <1>6, <1>7
<1>8. CASE Hits(c, o, k, name)
  <2>1. A2 = A \cup {n} /\ B2 = B
    BY <1>2, <1>3, <1>4, <1>8
  <2>2. \A j \in B : j < n
    BY <1>3, <1>6
  <2>3. {i \in A \cup {n} : \A j \in B : j < i} = {i \in A : \A j \in B : j < i} \cup {n}
    BY <2>2
  <2> QED BY <1>2, <1>4, <1>5, <1>8, <2>1, <2>3
<1>9. CASE ~Hits(c, o, k, name) /\ ~Hits(c, o, k, removal)
  BY <1>2, <1>3, <1>5, <1>9
<1> QED BY <1>7, <1>8, <1>9

LEMMA RemovedStep ==
  ASSUME NEW l, NEW c, NEW m, Extended(l, c, m), NEW o, NEW removal, NEW changes,
         removal \notin changes, c.key \in Keys
  PROVE  /\ c.op = o /\ c.call = removal =>
              Removed(m, o, removal, changes) = Removed(l, o, removal, changes) \cup {c.key}
         /\ c.op = o /\ c.call \in changes =>
              Removed(m, o, removal, changes) = Removed(l, o, removal, changes) \ {c.key}
         /\ c.op # o \/ c.call \notin changes \cup {removal} =>
              Removed(m, o, removal, changes) = Removed(l, o, removal, changes)
<1> DEFINE is(x, k) == \E i \in At(x, o, k, removal) :
                         \A name \in changes : \A j \in At(x, o, k, name) : j < i
           n == Len(l) + 1
<1>1. /\ Removed(l, o, removal, changes) = {k \in Keys : is(l, k)}
      /\ Removed(m, o, removal, changes) = {k \in Keys : is(m, k)}
  BY DEF Removed
<1>2. Len(l) \in Nat
  BY DEF Extended
<1>3. \A k, name : /\ At(l, o, k, name) \subseteq 1..Len(l)
                   /\ Hits(c, o, k, name) => At(m, o, k, name) = At(l, o, k, name) \cup {n}
                   /\ ~Hits(c, o, k, name) => At(m, o, k, name) = At(l, o, k, name)
  BY AtStep
<1>4. \A i \in 1..Len(l) : i < n /\ ~(n < i)
  BY <1>2
<1>5. ASSUME NEW k, \A name \in changes \cup {removal} : ~Hits(c, o, k, name)
      PROVE  is(m, k) <=> is(l, k)
  BY <1>3, <1>5
<1>6. ASSUME NEW k, Hits(c, o, k, removal) PROVE is(m, k)
  <2>1. n \in At(m, o, k, removal)
    BY <1>3, <1>6
  <2>2. \A name \in changes : \A j \in At(m, o, k, name) : j < n
    <3> TAKE name \in changes
    <3>1. ~Hits(c, o, k, name)
      BY <1>6 DEF Hits
    <3> QED BY <1>3, <1>4, <3>1
  <2> QED BY <2>1, <2>2
<1>7. ASSUME NEW k, NEW name \in changes, Hits(c, o, k, name) PROVE ~is(m, k)
  <2>1. n \in At(m, o, k, name)
    BY <1>3, <1>7
  <2>2. ~Hits(c, o, k, removal)
    BY <1>7 DEF Hits
  <2>3. \A i \in At(m, o, k, removal) : i \in 1..Len(l)
    BY <1>3, <2>2
  <2> QED BY <1>4, <2>1, <2>3
<1> HIDE DEF is
<1>8. CASE c.op = o /\ c.call = removal
  <2>1. is(m, c.key)
    BY <1>6, <1>8 DEF Hits
  <2>2. \A k \in Keys : k # c.key => (is(m, k) <=> is(l, k))
    BY <1>5 DEF Hits
  <2> QED BY <1>1, <1>8, <2>1, <2>2
<1>9. CASE c.op = o /\ c.call \in changes
  <2>1. ~is(m, c.key)
    BY <1>7, <1>9 DEF Hits
  <2>2. \A k \in Keys : k # c.key => (is(m, k) <=> is(l, k))
    BY <1>5 DEF Hits
  <2> QED BY <1>1, <1>9, <2>1, <2>2
<1>10. CASE c.op # o \/ c.call \notin changes \cup {removal}
  <2>1. \A k \in Keys : is(m, k) <=> is(l, k)
    BY <1>5, <1>10 DEF Hits
  <2> QED BY <1>1, <1>10, <2>1
<1> QED BY <1>8, <1>9, <1>10

\* Every number up to the size of P is the rank of a position.
Ranked(P) == \A r \in 1..Cardinality(P) : \E i \in P : Rank(i, P) = r

\* A nonempty set of positions has a last one.
LEMMA LastOf ==
  ASSUME NEW n \in Nat, NEW P \in SUBSET (1..n), P # {}
  PROVE  \E i \in P : \A j \in P : j <= i
<1> DEFINE T == {n - i : i \in P}
<1>1. T \in SUBSET Nat /\ T # {}
  <2>1. \A i \in P : n - i \in Nat
    <3> TAKE i \in P
    <3>1. i \in 1..n
      OBVIOUS
    <3> QED BY <3>1
  <2> QED BY <2>1
<1>2. PICK t \in T : \A u \in T : t <= u
  BY <1>1, Least
<1>3. PICK i \in P : t = n - i
  BY <1>2
<1>4. \A j \in P : n - i <= n - j
  BY <1>2, <1>3
<1> QED BY <1>3, <1>4

LEMMA FinitePositions ==
  ASSUME NEW n \in Nat, NEW P \in SUBSET (1..n)
  PROVE  IsFiniteSet(P) /\ Cardinality(P) \in Nat
<1>1. IsFiniteSet(1..n)
  BY FS_Interval
<1>2. IsFiniteSet(P)
  BY <1>1, FS_Subset
<1> QED BY <1>2, FS_CardinalityType

\* The new position is one more.
LEMMA OneMore ==
  ASSUME NEW n \in Nat, NEW P \in SUBSET (1..n)
  PROVE  Cardinality(P \cup {n + 1}) = Cardinality(P) + 1
<1>1. IsFiniteSet(P)
  BY FinitePositions
<1>2. n + 1 \notin P
  <2>1. n + 1 \notin 1..n
    OBVIOUS
  <2> QED BY <2>1
<1> QED BY <1>1, <1>2, FS_AddElement

\* It is the last one and leaves the ranks of the others alone.
LEMMA RankStep ==
  ASSUME NEW n \in Nat, NEW P \in SUBSET (1..n)
  PROVE  LET Q == P \cup {n + 1}
         IN /\ \A i \in P : Rank(i, Q) = Rank(i, P)
            /\ \A i \in P : Rank(i, P) <= Cardinality(P) /\ Rank(i, P) \in Nat
            /\ Rank(n + 1, Q) = Cardinality(P) + 1
<1> DEFINE Q == P \cup {n + 1}
<1>1. ASSUME NEW i \in P PROVE {j \in Q : j <= i} = {j \in P : j <= i}
  BY <1>1
<1>2. {j \in Q : j <= n + 1} = Q
  <2>1. \A j \in 1..n : j <= n + 1
    OBVIOUS
  <2>2. n + 1 <= n + 1
    OBVIOUS
  <2> QED BY <2>1, <2>2
<1>3. Cardinality(Q) = Cardinality(P) + 1
  BY OneMore
<1>4. \A i \in P : Rank(i, Q) = Rank(i, P)
  BY <1>1 DEF Rank
<1>5. Rank(n + 1, Q) = Cardinality(P) + 1
  BY <1>2, <1>3 DEF Rank
<1>6. ASSUME NEW i \in P PROVE Rank(i, P) <= Cardinality(P) /\ Rank(i, P) \in Nat
  <2>1. {j \in P : j <= i} \subseteq P
    OBVIOUS
  <2>2. IsFiniteSet(P)
    BY FinitePositions
  <2>3. IsFiniteSet({j \in P : j <= i}) /\ Cardinality({j \in P : j <= i}) <= Cardinality(P)
    BY <2>1, <2>2, FS_Subset
  <2> QED BY <2>3, FS_CardinalityType DEF Rank
<1> QED BY <1>4, <1>5, <1>6

LEMMA RankedNext ==
  ASSUME NEW n \in Nat, NEW P \in SUBSET (1..n), Ranked(P)
  PROVE  Ranked(P \cup {n + 1})
<1> DEFINE Q == P \cup {n + 1}
<1>1. Cardinality(Q) = Cardinality(P) + 1 /\ Cardinality(P) \in Nat
  BY OneMore, FinitePositions
<1>2. (\A i \in P : Rank(i, Q) = Rank(i, P)) /\ Rank(n + 1, Q) = Cardinality(P) + 1
  BY RankStep
<1> SUFFICES ASSUME NEW r \in 1..Cardinality(Q) PROVE \E i \in Q : Rank(i, Q) = r
  BY DEF Ranked
<1> HIDE DEF Q
<1>3. CASE r = Cardinality(P) + 1
  BY <1>2, <1>3 DEF Q
<1>4. CASE r # Cardinality(P) + 1
  <2>1. r \in 1..Cardinality(P)
    BY <1>1, <1>4
  <2>2. PICK i \in P : Rank(i, P) = r
    BY <2>1 DEF Ranked
  <2> QED BY <1>2, <2>2 DEF Q
<1> QED BY <1>3, <1>4

\* The longer log says the same of old positions.
LEMMA MeaningKept ==
  ASSUME NEW l, NEW c, NEW m, Extended(l, c, m), NEW P \in SUBSET (1..Len(l)), P # {},
         Ranked(P), NEW how \in {"sum", "all", "last"}
  PROVE  Meaning(m, P, how) = Meaning(l, P, how)
<1>1. Len(l) \in Nat /\ \A i \in P : m[i] = l[i]
  BY DEF Extended
<1>2. Total(m, P) = Total(l, P)
  <2>1. /\ {i \in P : m[i].arg = 1} = {i \in P : l[i].arg = 1}
        /\ {i \in P : m[i].arg = -1} = {i \in P : l[i].arg = -1}
    BY <1>1
  <2> QED BY <2>1 DEF Total
<1>3. Args(m, P) = Args(l, P)
  <2>1. ASSUME NEW r \in 1..Cardinality(P)
        PROVE  m[CHOOSE i \in P : Rank(i, P) = r] = l[CHOOSE i \in P : Rank(i, P) = r]
    <3>1. \E i \in P : Rank(i, P) = r
      BY DEF Ranked
    <3> QED BY <1>1, <3>1
  <2> QED BY <2>1 DEF Args
<1>4. Latest(m, P) = Latest(l, P)
  <2>1. \E i \in P : \A j \in P : j <= i
    BY <1>1, LastOf
  <2> QED BY <1>1, <2>1 DEF Latest
<1> QED BY <1>2, <1>3, <1>4 DEF Meaning

LEMMA TotalNext ==
  ASSUME NEW l, NEW c, NEW m, Extended(l, c, m), NEW P \in SUBSET (1..Len(l)),
         c.arg \in {1, -1}
  PROVE  Total(m, P \cup {Len(l) + 1}) = Plus(Total(l, P), c.arg)
<1> DEFINE n == Len(l)
           up(x, Q) == {i \in Q : x[i].arg = 1}
           down(x, Q) == {i \in Q : x[i].arg = -1}
           a == Cardinality(up(l, P))
           b == Cardinality(down(l, P))
           Q == P \cup {n + 1}
<1>1. n \in Nat /\ (\A i \in P : m[i] = l[i]) /\ m[n + 1] = c
  BY DEF Extended
<1>2. up(l, P) \in SUBSET (1..n) /\ down(l, P) \in SUBSET (1..n)
  OBVIOUS
<1>3. a \in Nat /\ b \in Nat
  BY <1>1, <1>2, FinitePositions
<1>4. Total(m, Q) = Wrap(Cardinality(up(m, Q)) - Cardinality(down(m, Q)))
      /\ Total(l, P) = Wrap(a - b)
  BY DEF Total
<1>5. CASE c.arg = 1
  <2>1. up(m, Q) = up(l, P) \cup {n + 1} /\ down(m, Q) = down(l, P)
    <3>1. c.arg = 1 /\ c.arg # -1
      BY <1>5
    <3>2. \A i : i \in up(m, Q) <=> i \in up(l, P) \cup {n + 1}
      BY <1>1, <3>1, Zenon
    <3>3. \A i : i \in down(m, Q) <=> i \in down(l, P)
      BY <1>1, <3>1, Zenon
    <3> HIDE DEF up, down, Q
    <3> QED BY <3>2, <3>3
  <2>2. Cardinality(up(l, P) \cup {n + 1}) = a + 1
    BY <1>1, <1>2, OneMore
  <2>3. Total(m, Q) = Wrap((a + 1) - b)
    BY <1>4, <2>1, <2>2
  <2>4. (a + 1) - b = (a - b) + 1 /\ a - b \in Int
    BY <1>3
  <2> HIDE DEF a, b, Q
  <2>5. Plus(Wrap(a - b), 1) = Wrap((a - b) + 1)
    BY <2>4, WrapPlus
  <2> QED BY <1>4, <1>5, <2>3, <2>4, <2>5 DEF Q
<1>6. CASE c.arg = -1
  <2>1. down(m, Q) = down(l, P) \cup {n + 1} /\ up(m, Q) = up(l, P)
    <3>1. c.arg = -1 /\ c.arg # 1
      BY <1>6
    <3>2. \A i : i \in down(m, Q) <=> i \in down(l, P) \cup {n + 1}
      BY <1>1, <3>1, Zenon
    <3>3. \A i : i \in up(m, Q) <=> i \in up(l, P)
      BY <1>1, <3>1, Zenon
    <3> HIDE DEF up, down, Q
    <3> QED BY <3>2, <3>3
  <2>2. Cardinality(down(l, P) \cup {n + 1}) = b + 1
    BY <1>1, <1>2, OneMore
  <2>3. Total(m, Q) = Wrap(a - (b + 1))
    BY <1>4, <2>1, <2>2
  <2>4. a - (b + 1) = (a - b) + (-1) /\ a - b \in Int
    BY <1>3
  <2> HIDE DEF a, b, Q
  <2>5. Plus(Wrap(a - b), -1) = Wrap((a - b) + (-1))
    BY <2>4, WrapPlus
  <2> QED BY <1>4, <1>6, <2>3, <2>4, <2>5 DEF Q
<1> QED BY <1>5, <1>6

LEMMA ArgsNext ==
  ASSUME NEW l, NEW c, NEW m, Extended(l, c, m), NEW P \in SUBSET (1..Len(l)), Ranked(P)
  PROVE  Args(m, P \cup {Len(l) + 1}) = Append(Args(l, P), c.arg)
<1> DEFINE n == Len(l)
           Q == P \cup {n + 1}
           a == Args(l, P)
           S == {l[i].arg : i \in P} \cup {c.arg}
           size == Cardinality(P)
<1>1. n \in Nat /\ (\A i \in P : m[i] = l[i]) /\ m[n + 1] = c
  BY DEF Extended
<1>2. size \in Nat /\ Cardinality(Q) = size + 1
  BY <1>1, FinitePositions, OneMore
<1>3. /\ \A i \in P : Rank(i, Q) = Rank(i, P)
      /\ \A i \in P : Rank(i, P) <= size /\ Rank(i, P) \in Nat
      /\ Rank(n + 1, Q) = size + 1
  BY <1>1, RankStep
<1>4. ASSUME NEW r \in 1..size
      PROVE  /\ (CHOOSE i \in Q : Rank(i, Q) = r) = (CHOOSE i \in P : Rank(i, P) = r)
             /\ (CHOOSE i \in P : Rank(i, P) = r) \in P
  <2>1. r # size + 1
    BY <1>2
  <2>2. \A i : i \in Q /\ Rank(i, Q) = r <=> i \in P /\ Rank(i, P) = r
    BY <1>3, <2>1
  <2>3. (CHOOSE i : i \in Q /\ Rank(i, Q) = r) = (CHOOSE i : i \in P /\ Rank(i, P) = r)
    BY <2>2
  <2>4. \E i \in P : Rank(i, P) = r
    BY DEF Ranked
  <2> QED BY <2>3, <2>4
<1>5. (CHOOSE i \in Q : Rank(i, Q) = size + 1) = n + 1
  <2>1. \A i \in Q : Rank(i, Q) = size + 1 => i = n + 1
    <3>1. \A i \in P : Rank(i, Q) # size + 1
      <4> HIDE DEF Q, size
      <4> QED BY <1>2, <1>3
    <3> QED BY <3>1
  <2>2. n + 1 \in Q /\ Rank(n + 1, Q) = size + 1
    BY <1>3
  <2> HIDE DEF Q
  <2> QED BY <2>1, <2>2
<1>6. /\ a = [r \in 1..size |-> l[CHOOSE i \in P : Rank(i, P) = r].arg]
      /\ Args(m, Q) = [r \in 1..(size + 1) |-> m[CHOOSE i \in Q : Rank(i, Q) = r].arg]
  BY <1>2 DEF Args
<1>7. a \in Seq(S) /\ Len(a) = size
  <2>1. \A r \in 1..size : l[CHOOSE i \in P : Rank(i, P) = r].arg \in S
    BY <1>4
  <2> DEFINE v(r) == l[CHOOSE i \in P : Rank(i, P) = r].arg
  <2>2. \A r \in 1..size : v(r) \in S
    BY <2>1
  <2>3. a = [r \in 1..size |-> v(r)]
    BY <1>6
  <2> HIDE DEF S, v, a, size
  <2>4. a \in [1..size -> S] /\ DOMAIN a = 1..size
    BY <2>2, <2>3
  <2> QED BY <1>2, <2>4
<1>8. /\ DOMAIN Append(a, c.arg) = 1..(size + 1)
      /\ \A r \in 1..size : Append(a, c.arg)[r] = a[r]
      /\ Append(a, c.arg)[size + 1] = c.arg
      /\ Append(a, c.arg) \in Seq(S)
  <2>1. c.arg \in S
    OBVIOUS
  <2> HIDE DEF S, a
  <2> QED BY <1>2, <1>7, <2>1
<1> HIDE DEF Q, size
<1>9. \A r \in 1..size : Args(m, Q)[r] = a[r]
  <2> TAKE r \in 1..size
  <2>1. r \in 1..(size + 1)
    BY <1>2
  <2>2. Args(m, Q)[r] = m[CHOOSE i \in Q : Rank(i, Q) = r].arg
    BY <1>6, <2>1
  <2>3. a[r] = l[CHOOSE i \in P : Rank(i, P) = r].arg
    BY <1>6
  <2> QED BY <1>1, <1>4, <2>2, <2>3
<1>10. Args(m, Q)[size + 1] = c.arg
  <2>1. size + 1 \in 1..(size + 1)
    BY <1>2
  <2>2. Args(m, Q)[size + 1] = m[CHOOSE i \in Q : Rank(i, Q) = size + 1].arg
    BY <1>6, <2>1
  <2> QED BY <1>1, <1>5, <2>2
<1>11. \A r \in 1..(size + 1) : Args(m, Q)[r] = Append(a, c.arg)[r]
  <2>1. \A r \in 1..(size + 1) : r \in 1..size \/ r = size + 1
    BY <1>2
  <2> HIDE DEF a
  <2> QED BY <1>8, <1>9, <1>10, <2>1
<1>12. Append(a, c.arg) = [r \in 1..(size + 1) |-> Append(a, c.arg)[r]]
  <2> HIDE DEF a, S
  <2> DEFINE b == Append(a, c.arg)
  <2>1. PICK k \in Nat : b \in [1..k -> S]
    <3>1. Seq(S) = UNION {[1..i -> S] : i \in Nat}
      BY SeqDef
    <3>2. b \in Seq(S)
      BY <1>8
    <3> HIDE DEF b
    <3> QED BY <3>1, <3>2
  <2> QED BY <1>8, <2>1, Zenon
<1> HIDE DEF a
<1>13. Args(m, Q) = [r \in 1..(size + 1) |-> Append(a, c.arg)[r]]
  BY <1>6, <1>11
<1> QED BY <1>12, <1>13 DEF Q, a

LEMMA LatestNext ==
  ASSUME NEW l, NEW c, NEW m, Extended(l, c, m), NEW P \in SUBSET (1..Len(l))
  PROVE  Latest(m, P \cup {Len(l) + 1}) = c.arg
<1> DEFINE n == Len(l)
           Q == P \cup {n + 1}
<1>1. n \in Nat /\ m[n + 1] = c
  BY DEF Extended
<1>2. n + 1 \in Q /\ \A j \in Q : j <= n + 1
  BY <1>1
<1>3. \A i \in Q : (\A j \in Q : j <= i) => i = n + 1
  BY <1>1
<1> HIDE DEF Q
<1>4. (CHOOSE i \in Q : \A j \in Q : j <= i) = n + 1
  BY <1>2, <1>3
<1> QED BY <1>1, <1>4 DEF Latest, Q

LEMMA MeaningOfNone ==
  ASSUME NEW l
  PROVE  Total(l, {}) = 0 /\ Args(l, {}) = <<>>
<1>1. Cardinality({}) = 0
  BY FS_EmptySet
<1>2. Total(l, {}) = 0
  <2>1. {i \in {} : l[i].arg = 1} = {} /\ {i \in {} : l[i].arg = -1} = {}
    OBVIOUS
  <2>2. 0 - 0 = 0
    OBVIOUS
  <2> QED BY <1>1, <2>1, <2>2, WrapPlus DEF Total
<1>3. Args(l, {}) = <<>>
  <2>1. 1..0 = {}
    OBVIOUS
  <2> QED BY <1>1, <2>1 DEF Args
<1> QED BY <1>2, <1>3
-----------------------------------------------------------------------------
(* The entries that a log with one more call asks for. *)

\* The positions that count are ranked, whatever call and field they are about.
RankedIn(l) ==
  \A o, k, name, removal : name # removal => Ranked(Since(l, o, k, name, removal))

LEMMA RankedInNext ==
  ASSUME NEW l, NEW c, NEW m, Extended(l, c, m), RankedIn(l)
  PROVE  RankedIn(m)
<1> SUFFICES ASSUME NEW o, NEW k, NEW name, NEW removal, name # removal
             PROVE  Ranked(Since(m, o, k, name, removal))
  BY DEF RankedIn
<1> DEFINE P == Since(l, o, k, name, removal)
           Q == Since(m, o, k, name, removal)
<1>1. Len(l) \in Nat
  BY DEF Extended
<1>2. Ranked(P)
  BY DEF RankedIn
<1>3. Ranked({})
  <2>1. Cardinality({}) = 0
    BY FS_EmptySet
  <2>2. 1..0 = {}
    OBVIOUS
  <2> QED BY <2>1, <2>2 DEF Ranked
<1>4. P \subseteq 1..Len(l) /\ (Q = {} \/ Q = P \cup {Len(l) + 1} \/ Q = P)
  BY SinceStep
<1> HIDE DEF P, Q
<1>5. Ranked(Q)
  BY <1>1, <1>2, <1>3, <1>4, RankedNext
<1> QED BY <1>5 DEF Q

\* One more call leaves the entries alone, deletes the one of its field or writes it.
AskedNext(l, c, m, o, name, removal, how) ==
  LET old == Asked(l, o, name, removal, how)
      new == Asked(m, o, name, removal, how)
      P   == Since(l, o, c.key, name, removal) \cup {Len(l) + 1}
  IN /\ c.op # o \/ c.call \notin {name, removal} => new = old
     /\ c.op = o /\ c.call = removal => new = Delete(old, c.key)
     /\ c.op = o /\ c.call = name => new = Put(old, c.key, Meaning(m, P, how))

LEMMA AskedStep ==
  ASSUME NEW l, NEW c, NEW m, Extended(l, c, m), RankedIn(l), c.key \in Keys,
         NEW o, NEW name, NEW removal, name # removal, NEW how \in {"sum", "all", "last"}
  PROVE  AskedNext(l, c, m, o, name, removal, how)
<1> DEFINE before(k) == Since(l, o, k, name, removal)
           after(k)  == Since(m, o, k, name, removal)
           old == Asked(l, o, name, removal, how)
           new == Asked(m, o, name, removal, how)
           K == {x \in Keys : before(x) # {}}
           L == {x \in Keys : after(x) # {}}
           n == Len(l) + 1
<1>1. /\ old = [k \in K |-> Meaning(l, before(k), how)]
      /\ new = [k \in L |-> Meaning(m, after(k), how)]
  BY DEF Asked
<1>2. \A k : /\ before(k) \subseteq 1..Len(l)
             /\ Hits(c, o, k, removal) => after(k) = {}
             /\ Hits(c, o, k, name) => after(k) = before(k) \cup {n}
             /\ ~Hits(c, o, k, name) /\ ~Hits(c, o, k, removal) => after(k) = before(k)
  BY SinceStep
<1>3. \A k \in K : Meaning(m, before(k), how) = Meaning(l, before(k), how)
  <2> TAKE k \in K
  <2>1. before(k) # {} /\ before(k) \in SUBSET (1..Len(l)) /\ Ranked(before(k))
    BY <1>2 DEF RankedIn
  <2> HIDE DEF before
  <2> QED BY <2>1, MeaningKept
<1> HIDE DEF before, after, old, new
<1>4. CASE c.op # o \/ c.call \notin {name, removal}
  <2>1. \A k : after(k) = before(k)
    BY <1>2, <1>4 DEF Hits
  <2>2. K = L
    BY <2>1
  <2> HIDE DEF K, L
  <2>3. \A k \in K : Meaning(m, after(k), how) = Meaning(l, before(k), how)
    BY <1>3, <2>1
  <2>4. new = old
    BY <1>1, <2>2, <2>3
  <2> QED BY <1>4, <2>4 DEF AskedNext, old, new
<1>5. CASE c.op = o /\ c.call = removal
  <2>1. after(c.key) = {} /\ \A k : k # c.key => after(k) = before(k)
    BY <1>2, <1>5 DEF Hits
  <2>2. L = K \ {c.key}
    BY <2>1
  <2> HIDE DEF K, L
  <2>3. \A k \in L : k \in K /\ Meaning(m, after(k), how) = Meaning(l, before(k), how)
    BY <1>3, <2>1, <2>2
  <2>4. DOMAIN old = K /\ \A k \in L : old[k] = Meaning(m, after(k), how)
    BY <1>1, <2>3
  <2>5. new = Delete(old, c.key)
    BY <1>1, <2>2, <2>4 DEF Delete
  <2> QED BY <1>5, <2>5 DEF AskedNext, old, new
<1>6. CASE c.op = o /\ c.call = name
  <2> DEFINE v == Meaning(m, after(c.key), how)
  <2>1. after(c.key) = before(c.key) \cup {n} /\ \A k : k # c.key => after(k) = before(k)
    BY <1>2, <1>6 DEF Hits
  <2>2. L = K \cup {c.key}
    BY <2>1
  <2> HIDE DEF K, L
  <2>3. \A k \in L : k # c.key => /\ k \in K
                                  /\ Meaning(m, after(k), how) = Meaning(l, before(k), how)
    BY <1>3, <2>1, <2>2
  <2>4. DOMAIN old = K /\ \A k \in L : Meaning(m, after(k), how) = IF k = c.key THEN v ELSE old[k]
    BY <1>1, <2>3
  <2> HIDE DEF v
  <2>5. new = Put(old, c.key, v)
    BY <1>1, <2>2, <2>4 DEF Put
  <2> QED BY <1>6, <2>1, <2>5 DEF AskedNext, old, new, v, before
<1> QED BY <1>4, <1>5, <1>6

\* What the new entry is, by the entry before.
AskedWritten(l, c, m, o, name, removal) ==
  LET of(how) == Asked(l, o, name, removal, how)
      is(how) == Asked(m, o, name, removal, how)
  IN /\ c.arg \in {1, -1} =>
          is("sum") = Put(of("sum"), c.key, Plus(Entry(of("sum"), c.key, 0), c.arg))
     /\ is("all") = Put(of("all"), c.key, Append(Entry(of("all"), c.key, <<>>), c.arg))
     /\ is("last") = Put(of("last"), c.key, c.arg)

LEMMA AskedWrites ==
  ASSUME NEW l, NEW c, NEW m, Extended(l, c, m), RankedIn(l), c.key \in Keys,
         NEW o, NEW name, NEW removal, name # removal, c.op = o, c.call = name
  PROVE  AskedWritten(l, c, m, o, name, removal)
<1> DEFINE of(how) == Asked(l, o, name, removal, how)
           is(how) == Asked(m, o, name, removal, how)
           P == Since(l, o, c.key, name, removal)
           Q == P \cup {Len(l) + 1}
<1>1. P \subseteq 1..Len(l) /\ Ranked(P)
  BY SinceStep DEF RankedIn
<1>2. \A how \in {"sum", "all", "last"} : is(how) = Put(of(how), c.key, Meaning(m, Q, how))
  <2> TAKE how \in {"sum", "all", "last"}
  <2>1. AskedNext(l, c, m, o, name, removal, how)
    BY AskedStep
  <2> QED BY <2>1 DEF AskedNext
<1>3. \A how : /\ c.key \in DOMAIN of(how) <=> P # {}
               /\ P # {} => of(how)[c.key] = Meaning(l, P, how)
  BY DEF Asked
<1> HIDE DEF of, is, P
<1>4. c.arg \in {1, -1} => Meaning(m, Q, "sum") = Plus(Entry(of("sum"), c.key, 0), c.arg)
  <2>1. Entry(of("sum"), c.key, 0) = Total(l, P)
    BY <1>3, MeaningOfNone DEF Entry, Meaning
  <2> QED BY <1>1, <2>1, TotalNext DEF Meaning
<1>5. Meaning(m, Q, "all") = Append(Entry(of("all"), c.key, <<>>), c.arg)
  <2>1. Entry(of("all"), c.key, <<>>) = Args(l, P)
    BY <1>3, MeaningOfNone DEF Entry, Meaning
  <2> QED BY <1>1, <2>1, ArgsNext DEF Meaning
<1>6. Meaning(m, Q, "last") = c.arg
  BY <1>1, LatestNext DEF Meaning
<1> HIDE DEF Q
<1> QED BY <1>2, <1>4, <1>5, <1>6 DEF AskedWritten, of, is
-----------------------------------------------------------------------------
(* An operation holds what the calls on it mean. *)

\* Log m is the log so far and call c on a field.
More(l, c, m) == Extended(l, c, m) /\ RankedIn(l) /\ c.key \in Keys

\* The Go map of the updates of one type and the set of the fields to remove.
PairMeans(f, R, l, o, name, removal, how) ==
  f = Asked(l, o, name, removal, how) /\ R = Removed(l, o, removal, {name})

\* A call does to them what MapOperation does.
PairNext(f, R, c, m, o, name, removal, how) ==
  /\ c.op # o \/ c.call \notin {name, removal} => PairMeans(f, R, m, o, name, removal, how)
  /\ c.op = o /\ c.call = removal =>
       PairMeans(Delete(f, c.key), R \cup {c.key}, m, o, name, removal, how)
  /\ c.op = o /\ c.call = name /\ how = "sum" /\ c.arg \in {1, -1} =>
       PairMeans(Put(f, c.key, Plus(Entry(f, c.key, 0), c.arg)), R \ {c.key}, m, o,
                 name, removal, how)
  /\ c.op = o /\ c.call = name /\ how = "last" =>
       PairMeans(Put(f, c.key, c.arg), R \ {c.key}, m, o, name, removal, how)

LEMMA PairStep ==
  ASSUME NEW l, NEW c, NEW m, More(l, c, m), NEW o, NEW name, NEW removal, name # removal,
         NEW how \in {"sum", "all", "last"}, NEW f, NEW R,
         PairMeans(f, R, l, o, name, removal, how)
  PROVE  PairNext(f, R, c, m, o, name, removal, how)
<1>1. Extended(l, c, m) /\ RankedIn(l) /\ c.key \in Keys
  BY DEF More
<1>2. f = Asked(l, o, name, removal, how) /\ R = Removed(l, o, removal, {name})
  BY DEF PairMeans
<1>3. /\ c.op = o /\ c.call = removal => Removed(m, o, removal, {name}) = R \cup {c.key}
      /\ c.op = o /\ c.call = name => Removed(m, o, removal, {name}) = R \ {c.key}
      /\ c.op # o \/ c.call \notin {name, removal} => Removed(m, o, removal, {name}) = R
  BY <1>1, <1>2, RemovedStep
<1>4. AskedNext(l, c, m, o, name, removal, how)
  BY <1>1, AskedStep
<1>5. CASE c.op # o \/ c.call \notin {name, removal}
  BY <1>2, <1>3, <1>4, <1>5 DEF AskedNext, PairNext, PairMeans
<1>6. CASE c.op = o /\ c.call = removal
  BY <1>2, <1>3, <1>4, <1>6 DEF AskedNext, PairNext, PairMeans
<1>7. CASE c.op = o /\ c.call = name
  <2>1. AskedWritten(l, c, m, o, name, removal)
    BY <1>1, <1>7, AskedWrites
  <2> QED BY <1>2, <1>3, <1>7, <2>1 DEF AskedWritten, PairNext, PairMeans
<1> QED BY <1>5, <1>6, <1>7

\* Sets have two Go maps.
SetsMeans(f, g, R, l, o) ==
  /\ f = Asked(l, o, "AddToSet", "RemoveSet", "all")
  /\ g = Asked(l, o, "RemoveFromSet", "RemoveSet", "all")
  /\ R = Removed(l, o, "RemoveSet", {"AddToSet", "RemoveFromSet"})

SetsNext(f, g, R, c, m, o) ==
  /\ c.op # o \/ c.call \notin {"AddToSet", "RemoveFromSet", "RemoveSet"} =>
       SetsMeans(f, g, R, m, o)
  /\ c.op = o /\ c.call = "RemoveSet" =>
       SetsMeans(Delete(f, c.key), Delete(g, c.key), R \cup {c.key}, m, o)
  /\ c.op = o /\ c.call = "AddToSet" =>
       SetsMeans(Put(f, c.key, Append(Entry(f, c.key, <<>>), c.arg)), g, R \ {c.key}, m, o)
  /\ c.op = o /\ c.call = "RemoveFromSet" =>
       SetsMeans(f, Put(g, c.key, Append(Entry(g, c.key, <<>>), c.arg)), R \ {c.key}, m, o)

LEMMA SetsStep ==
  ASSUME NEW l, NEW c, NEW m, More(l, c, m), NEW o, NEW f, NEW g, NEW R,
         SetsMeans(f, g, R, l, o)
  PROVE  SetsNext(f, g, R, c, m, o)
<1> DEFINE both == {"AddToSet", "RemoveFromSet"}
<1>1. Extended(l, c, m) /\ RankedIn(l) /\ c.key \in Keys
  BY DEF More
<1>2. /\ f = Asked(l, o, "AddToSet", "RemoveSet", "all")
      /\ g = Asked(l, o, "RemoveFromSet", "RemoveSet", "all")
      /\ R = Removed(l, o, "RemoveSet", both)
  BY DEF SetsMeans
<1>3. /\ c.op = o /\ c.call = "RemoveSet" => Removed(m, o, "RemoveSet", both) = R \cup {c.key}
      /\ c.op = o /\ c.call \in both => Removed(m, o, "RemoveSet", both) = R \ {c.key}
      /\ c.op # o \/ c.call \notin both \cup {"RemoveSet"} => Removed(m, o, "RemoveSet", both) = R
  <2>1. "RemoveSet" \notin both
    OBVIOUS
  <2> HIDE DEF both
  <2> QED BY <1>1, <1>2, <2>1, RemovedStep
<1>4. /\ AskedNext(l, c, m, o, "AddToSet", "RemoveSet", "all")
      /\ AskedNext(l, c, m, o, "RemoveFromSet", "RemoveSet", "all")
  BY <1>1, AskedStep
<1>5. CASE c.op # o \/ c.call \notin {"AddToSet", "RemoveFromSet", "RemoveSet"}
  BY <1>2, <1>3, <1>4, <1>5 DEF AskedNext, SetsNext, SetsMeans
<1>6. CASE c.op = o /\ c.call = "RemoveSet"
  BY <1>2, <1>3, <1>4, <1>6 DEF AskedNext, SetsNext, SetsMeans
<1>7. CASE c.op = o /\ c.call = "AddToSet"
  <2>1. Asked(m, o, "AddToSet", "RemoveSet", "all")
          = Put(f, c.key, Append(Entry(f, c.key, <<>>), c.arg))
    <3>1. AskedWritten(l, c, m, o, "AddToSet", "RemoveSet")
      BY <1>1, <1>7, AskedWrites
    <3> QED BY <1>2, <3>1 DEF AskedWritten
  <2>2. Asked(m, o, "RemoveFromSet", "RemoveSet", "all") = g
    BY <1>2, <1>4, <1>7 DEF AskedNext
  <2> QED BY <1>2, <1>3, <1>7, <2>1, <2>2 DEF SetsNext, SetsMeans
<1>8. CASE c.op = o /\ c.call = "RemoveFromSet"
  <2>1. Asked(m, o, "RemoveFromSet", "RemoveSet", "all")
          = Put(g, c.key, Append(Entry(g, c.key, <<>>), c.arg))
    <3>1. AskedWritten(l, c, m, o, "RemoveFromSet", "RemoveSet")
      BY <1>1, <1>8, AskedWrites
    <3> QED BY <1>2, <3>1 DEF AskedWritten
  <2>2. Asked(m, o, "AddToSet", "RemoveSet", "all") = f
    BY <1>2, <1>4, <1>8 DEF AskedNext
  <2> QED BY <1>2, <1>3, <1>8, <2>1, <2>2 DEF SetsNext, SetsMeans
<1> QED BY <1>5, <1>6, <1>7, <1>8

\* The five types of fields.
CountersMean(op, l, o) == PairMeans(op.incrementCounters, op.removeCounters, l, o,
                                    "IncrementCounter", "RemoveCounter", "sum")
SetsMean(op, l, o) == SetsMeans(op.addToSets, op.removeFromSets, op.removeSets, l, o)
RegistersMean(op, l, o) == PairMeans(op.registersToSet, op.removeRegisters, l, o,
                                     "SetRegister", "RemoveRegister", "last")
FlagsMean(op, l, o) == PairMeans(op.flagsToSet, op.removeFlags, l, o,
                                 "SetFlag", "RemoveFlag", "last")
MapsMean(op, l, o) == PairMeans(op.maps, op.removeMaps, l, o, "Map", "RemoveMap", "last")

Means(op, l, o) ==
  /\ CountersMean(op, l, o) /\ SetsMean(op, l, o) /\ RegistersMean(op, l, o)
  /\ FlagsMean(op, l, o) /\ MapsMean(op, l, o)

\* What one call does to each of them.
MeansNext(op, c, m, o) ==
  /\ PairNext(op.incrementCounters, op.removeCounters, c, m, o,
              "IncrementCounter", "RemoveCounter", "sum")
  /\ SetsNext(op.addToSets, op.removeFromSets, op.removeSets, c, m, o)
  /\ PairNext(op.registersToSet, op.removeRegisters, c, m, o,
              "SetRegister", "RemoveRegister", "last")
  /\ PairNext(op.flagsToSet, op.removeFlags, c, m, o, "SetFlag", "RemoveFlag", "last")
  /\ PairNext(op.maps, op.removeMaps, c, m, o, "Map", "RemoveMap", "last")

LEMMA MeansStep ==
  ASSUME NEW l, NEW c, NEW m, More(l, c, m), NEW o, NEW op, Means(op, l, o)
  PROVE  MeansNext(op, c, m, o)
<1>1. /\ CountersMean(op, l, o) /\ SetsMean(op, l, o) /\ RegistersMean(op, l, o)
      /\ FlagsMean(op, l, o) /\ MapsMean(op, l, o)
  BY DEF Means
<1>2. PairNext(op.incrementCounters, op.removeCounters, c, m, o,
               "IncrementCounter", "RemoveCounter", "sum")
  BY <1>1, PairStep DEF CountersMean
<1>3. SetsNext(op.addToSets, op.removeFromSets, op.removeSets, c, m, o)
  BY <1>1, SetsStep DEF SetsMean
<1>4. PairNext(op.registersToSet, op.removeRegisters, c, m, o,
               "SetRegister", "RemoveRegister", "last")
  BY <1>1, PairStep DEF RegistersMean
<1>5. PairNext(op.flagsToSet, op.removeFlags, c, m, o, "SetFlag", "RemoveFlag", "last")
  BY <1>1, PairStep DEF FlagsMean
<1>6. PairNext(op.maps, op.removeMaps, c, m, o, "Map", "RemoveMap", "last")
  BY <1>1, PairStep DEF MapsMean
<1> QED BY <1>2, <1>3, <1>4, <1>5, <1>6 DEF MeansNext

\* Calls on other operations leave it alone.
LEMMA OthersKeep ==
  ASSUME NEW c, NEW m, NEW o, NEW op, MeansNext(op, c, m, o), c.op # o
  PROVE  Means(op, m, o)
  BY DEF MeansNext, PairNext, SetsNext, Means, CountersMean, SetsMean, RegistersMean,
         FlagsMean, MapsMean

\* What is not changed and not called keeps its meaning.
SameCounters(p, q)  == p.incrementCounters = q.incrementCounters /\ p.removeCounters = q.removeCounters
SameSets(p, q)      == /\ p.addToSets = q.addToSets /\ p.removeFromSets = q.removeFromSets
                       /\ p.removeSets = q.removeSets
SameRegisters(p, q) == p.registersToSet = q.registersToSet /\ p.removeRegisters = q.removeRegisters
SameFlags(p, q)     == p.flagsToSet = q.flagsToSet /\ p.removeFlags = q.removeFlags
SameMaps(p, q)      == p.maps = q.maps /\ p.removeMaps = q.removeMaps

LEMMA PartsKeep ==
  ASSUME NEW c, NEW m, NEW o, NEW op, MeansNext(op, c, m, o), NEW new
  PROVE  /\ c.call \notin {"IncrementCounter", "RemoveCounter"} /\ SameCounters(new, op) =>
              CountersMean(new, m, o)
         /\ c.call \notin {"AddToSet", "RemoveFromSet", "RemoveSet"} /\ SameSets(new, op) =>
              SetsMean(new, m, o)
         /\ c.call \notin {"SetRegister", "RemoveRegister"} /\ SameRegisters(new, op) =>
              RegistersMean(new, m, o)
         /\ c.call \notin {"SetFlag", "RemoveFlag"} /\ SameFlags(new, op) => FlagsMean(new, m, o)
         /\ c.call \notin {"Map", "RemoveMap"} /\ SameMaps(new, op) => MapsMean(new, m, o)
  BY DEF MeansNext, PairNext, SetsNext, CountersMean, SetsMean, RegistersMean, FlagsMean,
         MapsMean, SameCounters, SameSets, SameRegisters, SameFlags, SameMaps
-----------------------------------------------------------------------------
(* Each call. *)

\* A call on field k of operation o leaves the operation with what the longer log means.
Meaningful(o, k) ==
  \E op, call : /\ Does(o, op, call) /\ call.op = o /\ call.key = k
                /\ \A m : MeansNext(ops[o], call, m, o) => Means(op, m, o)

LEMMA CallMeans ==
  ASSUME TypeOK, NEW o \in 1..used, NEW k \in Keys, Calls(o, k), Means(ops[o], log, o)
  PROVE  Meaningful(o, k)
<1>1. o \in Ops
  BY MapAssumption DEF TypeOK, Ops
<1>2. DOMAIN ops[o] = DOMAIN NewMapOperation
  BY <1>1 DEF TypeOK, IsOperation
<1>3. ASSUME NEW op, NEW call, Does(o, op, call), call.op = o, call.key = k,
             \A m : MeansNext(ops[o], call, m, o) => Means(op, m, o)
      PROVE  Meaningful(o, k)
  BY <1>3 DEF Meaningful

<1>4. ASSUME NEW n \in {1, -1}, IncrementCounter(o, k, n) PROVE Meaningful(o, k)
  <2> DEFINE call == Call("IncrementCounter", o, k, n)
  <2> DEFINE f == Put(ops[o].incrementCounters, k, Plus(Entry(ops[o].incrementCounters, k, 0), n))
  <2> DEFINE op == [ops[o] EXCEPT !.removeCounters = @ \ {k}, !.incrementCounters = f]
  <2>1. Does(o, op, call)
    BY <1>4 DEF IncrementCounter
  <2>2. call.op = o /\ call.key = k /\ call.call = "IncrementCounter" /\ call.arg = n
    BY DEF Call
  <2> HIDE DEF call, f
  <2>3. /\ SameSets(op, ops[o]) /\ SameRegisters(op, ops[o])
        /\ SameFlags(op, ops[o]) /\ SameMaps(op, ops[o])
    BY <1>2 DEF NewMapOperation, SameSets, SameRegisters, SameFlags, SameMaps
  <2>4. op.incrementCounters = f /\ op.removeCounters = ops[o].removeCounters \ {k}
    BY <1>2 DEF NewMapOperation
  <2> HIDE DEF op
  <2>5. ASSUME NEW m, MeansNext(ops[o], call, m, o) PROVE Means(op, m, o)
    <3>1. CountersMean(op, m, o)
      BY <2>2, <2>4, <2>5 DEF MeansNext, PairNext, CountersMean, f
    <3>2. /\ SetsMean(op, m, o) /\ RegistersMean(op, m, o)
          /\ FlagsMean(op, m, o) /\ MapsMean(op, m, o)
      BY <2>2, <2>3, <2>5, PartsKeep
    <3> QED BY <3>1, <3>2 DEF Means
  <2> QED BY <1>3, <2>1, <2>2, <2>5
<1>5. ASSUME RemoveCounter(o, k) PROVE Meaningful(o, k)
  <2> DEFINE call == Call("RemoveCounter", o, k, 0)
  <2> DEFINE op == [ops[o] EXCEPT !.incrementCounters = Delete(@, k), !.removeCounters = @ \cup {k}]
  <2>1. Does(o, op, call)
    BY <1>5 DEF RemoveCounter
  <2>2. call.op = o /\ call.key = k /\ call.call = "RemoveCounter" /\ call.arg = 0
    BY DEF Call
  <2> HIDE DEF call
  <2>3. /\ SameSets(op, ops[o]) /\ SameRegisters(op, ops[o])
        /\ SameFlags(op, ops[o]) /\ SameMaps(op, ops[o])
    BY <1>2 DEF NewMapOperation, SameSets, SameRegisters, SameFlags, SameMaps
  <2>4. /\ op.incrementCounters = Delete(ops[o].incrementCounters, k)
        /\ op.removeCounters = ops[o].removeCounters \cup {k}
    BY <1>2 DEF NewMapOperation
  <2> HIDE DEF op
  <2>5. ASSUME NEW m, MeansNext(ops[o], call, m, o) PROVE Means(op, m, o)
    <3>1. CountersMean(op, m, o)
      BY <2>2, <2>4, <2>5 DEF MeansNext, PairNext, CountersMean
    <3>2. /\ SetsMean(op, m, o) /\ RegistersMean(op, m, o)
          /\ FlagsMean(op, m, o) /\ MapsMean(op, m, o)
      BY <2>2, <2>3, <2>5, PartsKeep
    <3> QED BY <3>1, <3>2 DEF Means
  <2> QED BY <1>3, <2>1, <2>2, <2>5
<1>6. ASSUME NEW v \in Values, AddToSet(o, k, v) PROVE Meaningful(o, k)
  <2> DEFINE call == Call("AddToSet", o, k, v)
  <2> DEFINE f == Put(ops[o].addToSets, k, Append(Entry(ops[o].addToSets, k, <<>>), v))
  <2> DEFINE op == [ops[o] EXCEPT !.removeSets = @ \ {k}, !.addToSets = f]
  <2>1. Does(o, op, call)
    BY <1>6 DEF AddToSet
  <2>2. call.op = o /\ call.key = k /\ call.call = "AddToSet" /\ call.arg = v
    BY DEF Call
  <2> HIDE DEF call, f
  <2>3. /\ SameCounters(op, ops[o]) /\ SameRegisters(op, ops[o])
        /\ SameFlags(op, ops[o]) /\ SameMaps(op, ops[o])
    BY <1>2 DEF NewMapOperation, SameCounters, SameRegisters, SameFlags, SameMaps
  <2>4. /\ op.addToSets = f /\ op.removeFromSets = ops[o].removeFromSets
        /\ op.removeSets = ops[o].removeSets \ {k}
    BY <1>2 DEF NewMapOperation
  <2> HIDE DEF op
  <2>5. ASSUME NEW m, MeansNext(ops[o], call, m, o) PROVE Means(op, m, o)
    <3>1. SetsMean(op, m, o)
      BY <2>2, <2>4, <2>5 DEF MeansNext, SetsNext, SetsMean, f
    <3>2. /\ CountersMean(op, m, o) /\ RegistersMean(op, m, o)
          /\ FlagsMean(op, m, o) /\ MapsMean(op, m, o)
      BY <2>2, <2>3, <2>5, PartsKeep
    <3> QED BY <3>1, <3>2 DEF Means
  <2> QED BY <1>3, <2>1, <2>2, <2>5
<1>7. ASSUME NEW v \in Values, RemoveFromSet(o, k, v) PROVE Meaningful(o, k)
  <2> DEFINE call == Call("RemoveFromSet", o, k, v)
  <2> DEFINE f == Put(ops[o].removeFromSets, k, Append(Entry(ops[o].removeFromSets, k, <<>>), v))
  <2> DEFINE op == [ops[o] EXCEPT !.removeSets = @ \ {k}, !.removeFromSets = f]
  <2>1. Does(o, op, call)
    BY <1>7 DEF RemoveFromSet
  <2>2. call.op = o /\ call.key = k /\ call.call = "RemoveFromSet" /\ call.arg = v
    BY DEF Call
  <2> HIDE DEF call, f
  <2>3. /\ SameCounters(op, ops[o]) /\ SameRegisters(op, ops[o])
        /\ SameFlags(op, ops[o]) /\ SameMaps(op, ops[o])
    BY <1>2 DEF NewMapOperation, SameCounters, SameRegisters, SameFlags, SameMaps
  <2>4. /\ op.removeFromSets = f /\ op.addToSets = ops[o].addToSets
        /\ op.removeSets = ops[o].removeSets \ {k}
    BY <1>2 DEF NewMapOperation
  <2> HIDE DEF op
  <2>5. ASSUME NEW m, MeansNext(ops[o], call, m, o) PROVE Means(op, m, o)
    <3>1. SetsMean(op, m, o)
      BY <2>2, <2>4, <2>5 DEF MeansNext, SetsNext, SetsMean, f
    <3>2. /\ CountersMean(op, m, o) /\ RegistersMean(op, m, o)
          /\ FlagsMean(op, m, o) /\ MapsMean(op, m, o)
      BY <2>2, <2>3, <2>5, PartsKeep
    <3> QED BY <3>1, <3>2 DEF Means
  <2> QED BY <1>3, <2>1, <2>2, <2>5
<1>8. ASSUME RemoveSet(o, k) PROVE Meaningful(o, k)
  <2> DEFINE call == Call("RemoveSet", o, k, 0)
  <2> DEFINE op == [ops[o] EXCEPT !.addToSets = Delete(@, k), !.removeFromSets = Delete(@, k),
                            !.removeSets = @ \cup {k}]
  <2>1. Does(o, op, call)
    BY <1>8 DEF RemoveSet
  <2>2. call.op = o /\ call.key = k /\ call.call = "RemoveSet" /\ call.arg = 0
    BY DEF Call
  <2> HIDE DEF call
  <2>3. /\ SameCounters(op, ops[o]) /\ SameRegisters(op, ops[o])
        /\ SameFlags(op, ops[o]) /\ SameMaps(op, ops[o])
    BY <1>2 DEF NewMapOperation, SameCounters, SameRegisters, SameFlags, SameMaps
  <2>4. /\ op.addToSets = Delete(ops[o].addToSets, k)
        /\ op.removeFromSets = Delete(ops[o].removeFromSets, k)
        /\ op.removeSets = ops[o].removeSets \cup {k}
    BY <1>2 DEF NewMapOperation
  <2> HIDE DEF op
  <2>5. ASSUME NEW m, MeansNext(ops[o], call, m, o) PROVE Means(op, m, o)
    <3>1. SetsMean(op, m, o)
      BY <2>2, <2>4, <2>5 DEF MeansNext, SetsNext, SetsMean
    <3>2. /\ CountersMean(op, m, o) /\ RegistersMean(op, m, o)
          /\ FlagsMean(op, m, o) /\ MapsMean(op, m, o)
      BY <2>2, <2>3, <2>5, PartsKeep
    <3> QED BY <3>1, <3>2 DEF Means
  <2> QED BY <1>3, <2>1, <2>2, <2>5
<1>9. ASSUME NEW v \in Values, SetRegister(o, k, v) PROVE Meaningful(o, k)
  <2> DEFINE call == Call("SetRegister", o, k, v)
  <2> DEFINE op == [ops[o] EXCEPT !.removeRegisters = @ \ {k}, !.registersToSet = Put(@, k, v)]
  <2>1. Does(o, op, call)
    BY <1>9 DEF SetRegister
  <2>2. call.op = o /\ call.key = k /\ call.call = "SetRegister" /\ call.arg = v
    BY DEF Call
  <2> HIDE DEF call
  <2>3. /\ SameCounters(op, ops[o]) /\ SameSets(op, ops[o])
        /\ SameFlags(op, ops[o]) /\ SameMaps(op, ops[o])
    BY <1>2 DEF NewMapOperation, SameCounters, SameSets, SameFlags, SameMaps
  <2>4. /\ op.registersToSet = Put(ops[o].registersToSet, k, v)
        /\ op.removeRegisters = ops[o].removeRegisters \ {k}
    BY <1>2 DEF NewMapOperation
  <2> HIDE DEF op
  <2>5. ASSUME NEW m, MeansNext(ops[o], call, m, o) PROVE Means(op, m, o)
    <3>1. RegistersMean(op, m, o)
      BY <2>2, <2>4, <2>5 DEF MeansNext, PairNext, RegistersMean
    <3>2. /\ CountersMean(op, m, o) /\ SetsMean(op, m, o)
          /\ FlagsMean(op, m, o) /\ MapsMean(op, m, o)
      BY <2>2, <2>3, <2>5, PartsKeep
    <3> QED BY <3>1, <3>2 DEF Means
  <2> QED BY <1>3, <2>1, <2>2, <2>5
<1>10. ASSUME RemoveRegister(o, k) PROVE Meaningful(o, k)
  <2> DEFINE call == Call("RemoveRegister", o, k, 0)
  <2> DEFINE op == [ops[o] EXCEPT !.registersToSet = Delete(@, k), !.removeRegisters = @ \cup {k}]
  <2>1. Does(o, op, call)
    BY <1>10 DEF RemoveRegister
  <2>2. call.op = o /\ call.key = k /\ call.call = "RemoveRegister" /\ call.arg = 0
    BY DEF Call
  <2> HIDE DEF call
  <2>3. /\ SameCounters(op, ops[o]) /\ SameSets(op, ops[o])
        /\ SameFlags(op, ops[o]) /\ SameMaps(op, ops[o])
    BY <1>2 DEF NewMapOperation, SameCounters, SameSets, SameFlags, SameMaps
  <2>4. /\ op.registersToSet = Delete(ops[o].registersToSet, k)
        /\ op.removeRegisters = ops[o].removeRegisters \cup {k}
    BY <1>2 DEF NewMapOperation
  <2> HIDE DEF op
  <2>5. ASSUME NEW m, MeansNext(ops[o], call, m, o) PROVE Means(op, m, o)
    <3>1. RegistersMean(op, m, o)
      BY <2>2, <2>4, <2>5 DEF MeansNext, PairNext, RegistersMean
    <3>2. /\ CountersMean(op, m, o) /\ SetsMean(op, m, o)
          /\ FlagsMean(op, m, o) /\ MapsMean(op, m, o)
      BY <2>2, <2>3, <2>5, PartsKeep
    <3> QED BY <3>1, <3>2 DEF Means
  <2> QED BY <1>3, <2>1, <2>2, <2>5
<1>11. ASSUME NEW b \in BOOLEAN, SetFlag(o, k, b) PROVE Meaningful(o, k)
  <2> DEFINE call == Call("SetFlag", o, k, b)
  <2> DEFINE op == [ops[o] EXCEPT !.removeFlags = @ \ {k}, !.flagsToSet = Put(@, k, b)]
  <2>1. Does(o, op, call)
    BY <1>11 DEF SetFlag
  <2>2. call.op = o /\ call.key = k /\ call.call = "SetFlag" /\ call.arg = b
    BY DEF Call
  <2> HIDE DEF call
  <2>3. /\ SameCounters(op, ops[o]) /\ SameSets(op, ops[o])
        /\ SameRegisters(op, ops[o]) /\ SameMaps(op, ops[o])
    BY <1>2 DEF NewMapOperation, SameCounters, SameSets, SameRegisters, SameMaps
  <2>4. /\ op.flagsToSet = Put(ops[o].flagsToSet, k, b)
        /\ op.removeFlags = ops[o].removeFlags \ {k}
    BY <1>2 DEF NewMapOperation
  <2> HIDE DEF op
  <2>5. ASSUME NEW m, MeansNext(ops[o], call, m, o) PROVE Means(op, m, o)
    <3>1. FlagsMean(op, m, o)
      BY <2>2, <2>4, <2>5 DEF MeansNext, PairNext, FlagsMean
    <3>2. /\ CountersMean(op, m, o) /\ SetsMean(op, m, o)
          /\ RegistersMean(op, m, o) /\ MapsMean(op, m, o)
      BY <2>2, <2>3, <2>5, PartsKeep
    <3> QED BY <3>1, <3>2 DEF Means
  <2> QED BY <1>3, <2>1, <2>2, <2>5
<1>12. ASSUME RemoveFlag(o, k) PROVE Meaningful(o, k)
  <2> DEFINE call == Call("RemoveFlag", o, k, 0)
  <2> DEFINE op == [ops[o] EXCEPT !.flagsToSet = Delete(@, k), !.removeFlags = @ \cup {k}]
  <2>1. Does(o, op, call)
    BY <1>12 DEF RemoveFlag
  <2>2. call.op = o /\ call.key = k /\ call.call = "RemoveFlag" /\ call.arg = 0
    BY DEF Call
  <2> HIDE DEF call
  <2>3. /\ SameCounters(op, ops[o]) /\ SameSets(op, ops[o])
        /\ SameRegisters(op, ops[o]) /\ SameMaps(op, ops[o])
    BY <1>2 DEF NewMapOperation, SameCounters, SameSets, SameRegisters, SameMaps
  <2>4. /\ op.flagsToSet = Delete(ops[o].flagsToSet, k)
        /\ op.removeFlags = ops[o].removeFlags \cup {k}
    BY <1>2 DEF NewMapOperation
  <2> HIDE DEF op
  <2>5. ASSUME NEW m, MeansNext(ops[o], call, m, o) PROVE Means(op, m, o)
    <3>1. FlagsMean(op, m, o)
      BY <2>2, <2>4, <2>5 DEF MeansNext, PairNext, FlagsMean
    <3>2. /\ CountersMean(op, m, o) /\ SetsMean(op, m, o)
          /\ RegistersMean(op, m, o) /\ MapsMean(op, m, o)
      BY <2>2, <2>3, <2>5, PartsKeep
    <3> QED BY <3>1, <3>2 DEF Means
  <2> QED BY <1>3, <2>1, <2>2, <2>5
<1>13. ASSUME MapAgain(o, k) PROVE Meaningful(o, k)
  <2> DEFINE call == Call("Map", o, k, ops[o].maps[k])
  <2> DEFINE op == [ops[o] EXCEPT !.removeMaps = @ \ {k}]
  <2>1. Does(o, op, call)
    BY <1>13 DEF MapAgain
  <2>2. call.op = o /\ call.key = k /\ call.call = "Map" /\ call.arg = ops[o].maps[k]
    BY DEF Call
  <2> HIDE DEF call
  <2>3. /\ SameCounters(op, ops[o]) /\ SameSets(op, ops[o])
        /\ SameRegisters(op, ops[o]) /\ SameFlags(op, ops[o])
    BY <1>2 DEF NewMapOperation, SameCounters, SameSets, SameRegisters, SameFlags
  <2>4. op.maps = ops[o].maps /\ op.removeMaps = ops[o].removeMaps \ {k}
    BY <1>2 DEF NewMapOperation
  <2> HIDE DEF op
  <2>5. ASSUME NEW m, MeansNext(ops[o], call, m, o) PROVE Means(op, m, o)
    <3>1. MapsMean(op, m, o)
      <4>1. k \in DOMAIN ops[o].maps
        BY <1>13 DEF MapAgain
      <4>2. ops[o].maps = [x \in DOMAIN ops[o].maps |-> ops[o].maps[x]]
        BY DEF Means, MapsMean, PairMeans, Asked
      <4>3. Put(ops[o].maps, k, ops[o].maps[k]) = ops[o].maps
        BY <4>1, <4>2 DEF Put
      <4> QED BY <2>2, <2>4, <2>5, <4>3 DEF MeansNext, PairNext, MapsMean
    <3>2. /\ CountersMean(op, m, o) /\ SetsMean(op, m, o)
          /\ RegistersMean(op, m, o) /\ FlagsMean(op, m, o)
      BY <2>2, <2>3, <2>5, PartsKeep
    <3> QED BY <3>1, <3>2 DEF Means
  <2> QED BY <1>3, <2>1, <2>2, <2>5
<1>14. ASSUME MapNew(o, k) PROVE Meaningful(o, k)
  <2> DEFINE call == Call("Map", o, k, used + 1)
  <2> DEFINE op == [ops[o] EXCEPT !.removeMaps = @ \ {k}, !.maps = Put(@, k, used + 1)]
  <2>1. Does(o, op, call)
    BY <1>14 DEF MapNew
  <2>2. call.op = o /\ call.key = k /\ call.call = "Map" /\ call.arg = used + 1
    BY DEF Call
  <2> HIDE DEF call
  <2>3. /\ SameCounters(op, ops[o]) /\ SameSets(op, ops[o])
        /\ SameRegisters(op, ops[o]) /\ SameFlags(op, ops[o])
    BY <1>2 DEF NewMapOperation, SameCounters, SameSets, SameRegisters, SameFlags
  <2>4. /\ op.maps = Put(ops[o].maps, k, used + 1)
        /\ op.removeMaps = ops[o].removeMaps \ {k}
    BY <1>2 DEF NewMapOperation
  <2> HIDE DEF op
  <2>5. ASSUME NEW m, MeansNext(ops[o], call, m, o) PROVE Means(op, m, o)
    <3>1. MapsMean(op, m, o)
      BY <2>2, <2>4, <2>5 DEF MeansNext, PairNext, MapsMean
    <3>2. /\ CountersMean(op, m, o) /\ SetsMean(op, m, o)
          /\ RegistersMean(op, m, o) /\ FlagsMean(op, m, o)
      BY <2>2, <2>3, <2>5, PartsKeep
    <3> QED BY <3>1, <3>2 DEF Means
  <2> QED BY <1>3, <2>1, <2>2, <2>5
<1>15. ASSUME RemoveMap(o, k) PROVE Meaningful(o, k)
  <2> DEFINE call == Call("RemoveMap", o, k, 0)
  <2> DEFINE op == [ops[o] EXCEPT !.maps = Delete(@, k), !.removeMaps = @ \cup {k}]
  <2>1. Does(o, op, call)
    BY <1>15 DEF RemoveMap
  <2>2. call.op = o /\ call.key = k /\ call.call = "RemoveMap" /\ call.arg = 0
    BY DEF Call
  <2> HIDE DEF call
  <2>3. /\ SameCounters(op, ops[o]) /\ SameSets(op, ops[o])
        /\ SameRegisters(op, ops[o]) /\ SameFlags(op, ops[o])
    BY <1>2 DEF NewMapOperation, SameCounters, SameSets, SameRegisters, SameFlags
  <2>4. /\ op.maps = Delete(ops[o].maps, k)
        /\ op.removeMaps = ops[o].removeMaps \cup {k}
    BY <1>2 DEF NewMapOperation
  <2> HIDE DEF op
  <2>5. ASSUME NEW m, MeansNext(ops[o], call, m, o) PROVE Means(op, m, o)
    <3>1. MapsMean(op, m, o)
      BY <2>2, <2>4, <2>5 DEF MeansNext, PairNext, MapsMean
    <3>2. /\ CountersMean(op, m, o) /\ SetsMean(op, m, o)
          /\ RegistersMean(op, m, o) /\ FlagsMean(op, m, o)
      BY <2>2, <2>3, <2>5, PartsKeep
    <3> QED BY <3>1, <3>2 DEF Means
  <2> QED BY <1>3, <2>1, <2>2, <2>5
<1> QED
  BY <1>4, <1>5, <1>6, <1>7, <1>8, <1>9, <1>10, <1>11, <1>12, <1>13, <1>14, <1>15 DEF Calls

\* The inductive invariant: every operation holds what the log means for it.
MeansInv ==
  /\ \E S : log \in Seq(S)
  /\ RankedIn(log)
  /\ \A o \in Ops : Means(ops[o], log, o)

LEMMA MeansInit == Init => MeansInv
<1> SUFFICES ASSUME Init PROVE MeansInv
  OBVIOUS
<1>1. log = <<>> /\ \A o \in Ops : ops[o] = NewMapOperation
  BY DEF Init
<1>2. log \in Seq({})
  BY <1>1
<1>3. DOMAIN log = {}
  BY <1>1
<1>4. \A o, k, name : At(log, o, k, name) = {}
  BY <1>3 DEF At
<1>5. \A o, k, name, removal : Since(log, o, k, name, removal) = {}
  BY <1>4 DEF Since
<1>6. RankedIn(log)
  <2>1. Cardinality({}) = 0
    BY FS_EmptySet
  <2>2. 1..0 = {}
    OBVIOUS
  <2>3. Ranked({})
    BY <2>1, <2>2 DEF Ranked
  <2> QED BY <1>5, <2>3 DEF RankedIn
<1>7. \A o, name, removal, how : Asked(log, o, name, removal, how) = EmptyMap
  <2> TAKE o, name, removal, how
  <2>1. {x \in Keys : Since(log, o, x, name, removal) # {}} = {}
    BY <1>5
  <2> QED BY <2>1 DEF Asked, EmptyMap
<1>8. \A o, removal, changes : Removed(log, o, removal, changes) = {}
  BY <1>4 DEF Removed
<1>9. \A o : Means(NewMapOperation, log, o)
  BY <1>7, <1>8 DEF Means, CountersMean, SetsMean, RegistersMean, FlagsMean, MapsMean,
                   PairMeans, SetsMeans, NewMapOperation
<1> QED BY <1>1, <1>2, <1>6, <1>9 DEF MeansInv

LEMMA MeansInvNext ==
  ASSUME TypeOK, MeansInv, [Next]_vars
  PROVE  MeansInv'
<1>1. CASE UNCHANGED vars
  BY <1>1 DEF MeansInv, vars
<1>2. CASE Next
  <2>1. PICK o \in 1..used, k \in Keys : Calls(o, k)
    BY <1>2 DEF Next
  <2>2. o \in Ops
    BY MapAssumption DEF TypeOK, Ops
  <2>3. Means(ops[o], log, o) /\ RankedIn(log)
    BY <2>2 DEF MeansInv
  <2>4. Meaningful(o, k)
    BY <2>1, <2>3, CallMeans
  <2>5. PICK op, call : /\ Does(o, op, call) /\ call.op = o /\ call.key = k
                        /\ \A m : MeansNext(ops[o], call, m, o) => Means(op, m, o)
    BY <2>4 DEF Meaningful
  <2>6. /\ log' = Append(log, call)
        /\ \A p \in Ops : ops'[p] = IF p = o THEN op ELSE ops[p]
    BY <2>2, <2>5 DEF Does, TypeOK
  <2>7. PICK S : log \in Seq(S)
    BY DEF MeansInv
  <2>8. log \in Seq(S \cup {call}) /\ call \in S \cup {call}
    BY <2>7, SeqMonotonic
  <2>9. Extended(log, call, log') /\ log' \in Seq(S \cup {call})
    <3> DEFINE T == S \cup {call}
    <3>1. log \in Seq(T) /\ call \in T
      BY <2>8
    <3> HIDE DEF T
    <3>2. Extended(log, call, log') /\ log' \in Seq(T)
      BY <2>6, <3>1, AppendExtends
    <3> QED BY <3>2 DEF T
  <2>10. RankedIn(log')
    BY <2>3, <2>9, RankedInNext
  <2>11. More(log, call, log')
    BY <2>3, <2>5, <2>9 DEF More
  <2>12. ASSUME NEW p \in Ops PROVE Means(ops'[p], log', p)
    <3>1. MeansNext(ops[p], call, log', p)
      BY <2>11, MeansStep DEF MeansInv
    <3>2. CASE p = o
      BY <2>5, <2>6, <3>1, <3>2
    <3>3. CASE p # o
      <4>1. Means(ops[p], log', p)
        BY <2>5, <3>1, <3>3, OthersKeep
      <4> QED BY <2>6, <3>3, <4>1
    <3> QED BY <3>2, <3>3
  <2> QED BY <2>9, <2>10, <2>12 DEF MeansInv
<1> QED BY <1>1, <1>2

\* populate leaves the removes out of the message when there are none in the operation
\* and those nested in it.
LEMMA MeansMessage == TypeOK /\ MeansInv => MessageMeansCalls
<1> SUFFICES ASSUME TypeOK, MeansInv, NEW o \in 1..used PROVE populate(o) = Meant(o)
  BY DEF MessageMeansCalls
<1> DEFINE op == ops[o]
           removes == Fields("COUNTER", op.removeCounters) \cup Fields("SET", op.removeSets)
                      \cup Fields("MAP", op.removeMaps)
                      \cup Fields("REGISTER", op.removeRegisters)
                      \cup Fields("FLAG", op.removeFlags)
<1>1. o \in Ops
  BY MapAssumption DEF TypeOK, Ops
<1>2. Means(op, log, o)
  BY <1>1 DEF MeansInv
<1>3. ~removesIn[o] => removes = {}
  <2> SUFFICES ASSUME ~removesIn[o] PROVE removes = {}
    OBVIOUS
  <2>1. ~HasOwnRemoves(op)
    BY <1>1, RemovesIn
  <2> QED BY <2>1 DEF HasOwnRemoves, Fields
<1>4. (IF hasRemoves(o, FALSE) THEN removes ELSE {}) = removes
  BY <1>3 DEF hasRemoves
<1>5. populate(o) = [removes   |-> removes,
                     counters  |-> Updates("COUNTER", "increment", op.incrementCounters),
                     adds      |-> Updates("SET", "adds", op.addToSets),
                     rems      |-> Updates("SET", "removes", op.removeFromSets),
                     registers |-> Updates("REGISTER", "set", op.registersToSet),
                     flags     |-> Updates("FLAG", "flag", op.flagsToSet),
                     maps      |-> Updates("MAP", "map", op.maps)]
  BY <1>4, Zenon DEF populate
<1> HIDE DEF op
<1> QED BY <1>2, <1>5, Zenon DEF Meant, Means, CountersMean, SetsMean, RegistersMean, FlagsMean,
                          MapsMean, PairMeans, SetsMeans

\* The message says of every field what the application's calls since the last removal of
\* that field come to, however many calls there are, in whatever order they come and
\* whichever nested operation they are on: the Go maps that each call updates always hold
\* what the whole log asks for, sums that wrap around included.
THEOREM MessagesMeanCalls == Spec => []MessageMeansCalls
<1>1. TypeOK /\ MeansInv /\ [Next]_vars => MeansInv'
  BY MeansInvNext
<1>2. Spec => []MeansInv
  BY <1>1, MeansInit, MapTypeCorrect, PTL DEF Spec
<1> QED BY <1>2, MeansMessage, MapTypeCorrect, PTL
=============================================================================
