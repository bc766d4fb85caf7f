---------------------------- MODULE MapOperation -----------------------------
(***************************************************************************)
(* The operation on a map that an application puts together call by call   *)
(* (MapOperation in crdt_commands.go) and what UpdateMapCommand makes of   *)
(* it: the message that populate builds and the test whether the command   *)
(* needs a context.                                                        *)
(*                                                                         *)
(* Map returns a pointer to a nested operation, which the application may  *)
(* keep.  Operations are therefore objects with a number: 1 is the one the *)
(* command is given, a new nested operation gets the next number.          *)
(***************************************************************************)
EXTENDS Integers, Sequences, FiniteSets

CONSTANTS
  Keys,      \* names of fields
  Values,    \* contents of registers and elements of sets
  MaxOps,    \* bound on the operations
  MaxCalls,  \* bound on the calls
  Half       \* half the number of values of an int64

ASSUME MapAssumption ==
  /\ MaxOps \in Nat \ {0} /\ MaxCalls \in Nat /\ Half \in Nat \ {0}
  /\ IsFiniteSet(Keys)

Ops  == 1..MaxOps
Root == 1

Int64 == -Half..(Half - 1)

VARIABLES
  ops,   \* the operations
  used,  \* how many there are
  log    \* the calls so far

vars == <<ops, used, log>>

\* Go maps: a function whose domain is the set of keys that have an entry.
EmptyMap        == [k \in {} |-> 0]
Entry(f, k, d)  == IF k \in DOMAIN f THEN f[k] ELSE d
Put(f, k, v)    == [x \in DOMAIN f \cup {k} |-> IF x = k THEN v ELSE f[x]]
Delete(f, k)    == [x \in DOMAIN f \ {k} |-> f[x]]
IsMap(f, S)     == DOMAIN f \subseteq Keys /\ \A k \in DOMAIN f : f[k] \in S

NewMapOperation ==
  [incrementCounters |-> EmptyMap, removeCounters |-> {},
   addToSets |-> EmptyMap, removeFromSets |-> EmptyMap, removeSets |-> {},
   registersToSet |-> EmptyMap, removeRegisters |-> {},
   flagsToSet |-> EmptyMap, removeFlags |-> {},
   maps |-> EmptyMap, removeMaps |-> {}]

\* The sum of two int64 wraps around.
Wrap(n)    == ((n + Half) % (2 * Half)) - Half
Plus(a, b) == Wrap(a + b)

Call(name, o, k, arg) == [call |-> name, op |-> o, key |-> k, arg |-> arg]

\* A call changes one operation.
Does(o, op, call) ==
  /\ Len(log) < MaxCalls
  /\ ops' = [ops EXCEPT ![o] = op]
  /\ log' = Append(log, call)
-----------------------------------------------------------------------------
(* The calls. *)

\* Mutant: the increment replaces the one before.
IncrementCounterReplaces(o, k, n) ==
  /\ Does(o, [ops[o] EXCEPT !.removeCounters = @ \ {k}, !.incrementCounters = Put(@, k, n)],
          Call("IncrementCounter", o, k, n))
  /\ UNCHANGED used

IncrementCounter(o, k, n) ==
  /\ Does(o, [ops[o] EXCEPT !.removeCounters = @ \ {k},
                            !.incrementCounters = Put(@, k, Plus(Entry(@, k, 0), n))],
          Call("IncrementCounter", o, k, n))
  /\ UNCHANGED used

RemoveCounter(o, k) ==
  /\ Does(o, [ops[o] EXCEPT !.incrementCounters = Delete(@, k),
                            !.removeCounters = @ \cup {k}],
          Call("RemoveCounter", o, k, 0))
  /\ UNCHANGED used

AddToSet(o, k, v) ==
  /\ Does(o, [ops[o] EXCEPT !.removeSets = @ \ {k},
                            !.addToSets = Put(@, k, Append(Entry(@, k, <<>>), v))],
          Call("AddToSet", o, k, v))
  /\ UNCHANGED used

RemoveFromSet(o, k, v) ==
  /\ Does(o, [ops[o] EXCEPT !.removeSets = @ \ {k},
                            !.removeFromSets = Put(@, k, Append(Entry(@, k, <<>>), v))],
          Call("RemoveFromSet", o, k, v))
  /\ UNCHANGED used

\* Mutant: the elements to remove are kept.
RemoveSetKeepsRemoves(o, k) ==
  /\ Does(o, [ops[o] EXCEPT !.addToSets = Delete(@, k), !.removeSets = @ \cup {k}],
          Call("RemoveSet", o, k, 0))
  /\ UNCHANGED used

RemoveSet(o, k) ==
  /\ Does(o, [ops[o] EXCEPT !.addToSets = Delete(@, k), !.removeFromSets = Delete(@, k),
                            !.removeSets = @ \cup {k}],
          Call("RemoveSet", o, k, 0))
  /\ UNCHANGED used

SetRegister(o, k, v) ==
  /\ Does(o, [ops[o] EXCEPT !.removeRegisters = @ \ {k}, !.registersToSet = Put(@, k, v)],
          Call("SetRegister", o, k, v))
  /\ UNCHANGED used

RemoveRegister(o, k) ==
  /\ Does(o, [ops[o] EXCEPT !.registersToSet = Delete(@, k), !.removeRegisters = @ \cup {k}],
          Call("RemoveRegister", o, k, 0))
  /\ UNCHANGED used

SetFlag(o, k, b) ==
  /\ Does(o, [ops[o] EXCEPT !.removeFlags = @ \ {k}, !.flagsToSet = Put(@, k, b)],
          Call("SetFlag", o, k, b))
  /\ UNCHANGED used

RemoveFlag(o, k) ==
  /\ Does(o, [ops[o] EXCEPT !.flagsToSet = Delete(@, k), !.removeFlags = @ \cup {k}],
          Call("RemoveFlag", o, k, 0))
  /\ UNCHANGED used

\* Map returns the nested operation there is, or makes one.
MapAgain(o, k) ==
  /\ k \in DOMAIN ops[o].maps
  /\ Does(o, [ops[o] EXCEPT !.removeMaps = @ \ {k}], Call("Map", o, k, ops[o].maps[k]))
  /\ UNCHANGED used

\* Mutant: the last nested operation is used again.
MapNewReuses(o, k) ==
  /\ k \notin DOMAIN ops[o].maps
  /\ used < MaxOps
  /\ used' = IF used = 1 THEN 2 ELSE used
  /\ Does(o, [ops[o] EXCEPT !.removeMaps = @ \ {k}, !.maps = Put(@, k, used')],
          Call("Map", o, k, used'))

MapNew(o, k) ==
  /\ k \notin DOMAIN ops[o].maps
  /\ used < MaxOps
  /\ used' = used + 1
  /\ Does(o, [ops[o] EXCEPT !.removeMaps = @ \ {k}, !.maps = Put(@, k, used + 1)],
          Call("Map", o, k, used + 1))

\* A nested operation that is removed may still be in the hands of the application.
RemoveMap(o, k) ==
  /\ Does(o, [ops[o] EXCEPT !.maps = Delete(@, k), !.removeMaps = @ \cup {k}],
          Call("RemoveMap", o, k, 0))
  /\ UNCHANGED used
-----------------------------------------------------------------------------
Init ==
  /\ ops = [o \in Ops |-> NewMapOperation]
  /\ used = 1
  /\ log = <<>>

\* The calls on operation o and field k.
Calls(o, k) ==
  \/ \E n \in {1, -1} : IncrementCounter(o, k, n)
  \/ RemoveCounter(o, k)
  \/ \E v \in Values : AddToSet(o, k, v) \/ RemoveFromSet(o, k, v) \/ SetRegister(o, k, v)
  \/ RemoveSet(o, k) \/ RemoveRegister(o, k)
  \/ \E b \in BOOLEAN : SetFlag(o, k, b)
  \/ RemoveFlag(o, k)
  \/ MapAgain(o, k) \/ MapNew(o, k) \/ RemoveMap(o, k)

Next == \E o \in 1..used, k \in Keys : Calls(o, k)

Spec == Init /\ [][Next]_vars
-----------------------------------------------------------------------------
(* What becomes of an operation. *)

HasOwnRemoves(op) ==
  \/ op.removeCounters # {} \/ op.removeSets # {} \/ op.removeRegisters # {}
  \/ op.removeFlags # {} \/ op.removeMaps # {}

\* Mutant: nested operations are not asked.
hasRemovesAtTop(o, includeRemoveFromSets) ==
  HasOwnRemoves(ops[o]) \/ (includeRemoveFromSets /\ DOMAIN ops[o].removeFromSets # {})

\* An operation, or one nested in it, removes a field.
removesIn[o \in Ops] ==
  HasOwnRemoves(ops[o]) \/ \E k \in DOMAIN ops[o].maps : removesIn[ops[o].maps[k]]

\* Nested operations are asked without includeRemoveFromSets.
hasRemoves(o, includeRemoveFromSets) ==
  removesIn[o] \/ (includeRemoveFromSets /\ DOMAIN ops[o].removeFromSets # {})

\* The entries of a Go map, as updates of the given type and operation.
Updates(type, kind, f) == {<<type, k, kind, f[k]>> : k \in DOMAIN f}
Fields(type, K)        == {<<type, k>> : k \in K}

\* The part of the message that stands for operation o; an update of a nested map
\* holds the part of the nested operation.
populate(o) ==
  LET op == ops[o] IN
  [removes |-> IF hasRemoves(o, FALSE)
                 THEN Fields("COUNTER", op.removeCounters) \cup Fields("SET", op.removeSets)
                      \cup Fields("MAP", op.removeMaps)
                      \cup Fields("REGISTER", op.removeRegisters)
                      \cup Fields("FLAG", op.removeFlags)
                 ELSE {},
   counters  |-> Updates("COUNTER", "increment", op.incrementCounters),
   adds      |-> Updates("SET", "adds", op.addToSets),
   rems      |-> Updates("SET", "removes", op.removeFromSets),
   registers |-> Updates("REGISTER", "set", op.registersToSet),
   flags     |-> Updates("FLAG", "flag", op.flagsToSet),
   maps      |-> Updates("MAP", "map", op.maps)]

\* The operations whose part is in the message: the root and those nested in them.
isSent[o \in Ops] ==
  \/ o = Root
  \/ \E p \in 1..(o - 1) : isSent[p] /\ \E k \in DOMAIN ops[p].maps : ops[p].maps[k] = o

InMessage == {o \in 1..used : isSent[o]}

\* UpdateMapCommandBuilder.Build: a context is needed.
NeedsContext == hasRemoves(Root, TRUE)
-----------------------------------------------------------------------------
(* What the calls mean, read from the log. *)

\* The positions in log l of the calls of one name on field k of operation o.
At(l, o, k, name) == {i \in DOMAIN l : l[i].op = o /\ l[i].key = k /\ l[i].call = name}

\* Those that count, after every removal of the field.
Since(l, o, k, name, removal) ==
  {i \in At(l, o, k, name) : \A j \in At(l, o, k, removal) : j < i}

\* The fields for which a removal is the last of the calls.
Removed(l, o, removal, changes) ==
  {k \in Keys : \E i \in At(l, o, k, removal) :
                  \A name \in changes : \A j \in At(l, o, k, name) : j < i}

\* What the calls at positions P come to: the sum of the increments, which are by 1
\* and -1, the arguments in the order of the calls, or the last one.
Rank(i, P)  == Cardinality({j \in P : j <= i})
Args(l, P)  == [n \in 1..Cardinality(P) |-> l[CHOOSE i \in P : Rank(i, P) = n].arg]
Total(l, P) == Wrap(Cardinality({i \in P : l[i].arg = 1})
                      - Cardinality({i \in P : l[i].arg = -1}))
Latest(l, P) == l[CHOOSE i \in P : \A j \in P : j <= i].arg

Meaning(l, P, how) == CASE how = "sum"  -> Total(l, P)
                        [] how = "all"  -> Args(l, P)
                        [] how = "last" -> Latest(l, P)

\* The entries of a Go map that the log asks for.
Asked(l, o, name, removal, how) ==
  [k \in {x \in Keys : Since(l, o, x, name, removal) # {}} |->
     Meaning(l, Since(l, o, k, name, removal), how)]

Meant(o) ==
  [removes   |-> Fields("COUNTER", Removed(log, o, "RemoveCounter", {"IncrementCounter"}))
                 \cup Fields("SET", Removed(log, o, "RemoveSet", {"AddToSet", "RemoveFromSet"}))
                 \cup Fields("MAP", Removed(log, o, "RemoveMap", {"Map"}))
                 \cup Fields("REGISTER", Removed(log, o, "RemoveRegister", {"SetRegister"}))
                 \cup Fields("FLAG", Removed(log, o, "RemoveFlag", {"SetFlag"})),
   counters  |-> Updates("COUNTER", "increment",
                         Asked(log, o, "IncrementCounter", "RemoveCounter", "sum")),
   adds      |-> Updates("SET", "adds", Asked(log, o, "AddToSet", "RemoveSet", "all")),
   rems      |-> Updates("SET", "removes", Asked(log, o, "RemoveFromSet", "RemoveSet", "all")),
   registers |-> Updates("REGISTER", "set",
                         Asked(log, o, "SetRegister", "RemoveRegister", "last")),
   flags     |-> Updates("FLAG", "flag", Asked(log, o, "SetFlag", "RemoveFlag", "last")),
   maps      |-> Updates("MAP", "map", Asked(log, o, "Map", "RemoveMap", "last"))]
-----------------------------------------------------------------------------
(* Properties. *)

\* What an operation holds: five pairs of Go maps and the nested operations.
IsOperation(op) ==
  /\ DOMAIN op = DOMAIN NewMapOperation
  /\ IsMap(op.incrementCounters, Int64) /\ op.removeCounters \subseteq Keys
  /\ IsMap(op.addToSets, Seq(Values)) /\ IsMap(op.removeFromSets, Seq(Values))
  /\ op.removeSets \subseteq Keys
  /\ IsMap(op.registersToSet, Values) /\ op.removeRegisters \subseteq Keys
  /\ IsMap(op.flagsToSet, BOOLEAN) /\ op.removeFlags \subseteq Keys
  /\ IsMap(op.maps, Ops) /\ op.removeMaps \subseteq Keys

\* No message both updates and removes a field.
UpdatedOrRemoved(op) ==
  /\ DOMAIN op.incrementCounters \cap op.removeCounters = {}
  /\ (DOMAIN op.addToSets \cup DOMAIN op.removeFromSets) \cap op.removeSets = {}
  /\ DOMAIN op.registersToSet \cap op.removeRegisters = {}
  /\ DOMAIN op.flagsToSet \cap op.removeFlags = {}
  /\ DOMAIN op.maps \cap op.removeMaps = {}

\* Nested operations form a tree: populate and hasRemoves end, and no operation is
\* sent twice.
Nesting ==
  \A o, p \in Ops : \A k \in DOMAIN ops[o].maps, l \in DOMAIN ops[p].maps :
    /\ ops[o].maps[k] \in (o + 1)..used
    /\ ops[o].maps[k] = ops[p].maps[l] => o = p /\ k = l

\* The values of the variables: the eleven Go maps of an operation never update and
\* remove one field, and the nested operations form a tree.
TypeOK ==
  /\ used \in Ops
  /\ DOMAIN ops = Ops
  /\ \A o \in Ops : IsOperation(ops[o]) /\ UpdatedOrRemoved(ops[o])
  /\ Nesting

\* The message says of every field what the application's calls since the last
\* removal of that field come to, and nothing of other fields.
MessageMeansCalls == \A o \in 1..used : populate(o) = Meant(o)

\* Build asks for a context exactly when the message removes a field, at any depth of
\* the nesting, or elements from a set of the outermost map.  The removal of elements
\* from a set in a nested map asks for none: hasRemoves passes
\* includeRemoveFromSets = false on, although Build's error speaks of "any removes"
\* (crdt_commands.go:1483).
ContextDemanded ==
  NeedsContext <=> \/ \E o \in InMessage : HasOwnRemoves(ops[o])
                   \/ DOMAIN ops[Root].removeFromSets # {}

\* A nested operation that was removed never comes back: calls on it are lost.
RemovedForGood == [][\A o \in 1..used : o \notin InMessage => o \notin InMessage']_vars
=============================================================================
