-------------------------------- MODULE Pool ---------------------------------
(***************************************************************************)
(* What the connection pool of a node promises to the workers, without its *)
(* queue, its counter, its mutexes and its expirer: never more than        *)
(* MaxConnections members, a member is lent to one worker at a time, and a *)
(* member that is lent does not leave the pool.                            *)
(***************************************************************************)
EXTENDS Integers, FiniteSets

CONSTANTS Workers, Conns, NoConn, MaxConnections

VARIABLES
  members,  \* the connections of the pool
  user      \* the connection that each worker runs a command on

poolVars == <<members, user>>

Lent(c) == \E w \in Workers : user[w] = c

Room == Cardinality(members) < MaxConnections

\* A new connection for the pool.
Join(c) ==
  /\ c \in Conns \ members /\ Room
  /\ members' = members \cup {c}
  /\ UNCHANGED user

\* A new connection for a worker.
LendNew(w, c) ==
  /\ c \in Conns \ members /\ Room
  /\ user[w] = NoConn
  /\ members' = members \cup {c}
  /\ user' = [user EXCEPT ![w] = c]

Lend(w, c) ==
  /\ c \in members /\ ~Lent(c)
  /\ user[w] = NoConn
  /\ user' = [user EXCEPT ![w] = c]
  /\ UNCHANGED members

GiveBack(w) ==
  /\ user[w] # NoConn
  /\ user' = [user EXCEPT ![w] = NoConn]
  /\ UNCHANGED members

\* A connection that nobody uses leaves the pool.
Leave(c) ==
  /\ c \in members /\ ~Lent(c)
  /\ members' = members \ {c}
  /\ UNCHANGED user

Init == members = {} /\ user = [w \in Workers |-> NoConn]

Next ==
  \/ \E c \in Conns : Join(c) \/ Leave(c)
  \/ \E w \in Workers :
       GiveBack(w) \/ \E c \in Conns : LendNew(w, c) \/ Lend(w, c)

Spec == Init /\ [][Next]_poolVars
==============================================================================
