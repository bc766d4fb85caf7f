----------------------------- MODULE MCCluster -----------------------------
(* Cluster with commands as model values.  Two single-shot asynchronous     *)
(* commands are interchangeable.                                            *)
EXTENDS Cluster, TLC

Symmetry == Permutations(Cmds \ (Retryable \cup Synchronous))
============================================================================
