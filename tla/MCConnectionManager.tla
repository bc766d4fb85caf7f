------------------------ MODULE MCConnectionManager ------------------------
(* ConnectionManager with its identities as interchangeable model values. *)
EXTENDS ConnectionManager, TLC

Symmetry == Permutations(Workers) \cup Permutations(Conns)
=============================================================================
