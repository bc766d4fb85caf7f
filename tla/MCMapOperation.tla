--------------------------- MODULE MCMapOperation ----------------------------
(* Instances of MapOperation for TLC. *)
EXTENDS MapOperation
=============================================================================
