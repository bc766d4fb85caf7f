---------------------------- MODULE MCNodeManager ----------------------------
(* Instances of NodeManager for TLC. *)
EXTENDS NodeManager

CONSTANTS n1, n2

OneNode  == <<n1>>
TwoNodes == <<n1, n2>>
=============================================================================
