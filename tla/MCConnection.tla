---------------------------- MODULE MCConnection -----------------------------
(* Instances of Connection for TLC. *)
EXTENDS Connection

AllKinds == DOMAIN Commands \ {"StartTls", "Auth"}
=============================================================================
