----------------------------- MODULE MCPowSearch -----------------------------
(* Instances of PowSearch for TLC. *)
EXTENDS PowSearch
=============================================================================
