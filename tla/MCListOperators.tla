-------------------------- MODULE MCListOperators --------------------------
(* Instances of ListOperators for TLC. *)
EXTENDS ListOperators
============================================================================
