------------------------- MODULE MCSimpleThreadPool -------------------------
(* Instances of SimpleThreadPool for TLC. *)
EXTENDS SimpleThreadPool
=============================================================================
