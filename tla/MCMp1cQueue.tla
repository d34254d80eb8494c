---------------------------- MODULE MCMp1cQueue ----------------------------
(* Instances of Mp1cQueue for TLC. *)
EXTENDS Mp1cQueue
============================================================================
