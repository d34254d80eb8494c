--------------------------- MODULE MCSlidingList ---------------------------
(* Instances of SlidingList for TLC. *)
EXTENDS SlidingList
============================================================================
