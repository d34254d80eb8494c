---------------------------- MODULE RecentValues ----------------------------
(***************************************************************************)
(* What hft::List promises its readers through pre(): the values appended  *)
(* since the last ReSet(), newest first, the oldest of them forgotten once *)
(* there are more than the minimum length.                                 *)
(***************************************************************************)
EXTENDS Naturals

CONSTANTS
  Values,     \* what can be appended
  Capacity    \* how many of them are kept

VARIABLES
  count,      \* values there are to read
  recent      \* recent[0] is the newest of them, recent[count - 1] the oldest

Kept(n) == IF n < Capacity THEN n ELSE Capacity

Init ==
  /\ count = 0
  /\ recent = [age \in {} |-> 0]

Push(v) ==
  /\ count' = Kept(count + 1)
  /\ recent' = [age \in 0..(Kept(count + 1) - 1) |-> IF age = 0 THEN v ELSE recent[age - 1]]

Clear ==
  /\ count' = 0
  /\ recent' = [age \in {} |-> 0]

Next == Clear \/ \E v \in Values : Push(v)

Spec == Init /\ [][Next]_<<count, recent>>
=============================================================================
