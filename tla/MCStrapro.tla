----------------------------- MODULE MCStrapro -----------------------------
(* Instances of Strapro for TLC. *)
EXTENDS Strapro, TLC

MCMaxPos    == {1, 2}
MCOvernight == {-2, 0, 3}
MCClosed    == {0}
MCShort     == {-1}

Symmetry == Permutations(OrderIds)
============================================================================
