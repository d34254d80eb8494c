----------------------------- MODULE RankSearch -----------------------------
(***************************************************************************)
(* The rank of a new value among those of a window.  The reference         *)
(* ts_rank() (src/include/hft/factor_func.hpp) sorts the whole window on    *)
(* every row; the fast factors keep the older values sorted and search for  *)
(* the new one, L2a2 by scanning, L2f9, L2p2 and rank_2 by bisection        *)
(* between two sentinels (src/include/hft/math_tool.hpp).                   *)
(*                                                                         *)
(* Values are integers, and eps is the tolerance of the code in the same    *)
(* unit, 1e-5: EPS, or ESP.  L2a2 forgets it in one of its comparisons.     *)
(* Ranks are doubled.                                                      *)
(***************************************************************************)
EXTENDS Integers, Sequences, FiniteSets

(* std::sort of the values of a sequence: the one sorted rearrangement. *)
Sort(seq) ==
  LET Rank(i) == Cardinality({j \in DOMAIN seq : seq[j] < seq[i] \/ (seq[j] = seq[i] /\ j < i)})
  IN  [k \in DOMAIN seq |-> seq[CHOOSE i \in DOMAIN seq : Rank(i) = k - 1]]

(* ts_rank(): the mean position of the values equal to the newest. *)
ts_rank(older, newest, eps) ==
  LET x_copy == Sort(Append(older, newest))
      equal  == {i \in DOMAIN x_copy : newest <= x_copy[i] + eps /\ newest >= x_copy[i] - eps}
      first  == CHOOSE i \in equal : \A j \in equal : i <= j
      last   == CHOOSE i \in equal : \A j \in equal : i >= j
  IN  first + last

(* L2a2::find_high_low(): the first gap from below that holds the value. *)
FirstGap(length, Fits(_)) ==
  IF \E i \in 1..(length - 1) : Fits(i)
  THEN CHOOSE i \in 1..(length - 1) : Fits(i) /\ \A j \in 1..(i - 1) : ~Fits(j)
  ELSE length

ScanLow(sorted, val, eps) ==
  LET Fits(i) == val > sorted[i] /\ val < sorted[i + 1] + eps
  IN  IF val < sorted[1] + eps THEN 0 ELSE FirstGap(Len(sorted), Fits)

(* Here nothing is added to the upper end of a gap. *)
ScanHigh(sorted, val, eps) ==
  LET Fits(i) == val > sorted[i] - eps /\ val < sorted[i + 1]
  IN  IF val > sorted[Len(sorted)] - eps THEN Len(sorted)
      ELSE IF \E i \in 1..(Len(sorted) - 1) : Fits(i) THEN FirstGap(Len(sorted), Fits)
      ELSE 0

ScanRank(sorted, val, eps) == ScanLow(sorted, val, eps) + ScanHigh(sorted, val, eps) + 2

(* find_low() and find_high() on the array x, which starts at index 0.  The  *)
(* search may leave its result unset.                                       *)
Unset == -1

(* Mutant: the tolerance has the wrong sign. *)
BelowByEps(val, x, eps) == val < x - eps

NotAbove(val, x, eps) == val < x + eps

find_low(x, val, eps, begin, end) ==
  LET Index == begin..(end - 1)
      Search[part \in Index \X Index] ==
        LET b == part[1]
            e == part[2]
            i == (b + e) \div 2
        IN  IF b >= e THEN Unset
            ELSE IF NotAbove(val, x[i], eps) THEN Search[<<b, i>>]
            ELSE IF val > x[i + 1] + eps THEN Search[<<i + 1, e>>]
            ELSE i
  IN  Search[<<begin, end - 1>>]

find_high(x, val, eps, begin, end) ==
  LET Index == begin..(end - 1)
      Search[part \in Index \X Index] ==
        LET b == part[1]
            e == part[2]
            i == (b + e) \div 2
        IN  IF b >= e THEN Unset
            ELSE IF val > x[i + 1] - eps THEN Search[<<i + 1, e>>]
            ELSE IF val < x[i] - eps THEN Search[<<b, i>>]
            ELSE i
  IN  Search[<<begin, end - 1>>]

(* Sentinel: 999999, beyond every value. *)
BisectRank(older, val, eps, Sentinel) ==
  LET n    == Len(older) + 2
      seq  == Sort(older \o <<Sentinel, -Sentinel>>)
      x    == [i \in 0..(n - 1) |-> seq[i + 1]]
      low  == find_low(x, val, eps, 0, n)
      high == find_high(x, val, eps, IF low = 0 THEN 0 ELSE low - 1, n)
  IN  IF Unset \in {low, high} THEN Unset ELSE low + high + 2
=============================================================================
