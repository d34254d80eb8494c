------------------------------ MODULE FastIC1 ------------------------------
(***************************************************************************)
(* The fast factors (FastFactorMan.h, fast_factors.hpp) as the FastIC1     *)
(* strategy drives them (src/src/FastIC1/StraPro.cc, and the same file     *)
(* under test_fast_factor).  Each row is evaluated against what earlier    *)
(* rows left: the lists of FastFactorMan and the members of the calers,    *)
(* which doExPose() refreshes after the evaluation.  calc() evaluates the  *)
(* reference factors of FactorMan, which read whole lists, beside them and *)
(* reports every difference.                                               *)
(*                                                                         *)
(* A value is represented by the rows it was computed from: its own, and   *)
(* those whose mid price and whose order book stood for the previous row.  *)
(* All lists of FastFactorMan are appended to together, so one stands for  *)
(* all.  ReSet() leaves what pre() returns alone (see SlidingList), so     *)
(* neither the ReSet() of a list nor a forgotten one is seen here.         *)
(***************************************************************************)
EXTENDS GuessTradePrice, RankSearch

CONSTANTS
  InitTicks,    \* init_ticks: rows do_finalize() reads ahead, 125
  Ahead,        \* rows at the end of a day that calc() skips, 10
  FfPeriod,     \* period of an Ff7 caler: 10 to 80
  MaxPeriod,    \* period of Ff8_2: 40
  TrendPeriod,  \* period of an L2f10 caler: 10 to 80
  RankPeriod,   \* period of L2f9: 40
  Books,        \* five-level order books of a row
  TradePrices,  \* prices of the trades between two rows
  MaxVol,       \* bound on the lots traded between two rows
  Precision,    \* values 1 / Precision apart are taken for equal: 100000
  Window,       \* rows of the longest ranking window kept: 6 for L2p2
  MaxRows       \* bound on the rows of market data

(* Mutant: ExPose() of Ff7 looks where its init_data() does. *)
InitOldest == FfPeriod - 2

Oldest == FfPeriod - 1

(* The rows a caler member is computed from, as ages in the list it is    *)
(* refreshed from, after the new row has been appended.                   *)
SavedAges ==
  [pre_PIMsp |-> {Oldest}, min_PIMsp |-> 0..(FfPeriod - 2),
   max_PIM |-> 0..(MaxPeriod - 2), sorted_ADI_list |-> 0..2,
   ask_amount_pr |-> {0}, net_ask_amount_amp_pr |-> 0..(TrendPeriod - 1),
   ask5_pr2 |-> {1}, sorted_delta_ask5 |-> 0..RankPeriod,
   pa_pr |-> {0}, sorted_pa_list |-> 0..4]

(* The ages at which eval() of the other factors reads the lists. *)
ReadAges ==
  [a1f4 |-> {0}, a1f5 |-> {2}, a1f6 |-> {3}, a1f7 |-> {2}, a1f9 |-> {3},
   a1f10 |-> {0}, a1f11 |-> {2}, a1f12 |-> {3}, a1f13 |-> {2}, a1f14 |-> {2},
   a1f15 |-> {3}, a2f5 |-> {1, 3}, a2f6 |-> {2, 5}, a2f7 |-> {3, 7},
   a2f12 |-> {3, 7}, a2f13 |-> {2, 5}, sa2 |-> {1}, sa3 |-> {2}, ADI_pr |-> {0}]

get_a1(period) == {period}
get_a2(period) == {period, 2 * period}

(* The rows the reference factor compares the current one with, by age. *)
ReferenceAges ==
  [pre_PIMsp |-> {FfPeriod}, min_PIMsp |-> 1..(FfPeriod - 1),
   max_PIM |-> 1..(MaxPeriod - 1), sorted_ADI_list |-> 1..3,
   ask_amount_pr |-> {1}, net_ask_amount_amp_pr |-> 1..TrendPeriod,
   ask5_pr2 |-> {2}, sorted_delta_ask5 |-> 1..(RankPeriod + 1),
   pa_pr |-> {1}, sorted_pa_list |-> 1..5,
   a1f4 |-> get_a1(1), a1f5 |-> get_a1(3), a1f6 |-> get_a1(4), a1f7 |-> get_a1(3),
   a1f9 |-> get_a1(4), a1f10 |-> get_a1(1), a1f11 |-> get_a1(3), a1f12 |-> get_a1(4),
   a1f13 |-> get_a1(3), a1f14 |-> get_a1(3), a1f15 |-> get_a1(4), a2f5 |-> get_a2(2),
   a2f6 |-> get_a2(3), a2f7 |-> get_a2(4), a2f12 |-> get_a2(4), a2f13 |-> get_a2(3),
   sa2 |-> {2}, sa3 |-> {3}, ADI_pr |-> {1}]

Saved == DOMAIN SavedAges
Read  == DOMAIN ReadAges

(* do_finalize() reads two rows more than the longest window looks back. *)
ASSUME FastIC1Assumption ==
  /\ InitTicks \in Nat /\ Ahead \in Nat /\ MaxRows \in Nat /\ InitTicks >= 10
  /\ {FfPeriod, MaxPeriod, TrendPeriod} \subseteq 2..(InitTicks - 2)
  /\ RankPeriod \in 1..(InitTicks - 3)
  /\ Window \in Nat \ 0..3 /\ Precision \in Nat \ {0}

VARIABLES
  row,       \* the row calc() evaluated last
  dayStart,  \* the first row that do_finalize() read, 0 before
  list,      \* what the lists' pre(0), pre(1), ... return
  mid_pr,    \* row of amount_pr, volume_pr and mid_price_pr
  book_pr,   \* row of bid_pr[], ask_pr[], ask1_pr, ... of ExPose()
  saved,     \* the calers' data
  used,      \* what the factors of the current row were computed from
  evoi,      \* m_EVOI and m_MPBVS: the rows in the running mean
  books      \* the latest books, oldest first

vars == <<row, dayStart, list, mid_pr, book_pr, saved, used, evoi, books>>

Ages == 1..InitTicks
Value(r, mid, book) == [row |-> r, mid |-> mid, book |-> book]
Values == [row : Nat, mid : Nat, book : Nat]
Old == Value(0, 0, 0)    \* what a List holds before anything is appended

pre(l, age) == l[age + 1]

(* Mutant: the lists grow instead of forgetting the oldest value. *)
AppendGrowing(l, value) == [k \in DOMAIN l \union {Cardinality(DOMAIN l) + 1} |-> IF k = 1 THEN value ELSE l[k - 1]]

(* Append() to each of the lists. *)
AppendAll(l, value) == [k \in Ages |-> IF k = 1 THEN value ELSE l[k - 1]]

(* EWMCaler: Add() of n rows from r on, and ReSet(). *)
Add(ewm, r, n) ==
  IF ewm.first_init THEN [first_init |-> FALSE, first |-> r, size |-> n]
  ELSE [ewm EXCEPT !.size = @ + n]

(* Mutant: the running means are forgotten. *)
KeepMean(ewm) == ewm

ReSet(ewm) == [ewm EXCEPT !.first_init = TRUE]

(* FastFactorMan::init_data(): the first row only gives amount_pr, volume_pr *)
(* and mid_price_pr; the others are evaluated and appended.                  *)
InitValue(start, r) == Value(r, r - 1, IF r = start + 1 THEN book_pr ELSE r - 1)

InitList(start) ==
  [k \in Ages |-> IF k = InitTicks THEN list[1] ELSE InitValue(start, start + InitTicks - k)]

(* ExPose() of the calers. *)
ExPoseAll(l) == [m \in Saved |-> {pre(l, k) : k \in SavedAges[m]}]

(* init_data() of the calers: as ExPose(), but Ff7 looks at another age and  *)
(* another list, and L2a2 does nothing.                                      *)
init_all(l) ==
  [ExPoseAll(l) EXCEPT !.pre_PIMsp = {pre(l, FfPeriod - 2)},
                       !.sorted_ADI_list = saved.sorted_ADI_list]

Nothing == [f \in Saved \union Read |-> {}]

(* eval() of the factors: a caler looks at its data, the others at the lists. *)
EvalAll == [f \in Saved \union Read |->
              IF f \in Saved THEN saved[f] ELSE {pre(list, k) : k \in ReadAges[f]}]

Init ==
  /\ row = 0 /\ dayStart = 0
  /\ list = [k \in Ages |-> Old]
  /\ mid_pr = 0 /\ book_pr = 0
  /\ saved = [m \in Saved |-> {Old}]
  /\ used = Nothing
  /\ evoi = [first_init |-> TRUE, first |-> 0, size |-> 0]
  /\ books \in [1..Window -> Books]

(* do_finalize() after the last rows of a day, which calc() has skipped. *)
DoFinalize ==
  LET start == row + Ahead + 1
      last  == start + InitTicks - 1
  IN  /\ last <= MaxRows
      /\ row' = last
      /\ dayStart' = start
      /\ list' = InitList(start)
      /\ mid_pr' = last /\ book_pr' = last
      /\ saved' = init_all(list')
      /\ used' = Nothing
      /\ evoi' = Add(ReSet(evoi), start + 1, InitTicks - 1)
      /\ books' \in [1..Window -> Books]

(* calc() of the next row: eval(), then doExPose(). *)
Calc ==
  /\ dayStart > 0
  /\ row < MaxRows
  /\ row' = row + 1
  /\ used' = EvalAll
  /\ evoi' = Add(evoi, row + 1, 1)
  /\ list' = AppendAll(list, Value(row + 1, mid_pr, book_pr))
  /\ mid_pr' = row + 1 /\ book_pr' = row + 1
  /\ saved' = ExPoseAll(list')
  /\ \E book \in Books : books' = [i \in 1..Window |-> IF i = Window THEN book ELSE books[i + 1]]
  /\ UNCHANGED dayStart

Next == DoFinalize \/ Calc

Spec == Init /\ [][Next]_vars

----------------------------------------------------------------------------

TypeOK ==
  /\ row \in Nat /\ dayStart \in Nat
  /\ mid_pr \in Nat /\ book_pr \in Nat
  /\ list \in [Ages -> Values]
  /\ saved \in [Saved -> SUBSET Values]
  /\ used \in [Saved \union Read -> SUBSET Values]
  /\ evoi \in [first_init : BOOLEAN, first : Nat, size : Nat]
  /\ books \in [1..Window -> Books]

Evaluated == dayStart > 0 /\ row >= dayStart + InitTicks

(* What the first row of a day compares with is not right for two members, *)
(* as init_data() of Ff7 and L2a2 is not.                                  *)
Excused == IF row = dayStart + InitTicks THEN {"pre_PIMsp", "sorted_ADI_list"} ELSE {}

(* Every fast factor of a row, but for those Excused on the first of a day, *)
(* compares it with exactly the rows that the reference factor does, of the *)
(* same day, and each of those was itself evaluated against the row before  *)
(* it: calc() would otherwise report an error (StraPro.cc:470-608).         *)
FastMatchesReference ==
  Evaluated => \A f \in (Saved \union Read) \ Excused :
     used[f] = {Value(row - k, row - k - 1, row - k - 1) : k \in ReferenceAges[f]}

(* The running means start anew on every day, and count every row of it     *)
(* after the first once: init_data() and calc() overlap in no row.          *)
MeanOfToday ==
  dayStart > 0 => /\ ~evoi.first_init
                  /\ evoi.first = dayStart + 1
                  /\ evoi.size = row - dayStart

(* The values that are ranked: ADI as a number of units, pa and pb in        *)
(* quarters of a tick.                                                      *)
Sum(vol) == vol[1] + vol[2] + vol[3] + vol[4] + vol[5]
Lots(book) == Sum(book.vol["bid"]) + Sum(book.vol["ask"])
ADI(book, units) == (units * (Sum(book.vol["bid"]) - Sum(book.vol["ask"]))) \div Lots(book)
pa(book) == 4 * book.price["ask"][5] - 2 * (book.price["ask"][1] + book.price["bid"][1])
pb(book) == 2 * (book.price["ask"][1] + book.price["bid"][1]) - 4 * book.price["bid"][5]

Older(F(_), n) == [i \in 1..n |-> F(books[Window - 1 - n + i])]
Sentinel == 999999

(* A tolerance that lies, as that of the code, between nothing and the       *)
(* smallest difference of two prices pa and pb: half a tick.                *)
QuarterTick == 1

(* The four ADI that L2a2 ranks, as fractions with a common denominator, in  *)
(* units that divide each exactly: the tolerance has Tolerance of them.     *)
Tolerance == Lots(books[Window - 3]) * Lots(books[Window - 2])
               * Lots(books[Window - 1]) * Lots(books[Window])
RankedADI(book) == ADI(book, Precision * Tolerance)

(* The number of the values in a range. *)
Count(seq, range) == Cardinality({i \in DOMAIN seq : seq[i] \in range})

(* The rank found among the sorted older values is the mean rank ts_rank()   *)
(* finds by sorting the whole window, also among values that are equal or    *)
(* nearly so.  The bisection (L2p2, L2f9) always ends with it.  The scan     *)
(* (L2a2) is wrong by at most the values that lie above the new one within   *)
(* the tolerance, or below it by exactly that.                               *)
RanksAgree ==
  LET new == books[Window]
      adi == Older(RankedADI, 3)
      val == RankedADI(new)
      rank == ts_rank(adi, val, Tolerance)
      justAbove == Count(adi, (val + 1)..(val + Tolerance))
      atEdge == Count(adi, {val - Tolerance})
  IN  /\ ScanRank(Sort(adi), val, Tolerance) \in (rank - justAbove)..(rank + atEdge)
      /\ LET old == Older(pa, Window - 1)
         IN  BisectRank(old, pa(new), QuarterTick, Sentinel) = ts_rank(old, pa(new), QuarterTick)
      /\ LET old == Older(pb, Window - 1)
         IN  BisectRank(old, pb(new), QuarterTick, Sentinel) = ts_rank(old, pb(new), QuarterTick)

(* What calc() logs as L2a2_ERROR (StraPro.cc:564) never happens: from the   *)
(* second row of a day on, the scan of L2a2 finds the rank of the reference. *)
(* The code does not keep this for ADI that differ by less than the          *)
(* tolerance.                                                               *)
L2a2MatchesReference ==
  Evaluated /\ row > dayStart + InitTicks =>
    LET adi == Older(RankedADI, 3)
        val == RankedADI(books[Window])
    IN  ScanRank(Sort(adi), val, Tolerance) = ts_rank(adi, val, Tolerance)

(* The trades that may lie between the last two rows: what a lot traded for *)
(* is one of TradePrices, the last lot's price is known.                    *)
Low  == CHOOSE p \in TradePrices : \A q \in TradePrices : p <= q
High == CHOOSE p \in TradePrices : \A q \in TradePrices : p >= q
Trade(v, last, rest) ==
  LET old == books[Window - 1]
      new == books[Window]
  IN  [trade_vol |-> v, amount |-> last + rest, lastprice |-> last,
       best |-> [side \in Sides |-> new.price[side][1]],
       price_pr |-> old.price, vol_pr |-> old.vol]

(* The books have volume and a spread, and their prices lie far inside the  *)
(* sentinels.  Prices are close to each other: over the lots of one trade,  *)
(* what a level and the lowest price differ by adds up to less than a price. *)
ASSUME BooksAssumption ==
  /\ \A book \in Books :
       /\ book \in [price : [Sides -> [Levels -> Nat]], vol : [Sides -> [Levels -> Nat]]]
       /\ 0 < book.price["bid"][1] /\ book.price["bid"][1] < book.price["ask"][1]
       /\ Lots(book) > 0
       /\ {pa(book), pb(book)} \subseteq (2 - Sentinel)..(Sentinel - 2)
  /\ TradePrices \subseteq Nat /\ MaxVol \in Nat
  /\ \E p \in TradePrices : \A q \in TradePrices : p >= q
  /\ \A v \in 2..MaxVol, book \in Books, side \in Sides, i \in Levels :
       (v - 2) * book.price[side][i] < (v - 1) * Low

(* guess_trade_price() gives every lot traded, and the whole amount, to one  *)
(* side or the other: none is lost or counted twice in any of its steps.    *)
TradesAreDivided ==
  Evaluated => \A v \in 1..MaxVol, last \in TradePrices :
    \A rest \in ((v - 1) * Low)..((v - 1) * High) :
    LET in == Trade(v, last, rest)
        s  == guess_trade_price(in)
    IN  /\ s.vol["bid"] + s.vol["ask"] = in.trade_vol
        /\ s.amount["bid"] + s.amount["ask"] = in.amount
        /\ s.vol["bid"] >= 0 /\ s.vol["ask"] >= 0
=============================================================================
