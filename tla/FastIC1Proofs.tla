--------------------------- MODULE FastIC1Proofs ---------------------------
(***************************************************************************)
(* The theorems about FastIC1, for all periods and all lengths of the      *)
(* initial reading that FastIC1Assumption allows, and for all books,       *)
(* prices and volumes that BooksAssumption allows.                         *)
(***************************************************************************)
EXTENDS FastIC1, GuessTradePriceProofs, FiniteSetTheorems, TLAPS

(* The value of a row that was evaluated against the row before it. *)
Right(r) == Value(r, r - 1, r - 1)

(* The members that init_data() leaves wrong until the first ExPose(). *)
Wrong == IF row = dayStart + InitTicks - 1 THEN {"pre_PIMsp", "sorted_ADI_list"} ELSE {}

(* Between two calls of calc() everything a factor will look at is of the  *)
(* rows just before the next one.                                          *)
UpToDate ==
  dayStart > 0 =>
    /\ row >= dayStart + InitTicks - 1
    /\ mid_pr = row /\ book_pr = row
    /\ \A k \in 1..(InitTicks - 2) : list[k] = Right(row + 1 - k)
    /\ \A m \in Saved \ Wrong : saved[m] = {Right(row - k) : k \in SavedAges[m]}

LEMMA Shift ==
  ASSUME NEW a \in Int
  PROVE  {k + 1 : k \in 0..a} = 1..(a + 1)
<1>1. ASSUME NEW j \in 1..(a + 1)
      PROVE  j \in {k + 1 : k \in 0..a}
  <2>1. j - 1 \in 0..a /\ j = (j - 1) + 1
    OBVIOUS
  <2>. QED BY <2>1
<1>2. ASSUME NEW k \in 0..a
      PROVE  k + 1 \in 1..(a + 1)
  OBVIOUS
<1>. QED BY <1>1, <1>2

LEMMA ShiftOne ==
  ASSUME NEW a \in Int
  PROVE  {k + 1 : k \in {a}} = {a + 1}
OBVIOUS

(* The ages at which the fast and the reference factors look differ by the *)
(* row in between, and none of them reaches behind what do_finalize() read. *)
LEMMA SavedAgesMatch ==
  ASSUME NEW m \in Saved
  PROVE  /\ SavedAges[m] \subseteq 0..(InitTicks - 3)
         /\ ReferenceAges[m] = {k + 1 : k \in SavedAges[m]}
<1>1. m \in {"pre_PIMsp", "min_PIMsp", "max_PIM", "sorted_ADI_list", "ask_amount_pr",
             "net_ask_amount_amp_pr", "ask5_pr2", "sorted_delta_ask5", "pa_pr",
             "sorted_pa_list"}
  BY DEF Saved, SavedAges
<1>2. CASE m \in {"pre_PIMsp", "min_PIMsp", "max_PIM"}
  <2>1. /\ SavedAges["pre_PIMsp"] = {FfPeriod - 1} /\ ReferenceAges["pre_PIMsp"] = {FfPeriod}
        /\ SavedAges["min_PIMsp"] = 0..(FfPeriod - 2) /\ ReferenceAges["min_PIMsp"] = 1..(FfPeriod - 1)
        /\ SavedAges["max_PIM"] = 0..(MaxPeriod - 2) /\ ReferenceAges["max_PIM"] = 1..(MaxPeriod - 1)
    BY DEF SavedAges, ReferenceAges, Oldest
  <2>2. /\ {k + 1 : k \in {FfPeriod - 1}} = {FfPeriod}
        /\ {k + 1 : k \in 0..(FfPeriod - 2)} = 1..(FfPeriod - 1)
        /\ {k + 1 : k \in 0..(MaxPeriod - 2)} = 1..(MaxPeriod - 1)
    <3>1. /\ FfPeriod \in Int /\ FfPeriod - 1 \in Int /\ FfPeriod - 2 \in Int
          /\ MaxPeriod - 2 \in Int
          /\ FfPeriod - 1 + 1 = FfPeriod /\ FfPeriod - 2 + 1 = FfPeriod - 1
          /\ MaxPeriod - 2 + 1 = MaxPeriod - 1
      BY FastIC1Assumption
    <3>. QED BY <3>1, Shift, ShiftOne
  <2>3. /\ {FfPeriod - 1} \subseteq 0..(InitTicks - 3)
        /\ 0..(FfPeriod - 2) \subseteq 0..(InitTicks - 3)
        /\ 0..(MaxPeriod - 2) \subseteq 0..(InitTicks - 3)
    BY FastIC1Assumption
  <2>4. CASE m = "pre_PIMsp"
    BY <2>1, <2>2, <2>3, <2>4
  <2>5. CASE m = "min_PIMsp"
    BY <2>1, <2>2, <2>3, <2>5
  <2>6. CASE m = "max_PIM"
    BY <2>1, <2>2, <2>3, <2>6
  <2>. QED BY <1>2, <2>4, <2>5, <2>6
<1>3. CASE m \in {"sorted_ADI_list", "ask_amount_pr", "ask5_pr2", "pa_pr", "sorted_pa_list"}
  <2>1. /\ SavedAges["sorted_ADI_list"] = 0..2 /\ ReferenceAges["sorted_ADI_list"] = 1..3
        /\ SavedAges["ask_amount_pr"] = {0} /\ ReferenceAges["ask_amount_pr"] = {1}
        /\ SavedAges["ask5_pr2"] = {1} /\ ReferenceAges["ask5_pr2"] = {2}
        /\ SavedAges["pa_pr"] = {0} /\ ReferenceAges["pa_pr"] = {1}
        /\ SavedAges["sorted_pa_list"] = 0..4 /\ ReferenceAges["sorted_pa_list"] = 1..5
    BY DEF SavedAges, ReferenceAges
  <2>2. /\ {k + 1 : k \in 0..2} = 1..3 /\ {k + 1 : k \in 0..4} = 1..5
        /\ {k + 1 : k \in {0}} = {1} /\ {k + 1 : k \in {1}} = {2}
    <3>1. 0 \in Int /\ 1 \in Int /\ 2 \in Int /\ 4 \in Int
          /\ 0 + 1 = 1 /\ 1 + 1 = 2 /\ 2 + 1 = 3 /\ 4 + 1 = 5
      OBVIOUS
    <3>. QED BY <3>1, Shift, ShiftOne
  <2>3. /\ 0..2 \subseteq 0..(InitTicks - 3) /\ 0..4 \subseteq 0..(InitTicks - 3)
        /\ {0} \subseteq 0..(InitTicks - 3) /\ {1} \subseteq 0..(InitTicks - 3)
    BY FastIC1Assumption
  <2>4. CASE m = "sorted_ADI_list"
    BY <2>1, <2>2, <2>3, <2>4
  <2>5. CASE m \in {"ask_amount_pr", "pa_pr"}
    BY <2>1, <2>2, <2>3, <2>5
  <2>6. CASE m = "ask5_pr2"
    BY <2>1, <2>2, <2>3, <2>6
  <2>7. CASE m = "sorted_pa_list"
    BY <2>1, <2>2, <2>3, <2>7
  <2>. QED BY <1>3, <2>4, <2>5, <2>6, <2>7
<1>4. CASE m \in {"net_ask_amount_amp_pr", "sorted_delta_ask5"}
  <2>1. /\ SavedAges["net_ask_amount_amp_pr"] = 0..(TrendPeriod - 1)
        /\ ReferenceAges["net_ask_amount_amp_pr"] = 1..TrendPeriod
        /\ SavedAges["sorted_delta_ask5"] = 0..RankPeriod
        /\ ReferenceAges["sorted_delta_ask5"] = 1..(RankPeriod + 1)
    BY DEF SavedAges, ReferenceAges
  <2>2. /\ {k + 1 : k \in 0..(TrendPeriod - 1)} = 1..TrendPeriod
        /\ {k + 1 : k \in 0..RankPeriod} = 1..(RankPeriod + 1)
    <3>1. /\ TrendPeriod - 1 \in Int /\ RankPeriod \in Int
          /\ TrendPeriod - 1 + 1 = TrendPeriod
      BY FastIC1Assumption
    <3>. QED BY <3>1, Shift
  <2>3. /\ 0..(TrendPeriod - 1) \subseteq 0..(InitTicks - 3)
        /\ 0..RankPeriod \subseteq 0..(InitTicks - 3)
    BY FastIC1Assumption
  <2>4. CASE m = "net_ask_amount_amp_pr"
    BY <2>1, <2>2, <2>3, <2>4
  <2>5. CASE m = "sorted_delta_ask5"
    BY <2>1, <2>2, <2>3, <2>5
  <2>. QED BY <1>4, <2>4, <2>5
<1>. QED BY <1>1, <1>2, <1>3, <1>4

LEMMA ReadAgesMatch ==
  ASSUME NEW f \in Read
  PROVE  /\ ReadAges[f] \subseteq 0..7
         /\ ReferenceAges[f] = {k + 1 : k \in ReadAges[f]}
<1>1. f \in {"a1f4", "a1f5", "a1f6", "a1f7", "a1f9", "a1f10", "a1f11", "a1f12", "a1f13",
             "a1f14", "a1f15", "a2f5", "a2f6", "a2f7", "a2f12", "a2f13", "sa2", "sa3",
             "ADI_pr"}
  BY DEF Read, ReadAges
<1>2. CASE f \in {"a1f4", "a1f5", "a1f6", "a1f7", "a1f9", "a1f10", "a1f11"}
  BY <1>2 DEF ReadAges, ReferenceAges, get_a1
<1>3. CASE f \in {"a1f12", "a1f13", "a1f14", "a1f15", "sa2", "sa3", "ADI_pr"}
  BY <1>3 DEF ReadAges, ReferenceAges, get_a1
<1>4. CASE f \in {"a2f5", "a2f6", "a2f7", "a2f12", "a2f13"}
  <2>1. /\ ReadAges["a2f5"] = {1, 3} /\ ReferenceAges["a2f5"] = {2, 4}
        /\ ReadAges["a2f6"] = {2, 5} /\ ReferenceAges["a2f6"] = {3, 6}
        /\ ReadAges["a2f7"] = {3, 7} /\ ReferenceAges["a2f7"] = {4, 8}
        /\ ReadAges["a2f12"] = {3, 7} /\ ReferenceAges["a2f12"] = {4, 8}
        /\ ReadAges["a2f13"] = {2, 5} /\ ReferenceAges["a2f13"] = {3, 6}
    BY DEF ReadAges, ReferenceAges, get_a2
  <2>2. /\ {k + 1 : k \in {1, 3}} = {2, 4}
        /\ {k + 1 : k \in {2, 5}} = {3, 6}
        /\ {k + 1 : k \in {3, 7}} = {4, 8}
    OBVIOUS
  <2>3. {1, 3} \subseteq 0..7 /\ {2, 5} \subseteq 0..7 /\ {3, 7} \subseteq 0..7
    OBVIOUS
  <2>4. CASE f = "a2f5"
    BY <2>1, <2>2, <2>3, <2>4
  <2>5. CASE f \in {"a2f6", "a2f13"}
    BY <2>1, <2>2, <2>3, <2>5
  <2>6. CASE f \in {"a2f7", "a2f12"}
    BY <2>1, <2>2, <2>3, <2>6
  <2>. QED BY <1>4, <2>4, <2>5, <2>6
<1>. QED BY <1>1, <1>2, <1>3, <1>4

(* The property and the strengthening it needs. *)
IInv == TypeOK /\ UpToDate /\ FastMatchesReference

LEMMA InitIInv == Init => IInv
<1>. SUFFICES ASSUME Init PROVE IInv
  OBVIOUS
<1>1. TypeOK
  <2>1. Old \in Values
    BY DEF Old, Value, Values
  <2>2. list \in [Ages -> Values] /\ saved \in [Saved -> SUBSET Values]
    BY <2>1 DEF Init
  <2>3. used \in [Saved \union Read -> SUBSET Values]
    BY DEF Init, Nothing
  <2>. QED BY <2>2, <2>3 DEF Init, TypeOK
<1>. QED BY <1>1 DEF Init, IInv, UpToDate, FastMatchesReference, Evaluated

(* What ExPose() saves is of the rows just before the next one. *)
LEMMA SavedRight ==
  ASSUME NEW l, NEW r \in Nat, NEW m \in Saved,
         \A k \in 1..(InitTicks - 2) : l[k] = Right(r + 1 - k)
  PROVE  \A k \in SavedAges[m] : pre(l, k) = Right(r - k)
<1>. TAKE k \in SavedAges[m]
<1>1. k \in 0..(InitTicks - 3)
  BY SavedAgesMatch
<1>2. k + 1 \in 1..(InitTicks - 2) /\ r + 1 - (k + 1) = r - k
  BY <1>1, FastIC1Assumption
<1>3. l[k + 1] = Right(r + 1 - (k + 1))
  BY <1>2
<1>. QED BY <1>2, <1>3 DEF pre

(* Seen from the next row, what was k rows back is k + 1 rows back. *)
LEMMA OneRowLater ==
  ASSUME NEW r \in Nat, NEW ages, ages \subseteq Int
  PROVE  {Right(r - k) : k \in ages} = {Right(r + 1 - k) : k \in {j + 1 : j \in ages}}
<1>1. \A j \in ages : r + 1 - (j + 1) = r - j
  OBVIOUS
<1>. QED BY <1>1

(* All but the first of the values of init_data() are right. *)
LEMMA InitValueRight ==
  ASSUME NEW start, NEW r, r # start + 1
  PROVE  InitValue(start, r) = Right(r)
BY DEF InitValue, Right

LEMMA InitValueTyped ==
  ASSUME NEW start, NEW r \in Nat, r - 1 \in Nat, book_pr \in Nat
  PROVE  InitValue(start, r) \in Values
BY DEF InitValue, Value, Values

LEMMA DoFinalizeIInv == IInv /\ DoFinalize => IInv'
<1>. SUFFICES ASSUME IInv, DoFinalize PROVE IInv'
  OBVIOUS
<1>. DEFINE start == row + Ahead + 1
            last  == start + InitTicks - 1
<1>1. /\ row' = last /\ dayStart' = start /\ mid_pr' = last /\ book_pr' = last
      /\ list' = InitList(start) /\ saved' = init_all(list') /\ used' = Nothing
      /\ evoi' = Add(ReSet(evoi), start + 1, InitTicks - 1)
      /\ books' \in [1..Window -> Books]
  BY DEF DoFinalize
<1>2. start \in Nat /\ last \in Nat /\ start > 0 /\ last = start + InitTicks - 1
  BY FastIC1Assumption DEF IInv, TypeOK
<1>. HIDE DEF start, last
<1>3. list' \in [Ages -> Values]
  <2>1. ASSUME NEW k \in Ages, k # InitTicks
        PROVE  InitValue(start, start + InitTicks - k) \in Values
    <3>1. start + InitTicks - k \in Nat /\ (start + InitTicks - k) - 1 \in Nat
      BY <1>2, <2>1, FastIC1Assumption DEF Ages
    <3>2. book_pr \in Nat
      BY DEF IInv, TypeOK
    <3>. QED BY <3>1, <3>2, InitValueTyped
  <2>2. list[1] \in Values
    BY FastIC1Assumption DEF IInv, TypeOK, Ages
  <2>3. InitList(start) \in [Ages -> Values]
    BY <2>1, <2>2 DEF InitList
  <2>. QED BY <1>1, <2>3
<1>4. saved' \in [Saved -> SUBSET Values]
  <2>1. \A m \in Saved : \A k \in SavedAges[m] : pre(list', k) \in Values
    BY <1>3, SavedAgesMatch, FastIC1Assumption DEF pre, Ages
  <2>2. ExPoseAll(list') \in [Saved -> SUBSET Values]
    BY <2>1 DEF ExPoseAll
  <2>3. pre(list', FfPeriod - 2) \in Values
    BY <1>3, FastIC1Assumption DEF pre, Ages
  <2>4. saved["sorted_ADI_list"] \in SUBSET Values
    BY DEF IInv, TypeOK, Saved, SavedAges
  <2>. QED BY <1>1, <2>2, <2>3, <2>4 DEF init_all
<1>5. evoi' \in [first_init : BOOLEAN, first : Nat, size : Nat]
  <2>1. evoi' = [first_init |-> FALSE, first |-> start + 1, size |-> InitTicks - 1]
    BY <1>1 DEF IInv, TypeOK, Add, ReSet
  <2>. QED BY <1>2, <2>1, FastIC1Assumption
<1>6. TypeOK'
  <2>1. used' \in [Saved \union Read -> SUBSET Values]
    BY <1>1 DEF Nothing
  <2>. QED BY <1>1, <1>2, <1>3, <1>4, <1>5, <2>1 DEF TypeOK
<1>7. \A k \in 1..(InitTicks - 2) : list'[k] = Right(row' + 1 - k)
  <2>. TAKE k \in 1..(InitTicks - 2)
  <2>1. k \in Ages /\ k # InitTicks /\ start + InitTicks - k # start + 1
    BY <1>2, FastIC1Assumption DEF Ages
  <2>2. start + InitTicks - k = last + 1 - k
    BY <1>2, FastIC1Assumption
  <2>3. list'[k] = InitValue(start, start + InitTicks - k)
    BY <1>1, <2>1 DEF InitList
  <2>4. InitValue(start, start + InitTicks - k) = Right(start + InitTicks - k)
    BY <2>1, InitValueRight
  <2>5. row' + 1 - k = start + InitTicks - k
    BY <1>1, <2>2
  <2>. QED BY <2>3, <2>4, <2>5
<1>8. ASSUME NEW m \in Saved \ Wrong'
      PROVE  saved'[m] = {Right(row' - k) : k \in SavedAges[m]}
  <2>1. m # "pre_PIMsp" /\ m # "sorted_ADI_list"
    BY <1>1, <1>2, <1>8 DEF Wrong
  <2>2. saved'[m] = {pre(list', k) : k \in SavedAges[m]}
    BY <1>1, <2>1 DEF init_all, ExPoseAll
  <2>3. row' \in Nat
    BY <1>1, <1>2
  <2>4. \A k \in SavedAges[m] : pre(list', k) = Right(row' - k)
    BY <1>7, <2>3, SavedRight
  <2>. QED BY <2>2, <2>4
<1>9. UpToDate'
  BY <1>1, <1>2, <1>7, <1>8 DEF UpToDate
<1>10. FastMatchesReference'
  BY <1>1, <1>2, FastIC1Assumption DEF FastMatchesReference, Evaluated
<1>. QED BY <1>6, <1>9, <1>10 DEF IInv

LEMMA CalcIInv == IInv /\ Calc => IInv'
<1>. SUFFICES ASSUME IInv, Calc PROVE IInv'
  OBVIOUS
<1>1. /\ dayStart > 0 /\ row' = row + 1 /\ dayStart' = dayStart
      /\ used' = EvalAll /\ evoi' = Add(evoi, row + 1, 1)
      /\ list' = AppendAll(list, Value(row + 1, mid_pr, book_pr))
      /\ mid_pr' = row + 1 /\ book_pr' = row + 1
      /\ saved' = ExPoseAll(list')
  BY DEF Calc
<1>2. /\ row \in Nat /\ dayStart \in Nat /\ row + 1 \in Nat
      /\ mid_pr = row /\ book_pr = row
      /\ row >= dayStart + InitTicks - 1
      /\ \A k \in 1..(InitTicks - 2) : list[k] = Right(row + 1 - k)
      /\ \A m \in Saved \ Wrong : saved[m] = {Right(row - k) : k \in SavedAges[m]}
  BY <1>1 DEF IInv, TypeOK, UpToDate
<1>3. list' \in [Ages -> Values]
  <2>1. Value(row + 1, mid_pr, book_pr) \in Values
    BY <1>2 DEF Value, Values
  <2>2. \A k \in Ages : k # 1 => k - 1 \in Ages
    BY FastIC1Assumption DEF Ages
  <2>. QED BY <1>1, <2>1, <2>2 DEF AppendAll, IInv, TypeOK
<1>4. saved' \in [Saved -> SUBSET Values]
  <2>1. \A m \in Saved : \A k \in SavedAges[m] : pre(list', k) \in Values
    BY <1>3, SavedAgesMatch, FastIC1Assumption DEF pre, Ages
  <2>. QED BY <1>1, <2>1 DEF ExPoseAll
<1>5. used' \in [Saved \union Read -> SUBSET Values]
  <2>1. \A f \in Read : \A k \in ReadAges[f] : pre(list, k) \in Values
    <3>1. \A f \in Read : \A k \in ReadAges[f] : k + 1 \in Ages
      BY ReadAgesMatch, FastIC1Assumption DEF Ages
    <3>. QED BY <3>1 DEF pre, IInv, TypeOK
  <2>2. \A f \in Saved : saved[f] \in SUBSET Values
    BY DEF IInv, TypeOK
  <2>. QED BY <1>1, <2>1, <2>2 DEF EvalAll
<1>6. TypeOK'
  <2>1. evoi' \in [first_init : BOOLEAN, first : Nat, size : Nat]
    BY <1>1, <1>2 DEF IInv, TypeOK, Add
  <2>2. books' \in [1..Window -> Books]
    <3>1. PICK book \in Books :
            books' = [i \in 1..Window |-> IF i = Window THEN book ELSE books[i + 1]]
      BY DEF Calc
    <3>2. books \in [1..Window -> Books] /\ Window \in Nat
      BY FastIC1Assumption DEF IInv, TypeOK
    <3>. QED BY <3>1, <3>2
  <2>. QED BY <1>1, <1>2, <1>3, <1>4, <1>5, <2>1, <2>2 DEF TypeOK
<1>7. \A k \in 1..(InitTicks - 2) : list'[k] = Right(row' + 1 - k)
  <2>. TAKE k \in 1..(InitTicks - 2)
  <2>1. k \in Ages
    BY FastIC1Assumption DEF Ages
  <2>2. CASE k = 1
    <3>1. list'[k] = Value(row + 1, row, row)
      BY <1>1, <1>2, <2>1, <2>2 DEF AppendAll
    <3>2. row' + 1 - k = row + 1
      BY <1>1, <1>2, <2>2
    <3>3. Right(row + 1) = Value(row + 1, row, row)
      BY <1>2 DEF Right
    <3>. QED BY <3>1, <3>2, <3>3
  <2>3. CASE k # 1
    <3>1. k - 1 \in 1..(InitTicks - 2) /\ row + 1 - (k - 1) = row' + 1 - k
      BY <1>1, <1>2, <2>3, FastIC1Assumption
    <3>2. list'[k] = list[k - 1]
      BY <1>1, <2>1, <2>3 DEF AppendAll
    <3>. QED BY <1>2, <3>1, <3>2
  <2>. QED BY <2>2, <2>3
<1>8. ASSUME NEW m \in Saved
      PROVE  saved'[m] = {Right(row' - k) : k \in SavedAges[m]}
  <2>1. saved'[m] = {pre(list', k) : k \in SavedAges[m]} /\ row' \in Nat
    BY <1>1, <1>2 DEF ExPoseAll
  <2>2. \A k \in SavedAges[m] : pre(list', k) = Right(row' - k)
    BY <1>7, <2>1, SavedRight
  <2>. QED BY <2>1, <2>2
<1>9. UpToDate'
  BY <1>1, <1>2, <1>7, <1>8, FastIC1Assumption DEF UpToDate
<1>10. FastMatchesReference'
  <2>. SUFFICES ASSUME NEW f \in (Saved \union Read) \ Excused'
                PROVE  used'[f] = {Right(row' - k) : k \in ReferenceAges[f]}
    BY DEF FastMatchesReference, Right
  <2>1. CASE f \in Saved
    <3>1. f \in Saved \ Wrong
      <4>1. Wrong = Excused'
        BY <1>1, <1>2, FastIC1Assumption DEF Wrong, Excused
      <4>. QED BY <2>1, <4>1
    <3>2. used'[f] = {Right(row - k) : k \in SavedAges[f]}
      BY <1>1, <1>2, <2>1, <3>1 DEF EvalAll
    <3>3. SavedAges[f] \subseteq Int /\ ReferenceAges[f] = {k + 1 : k \in SavedAges[f]}
      <4>1. SavedAges[f] \subseteq 0..(InitTicks - 3) /\ InitTicks - 3 \in Int
        BY <2>1, SavedAgesMatch, FastIC1Assumption
      <4>. QED BY <2>1, <4>1, SavedAgesMatch
    <3>4. {Right(row - k) : k \in SavedAges[f]} = {Right(row + 1 - k) : k \in ReferenceAges[f]}
      BY <1>2, <3>3, OneRowLater
    <3>5. row' = row + 1
      BY <1>1
    <3>6. \A k \in ReferenceAges[f] : row' - k = row + 1 - k
      BY <1>2, <3>3, <3>5
    <3>7. {Right(row' - k) : k \in ReferenceAges[f]} = {Right(row + 1 - k) : k \in ReferenceAges[f]}
      BY <3>6
    <3>. QED BY <3>2, <3>4, <3>7
  <2>2. CASE f \in Read \ Saved
    <3>1. \A k \in ReadAges[f] : k \in 0..7
      BY <2>2, ReadAgesMatch
    <3>2. ASSUME NEW k \in ReadAges[f]
          PROVE  pre(list, k) = Right(row - k)
      <4>1. k + 1 \in 1..(InitTicks - 2) /\ row + 1 - (k + 1) = row - k
        BY <1>2, <3>1, FastIC1Assumption
      <4>. QED BY <1>2, <4>1 DEF pre
    <3>3. used'[f] = {Right(row - k) : k \in ReadAges[f]}
      BY <1>1, <2>2, <3>2 DEF EvalAll
    <3>4. ReadAges[f] \subseteq Int
      BY <3>1
    <3>5. ReferenceAges[f] = {k + 1 : k \in ReadAges[f]}
      BY <2>2, ReadAgesMatch
    <3>6. {Right(row - k) : k \in ReadAges[f]} = {Right(row + 1 - k) : k \in ReferenceAges[f]}
      BY <1>2, <3>4, <3>5, OneRowLater
    <3>7. row' = row + 1
      BY <1>1
    <3>8. \A k \in ReferenceAges[f] : row' - k = row + 1 - k
      BY <1>2, <3>4, <3>5, <3>7
    <3>9. {Right(row' - k) : k \in ReferenceAges[f]} = {Right(row + 1 - k) : k \in ReferenceAges[f]}
      BY <3>8
    <3>. QED BY <3>3, <3>6, <3>9
  <2>. QED BY <2>1, <2>2
<1>. QED BY <1>6, <1>9, <1>10 DEF IInv

LEMMA StutterIInv == IInv /\ UNCHANGED vars => IInv'
BY DEF IInv, vars, TypeOK, UpToDate, FastMatchesReference, Wrong, Evaluated, Excused

(* Every fast factor of a row, but for the two excused on the first of a   *)
(* day, compares it with the rows that the reference factor does, whatever *)
(* the periods and the length of the first reading.                        *)
THEOREM FastIsReference == Spec => [](TypeOK /\ FastMatchesReference)
<1>1. Init => IInv
  BY InitIInv
<1>2. IInv /\ [Next]_vars => IInv'
  BY DoFinalizeIInv, CalcIInv, StutterIInv DEF Next
<1>3. IInv => TypeOK /\ FastMatchesReference
  BY DEF IInv
<1>. QED BY <1>1, <1>2, <1>3, PTL DEF Spec

(* The running means start anew on every day and count each row of it once. *)
THEOREM MeansOfToday == Spec => []MeanOfToday
<1>1. Init => MeanOfToday
  BY DEF Init, MeanOfToday
<1>2. TypeOK /\ MeanOfToday /\ [Next]_vars => MeanOfToday'
  <2>. SUFFICES ASSUME TypeOK, MeanOfToday, [Next]_vars PROVE MeanOfToday'
    OBVIOUS
  <2>1. CASE DoFinalize
    <3>1. evoi' = [first_init |-> FALSE, first |-> row + Ahead + 1 + 1, size |-> InitTicks - 1]
      BY <2>1 DEF DoFinalize, Add, ReSet, TypeOK
    <3>2. dayStart' = row + Ahead + 1 /\ row' = row + Ahead + 1 + InitTicks - 1
      BY <2>1 DEF DoFinalize
    <3>3. InitTicks - 1 = row' - dayStart'
      BY <3>2, FastIC1Assumption DEF TypeOK
    <3>. QED BY <3>1, <3>2, <3>3 DEF MeanOfToday
  <2>2. CASE Calc
    BY <2>2 DEF Calc, Add, TypeOK, MeanOfToday
  <2>3. CASE UNCHANGED vars
    BY <2>3 DEF vars, MeanOfToday
  <2>. QED BY <2>1, <2>2, <2>3 DEF Next
<1>3. Spec => []TypeOK
  BY FastIsReference, PTL
<1>. QED BY <1>1, <1>2, <1>3, PTL DEF Spec

----------------------------------------------------------------------------
(* The ranks.  Sorting, scanning and bisecting all come to the number of    *)
(* older values that are below the new one.                                 *)

(* Every nonempty set of natural numbers has a least element: what stands   *)
(* here for induction.                                                      *)
LEMMA Least ==
  ASSUME NEW T, T \subseteq Nat, T # {}
  PROVE  \E m \in T : \A k \in T : m <= k
<1>1. PICK n \in T : TRUE
  OBVIOUS
<1>. DEFINE D == {s \in SUBSET (0..n) : \E k \in T : s = 0..k}
<1>2. D # {}
  <2>1. 0..n \in D
    BY <1>1
  <2>. QED BY <2>1
<1>3. IsFiniteSet(0..n)
  BY FS_Interval, <1>1
<1>4. FiniteSubsetsOf(0..n) = SUBSET (0..n)
  BY <1>3, FS_FiniteSubsetsOfFinite
<1>5. IsWellFoundedOn(StrictSubsetOrdering(0..n), SUBSET (0..n))
  BY <1>4, FS_StrictSubsetOrderingWellFounded
<1>6. PICK s \in D : \A t \in D : ~(<<t, s>> \in StrictSubsetOrdering(0..n))
  <2>1. D \subseteq SUBSET (0..n)
    OBVIOUS
  <2>. HIDE DEF D
  <2>. QED BY <2>1, <1>2, <1>5, WFMin
<1>7. PICK m \in T : s = 0..m
  BY DEF D
<1>8. ASSUME NEW k \in T, k < m PROVE FALSE
  <2>1. 0..k \subseteq 0..n /\ 0..k \subseteq s /\ 0..k # s
    <3>1. m \in Nat /\ k \in Nat /\ n \in Nat
      BY <1>8
    <3>2. s \subseteq 0..n
      OBVIOUS
    <3>3. m \in s
      BY <1>7, <3>1
    <3>. QED BY <1>8, <1>7, <3>1, <3>2, <3>3
  <2>2. 0..k \in D
    BY <2>1, <1>8
  <2>3. <<0..k, s>> \in StrictSubsetOrdering(0..n)
    BY <2>1 DEF StrictSubsetOrdering
  <2>. QED BY <2>2, <2>3, <1>6
<1>. QED BY <1>7, <1>8

(* The order by value, and by position among equal values; and what comes  *)
(* before an element in it, which is its position when sorted.              *)
Before(seq, i, j) == seq[i] < seq[j] \/ (seq[i] = seq[j] /\ i < j)
RankOf(seq, i) == Cardinality({j \in DOMAIN seq : Before(seq, j, i)})

(* How many values are below v. *)
Below(seq, v) == Cardinality({i \in DOMAIN seq : seq[i] < v})

(* The positions are different, and in the order of the values. *)
LEMMA RankIsPosition ==
  ASSUME NEW seq \in Seq(Int), NEW i \in 1..Len(seq)
  PROVE  /\ RankOf(seq, i) \in 0..(Len(seq) - 1)
         /\ \A j \in 1..Len(seq) : Before(seq, i, j) => RankOf(seq, i) < RankOf(seq, j)
<1>. DEFINE n == Len(seq)
            R(k) == {j \in DOMAIN seq : Before(seq, j, k)}
<1>1. n \in Nat /\ DOMAIN seq = 1..n /\ \A k \in 1..n : seq[k] \in Int
  OBVIOUS
<1>2. IsFiniteSet(1..n) /\ Cardinality(1..n) = n
  <2>. HIDE DEF n
  <2>1. 1 \in Int /\ n \in Int
    BY <1>1
  <2>2. IsFiniteSet(1..n) /\ Cardinality(1..n) = IF 1 > n THEN 0 ELSE n - 1 + 1
    BY <2>1, FS_Interval
  <2>. QED BY <2>2, <1>1
<1>3. \A k \in 1..n : R(k) \subseteq (1..n) \ {k}
  BY <1>1 DEF Before
<1>4. \A k \in 1..n : IsFiniteSet(R(k)) /\ Cardinality(R(k)) \in Nat /\ Cardinality(R(k)) <= n - 1
  <2>. TAKE k \in 1..n
  <2>1. IsFiniteSet((1..n) \ {k}) /\ Cardinality((1..n) \ {k}) = n - 1
    BY <1>2, FS_RemoveElement
  <2>. HIDE DEF R
  <2>2. R(k) \in SUBSET ((1..n) \ {k})
    BY <1>3
  <2>. QED BY <2>1, <2>2, FS_Subset, FS_CardinalityType
<1>5. ASSUME NEW j \in 1..n, Before(seq, i, j) PROVE Cardinality(R(i)) < Cardinality(R(j))
  <2>1. R(i) \cup {i} \subseteq R(j)
    <3>. SUFFICES ASSUME NEW k \in R(i) PROVE k \in R(j)
      BY <1>1, <1>5
    <3>. QED BY <1>1, <1>5 DEF Before
  <2>2. i \notin R(i)
    BY <1>3
  <2>. HIDE DEF R
  <2>3. IsFiniteSet(R(i) \cup {i}) /\ Cardinality(R(i) \cup {i}) = Cardinality(R(i)) + 1
    BY <2>2, <1>4, FS_AddElement
  <2>4. Cardinality(R(i) \cup {i}) <= Cardinality(R(j))
    BY <2>1, <1>4, FS_Subset
  <2>. QED BY <2>3, <2>4, <1>4
<1>6. RankOf(seq, i) \in 0..(n - 1)
  <2>1. RankOf(seq, i) = Cardinality(R(i)) /\ i \in 1..n
    BY DEF RankOf
  <2>. HIDE DEF R, n
  <2>. QED BY <2>1, <1>1, <1>4
<1>. QED BY <1>5, <1>6 DEF RankOf

Permutation(p, n) ==
  /\ p \in [1..n -> 1..n]
  /\ \A i \in 1..n : \E k \in 1..n : p[k] = i
  /\ \A j, k \in 1..n : p[j] = p[k] => j = k

(* Sort() rearranges the values, in their order. *)
LEMMA SortPermutes ==
  ASSUME NEW seq \in Seq(Int)
  PROVE  \E p : /\ Permutation(p, Len(seq))
                /\ Sort(seq) = [k \in 1..Len(seq) |-> seq[p[k]]]
                /\ \A j, k \in 1..Len(seq) : j < k => Before(seq, p[j], p[k])
<1>. DEFINE n == Len(seq)
            p == [k \in 1..n |-> CHOOSE i \in 1..n : RankOf(seq, i) = k - 1]
            r == [i \in 1..n |-> RankOf(seq, i) + 1]
<1>1. n \in Nat /\ DOMAIN seq = 1..n /\ \A k \in 1..n : seq[k] \in Int
  OBVIOUS
<1>2. \A i \in 1..n : RankOf(seq, i) \in 0..(n - 1)
  BY RankIsPosition
<1>3. \A i, j \in 1..n : Before(seq, i, j) => RankOf(seq, i) < RankOf(seq, j)
  BY RankIsPosition
<1>4. \A i, j \in 1..n : i # j => Before(seq, i, j) \/ Before(seq, j, i)
  BY <1>1 DEF Before
<1>5. \A i, j \in 1..n : RankOf(seq, i) = RankOf(seq, j) => i = j
  BY <1>2, <1>3, <1>4
<1>6. \A k \in 1..n : \E i \in 1..n : RankOf(seq, i) = k - 1
  <2>1. r \in [1..n -> 1..n]
    BY <1>1, <1>2
  <2>0. \A i, j \in 1..n : r[i] = r[j] => i = j
    <3>. SUFFICES ASSUME NEW i \in 1..n, NEW j \in 1..n, r[i] = r[j] PROVE i = j
      OBVIOUS
    <3>1. /\ RankOf(seq, i) \in Int /\ RankOf(seq, j) \in Int
          /\ RankOf(seq, i) + 1 = RankOf(seq, j) + 1
      BY <1>2
    <3>2. RankOf(seq, i) = RankOf(seq, j)
      BY <3>1
    <3>. QED BY <1>5, <3>2
  <2>2. r \in Injection(1..n, 1..n)
    <3>. HIDE DEF r, n
    <3>. QED BY <2>1, <2>0 DEF Injection, IsInjective
  <2>3. IsFiniteSet(1..n)
    BY <1>1, FS_Interval
  <2>4. r \in Surjection(1..n, 1..n)
    <3>. HIDE DEF r, n
    <3>. QED BY <2>2, <2>3, FS_Injection
  <2>5. \A k \in 1..n : \E i \in 1..n : r[i] = k
    BY <2>4 DEF Surjection
  <2>. TAKE k \in 1..n
  <2>6. PICK i \in 1..n : r[i] = k
    BY <2>5
  <2>7. RankOf(seq, i) + 1 = k /\ RankOf(seq, i) \in Int /\ k \in Int
    BY <2>6, <1>2
  <2>8. RankOf(seq, i) = k - 1
    <3>. HIDE DEF r
    <3>. QED BY <2>7
  <2>. QED BY <2>8
<1>7. \A k \in 1..n : p[k] \in 1..n /\ RankOf(seq, p[k]) = k - 1
  BY <1>6
<1>8. Sort(seq) = [k \in 1..n |-> seq[p[k]]]
  BY <1>1 DEF Sort, RankOf, Before
<1>9. \A j, k \in 1..n : p[j] = p[k] => j = k
  <2>. SUFFICES ASSUME NEW j \in 1..n, NEW k \in 1..n, p[j] = p[k] PROVE j = k
    OBVIOUS
  <2>1. j - 1 = k - 1
    BY <1>7
  <2>2. j \in Int /\ k \in Int
    BY <1>1
  <2>. HIDE DEF p, n
  <2>. QED BY <2>1, <2>2
<1>10. \A i \in 1..n : \E k \in 1..n : p[k] = i
  <2>. TAKE i \in 1..n
  <2>1. RankOf(seq, i) + 1 \in 1..n
    BY <1>1, <1>2
  <2>2. RankOf(seq, p[RankOf(seq, i) + 1]) = RankOf(seq, i)
    BY <2>1, <1>2, <1>7
  <2>. QED BY <2>1, <2>2, <1>5, <1>7
<1>11. \A j, k \in 1..n : j < k => Before(seq, p[j], p[k])
  <2>. SUFFICES ASSUME NEW j \in 1..n, NEW k \in 1..n, j < k PROVE Before(seq, p[j], p[k])
    OBVIOUS
  <2>1. ~Before(seq, p[k], p[j])
    <3>1. p[j] \in 1..n /\ p[k] \in 1..n
      BY <1>7
    <3>2. RankOf(seq, p[j]) = j - 1 /\ RankOf(seq, p[k]) = k - 1
      BY <1>7
    <3>3. j - 1 < k - 1 /\ j \in Int /\ k \in Int
      BY <1>1
    <3>. HIDE DEF p, n
    <3>4. SUFFICES ASSUME Before(seq, p[k], p[j]) PROVE FALSE
      OBVIOUS
    <3>5. RankOf(seq, p[k]) < RankOf(seq, p[j])
      BY <3>4, <3>1, <1>3
    <3>. QED BY <3>2, <3>3, <3>5
  <2>2. p[j] # p[k]
    BY <1>9
  <2>. QED BY <2>1, <2>2, <1>4, <1>7
<1>12. p \in [1..n -> 1..n]
  BY <1>7
<1>. HIDE DEF p
<1>. QED BY <1>12, <1>8, <1>9, <1>10, <1>11 DEF Permutation

(* The values below v of a sorted sequence are its first Below(seq, v). *)
LEMMA SortedBelow ==
  ASSUME NEW seq \in Seq(Int), NEW v \in Int
  PROVE  /\ Below(seq, v) \in 0..Len(seq)
         /\ DOMAIN Sort(seq) = 1..Len(seq)
         /\ \A k \in 1..Len(seq) : Sort(seq)[k] \in Int /\ (Sort(seq)[k] < v <=> k <= Below(seq, v))
<1>. DEFINE n == Len(seq)
            x == Sort(seq)
            K == {k \in 1..n : x[k] < v}
            I == {i \in 1..n : seq[i] < v}
<1>1. n \in Nat /\ DOMAIN seq = 1..n /\ \A k \in 1..n : seq[k] \in Int
  OBVIOUS
<1>2. PICK p : /\ Permutation(p, n)
               /\ x = [k \in 1..n |-> seq[p[k]]]
               /\ \A j, k \in 1..n : j < k => Before(seq, p[j], p[k])
  BY SortPermutes
<1>3. p \in [1..n -> 1..n]
  BY <1>2 DEF Permutation
<1>4. \A k \in 1..n : x[k] = seq[p[k]] /\ x[k] \in Int
  <2>. HIDE DEF x, n
  <2>. QED BY <1>1, <1>2, <1>3
<1>5. \A j, k \in 1..n : j < k => x[j] <= x[k]
  <2>. SUFFICES ASSUME NEW j \in 1..n, NEW k \in 1..n, j < k PROVE x[j] <= x[k]
    OBVIOUS
  <2>1. Before(seq, p[j], p[k])
    BY <1>2
  <2>2. x[j] = seq[p[j]] /\ x[j] \in Int /\ x[k] = seq[p[k]] /\ x[k] \in Int
    BY <1>4
  <2>. HIDE DEF x
  <2>. QED BY <2>1, <2>2 DEF Before
<1>6. IsFiniteSet(1..n) /\ IsFiniteSet(K) /\ IsFiniteSet(I)
  <2>1. IsFiniteSet(1..n)
    BY <1>1, FS_Interval
  <2>2. K \in SUBSET (1..n) /\ I \in SUBSET (1..n)
    OBVIOUS
  <2>. HIDE DEF K, I
  <2>. QED BY <2>1, <2>2, FS_Subset
<1>7. Cardinality(K) = Cardinality(I)
  <2>. DEFINE f == [k \in K |-> p[k]]
  <2>. HIDE DEF x, n
  <2>1. f \in [K -> I]
    BY <1>3, <1>4
  <2>2. \A i \in I : \E k \in K : f[k] = i
    BY <1>2, <1>3, <1>4 DEF Permutation
  <2>3. \A j, k \in K : f[j] = f[k] => j = k
    BY <1>2 DEF Permutation
  <2>. HIDE DEF f, K, I
  <2>4. f \in Injection(K, I)
    BY <2>1, <2>3 DEF Injection, IsInjective
  <2>5. f \in Surjection(K, I)
    BY <2>1, <2>2 DEF Surjection
  <2>6. ExistsBijection(K, I)
    BY <2>4, <2>5 DEF ExistsBijection, Bijection
  <2>. QED BY <2>6, <1>6, FS_Bijection
<1>8. PICK m \in 0..n : K = 1..m
  <2>. DEFINE T == {k \in 1..(n + 1) : k \notin K}
  <2>1. n + 1 \in T
    BY <1>1
  <2>2. T \subseteq Nat
    OBVIOUS
  <2>. HIDE DEF T
  <2>3. PICK t \in T : \A k \in T : t <= k
    BY <2>1, <2>2, Least
  <2>. USE DEF T
  <2>4. t \in 1..(n + 1) /\ t \notin K
    BY <2>3
  <2>5. \A k \in 1..n : k < t => k \in K
    <3>. HIDE DEF K, x
    <3>. SUFFICES ASSUME NEW k \in 1..n, k < t, k \notin K PROVE FALSE
      OBVIOUS
    <3>1. k \in T
      BY <1>1
    <3>2. t <= k
      BY <3>1, <2>3
    <3>. QED BY <3>2, <2>4, <1>1
  <2>6. \A k \in 1..n : k \in K => k < t
    <3>. HIDE DEF x, n
    <3>. SUFFICES ASSUME NEW k \in 1..n, k \in K, t <= k PROVE FALSE
      BY <2>4, <1>1
    <3>1. t \in 1..n
      BY <2>4, <1>1
    <3>2. x[t] <= x[k]
      BY <3>1, <1>4, <1>5, <1>1
    <3>. QED BY <3>1, <3>2, <1>4, <2>4
  <2>7. K = 1..(t - 1) /\ t - 1 \in 0..n
    <3>1. K \subseteq 1..n
      OBVIOUS
    <3>2. n \in Int /\ t \in Int /\ 1 <= t /\ t <= n + 1
      BY <1>1, <2>4
    <3>. HIDE DEF x, n, K, T
    <3>3. \A k \in K : k \in 1..(t - 1)
      BY <3>1, <3>2, <2>6
    <3>4. \A k \in 1..(t - 1) : k \in K
      BY <3>2, <2>5
    <3>5. K = 1..(t - 1)
      BY <3>3, <3>4
    <3>6. t - 1 \in 0..n
      BY <3>2
    <3>. QED BY <3>5, <3>6
  <2>. QED BY <2>7
<1>9. Cardinality(K) = m
  <2>. HIDE DEF K, n
  <2>1. m \in Int /\ 1 \in Int
    BY <1>1
  <2>2. Cardinality(1..m) = IF 1 > m THEN 0 ELSE m - 1 + 1
    BY <2>1, FS_Interval
  <2>. QED BY <2>2, <1>8, <1>1
<1>10. Below(seq, v) = m
  <2>1. Below(seq, v) = Cardinality(I)
    BY <1>1 DEF Below
  <2>. QED BY <2>1, <1>7, <1>9
<1>11. \A k \in 1..n : x[k] < v <=> k <= m
  <2>1. \A k \in 1..n : x[k] < v <=> k \in K
    OBVIOUS
  <2>. HIDE DEF K, n, x
  <2>. QED BY <2>1, <1>8, <1>1
<1>12. DOMAIN x = 1..n
  BY <1>2
<1>. HIDE DEF x
<1>. QED BY <1>4, <1>10, <1>11, <1>12 DEF x

(* One more value is one more below v, or none. *)
LEMMA BelowAppend ==
  ASSUME NEW seq \in Seq(Int), NEW v \in Int, NEW w \in Int
  PROVE  /\ Append(seq, w) \in Seq(Int)
         /\ Below(Append(seq, w), v) = Below(seq, v) + (IF w < v THEN 1 ELSE 0)
<1>. DEFINE n == Len(seq)
            s == Append(seq, w)
            I == {i \in 1..n : seq[i] < v}
<1>1. n \in Nat /\ DOMAIN seq = 1..n /\ \A k \in 1..n : seq[k] \in Int
  OBVIOUS
<1>2. s \in Seq(Int) /\ DOMAIN s = 1..(n + 1) /\ s[n + 1] = w /\ \A k \in 1..n : s[k] = seq[k]
  OBVIOUS
<1>3. IsFiniteSet(I)
  <2>1. IsFiniteSet(1..n)
    BY <1>1, FS_Interval
  <2>2. I \in SUBSET (1..n)
    OBVIOUS
  <2>. HIDE DEF I
  <2>. QED BY <2>1, <2>2, FS_Subset
<1>4. {i \in DOMAIN s : s[i] < v} = IF w < v THEN I \cup {n + 1} ELSE I
  <2>. HIDE DEF s, n
  <2>. QED BY <1>1, <1>2
<1>5. n + 1 \notin I
  BY <1>1
<1>6. Cardinality(I \cup {n + 1}) = Cardinality(I) + 1 /\ Cardinality(I) \in Nat
  <2>. HIDE DEF I
  <2>. QED BY <1>3, <1>5, FS_AddElement, FS_CardinalityType
<1>7. Below(seq, v) = Cardinality(I)
  BY <1>1 DEF Below
<1>8. Below(s, v) = IF w < v THEN Cardinality(I \cup {n + 1}) ELSE Cardinality(I)
  BY <1>4 DEF Below
<1>. HIDE DEF I, n
<1>. QED BY <1>2, <1>6, <1>7, <1>8

(* The doubled mean rank of v: one more than the values below it by more    *)
(* than the tolerance, and one more than those not above it by more.        *)
MeanRank(older, v, eps) == Below(older, v - eps) + Below(older, v + eps + 1) + 2

(* In a sorted sequence, those up to w follow those below v. *)
LEMMA BelowNext ==
  ASSUME NEW seq \in Seq(Int), NEW v \in Int, NEW w \in Int, v <= w
  PROVE  /\ Below(seq, v) \in 0..Len(seq) /\ Below(seq, w + 1) \in 0..Len(seq)
         /\ Below(seq, v) <= Below(seq, w + 1)
         /\ \A k \in 1..Len(seq) : /\ Sort(seq)[k] \in Int
                                   /\ Sort(seq)[k] < v <=> k <= Below(seq, v)
                                   /\ Sort(seq)[k] <= w <=> k <= Below(seq, w + 1)
<1>. DEFINE lo == Below(seq, v)
            hi == Below(seq, w + 1)
            x == Sort(seq)
            n == Len(seq)
<1>1. w + 1 \in Int /\ n \in Nat
  OBVIOUS
<1>2. lo \in 0..n /\ \A k \in 1..n : x[k] \in Int /\ (x[k] < v <=> k <= lo)
  BY SortedBelow
<1>3. hi \in 0..n /\ \A k \in 1..n : x[k] \in Int /\ (x[k] < w + 1 <=> k <= hi)
  BY <1>1, SortedBelow
<1>. HIDE DEF lo, hi, x, n
<1>4. \A k \in 1..n : x[k] <= w <=> k <= hi
  <2>. TAKE k \in 1..n
  <2>1. x[k] \in Int /\ (x[k] < w + 1 <=> k <= hi)
    BY <1>3
  <2>. QED BY <2>1
<1>5. lo <= hi
  <2>1. CASE lo = 0
    BY <2>1, <1>3
  <2>2. CASE lo > 0
    <3>1. lo \in 1..n
      BY <2>2, <1>2, <1>1
    <3>2. lo \in Int
      BY <3>1
    <3>3. x[lo] \in Int /\ x[lo] < v
      BY <3>1, <3>2, <1>2
    <3>4. x[lo] <= w
      BY <3>3
    <3>. QED BY <3>1, <3>4, <1>4
  <2>. QED BY <2>1, <2>2, <1>2
<1>. QED BY <1>2, <1>3, <1>4, <1>5 DEF lo, hi, x, n

(* The first and the last of the positions in between. *)
LEMMA LeastOfInterval ==
  ASSUME NEW a \in Int, NEW b \in Int, a <= b
  PROVE  /\ (CHOOSE i \in a..b : \A j \in a..b : i <= j) = a
         /\ (CHOOSE i \in a..b : \A j \in a..b : i >= j) = b
<1>1. \A i \in a..b : (\A j \in a..b : i <= j) <=> i = a
  OBVIOUS
<1>2. \A i \in a..b : (\A j \in a..b : i >= j) <=> i = b
  OBVIOUS
<1>3. a \in a..b /\ b \in a..b
  OBVIOUS
<1>. QED BY <1>1, <1>2, <1>3

(* What ts_rank() returns. *)
LEMMA RankOfReference ==
  ASSUME NEW older \in Seq(Int), NEW v \in Int, NEW eps \in Nat
  PROVE  ts_rank(older, v, eps) = MeanRank(older, v, eps)
<1>. DEFINE seq == Append(older, v)
            x == Sort(seq)
            a == v - eps
            w == v + eps
            lo == Below(older, a)
            hi == Below(older, w + 1)
            n == Len(older)
<1>0. a \in Int /\ w \in Int /\ a <= v /\ v <= w /\ a <= w
  OBVIOUS
<1>1. /\ seq \in Seq(Int) /\ Len(seq) = n + 1
      /\ Below(seq, a) = lo /\ Below(seq, w + 1) = hi + 1
  <2>1. w + 1 \in Int /\ v < w + 1 /\ ~(v < a)
    OBVIOUS
  <2>2. Below(seq, a) = lo + 0 /\ Below(seq, w + 1) = hi + 1
    <3>. HIDE DEF a, w
    <3>. QED BY <1>0, <2>1, BelowAppend
  <2>3. lo \in Int
    <3>. HIDE DEF a, w
    <3>. QED BY <1>0, BelowNext
  <2>4. seq \in Seq(Int) /\ Len(seq) = n + 1
    OBVIOUS
  <2>. HIDE DEF lo, hi, seq
  <2>. QED BY <2>2, <2>3, <2>4
<1>2. lo \in 0..n /\ hi \in 0..n /\ lo <= hi /\ n \in Nat
  <2>1. lo \in 0..n /\ hi \in 0..n /\ lo <= hi
    <3>. HIDE DEF x, seq, a, w
    <3>. QED BY <1>0, BelowNext, Zenon
  <2>. QED BY <2>1
<1>3. DOMAIN x = 1..(n + 1)
  <2>. HIDE DEF a, w, lo, hi
  <2>. QED BY <1>1, SortedBelow
<1>4. \A k \in 1..(n + 1) : /\ x[k] \in Int
                            /\ x[k] < a <=> k <= lo
                            /\ x[k] <= w <=> k <= hi + 1
  <2>. HIDE DEF seq, lo, hi, n, a, w
  <2>1. \A k \in 1..Len(seq) : /\ x[k] \in Int
                               /\ x[k] < a <=> k <= Below(seq, a)
                               /\ x[k] <= w <=> k <= Below(seq, w + 1)
    BY <1>0, <1>1, BelowNext, Zenon
  <2>. HIDE DEF x
  <2>. QED BY <1>1, <2>1
<1>5. {i \in DOMAIN x : v <= x[i] + eps /\ v >= x[i] - eps} = (lo + 1)..(hi + 1)
  <2>. HIDE DEF x, lo, hi, n
  <2>1. ASSUME NEW i \in DOMAIN x
        PROVE  v <= x[i] + eps /\ v >= x[i] - eps <=> ~(x[i] < a) /\ x[i] <= w
    <3>1. x[i] \in Int
      BY <1>3, <1>4
    <3>. QED BY <3>1
  <2>. HIDE DEF a, w
  <2>2. \A i \in 1..(n + 1) : v <= x[i] + eps /\ v >= x[i] - eps <=> ~(i <= lo) /\ i <= hi + 1
    BY <1>3, <1>4, <2>1
  <2>3. (lo + 1)..(hi + 1) = {i \in 1..(n + 1) : ~(i <= lo) /\ i <= hi + 1}
    BY <1>2
  <2>. QED BY <1>3, <2>2, <2>3
<1>. HIDE DEF lo, hi, x, n
<1>6. lo + 1 \in Int /\ hi + 1 \in Int /\ lo + 1 <= hi + 1
  BY <1>2
<1>7. ts_rank(older, v, eps) =
        (CHOOSE i \in (lo + 1)..(hi + 1) : \A j \in (lo + 1)..(hi + 1) : i <= j)
      + (CHOOSE i \in (lo + 1)..(hi + 1) : \A j \in (lo + 1)..(hi + 1) : i >= j)
  BY <1>5 DEF ts_rank, x, seq
<1>8. ts_rank(older, v, eps) = lo + 1 + hi + 1
  <2>1. ts_rank(older, v, eps) = (lo + 1) + (hi + 1)
    BY <1>6, <1>7, LeastOfInterval
  <2>. QED BY <2>1, <1>2
<1>. QED BY <1>8, <1>2 DEF MeanRank, lo, hi

(* What the scan of L2a2 returns: below it are the values not within the    *)
(* tolerance; up to it, all that are not above, and some of those within.   *)
LEMMA RankByScan ==
  ASSUME NEW older \in Seq(Int), NEW v \in Int, NEW eps \in Nat \ {0}, Len(older) > 0
  PROVE  /\ ScanLow(Sort(older), v, eps) = Below(older, v - eps + 1)
         /\ ScanHigh(Sort(older), v, eps) \in Below(older, v + 1)..Below(older, v + eps)
<1>. DEFINE x == Sort(older)
            lo == Below(older, v - eps + 1)
            a == Below(older, v + 1)
            b == Below(older, v + eps)
            n == Len(older)
<1>0. /\ v - eps + 1 \in Int /\ v + 1 \in Int /\ v + eps \in Int /\ n \in Nat /\ n > 0
      /\ v + 1 <= v + eps
  OBVIOUS
<1>1. lo \in 0..n /\ a \in 0..n /\ b \in 0..n
  <2>1. \A w \in Int : Below(older, w) \in 0..n
    BY SortedBelow
  <2>. HIDE DEF n
  <2>. QED BY <1>0, <2>1
<1>2. DOMAIN x = 1..n
  BY SortedBelow
<1>3. \A k \in 1..n : /\ x[k] \in Int
                      /\ v < x[k] + eps <=> lo < k
                      /\ v >= x[k] <=> k <= a
                      /\ v > x[k] - eps <=> k <= b
  <2>. TAKE k \in 1..n
  <2>1. \A w \in Int : x[k] \in Int /\ (x[k] < w <=> k <= Below(older, w))
    BY SortedBelow
  <2>. HIDE DEF x
  <2>2. x[k] < v - eps + 1 <=> k <= lo
    BY <2>1, <1>0
  <2>3. (x[k] < v + 1 <=> k <= a) /\ (x[k] < v + eps <=> k <= b)
    BY <2>1, <1>0
  <2>4. x[k] \in Int /\ k \in Int
    <3>1. 0 \in Int
      OBVIOUS
    <3>2. x[k] \in Int
      BY <2>1, <3>1
    <3>. QED BY <3>2
  <2>. HIDE DEF lo, a, b, n
  <2>. QED BY <2>2, <2>3, <2>4, <1>1, <1>0
<1>4. Len(x) = n
  <2>1. x \in Seq(Int)
    <3>1. x = [k \in 1..n |-> x[k]]
      BY DEF Sort
    <3>. HIDE DEF x, n
    <3>2. x \in [1..n -> Int]
      BY <3>1, <1>3
    <3>. QED BY <3>2, <1>0
  <2>. HIDE DEF x, n
  <2>. QED BY <2>1, <1>0, <1>2
<1>. HIDE DEF x, lo, a, b, n
<1>5. ScanLow(x, v, eps) = lo
  <2>. DEFINE Fits(i) == v > x[i] /\ v < x[i + 1] + eps
  <2>1. /\ \A i \in 1..(n - 1) : i < lo => ~Fits(i)
        /\ \A i \in 1..(n - 1) : Fits(i) => lo <= i
        /\ lo \in 1..(n - 1) => Fits(lo)
    <3>1. \A i \in 1..(n - 1) : i \in 1..n /\ i + 1 \in 1..n
      BY <1>0
    <3>2. \A i \in 1..n : lo >= i => v > x[i]
      <4>. TAKE i \in 1..n
      <4>1. x[i] \in Int /\ (v < x[i] + eps <=> lo < i)
        BY <1>3
      <4>. QED BY <4>1, <1>1
    <3>3. \A i \in 1..(n - 1) : v < x[i + 1] + eps <=> lo < i + 1
      BY <3>1, <1>3
    <3>. QED BY <3>1, <3>2, <3>3, <1>0, <1>1
  <2>2. v < x[1] + eps <=> lo = 0
    <3>1. 1 \in 1..n
      BY <1>0
    <3>. QED BY <3>1, <1>1, <1>3
  <2>. HIDE DEF Fits
  <2>3. CASE lo = 0
    BY <2>2, <2>3 DEF ScanLow
  <2>4. CASE lo \in 1..(n - 1)
    <3>1. ~(v < x[1] + eps)
      BY <2>2, <2>4
    <3>2. ScanLow(x, v, eps) = CHOOSE i \in 1..(n - 1) : Fits(i) /\ \A j \in 1..(i - 1) : ~Fits(j)
      BY <3>1, <2>1, <2>4, <1>4 DEF ScanLow, FirstGap, Fits
    <3>3. \A j \in 1..(lo - 1) : ~Fits(j)
      BY <2>1, <2>4, <1>0
    <3>4. ASSUME NEW i \in 1..(n - 1), Fits(i), \A j \in 1..(i - 1) : ~Fits(j)
          PROVE  i = lo
      <4>1. lo <= i
        BY <2>1, <3>4
      <4>2. ~(lo \in 1..(i - 1))
        BY <2>1, <2>4, <3>4
      <4>. QED BY <4>1, <4>2, <2>4
    <3>. QED BY <3>2, <3>3, <3>4, <2>1, <2>4
  <2>5. CASE lo = n
    <3>1. ~(v < x[1] + eps)
      BY <2>2, <2>5, <1>0
    <3>2. \A i \in 1..(n - 1) : ~Fits(i)
      BY <2>1, <2>5, <1>0
    <3>. QED BY <3>1, <3>2, <2>5, <1>4 DEF ScanLow, FirstGap, Fits
  <2>. QED BY <2>3, <2>4, <2>5, <1>0, <1>1
<1>6. ScanHigh(x, v, eps) \in a..b
  <2>. DEFINE Fits(i) == v > x[i] - eps /\ v < x[i + 1]
  <2>1. \A i \in 1..(n - 1) : Fits(i) <=> i <= b /\ a <= i
    <3>. TAKE i \in 1..(n - 1)
    <3>1. i \in 1..n /\ i + 1 \in 1..n
      BY <1>0
    <3>2. v > x[i] - eps <=> i <= b
      BY <3>1, <1>3
    <3>3. v >= x[i + 1] <=> i + 1 <= a
      BY <3>1, <1>3
    <3>4. x[i + 1] \in Int
      BY <3>1, <1>3
    <3>. QED BY <3>2, <3>3, <3>4, <1>1
  <2>2. v > x[n] - eps <=> b = n
    <3>1. n \in 1..n
      BY <1>0
    <3>. QED BY <3>1, <1>1, <1>3
  <2>3. a <= b
    <3>1. CASE a = 0
      BY <3>1, <1>1
    <3>2. CASE a > 0
      <4>1. a \in 1..n /\ a \in Int
        BY <3>2, <1>0, <1>1
      <4>2. x[a] \in Int /\ v >= x[a]
        BY <4>1, <1>3
      <4>3. v > x[a] - eps
        BY <4>2
      <4>. QED BY <4>1, <4>3, <1>3
    <3>. QED BY <3>1, <3>2, <1>1
  <2>. HIDE DEF Fits
  <2>4. CASE b = n
    <3>1. ScanHigh(x, v, eps) = n
      BY <2>2, <2>4, <1>4 DEF ScanHigh
    <3>. QED BY <3>1, <2>4, <1>0, <1>1
  <2>5. CASE b # n /\ \E i \in 1..(n - 1) : Fits(i)
    <3>. DEFINE T == {i \in 1..(n - 1) : Fits(i)}
    <3>1. T \subseteq Nat /\ T # {}
      BY <2>5
    <3>. HIDE DEF T
    <3>2. PICK m \in T : \A k \in T : m <= k
      BY <3>1, Least
    <3>. USE DEF T
    <3>3. \A j \in 1..(m - 1) : ~Fits(j)
      BY <3>2, <1>0
    <3>4. ScanHigh(x, v, eps) = CHOOSE i \in 1..(n - 1) : Fits(i) /\ \A j \in 1..(i - 1) : ~Fits(j)
      BY <2>2, <2>5, <1>4 DEF ScanHigh, FirstGap, Fits
    <3>5. ScanHigh(x, v, eps) \in 1..(n - 1) /\ Fits(ScanHigh(x, v, eps))
      BY <3>3, <3>4
    <3>. HIDE DEF T
    <3>. QED BY <3>5, <2>1, <1>1
  <2>6. CASE b # n /\ ~\E i \in 1..(n - 1) : Fits(i)
    <3>1. ScanHigh(x, v, eps) = 0
      BY <2>2, <2>6, <1>4 DEF ScanHigh, FirstGap, Fits
    <3>2. a \notin 1..(n - 1)
      BY <2>1, <2>3, <2>6
    <3>. QED BY <3>1, <3>2, <2>3, <2>6, <1>0, <1>1
  <2>. QED BY <2>4, <2>5, <2>6
<1>. QED BY <1>5, <1>6 DEF x, lo, a, b

(* How many values lie in a range. *)
LEMMA CountOfRange ==
  ASSUME NEW seq \in Seq(Int), NEW a \in Int, NEW b \in Int, a <= b + 1
  PROVE  Count(seq, a..b) = Below(seq, b + 1) - Below(seq, a)
<1>. DEFINE D == 1..Len(seq)
            In == {i \in D : seq[i] \in a..b}
            Lower == {i \in D : seq[i] < a}
            Upto == {i \in D : seq[i] < b + 1}
<1>1. DOMAIN seq = D /\ \A i \in D : seq[i] \in Int
  OBVIOUS
<1>2. IsFiniteSet(D)
  <2>1. Len(seq) \in Int /\ 1 \in Int
    OBVIOUS
  <2>. QED BY <2>1, FS_Interval
<1>. HIDE DEF D
<1>3. IsFiniteSet(In) /\ IsFiniteSet(Lower)
  <2>1. In \in SUBSET D /\ Lower \in SUBSET D
    OBVIOUS
  <2>. HIDE DEF In, Lower
  <2>. QED BY <2>1, <1>2, FS_Subset
<1>4. Upto = Lower \cup In /\ Lower \cap In = {}
  BY <1>1
<1>5. /\ Count(seq, a..b) = Cardinality(In)
      /\ Below(seq, a) = Cardinality(Lower) /\ Below(seq, b + 1) = Cardinality(Upto)
  BY <1>1 DEF Count, Below
<1>. HIDE DEF In, Lower, Upto
<1>6. /\ Cardinality(Upto) = Cardinality(Lower) + Cardinality(In) - Cardinality(Lower \cap In)
      /\ Cardinality(Lower) \in Nat /\ Cardinality(In) \in Nat /\ Cardinality(Lower \cap In) = 0
  BY <1>3, <1>4, FS_Union, FS_CardinalityType, FS_EmptySet
<1>. QED BY <1>5, <1>6

(* How far the scan is from the reference. *)
LEMMA ScanNearReference ==
  ASSUME NEW older \in Seq(Int), NEW v \in Int, NEW eps \in Nat \ {0}, Len(older) > 0
  PROVE  ScanRank(Sort(older), v, eps)
           \in (ts_rank(older, v, eps) - Count(older, (v + 1)..(v + eps)))
               ..(ts_rank(older, v, eps) + Count(older, {v - eps}))
<1>. DEFINE low == ScanLow(Sort(older), v, eps)
            high == ScanHigh(Sort(older), v, eps)
            rank == ts_rank(older, v, eps)
            above == Count(older, (v + 1)..(v + eps))
            edge == Count(older, {v - eps})
            B(w) == Below(older, w)
<1>1. low = B(v - eps + 1) /\ high \in B(v + 1)..B(v + eps)
  BY RankByScan
<1>2. rank = B(v - eps) + B(v + eps + 1) + 2
  BY RankOfReference DEF MeanRank
<1>3. above = B(v + eps + 1) - B(v + 1)
  <2>1. v + 1 \in Int /\ v + eps \in Int /\ v + 1 <= v + eps + 1
    OBVIOUS
  <2>. QED BY <2>1, CountOfRange
<1>4. edge = B(v - eps + 1) - B(v - eps)
  <2>1. v - eps \in Int /\ v - eps <= v - eps + 1 /\ {v - eps} = (v - eps)..(v - eps)
    OBVIOUS
  <2>. QED BY <2>1, CountOfRange
<1>5. /\ B(v - eps) <= B(v - eps + 1) /\ B(v + eps) <= B(v + eps + 1)
      /\ \A w \in Int : B(w) \in Int
  <2>1. \A w \in Int : B(w) \in Int /\ B(w) <= B(w + 1)
    <3>. TAKE w \in Int
    <3>1. w <= w
      OBVIOUS
    <3>2. Below(older, w) <= Below(older, w + 1) /\ Below(older, w) \in 0..Len(older)
      BY <3>1, BelowNext, Zenon
    <3>. QED BY <3>2
  <2>2. v - eps \in Int /\ v + eps \in Int
    OBVIOUS
  <2>. HIDE DEF B
  <2>. QED BY <2>1, <2>2
<1>6. /\ B(v - eps) \in Int /\ B(v - eps + 1) \in Int /\ B(v + 1) \in Int
      /\ B(v + eps) \in Int /\ B(v + eps + 1) \in Int
  <2>1. v - eps \in Int /\ v - eps + 1 \in Int /\ v + 1 \in Int /\ v + eps \in Int /\ v + eps + 1 \in Int
    OBVIOUS
  <2>. HIDE DEF B
  <2>. QED BY <2>1, <1>5
<1>. DEFINE b1 == B(v - eps)
            b2 == B(v - eps + 1)
            b3 == B(v + 1)
            b4 == B(v + eps)
            b5 == B(v + eps + 1)
<1>7. /\ b1 \in Int /\ b2 \in Int /\ b3 \in Int /\ b4 \in Int /\ b5 \in Int
      /\ low = b2 /\ high \in b3..b4 /\ rank = b1 + b5 + 2
      /\ above = b5 - b3 /\ edge = b2 - b1 /\ b1 <= b2 /\ b4 <= b5
  BY <1>1, <1>2, <1>3, <1>4, <1>5, <1>6
<1>. HIDE DEF low, high, rank, above, edge, b1, b2, b3, b4, b5, B
<1>8. low + high + 2 \in (rank - above)..(rank + edge)
  BY <1>7
<1>. QED BY <1>8 DEF ScanRank, low, high, rank, above, edge

(* The equation of both searches: the result is where the sorted array is  *)
(* cut in two, between c and c + 1.                                         *)
Searches(S, begin, last, c) ==
  S = [part \in (begin..last) \X (begin..last) |->
         LET b == part[1]
             e == part[2]
             i == (b + e) \div 2
         IN  IF b >= e THEN Unset
             ELSE IF c < i THEN S[<<b, i>>]
             ELSE IF i + 1 <= c THEN S[<<i + 1, e>>]
             ELSE i]

(* The middle of a part lies in it, so both halves are smaller. *)
LEMMA Middle ==
  ASSUME NEW b \in Int, NEW e \in Int, b < e
  PROVE  (b + e) \div 2 \in b..(e - 1)
OBVIOUS

(* There is a function that satisfies the equation. *)
LEMMA SearchExists ==
  ASSUME NEW begin \in Int, NEW last \in Int, NEW c \in Int
  PROVE  \E S : Searches(S, begin, last, c)
<1>. DEFINE D == begin..last
            S == [part \in D \X D |-> IF part[1] <= c /\ c < part[2] THEN c ELSE Unset]
<1>1. ASSUME NEW b \in D, NEW e \in D
      PROVE  S[<<b, e>>] = LET i == (b + e) \div 2
                       IN  IF b >= e THEN Unset
                           ELSE IF c < i THEN S[<<b, i>>]
                           ELSE IF i + 1 <= c THEN S[<<i + 1, e>>]
                           ELSE i
  <2>. DEFINE i == (b + e) \div 2
  <2>. SUFFICES S[<<b, e>>] = IF b >= e THEN Unset
                              ELSE IF c < i THEN S[<<b, i>>]
                              ELSE IF i + 1 <= c THEN S[<<i + 1, e>>]
                              ELSE i
    OBVIOUS
  <2>1. S[<<b, e>>] = IF b <= c /\ c < e THEN c ELSE Unset
    OBVIOUS
  <2>2. CASE b >= e
    BY <2>1, <2>2
  <2>3. CASE b < e
    <3>1. i \in b..(e - 1) /\ b \in Int /\ e \in Int
      BY <2>3, Middle
    <3>. HIDE DEF i
    <3>2. i \in D /\ i + 1 \in D
      BY <3>1
    <3>3. S[<<b, i>>] = IF b <= c /\ c < i THEN c ELSE Unset
      BY <3>2
    <3>4. S[<<i + 1, e>>] = IF i + 1 <= c /\ c < e THEN c ELSE Unset
      BY <3>2
    <3>. HIDE DEF S, D
    <3>5. CASE c < i
      <4>1. b <= c /\ c < e <=> b <= c /\ c < i
        BY <3>1, <3>5
      <4>. QED BY <4>1, <2>1, <2>3, <3>1, <3>3, <3>5
    <3>6. CASE ~(c < i) /\ i + 1 <= c
      <4>1. b <= c /\ c < e <=> i + 1 <= c /\ c < e
        BY <3>1, <3>6
      <4>. QED BY <4>1, <2>1, <2>3, <3>1, <3>4, <3>6
    <3>7. CASE ~(c < i) /\ ~(i + 1 <= c)
      <4>1. c = i
        BY <3>1, <3>7
      <4>2. b <= c /\ c < e
        BY <4>1, <3>1
      <4>. QED BY <4>1, <4>2, <2>1, <2>3, <3>1, <3>7
    <3>. QED BY <3>5, <3>6, <3>7
  <2>. QED BY <2>2, <2>3
<1>2. Searches(S, begin, last, c)
  BY <1>1 DEF Searches
<1>. QED BY <1>2

(* Whatever satisfies the equation finds the cut: by induction on the width *)
(* of the part that is searched.                                            *)
LEMMA SearchFinds ==
  ASSUME NEW begin \in Int, NEW last \in Int, NEW c \in Int,
         NEW S, Searches(S, begin, last, c),
         begin <= c, c < last
  PROVE  S[<<begin, last>>] = c
<1>. DEFINE D == begin..last
            Wide(w) == \E b \in D, e \in D : w = e - b /\ b <= c /\ c < e /\ S[<<b, e>>] # c
            W == {w \in Nat : Wide(w)}
<1>1. SUFFICES ASSUME S[<<begin, last>>] # c PROVE FALSE
  OBVIOUS
<1>2. last - begin \in W
  <2>1. begin \in D /\ last \in D /\ last - begin \in Nat
    OBVIOUS
  <2>. QED BY <2>1, <1>1
<1>3. PICK w \in W : \A k \in W : w <= k
  <2>. HIDE DEF Wide
  <2>1. W \subseteq Nat
    OBVIOUS
  <2>. HIDE DEF W
  <2>. QED BY <1>2, <2>1, Least
<1>4. PICK b \in D, e \in D : w = e - b /\ b <= c /\ c < e /\ S[<<b, e>>] # c
  OBVIOUS
<1>. DEFINE i == (b + e) \div 2
<1>5. i \in b..(e - 1)
  <2>1. b \in Int /\ e \in Int /\ b < e
    BY <1>4
  <2>. QED BY <2>1, Middle
<1>6. S[<<b, e>>] = IF b >= e THEN Unset
                ELSE IF c < i THEN S[<<b, i>>]
                ELSE IF i + 1 <= c THEN S[<<i + 1, e>>]
                ELSE i
  BY DEF Searches
<1>. HIDE DEF i
<1>7. i \in D /\ i + 1 \in D
  BY <1>5
<1>8. CASE c < i
  <2>1. S[<<b, i>>] # c
    BY <1>4, <1>6, <1>8
  <2>2. i - b \in W
    <3>1. i - b \in Nat
      BY <1>5
    <3>2. Wide(i - b)
      BY <1>4, <1>7, <1>8, <2>1
    <3>. QED BY <3>1, <3>2
  <2>3. w <= i - b
    BY <1>3, <2>2
  <2>. QED BY <2>3, <1>4, <1>5
<1>9. CASE ~(c < i) /\ i + 1 <= c
  <2>1. S[<<i + 1, e>>] # c
    BY <1>4, <1>6, <1>9
  <2>2. e - (i + 1) \in W
    <3>1. e - (i + 1) \in Nat
      BY <1>5
    <3>2. Wide(e - (i + 1))
      BY <1>4, <1>7, <1>9, <2>1
    <3>. QED BY <3>1, <3>2
  <2>3. w <= e - (i + 1)
    BY <1>3, <2>2
  <2>. QED BY <2>3, <1>4, <1>5
<1>10. CASE ~(c < i) /\ ~(i + 1 <= c)
  <2>1. c = i
    BY <1>10, <1>5
  <2>2. S[<<b, e>>] = i
    BY <1>4, <1>6, <1>10
  <2>. QED BY <2>1, <2>2, <1>4
<1>. QED BY <1>8, <1>9, <1>10

(* The two sentinels lie below and above every value. *)
LEMMA BelowWithSentinels ==
  ASSUME NEW older \in Seq(Int), NEW v \in Int, NEW sentinel \in Int,
         -sentinel < v, v <= sentinel
  PROVE  /\ older \o <<sentinel, -sentinel>> \in Seq(Int)
         /\ Len(older \o <<sentinel, -sentinel>>) = Len(older) + 2
         /\ Below(older \o <<sentinel, -sentinel>>, v) = Below(older, v) + 1
<1>. DEFINE one == Append(older, sentinel)
            seq == Append(one, -sentinel)
<1>1. older \o <<sentinel, -sentinel>> = seq
  OBVIOUS
<1>2. -sentinel \in Int /\ ~(sentinel < v)
  OBVIOUS
<1>3. one \in Seq(Int) /\ Below(one, v) = Below(older, v) + 0
  BY <1>2, BelowAppend
<1>4. Len(seq) = Len(older) + 2
  OBVIOUS
<1>5. Below(older, v) \in Int
  BY BelowNext
<1>. HIDE DEF one
<1>6. seq \in Seq(Int) /\ Below(seq, v) = Below(one, v) + 1
  BY <1>2, <1>3, BelowAppend
<1>. HIDE DEF seq
<1>7. Below(seq, v) = Below(older, v) + 1
  BY <1>3, <1>5, <1>6
<1>. QED BY <1>1, <1>4, <1>6, <1>7, Zenon

LEMMA AwayFromEdge ==
  ASSUME NEW y \in Int, NEW v \in Int, NEW eps \in Int, y # v - eps
  PROVE  v < y + eps <=> ~(y < v - eps)
OBVIOUS

(* What the bisection of L2f9, L2p2 and rank_2 returns, when no value lies  *)
(* just at the tolerance.                                                   *)
LEMMA RankByBisection ==
  ASSUME NEW older \in Seq(Int), NEW v \in Int, NEW eps \in Nat, NEW sentinel \in Int,
         -sentinel < v - eps, v + eps < sentinel,
         \A i \in DOMAIN older : older[i] # v - eps /\ older[i] # v + eps
  PROVE  BisectRank(older, v, eps, sentinel) = MeanRank(older, v, eps)
<1>. DEFINE n == Len(older) + 2
            seq == older \o <<sentinel, -sentinel>>
            sorted == Sort(seq)
            x == [i \in 0..(n - 1) |-> sorted[i + 1]]
            bottom == v - eps
            top == v + eps
            lo == Below(older, bottom)
            hi == Below(older, top + 1)
            begin == IF lo = 0 THEN 0 ELSE lo - 1
<1>0. bottom \in Int /\ top \in Int /\ bottom <= top
  OBVIOUS
<1>1. lo \in 0..(n - 2) /\ hi \in 0..(n - 2) /\ lo <= hi /\ n \in Nat
  <2>1. lo \in 0..Len(older) /\ hi \in 0..Len(older) /\ lo <= hi
    <3>. HIDE DEF seq, sorted, x, begin, bottom, top
    <3>. QED BY <1>0, BelowNext, Zenon
  <2>. QED BY <2>1
<1>2. /\ seq \in Seq(Int) /\ Len(seq) = n
      /\ Below(seq, bottom) = lo + 1 /\ Below(seq, top + 1) = hi + 1
  <2>1. /\ top + 1 \in Int /\ -sentinel < top + 1 /\ top + 1 <= sentinel
        /\ -sentinel < bottom /\ bottom <= sentinel
    OBVIOUS
  <2>. HIDE DEF bottom, top
  <2>. QED BY <1>0, <2>1, BelowWithSentinels
<1>3. \A k \in 1..n : /\ sorted[k] \in Int
                      /\ sorted[k] < bottom <=> k <= lo + 1
                      /\ sorted[k] <= top <=> k <= hi + 1
                      /\ sorted[k] # bottom /\ sorted[k] # top
  <2>1. \A k \in 1..n : /\ sorted[k] \in Int
                        /\ sorted[k] < bottom <=> k <= lo + 1
                        /\ sorted[k] <= top <=> k <= hi + 1
    <3>. HIDE DEF seq, lo, hi, n, bottom, top
    <3>1. \A k \in 1..Len(seq) : /\ sorted[k] \in Int
                                 /\ sorted[k] < bottom <=> k <= Below(seq, bottom)
                                 /\ sorted[k] <= top <=> k <= Below(seq, top + 1)
      BY <1>0, <1>2, BelowNext, Zenon
    <3>. HIDE DEF sorted
    <3>. QED BY <1>2, <3>1
  <2>2. \A k \in 1..n : \E i \in 1..n : sorted[k] = seq[i]
    <3>1. \E p : Permutation(p, n) /\ sorted = [k \in 1..n |-> seq[p[k]]]
      <4>. HIDE DEF seq, n
      <4>. QED BY <1>2, SortPermutes
    <3>. HIDE DEF seq, sorted, n
    <3>2. PICK p : Permutation(p, n) /\ sorted = [k \in 1..n |-> seq[p[k]]]
      BY <3>1
    <3>3. \A k \in 1..n : p[k] \in 1..n /\ sorted[k] = seq[p[k]]
      BY <3>2 DEF Permutation
    <3>. QED BY <3>3
  <2>3. \A i \in 1..n : seq[i] # bottom /\ seq[i] # top
    <3>. TAKE i \in 1..n
    <3>1. CASE i \in 1..Len(older)
      <4>1. seq[i] = older[i]
        BY <3>1
      <4>. QED BY <3>1, <4>1
    <3>2. CASE i = Len(older) + 1
      <4>1. seq[i] = sentinel
        BY <3>2
      <4>. QED BY <4>1
    <3>3. CASE i = Len(older) + 2
      <4>1. seq[i] = -sentinel
        BY <3>3
      <4>. QED BY <4>1
    <3>. QED BY <3>1, <3>2, <3>3
  <2>. HIDE DEF seq, sorted, lo, hi, n, bottom, top
  <2>. QED BY <2>1, <2>2, <2>3
<1>4. \A i \in 0..(n - 1) : /\ x[i] \in Int
                            /\ x[i] < bottom <=> i <= lo
                            /\ x[i] <= top <=> i <= hi
                            /\ x[i] # bottom /\ x[i] # top
  <2>. HIDE DEF sorted, lo, hi, n, bottom, top
  <2>. TAKE i \in 0..(n - 1)
  <2>1. x[i] = sorted[i + 1] /\ i + 1 \in 1..n
    BY <1>1
  <2>. QED BY <2>1, <1>1, <1>3
<1>. HIDE DEF sorted, x, lo, hi, n, seq
<1>5. find_low(x, v, eps, 0, n) = lo
  <2>. DEFINE D == 0..(n - 1)
              Body(S, part) ==
                LET b == part[1]
                    e == part[2]
                    i == (b + e) \div 2
                IN  IF b >= e THEN Unset
                    ELSE IF NotAbove(v, x[i], eps) THEN S[<<b, i>>]
                    ELSE IF v > x[i + 1] + eps THEN S[<<i + 1, e>>]
                    ELSE i
              Search == CHOOSE S : S = [part \in D \X D |-> Body(S, part)]
  <2>1. find_low(x, v, eps, 0, n) = Search[<<0, n - 1>>]
    BY DEF find_low
  <2>2. \A S : Searches(S, 0, n - 1, lo) <=> S = [part \in D \X D |-> Body(S, part)]
    <3>. DEFINE Cut(S, part) ==
                  LET b == part[1]
                      e == part[2]
                      i == (b + e) \div 2
                  IN  IF b >= e THEN Unset
                      ELSE IF lo < i THEN S[<<b, i>>]
                      ELSE IF i + 1 <= lo THEN S[<<i + 1, e>>]
                      ELSE i
    <3>1. ASSUME NEW S, NEW part \in D \X D PROVE Cut(S, part) = Body(S, part)
      <4>. DEFINE b == part[1]
                  e == part[2]
                  i == (b + e) \div 2
      <4>1. b \in Int /\ e \in Int /\ b \in D /\ e \in D
        OBVIOUS
      <4>2. CASE b >= e
        BY <4>2
      <4>3. CASE b < e
        <5>1. i \in b..(e - 1)
          BY <4>1, <4>3, Middle
        <5>. HIDE DEF i, b, e
        <5>2. i \in D /\ i + 1 \in D
          BY <4>1, <5>1, <1>1
        <5>3. NotAbove(v, x[i], eps) <=> lo < i
          <6>1. x[i] \in Int /\ (x[i] < v - eps <=> i <= lo) /\ x[i] # v - eps
            BY <5>2, <1>4
          <6>2. v < x[i] + eps <=> ~(x[i] < v - eps)
            <7>1. eps \in Int
              OBVIOUS
            <7>. QED BY <6>1, <7>1, AwayFromEdge, Zenon
          <6>. QED BY <6>1, <6>2, <5>2, <1>1 DEF NotAbove
        <5>4. v > x[i + 1] + eps <=> i + 1 <= lo
          <6>1. x[i + 1] \in Int /\ (x[i + 1] < v - eps <=> i + 1 <= lo)
            BY <5>2, <1>4
          <6>. QED BY <6>1
        <5>. QED BY <5>3, <5>4 DEF i, b, e
      <4>. QED BY <4>1, <4>2, <4>3
    <3>. HIDE DEF Body
    <3>2. \A S : [part \in D \X D |-> Cut(S, part)] = [part \in D \X D |-> Body(S, part)]
      BY <3>1
    <3>. QED BY <3>2 DEF Searches
  <2>3. \E S : Searches(S, 0, n - 1, lo)
    <3>1. 0 \in Int /\ n - 1 \in Int /\ lo \in Int
      BY <1>1
    <3>. QED BY <3>1, SearchExists
  <2>. HIDE DEF Body
  <2>4. Searches(Search, 0, n - 1, lo)
    BY <2>2, <2>3
  <2>. HIDE DEF Search
  <2>5. Search[<<0, n - 1>>] = lo
    <3>1. 0 \in Int /\ n - 1 \in Int /\ lo \in Int /\ 0 <= lo /\ lo < n - 1
      BY <1>1
    <3>. QED BY <3>1, <2>4, SearchFinds
  <2>. QED BY <2>1, <2>5
<1>6. find_high(x, v, eps, begin, n) = hi
  <2>. DEFINE D == begin..(n - 1)
              Body(S, part) ==
                LET b == part[1]
                    e == part[2]
                    i == (b + e) \div 2
                IN  IF b >= e THEN Unset
                    ELSE IF v > x[i + 1] - eps THEN S[<<i + 1, e>>]
                    ELSE IF v < x[i] - eps THEN S[<<b, i>>]
                    ELSE i
              Search == CHOOSE S : S = [part \in D \X D |-> Body(S, part)]
  <2>0. begin \in 0..hi
    BY <1>1
  <2>1. find_high(x, v, eps, begin, n) = Search[<<begin, n - 1>>]
    BY DEF find_high
  <2>. HIDE DEF begin
  <2>2. \A S : Searches(S, begin, n - 1, hi) <=> S = [part \in D \X D |-> Body(S, part)]
    <3>. DEFINE Cut(S, part) ==
                  LET b == part[1]
                      e == part[2]
                      i == (b + e) \div 2
                  IN  IF b >= e THEN Unset
                      ELSE IF hi < i THEN S[<<b, i>>]
                      ELSE IF i + 1 <= hi THEN S[<<i + 1, e>>]
                      ELSE i
    <3>1. ASSUME NEW S, NEW part \in D \X D PROVE Cut(S, part) = Body(S, part)
      <4>. DEFINE b == part[1]
                  e == part[2]
                  i == (b + e) \div 2
      <4>1. b \in Int /\ e \in Int /\ b \in D /\ e \in D
        OBVIOUS
      <4>2. CASE b >= e
        BY <4>2
      <4>3. CASE b < e
        <5>1. i \in b..(e - 1)
          BY <4>1, <4>3, Middle
        <5>. HIDE DEF i, b, e
        <5>2. i \in 0..(n - 1) /\ i + 1 \in 0..(n - 1)
          BY <4>1, <5>1, <2>0, <1>1
        <5>3. v < x[i] - eps <=> hi < i
          <6>1. x[i] \in Int /\ (x[i] <= v + eps <=> i <= hi)
            BY <5>2, <1>4
          <6>. QED BY <6>1, <5>2, <1>1
        <5>4. v > x[i + 1] - eps <=> i + 1 <= hi
          <6>1. x[i + 1] \in Int /\ (x[i + 1] <= v + eps <=> i + 1 <= hi) /\ x[i + 1] # v + eps
            BY <5>2, <1>4
          <6>. QED BY <6>1
        <5>5. ~(hi < i /\ i + 1 <= hi)
          BY <5>2, <1>1
        <5>. QED BY <5>3, <5>4, <5>5 DEF i, b, e
      <4>. QED BY <4>1, <4>2, <4>3
    <3>. HIDE DEF Body
    <3>2. \A S : [part \in D \X D |-> Cut(S, part)] = [part \in D \X D |-> Body(S, part)]
      BY <3>1
    <3>. QED BY <3>2 DEF Searches
  <2>3. \E S : Searches(S, begin, n - 1, hi)
    <3>1. begin \in Int /\ n - 1 \in Int /\ hi \in Int
      BY <2>0, <1>1
    <3>. QED BY <3>1, SearchExists
  <2>. HIDE DEF Body
  <2>4. Searches(Search, begin, n - 1, hi)
    BY <2>2, <2>3
  <2>. HIDE DEF Search
  <2>5. Search[<<begin, n - 1>>] = hi
    <3>1. begin \in Int /\ n - 1 \in Int /\ hi \in Int /\ begin <= hi /\ hi < n - 1
      BY <2>0, <1>1
    <3>. QED BY <3>1, <2>4, SearchFinds
  <2>. QED BY <2>1, <2>5
<1>7. BisectRank(older, v, eps, sentinel) = lo + hi + 2
  <2>1. lo # Unset /\ hi # Unset
    BY <1>1 DEF Unset
  <2>. QED BY <2>1, <1>5, <1>6 DEF BisectRank, n, seq, sorted, x
<1>. QED BY <1>7 DEF MeanRank, lo, hi

----------------------------------------------------------------------------
(* What is ranked, and what is divided, are values of the books. *)

LEMMA BookValues ==
  ASSUME NEW book \in Books
  PROVE  /\ Lots(book) \in Nat \ {0}
         /\ Sum(book.vol["bid"]) - Sum(book.vol["ask"]) \in Int
         /\ \A units \in Int : ADI(book, units) \in Int
         /\ Sentinel \in Int
         /\ -Sentinel < pa(book) - 1 /\ pa(book) + 1 < Sentinel
         /\ -Sentinel < pb(book) - 1 /\ pb(book) + 1 < Sentinel
         /\ \E m \in Int : pa(book) = 2 * m
         /\ \E m \in Int : pb(book) = 2 * m
<1>1. book \in [price : [Sides -> [Levels -> Nat]], vol : [Sides -> [Levels -> Nat]]]
  BY BooksAssumption
<1>2. {"bid", "ask"} = Sides /\ {1, 2, 3, 4, 5} = Levels
  BY DEF Sides, Levels
<1>. DEFINE a == Sum(book.vol["ask"])
            b == Sum(book.vol["bid"])
<1>3. a \in Int /\ b \in Int
  <2>1. \A side \in Sides : \A i \in Levels : book.vol[side][i] \in Nat
    BY <1>1
  <2>. QED BY <1>2, <2>1 DEF Sum
<1>4. Lots(book) = b + a /\ Lots(book) > 0
  BY BooksAssumption DEF Lots
<1>5. Lots(book) \in Nat \ {0} /\ b - a \in Int
  <2>. HIDE DEF a, b
  <2>. QED BY <1>3, <1>4
<1>6. ASSUME NEW units \in Int
      PROVE  ADI(book, units) \in Int
  <2>. DEFINE diff == units * (b - a)
  <2>1. ADI(book, units) = diff \div Lots(book)
    BY Zenon DEF ADI
  <2>. HIDE DEF a, b
  <2>2. diff \in Int
    BY <1>3, SMT
  <2>. HIDE DEF diff
  <2>. QED BY <1>5, <2>1, <2>2
<1>7. (\E m \in Int : pa(book) = 2 * m) /\ (\E m \in Int : pb(book) = 2 * m)
  <2>. DEFINE ask1 == book.price["ask"][1]
              ask5 == book.price["ask"][5]
              bid1 == book.price["bid"][1]
              bid5 == book.price["bid"][5]
  <2>1. ask1 \in Int /\ ask5 \in Int /\ bid1 \in Int /\ bid5 \in Int
    <3>1. \A side \in Sides : \A i \in Levels : book.price[side][i] \in Int
      BY <1>1
    <3>. QED BY <1>2, <3>1
  <2>2. pa(book) = 4 * ask5 - 2 * (ask1 + bid1) /\ pb(book) = 2 * (ask1 + bid1) - 4 * bid5
    BY Zenon DEF pa, pb
  <2>. HIDE DEF ask1, ask5, bid1, bid5
  <2>3. pa(book) = 2 * (2 * ask5 - (ask1 + bid1)) /\ pb(book) = 2 * (ask1 + bid1 - 2 * bid5)
    BY <2>1, <2>2
  <2>4. 2 * ask5 - (ask1 + bid1) \in Int /\ ask1 + bid1 - 2 * bid5 \in Int
    BY <2>1
  <2>. QED BY <2>3, <2>4
<1>8. pa(book) \in (2 - Sentinel)..(Sentinel - 2) /\ pb(book) \in (2 - Sentinel)..(Sentinel - 2)
  BY BooksAssumption
<1>9. Sentinel \in Int
  BY SMT DEF Sentinel
<1>10. /\ -Sentinel < pa(book) - 1 /\ pa(book) + 1 < Sentinel
       /\ -Sentinel < pb(book) - 1 /\ pb(book) + 1 < Sentinel
  BY <1>8, <1>9
<1>. QED BY <1>5, <1>6, <1>7, <1>9, <1>10

LEMMA ProductPositive ==
  ASSUME NEW k \in Nat \ {0}, NEW l \in Nat \ {0}
  PROVE  k * l \in Nat \ {0}
OBVIOUS

(* The three older ADI and the new one, and their tolerance, are integers. *)
OlderADI == [i \in 1..3 |-> RankedADI(books[Window - 1 - 3 + i])]

LEMMA RankedValues ==
  ASSUME TypeOK
  PROVE  /\ Window \in Nat /\ Window > 3
         /\ \A i \in 1..Window : books[i] \in Books
         /\ Tolerance \in Nat \ {0} /\ Precision \in Nat \ {0}
         /\ RankedADI(books[Window]) \in Int
         /\ OlderADI \in Seq(Int) /\ Len(OlderADI) = 3 /\ DOMAIN OlderADI = 1..3
         /\ \A i \in 1..3 : OlderADI[i] = RankedADI(books[Window - 4 + i])
<1>1. books \in [1..Window -> Books] /\ Window \in Nat /\ Window > 3 /\ Precision \in Nat \ {0}
  BY FastIC1Assumption DEF TypeOK
<1>2. \A i \in 1..Window : books[i] \in Books
  BY <1>1
<1>3. /\ Window - 3 \in 1..Window /\ Window - 2 \in 1..Window
      /\ Window - 1 \in 1..Window /\ Window \in 1..Window
  BY <1>1
<1>4. Tolerance \in Nat \ {0}
  <2>1. \A i \in 1..Window : Lots(books[i]) \in Nat \ {0}
    BY <1>2, BookValues
  <2>. QED BY <1>3, <2>1, ProductPositive DEF Tolerance
<1>5. \A i \in 1..Window : RankedADI(books[i]) \in Int
  <2>. TAKE i \in 1..Window
  <2>1. Precision * Tolerance \in Int
    BY <1>1, <1>4
  <2>2. \A units \in Int : ADI(books[i], units) \in Int
    BY <1>2, BookValues
  <2>. QED BY <2>1, <2>2 DEF RankedADI
<1>6. \A i \in 1..3 : Window - 1 - 3 + i = Window - 4 + i /\ Window - 4 + i \in 1..Window
  BY <1>1
<1>7. OlderADI = [i \in 1..3 |-> RankedADI(books[Window - 4 + i])]
  BY <1>6 DEF OlderADI
<1>8. \A i \in 1..3 : OlderADI[i] = RankedADI(books[Window - 4 + i]) /\ OlderADI[i] \in Int
  BY <1>5, <1>6, <1>7
<1>9. OlderADI \in Seq(Int) /\ Len(OlderADI) = 3 /\ DOMAIN OlderADI = 1..3
  <2>1. OlderADI = [i \in 1..3 |-> OlderADI[i]]
    BY DEF OlderADI
  <2>. QED BY <2>1, <1>8
<1>10. RankedADI(books[Window]) \in Int
  BY <1>3, <1>5
<1>. QED BY <1>1, <1>2, <1>4, <1>8, <1>9, <1>10

(* The rank by bisection, of values that are whole half ticks apart. *)
LEMMA HalfTicksRankAlike ==
  ASSUME NEW old \in Seq(Int), NEW v \in Int,
         -Sentinel < v - 1, v + 1 < Sentinel,
         \E m \in Int : v = 2 * m,
         \A i \in DOMAIN old : \E m \in Int : old[i] = 2 * m
  PROVE  BisectRank(old, v, QuarterTick, Sentinel) = ts_rank(old, v, QuarterTick)
<1>1. QuarterTick \in Nat /\ QuarterTick = 1
  BY DEF QuarterTick
<1>2. \A i \in DOMAIN old : old[i] # v - QuarterTick /\ old[i] # v + QuarterTick
  <2>. TAKE i \in DOMAIN old
  <2>1. PICK m \in Int : old[i] = 2 * m
    OBVIOUS
  <2>2. PICK k \in Int : v = 2 * k
    OBVIOUS
  <2>. QED BY <2>1, <2>2, <1>1
<1>3. -Sentinel < v - QuarterTick /\ v + QuarterTick < Sentinel /\ Sentinel \in Int
  <2>1. Sentinel \in Int
    BY SMT DEF Sentinel
  <2>. QED BY <2>1, <1>1
<1>4. BisectRank(old, v, QuarterTick, Sentinel) = MeanRank(old, v, QuarterTick)
  BY <1>1, <1>2, <1>3, RankByBisection
<1>5. ts_rank(old, v, QuarterTick) = MeanRank(old, v, QuarterTick)
  BY <1>1, RankOfReference
<1>. QED BY <1>4, <1>5

(* Two fractions with small denominators k and l are equal, or differ by     *)
(* more than 1 / p.                                                         *)
LEMMA FractionsApart ==
  ASSUME NEW p \in Nat, NEW k \in Nat \ {0}, NEW l \in Nat \ {0}, NEW r \in Nat \ {0},
         NEW s \in Int, NEW t \in Int, k * l < p
  PROVE  LET x == p * (r * l) * s
             y == p * (r * k) * t
         IN  x = y \/ x > y + (k * l) * r \/ y > x + (k * l) * r
<1>. DEFINE d == l * s - k * t
            unit == p * r
            tolerance == (k * l) * r
            x == p * (r * l) * s
            y == p * (r * k) * t
<1>1. k * l \in Nat /\ d \in Int /\ unit \in Int /\ tolerance \in Int /\ x \in Int /\ y \in Int
  <2>1. k * l \in Nat /\ l * s \in Int /\ k * t \in Int /\ p * r \in Int
    OBVIOUS
  <2>2. tolerance \in Int
    BY <2>1
  <2>3. r * l \in Int /\ r * k \in Int
    OBVIOUS
  <2>4. p * (r * l) \in Int /\ p * (r * k) \in Int
    BY <2>3
  <2>. QED BY <2>1, <2>2, <2>4
<1>2. unit > tolerance
  <2>. DEFINE kl == k * l
  <2>1. kl \in Nat /\ kl < p
    BY <1>1
  <2>. HIDE DEF kl
  <2>2. p * r > kl * r
    BY <2>1
  <2>. QED BY <2>2 DEF kl
<1>3. x - y = unit * d
  OBVIOUS
<1>4. unit > 0 /\ tolerance > 0
  <2>1. tolerance > 0
    BY ProductPositive
  <2>. HIDE DEF tolerance, unit
  <2>. QED BY <2>1, <1>1, <1>2
<1>. HIDE DEF d, unit, tolerance, x, y
<1>5. d = 0 => unit * d = 0
  BY <1>1
<1>6. d > 0 => unit * d >= unit
  BY <1>1, <1>4
<1>7. d < 0 => unit * d <= -unit
  BY <1>1, <1>4
<1>8. x = y \/ x > y + tolerance \/ y > x + tolerance
  <2>. DEFINE prod == unit * d
  <2>1. prod \in Int
    BY <1>1
  <2>. HIDE DEF prod
  <2>2. x - y = prod /\ (d = 0 => prod = 0) /\ (d > 0 => prod >= unit) /\ (d < 0 => prod <= -unit)
    BY <1>3, <1>5, <1>6, <1>7 DEF prod
  <2>. QED BY <2>1, <2>2, <1>1, <1>2, <1>4
<1>. QED BY <1>8 DEF tolerance, x, y

(* Dividing by k undoes multiplying by it. *)
LEMMA Quotient ==
  ASSUME NEW a \in Int, NEW k \in Nat \ {0}
  PROVE  (a * k) \div k = a
<1>. DEFINE q == (a * k) \div k
            rest == (a * k) % k
<1>1. a * k \in Int /\ q \in Int /\ rest \in 0..(k - 1) /\ a * k = k * q + rest
  OBVIOUS
<1>. HIDE DEF q, rest
<1>2. k * (a - q) = rest
  BY <1>1
<1>3. a - q > 0 => k * (a - q) >= k
  BY <1>1
<1>4. a - q < 0 => k * (a - q) <= -k
  BY <1>1
<1>5. a - q = 0
  <2>. DEFINE prod == k * (a - q)
  <2>1. prod = rest /\ (a - q > 0 => prod >= k) /\ (a - q < 0 => prod <= -k)
    BY <1>2, <1>3, <1>4
  <2>. HIDE DEF prod
  <2>. QED BY <1>1, <2>1
<1>6. q = a
  BY <1>1, <1>5
<1>. QED BY <1>6 DEF q

(* The bisection finds the rank of the reference, and the scan one close to  *)
(* it.                                                                      *)
LEMMA RanksOfBooks ==
  ASSUME TypeOK
  PROVE  RanksAgree
<1>. DEFINE adi == OlderADI
            new == books[Window]
            val == RankedADI(new)
            rank == ts_rank(adi, val, Tolerance)
            index(i) == Window - 1 - (Window - 1) + i
            oldPa == [i \in 1..(Window - 1) |-> pa(books[index(i)])]
            oldPb == [i \in 1..(Window - 1) |-> pb(books[index(i)])]
<1>1. ScanRank(Sort(adi), val, Tolerance)
        \in (rank - Count(adi, (val + 1)..(val + Tolerance)))..(rank + Count(adi, {val - Tolerance}))
  <2>1. adi \in Seq(Int) /\ Len(adi) > 0 /\ val \in Int /\ Tolerance \in Nat \ {0}
    <3>1. adi \in Seq(Int) /\ Len(adi) = 3 /\ val \in Int /\ Tolerance \in Nat \ {0}
      BY RankedValues, Zenon
    <3>. QED BY <3>1
  <2>. HIDE DEF adi, val
  <2>. QED BY <2>1, ScanNearReference
<1>2. Window \in Nat /\ new \in Books /\ \A i \in 1..(Window - 1) : books[index(i)] \in Books
  <2>1. Window \in Nat /\ Window > 3 /\ \A i \in 1..Window : books[i] \in Books
    BY RankedValues
  <2>2. \A i \in 1..(Window - 1) : index(i) \in 1..Window
    BY <2>1
  <2>. HIDE DEF index
  <2>. QED BY <2>1, <2>2
<1>. HIDE DEF index, new
<1>3. BisectRank(oldPa, pa(new), QuarterTick, Sentinel) = ts_rank(oldPa, pa(new), QuarterTick)
  <2>1. \A i \in 1..(Window - 1) : \E m \in Int : pa(books[index(i)]) = 2 * m
    BY <1>2, BookValues
  <2>2. oldPa \in Seq(Int) /\ DOMAIN oldPa = 1..(Window - 1)
    BY <2>1, <1>2
  <2>3. \A i \in DOMAIN oldPa : \E m \in Int : oldPa[i] = 2 * m
    BY <2>1, <2>2
  <2>4. /\ -Sentinel < pa(new) - 1 /\ pa(new) + 1 < Sentinel
        /\ \E m \in Int : pa(new) = 2 * m
    BY <1>2, BookValues
  <2>5. pa(new) \in Int
    BY <2>4
  <2>. HIDE DEF oldPa
  <2>. QED BY <2>2, <2>3, <2>4, <2>5, HalfTicksRankAlike
<1>4. BisectRank(oldPb, pb(new), QuarterTick, Sentinel) = ts_rank(oldPb, pb(new), QuarterTick)
  <2>1. \A i \in 1..(Window - 1) : \E m \in Int : pb(books[index(i)]) = 2 * m
    BY <1>2, BookValues
  <2>2. oldPb \in Seq(Int) /\ DOMAIN oldPb = 1..(Window - 1)
    BY <2>1, <1>2
  <2>3. \A i \in DOMAIN oldPb : \E m \in Int : oldPb[i] = 2 * m
    BY <2>1, <2>2
  <2>4. /\ -Sentinel < pb(new) - 1 /\ pb(new) + 1 < Sentinel
        /\ \E m \in Int : pb(new) = 2 * m
    BY <1>2, BookValues
  <2>5. pb(new) \in Int
    BY <2>4
  <2>. HIDE DEF oldPb
  <2>. QED BY <2>2, <2>3, <2>4, <2>5, HalfTicksRankAlike
<1>. QED BY <1>1, <1>3, <1>4, Zenon DEF RanksAgree, Older, OlderADI, index, new

LEMMA RankedADIOfBook ==
  ASSUME NEW book \in Books, Precision \in Nat, NEW rest \in Nat,
         Tolerance = Lots(book) * rest
  PROVE  RankedADI(book) = Precision * rest * (Sum(book.vol["bid"]) - Sum(book.vol["ask"]))
<1>. DEFINE k == Lots(book)
            diff == Sum(book.vol["bid"]) - Sum(book.vol["ask"])
            a == Precision * rest * diff
<1>1. k \in Nat \ {0} /\ diff \in Int
  BY BookValues
<1>2. RankedADI(book) = ((Precision * (k * rest)) * diff) \div k
  BY Zenon DEF RankedADI, ADI
<1>. HIDE DEF k, diff
<1>3. (Precision * (k * rest)) * diff = a * k /\ a \in Int
  <2>1. Precision * rest \in Int
    OBVIOUS
  <2>. QED BY <1>1, <2>1
<1>. HIDE DEF a
<1>4. RankedADI(book) = a
  BY <1>1, <1>2, <1>3, Quotient
<1>. QED BY <1>4 DEF a, diff

LEMMA ThinBooksApart ==
  ASSUME NEW b \in Books, NEW c \in Books, Precision \in Nat, NEW r \in Nat \ {0},
         Tolerance = (Lots(b) * Lots(c)) * r, Lots(b) * Lots(c) < Precision
  PROVE  \/ RankedADI(b) = RankedADI(c)
         \/ RankedADI(b) > RankedADI(c) + Tolerance
         \/ RankedADI(c) > RankedADI(b) + Tolerance
<1>. DEFINE k == Lots(b)
            l == Lots(c)
            s == Sum(b.vol["bid"]) - Sum(b.vol["ask"])
            t == Sum(c.vol["bid"]) - Sum(c.vol["ask"])
<1>1. k \in Nat \ {0} /\ l \in Nat \ {0} /\ s \in Int /\ t \in Int
  BY BookValues
<1>2. RankedADI(b) = Precision * (r * l) * s
  <2>1. r * l \in Nat /\ Tolerance = Lots(b) * (r * l)
    BY <1>1
  <2>. QED BY <2>1, RankedADIOfBook
<1>3. RankedADI(c) = Precision * (r * k) * t
  <2>1. r * k \in Nat /\ Tolerance = Lots(c) * (r * k)
    BY <1>1
  <2>. QED BY <2>1, RankedADIOfBook
<1>. HIDE DEF k, l, s, t
<1>4. k * l < Precision /\ Tolerance = (k * l) * r
  BY DEF k, l
<1>. QED BY <1>1, <1>2, <1>3, <1>4, FractionsApart, Zenon

(* When no two fractions differ by so little, the scan finds the rank of the *)
(* reference.                                                               *)
LEMMA ThinBooksScanAlike ==
  ASSUME TypeOK, \A b, c \in Books : Lots(b) * Lots(c) < Precision
  PROVE  L2a2MatchesReference
<1>. DEFINE adi == OlderADI
            val == RankedADI(books[Window])
            rank == ts_rank(adi, val, Tolerance)
<1>1. /\ adi \in Seq(Int) /\ Len(adi) = 3 /\ DOMAIN adi = 1..3
      /\ val \in Int /\ Tolerance \in Nat \ {0} /\ Precision \in Nat
      /\ \A i \in 1..3 : adi[i] = RankedADI(books[Window - 4 + i])
  <2>1. Precision \in Nat \ {0}
    BY RankedValues, Zenon
  <2>2. Precision \in Nat
    BY <2>1
  <2>. QED BY <2>2, RankedValues, Zenon
<1>2. \A i \in 1..3 : adi[i] = val \/ adi[i] > val + Tolerance \/ val > adi[i] + Tolerance
  <2>. DEFINE l1 == Lots(books[Window - 3])
              l2 == Lots(books[Window - 2])
              l3 == Lots(books[Window - 1])
              l4 == Lots(books[Window])
  <2>1. /\ books[Window - 3] \in Books /\ books[Window - 2] \in Books
        /\ books[Window - 1] \in Books /\ books[Window] \in Books
    <3>1. Window \in Nat /\ Window > 3 /\ \A i \in 1..Window : books[i] \in Books
      BY RankedValues
    <3>2. /\ Window - 3 \in 1..Window /\ Window - 2 \in 1..Window
          /\ Window - 1 \in 1..Window /\ Window \in 1..Window
      BY <3>1
    <3>. QED BY <3>1, <3>2
  <2>2. l1 \in Nat \ {0} /\ l2 \in Nat \ {0} /\ l3 \in Nat \ {0} /\ l4 \in Nat \ {0}
    BY <2>1, BookValues
  <2>3. Tolerance = l1 * l2 * l3 * l4
    BY DEF Tolerance
  <2>4. l1 * l4 < Precision /\ l2 * l4 < Precision /\ l3 * l4 < Precision
    BY <2>1
  <2>5. /\ Window - 4 + 1 = Window - 3 /\ Window - 4 + 2 = Window - 2
        /\ Window - 4 + 3 = Window - 1
    BY FastIC1Assumption
  <2>6. adi[1] = val \/ adi[1] > val + Tolerance \/ val > adi[1] + Tolerance
    <3>1. l2 * l3 \in Nat \ {0}
      BY <2>2, ProductPositive
    <3>2. Tolerance = (l1 * l4) * (l2 * l3)
      <4>. HIDE DEF l1, l2, l3, l4
      <4>. QED BY <2>2, <2>3
    <3>3. adi[1] = RankedADI(books[Window - 3])
      BY <1>1, <2>5
    <3>. HIDE DEF adi
    <3>. QED BY <1>1, <2>1, <2>4, <3>1, <3>2, <3>3, ThinBooksApart, Zenon
  <2>7. adi[2] = val \/ adi[2] > val + Tolerance \/ val > adi[2] + Tolerance
    <3>1. l1 * l3 \in Nat \ {0}
      BY <2>2, ProductPositive
    <3>2. Tolerance = (l2 * l4) * (l1 * l3)
      <4>. HIDE DEF l1, l2, l3, l4
      <4>. QED BY <2>2, <2>3
    <3>3. adi[2] = RankedADI(books[Window - 2])
      BY <1>1, <2>5
    <3>. HIDE DEF adi
    <3>. QED BY <1>1, <2>1, <2>4, <3>1, <3>2, <3>3, ThinBooksApart, Zenon
  <2>8. adi[3] = val \/ adi[3] > val + Tolerance \/ val > adi[3] + Tolerance
    <3>1. l1 * l2 \in Nat \ {0}
      BY <2>2, ProductPositive
    <3>2. Tolerance = (l3 * l4) * (l1 * l2)
      <4>. HIDE DEF l1, l2, l3, l4
      <4>. QED BY <2>2, <2>3
    <3>3. adi[3] = RankedADI(books[Window - 1])
      BY <1>1, <2>5
    <3>. HIDE DEF adi
    <3>. QED BY <1>1, <2>1, <2>4, <3>1, <3>2, <3>3, ThinBooksApart, Zenon
  <2>. QED BY <2>6, <2>7, <2>8
<1>3. Count(adi, (val + 1)..(val + Tolerance)) = 0 /\ Count(adi, {val - Tolerance}) = 0
  <2>. HIDE DEF adi, val
  <2>1. \A i \in DOMAIN adi : adi[i] \in Int
    <3>1. adi \in Seq(Int)
      BY <1>1
    <3>. QED BY <3>1
  <2>2. {i \in DOMAIN adi : adi[i] \in (val + 1)..(val + Tolerance)} = {}
    BY <1>1, <1>2, <2>1
  <2>3. {i \in DOMAIN adi : adi[i] \in {val - Tolerance}} = {}
    BY <1>1, <1>2, <2>1
  <2>. QED BY <2>2, <2>3, FS_EmptySet DEF Count
<1>4. ScanRank(Sort(adi), val, Tolerance) = rank
  <2>1. ScanRank(Sort(adi), val, Tolerance)
          \in (rank - Count(adi, (val + 1)..(val + Tolerance)))..(rank + Count(adi, {val - Tolerance}))
    <3>1. Len(adi) > 0
      BY <1>1
    <3>. HIDE DEF adi, val
    <3>. QED BY <1>1, <3>1, ScanNearReference
  <2>2. rank \in Int
    <3>. HIDE DEF adi, val
    <3>1. Tolerance \in Nat /\ val - Tolerance \in Int /\ val + Tolerance + 1 \in Int
      BY <1>1
    <3>2. \A w \in Int : Below(adi, w) \in 0..Len(adi)
      BY <1>1, SortedBelow
    <3>. QED BY <1>1, <3>1, <3>2, RankOfReference DEF MeanRank
  <2>. HIDE DEF adi, val, rank
  <2>. QED BY <1>3, <2>1, <2>2
<1>. QED BY <1>4, Zenon DEF L2a2MatchesReference, Older, OlderADI

(* The lowest and the highest price that the lots of a trade may have had.  *)
LEMMA LowestPrice ==
  Low \in Nat /\ High \in Nat
<1>1. TradePrices \subseteq Nat /\ TradePrices # {}
  BY BooksAssumption
<1>2. \E p \in TradePrices : \A q \in TradePrices : p <= q
  BY <1>1, Least
<1>3. \E p \in TradePrices : \A q \in TradePrices : p >= q
  BY BooksAssumption
<1>. QED BY <1>1, <1>2, <1>3 DEF Low, High

(* Every trade between two rows meets what CloseTradeIsDivided and          *)
(* NoSideBelowZero ask for.                                                 *)
LEMMA TradesOfBooks ==
  ASSUME TypeOK, NEW v \in 1..MaxVol, NEW last \in TradePrices,
         NEW rest \in ((v - 1) * Low)..((v - 1) * High)
  PROVE  /\ Trade(v, last, rest) \in Inputs /\ LotsInLevels(Trade(v, last, rest))
         /\ Trade(v, last, rest).best["ask"] + Trade(v, last, rest).best["bid"] # 0
         /\ \/ Trade(v, last, rest).trade_vol = 1 /\ Trade(v, last, rest).amount = last
            \/ /\ Trade(v, last, rest).trade_vol >= 2
               /\ Near(Trade(v, last, rest), Low, Trade(v, last, rest).trade_vol - 1)
<1>. DEFINE old == books[Window - 1]
            new == books[Window]
            in  == Trade(v, last, rest)
<1>1. books \in [1..Window -> Books] /\ Window \in Nat /\ Window > 3
  BY FastIC1Assumption DEF TypeOK
<1>2. old \in Books /\ new \in Books
  BY <1>1
<1>. HIDE DEF old, new
<1>3. \A book \in Books :
        /\ book \in [price : [Sides -> [Levels -> Nat]], vol : [Sides -> [Levels -> Nat]]]
        /\ 0 < book.price["bid"][1] /\ book.price["bid"][1] < book.price["ask"][1]
  BY BooksAssumption
<1>4. {"bid", "ask"} = Sides /\ 1 \in Levels
  BY DEF Sides, Levels
<1>5. in = [trade_vol |-> v, amount |-> last + rest, lastprice |-> last,
            best |-> [side \in Sides |-> new.price[side][1]],
            price_pr |-> old.price, vol_pr |-> old.vol]
  BY DEF Trade, old, new
<1>6. v \in Int /\ last \in Int /\ rest \in Int /\ v >= 1 /\ v <= MaxVol /\ Low \in Int
      /\ rest >= (v - 1) * Low
  BY BooksAssumption, LowestPrice
<1>. HIDE DEF in
<1>7. /\ in.trade_vol = v /\ in.amount = last + rest /\ in.lastprice = last
      /\ in.best = [side \in Sides |-> new.price[side][1]]
      /\ in.price_pr = old.price /\ in.vol_pr = old.vol
  BY <1>5
<1>8. in.best["ask"] \in Int /\ in.best["bid"] \in Int
      /\ 0 < in.best["bid"] /\ in.best["bid"] < in.best["ask"]
  BY <1>2, <1>3, <1>4, <1>7
<1>9. in \in Inputs
  <2>1. in.best \in SideLots
    BY <1>2, <1>3, <1>4, <1>7 DEF SideLots
  <2>2. old.price \in [Sides -> [Levels -> Int]] /\ old.vol \in [Sides -> [Levels -> Int]]
    <3>1. old.price \in [Sides -> [Levels -> Nat]] /\ old.vol \in [Sides -> [Levels -> Nat]]
      BY <1>2, <1>3
    <3>. QED BY <3>1
  <2>3. last + rest \in Int
    BY <1>6
  <2>. QED BY <1>5, <1>6, <1>7, <1>8, <2>1, <2>2, <2>3 DEF Inputs
<1>10. LotsInLevels(in)
  <2>1. old.vol \in [Sides -> [Levels -> Nat]]
    BY <1>2, <1>3
  <2>2. \A side \in Sides : \A i \in Levels : old.vol[side][i] \in Nat
    BY <2>1
  <2>. QED BY <1>7, <2>2 DEF LotsInLevels
<1>11. v = 1 => in.amount = last
  <2>1. ASSUME v = 1 PROVE rest = 0
    <3>1. rest \in ((1 - 1) * Low)..((1 - 1) * High)
      BY <2>1
    <3>2. rest \in 0..0
      <4>1. (1 - 1) * Low = 0 /\ (1 - 1) * High = 0
        BY LowestPrice
      <4>. QED BY <3>1, <4>1
    <3>. QED BY <3>2
  <2>. QED BY <1>6, <1>7, <2>1
<1>12. ASSUME v >= 2 PROVE Near(in, Low, v - 1)
  <2>1. v \in 2..MaxVol
    BY <1>6, <1>12, BooksAssumption
  <2>2. \A side \in Sides : \A i \in Levels : (v - 2) * old.price[side][i] < (v - 1) * Low
    BY <1>2, <2>1, BooksAssumption
  <2>3. Low > 0
    <3>. DEFINE p == old.price["bid"][1]
    <3>1. p \in Nat
      BY <1>2, <1>3, <1>4
    <3>2. (v - 2) * p < (v - 1) * Low
      BY <1>4, <2>2
    <3>. HIDE DEF p
    <3>3. (v - 2) * p >= 0
      BY <1>6, <1>12, <3>1
    <3>4. Low = 0 => (v - 1) * Low = 0
      BY <1>6
    <3>5. (v - 2) * p \in Int
      BY <1>6, <3>1
    <3>. DEFINE x == (v - 2) * p
    <3>. HIDE DEF x
    <3>6. x \in Int /\ x >= 0 /\ x < (v - 1) * Low
      BY <3>2, <3>3, <3>5 DEF x
    <3>7. Low # 0
      BY <3>4, <3>6
    <3>. QED BY <3>7, LowestPrice
  <2>4. in.amount - in.lastprice = rest
    BY <1>6, <1>7
  <2>5. (v - 1) - 1 = v - 2
    BY <1>6
  <2>. QED BY <1>6, <1>7, <2>2, <2>3, <2>4, <2>5 DEF Near
<1>. QED BY <1>6, <1>7, <1>8, <1>9, <1>10, <1>11, <1>12 DEF in

LEMMA DividedTrades ==
  ASSUME TypeOK
  PROVE  TradesAreDivided
<1>1. ASSUME NEW v \in 1..MaxVol, NEW last \in TradePrices,
             NEW rest \in ((v - 1) * Low)..((v - 1) * High)
      PROVE  LET in == Trade(v, last, rest)
                 s  == guess_trade_price(in)
             IN  /\ s.vol["bid"] + s.vol["ask"] = in.trade_vol
                 /\ s.amount["bid"] + s.amount["ask"] = in.amount
                 /\ s.vol["bid"] >= 0 /\ s.vol["ask"] >= 0
  <2>. DEFINE in == Trade(v, last, rest)
              s  == guess_trade_price(in)
  <2>1. /\ in \in Inputs /\ LotsInLevels(in) /\ in.best["ask"] + in.best["bid"] # 0
        /\ \/ in.trade_vol = 1 /\ in.amount = in.lastprice
           \/ in.trade_vol >= 2 /\ \E low \in Int : Near(in, low, in.trade_vol - 1)
    <3>1. in.lastprice = last
      BY DEF Trade
    <3>2. Low \in Int
      BY LowestPrice
    <3>. QED BY <3>1, <3>2, TradesOfBooks
  <2>. HIDE DEF in
  <2>2. /\ s.vol["bid"] + s.vol["ask"] = in.trade_vol
        /\ s.amount["bid"] + s.amount["ask"] = in.amount
    BY <2>1, CloseTradeIsDivided
  <2>3. \A side \in Sides : s.vol[side] >= 0
    BY <2>1, NoSideBelowZero
  <2>. QED BY <2>2, <2>3 DEF in, Sides
<1>. QED BY <1>1 DEF TradesAreDivided

----------------------------------------------------------------------------
(* What the strategy keeps has its type, whatever the periods. *)
THEOREM FastTypes == Spec => []TypeOK
BY FastIsReference, PTL

(* The bisection between the sentinels (L2p2) always ends, and with the rank *)
(* of the reference; the scan of L2a2, whose tolerance is one-sided, differs *)
(* from it by at most the values just above the new one, and those below it  *)
(* by exactly the tolerance.  This is for every window and all books.        *)
THEOREM RanksStayClose == Spec => []RanksAgree
<1>1. TypeOK => RanksAgree
  BY RanksOfBooks
<1>. QED BY <1>1, FastTypes, PTL

(* When the lots in any two books multiply to less than 1 / tolerance, their *)
(* ADI are equal or further apart than the tolerance: then the scan of L2a2  *)
(* finds the rank of the reference on every row, and calc() never logs       *)
(* L2a2_ERROR for it.                                                       *)
THEOREM ThinBooksRankAlike ==
  ASSUME \A b, c \in Books : Lots(b) * Lots(c) < Precision
  PROVE  Spec => []L2a2MatchesReference
<1>1. TypeOK => L2a2MatchesReference
  BY ThinBooksScanAlike
<1>. QED BY <1>1, FastTypes, PTL

(* Whatever lies between two rows, guess_trade_price() gives each lot and   *)
(* the whole amount to one side or the other, and no side a negative number *)
(* of lots.                                                                 *)
THEOREM TradesAlwaysDivided == Spec => []TradesAreDivided
<1>1. TypeOK => TradesAreDivided
  BY DividedTrades
<1>. QED BY <1>1, FastTypes, PTL
=============================================================================
