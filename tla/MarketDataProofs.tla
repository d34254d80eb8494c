-------------------------- MODULE MarketDataProofs --------------------------
(***************************************************************************)
(* Proofs about MarketData, for every length and minimum length of the     *)
(* lists whose two copies fit side by side, and every number of rows.      *)
(*                                                                         *)
(* Each column is a list that WriteKeepsOrder of SlidingListProofs speaks  *)
(* of.  The invariant says of each that it holds the newest rows in order, *)
(* how many of them, and how cum_size() of the three are related: of       *)
(* lastamount and volume it counts the rows of the day, of sp_list all.    *)
(***************************************************************************)
EXTENDS MarketData, TLAPS

AmountP == INSTANCE SlidingListProofs
             WITH m_list <- amount_list, m_itr <- amount_itr, m_cum_size <- amount_cum,
                  appends <- row, resetAt <- dayStart, MaxAppends <- MaxRows
VolumeP == INSTANCE SlidingListProofs
             WITH m_list <- volume_list, m_itr <- volume_itr, m_cum_size <- volume_cum,
                  appends <- row, resetAt <- dayStart, MaxAppends <- MaxRows
SpreadP == INSTANCE SlidingListProofs
             WITH m_list <- spread_list, m_itr <- spread_itr, m_cum_size <- spread_cum,
                  appends <- row, resetAt <- dayStart, MaxAppends <- MaxRows

(* The copy of Append() does not overlap its source. *)
NoOverlap == 2 * MinLength <= Length - 1

(* A column with its iterator at itr holds the newest rows in order.  It    *)
(* holds extra values from before the first row, and after a compaction     *)
(* more than the minimum length of values.                                  *)
Column(list, itr, extra) ==
  /\ \A j \in 0..(itr - 1) : list[j] = row - itr + 1 + j
  /\ itr <= row + extra
  /\ itr = row + extra \/ itr > MinLength

Columns ==
  /\ Column(amount_list, amount_itr, 0)
  /\ Column(volume_list, volume_itr, 1)
  /\ Column(spread_list, spread_itr, 0)

Counts ==
  /\ amount_cum = row - dayStart
  /\ volume_cum >= amount_cum
  /\ spread_cum = row

VolumeOfLastRow == m_lastvolume = IF row = dayStart THEN 0 ELSE row

IInv ==
  /\ TypeOK
  /\ Columns
  /\ Counts
  /\ VolumeOfLastRow
  /\ AverageOverSameRows

LEMMA InitIInv == Init => IInv
BY MarketDataAssumption
DEF Init, Amount!Init, Amount!Slots, IInv, TypeOK, Columns, Column, Counts, VolumeOfLastRow,
    AverageOverSameRows, Outside

----------------------------------------------------------------------------
(* A row is appended to one column after the other. *)

LEMMA AmountAppended ==
  ASSUME NoOverlap, IInv, AppendTick
  PROVE  /\ amount_list' \in [0..(Length - 1) -> 0..MaxRows]
         /\ amount_itr' \in 0..(Length - 1)
         /\ amount_cum' = amount_cum + 1
         /\ Column(amount_list, amount_itr, 0)'
<1> USE MarketDataAssumption
<1>1. row' = row + 1 /\ row \in Nat /\ row + 1 <= MaxRows /\ AmountP!Write(row + 1)
  <2>1. row' = row + 1 /\ row \in Nat /\ row + 1 <= MaxRows
    BY DEF AppendTick, IInv, TypeOK
  <2>2. Amount!Write(row + 1)
    BY <2>1 DEF AppendTick
  <2>3. Amount!Compacted = AmountP!Compacted
    BY DEF Amount!Compacted, AmountP!Compacted, Amount!Source, AmountP!Source,
           Amount!Gap, AmountP!Gap, Amount!Slots, AmountP!Slots
  <2> QED
    BY <2>1, <2>2, <2>3 DEF Amount!Write, AmountP!Write, Amount!Full, AmountP!Full
<1>2. /\ amount_list \in [AmountP!Slots -> 0..MaxRows] /\ amount_itr \in 0..(Length - 1)
      /\ amount_cum \in Nat /\ AmountP!OrderedUpTo(row)
  BY DEF IInv, TypeOK, Columns, Column, AmountP!Slots, AmountP!OrderedUpTo
<1>3. AmountP!NoOverlap /\ AmountP!SlidingListAssumption
  BY DEF NoOverlap, AmountP!NoOverlap, AmountP!SlidingListAssumption
<1>4. /\ amount_list' \in [AmountP!Slots -> 0..MaxRows]
      /\ amount_itr' \in 0..(Length - 1)
      /\ amount_cum' = amount_cum + 1
      /\ amount_itr' = amount_itr + 1 \/ (amount_itr' = MinLength + 1 /\ amount_itr' <= amount_itr)
      /\ \A j \in 0..(amount_itr' - 1) : amount_list'[j] = (row + 1) - amount_itr' + 1 + j
  BY <1>1, <1>2, <1>3, AmountP!WriteKeepsOrder
<1>5. Column(amount_list, amount_itr, 0)'
  <2>1. amount_itr <= row + 0 /\ (amount_itr = row + 0 \/ amount_itr > MinLength)
    BY DEF IInv, Columns, Column
  <2>2. amount_itr' <= row' + 0 /\ (amount_itr' = row' + 0 \/ amount_itr' > MinLength)
    BY <1>1, <1>2, <1>4, <2>1
  <2>3. \A j \in 0..(amount_itr' - 1) : amount_list'[j] = row' - amount_itr' + 1 + j
    BY <1>1, <1>4
  <2> QED
    BY <2>2, <2>3 DEF Column
<1> QED
  BY <1>4, <1>5 DEF AmountP!Slots

LEMMA VolumeAppended ==
  ASSUME NoOverlap, IInv, AppendTick
  PROVE  /\ volume_list' \in [0..(Length - 1) -> 0..MaxRows]
         /\ volume_itr' \in 0..(Length - 1)
         /\ volume_cum' = volume_cum + 1
         /\ Column(volume_list, volume_itr, 1)'
<1> USE MarketDataAssumption
<1>1. row' = row + 1 /\ row \in Nat /\ row + 1 <= MaxRows /\ VolumeP!Write(row + 1)
  <2>1. row' = row + 1 /\ row \in Nat /\ row + 1 <= MaxRows
    BY DEF AppendTick, IInv, TypeOK
  <2>2. Volume!Write(row + 1)
    BY <2>1 DEF AppendTick
  <2>3. Volume!Compacted = VolumeP!Compacted
    BY DEF Volume!Compacted, VolumeP!Compacted, Volume!Source, VolumeP!Source,
           Volume!Gap, VolumeP!Gap, Volume!Slots, VolumeP!Slots
  <2> QED
    BY <2>1, <2>2, <2>3 DEF Volume!Write, VolumeP!Write, Volume!Full, VolumeP!Full
<1>2. /\ volume_list \in [VolumeP!Slots -> 0..MaxRows] /\ volume_itr \in 0..(Length - 1)
      /\ volume_cum \in Nat /\ VolumeP!OrderedUpTo(row)
  BY DEF IInv, TypeOK, Columns, Column, VolumeP!Slots, VolumeP!OrderedUpTo
<1>3. VolumeP!NoOverlap /\ VolumeP!SlidingListAssumption
  BY DEF NoOverlap, VolumeP!NoOverlap, VolumeP!SlidingListAssumption
<1>4. /\ volume_list' \in [VolumeP!Slots -> 0..MaxRows]
      /\ volume_itr' \in 0..(Length - 1)
      /\ volume_cum' = volume_cum + 1
      /\ volume_itr' = volume_itr + 1 \/ (volume_itr' = MinLength + 1 /\ volume_itr' <= volume_itr)
      /\ \A j \in 0..(volume_itr' - 1) : volume_list'[j] = (row + 1) - volume_itr' + 1 + j
  BY <1>1, <1>2, <1>3, VolumeP!WriteKeepsOrder
<1>5. Column(volume_list, volume_itr, 1)'
  <2>1. volume_itr <= row + 1 /\ (volume_itr = row + 1 \/ volume_itr > MinLength)
    BY DEF IInv, Columns, Column
  <2>2. volume_itr' <= row' + 1 /\ (volume_itr' = row' + 1 \/ volume_itr' > MinLength)
    BY <1>1, <1>2, <1>4, <2>1
  <2>3. \A j \in 0..(volume_itr' - 1) : volume_list'[j] = row' - volume_itr' + 1 + j
    BY <1>1, <1>4
  <2> QED
    BY <2>2, <2>3 DEF Column
<1> QED
  BY <1>4, <1>5 DEF VolumeP!Slots

LEMMA SpreadAppended ==
  ASSUME NoOverlap, IInv, AppendTick
  PROVE  /\ spread_list' \in [0..(Length - 1) -> 0..MaxRows]
         /\ spread_itr' \in 0..(Length - 1)
         /\ spread_cum' = spread_cum + 1
         /\ Column(spread_list, spread_itr, 0)'
<1> USE MarketDataAssumption
<1>1. row' = row + 1 /\ row \in Nat /\ row + 1 <= MaxRows /\ SpreadP!Write(row + 1)
  <2>1. row' = row + 1 /\ row \in Nat /\ row + 1 <= MaxRows
    BY DEF AppendTick, IInv, TypeOK
  <2>2. Spread!Write(row + 1)
    BY <2>1 DEF AppendTick, AppendSpread
  <2>3. Spread!Compacted = SpreadP!Compacted
    BY DEF Spread!Compacted, SpreadP!Compacted, Spread!Source, SpreadP!Source,
           Spread!Gap, SpreadP!Gap, Spread!Slots, SpreadP!Slots
  <2> QED
    BY <2>1, <2>2, <2>3 DEF Spread!Write, SpreadP!Write, Spread!Full, SpreadP!Full
<1>2. /\ spread_list \in [SpreadP!Slots -> 0..MaxRows] /\ spread_itr \in 0..(Length - 1)
      /\ spread_cum \in Nat /\ SpreadP!OrderedUpTo(row)
  BY DEF IInv, TypeOK, Columns, Column, SpreadP!Slots, SpreadP!OrderedUpTo
<1>3. SpreadP!NoOverlap /\ SpreadP!SlidingListAssumption
  BY DEF NoOverlap, SpreadP!NoOverlap, SpreadP!SlidingListAssumption
<1>4. /\ spread_list' \in [SpreadP!Slots -> 0..MaxRows]
      /\ spread_itr' \in 0..(Length - 1)
      /\ spread_cum' = spread_cum + 1
      /\ spread_itr' = spread_itr + 1 \/ (spread_itr' = MinLength + 1 /\ spread_itr' <= spread_itr)
      /\ \A j \in 0..(spread_itr' - 1) : spread_list'[j] = (row + 1) - spread_itr' + 1 + j
  BY <1>1, <1>2, <1>3, SpreadP!WriteKeepsOrder
<1>5. Column(spread_list, spread_itr, 0)'
  <2>1. spread_itr <= row + 0 /\ (spread_itr = row + 0 \/ spread_itr > MinLength)
    BY DEF IInv, Columns, Column
  <2>2. spread_itr' <= row' + 0 /\ (spread_itr' = row' + 0 \/ spread_itr' > MinLength)
    BY <1>1, <1>2, <1>4, <2>1
  <2>3. \A j \in 0..(spread_itr' - 1) : spread_list'[j] = row' - spread_itr' + 1 + j
    BY <1>1, <1>4
  <2> QED
    BY <2>2, <2>3 DEF Column
<1> QED
  BY <1>4, <1>5 DEF SpreadP!Slots

(* In a column that is in order, the last element but one is the row before. *)
LEMMA LastButOne ==
  ASSUME NEW list, NEW last \in Nat, NEW itr \in Int, itr >= 2,
         \A j \in 0..(itr - 1) : list[j] = last - itr + 1 + j
  PROVE  list[itr - 2] = last - 1
<1>1. itr - 2 \in 0..(itr - 1)
  OBVIOUS
<1>2. list[itr - 2] = last - itr + 1 + (itr - 2)
  BY <1>1
<1> QED
  BY <1>2

LEMMA PreviousIsRowBefore ==
  ASSUME NoOverlap, IInv, AppendTick, row >= 1
  PROVE  PreviousAmount = row
<1>1. row' = row + 1 /\ row \in Nat /\ row' \in Nat
  BY DEF AppendTick, IInv, TypeOK
<1>2. amount_itr' \in Int /\ amount_itr' >= 2
  <2>1. amount_itr' \in 0..(Length - 1) /\ (amount_itr' = row' + 0 \/ amount_itr' > MinLength)
    BY AmountAppended DEF Column
  <2> QED
    BY <1>1, <2>1, MarketDataAssumption
<1>3. \A j \in 0..(amount_itr' - 1) : amount_list'[j] = row' - amount_itr' + 1 + j
  BY AmountAppended DEF Column
<1>4. amount_list'[amount_itr' - 2] = row' - 1
  BY <1>1, <1>2, <1>3, LastButOne
<1>5. amount_itr' # 1
  BY <1>2
<1> QED
  BY <1>1, <1>4, <1>5 DEF PreviousAmount

LEMMA AppendTickIInv == NoOverlap /\ IInv /\ AppendTick => IInv'
<1> SUFFICES ASSUME NoOverlap, IInv, AppendTick PROVE IInv'
  OBVIOUS
<1> USE MarketDataAssumption
<1>1. /\ row' = row + 1 /\ row \in Nat /\ row' \in 0..MaxRows
      /\ dayStart' = dayStart /\ dayStart \in 0..row
      /\ m_lastvolume' = row + 1 /\ m_lastvolume \in 0..MaxRows
      /\ turn_over' = [from |-> PreviousAmount, to |-> row + 1]
      /\ trade_vol' = [from |-> m_lastvolume, to |-> row + 1]
  BY DEF AppendTick, RememberVolume, IInv, TypeOK
<1>2. Columns'
  BY AmountAppended, VolumeAppended, SpreadAppended DEF Columns
<1>3. Counts'
  <2>1. amount_cum' = amount_cum + 1 /\ volume_cum' = volume_cum + 1 /\ spread_cum' = spread_cum + 1
    BY AmountAppended, VolumeAppended, SpreadAppended
  <2> QED
    BY <1>1, <2>1 DEF IInv, TypeOK, Counts
<1>4. PreviousAmount \in {Outside} \cup 0..MaxRows
  <2>1. CASE amount_itr' = 1
    BY <2>1 DEF PreviousAmount
  <2>2. CASE amount_itr' # 1
    <3>1. row' >= 1 /\ amount_itr' \in 0..(Length - 1) /\ amount_itr' - 2 \in 0..(Length - 1)
      BY <1>1, <2>2, AmountAppended DEF Column
    <3> QED
      BY <2>2, <3>1, AmountAppended DEF PreviousAmount
  <2> QED
    BY <2>1, <2>2
<1>5. turn_over' \in [from : {Outside} \cup 0..MaxRows, to : 0..MaxRows]
      /\ trade_vol' \in [from : 0..MaxRows, to : 0..MaxRows]
  BY <1>1, <1>4
<1>6. TypeOK'
  <2>1. amount_cum' \in Nat /\ volume_cum' \in Nat /\ spread_cum' \in Nat
    <3>1. amount_cum' = amount_cum + 1 /\ volume_cum' = volume_cum + 1 /\ spread_cum' = spread_cum + 1
      BY AmountAppended, VolumeAppended, SpreadAppended
    <3> QED
      BY <3>1 DEF IInv, TypeOK
  <2>2. dayStart' \in 0..row' /\ m_lastvolume' \in {0} \cup (dayStart' + 1)..row'
    BY <1>1
  <2> QED
    BY <1>1, <1>5, <2>1, <2>2, AmountAppended, VolumeAppended, SpreadAppended DEF TypeOK
<1>7. VolumeOfLastRow'
  BY <1>1 DEF VolumeOfLastRow
<1>8. AverageOverSameRows'
  <2> SUFFICES ASSUME row + 1 >= dayStart + 2
               PROVE  turn_over' = [from |-> (row + 1) - 1, to |-> row + 1] /\ trade_vol' = turn_over'
    BY <1>1 DEF AverageOverSameRows
  <2>1. PreviousAmount = row /\ m_lastvolume = row
    BY <1>1, PreviousIsRowBefore DEF IInv, VolumeOfLastRow
  <2> QED
    BY <1>1, <2>1
<1> QED
  BY <1>2, <1>3, <1>6, <1>7, <1>8 DEF IInv

LEMMA ReSetIInv == IInv /\ ReSet => IInv'
<1> SUFFICES ASSUME IInv, ReSet PROVE IInv'
  OBVIOUS
<1>1. TypeOK'
  BY DEF IInv, TypeOK, ReSet, ReSetAmount, ForgetVolume, spreadVars
<1>2. Columns'
  BY DEF IInv, Columns, Column, ReSet, spreadVars
<1>3. Counts' /\ VolumeOfLastRow' /\ AverageOverSameRows'
  BY DEF IInv, TypeOK, Counts, VolumeOfLastRow, AverageOverSameRows,
         ReSet, ReSetAmount, ForgetVolume, spreadVars
<1> QED
  BY <1>1, <1>2, <1>3 DEF IInv

LEMMA NextIInv == NoOverlap /\ IInv /\ [Next]_vars => IInv'
<1>1. IInv /\ UNCHANGED vars => IInv'
  BY DEF IInv, TypeOK, Columns, Column, Counts, VolumeOfLastRow, AverageOverSameRows,
         vars, amountVars, volumeVars, spreadVars
<1> QED
  BY <1>1, AppendTickIInv, ReSetIInv DEF Next

THEOREM ColumnsInductive ==
  ASSUME NoOverlap
  PROVE  Spec => []IInv
<1>1. IInv /\ [Next]_vars => IInv'
  BY NoOverlap, NextIInv
<1> QED
  BY <1>1, InitIInv, PTL DEF Spec

(* No column leaves its array, and the volume kept for the next difference  *)
(* is of this day, whatever the sequence of AppendTick() and ReSet().       *)
THEOREM ColumnsTypeCorrect ==
  ASSUME NoOverlap
  PROVE  Spec => []TypeOK
<1>1. IInv => TypeOK
  BY DEF IInv
<1> QED
  BY <1>1, ColumnsInductive, PTL

(* Read backwards, all columns show the same row at every age, though they  *)
(* are compacted on different rows.                                         *)
THEOREM ColumnsShowSameRow ==
  ASSUME NoOverlap
  PROVE  Spec => []SameRowAtEveryAge
<1>1. IInv => SameRowAtEveryAge
  <2> SUFFICES ASSUME IInv, NEW age \in 0..MinLength, age < row
               PROVE  Volume!Pre(age) = Amount!Pre(age) /\ Spread!Pre(age) = Amount!Pre(age)
    BY DEF SameRowAtEveryAge
  <2> USE MarketDataAssumption
  <2>1. Amount!Pre(age) = row - age
    BY DEF IInv, TypeOK, Columns, Column, Amount!Pre
  <2>2. Volume!Pre(age) = row - age
    BY DEF IInv, TypeOK, Columns, Column, Volume!Pre
  <2>3. Spread!Pre(age) = row - age
    BY DEF IInv, TypeOK, Columns, Column, Spread!Pre
  <2> QED
    BY <2>1, <2>2, <2>3
<1> QED
  BY <1>1, ColumnsInductive, PTL

(* From the moment the window of lastamount is full, iterating over any of  *)
(* the columns gives the same rows.                                         *)
THEOREM FullColumnsShowSameRows ==
  ASSUME NoOverlap
  PROVE  Spec => []FullWindowsShowSameRows
<1>1. IInv => FullWindowsShowSameRows
  <2> SUFFICES ASSUME IInv, amount_cum >= MinLength, NEW i \in 0..(MinLength - 1)
               PROVE  /\ volume_list[Volume!Begin + i] = amount_list[Amount!Begin + i]
                      /\ spread_list[Spread!Begin + i] = amount_list[Amount!Begin + i]
    BY DEF FullWindowsShowSameRows
  <2> USE MarketDataAssumption
  <2>1. /\ volume_cum >= MinLength /\ spread_cum >= MinLength /\ row >= MinLength
        /\ row \in Nat
    BY DEF IInv, TypeOK, Counts
  <2>2. amount_list[Amount!Begin + i] = row - MinLength + 1 + i
    BY <2>1 DEF IInv, TypeOK, Columns, Column, Amount!Begin
  <2>3. volume_list[Volume!Begin + i] = row - MinLength + 1 + i
    BY <2>1 DEF IInv, TypeOK, Columns, Column, Volume!Begin
  <2>4. spread_list[Spread!Begin + i] = row - MinLength + 1 + i
    BY <2>1 DEF IInv, TypeOK, Columns, Column, Spread!Begin
  <2> QED
    BY <2>2, <2>3, <2>4
<1> QED
  BY <1>1, ColumnsInductive, PTL

(* From the second row of a day on, the average price of a row divides      *)
(* amount and volume of the same pair of rows.                              *)
THEOREM AverageOfSameRows ==
  ASSUME NoOverlap
  PROVE  Spec => []AverageOverSameRows
<1>1. IInv => AverageOverSameRows
  BY DEF IInv
<1> QED
  BY <1>1, ColumnsInductive, PTL
=============================================================================
