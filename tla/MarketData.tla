----------------------------- MODULE MarketData -----------------------------
(***************************************************************************)
(* hft::MarketData (src/include/hft/MarketData.h): the columns of a        *)
(* contract's market data, each an hft::List, filled row by row by         *)
(* AppendTick() and started again each day by ReSet().                     *)
(*                                                                         *)
(* Three columns stand for all: lastamount for those that are appended     *)
(* once a row and reset, volume, to which the constructor appends a value  *)
(* of its own, and sp_list, which ReSet() leaves out (as it does           *)
(* delta_bidv1 and delta_askv1).  A value is the number of the row it      *)
(* comes from.  A difference of two cumulative values, traded volume or    *)
(* traded amount, is the pair of rows it is taken between.                 *)
(***************************************************************************)
EXTENDS Integers

CONSTANTS
  Length, MinLength,   \* of the lists, as in SlidingList
  MaxRows              \* bound on the rows

ASSUME MarketDataAssumption ==
  /\ Length \in Nat /\ MinLength \in Nat /\ MaxRows \in Nat
  /\ 1 < MinLength /\ MinLength < Length - 1

VARIABLES
  amount_list, amount_itr, amount_cum,   \* lastamount
  volume_list, volume_itr, volume_cum,   \* volume
  spread_list, spread_itr, spread_cum,   \* sp_list
  m_lastvolume,  \* the row whose lastvolume it holds, 0 after ReSet()
  turn_over,     \* the newest value of turn_over
  trade_vol,     \* the member of the same name, and newest value of volume
  row,           \* history: rows appended so far
  dayStart       \* history: rows before the last ReSet()

amountVars == <<amount_list, amount_itr, amount_cum>>
volumeVars == <<volume_list, volume_itr, volume_cum>>
spreadVars == <<spread_list, spread_itr, spread_cum>>
vars == <<amountVars, volumeVars, spreadVars, m_lastvolume, turn_over, trade_vol, row, dayStart>>

Amount == INSTANCE SlidingList
            WITH m_list <- amount_list, m_itr <- amount_itr, m_cum_size <- amount_cum,
                 appends <- row, resetAt <- dayStart, MaxAppends <- MaxRows
Volume == INSTANCE SlidingList
            WITH m_list <- volume_list, m_itr <- volume_itr, m_cum_size <- volume_cum,
                 appends <- row, resetAt <- dayStart, MaxAppends <- MaxRows
Spread == INSTANCE SlidingList
            WITH m_list <- spread_list, m_itr <- spread_itr, m_cum_size <- spread_cum,
                 appends <- row, resetAt <- dayStart, MaxAppends <- MaxRows

(* What lies before the array, for a read one element below it. *)
Outside == -1

----------------------------------------------------------------------------
(* AppendTick(). *)

(* *(lastamount_itr - 1), once the row's own amount has been appended. *)
PreviousAmount == IF amount_itr' = 1 THEN Outside ELSE amount_list'[amount_itr' - 2]

(* Mutant: the spread is that of ask1 and bid1, which change only later. *)
AppendPreviousSpread == Spread!Write(row)

AppendSpread == Spread!Write(row + 1)

(* Mutant: the volume of the row is not kept. *)
VolumeKept == UNCHANGED m_lastvolume

RememberVolume == m_lastvolume' = row + 1

AppendTick ==
  /\ row < MaxRows
  /\ row' = row + 1
  /\ Amount!Write(row')
  /\ turn_over' = [from |-> PreviousAmount, to |-> row']
  /\ trade_vol' = [from |-> m_lastvolume, to |-> row']
  /\ Volume!Write(row')
  /\ RememberVolume
  /\ AppendSpread
  /\ UNCHANGED dayStart

----------------------------------------------------------------------------

(* Mutant: lastamount is forgotten, as sp_list is. *)
AmountForgotten == UNCHANGED amount_cum

ReSetAmount == amount_cum' = 0

(* Mutant: the last volume of the day is carried over. *)
VolumeCarried == UNCHANGED m_lastvolume

ForgetVolume == m_lastvolume' = 0

ReSet ==
  /\ ReSetAmount
  /\ volume_cum' = 0
  /\ ForgetVolume
  /\ dayStart' = row
  /\ UNCHANGED <<amount_list, amount_itr, volume_list, volume_itr, spreadVars,
                 turn_over, trade_vol, row>>

----------------------------------------------------------------------------

(* The constructor appends a 0 to volume. *)
Init ==
  /\ Amount!Init
  /\ volume_list = [j \in 0..(Length - 1) |-> 0] /\ volume_itr = 1 /\ volume_cum = 1
  /\ spread_list = amount_list /\ spread_itr = 0 /\ spread_cum = 0
  /\ m_lastvolume = 0
  /\ turn_over = [from |-> 0, to |-> 0] /\ trade_vol = [from |-> 0, to |-> 0]

Next == AppendTick \/ ReSet

Spec == Init /\ [][Next]_vars

----------------------------------------------------------------------------
(* Properties. *)

(* Every column keeps its types, and the volume kept for the next           *)
(* difference is one of this day.                                           *)
TypeOK ==
  /\ amount_list \in [0..(Length - 1) -> 0..MaxRows] /\ amount_itr \in 0..(Length - 1)
  /\ volume_list \in [0..(Length - 1) -> 0..MaxRows] /\ volume_itr \in 0..(Length - 1)
  /\ spread_list \in [0..(Length - 1) -> 0..MaxRows] /\ spread_itr \in 0..(Length - 1)
  /\ amount_cum \in Nat /\ volume_cum \in Nat /\ spread_cum \in Nat
  /\ turn_over \in [from : {Outside} \cup 0..MaxRows, to : 0..MaxRows]
  /\ trade_vol \in [from : 0..MaxRows, to : 0..MaxRows]
  /\ row \in 0..MaxRows /\ dayStart \in 0..row
  /\ m_lastvolume \in {0} \cup (dayStart + 1)..row

(* Read backwards with pre(), the columns show the same row at every age,   *)
(* though volume compacts its array one row before the others.              *)
SameRowAtEveryAge ==
  \A age \in 0..MinLength :
    age < row => /\ Volume!Pre(age) = Amount!Pre(age)
                 /\ Spread!Pre(age) = Amount!Pre(age)

(* Iterated over with begin(), they show the same rows from the moment      *)
(* TickeLength() says that the window is full: neither the value volume     *)
(* started with, nor the days that sp_list goes on over, are left in it.    *)
FullWindowsShowSameRows ==
  amount_cum >= MinLength =>
    \A i \in 0..(MinLength - 1) :
      /\ volume_list[Volume!Begin + i] = amount_list[Amount!Begin + i]
      /\ spread_list[Spread!Begin + i] = amount_list[Amount!Begin + i]

(* The average price of a row divides amount by volume.  From the second    *)
(* row of a day on both are traded between this row and the one before.     *)
AverageOverSameRows ==
  row >= dayStart + 2 =>
    /\ turn_over = [from |-> row - 1, to |-> row]
    /\ trade_vol = turn_over

(* "Calculate the trade average price", after "initialise again": on every  *)
(* row the amount and the volume are traded over the same rows.             *)
AverageAlwaysOverSameRows ==
  row > dayStart /\ dayStart > 0 => turn_over.from = trade_vol.from
=============================================================================
