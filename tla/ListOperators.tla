--------------------------- MODULE ListOperators ---------------------------
(***************************************************************************)
(* The operators of hft::List (src/include/hft/List-inc.h) and the series  *)
(* the reference factors build with them (factor_func.hpp, factors.hpp):   *)
(* a list is copied, shifted, and combined with others element by element. *)
(* The operators that change a list (-=, /=, ...) pair the elements by age, *)
(* the binary ones (+, -) and the loops over operator[] by index.           *)
(*                                                                         *)
(* What matters is which rows a result combines.  A value is the sequence   *)
(* of the rows that went into it, in the order the operators were applied,  *)
(* with Scalar where a constant was: combining two values appends the one   *)
(* to the other.  Functions of one value (log, sqrt) leave it alone.        *)
(***************************************************************************)
EXTENDS Integers, SequencesExt

CONSTANTS
  Length, MinLength,   \* of the lists, as in SlidingList
  MaxRows,             \* bound on the rows
  MaxAssigns           \* bound on the calls of operator=

ASSUME ListOperatorsAssumption ==
  /\ {Length, MinLength, MaxRows, MaxAssigns} \subseteq Nat
  /\ 1 < MinLength /\ MinLength < Length - 1

VARIABLES
  mp,        \* a column of market data: stands for tp_list, ask[4], bid[0], ... too
  sp_list,   \* the column that ReSet() leaves out
  volume,    \* the column the constructor appends to
  kept,      \* a list that others are assigned to
  row,       \* history: rows appended so far
  dayStart,  \* history: rows before the last ReSet()
  keptRow,   \* history: row of the last assignment
  assigns    \* history: assignments so far

vars == <<mp, sp_list, volume, kept, row, dayStart, keptRow, assigns>>

Slots   == 0..(Length - 1)
Scalar  == 0
Outside == <<-1>>   \* what lies below the array

Array(m_list, m_itr, m_cum_size) ==
  INSTANCE SlidingList WITH appends <- 0, resetAt <- 0, MaxAppends <- 0

Smaller(x, y) == IF x < y THEN x ELSE y
Pre(l, i)     == Array(l.m_list, l.m_itr, l.m_cum_size)!Pre(i)
Begin(l)      == Array(l.m_list, l.m_itr, l.m_cum_size)!Begin
Full(l)       == Array(l.m_list, l.m_itr, l.m_cum_size)!Full
Compacted(l)  == Array(l.m_list, l.m_itr, l.m_cum_size)!Compacted

EmptyList == [m_list |-> [j \in Slots |-> <<>>], m_itr |-> 0, m_cum_size |-> 0]

(* Mutant: after a compaction m_itr stays where it was. *)
AppendedAtTheEnd(l, value) ==
  [m_list     |-> [(IF Full(l) THEN Compacted(l) ELSE l.m_list) EXCEPT ![l.m_itr] = value],
   m_itr      |-> l.m_itr + 1,
   m_cum_size |-> l.m_cum_size + 1]

(* Append(), as in SlidingList. *)
Appended(l, value) ==
  LET list == IF Full(l) THEN Compacted(l) ELSE l.m_list
      itr  == IF Full(l) THEN MinLength ELSE l.m_itr
  IN  [m_list |-> [list EXCEPT ![itr] = value], m_itr |-> itr + 1, m_cum_size |-> l.m_cum_size + 1]

AppendedAll(l, values) == FoldLeft(Appended, l, values)

(* What a loop from begin() to end() sees, and one element by operator[]. *)
Window(l) == [i \in 1..(l.m_itr - Begin(l)) |-> l.m_list[Begin(l) + i - 1]]

(* Mutant: elements count from the front of the array. *)
FromTheFront(l, i) == l.m_list[i]

Element(l, i) == l.m_list[Begin(l) + i]

copy(l) == AppendedAll(EmptyList, Window(l))

(* Mutant: the elements are walked through as pre() does. *)
AssignedBackwards(l, other) ==
  [AppendedAll(l, Reverse(Window(other))) EXCEPT !.m_cum_size = other.m_cum_size]

(* operator=() appends the other's elements behind what is there. *)
Assigned(l, other) ==
  [AppendedAll(l, Window(other)) EXCEPT !.m_cum_size = other.m_cum_size]

----------------------------------------------------------------------------
(* Operators that change every element of a list, or those of a range. *)

Changed(l, Ages, F(_, _)) ==
  [l EXCEPT !.m_list = [j \in Slots |->
     LET age == l.m_itr - 1 - j IN IF age \in Ages THEN F(@[j], age) ELSE @[j]]]

(* Mutant: the walk stops before other.begin() instead of on it. *)
StopsBeforeOldest(other) == 0..(Smaller(MinLength, other.m_itr - Begin(other)) - 2)

(* The walk of operator-=() and its like goes back from the newest element of *)
(* both lists, to the minimum length or to other.begin(), whichever is first. *)
Walk(other) ==
  IF other.m_itr = Begin(other) THEN 0..(MinLength - 1)
  ELSE 0..(Smaller(MinLength, other.m_itr - Begin(other)) - 1)

AtAge(l, age) == IF l.m_itr - 1 - age \in Slots THEN Pre(l, age) ELSE Outside

(* +=, -=, *= and /= with a list. *)
ByAge(l, other) ==
  LET Combine(value, age) == value \o AtAge(other, age)
  IN  Changed(l, Walk(other), Combine)

(* + and - of two lists. *)
ByIndex(a, b) ==
  LET tmp == copy(a)
      n   == Smaller(a.m_cum_size, MinLength)
      Combine(value, age) == value \o Element(b, tmp.m_itr - 1 - age - Begin(tmp))
  IN  Changed(tmp, {tmp.m_itr - 1 - Begin(tmp) - i : i \in 0..(n - 1)}, Combine)

WithScalar(value, age) == Append(value, Scalar)

(* *= with a number stops at the minimum length, += with one at begin(). *)
Times(l) == Changed(l, 0..(MinLength - 1), WithScalar)

(* Mutant: the walk starts one below itr(), as it should below m_itr. *)
PlusBelowItr(l) == Changed(l, 1..(l.m_itr - 1 - Begin(l)), WithScalar)

Plus(l) == Changed(l, 0..(l.m_itr - 1 - Begin(l)), WithScalar)

(* Mutant: the shift is one row short. *)
DelayedShort(x, period) ==
  AppendedAll(EmptyList, SubSeq(Window(x), 1, Len(Window(x)) - period + 1))

ts_delay(x, period) ==
  AppendedAll(EmptyList, SubSeq(Window(x), 1, Len(Window(x)) - period))

(* Mutant: the older of the two rows is one too young. *)
DeltaOfNext(x, period) ==
  LET w == Window(x)
  IN  AppendedAll(EmptyList, [i \in 1..(Len(w) - period) |-> w[i + period] \o w[i + 1]])

ts_delta(x, period) ==
  LET w == Window(x)
  IN  AppendedAll(EmptyList, [i \in 1..(Len(w) - period) |-> w[i + period] \o w[i]])

----------------------------------------------------------------------------
(* The series of the factors. *)

(* Ff7(): tp less half of mp of the row before and half of mp, over sp. *)
Ff7 == LET half_pr == Times(copy(ts_delay(mp, 1)))
           half    == Times(copy(mp))
       IN  ByAge(ByAge(ByAge(copy(mp), half_pr), half), sp_list)

(* Ff7_10(): the same, by index and in one loop. *)
Ff7_10 ==
  LET mt == copy(mp)
      n  == mt.m_itr - Begin(mt)
      Combine(value, age) ==
        LET i == n - 1 - age
        IN  Element(mt, i) \o Element(mp, i - 1) \o Element(mp, i) \o Element(sp_list, i)
  IN  Changed(mt, 0..(n - 2), Combine)

(* L2p1(): ask5 less mp, and how that differs from the row before. *)
L2p1 == ts_delta(ByAge(copy(mp), mp), 1)

(* Ff1(): the differences of the log of bid1, and the weights. *)
delta_price == Times(ts_delta(copy(mp), 1))
weights     == Plus(copy(copy(volume)))

----------------------------------------------------------------------------

Init ==
  /\ mp = EmptyList /\ sp_list = EmptyList /\ kept = EmptyList
  /\ volume = Appended(EmptyList, <<>>)
  /\ row = 0 /\ dayStart = 0 /\ keptRow = 0 /\ assigns = 0

AppendTick ==
  /\ row < MaxRows
  /\ row' = row + 1
  /\ mp' = Appended(mp, <<row'>>)
  /\ sp_list' = Appended(sp_list, <<row'>>)
  /\ volume' = Appended(volume, <<row'>>)
  /\ UNCHANGED <<kept, dayStart, keptRow, assigns>>

ReSet ==
  /\ mp' = [mp EXCEPT !.m_cum_size = 0]
  /\ volume' = [volume EXCEPT !.m_cum_size = 0]
  /\ dayStart' = row
  /\ UNCHANGED <<sp_list, kept, row, keptRow, assigns>>

Assign ==
  /\ row > 0 /\ assigns < MaxAssigns
  /\ assigns' = assigns + 1
  /\ kept' = Assigned(kept, mp)
  /\ keptRow' = row
  /\ UNCHANGED <<mp, sp_list, volume, row, dayStart>>

Next == AppendTick \/ ReSet \/ Assign

Spec == Init /\ [][Next]_vars

----------------------------------------------------------------------------
(* Properties. *)

IsList(l) ==
  /\ DOMAIN l = {"m_list", "m_itr", "m_cum_size"}
  /\ DOMAIN l.m_list = Slots
  /\ l.m_itr \in 0..(Length - 1) /\ l.m_cum_size \in Nat

(* Every list keeps its form and its position inside the array, also the    *)
(* ones the operators make.                                                 *)
TypeOK ==
  /\ \A l \in {mp, sp_list, volume, kept, copy(mp), Assigned(kept, mp)} : IsList(l)
  /\ row \in 0..MaxRows /\ dayStart \in 0..row /\ keptRow \in 0..row
  /\ assigns \in 0..MaxAssigns

Rows == Smaller(row, MinLength)

(* At every age that the window covers, Ff7() combines its columns as they  *)
(* were on one row, with mp of the row before: on any day, however many     *)
(* rows it has, and though sp_list goes on from the day before.             *)
SeriesOfOneRow ==
  mp.m_cum_size >= 2 =>
    \A age \in 0..(Rows - 2) :
      LET r == row - age
      IN  Pre(Ff7, age) = <<r, r - 1, Scalar, r, Scalar, r>>

(* The differences that L2f9() ranks and L2p1() takes are between the rows  *)
(* they say, at every age the window covers.                                *)
DifferencesOfRows ==
  /\ \A age \in 0..(Rows - 3) : Pre(ts_delta(mp, 2), age) = <<row - age, row - age - 2>>
  /\ \A age \in 0..(Rows - 2) :
       LET r == row - age IN Pre(L2p1, age) = <<r, r, r - 1, r - 1>>

(* Ff1() weighs the price difference of each row with the volume of that    *)
(* row, though volume is one element ahead of the other columns.            *)
WeightsOfTheirRow ==
  \A age \in 0..(Rows - 2) :
    /\ Pre(delta_price, age) = <<row - age, row - age - 1, Scalar>>
    /\ Pre(weights, age) = <<row - age, Scalar>>

(* Paired by index, as by Ff7_10() and by operator-(), the columns are of   *)
(* one row too, from the moment the window of the day is full, and all of   *)
(* the first day.                                                           *)
IndexedPairsOfOneRow ==
  row > 0 /\ (mp.m_cum_size >= MinLength \/ dayStart = 0) =>
    /\ \A age \in 0..(Rows - 2) :
         LET r == row - age IN Pre(Ff7_10, age) = <<r, r - 1, r, r>>
    /\ \A age \in 0..(Rows - 1) :
         Pre(ByIndex(mp, sp_list), age) = <<row - age, row - age>>

(* A list that another has been assigned to reads backwards as that one did *)
(* at the time, whatever it held; and forwards, if that one's window was    *)
(* full.                                                                    *)
AssignmentShowsSource ==
  keptRow > 0 =>
    /\ \A age \in 0..(Smaller(keptRow, MinLength) - 1) : Pre(kept, age) = <<keptRow - age>>
    /\ kept.m_cum_size >= MinLength =>
         Window(kept) = [i \in 1..MinLength |-> <<keptRow - MinLength + i>>]
=============================================================================
