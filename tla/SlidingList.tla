---------------------------- MODULE SlidingList ----------------------------
(***************************************************************************)
(* hft::List (src/include/hft/List.hpp, List-inc.h): the array of LENGTH   *)
(* elements behind every market data column and factor series.  Append()   *)
(* writes at m_itr; when the array is nearly full it copies the newest     *)
(* m_min_length elements to the front, in place and from the last down, and *)
(* goes on from there.  begin() and end() delimit what readers iterate     *)
(* over, pre(i) reads backwards from m_itr.                                *)
(*                                                                         *)
(* A value is the number of the Append() call that wrote it, 0 for the     *)
(* memory the constructor clears.                                          *)
(***************************************************************************)
EXTENDS Integers

CONSTANTS
  Length,      \* LENGTH, 400 in the code
  MinLength,   \* m_min_length, 125 in the code
  MaxAppends   \* bound on the calls of Append()

ASSUME SlidingListAssumption ==
  /\ Length \in Nat /\ MinLength \in Nat /\ MaxAppends \in Nat
  /\ 0 < MinLength /\ MinLength < Length - 1

VARIABLES
  m_list,      \* the array
  m_itr,       \* index of the slot the next value goes to
  m_cum_size,  \* values appended since the last ReSet()
  appends,     \* history: values appended so far
  resetAt      \* history: appends at the last ReSet()

vars == <<m_list, m_itr, m_cum_size, appends, resetAt>>

Slots == 0..(Length - 1)

Smaller(x, y) == IF x < y THEN x ELSE y

(* begin() is an index, as m_itr is: end() is m_itr. *)
Begin == IF m_cum_size >= MinLength THEN m_itr - MinLength ELSE 0

Pre(i) == m_list[m_itr - 1 - i]

----------------------------------------------------------------------------

(* The copy goes down by Gap slots, from slot MinLength - 1 on.  Where the  *)
(* two ranges overlap it reads slots it has written already, so the value   *)
(* of slot i comes from the first slot at or above MinLength that is a      *)
(* multiple of Gap away.                                                    *)
Gap == Length - 1 - MinLength

(* Mutant: the copy starts one slot too high. *)
SourceOneOff(i) == i + Gap + 1

Source(i) == CHOOSE j \in MinLength..(Length - 2) : (j - i) % Gap = 0 /\ j - Gap < MinLength

Compacted == [j \in Slots |-> IF j < MinLength THEN m_list[Source(j)] ELSE m_list[j]]

(* Mutant: the comparison with LENGTH - 1 has become one with LENGTH, and strict. *)
FullTooLate == m_itr > Length

Full == m_itr >= Length - 1

(* Mutant: m_itr is left below the newest of the elements copied. *)
AppendOverNewest(v) ==
  /\ m_cum_size' = m_cum_size + 1
  /\ \/ /\ Full
        /\ m_list' = [Compacted EXCEPT ![MinLength - 1] = v]
        /\ m_itr' = MinLength
     \/ /\ ~Full
        /\ m_list' = [m_list EXCEPT ![m_itr] = v]
        /\ m_itr' = m_itr + 1

Write(v) ==
  /\ m_cum_size' = m_cum_size + 1
  /\ \/ /\ Full
        /\ m_list' = [Compacted EXCEPT ![MinLength] = v]
        /\ m_itr' = MinLength + 1
     \/ /\ ~Full
        /\ m_list' = [m_list EXCEPT ![m_itr] = v]
        /\ m_itr' = m_itr + 1

Append ==
  /\ appends < MaxAppends
  /\ appends' = appends + 1
  /\ Write(appends')
  /\ UNCHANGED resetAt

(* Mutant: the counter survives the reset. *)
ReSetNothing ==
  /\ resetAt' = appends
  /\ UNCHANGED <<m_cum_size, m_list, m_itr, appends>>

ReSet ==
  /\ m_cum_size' = 0
  /\ resetAt' = appends
  /\ UNCHANGED <<m_list, m_itr, appends>>

----------------------------------------------------------------------------

Init ==
  /\ m_list = [j \in Slots |-> 0]
  /\ m_itr = 0 /\ m_cum_size = 0
  /\ appends = 0 /\ resetAt = 0

Next == Append \/ ReSet

Spec == Init /\ [][Next]_vars

----------------------------------------------------------------------------
(* Properties. *)

(* m_itr stays where *m_itr may be written and m_itr - 1 read. *)
TypeOK ==
  /\ m_list \in [Slots -> 0..MaxAppends]
  /\ m_itr \in 0..(Length - 1)
  /\ m_cum_size \in Nat /\ appends \in 0..MaxAppends /\ resetAt \in 0..appends

(* pre(i) is the i-th newest value, on either side of a compaction, for     *)
(* every i up to the minimum length: callers look one value further back    *)
(* than the window, to form differences.                                    *)
PreIsNewest ==
  \A i \in 0..MinLength : i < appends => Pre(i) = appends - i

(* What begin() to end() iterates over is the newest minimum length of      *)
(* values, all of them appended after the last ReSet(), as soon as there    *)
(* are that many; and on the first day, before that, all there is.          *)
WindowIsNewest ==
  m_cum_size >= MinLength \/ resetAt = 0 =>
    LET shown == Smaller(m_cum_size, MinLength)
    IN  /\ m_itr - Begin = shown
        /\ appends - shown >= resetAt
        /\ \A i \in 0..(shown - 1) : m_list[Begin + i] = appends - shown + 1 + i

(* "Only the newest information", and ReSet() "initialises again": between  *)
(* begin() and end() there is nothing from before the last ReSet().         *)
WindowSinceReSet ==
  \A j \in Begin..(m_itr - 1) : m_list[j] > resetAt

(* Read through pre() as far as cum_size() allows, the list implements the  *)
(* promise of RecentValues, ReSet() included.                               *)
Readable == Smaller(m_cum_size, MinLength)

Recent == INSTANCE RecentValues
            WITH Values   <- 1..MaxAppends,
                 Capacity <- MinLength,
                 count    <- Readable,
                 recent   <- [age \in 0..(Readable - 1) |-> Pre(age)]

ImplementsRecentValues == Recent!Spec
============================================================================
