------------------------- MODULE SlidingListProofs -------------------------
(***************************************************************************)
(* Proofs about SlidingList, for every Length and number of Append() calls *)
(* and every MinLength whose two copies fit in the array side by side.     *)
(*                                                                         *)
(* The invariant is that the array holds the newest m_itr values in order, *)
(* and, once it has been compacted, more of them than the minimum length.  *)
(***************************************************************************)
EXTENDS SlidingList, TLAPS

(* The copy of Append() does not overlap its source.  125 and 400 satisfy *)
(* it.  Otherwise the ascending copy (List-inc.h:13) overwrites values    *)
(* that it has yet to read.                                               *)
NoOverlap == 2 * MinLength <= Length - 1

Contiguous == \A j \in 0..(m_itr - 1) : m_list[j] = appends - m_itr + 1 + j

HoldsEnough == m_itr <= appends /\ (m_itr = appends \/ m_itr > MinLength)

Counted == m_cum_size = appends - resetAt

IInv ==
  /\ TypeOK
  /\ Contiguous
  /\ HoldsEnough
  /\ Counted

LEMMA OnlyMultiple ==
  ASSUME NEW g \in Nat \ {0}
  PROVE  g % g = 0 /\ \A x \in Int : 0 < x /\ x < 2 * g /\ x % g = 0 => x = g
<1>1. g % g = 0
  OBVIOUS
<1>2. ASSUME NEW x \in Int, 0 < x, x < 2 * g, x # g
      PROVE  x % g # 0
  <2>1. CASE x < g
    <3>1. x % g = x
      BY <1>2, <2>1
    <3> QED
      BY <1>2, <3>1
  <2>2. CASE x > g
    <3>1. x % g = x - g
      BY <1>2, <2>2
    <3> QED
      BY <2>2, <3>1
  <2> QED
    BY <1>2, <2>1, <2>2
<1> QED
  BY <1>1, <1>2

(* Without overlap, the source of slot i is one gap up. *)
LEMMA SourceIsOneGapUp ==
  ASSUME NoOverlap, NEW i \in 0..(MinLength - 1)
  PROVE  Source(i) = i + Gap
<1> DEFINE P(j) == (j - i) % Gap = 0 /\ j - Gap < MinLength
           J == MinLength..(Length - 2)
<1>1. Gap \in Nat \ {0} /\ MinLength <= Gap /\ i + Gap \in J /\ i \in Nat
  BY SlidingListAssumption DEF NoOverlap, Gap
<1>2. \A x \in Int : 0 < x /\ x < 2 * Gap /\ x % Gap = 0 => x = Gap
  BY <1>1, OnlyMultiple
<1>3. P(i + Gap)
  <2>1. (i + Gap) - i = Gap /\ (i + Gap) - Gap < MinLength
    BY <1>1, SlidingListAssumption
  <2>2. Gap % Gap = 0
    BY <1>1, OnlyMultiple
  <2> QED
    BY <2>1, <2>2
<1>4. ASSUME NEW j \in J, P(j) PROVE j = i + Gap
  <2>1. j - i \in Int /\ 0 < j - i /\ j - i < 2 * Gap /\ (j - i) % Gap = 0
    BY <1>1, <1>4, SlidingListAssumption DEF Gap
  <2>2. j - i = Gap
    BY <1>2, <2>1
  <2> QED
    BY <1>1, <2>2, SlidingListAssumption
<1>5. i + Gap = CHOOSE j \in J : P(j)
  <2> HIDE DEF P, J
  <2> QED
    BY <1>1, <1>3, <1>4
<1> QED
  BY <1>5 DEF Source

LEMMA InitIInv == Init => IInv
  BY SlidingListAssumption
  DEF Init, IInv, TypeOK, Contiguous, HoldsEnough, Counted, Slots

(* The array holds its newest values in order, the newest of them v. *)
OrderedUpTo(v) == \A j \in 0..(m_itr - 1) : m_list[j] = v - m_itr + 1 + j

(* Writing the next value keeps the order, with and without a compaction,   *)
(* which leaves more values than the minimum length.  Nothing here speaks   *)
(* of the number of Append() calls: the columns of MarketData use it too.   *)
LEMMA WriteKeepsOrder ==
  ASSUME NoOverlap,
         m_list \in [Slots -> 0..MaxAppends], m_itr \in 0..(Length - 1), m_cum_size \in Nat,
         NEW n \in Nat, n + 1 <= MaxAppends, OrderedUpTo(n), Write(n + 1)
  PROVE  /\ m_list' \in [Slots -> 0..MaxAppends]
         /\ m_itr' \in 0..(Length - 1)
         /\ m_cum_size' = m_cum_size + 1
         /\ m_itr' = m_itr + 1 \/ (m_itr' = MinLength + 1 /\ m_itr' <= m_itr)
         /\ \A j \in 0..(m_itr' - 1) : m_list'[j] = (n + 1) - m_itr' + 1 + j
<1> USE SlidingListAssumption
<1>1. m_cum_size' = m_cum_size + 1
  BY DEF Write
<1>2. CASE Full
  <2>1. /\ m_itr = Length - 1 /\ m_itr' = MinLength + 1
        /\ m_list' = [Compacted EXCEPT ![MinLength] = n + 1]
    BY <1>2 DEF Write, Full
  <2>2. \A j \in 0..(MinLength - 1) : m_list'[j] = m_list[j + Gap]
    BY <2>1, SourceIsOneGapUp DEF Compacted, Slots
  <2>3. m_list'[MinLength] = n + 1
    BY <2>1 DEF Compacted, Slots
  <2>4. \A j \in 0..(MinLength - 1) : j + Gap \in 0..(m_itr - 1) /\ j + Gap \in Slots
    BY <2>1 DEF Gap, NoOverlap, Slots
  <2>5. m_list' \in [Slots -> 0..MaxAppends]
    <3>1. \A j \in Slots : m_list'[j] \in 0..MaxAppends
      <4> SUFFICES ASSUME NEW j \in Slots PROVE m_list'[j] \in 0..MaxAppends
        OBVIOUS
      <4>1. CASE j < MinLength
        BY <2>2, <2>4, <4>1 DEF Slots
      <4>2. CASE j = MinLength
        BY <2>3, <4>2
      <4>3. CASE j > MinLength
        BY <2>1, <4>3 DEF Compacted, Slots
      <4> QED
        BY <4>1, <4>2, <4>3 DEF Slots
    <3>2. m_list' = [j \in Slots |-> m_list'[j]]
      BY <2>1 DEF Compacted
    <3> QED
      BY <3>1, <3>2
  <2>6. \A j \in 0..MinLength : m_list'[j] = (n + 1) - (MinLength + 1) + 1 + j
    <3> SUFFICES ASSUME NEW j \in 0..MinLength
                 PROVE  m_list'[j] = (n + 1) - (MinLength + 1) + 1 + j
      OBVIOUS
    <3>1. CASE j = MinLength
      BY <2>3, <3>1
    <3>2. CASE j < MinLength
      BY <2>1, <2>2, <2>4, <3>2 DEF OrderedUpTo, Gap
    <3> QED
      BY <3>1, <3>2
  <2> QED
    BY <1>1, <2>1, <2>5, <2>6 DEF NoOverlap
<1>3. CASE ~Full
  <2>1. /\ m_itr < Length - 1 /\ m_itr' = m_itr + 1
        /\ m_list' = [m_list EXCEPT ![m_itr] = n + 1]
    BY <1>3 DEF Write, Full
  <2>2. m_list' \in [Slots -> 0..MaxAppends] /\ m_itr' \in 0..(Length - 1)
    BY <2>1 DEF Slots
  <2>3. \A j \in 0..(m_itr' - 1) : m_list'[j] = (n + 1) - m_itr' + 1 + j
    BY <2>1 DEF OrderedUpTo, Slots
  <2> QED
    BY <1>1, <2>1, <2>2, <2>3
<1> QED
  BY <1>2, <1>3

(* Append() keeps the invariant. *)
LEMMA AppendIInv == NoOverlap /\ IInv /\ Append => IInv'
<1> SUFFICES ASSUME NoOverlap, IInv, Append PROVE IInv'
  OBVIOUS
<1> USE SlidingListAssumption
<1>1. /\ appends' = appends + 1 /\ appends' \in 0..MaxAppends
      /\ resetAt' = resetAt /\ Write(appends + 1) /\ appends \in Nat
  BY DEF Append, IInv, TypeOK
<1>2. OrderedUpTo(appends)
  BY DEF IInv, Contiguous, OrderedUpTo
<1>3. /\ m_list' \in [Slots -> 0..MaxAppends]
      /\ m_itr' \in 0..(Length - 1)
      /\ m_cum_size' = m_cum_size + 1
      /\ m_itr' = m_itr + 1 \/ (m_itr' = MinLength + 1 /\ m_itr' <= m_itr)
      /\ \A j \in 0..(m_itr' - 1) : m_list'[j] = (appends + 1) - m_itr' + 1 + j
  <2> HIDE SlidingListAssumption
  <2>1. appends + 1 <= MaxAppends
    BY <1>1
  <2> QED
    BY <1>1, <1>2, <2>1, WriteKeepsOrder DEF IInv, TypeOK
<1>4. TypeOK'
  BY <1>1, <1>3 DEF IInv, TypeOK
<1>5. Contiguous'
  BY <1>1, <1>3 DEF Contiguous
<1>6. HoldsEnough' /\ Counted'
  BY <1>1, <1>3 DEF IInv, TypeOK, HoldsEnough, Counted
<1> QED
  BY <1>4, <1>5, <1>6 DEF IInv

LEMMA NextIInv == NoOverlap /\ IInv /\ [Next]_vars => IInv'
<1>1. IInv /\ ReSet => IInv'
  BY SlidingListAssumption DEF IInv, TypeOK, Contiguous, HoldsEnough, Counted, ReSet
<1>2. IInv /\ UNCHANGED vars => IInv'
  BY DEF IInv, TypeOK, Contiguous, HoldsEnough, Counted, vars
<1> QED
  BY <1>1, <1>2, AppendIInv DEF Next

THEOREM InductiveInvariant ==
  ASSUME NoOverlap
  PROVE  Spec => []IInv
<1>1. IInv /\ [Next]_vars => IInv'
  BY NoOverlap, NextIInv
<1> QED
  BY <1>1, InitIInv, PTL DEF Spec

(* m_itr never leaves the array, whatever sequence of Append() and ReSet(). *)
THEOREM TypeCorrect ==
  ASSUME NoOverlap
  PROVE  Spec => []TypeOK
<1>1. IInv => TypeOK
  BY DEF IInv
<1> QED
  BY <1>1, InductiveInvariant, PTL

(* pre(i) is the i-th newest value before, at and after every compaction. *)
THEOREM PreReadsNewest ==
  ASSUME NoOverlap
  PROVE  Spec => []PreIsNewest
<1>1. IInv => PreIsNewest
  BY SlidingListAssumption DEF IInv, TypeOK, Contiguous, HoldsEnough, PreIsNewest, Pre
<1> QED
  BY <1>1, InductiveInvariant, PTL

(* A full window holds the newest values, all from after the last ReSet(). *)
THEOREM WindowShowsNewest ==
  ASSUME NoOverlap
  PROVE  Spec => []WindowIsNewest
<1>1. IInv => WindowIsNewest
  <2> SUFFICES ASSUME IInv, m_cum_size >= MinLength \/ resetAt = 0
               PROVE  LET shown == Smaller(m_cum_size, MinLength)
                      IN  /\ m_itr - Begin = shown
                          /\ appends - shown >= resetAt
                          /\ \A i \in 0..(shown - 1) :
                               m_list[Begin + i] = appends - shown + 1 + i
    BY DEF WindowIsNewest
  <2> USE SlidingListAssumption
  <2>1. CASE m_cum_size >= MinLength
    BY <2>1 DEF IInv, TypeOK, Contiguous, HoldsEnough, Counted, Smaller, Begin
  <2>2. CASE m_cum_size < MinLength /\ resetAt = 0
    BY <2>2 DEF IInv, TypeOK, Contiguous, HoldsEnough, Counted, Smaller, Begin
  <2> QED
    BY <2>1, <2>2 DEF IInv, TypeOK
<1> QED
  BY <1>1, InductiveInvariant, PTL

----------------------------------------------------------------------------
(* The refinement. *)

(* What pre() gives as far as it may be read, as a function of its argument. *)
Shown == [age \in 0..(Readable - 1) |-> Pre(age)]

LEMMA ShownIsNewest ==
  IInv => /\ Readable \in Nat /\ Readable <= MinLength /\ Readable <= appends
          /\ Shown = [age \in 0..(Readable - 1) |-> appends - age]
<1> SUFFICES ASSUME IInv
             PROVE  /\ Readable \in Nat /\ Readable <= MinLength /\ Readable <= appends
                    /\ Shown = [age \in 0..(Readable - 1) |-> appends - age]
  OBVIOUS
<1> USE SlidingListAssumption
<1>1. Readable \in Nat /\ Readable <= MinLength /\ Readable <= appends
  BY DEF IInv, TypeOK, Counted, Readable, Smaller
<1>2. \A age \in 0..(Readable - 1) : Pre(age) = appends - age
  BY <1>1 DEF IInv, TypeOK, Contiguous, HoldsEnough, Pre
<1> QED
  BY <1>1, <1>2 DEF Shown

(* One more value makes everybody else one older. *)
LEMMA PushedNewest ==
  ASSUME NEW n \in Nat, NEW r \in Nat, NEW k \in Nat, k <= r + 1
  PROVE  [age \in 0..(k - 1) |-> (n + 1) - age] =
         [age \in 0..(k - 1) |->
            IF age = 0 THEN n + 1 ELSE [a \in 0..(r - 1) |-> n - a][age - 1]]
  OBVIOUS

LEMMA InitShown == Init => Recent!Init
<1> SUFFICES ASSUME Init PROVE Recent!Init
  OBVIOUS
<1>1. Readable = 0
  BY SlidingListAssumption DEF Init, Readable, Smaller
<1> QED
  BY <1>1 DEF Recent!Init

(* Append() pushes its value on what readers see. *)
LEMMA AppendPushes ==
  ASSUME NoOverlap, IInv, Append
  PROVE  Recent!Push(appends')
<1> USE SlidingListAssumption
<1>1. IInv'
  BY AppendIInv
<1>2. appends' = appends + 1 /\ m_cum_size' = m_cum_size + 1
  BY DEF Append, Write
<1>3. Readable' = Recent!Kept(Readable + 1)
  BY <1>2 DEF IInv, TypeOK, Readable, Smaller, Recent!Kept
<1>4. Shown = [age \in 0..(Readable - 1) |-> appends - age] /\ Readable \in Nat /\ appends \in Nat
  BY ShownIsNewest DEF IInv, TypeOK
<1>5. (/\ Readable \in Nat /\ Readable <= MinLength /\ Readable <= appends
       /\ Shown = [age \in 0..(Readable - 1) |-> appends - age])'
  BY <1>1, ShownIsNewest, PTL
<1>6. Shown' = [age \in 0..(Readable' - 1) |-> IF age = 0 THEN appends' ELSE Shown[age - 1]]
  <2>1. Readable' <= Readable + 1 /\ Readable' \in Nat
    BY <1>3, <1>4, <1>5 DEF Recent!Kept
  <2>2. Shown' = [age \in 0..(Readable' - 1) |-> appends' - age]
    BY <1>5
  <2> DEFINE n == appends
             r == Readable
             k == Readable'
  <2>3. [age \in 0..(k - 1) |-> (n + 1) - age] =
        [age \in 0..(k - 1) |->
           IF age = 0 THEN n + 1 ELSE [a \in 0..(r - 1) |-> n - a][age - 1]]
    <3>1. n \in Nat /\ r \in Nat /\ k \in Nat /\ k <= r + 1
      BY <1>4, <2>1
    <3> HIDE DEF n, r, k
    <3> QED
      BY <3>1, PushedNewest
  <2>4. appends' = n + 1 /\ Shown = [a \in 0..(r - 1) |-> n - a]
    BY <1>2, <1>4
  <2>5. Shown' = [age \in 0..(k - 1) |-> (n + 1) - age]
    BY <2>2, <2>4
  <2> QED
    BY <2>3, <2>4, <2>5
<1> QED
  BY <1>3, <1>6 DEF Shown, Recent!Push

LEMMA ReSetClears == ReSet => Recent!Clear
<1> SUFFICES ASSUME ReSet PROVE Recent!Clear
  OBVIOUS
<1>1. Readable' = 0
  BY SlidingListAssumption DEF ReSet, Readable, Smaller
<1> QED
  BY <1>1 DEF Recent!Clear

(* Read through pre() within cum_size(), the list is the bounded memory of  *)
(* RecentValues, across compactions and resets.                             *)
THEOREM ListImplementsRecentValues ==
  ASSUME NoOverlap
  PROVE  Spec => ImplementsRecentValues
<1>1. IInv /\ [Next]_vars => [Recent!Next]_<<Readable, Shown>>
  <2> SUFFICES ASSUME IInv, [Next]_vars PROVE [Recent!Next]_<<Readable, Shown>>
    OBVIOUS
  <2>1. CASE Append
    <3>1. appends' \in 1..MaxAppends
      BY <2>1, SlidingListAssumption DEF Append, IInv, TypeOK
    <3> QED
      BY <2>1, <3>1, NoOverlap, AppendPushes DEF Recent!Next
  <2>2. CASE ReSet
    BY <2>2, ReSetClears DEF Recent!Next
  <2>3. CASE UNCHANGED vars
    BY <2>3 DEF vars, Readable, Shown, Pre
  <2> QED
    BY <2>1, <2>2, <2>3 DEF Next
<1>2. [Recent!Next]_<<Readable, Shown>>
        <=> [Recent!Next]_<<Readable, [age \in 0..(Readable - 1) |-> Pre(age)]>>
  BY DEF Shown
<1> QED
  BY <1>1, <1>2, InitShown, InductiveInvariant, PTL DEF Spec, ImplementsRecentValues, Recent!Spec
============================================================================
