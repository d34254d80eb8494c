------------------------ MODULE ListOperatorsProofs ------------------------
(***************************************************************************)
(* The theorems about ListOperators, for all lengths of the array and of   *)
(* the window, any number of rows and of assignments, under the condition  *)
(* Apart on the two lengths.                                               *)
(*                                                                         *)
(* The argument goes by age.  One Append() makes every element one row     *)
(* older, also when it moves them; so does a sequence of them; so what a   *)
(* list made by an operator shows at an age follows from what its operands *)
(* show at that age.  The invariant says what the columns show.            *)
(***************************************************************************)
EXTENDS ListOperators, FiniteSetTheorems, SequenceTheorems, TLAPS

(* The slot of the oldest element copied is the only one that the copy of  *)
(* Append() may write before it reads it.  125 and 400 satisfy it.         *)
Apart == 2 * MinLength <= Length

Gap == Length - 1 - MinLength

Series == Seq(Int)
Forms  == [m_list : [Slots -> Series], m_itr : 0..(Length - 1), m_cum_size : Nat]

(* The window of a list is inside the array. *)
Lists  == {l \in Forms : l.m_cum_size <= l.m_itr \/ MinLength <= l.m_itr}

----------------------------------------------------------------------------
(* Induction, as the existence of a least counterexample. *)
LEMMA Least ==
  ASSUME NEW T, T \subseteq Nat, T # {}
  PROVE  \E m \in T : \A k \in T : m <= k
<1>1. PICK n \in T : TRUE
  OBVIOUS
<1>. DEFINE D == {s \in SUBSET (0..n) : \E k \in T : s = 0..k}
<1>2. D # {}
  <2>1. 0..n \in D
    BY <1>1
  <2>. QED BY <2>1
<1>3. IsFiniteSet(0..n)
  BY FS_Interval, <1>1
<1>4. FiniteSubsetsOf(0..n) = SUBSET (0..n)
  BY <1>3, FS_FiniteSubsetsOfFinite
<1>5. IsWellFoundedOn(StrictSubsetOrdering(0..n), SUBSET (0..n))
  BY <1>4, FS_StrictSubsetOrderingWellFounded
<1>6. PICK s \in D : \A t \in D : ~(<<t, s>> \in StrictSubsetOrdering(0..n))
  <2>1. D \subseteq SUBSET (0..n)
    OBVIOUS
  <2>. HIDE DEF D
  <2>. QED BY <2>1, <1>2, <1>5, WFMin
<1>7. PICK m \in T : s = 0..m
  BY DEF D
<1>8. ASSUME NEW k \in T, k < m PROVE FALSE
  <2>1. 0..k \subseteq 0..n /\ 0..k \subseteq s /\ 0..k # s
    <3>1. m \in Nat /\ k \in Nat /\ n \in Nat
      BY <1>8
    <3>2. s \subseteq 0..n
      OBVIOUS
    <3>3. m \in s
      BY <1>7, <3>1
    <3>. QED BY <1>8, <1>7, <3>1, <3>2, <3>3
  <2>2. 0..k \in D
    BY <2>1, <1>8
  <2>3. <<0..k, s>> \in StrictSubsetOrdering(0..n)
    BY <2>1 DEF StrictSubsetOrdering
  <2>. QED BY <2>2, <2>3, <1>6
<1>. QED BY <1>7, <1>8

(* Rows are joined in the order of the operators. *)
LEMMA Joined ==
  ASSUME NEW s \in Series, NEW t \in Series, NEW u \in Series,
         Len(u) = Len(s) + Len(t),
         \A i \in 1..Len(s) : u[i] = s[i],
         \A i \in 1..Len(t) : u[Len(s) + i] = t[i]
  PROVE  s \o t = u
<1>1. /\ s \o t \in Series /\ Len(s \o t) = Len(s) + Len(t) /\ Len(s) \in Nat /\ Len(t) \in Nat
      /\ \A i \in 1..(Len(s) + Len(t)) : (s \o t)[i] = IF i <= Len(s) THEN s[i] ELSE t[i - Len(s)]
  BY ConcatProperties DEF Series
<1>2. \A i \in 1..Len(u) : (s \o t)[i] = u[i]
  <2>1. SUFFICES ASSUME NEW i \in 1..Len(u) PROVE (s \o t)[i] = u[i]
    OBVIOUS
  <2>2. CASE i <= Len(s)
    BY <1>1, <2>2
  <2>3. CASE ~(i <= Len(s))
    <3>1. i - Len(s) \in 1..Len(t) /\ Len(s) + (i - Len(s)) = i
      BY <1>1, <2>3
    <3>2. (s \o t)[i] = t[i - Len(s)]
      BY <1>1, <2>3
    <3>3. u[Len(s) + (i - Len(s))] = t[i - Len(s)]
      BY <3>1
    <3>. QED BY <3>1, <3>2, <3>3
  <2>. QED BY <2>2, <2>3
<1>. QED BY <1>1, <1>2, SeqEqual DEF Series

LEMMA OneAndOne ==
  ASSUME NEW a \in Int, NEW b \in Int
  PROVE  <<a>> \o <<b>> = <<a, b>>
<1>. DEFINE s == <<a>>
            t == <<b>>
            u == <<a, b>>
<1>1. /\ s \in Series /\ t \in Series /\ u \in Series
      /\ Len(s) = 1 /\ Len(t) = 1 /\ Len(u) = 2
  BY DEF Series
<1>2. /\ s[1] = a /\ t[1] = b
      /\ u[1] = a /\ u[2] = b
  OBVIOUS
<1>. HIDE DEF s, t, u
<1>3. /\ Len(u) = Len(s) + Len(t)
      /\ \A i \in 1..Len(s) : u[i] = s[i]
      /\ \A i \in 1..Len(t) : u[Len(s) + i] = t[i]
  BY <1>1, <1>2
<1>. QED BY <1>1, <1>3, Joined DEF s, t, u

LEMMA OneAndTwo ==
  ASSUME NEW a \in Int, NEW b \in Int, NEW c \in Int
  PROVE  <<a>> \o <<b, c>> = <<a, b, c>>
<1>. DEFINE s == <<a>>
            t == <<b, c>>
            u == <<a, b, c>>
<1>1. /\ s \in Series /\ t \in Series /\ u \in Series
      /\ Len(s) = 1 /\ Len(t) = 2 /\ Len(u) = 3
  BY DEF Series
<1>2. /\ s[1] = a /\ t[1] = b /\ t[2] = c
      /\ u[1] = a /\ u[2] = b /\ u[3] = c
  OBVIOUS
<1>. HIDE DEF s, t, u
<1>3. /\ Len(u) = Len(s) + Len(t)
      /\ \A i \in 1..Len(s) : u[i] = s[i]
      /\ \A i \in 1..Len(t) : u[Len(s) + i] = t[i]
  BY <1>1, <1>2
<1>. QED BY <1>1, <1>3, Joined DEF s, t, u

LEMMA TwoAndOne ==
  ASSUME NEW a \in Int, NEW b \in Int, NEW c \in Int
  PROVE  <<a, b>> \o <<c>> = <<a, b, c>>
<1>. DEFINE s == <<a, b>>
            t == <<c>>
            u == <<a, b, c>>
<1>1. /\ s \in Series /\ t \in Series /\ u \in Series
      /\ Len(s) = 2 /\ Len(t) = 1 /\ Len(u) = 3
  BY DEF Series
<1>2. /\ s[1] = a /\ s[2] = b /\ t[1] = c
      /\ u[1] = a /\ u[2] = b /\ u[3] = c
  OBVIOUS
<1>. HIDE DEF s, t, u
<1>3. /\ Len(u) = Len(s) + Len(t)
      /\ \A i \in 1..Len(s) : u[i] = s[i]
      /\ \A i \in 1..Len(t) : u[Len(s) + i] = t[i]
  BY <1>1, <1>2
<1>. QED BY <1>1, <1>3, Joined DEF s, t, u

LEMMA TwoAndTwo ==
  ASSUME NEW a \in Int, NEW b \in Int, NEW c \in Int, NEW d \in Int
  PROVE  <<a, b>> \o <<c, d>> = <<a, b, c, d>>
<1>. DEFINE s == <<a, b>>
            t == <<c, d>>
            u == <<a, b, c, d>>
<1>1. /\ s \in Series /\ t \in Series /\ u \in Series
      /\ Len(s) = 2 /\ Len(t) = 2 /\ Len(u) = 4
  BY DEF Series
<1>2. /\ s[1] = a /\ s[2] = b /\ t[1] = c /\ t[2] = d
      /\ u[1] = a /\ u[2] = b /\ u[3] = c /\ u[4] = d
  OBVIOUS
<1>. HIDE DEF s, t, u
<1>3. /\ Len(u) = Len(s) + Len(t)
      /\ \A i \in 1..Len(s) : u[i] = s[i]
      /\ \A i \in 1..Len(t) : u[Len(s) + i] = t[i]
  BY <1>1, <1>2
<1>. QED BY <1>1, <1>3, Joined DEF s, t, u

LEMMA ThreeAndOne ==
  ASSUME NEW a \in Int, NEW b \in Int
  PROVE  <<a, b, a>> \o <<a>> = <<a, b, a, a>>
<1>. DEFINE s == <<a, b, a>>
            t == <<a>>
            u == <<a, b, a, a>>
<1>1. /\ s \in Series /\ t \in Series /\ u \in Series
      /\ Len(s) = 3 /\ Len(t) = 1 /\ Len(u) = 4
  BY DEF Series
<1>2. /\ s[1] = a /\ s[2] = b /\ s[3] = a /\ t[1] = a
      /\ u[1] = a /\ u[2] = b /\ u[3] = a /\ u[4] = a
  OBVIOUS
<1>. HIDE DEF s, t, u
<1>3. /\ Len(u) = Len(s) + Len(t)
      /\ \A i \in 1..Len(s) : u[i] = s[i]
      /\ \A i \in 1..Len(t) : u[Len(s) + i] = t[i]
  BY <1>1, <1>2
<1>. QED BY <1>1, <1>3, Joined DEF s, t, u

LEMMA ThreeAndTwo ==
  ASSUME NEW a \in Int, NEW b \in Int, NEW c \in Int, NEW d \in Int, NEW e \in Int
  PROVE  <<a, b, c>> \o <<d, e>> = <<a, b, c, d, e>>
<1>. DEFINE s == <<a, b, c>>
            t == <<d, e>>
            u == <<a, b, c, d, e>>
<1>1. /\ s \in Series /\ t \in Series /\ u \in Series
      /\ Len(s) = 3 /\ Len(t) = 2 /\ Len(u) = 5
  BY DEF Series
<1>2. /\ s[1] = a /\ s[2] = b /\ s[3] = c /\ t[1] = d /\ t[2] = e
      /\ u[1] = a /\ u[2] = b /\ u[3] = c /\ u[4] = d /\ u[5] = e
  OBVIOUS
<1>. HIDE DEF s, t, u
<1>3. /\ Len(u) = Len(s) + Len(t)
      /\ \A i \in 1..Len(s) : u[i] = s[i]
      /\ \A i \in 1..Len(t) : u[Len(s) + i] = t[i]
  BY <1>1, <1>2
<1>. QED BY <1>1, <1>3, Joined DEF s, t, u

LEMMA FiveAndOne ==
  ASSUME NEW a \in Int, NEW b \in Int, NEW c \in Int
  PROVE  <<a, b, c, a, c>> \o <<a>> = <<a, b, c, a, c, a>>
<1>. DEFINE s == <<a, b, c, a, c>>
            t == <<a>>
            u == <<a, b, c, a, c, a>>
<1>1. /\ s \in Series /\ t \in Series /\ u \in Series
      /\ Len(s) = 5 /\ Len(t) = 1 /\ Len(u) = 6
  BY DEF Series
<1>2. /\ s[1] = a /\ s[2] = b /\ s[3] = c /\ s[4] = a /\ s[5] = c /\ t[1] = a
      /\ u[1] = a /\ u[2] = b /\ u[3] = c /\ u[4] = a /\ u[5] = c /\ u[6] = a
  OBVIOUS
<1>. HIDE DEF s, t, u
<1>3. /\ Len(u) = Len(s) + Len(t)
      /\ \A i \in 1..Len(s) : u[i] = s[i]
      /\ \A i \in 1..Len(t) : u[Len(s) + i] = t[i]
  BY <1>1, <1>2
<1>. QED BY <1>1, <1>3, Joined DEF s, t, u

LEMMA Scaled ==
  ASSUME NEW s \in Series
  PROVE  Append(s, Scalar) = s \o <<Scalar>>
BY AppendIsConcat DEF Series, Scalar

----------------------------------------------------------------------------
(* One Append().  Copied to the front, every slot but the first comes from *)
(* one gap up; the first one is behind the minimum length.                 *)

SourceOf(i) == CHOOSE j \in MinLength..(Length - 2) : (j - i) % Gap = 0 /\ j - Gap < MinLength

LEMMA OnlyMultiple ==
  ASSUME NEW g \in Nat \ {0}
  PROVE  /\ g % g = 0 /\ (2 * g) % g = 0
         /\ \A x \in Int : 0 < x /\ x < 2 * g /\ x % g = 0 => x = g
<1>1. g % g = 0
  OBVIOUS
<1>2. (2 * g) % g = 0
  OBVIOUS
<1>3. ASSUME NEW x \in Int, 0 < x, x < 2 * g, x # g
      PROVE  x % g # 0
  <2>1. CASE x < g
    <3>1. x % g = x
      BY <1>3, <2>1
    <3>. QED BY <1>3, <3>1
  <2>2. CASE x > g
    <3>1. x % g = x - g
      BY <1>3, <2>2
    <3>. QED BY <2>2, <3>1
  <2>. QED BY <1>3, <2>1, <2>2
<1>. QED BY <1>1, <1>2, <1>3

LEMMA SourceIsOneGapUp ==
  ASSUME Apart
  PROVE  /\ \A i \in 1..(MinLength - 1) : SourceOf(i) = i + Gap
         /\ SourceOf(0) \in MinLength..(Length - 2)
<1>. DEFINE J == MinLength..(Length - 2)
            P(i, j) == (j - i) % Gap = 0 /\ j - Gap < MinLength
<1>1. /\ Gap \in Nat \ {0} /\ MinLength - 1 <= Gap /\ MinLength \in Nat /\ MinLength > 1
      /\ Length - 2 = MinLength + Gap - 1 /\ Length \in Nat
  BY ListOperatorsAssumption DEF Apart, Gap
<1>2. /\ Gap % Gap = 0 /\ (2 * Gap) % Gap = 0
      /\ \A x \in Int : 0 < x /\ x < 2 * Gap /\ x % Gap = 0 => x = Gap
  BY <1>1, OnlyMultiple
<1>. HIDE DEF Gap
<1>3. ASSUME NEW i \in 1..(MinLength - 1)
      PROVE  SourceOf(i) = i + Gap
  <2>1. i + Gap \in J /\ P(i, i + Gap)
    <3>1. (i + Gap) - i = Gap /\ (i + Gap) - Gap < MinLength /\ i + Gap \in J
      BY <1>1
    <3>. QED BY <1>2, <3>1
  <2>2. ASSUME NEW j \in J, P(i, j) PROVE j = i + Gap
    <3>1. j - i \in Int /\ 0 < j - i /\ j - i < 2 * Gap
      BY <1>1
    <3>2. j - i = Gap
      BY <1>2, <2>2, <3>1
    <3>. QED BY <1>1, <3>2
  <2>3. SourceOf(i) = CHOOSE j \in J : P(i, j)
    BY DEF SourceOf
  <2>. HIDE DEF P, J
  <2>. QED BY <2>1, <2>2, <2>3
<1>4. SourceOf(0) \in J
  <2>1. \E j \in J : P(0, j)
    <3>1. CASE Gap >= MinLength
      <4>1. Gap \in J /\ Gap - 0 = Gap /\ Gap - Gap < MinLength
        BY <1>1, <3>1
      <4>. QED BY <1>2, <4>1
    <3>2. CASE Gap = MinLength - 1
      <4>1. 2 * Gap \in J /\ 2 * Gap - 0 = 2 * Gap /\ 2 * Gap - Gap < MinLength
        BY <1>1, <3>2
      <4>. QED BY <1>2, <4>1
    <3>. QED BY <1>1, <3>1, <3>2
  <2>2. SourceOf(0) = CHOOSE j \in J : P(0, j)
    BY DEF SourceOf
  <2>. HIDE DEF P, J
  <2>. QED BY <2>1, <2>2
<1>. QED BY <1>3, <1>4

LEMMA Elements ==
  ASSUME NEW l
  PROVE  /\ \A i : Pre(l, i) = l.m_list[l.m_itr - 1 - i]
         /\ Begin(l) = IF l.m_cum_size >= MinLength THEN l.m_itr - MinLength ELSE 0
         /\ Full(l) <=> l.m_itr >= Length - 1
         /\ Compacted(l) = [j \in Slots |-> IF j < MinLength THEN l.m_list[SourceOf(j)]
                                            ELSE l.m_list[j]]
<1>1. \A i : Pre(l, i) = l.m_list[l.m_itr - 1 - i]
  BY DEF Pre, Array!Pre
<1>2. Begin(l) = IF l.m_cum_size >= MinLength THEN l.m_itr - MinLength ELSE 0
  BY DEF Begin, Array!Begin
<1>3. Full(l) <=> l.m_itr >= Length - 1
  BY DEF Full, Array!Full
<1>4. Compacted(l) = [j \in Slots |-> IF j < MinLength THEN l.m_list[SourceOf(j)]
                                      ELSE l.m_list[j]]
  BY DEF Compacted, Array!Compacted, Slots, Array!Slots, SourceOf, Gap, Array!Source, Array!Gap
<1>. QED BY <1>1, <1>2, <1>3, <1>4

(* The value becomes the newest, and all others one older; while there is   *)
(* space nothing is moved.                                                  *)
LEMMA AppendedOne ==
  ASSUME Apart, NEW l \in Lists, NEW v \in Series
  PROVE  /\ Appended(l, v) \in Lists
         /\ Appended(l, v).m_cum_size = l.m_cum_size + 1
         /\ Pre(Appended(l, v), 0) = v
         /\ \A age \in 1..(MinLength - 1) : age <= l.m_itr =>
              Pre(Appended(l, v), age) = Pre(l, age - 1)
         /\ IF l.m_itr < Length - 1
            THEN /\ Appended(l, v).m_itr = l.m_itr + 1
                 /\ Appended(l, v).m_list = [l.m_list EXCEPT ![l.m_itr] = v]
            ELSE Appended(l, v).m_itr = MinLength + 1
<1>. DEFINE a == Appended(l, v)
<1>1. /\ MinLength \in Nat /\ MinLength > 1 /\ Length \in Nat /\ MinLength < Length - 1
      /\ l.m_itr \in 0..(Length - 1) /\ l.m_list \in [Slots -> Series] /\ l.m_cum_size \in Nat
      /\ l.m_cum_size <= l.m_itr \/ MinLength <= l.m_itr
  BY ListOperatorsAssumption DEF Lists, Forms
<1>2. Slots = 0..(Length - 1)
  BY DEF Slots
<1>3. \A k : l.m_itr - 1 - k = (l.m_itr - 1) - k
  OBVIOUS
<1>4. CASE l.m_itr < Length - 1
  <2>1. ~Full(l)
    BY <1>1, <1>4, Elements
  <2>2. a = [m_list |-> [l.m_list EXCEPT ![l.m_itr] = v], m_itr |-> l.m_itr + 1,
             m_cum_size |-> l.m_cum_size + 1]
    BY <2>1 DEF Appended
  <2>. HIDE DEF a
  <2>3. a \in Lists
    <3>1. [l.m_list EXCEPT ![l.m_itr] = v] \in [Slots -> Series]
      BY <1>1
    <3>2. /\ l.m_itr + 1 \in 0..(Length - 1) /\ l.m_cum_size + 1 \in Nat
          /\ l.m_cum_size + 1 <= l.m_itr + 1 \/ MinLength <= l.m_itr + 1
      BY <1>1, <1>4
    <3>. QED BY <2>2, <3>1, <3>2 DEF Lists, Forms
  <2>4. \A k \in Slots : a.m_list[k] = IF k = l.m_itr THEN v ELSE l.m_list[k]
    BY <1>1, <2>2
  <2>5. a.m_itr = l.m_itr + 1 /\ a.m_itr - 1 - 0 = l.m_itr /\ l.m_itr \in Slots
    BY <1>1, <1>2, <2>2
  <2>6. Pre(a, 0) = v
    BY <2>4, <2>5, Elements
  <2>7. ASSUME NEW age \in 1..(MinLength - 1), age <= l.m_itr
        PROVE  Pre(a, age) = Pre(l, age - 1)
    <3>1. /\ a.m_itr - 1 - age = l.m_itr - age /\ l.m_itr - 1 - (age - 1) = l.m_itr - age
          /\ l.m_itr - age \in Slots /\ l.m_itr - age # l.m_itr
      BY <1>1, <1>2, <2>5, <2>7
    <3>2. a.m_list[l.m_itr - age] = l.m_list[l.m_itr - age]
      BY <2>4, <3>1
    <3>3. /\ Pre(a, age) = a.m_list[a.m_itr - 1 - age]
          /\ Pre(l, age - 1) = l.m_list[l.m_itr - 1 - (age - 1)]
      BY Elements
    <3>. QED BY <3>1, <3>2, <3>3
  <2>8. a.m_cum_size = l.m_cum_size + 1 /\ a.m_list = [l.m_list EXCEPT ![l.m_itr] = v]
    BY <2>2
  <2>. QED BY <1>4, <2>3, <2>5, <2>6, <2>7, <2>8 DEF a
<1>5. CASE l.m_itr = Length - 1
  <2>1. Full(l)
    BY <1>1, <1>5, Elements
  <2>. DEFINE c == Compacted(l)
  <2>2. a = [m_list |-> [c EXCEPT ![MinLength] = v], m_itr |-> MinLength + 1,
             m_cum_size |-> l.m_cum_size + 1]
    BY <2>1 DEF Appended
  <2>3. c = [j \in Slots |-> IF j < MinLength THEN l.m_list[SourceOf(j)] ELSE l.m_list[j]]
    BY Elements
  <2>. HIDE DEF a, c
  <2>4. \A j \in 0..(MinLength - 1) : SourceOf(j) \in Slots
    <3>1. \A j \in 1..(MinLength - 1) : j + Gap \in Slots
      BY <1>1, <1>2 DEF Gap
    <3>2. MinLength..(Length - 2) \subseteq Slots
      BY <1>1, <1>2
    <3>. QED BY <1>1, <3>1, <3>2, SourceIsOneGapUp
  <2>5. c \in [Slots -> Series]
    <3>1. \A j \in Slots : j < MinLength => j \in 0..(MinLength - 1)
      BY <1>1, <1>2
    <3>. QED BY <1>1, <2>3, <2>4, <3>1
  <2>6. a \in Lists
    <3>1. [c EXCEPT ![MinLength] = v] \in [Slots -> Series]
      BY <2>5
    <3>2. MinLength + 1 \in 0..(Length - 1) /\ l.m_cum_size + 1 \in Nat
      BY <1>1
    <3>. QED BY <1>1, <2>2, <3>1, <3>2 DEF Lists, Forms
  <2>7. \A k \in Slots : a.m_list[k] = IF k = MinLength THEN v ELSE c[k]
    BY <2>2, <2>5
  <2>8. a.m_itr = MinLength + 1 /\ a.m_itr - 1 - 0 = MinLength /\ MinLength \in Slots
    BY <1>1, <1>2, <2>2
  <2>9. Pre(a, 0) = v
    BY <2>7, <2>8, Elements
  <2>10. ASSUME NEW age \in 1..(MinLength - 1), age <= l.m_itr
         PROVE  Pre(a, age) = Pre(l, age - 1)
    <3>. DEFINE k == MinLength - age
    <3>1. /\ a.m_itr - 1 - age = k /\ l.m_itr - 1 - (age - 1) = k + Gap
          /\ k \in Slots /\ k # MinLength /\ k < MinLength /\ k \in 1..(MinLength - 1)
      BY <1>1, <1>2, <1>5, <2>8, <2>10 DEF Gap
    <3>2. SourceOf(k) = k + Gap
      BY <3>1, SourceIsOneGapUp
    <3>. HIDE DEF k
    <3>3. a.m_list[k] = c[k]
      BY <2>7, <3>1
    <3>4. c[k] = l.m_list[k + Gap]
      BY <2>3, <3>1, <3>2
    <3>5. /\ Pre(a, age) = a.m_list[a.m_itr - 1 - age]
          /\ Pre(l, age - 1) = l.m_list[l.m_itr - 1 - (age - 1)]
      BY Elements
    <3>. QED BY <3>1, <3>3, <3>4, <3>5
  <2>11. a.m_cum_size = l.m_cum_size + 1
    BY <2>2
  <2>. QED BY <1>1, <1>5, <2>6, <2>8, <2>9, <2>10, <2>11 DEF a
<1>. QED BY <1>1, <1>4, <1>5

----------------------------------------------------------------------------
(* Appending the values of a sequence, one after the other. *)

Step(l, values, g, s) ==
  IF s = {} THEN l ELSE Appended(g[s \ {Max(s)}], values[Max(s)])

(* The fold over subsets by which a fold of a sequence is defined. *)
LEMMA FoldExists ==
  ASSUME NEW l, NEW values, NEW n \in Nat
  PROVE  \E g : g = [s \in SUBSET (1..n) |-> Step(l, values, g, s)]
<1>. DEFINE P(m) == \E g : g = [s \in SUBSET (1..m) |-> Step(l, values, g, s)]
            T    == {m \in Nat : ~P(m)}
<1>1. SUFFICES ASSUME T # {} PROVE FALSE
  BY DEF T
<1>2. PICK m \in T : \A k \in T : m <= k
  <2>1. T \subseteq Nat
    OBVIOUS
  <2>. HIDE DEF T
  <2>. QED BY <1>1, <2>1, Least
<1>3. CASE m = 0
  <2>. DEFINE g == [s \in SUBSET (1..0) |-> l]
  <2>1. \A s \in SUBSET (1..0) : Step(l, values, g, s) = l
    BY DEF Step
  <2>2. g = [s \in SUBSET (1..0) |-> Step(l, values, g, s)]
    BY <2>1
  <2>. QED BY <1>3, <2>2
<1>4. CASE m # 0
  <2>. DEFINE p == m - 1
  <2>1. p \in Nat /\ ~(m <= p) /\ m = p + 1 /\ m \in Nat
    BY <1>4
  <2>2. P(p)
    <3>. HIDE DEF p, P
    <3>. QED BY <1>2, <2>1
  <2>3. PICK g : g = [s \in SUBSET (1..p) |-> Step(l, values, g, s)]
    BY <2>2
  <2>. HIDE DEF p
  <2>. DEFINE h == [s \in SUBSET (1..m) |-> IF m \in s THEN Appended(g[s \ {m}], values[m])
                                            ELSE g[s]]
  <2>4. ASSUME NEW s \in SUBSET (1..m)
        PROVE  h[s] = Step(l, values, h, s)
    <3>1. CASE m \in s
      <4>1. Max(s) = m
        <5>1. \A x \in s : m >= x /\ x \in Nat
          BY <2>1
        <5>2. \A x \in s : x >= m => x = m
          BY <2>1, <5>1
        <5>. QED BY <3>1, <5>1, <5>2 DEF Max
      <4>2. s \ {m} \in SUBSET (1..m) /\ m \notin s \ {m}
        OBVIOUS
      <4>3. h[s \ {m}] = g[s \ {m}]
        BY <4>2
      <4>4. h[s] = Appended(g[s \ {m}], values[m])
        BY <3>1
      <4>. QED BY <3>1, <4>1, <4>3, <4>4 DEF Step
    <3>2. CASE m \notin s
      <4>1. s \in SUBSET (1..p)
        BY <2>1, <3>2
      <4>2. h[s] = g[s]
        BY <3>2
      <4>3. g[s] = Step(l, values, g, s)
        BY <2>3, <4>1
      <4>4. s \ {Max(s)} \in SUBSET (1..m) /\ m \notin s \ {Max(s)}
        BY <3>2
      <4>5. h[s \ {Max(s)}] = g[s \ {Max(s)}]
        BY <4>4
      <4>. QED BY <4>2, <4>3, <4>5 DEF Step
    <3>. QED BY <3>1, <3>2
  <2>5. h = [s \in SUBSET (1..m) |-> Step(l, values, h, s)]
    <3>1. [s \in SUBSET (1..m) |-> h[s]] = [s \in SUBSET (1..m) |-> Step(l, values, h, s)]
      BY <2>4
    <3>2. h = [s \in SUBSET (1..m) |-> h[s]]
      OBVIOUS
    <3>. QED BY <3>1, <3>2
  <2>. QED BY <2>5
<1>. QED BY <1>3, <1>4

(* AppendedAll() goes through one list per value. *)
LEMMA Iterates ==
  ASSUME NEW l, NEW values, NEW n \in Nat, DOMAIN values = 1..n
  PROVE  \E h : /\ h[0] = l
                /\ \A k \in 1..n : h[k] = Appended(h[k - 1], values[k])
                /\ AppendedAll(l, values) = h[n]
<1>. DEFINE G == CHOOSE g : g = [s \in SUBSET DOMAIN values |->
                                   IF s = {} THEN l ELSE Appended(g[s \ {Max(s)}], values[Max(s)])]
            h == [k \in 0..n |-> G[1..k]]
<1>1. AppendedAll(l, values) = G[DOMAIN values]
  BY DEF AppendedAll, FoldLeft, MapThenFoldSet
<1>2. G = [s \in SUBSET DOMAIN values |->
             IF s = {} THEN l ELSE Appended(G[s \ {Max(s)}], values[Max(s)])]
  <2>1. \E g : g = [s \in SUBSET DOMAIN values |->
                      IF s = {} THEN l ELSE Appended(g[s \ {Max(s)}], values[Max(s)])]
    <3>1. \E g : g = [s \in SUBSET (1..n) |-> Step(l, values, g, s)]
      BY FoldExists
    <3>. QED BY <3>1 DEF Step
  <2>. QED BY <2>1
<1>. HIDE DEF G
<1>3. h[0] = l
  <2>1. 1..0 = {} /\ 0 \in 0..n
    OBVIOUS
  <2>2. G[{}] = l
    BY <1>2
  <2>. QED BY <2>1, <2>2
<1>4. ASSUME NEW k \in 1..n
      PROVE  h[k] = Appended(h[k - 1], values[k])
  <2>1. /\ 1..k \in SUBSET DOMAIN values /\ 1..k # {} /\ (1..k) \ {k} = 1..(k - 1)
        /\ k \in 0..n /\ k - 1 \in 0..n
    <3>1. 1..k \subseteq 1..n /\ k \in 1..k /\ k \in 0..n /\ k - 1 \in 0..n
      OBVIOUS
    <3>2. (1..k) \ {k} = 1..(k - 1)
      OBVIOUS
    <3>. QED BY <3>1, <3>2
  <2>2. Max(1..k) = k
    <3>1. k \in 1..k /\ (\A x \in 1..k : k >= x) /\ \A x \in 1..k : x >= k => x = k
      OBVIOUS
    <3>. QED BY <3>1 DEF Max
  <2>3. G[1..k] = Appended(G[(1..k) \ {Max(1..k)}], values[Max(1..k)])
    BY <1>2, <2>1
  <2>4. h[k] = G[1..k] /\ h[k - 1] = G[1..(k - 1)]
    BY <2>1
  <2>. QED BY <2>1, <2>2, <2>3, <2>4
<1>5. AppendedAll(l, values) = h[n]
  BY <1>1
<1>. QED BY <1>3, <1>4, <1>5

(* The values become the newest elements, the last of them at age 0; while  *)
(* there is space for all of them nothing is moved.                         *)
LEMMA AppendedMany ==
  ASSUME Apart, NEW l \in Lists, NEW n \in Nat, NEW values \in [1..n -> Series]
  PROVE  LET a == AppendedAll(l, values)
         IN  /\ a \in Lists
             /\ a.m_cum_size = l.m_cum_size + n
             /\ \A age \in 0..(MinLength - 1) : age < n => Pre(a, age) = values[n - age]
             /\ l.m_itr + n <= a.m_itr \/ MinLength < a.m_itr
             /\ l.m_itr + n <= Length - 1 => a.m_itr = l.m_itr + n
<1>1. /\ MinLength \in Nat /\ MinLength > 1 /\ Length \in Nat /\ MinLength < Length - 1
      /\ l.m_itr \in 0..(Length - 1) /\ l.m_cum_size \in Nat
  BY ListOperatorsAssumption DEF Lists, Forms
<1>2. PICK h : /\ h[0] = l
               /\ \A k \in 1..n : h[k] = Appended(h[k - 1], values[k])
               /\ AppendedAll(l, values) = h[n]
  BY Iterates
<1>. DEFINE Ages(k) == \A age \in 0..(MinLength - 1) : age < k => Pre(h[k], age) = values[k - age]
            Itr(k)  == /\ l.m_itr + k <= h[k].m_itr \/ MinLength < h[k].m_itr
                       /\ l.m_itr + k <= Length - 1 => h[k].m_itr = l.m_itr + k
            P(k)    == /\ h[k] \in Lists
                       /\ h[k].m_cum_size = l.m_cum_size + k
                       /\ Ages(k) /\ Itr(k)
            T       == {k \in 0..n : ~P(k)}
<1>3. P(0)
  <2>1. Ages(0)
    OBVIOUS
  <2>2. Itr(0)
    BY <1>1, <1>2
  <2>. QED BY <1>1, <1>2, <2>1, <2>2
<1>4. ASSUME NEW p \in 0..(n - 1), P(p)
      PROVE  P(p + 1)
  <2>. DEFINE b == h[p]
              a == h[p + 1]
              v == values[p + 1]
  <2>1. /\ a = Appended(b, v) /\ v \in Series /\ b \in Lists
        /\ b.m_cum_size = l.m_cum_size + p
        /\ p + 1 \in 1..n /\ p \in Nat
    <3>1. p + 1 \in 1..n /\ (p + 1) - 1 = p /\ p \in Nat
      BY <1>4
    <3>2. h[p + 1] = Appended(h[(p + 1) - 1], values[p + 1])
      BY <1>2, <3>1
    <3>. QED BY <1>4, <3>1, <3>2
  <2>2. /\ a \in Lists /\ a.m_cum_size = b.m_cum_size + 1 /\ Pre(a, 0) = v
        /\ \A age \in 1..(MinLength - 1) : age <= b.m_itr => Pre(a, age) = Pre(b, age - 1)
        /\ b.m_itr < Length - 1 => a.m_itr = b.m_itr + 1
        /\ ~(b.m_itr < Length - 1) => a.m_itr = MinLength + 1
    <3>. HIDE DEF a, b, v
    <3>. QED BY <2>1, AppendedOne
  <2>3. b.m_itr \in 0..(Length - 1)
    BY <2>1 DEF Lists, Forms
  <2>4. /\ l.m_itr + p <= b.m_itr \/ MinLength < b.m_itr
        /\ l.m_itr + p <= Length - 1 => b.m_itr = l.m_itr + p
    BY <1>4
  <2>5. \A age \in 0..(MinLength - 1) : age < p => Pre(b, age) = values[p - age]
    BY <1>4
  <2>. HIDE DEF a, b
  <2>6. Itr(p + 1)
    <3>1. /\ l.m_itr + (p + 1) <= a.m_itr \/ MinLength < a.m_itr
          /\ l.m_itr + (p + 1) <= Length - 1 => a.m_itr = l.m_itr + (p + 1)
      <4>1. CASE b.m_itr < Length - 1
        <5>1. a.m_itr = b.m_itr + 1
          BY <2>2, <4>1
        <5>. DEFINE x == l.m_itr
                    y == b.m_itr
        <5>2. /\ x \in Nat /\ p \in Nat /\ y \in Nat /\ MinLength \in Nat /\ Length \in Nat
              /\ x + p <= y \/ MinLength < y
              /\ x + p <= Length - 1 => y = x + p
          BY <1>1, <2>1, <2>3, <2>4
        <5>. HIDE DEF x, y
        <5>3. /\ x + (p + 1) <= y + 1 \/ MinLength < y + 1
              /\ x + (p + 1) <= Length - 1 => y + 1 = x + (p + 1)
          BY <5>2
        <5>. QED BY <5>1, <5>3 DEF x, y
      <4>2. CASE ~(b.m_itr < Length - 1)
        <5>1. a.m_itr = MinLength + 1
          BY <2>2, <4>2
        <5>. DEFINE x == l.m_itr
                    y == b.m_itr
        <5>2. /\ x \in Nat /\ p \in Nat /\ y \in Nat /\ MinLength \in Nat /\ Length \in Nat
              /\ ~(y < Length - 1)
              /\ x + p <= Length - 1 => y = x + p
          BY <1>1, <2>1, <2>3, <2>4, <4>2
        <5>. HIDE DEF x, y
        <5>3. MinLength < MinLength + 1 /\ ~(x + (p + 1) <= Length - 1)
          BY <5>2
        <5>. QED BY <5>1, <5>3 DEF x
      <4>. QED BY <4>1, <4>2
    <3>. QED BY <3>1 DEF a
  <2>7. ASSUME NEW age \in 0..(MinLength - 1), age < p + 1
        PROVE  Pre(a, age) = values[(p + 1) - age]
    <3>1. CASE age = 0
      BY <2>1, <2>2, <3>1
    <3>2. CASE age # 0
      <4>1. /\ age \in 1..(MinLength - 1) /\ age - 1 \in 0..(MinLength - 1) /\ age - 1 < p
            /\ age <= b.m_itr /\ p - (age - 1) = (p + 1) - age
        BY <1>1, <2>1, <2>3, <2>4, <2>7, <3>2
      <4>2. Pre(a, age) = Pre(b, age - 1)
        BY <2>2, <4>1
      <4>3. Pre(b, age - 1) = values[p - (age - 1)]
        BY <2>5, <4>1
      <4>. QED BY <4>1, <4>2, <4>3
    <3>. QED BY <3>1, <3>2
  <2>8. Ages(p + 1)
    BY <2>7 DEF a
  <2>9. a.m_cum_size = l.m_cum_size + (p + 1)
    BY <1>1, <2>1, <2>2
  <2>. QED BY <2>2, <2>6, <2>8, <2>9 DEF a
<1>. HIDE DEF P
<1>5. T = {}
  <2>1. SUFFICES ASSUME T # {} PROVE FALSE
    OBVIOUS
  <2>2. PICK m \in T : \A k \in T : m <= k
    <3>1. T \subseteq Nat
      OBVIOUS
    <3>. HIDE DEF T
    <3>. QED BY <2>1, <3>1, Least
  <2>3. m \in 1..n /\ ~P(m)
    BY <1>3
  <2>4. P(m - 1)
    <3>1. m - 1 \in 0..n /\ ~(m <= m - 1)
      BY <2>3
    <3>2. m - 1 \notin T
      BY <2>2, <3>1
    <3>. QED BY <3>1, <3>2
  <2>5. m - 1 \in 0..(n - 1) /\ (m - 1) + 1 = m
    BY <2>3
  <2>6. P((m - 1) + 1)
    BY <1>4, <2>4, <2>5
  <2>. QED BY <2>3, <2>5, <2>6
<1>6. P(n)
  BY <1>5
<1>. QED BY <1>2, <1>6 DEF P

(* A list shows its n newest elements. *)
Shows(l, n) == l \in Lists /\ n \in 0..MinLength /\ n <= l.m_itr - Begin(l)

Width(l) == l.m_itr - Begin(l)

LEMMA Windows ==
  ASSUME NEW l \in Lists
  PROVE  /\ Begin(l) \in 0..l.m_itr
         /\ Width(l) \in 0..(Length - 1)
         /\ Width(l) = MinLength \/ (Width(l) = l.m_itr /\ l.m_cum_size < MinLength)
         /\ Window(l) \in [1..Width(l) -> Series]
         /\ Window(l) \in Seq(Series)
         /\ Len(Window(l)) = Width(l)
         /\ \A i \in 1..Width(l) : Window(l)[i] = Pre(l, Width(l) - i)
<1>1. /\ MinLength \in Nat /\ MinLength > 1 /\ Length \in Nat /\ MinLength < Length - 1
      /\ l.m_itr \in 0..(Length - 1) /\ l.m_list \in [Slots -> Series] /\ l.m_cum_size \in Nat
      /\ l.m_cum_size <= l.m_itr \/ MinLength <= l.m_itr
  BY ListOperatorsAssumption DEF Lists, Forms
<1>2. Begin(l) = IF l.m_cum_size >= MinLength THEN l.m_itr - MinLength ELSE 0
  BY Elements
<1>3. /\ Begin(l) \in 0..l.m_itr /\ Width(l) \in 0..(Length - 1)
      /\ Width(l) = MinLength \/ (Width(l) = l.m_itr /\ l.m_cum_size < MinLength)
  BY <1>1, <1>2 DEF Width
<1>4. Window(l) = [i \in 1..Width(l) |-> l.m_list[Begin(l) + i - 1]]
  BY DEF Window, Width
<1>5. \A i \in 1..Width(l) : /\ Begin(l) + i - 1 \in Slots
                            /\ Begin(l) + i - 1 = l.m_itr - 1 - (Width(l) - i)
  <2>. DEFINE b == Begin(l)
              w == Width(l)
              q == l.m_itr
  <2>1. q = b + w /\ b \in Nat /\ w \in Nat /\ q \in 0..(Length - 1) /\ Length \in Nat
    BY <1>1, <1>3 DEF Width
  <2>. HIDE DEF b, w, q
  <2>2. \A i \in 1..w : b + i - 1 \in 0..(Length - 1) /\ b + i - 1 = q - 1 - (w - i)
    BY <2>1
  <2>. QED BY <2>2 DEF b, w, q, Slots
<1>6. Window(l) \in [1..Width(l) -> Series]
  BY <1>1, <1>4, <1>5
<1>7. \A i \in 1..Width(l) : Window(l)[i] = Pre(l, Width(l) - i)
  <2>1. \A i \in 1..Width(l) : Window(l)[i] = l.m_list[Begin(l) + i - 1]
    BY <1>4
  <2>2. \A i : Pre(l, Width(l) - i) = l.m_list[l.m_itr - 1 - (Width(l) - i)]
    BY Elements
  <2>. QED BY <1>5, <2>1, <2>2
<1>8. Window(l) \in Seq(Series) /\ Len(Window(l)) = Width(l)
  <2>1. Width(l) \in Nat
    BY <1>3
  <2>2. Window(l) \in Seq(Series)
    BY <1>6, <2>1, SeqDef
  <2>3. Len(Window(l)) \in Nat /\ DOMAIN Window(l) = 1..Len(Window(l)) /\ DOMAIN Window(l) = 1..Width(l)
    BY <1>6, <2>2, LenProperties
  <2>. QED BY <2>1, <2>2, <2>3
<1>. QED BY <1>3, <1>6, <1>7, <1>8

----------------------------------------------------------------------------
(* The operators, by what the lists they make show at each age. *)

LEMMA ShownSlots ==
  ASSUME NEW l, NEW n, Shows(l, n)
  PROVE  /\ l \in Lists /\ n \in 0..MinLength /\ n <= Width(l) /\ l.m_itr \in 0..(Length - 1)
         /\ \A age \in 0..(n - 1) : l.m_itr - 1 - age \in Slots /\ Pre(l, age) \in Series
<1>1. /\ MinLength \in Nat /\ Length \in Nat /\ l.m_itr \in 0..(Length - 1)
      /\ l.m_list \in [Slots -> Series] /\ l \in Lists /\ n \in 0..MinLength /\ n <= Width(l)
  BY ListOperatorsAssumption DEF Lists, Forms, Shows, Width
<1>2. Width(l) <= l.m_itr
  BY <1>1, Windows DEF Width
<1>3. \A age \in 0..(n - 1) : l.m_itr - 1 - age \in Slots
  <2>1. Width(l) \in Nat
    BY <1>1, Windows
  <2>. QED BY <1>1, <1>2, <2>1 DEF Slots
<1>4. \A age \in 0..(n - 1) : Pre(l, age) = l.m_list[l.m_itr - 1 - age]
  BY Elements
<1>. QED BY <1>1, <1>3, <1>4

LEMMA EmptyIsList ==
  EmptyList \in Lists /\ EmptyList.m_itr = 0 /\ EmptyList.m_cum_size = 0
<1>1. <<>> \in Series
  BY DEF Series
<1>2. [j \in Slots |-> <<>>] \in [Slots -> Series]
  BY <1>1
<1>3. 0 \in 0..(Length - 1) /\ 0 \in Nat
  BY ListOperatorsAssumption
<1>. QED BY <1>2, <1>3 DEF EmptyList, Lists, Forms

(* A list made from nothing. *)
LEMMA Made ==
  ASSUME Apart, NEW n \in 0..(Length - 1), NEW values \in [1..n -> Series]
  PROVE  LET r == AppendedAll(EmptyList, values)
         IN  /\ r \in Lists /\ r.m_itr = n /\ r.m_cum_size = n
             /\ Width(r) = Smaller(n, MinLength)
             /\ \A m \in 0..MinLength : m <= n => Shows(r, m)
             /\ \A age \in 0..(MinLength - 1) : age < n => Pre(r, age) = values[n - age]
<1>. DEFINE r == AppendedAll(EmptyList, values)
<1>1. MinLength \in Nat /\ MinLength > 1 /\ Length \in Nat /\ MinLength < Length - 1 /\ n \in Nat
  BY ListOperatorsAssumption
<1>2. EmptyList \in Lists /\ EmptyList.m_itr = 0 /\ EmptyList.m_cum_size = 0
  BY EmptyIsList
<1>3. /\ r \in Lists /\ r.m_cum_size = 0 + n
      /\ \A age \in 0..(MinLength - 1) : age < n => Pre(r, age) = values[n - age]
      /\ 0 + n <= Length - 1 => r.m_itr = 0 + n
  <2>. HIDE DEF Lists, EmptyList
  <2>. QED BY <1>1, <1>2, AppendedMany
<1>. HIDE DEF r
<1>4. r.m_itr = n /\ r.m_cum_size = n
  BY <1>1, <1>3
<1>5. Begin(r) = IF n >= MinLength THEN n - MinLength ELSE 0
  BY <1>4, Elements
<1>6. Width(r) = Smaller(n, MinLength)
  BY <1>1, <1>4, <1>5 DEF Width, Smaller
<1>7. ASSUME NEW m \in 0..MinLength, m <= n
      PROVE  Shows(r, m)
  BY <1>1, <1>3, <1>6, <1>7 DEF Shows, Smaller, Width
<1>. QED BY <1>3, <1>4, <1>6, <1>7 DEF r

LEMMA Copied ==
  ASSUME Apart, NEW l \in Lists
  PROVE  /\ copy(l) \in Lists
         /\ copy(l).m_itr = Width(l) /\ copy(l).m_cum_size = Width(l)
         /\ Width(copy(l)) = Smaller(Width(l), MinLength)
         /\ \A age \in 0..(MinLength - 1) : age < Width(l) => Pre(copy(l), age) = Pre(l, age)
<1>1. /\ Width(l) \in 0..(Length - 1) /\ Window(l) \in [1..Width(l) -> Series]
      /\ \A i \in 1..Width(l) : Window(l)[i] = Pre(l, Width(l) - i)
  BY Windows
<1>2. /\ copy(l) \in Lists
      /\ copy(l).m_itr = Width(l) /\ copy(l).m_cum_size = Width(l)
      /\ Width(copy(l)) = Smaller(Width(l), MinLength)
      /\ \A age \in 0..(MinLength - 1) : age < Width(l) => Pre(copy(l), age) = Window(l)[Width(l) - age]
  BY <1>1, Made DEF copy
<1>3. ASSUME NEW age \in 0..(MinLength - 1), age < Width(l)
      PROVE  Pre(copy(l), age) = Pre(l, age)
  <2>. DEFINE w == Width(l)
  <2>1. w \in Nat /\ age \in Nat /\ age < w
    BY <1>1, <1>3
  <2>. HIDE DEF w
  <2>2. w - age \in 1..w /\ w - (w - age) = age
    BY <2>1
  <2>3. Window(l)[w - age] = Pre(l, w - (w - age))
    BY <1>1, <2>2 DEF w
  <2>4. Pre(copy(l), age) = Window(l)[w - age]
    BY <1>2, <1>3 DEF w
  <2>. QED BY <2>2, <2>3, <2>4
<1>. QED BY <1>2, <1>3

LEMMA CopyShows ==
  ASSUME Apart, NEW l, NEW n, Shows(l, n)
  PROVE  /\ Shows(copy(l), n)
         /\ \A age \in 0..(n - 1) : Pre(copy(l), age) = Pre(l, age)
<1>1. MinLength \in Nat /\ l \in Lists /\ n \in 0..MinLength /\ n <= Width(l)
  BY ShownSlots, ListOperatorsAssumption
<1>2. Width(l) \in 0..(Length - 1)
  BY <1>1, Windows
<1>3. Shows(copy(l), n)
  <2>1. copy(l) \in Lists /\ Width(copy(l)) = Smaller(Width(l), MinLength)
    BY <1>1, Copied
  <2>2. n <= Smaller(Width(l), MinLength)
    BY <1>1, <1>2 DEF Smaller
  <2>. QED BY <1>1, <2>1, <2>2 DEF Shows, Width
<1>4. ASSUME NEW age \in 0..(n - 1)
      PROVE  Pre(copy(l), age) = Pre(l, age)
  <2>1. age \in 0..(MinLength - 1) /\ age < Width(l)
    BY <1>1, <1>2
  <2>. QED BY <1>1, <2>1, Copied
<1>. QED BY <1>3, <1>4

LEMMA DelayShows ==
  ASSUME Apart, NEW x, NEW n, Shows(x, n), NEW p \in 0..n
  PROVE  /\ Shows(ts_delay(x, p), n - p)
         /\ \A age \in 0..(n - p - 1) : Pre(ts_delay(x, p), age) = Pre(x, age + p)
<1>. DEFINE w == Width(x)
            values == SubSeq(Window(x), 1, w - p)
<1>1. /\ x \in Lists /\ n \in 0..MinLength /\ n <= w /\ w \in 0..(Length - 1)
      /\ Window(x) \in [1..w -> Series] /\ Window(x) \in Seq(Series) /\ Len(Window(x)) = w
      /\ \A i \in 1..w : Window(x)[i] = Pre(x, w - i)
      /\ MinLength \in Nat /\ Length \in Nat
  BY ShownSlots, Windows, ListOperatorsAssumption
<1>. HIDE DEF w
<1>2. w - p \in 0..(Length - 1) /\ n - p \in 0..MinLength /\ n - p <= w - p /\ w - p <= w
  BY <1>1
<1>3. values = [i \in 1..(w - p) |-> Window(x)[i]]
  <2>1. values = [i \in 1..((w - p) - 1 + 1) |-> Window(x)[i + 1 - 1]]
    BY <1>1, <1>2
  <2>2. (w - p) - 1 + 1 = w - p
    BY <1>2
  <2>3. \A i \in 1..(w - p) : i + 1 - 1 = i
    BY <1>2
  <2>. QED BY <2>1, <2>2, <2>3
<1>4. values \in [1..(w - p) -> Series]
  <2>1. \A i \in 1..(w - p) : i \in 1..w
    BY <1>1, <1>2
  <2>2. [i \in 1..(w - p) |-> Window(x)[i]] \in [1..(w - p) -> Series]
    BY <1>1, <2>1
  <2>. HIDE DEF values
  <2>. QED BY <1>3, <2>2
<1>5. ts_delay(x, p) = AppendedAll(EmptyList, values)
  BY <1>1 DEF ts_delay
<1>. HIDE DEF values
<1>6. /\ \A m \in 0..MinLength : m <= w - p => Shows(ts_delay(x, p), m)
      /\ \A age \in 0..(MinLength - 1) : age < w - p => Pre(ts_delay(x, p), age) = values[(w - p) - age]
  BY <1>2, <1>4, <1>5, Made
<1>7. ASSUME NEW age \in 0..(n - p - 1)
      PROVE  Pre(ts_delay(x, p), age) = Pre(x, age + p)
  <2>1. /\ age \in 0..(MinLength - 1) /\ age < w - p
        /\ (w - p) - age \in 1..(w - p) /\ (w - p) - age \in 1..w
        /\ w - ((w - p) - age) = age + p
    BY <1>1, <1>2
  <2>2. values[(w - p) - age] = Window(x)[(w - p) - age]
    BY <1>3, <2>1
  <2>3. Window(x)[(w - p) - age] = Pre(x, w - ((w - p) - age))
    BY <1>1, <2>1
  <2>. QED BY <1>6, <2>1, <2>2, <2>3
<1>. QED BY <1>2, <1>6, <1>7

LEMMA DeltaShows ==
  ASSUME Apart, NEW x, NEW n, Shows(x, n), NEW p \in 0..n
  PROVE  /\ Shows(ts_delta(x, p), n - p)
         /\ \A age \in 0..(n - p - 1) : Pre(ts_delta(x, p), age) = Pre(x, age) \o Pre(x, age + p)
<1>. DEFINE w == Width(x)
            values == [i \in 1..(w - p) |-> Window(x)[i + p] \o Window(x)[i]]
<1>1. /\ x \in Lists /\ n \in 0..MinLength /\ n <= w /\ w \in 0..(Length - 1)
      /\ Window(x) \in [1..w -> Series] /\ Len(Window(x)) = w
      /\ \A i \in 1..w : Window(x)[i] = Pre(x, w - i)
      /\ MinLength \in Nat /\ Length \in Nat
  BY ShownSlots, Windows, ListOperatorsAssumption
<1>. HIDE DEF w
<1>2. w - p \in 0..(Length - 1) /\ n - p \in 0..MinLength /\ n - p <= w - p /\ w - p <= w
  BY <1>1
<1>3. values \in [1..(w - p) -> Series]
  <2>1. \A i \in 1..(w - p) : i + p \in 1..w /\ i \in 1..w
    BY <1>1, <1>2
  <2>2. ASSUME NEW a \in Series, NEW b \in Series PROVE a \o b \in Series
    BY DEF Series
  <2>3. \A i \in 1..(w - p) : Window(x)[i + p] \in Series /\ Window(x)[i] \in Series
    BY <1>1, <2>1
  <2>4. \A i \in 1..(w - p) : Window(x)[i + p] \o Window(x)[i] \in Series
    BY <2>2, <2>3
  <2>. QED BY <2>4
<1>4. ts_delta(x, p) = AppendedAll(EmptyList, values)
  BY <1>1 DEF ts_delta
<1>5. \A i \in 1..(w - p) : values[i] = Window(x)[i + p] \o Window(x)[i]
  OBVIOUS
<1>. HIDE DEF values
<1>6. /\ \A m \in 0..MinLength : m <= w - p => Shows(ts_delta(x, p), m)
      /\ \A age \in 0..(MinLength - 1) : age < w - p => Pre(ts_delta(x, p), age) = values[(w - p) - age]
  BY <1>2, <1>3, <1>4, Made
<1>7. ASSUME NEW age \in 0..(n - p - 1)
      PROVE  Pre(ts_delta(x, p), age) = Pre(x, age) \o Pre(x, age + p)
  <2>. DEFINE k == (w - p) - age
  <2>1. /\ age \in 0..(MinLength - 1) /\ age < w - p /\ k \in 1..(w - p) /\ k \in 1..w
        /\ k + p \in 1..w /\ w - (k + p) = age /\ w - k = age + p
    BY <1>1, <1>2
  <2>2. Pre(ts_delta(x, p), age) = values[k]
    BY <1>6, <2>1
  <2>. HIDE DEF k
  <2>3. values[k] = Window(x)[k + p] \o Window(x)[k]
    BY <1>5, <2>1
  <2>4. Window(x)[k + p] = Pre(x, age) /\ Window(x)[k] = Pre(x, age + p)
    <3>1. Window(x)[k + p] = Pre(x, w - (k + p)) /\ Window(x)[k] = Pre(x, w - k)
      BY <1>1, <2>1
    <3>. QED BY <2>1, <3>1
  <2>. QED BY <2>2, <2>3, <2>4
<1>. QED BY <1>2, <1>6, <1>7

(* An operator that changes elements leaves the form of a list.             *)
LEMMA SameForm ==
  ASSUME NEW l \in Lists, NEW f \in [Slots -> Series]
  PROVE  LET r == [l EXCEPT !.m_list = f]
         IN  /\ r \in Lists /\ r.m_itr = l.m_itr /\ r.m_cum_size = l.m_cum_size
             /\ Begin(r) = Begin(l) /\ Width(r) = Width(l)
             /\ \A n : Shows(l, n) => Shows(r, n)
             /\ \A age : Pre(r, age) = f[l.m_itr - 1 - age]
<1>. DEFINE r == [l EXCEPT !.m_list = f]
<1>1. /\ l \in Forms /\ (l.m_cum_size <= l.m_itr \/ MinLength <= l.m_itr)
      /\ r \in Forms /\ r.m_itr = l.m_itr /\ r.m_cum_size = l.m_cum_size /\ r.m_list = f
  BY DEF Lists, Forms
<1>. HIDE DEF r
<1>2. r \in Lists
  BY <1>1 DEF Lists
<1>3. Begin(r) = Begin(l) /\ Width(r) = Width(l)
  BY <1>1, Elements DEF Width
<1>4. ASSUME NEW n, Shows(l, n) PROVE Shows(r, n)
  BY <1>1, <1>2, <1>3, <1>4 DEF Shows
<1>5. ASSUME NEW age PROVE Pre(r, age) = f[l.m_itr - 1 - age]
  <2>1. Pre(r, age) = r.m_list[r.m_itr - 1 - age]
    BY Elements
  <2>. QED BY <1>1, <2>1
<1>. QED BY <1>1, <1>2, <1>3, <1>4, <1>5 DEF r

(* The newest n elements of c are those of l, each with that of other at    *)
(* the same age.                                                            *)
Joins(c, l, other, n) == \A age \in 0..(n - 1) : Pre(c, age) = Pre(l, age) \o Pre(other, age)

LEMMA ByAgeShows ==
  ASSUME NEW l, NEW other, NEW n, Shows(l, n), Shows(other, n)
  PROVE  Shows(ByAge(l, other), n) /\ Joins(ByAge(l, other), l, other, n)
<1>. DEFINE f == [j \in Slots |-> IF l.m_itr - 1 - j \in Walk(other)
                                  THEN l.m_list[j] \o AtAge(other, l.m_itr - 1 - j)
                                  ELSE l.m_list[j]]
<1>1. /\ l \in Lists /\ l.m_list \in [Slots -> Series] /\ l.m_itr \in Int
      /\ other \in Lists /\ other.m_list \in [Slots -> Series]
      /\ n \in 0..MinLength /\ n <= Width(other)
      /\ \A age \in 0..(n - 1) : l.m_itr - 1 - age \in Slots
      /\ \A age \in 0..(n - 1) : other.m_itr - 1 - age \in Slots
      /\ MinLength \in Nat
  BY ShownSlots, ListOperatorsAssumption DEF Lists, Forms
<1>2. ASSUME NEW age PROVE AtAge(other, age) \in Series
  <2>1. Outside \in Series
    BY DEF Outside, Series
  <2>2. Pre(other, age) = other.m_list[other.m_itr - 1 - age]
    BY Elements
  <2>. QED BY <1>1, <2>1, <2>2 DEF AtAge
<1>3. f \in [Slots -> Series]
  <2>1. ASSUME NEW a \in Series, NEW b \in Series PROVE a \o b \in Series
    BY DEF Series
  <2>2. \A j \in Slots : l.m_list[j] \in Series
    BY <1>1
  <2>3. \A j \in Slots : l.m_list[j] \o AtAge(other, l.m_itr - 1 - j) \in Series
    BY <1>2, <2>1, <2>2
  <2>. QED BY <2>2, <2>3
<1>4. ByAge(l, other) = [l EXCEPT !.m_list = f]
  BY DEF ByAge, Changed
<1>5. ASSUME NEW age \in 0..(n - 1)
      PROVE  f[l.m_itr - 1 - age] = Pre(l, age) \o Pre(other, age)
  <2>1. age \in Walk(other)
    <3>1. Width(other) \in Nat /\ Width(other) = other.m_itr - Begin(other)
      BY <1>1, Windows DEF Width
    <3>2. age \in 0..(MinLength - 1) /\ age \in 0..(Smaller(MinLength, Width(other)) - 1)
      BY <1>1, <3>1 DEF Smaller
    <3>. QED BY <3>1, <3>2 DEF Walk
  <2>2. AtAge(other, age) = Pre(other, age)
    BY <1>1 DEF AtAge
  <2>3. l.m_itr - 1 - age \in Slots /\ l.m_itr - 1 - (l.m_itr - 1 - age) = age
    BY <1>1
  <2>4. Pre(l, age) = l.m_list[l.m_itr - 1 - age]
    BY Elements
  <2>. QED BY <2>1, <2>2, <2>3, <2>4
<1>. HIDE DEF f
<1>6. /\ \A m : Shows(l, m) => Shows(ByAge(l, other), m)
      /\ \A age : Pre(ByAge(l, other), age) = f[l.m_itr - 1 - age]
  BY <1>1, <1>3, <1>4, SameForm
<1>. QED BY <1>5, <1>6 DEF Joins

LEMMA TimesShows ==
  ASSUME NEW l, NEW n, Shows(l, n)
  PROVE  /\ Shows(Times(l), n)
         /\ \A age \in 0..(n - 1) : Pre(Times(l), age) = Append(Pre(l, age), Scalar)
<1>. DEFINE f == [j \in Slots |-> IF l.m_itr - 1 - j \in 0..(MinLength - 1)
                                  THEN Append(l.m_list[j], Scalar) ELSE l.m_list[j]]
<1>1. /\ l \in Lists /\ l.m_list \in [Slots -> Series] /\ l.m_itr \in Int /\ n \in 0..MinLength
      /\ \A age \in 0..(n - 1) : l.m_itr - 1 - age \in Slots
      /\ MinLength \in Nat
  BY ShownSlots, ListOperatorsAssumption DEF Lists, Forms
<1>2. f \in [Slots -> Series]
  <2>1. ASSUME NEW a \in Series PROVE Append(a, Scalar) \in Series
    BY DEF Series, Scalar
  <2>. QED BY <1>1, <2>1
<1>3. Times(l) = [l EXCEPT !.m_list = f]
  BY DEF Times, Changed, WithScalar
<1>4. ASSUME NEW age \in 0..(n - 1)
      PROVE  f[l.m_itr - 1 - age] = Append(Pre(l, age), Scalar)
  <2>1. /\ l.m_itr - 1 - age \in Slots /\ l.m_itr - 1 - (l.m_itr - 1 - age) = age
        /\ age \in 0..(MinLength - 1)
    BY <1>1
  <2>2. Pre(l, age) = l.m_list[l.m_itr - 1 - age]
    BY Elements
  <2>. QED BY <2>1, <2>2
<1>. HIDE DEF f
<1>5. /\ \A m : Shows(l, m) => Shows(Times(l), m)
      /\ \A age : Pre(Times(l), age) = f[l.m_itr - 1 - age]
  BY <1>1, <1>2, <1>3, SameForm
<1>. QED BY <1>4, <1>5

LEMMA PlusShows ==
  ASSUME NEW l, NEW n, Shows(l, n)
  PROVE  /\ Shows(Plus(l), n)
         /\ \A age \in 0..(n - 1) : Pre(Plus(l), age) = Append(Pre(l, age), Scalar)
<1>. DEFINE f == [j \in Slots |-> IF l.m_itr - 1 - j \in 0..(l.m_itr - 1 - Begin(l))
                                  THEN Append(l.m_list[j], Scalar) ELSE l.m_list[j]]
<1>1. /\ l \in Lists /\ l.m_list \in [Slots -> Series] /\ l.m_itr \in Int /\ n \in 0..MinLength
      /\ \A age \in 0..(n - 1) : l.m_itr - 1 - age \in Slots
      /\ n <= Width(l)
  BY ShownSlots, ListOperatorsAssumption DEF Lists, Forms
<1>2. f \in [Slots -> Series]
  <2>1. ASSUME NEW a \in Series PROVE Append(a, Scalar) \in Series
    BY DEF Series, Scalar
  <2>. QED BY <1>1, <2>1
<1>3. Plus(l) = [l EXCEPT !.m_list = f]
  BY DEF Plus, Changed, WithScalar
<1>4. ASSUME NEW age \in 0..(n - 1)
      PROVE  f[l.m_itr - 1 - age] = Append(Pre(l, age), Scalar)
  <2>1. /\ l.m_itr - 1 - age \in Slots /\ l.m_itr - 1 - (l.m_itr - 1 - age) = age
        /\ age \in 0..(l.m_itr - 1 - Begin(l))
    <3>1. Begin(l) \in Int
      BY <1>1, Windows
    <3>. QED BY <1>1, <3>1 DEF Width
  <2>2. Pre(l, age) = l.m_list[l.m_itr - 1 - age]
    BY Elements
  <2>. QED BY <2>1, <2>2
<1>. HIDE DEF f
<1>5. /\ \A m : Shows(l, m) => Shows(Plus(l), m)
      /\ \A age : Pre(Plus(l), age) = f[l.m_itr - 1 - age]
  BY <1>1, <1>2, <1>3, SameForm
<1>. QED BY <1>4, <1>5

LEMMA ElementByAge ==
  ASSUME NEW l \in Lists, NEW i \in Int
  PROVE  Element(l, i) = Pre(l, Width(l) - 1 - i)
<1>1. l.m_itr \in Int /\ Begin(l) \in Int
  BY Windows DEF Lists, Forms
<1>2. Begin(l) + i = l.m_itr - 1 - (Width(l) - 1 - i)
  BY <1>1 DEF Width
<1>3. Pre(l, Width(l) - 1 - i) = l.m_list[l.m_itr - 1 - (Width(l) - 1 - i)]
  BY Elements
<1>. QED BY <1>2, <1>3 DEF Element

(* Changed() by what the list shows; the elements it changes may be of any  *)
(* form.                                                                    *)
LEMMA AnyForm ==
  ASSUME NEW l \in Lists, NEW f, NEW age
  PROVE  Pre([l EXCEPT !.m_list = f], age) = f[l.m_itr - 1 - age]
<1>. DEFINE r == [l EXCEPT !.m_list = f]
<1>1. r.m_itr = l.m_itr /\ r.m_list = f
  BY DEF Lists, Forms
<1>. HIDE DEF r
<1>2. Pre(r, age) = r.m_list[r.m_itr - 1 - age]
  BY Elements
<1>. QED BY <1>1, <1>2 DEF r

(* Two lists whose windows are the same size are paired by age when they    *)
(* are paired by index.                                                     *)
LEMMA ByIndexShows ==
  ASSUME Apart, NEW a \in Lists, NEW b \in Lists, NEW w \in 0..MinLength,
         Width(a) = w, Width(b) = w, Smaller(a.m_cum_size, MinLength) = w
  PROVE  \A age \in 0..(w - 1) : Pre(ByIndex(a, b), age) = Pre(a, age) \o Pre(b, age)
<1>. DEFINE tmp  == copy(a)
            Ages == {tmp.m_itr - 1 - Begin(tmp) - i : i \in 0..(Smaller(a.m_cum_size, MinLength) - 1)}
            f == [j \in Slots |-> IF tmp.m_itr - 1 - j \in Ages
                                  THEN tmp.m_list[j]
                                       \o Element(b, tmp.m_itr - 1 - (tmp.m_itr - 1 - j) - Begin(tmp))
                                  ELSE tmp.m_list[j]]
<1>1. MinLength \in Nat /\ Length \in Nat /\ MinLength < Length - 1 /\ w \in Nat /\ w <= MinLength
  BY ListOperatorsAssumption
<1>2. /\ tmp \in Lists /\ tmp.m_itr = w /\ Begin(tmp) = 0
      /\ \A age \in 0..(w - 1) : Pre(tmp, age) = Pre(a, age)
  <2>1. /\ tmp \in Lists /\ tmp.m_itr = w /\ tmp.m_cum_size = w
        /\ \A age \in 0..(MinLength - 1) : age < w => Pre(tmp, age) = Pre(a, age)
    BY Copied
  <2>2. Begin(tmp) = IF tmp.m_cum_size >= MinLength THEN tmp.m_itr - MinLength ELSE 0
    BY Elements
  <2>. HIDE DEF tmp
  <2>3. Begin(tmp) = 0
    BY <1>1, <2>1, <2>2
  <2>4. \A age \in 0..(w - 1) : age \in 0..(MinLength - 1) /\ age < w
    BY <1>1
  <2>. QED BY <2>1, <2>3, <2>4
<1>3. ByIndex(a, b) = [tmp EXCEPT !.m_list = f]
  BY DEF ByIndex, Changed
<1>. HIDE DEF tmp
<1>4. ASSUME NEW age \in 0..(w - 1)
      PROVE  f[w - 1 - age] = Pre(a, age) \o Pre(b, age)
  <2>1. /\ w - 1 - age \in Slots /\ w - 1 - (w - 1 - age) = age
        /\ w - 1 - age \in 0..(w - 1) /\ w - 1 - 0 - (w - 1 - age) = age
        /\ w - 1 - age - 0 = w - 1 - age
    BY <1>1 DEF Slots
  <2>2. age \in Ages
    BY <1>2, <2>1
  <2>3. Element(b, w - 1 - age) = Pre(b, age)
    BY <1>1, <2>1, ElementByAge
  <2>4. tmp.m_list[w - 1 - age] = Pre(a, age)
    <3>1. Pre(tmp, age) = tmp.m_list[tmp.m_itr - 1 - age]
      BY Elements
    <3>. QED BY <1>2, <3>1
  <2>. HIDE DEF Ages
  <2>5. f[w - 1 - age] = tmp.m_list[w - 1 - age] \o Element(b, w - 1 - age)
    BY <1>2, <2>1, <2>2
  <2>. QED BY <2>3, <2>4, <2>5
<1>. HIDE DEF f
<1>5. \A age : Pre(ByIndex(a, b), age) = f[tmp.m_itr - 1 - age]
  BY <1>2, <1>3, AnyForm
<1>. QED BY <1>2, <1>4, <1>5

LEMMA Ff7_10Shows ==
  ASSUME Apart, mp \in Lists, sp_list \in Lists, NEW w \in 0..MinLength,
         Width(mp) = w, Width(sp_list) = w
  PROVE  \A age \in 0..(w - 2) :
           Pre(Ff7_10, age) = Pre(mp, age) \o Pre(mp, age + 1) \o Pre(mp, age) \o Pre(sp_list, age)
<1>. DEFINE mt == copy(mp)
            n  == mt.m_itr - Begin(mt)
            f == [j \in Slots |->
                    IF mt.m_itr - 1 - j \in 0..(n - 2)
                    THEN LET i == n - 1 - (mt.m_itr - 1 - j)
                         IN  Element(mt, i) \o Element(mp, i - 1) \o Element(mp, i) \o Element(sp_list, i)
                    ELSE mt.m_list[j]]
<1>1. MinLength \in Nat /\ Length \in Nat /\ MinLength < Length - 1 /\ w \in Nat /\ w <= MinLength
  BY ListOperatorsAssumption
<1>2. /\ mt \in Lists /\ mt.m_itr = w /\ Width(mt) = w /\ n = w
      /\ \A age \in 0..(w - 1) : Pre(mt, age) = Pre(mp, age)
  <2>1. /\ mt \in Lists /\ mt.m_itr = w /\ Width(mt) = Smaller(w, MinLength)
        /\ \A age \in 0..(MinLength - 1) : age < w => Pre(mt, age) = Pre(mp, age)
    BY Copied
  <2>2. n = Width(mt)
    BY DEF Width
  <2>. HIDE DEF mt, n
  <2>3. Smaller(w, MinLength) = w
    BY <1>1 DEF Smaller
  <2>4. \A age \in 0..(w - 1) : age \in 0..(MinLength - 1) /\ age < w
    BY <1>1
  <2>. QED BY <2>1, <2>2, <2>3, <2>4
<1>3. Ff7_10 = [mt EXCEPT !.m_list = f]
  BY DEF Ff7_10, Changed
<1>. HIDE DEF mt, n
<1>4. ASSUME NEW age \in 0..(w - 2)
      PROVE  f[w - 1 - age] = Pre(mp, age) \o Pre(mp, age + 1) \o Pre(mp, age) \o Pre(sp_list, age)
  <2>. DEFINE i == w - 1 - age
  <2>1. /\ i \in Slots /\ w - 1 - i = age /\ w - 1 - (i - 1) = age + 1 /\ i \in Int /\ i - 1 \in Int
        /\ age \in 0..(w - 1)
    BY <1>1 DEF Slots
  <2>. HIDE DEF i
  <2>2. /\ Element(mt, i) = Pre(mp, age) /\ Element(mp, i - 1) = Pre(mp, age + 1)
        /\ Element(mp, i) = Pre(mp, age) /\ Element(sp_list, i) = Pre(sp_list, age)
    <3>1. /\ Element(mt, i) = Pre(mt, age) /\ Element(mp, i - 1) = Pre(mp, age + 1)
          /\ Element(mp, i) = Pre(mp, age) /\ Element(sp_list, i) = Pre(sp_list, age)
      BY <1>2, <2>1, ElementByAge
    <3>. QED BY <1>2, <2>1, <3>1
  <2>3. f[i] = Element(mt, i) \o Element(mp, i - 1) \o Element(mp, i) \o Element(sp_list, i)
    <3>1. w - 1 - (w - 1 - i) = i
      BY <1>1, <2>1
    <3>. QED BY <1>2, <2>1, <3>1
  <2>. HIDE DEF f
  <2>4. f[w - 1 - age] = f[i]
    BY DEF i
  <2>. QED BY <2>2, <2>3, <2>4
<1>. HIDE DEF f
<1>5. \A age : Pre(Ff7_10, age) = f[mt.m_itr - 1 - age]
  BY <1>2, <1>3, AnyForm
<1>. QED BY <1>2, <1>4, <1>5

----------------------------------------------------------------------------
(* The inductive invariant.                                                 *)

Newest(r) == Smaller(r, MinLength)

(* A list that count values have been appended to. *)
Column(l, count) ==
  l \in Lists /\ l.m_itr <= count /\ (l.m_itr = count \/ MinLength < l.m_itr)

(* It shows the rows up to r, the newest first. *)
At(l, age) == l.m_list[l.m_itr - 1 - age]

ShowsRows(l, r) == \A age \in 0..(Newest(r) - 1) : At(l, age) = <<r - age>>

Histories ==
  /\ row \in 0..MaxRows /\ dayStart \in 0..row /\ keptRow \in 0..row
  /\ assigns \in 0..MaxAssigns

Columns ==
  /\ Column(mp, row) /\ ShowsRows(mp, row) /\ mp.m_cum_size = row - dayStart
  /\ Column(sp_list, row) /\ ShowsRows(sp_list, row) /\ sp_list.m_cum_size = row
  /\ Column(volume, row + 1) /\ ShowsRows(volume, row)

Kept ==
  /\ kept \in Lists /\ ShowsRows(kept, keptRow) /\ Newest(keptRow) <= kept.m_itr
  /\ kept.m_cum_size <= keptRow

ListInv == Histories /\ Columns /\ Kept

LEMMA ColumnShows ==
  ASSUME NEW c \in Nat, NEW l, Column(l, c), NEW r \in 0..c
  PROVE  Shows(l, Newest(r)) /\ Newest(r) \in 0..MinLength /\ Newest(r) <= Width(l)
<1>1. MinLength \in Nat /\ l \in Lists /\ l.m_itr <= c /\ (l.m_itr = c \/ MinLength < l.m_itr)
      /\ l.m_itr \in Nat
  BY ListOperatorsAssumption DEF Column, Lists, Forms
<1>2. Width(l) \in Nat /\ (Width(l) = MinLength \/ Width(l) = l.m_itr)
  BY <1>1, Windows
<1>3. Newest(r) \in 0..MinLength /\ Newest(r) <= Width(l)
  BY <1>1, <1>2 DEF Newest, Smaller
<1>. QED BY <1>1, <1>3 DEF Shows, Width

LEMMA ColumnGrows ==
  ASSUME Apart, NEW c \in Nat, NEW l, Column(l, c), NEW r \in 0..c, ShowsRows(l, r)
  PROVE  LET a == Appended(l, <<r + 1>>)
         IN  Column(a, c + 1) /\ ShowsRows(a, r + 1) /\ a.m_cum_size = l.m_cum_size + 1
<1>. DEFINE a == Appended(l, <<r + 1>>)
<1>1. /\ MinLength \in Nat /\ MinLength > 1 /\ Length \in Nat /\ MinLength < Length - 1
      /\ l \in Lists /\ l.m_itr <= c /\ (l.m_itr = c \/ MinLength < l.m_itr)
      /\ l.m_itr \in 0..(Length - 1)
  BY ListOperatorsAssumption DEF Column, Lists, Forms
<1>2. <<r + 1>> \in Series
  BY DEF Series
<1>3. /\ a \in Lists /\ a.m_cum_size = l.m_cum_size + 1 /\ Pre(a, 0) = <<r + 1>>
      /\ \A age \in 1..(MinLength - 1) : age <= l.m_itr => Pre(a, age) = Pre(l, age - 1)
      /\ l.m_itr < Length - 1 => a.m_itr = l.m_itr + 1
      /\ ~(l.m_itr < Length - 1) => a.m_itr = MinLength + 1
  BY <1>1, <1>2, AppendedOne
<1>. HIDE DEF a
<1>4. Column(a, c + 1)
  <2>1. CASE l.m_itr < Length - 1
    <3>1. a.m_itr = l.m_itr + 1
      BY <1>3, <2>1
    <3>. QED BY <1>1, <1>3, <3>1 DEF Column
  <2>2. CASE ~(l.m_itr < Length - 1)
    <3>1. a.m_itr = MinLength + 1
      BY <1>3, <2>2
    <3>. QED BY <1>1, <1>3, <2>2, <3>1 DEF Column
  <2>. QED BY <2>1, <2>2
<1>5. ASSUME NEW age \in 0..(Newest(r + 1) - 1)
      PROVE  Pre(a, age) = <<(r + 1) - age>>
  <2>1. CASE age = 0
    <3>1. (r + 1) - 0 = r + 1
      OBVIOUS
    <3>. QED BY <1>3, <2>1, <3>1
  <2>2. CASE age # 0
    <3>1. /\ age \in 1..(MinLength - 1) /\ age <= l.m_itr /\ age - 1 \in 0..(Newest(r) - 1)
          /\ r - (age - 1) = (r + 1) - age
      BY <1>1, <2>2 DEF Newest, Smaller
    <3>2. Pre(a, age) = Pre(l, age - 1)
      BY <1>3, <3>1
    <3>3. At(l, age - 1) = <<r - (age - 1)>>
      BY <3>1 DEF ShowsRows
    <3>4. Pre(l, age - 1) = At(l, age - 1)
      BY Elements DEF At
    <3>. QED BY <3>1, <3>2, <3>3, <3>4
  <2>. QED BY <2>1, <2>2
<1>6. ShowsRows(a, r + 1)
  <2>1. \A age : Pre(a, age) = At(a, age)
    BY Elements DEF At
  <2>. QED BY <1>5, <2>1 DEF ShowsRows
<1>. QED BY <1>3, <1>4, <1>6 DEF a

LEMMA Restarted ==
  ASSUME NEW l \in Lists
  PROVE  LET z == [l EXCEPT !.m_cum_size = 0]
         IN  /\ z \in Lists /\ z.m_cum_size = 0
             /\ \A c : Column(l, c) => Column(z, c)
             /\ \A r : ShowsRows(l, r) => ShowsRows(z, r)
<1>. DEFINE z == [l EXCEPT !.m_cum_size = 0]
<1>1. /\ z \in Forms /\ z.m_itr = l.m_itr /\ z.m_list = l.m_list /\ z.m_cum_size = 0
      /\ l.m_itr \in 0..(Length - 1)
  BY DEF Lists, Forms
<1>. HIDE DEF z
<1>2. z \in Lists
  BY <1>1 DEF Lists
<1>3. \A age : At(z, age) = At(l, age)
  BY <1>1 DEF At
<1>. QED BY <1>1, <1>2, <1>3 DEF Column, ShowsRows, z

LEMMA AssignedShows ==
  ASSUME Apart, NEW l \in Lists, NEW other \in Lists
  PROVE  LET a == Assigned(l, other)
         IN  /\ a \in Lists /\ a.m_cum_size = other.m_cum_size
             /\ \A age \in 0..(MinLength - 1) : age < Width(other) => At(a, age) = Pre(other, age)
             /\ Width(other) <= a.m_itr \/ MinLength < a.m_itr
<1>. DEFINE w == Width(other)
            b == AppendedAll(l, Window(other))
            a == [b EXCEPT !.m_cum_size = other.m_cum_size]
<1>1. /\ w \in 0..(Length - 1) /\ Window(other) \in [1..w -> Series]
      /\ w = MinLength \/ (w = other.m_itr /\ other.m_cum_size < MinLength)
      /\ \A i \in 1..w : Window(other)[i] = Pre(other, w - i)
  BY Windows
<1>. HIDE DEF w
<1>2. /\ MinLength \in Nat /\ Length \in Nat /\ l.m_itr \in Nat /\ w \in Nat
      /\ other.m_cum_size \in Nat /\ other.m_itr \in Nat
      /\ other.m_cum_size <= other.m_itr \/ MinLength <= other.m_itr
  BY <1>1, ListOperatorsAssumption DEF Lists, Forms
<1>3. /\ b \in Lists
      /\ \A age \in 0..(MinLength - 1) : age < w => Pre(b, age) = Window(other)[w - age]
      /\ l.m_itr + w <= b.m_itr \/ MinLength < b.m_itr
  BY <1>1, <1>2, AppendedMany
<1>. HIDE DEF b
<1>4. /\ a \in Forms /\ a.m_itr = b.m_itr /\ a.m_list = b.m_list
      /\ a.m_cum_size = other.m_cum_size /\ b.m_itr \in Nat
  BY <1>2, <1>3 DEF Lists, Forms
<1>5. Assigned(l, other) = a
  BY DEF Assigned, b
<1>. HIDE DEF a
<1>6. w <= a.m_itr \/ MinLength < a.m_itr
  BY <1>2, <1>3, <1>4
<1>7. a \in Lists
  <2>1. a.m_cum_size <= a.m_itr \/ MinLength <= a.m_itr
    BY <1>1, <1>2, <1>4, <1>6
  <2>. QED BY <1>4, <2>1 DEF Lists
<1>8. ASSUME NEW age \in 0..(MinLength - 1), age < w
      PROVE  At(a, age) = Pre(other, age)
  <2>1. w - age \in 1..w /\ w - (w - age) = age
    BY <1>2, <1>8
  <2>2. Window(other)[w - age] = Pre(other, w - (w - age))
    BY <1>1, <2>1
  <2>3. Pre(b, age) = Window(other)[w - age]
    BY <1>3, <1>8
  <2>4. /\ At(a, age) = a.m_list[a.m_itr - 1 - age]
        /\ Pre(b, age) = b.m_list[b.m_itr - 1 - age]
    BY Elements DEF At
  <2>. QED BY <1>4, <2>1, <2>2, <2>3, <2>4
<1>. QED BY <1>4, <1>5, <1>6, <1>7, <1>8 DEF w

LEMMA InitList ==
  ASSUME Apart, Init
  PROVE  ListInv
<1>1. MinLength \in Nat /\ MinLength > 1 /\ Length \in Nat /\ MinLength < Length - 1
      /\ MaxRows \in Nat /\ MaxAssigns \in Nat
  BY ListOperatorsAssumption
<1>2. EmptyList \in Lists /\ EmptyList.m_itr = 0 /\ EmptyList.m_cum_size = 0
  BY EmptyIsList
<1>3. Newest(0) = 0
  BY <1>1 DEF Newest, Smaller
<1>4. \A l : ShowsRows(l, 0)
  BY <1>3 DEF ShowsRows
<1>5. Column(volume, 0 + 1)
  <2>. DEFINE a == Appended(EmptyList, <<>>)
  <2>1. a \in Lists /\ (EmptyList.m_itr < Length - 1 => a.m_itr = EmptyList.m_itr + 1)
    <3>1. <<>> \in Series
      BY DEF Series
    <3>. HIDE DEF EmptyList
    <3>. QED BY <1>2, <3>1, AppendedOne
  <2>. HIDE DEF a
  <2>2. a.m_itr = 1
    BY <1>1, <1>2, <2>1
  <2>3. volume = a
    BY DEF Init, a
  <2>. QED BY <2>1, <2>2, <2>3 DEF Column
<1>. HIDE DEF EmptyList, Lists
<1>6. Histories
  BY <1>1 DEF Histories, Init
<1>7. Columns
  BY <1>2, <1>4, <1>5 DEF Columns, Column, Init
<1>8. Kept
  BY <1>2, <1>3, <1>4 DEF Kept, Init
<1>. QED BY <1>6, <1>7, <1>8 DEF ListInv

LEMMA AppendTickKeeps ==
  ASSUME Apart, ListInv, AppendTick
  PROVE  ListInv'
<1>1. /\ row \in Nat /\ row' = row + 1 /\ row' \in 0..MaxRows /\ dayStart' = dayStart
      /\ dayStart \in 0..row /\ keptRow' = keptRow /\ keptRow \in 0..row
      /\ assigns' = assigns /\ assigns \in 0..MaxAssigns
      /\ kept' = kept /\ MaxRows \in Nat
  BY ListOperatorsAssumption DEF ListInv, Histories, AppendTick
<1>2. /\ mp' = Appended(mp, <<row + 1>>) /\ sp_list' = Appended(sp_list, <<row + 1>>)
      /\ volume' = Appended(volume, <<row + 1>>)
  BY <1>1 DEF AppendTick
<1>3. /\ Column(mp, row) /\ ShowsRows(mp, row) /\ mp.m_cum_size = row - dayStart
      /\ Column(sp_list, row) /\ ShowsRows(sp_list, row) /\ sp_list.m_cum_size = row
      /\ Column(volume, row + 1) /\ ShowsRows(volume, row)
  BY DEF ListInv, Columns
<1>4. /\ row \in 0..row /\ row \in 0..(row + 1) /\ row + 1 \in Nat
      /\ (row - dayStart) + 1 = (row + 1) - dayStart
  BY <1>1
<1>5. Column(mp', row + 1) /\ ShowsRows(mp', row + 1) /\ mp'.m_cum_size = mp.m_cum_size + 1
  BY <1>1, <1>2, <1>3, <1>4, ColumnGrows
<1>6. Column(sp_list', row + 1) /\ ShowsRows(sp_list', row + 1)
      /\ sp_list'.m_cum_size = sp_list.m_cum_size + 1
  BY <1>1, <1>2, <1>3, <1>4, ColumnGrows
<1>7. Column(volume', (row + 1) + 1) /\ ShowsRows(volume', row + 1)
  BY <1>1, <1>2, <1>3, <1>4, ColumnGrows
<1>8. Columns'
  BY <1>1, <1>3, <1>4, <1>5, <1>6, <1>7 DEF Columns
<1>9. Histories'
  BY <1>1 DEF Histories
<1>10. Kept'
  BY <1>1 DEF ListInv, Kept
<1>. QED BY <1>8, <1>9, <1>10 DEF ListInv

LEMMA ReSetKeeps ==
  ASSUME ListInv, ReSet
  PROVE  ListInv'
<1>1. /\ row \in Nat /\ row' = row /\ row \in 0..MaxRows /\ dayStart' = row
      /\ keptRow' = keptRow /\ keptRow \in 0..row
      /\ assigns' = assigns /\ assigns \in 0..MaxAssigns
      /\ kept' = kept /\ sp_list' = sp_list /\ MaxRows \in Nat
      /\ mp' = [mp EXCEPT !.m_cum_size = 0] /\ volume' = [volume EXCEPT !.m_cum_size = 0]
  BY ListOperatorsAssumption DEF ListInv, Histories, ReSet
<1>2. /\ Column(mp, row) /\ ShowsRows(mp, row)
      /\ Column(sp_list, row) /\ ShowsRows(sp_list, row) /\ sp_list.m_cum_size = row
      /\ Column(volume, row + 1) /\ ShowsRows(volume, row)
  BY DEF ListInv, Columns
<1>3. mp \in Lists /\ volume \in Lists
  BY <1>2 DEF Column
<1>4. Column(mp', row) /\ ShowsRows(mp', row) /\ mp'.m_cum_size = 0
  BY <1>1, <1>2, <1>3, Restarted
<1>5. Column(volume', row + 1) /\ ShowsRows(volume', row)
  BY <1>1, <1>2, <1>3, Restarted
<1>6. row - row = 0
  BY <1>1
<1>7. Columns'
  BY <1>1, <1>2, <1>4, <1>5, <1>6 DEF Columns
<1>8. Histories'
  BY <1>1 DEF Histories
<1>9. Kept'
  BY <1>1 DEF ListInv, Kept
<1>. QED BY <1>7, <1>8, <1>9 DEF ListInv

LEMMA AssignKeeps ==
  ASSUME Apart, ListInv, Assign
  PROVE  ListInv'
<1>1. /\ row \in Nat /\ row' = row /\ row \in 0..MaxRows /\ dayStart' = dayStart
      /\ dayStart \in 0..row /\ keptRow' = row
      /\ assigns' \in 0..MaxAssigns
      /\ kept' = Assigned(kept, mp) /\ mp' = mp /\ sp_list' = sp_list /\ volume' = volume
  BY ListOperatorsAssumption DEF ListInv, Histories, Assign
<1>2. Columns'
  BY <1>1 DEF ListInv, Columns
<1>3. Histories'
  BY <1>1 DEF Histories
<1>4. Kept'
  <2>1. kept \in Lists /\ mp \in Lists /\ Column(mp, row) /\ ShowsRows(mp, row)
        /\ mp.m_cum_size = row - dayStart /\ row \in 0..row
    BY <1>1 DEF ListInv, Kept, Columns, Column
  <2>2. /\ kept' \in Lists /\ kept'.m_cum_size = mp.m_cum_size
        /\ \A age \in 0..(MinLength - 1) : age < Width(mp) => At(kept', age) = At(mp, age)
        /\ Width(mp) <= kept'.m_itr \/ MinLength < kept'.m_itr
    <3>. DEFINE a == Assigned(kept, mp)
    <3>1. /\ a \in Lists /\ a.m_cum_size = mp.m_cum_size
          /\ \A age \in 0..(MinLength - 1) : age < Width(mp) => At(a, age) = Pre(mp, age)
          /\ Width(mp) <= a.m_itr \/ MinLength < a.m_itr
      BY <2>1, AssignedShows
    <3>2. \A age : Pre(mp, age) = At(mp, age)
      BY Elements DEF At
    <3>3. kept' = a
      BY <1>1
    <3>. HIDE DEF a
    <3>. QED BY <3>1, <3>2, <3>3
  <2>3. Newest(row) \in 0..MinLength /\ Newest(row) <= Width(mp) /\ MinLength \in Nat
        /\ Width(mp) \in Nat
    BY <1>1, <2>1, ColumnShows, Windows, ListOperatorsAssumption
  <2>4. kept'.m_itr \in Nat
    BY <2>2 DEF Lists, Forms
  <2>5. Newest(row) <= kept'.m_itr
    BY <2>2, <2>3, <2>4
  <2>6. ASSUME NEW age \in 0..(Newest(row) - 1)
        PROVE  At(kept', age) = <<row - age>>
    <3>1. age \in 0..(MinLength - 1) /\ age < Width(mp)
      BY <2>3
    <3>. QED BY <2>1, <2>2, <3>1 DEF ShowsRows
  <2>7. row - dayStart <= row
    BY <1>1
  <2>8. ShowsRows(kept', row)
    BY <2>6 DEF ShowsRows
  <2>. QED BY <1>1, <2>1, <2>2, <2>5, <2>7, <2>8 DEF Kept
<1>. QED BY <1>2, <1>3, <1>4 DEF ListInv

LEMMA ListsKept ==
  ASSUME Apart
  PROVE  Spec => []ListInv
<1>1. Init => ListInv
  BY InitList
<1>2. ListInv /\ [Next]_vars => ListInv'
  <2>1. ASSUME ListInv, UNCHANGED vars PROVE ListInv'
    BY <2>1 DEF ListInv, Histories, Columns, Kept, Column, ShowsRows, vars
  <2>2. ASSUME ListInv, Next PROVE ListInv'
    BY <2>2, AppendTickKeeps, ReSetKeeps, AssignKeeps DEF Next
  <2>. QED BY <2>1, <2>2
<1>. QED BY <1>1, <1>2, PTL DEF Spec

----------------------------------------------------------------------------
(* The properties. *)

LEMMA ListForm ==
  ASSUME NEW l \in Lists
  PROVE  IsList(l)
BY DEF Lists, Forms, IsList

(* Every list keeps its form and its position inside the array, also the    *)
(* copies and the lists another is assigned to (List-inc.h).                *)
THEOREM ListTypes ==
  ASSUME Apart
  PROVE  Spec => []TypeOK
<1>1. ListInv => TypeOK
  <2>1. ASSUME ListInv PROVE TypeOK
    <3>1. /\ mp \in Lists /\ sp_list \in Lists /\ volume \in Lists /\ kept \in Lists
      BY <2>1 DEF ListInv, Columns, Kept, Column
    <3>2. copy(mp) \in Lists /\ Assigned(kept, mp) \in Lists
      BY <3>1, Copied, AssignedShows
    <3>3. /\ IsList(mp) /\ IsList(sp_list) /\ IsList(volume) /\ IsList(kept)
          /\ IsList(copy(mp)) /\ IsList(Assigned(kept, mp))
      BY <3>1, <3>2, ListForm
    <3>. QED BY <2>1, <3>3 DEF TypeOK, ListInv, Histories
  <2>. QED BY <2>1
<1>. QED BY <1>1, ListsKept, PTL

(* What each column shows, for as many rows as the window is said to cover. *)
LEMMA ColumnsShow ==
  ASSUME ListInv
  PROVE  /\ Shows(mp, Rows) /\ Shows(sp_list, Rows) /\ Shows(volume, Rows)
         /\ Rows \in 0..MinLength /\ Rows = Newest(row) /\ row \in Nat
         /\ \A age \in 0..(Rows - 1) : /\ Pre(mp, age) = <<row - age>>
                                       /\ Pre(sp_list, age) = <<row - age>>
                                       /\ Pre(volume, age) = <<row - age>>
<1>1. row \in Nat /\ row \in 0..row /\ row \in 0..(row + 1) /\ row + 1 \in Nat
  BY ListOperatorsAssumption DEF ListInv, Histories
<1>2. Rows = Newest(row)
  BY DEF Rows, Newest
<1>3. /\ Column(mp, row) /\ ShowsRows(mp, row)
      /\ Column(sp_list, row) /\ ShowsRows(sp_list, row)
      /\ Column(volume, row + 1) /\ ShowsRows(volume, row)
  BY DEF ListInv, Columns
<1>4. /\ Shows(mp, Newest(row)) /\ Shows(sp_list, Newest(row)) /\ Shows(volume, Newest(row))
      /\ Newest(row) \in 0..MinLength
  BY <1>1, <1>3, ColumnShows
<1>5. \A l, age : Pre(l, age) = At(l, age)
  BY Elements DEF At
<1>. QED BY <1>1, <1>2, <1>3, <1>4, <1>5 DEF ShowsRows

(* Ff7() combines columns of one row (factor_func.hpp).                     *)
THEOREM Ff7IsOfOneRow ==
  ASSUME Apart
  PROVE  Spec => []SeriesOfOneRow
<1>1. ASSUME ListInv PROVE SeriesOfOneRow
  <2>1. SUFFICES ASSUME NEW age \in 0..(Rows - 2)
                 PROVE  LET r == row - age
                        IN  Pre(Ff7, age) = <<r, r - 1, Scalar, r, Scalar, r>>
    BY DEF SeriesOfOneRow
  <2>. DEFINE R == Rows
              n == R - 1
              d == ts_delay(mp, 1)
              half_pr == Times(copy(d))
              half == Times(copy(mp))
              a == ByAge(copy(mp), half_pr)
              b == ByAge(a, half)
  <2>2. /\ Shows(mp, R) /\ Shows(sp_list, R) /\ R \in 0..MinLength /\ row \in Nat /\ MinLength \in Nat
        /\ \A x \in 0..(R - 1) : Pre(mp, x) = <<row - x>> /\ Pre(sp_list, x) = <<row - x>>
    BY <1>1, ColumnsShow, ListOperatorsAssumption
  <2>. HIDE DEF R
  <2>3. /\ age \in 0..(n - 1) /\ age \in 0..(R - 1) /\ age + 1 \in 0..(R - 1) /\ 1 \in 0..R
        /\ age \in 0..(R - 1 - 1) /\ n <= R /\ n \in 0..MinLength /\ row - (age + 1) = (row - age) - 1
        /\ row - age \in Int
    BY <2>1, <2>2 DEF R
  <2>4. Shows(mp, n) /\ Shows(sp_list, n)
    <3>1. ASSUME NEW l, Shows(l, R) PROVE Shows(l, n)
      <4>1. l \in Lists /\ Width(l) \in Nat /\ R <= Width(l)
        BY <3>1, Windows DEF Shows, Width
      <4>. QED BY <2>2, <2>3, <4>1 DEF Shows, Width
    <3>. QED BY <2>2, <3>1
  <2>5. Shows(d, n) /\ Pre(d, age) = Pre(mp, age + 1)
    BY <2>2, <2>3, DelayShows
  <2>. HIDE DEF n, d
  <2>6. Shows(half_pr, n) /\ Pre(half_pr, age) = Append(Pre(d, age), Scalar)
    <3>1. Shows(copy(d), n) /\ Pre(copy(d), age) = Pre(d, age)
      BY <2>3, <2>5, CopyShows
    <3>. QED BY <2>3, <3>1, TimesShows
  <2>7. Shows(copy(mp), n) /\ Pre(copy(mp), age) = Pre(mp, age)
    BY <2>3, <2>4, CopyShows
  <2>8. Shows(half, n) /\ Pre(half, age) = Append(Pre(mp, age), Scalar)
    BY <2>3, <2>7, TimesShows
  <2>. HIDE DEF half_pr, half
  <2>9. Shows(a, n) /\ Pre(a, age) = Pre(mp, age) \o Pre(half_pr, age)
    <3>. DEFINE c == copy(mp)
    <3>1. Shows(c, n) /\ Pre(c, age) = Pre(mp, age)
      BY <2>7
    <3>. HIDE DEF c
    <3>2. Shows(ByAge(c, half_pr), n) /\ Joins(ByAge(c, half_pr), c, half_pr, n)
      BY <2>6, <3>1, ByAgeShows
    <3>. QED BY <2>3, <3>1, <3>2 DEF a, c, Joins
  <2>. HIDE DEF a
  <2>10. Shows(b, n) /\ Pre(b, age) = Pre(a, age) \o Pre(half, age)
    <3>1. Shows(ByAge(a, half), n) /\ Joins(ByAge(a, half), a, half, n)
      BY <2>8, <2>9, ByAgeShows
    <3>. QED BY <2>3, <3>1 DEF Joins
  <2>. HIDE DEF b
  <2>11. Pre(ByAge(b, sp_list), age) = Pre(b, age) \o Pre(sp_list, age)
    <3>1. Joins(ByAge(b, sp_list), b, sp_list, n)
      BY <2>4, <2>10, ByAgeShows
    <3>. QED BY <2>3, <3>1 DEF Joins
  <2>12. Ff7 = ByAge(b, sp_list)
    BY DEF Ff7, b, a, half, half_pr, d
  <2>. DEFINE r == row - age
  <2>13. /\ Pre(mp, age) = <<r>> /\ Pre(sp_list, age) = <<r>> /\ Pre(d, age) = <<r - 1>>
         /\ r \in Int /\ Scalar \in Int
    BY <2>2, <2>3, <2>5 DEF Scalar
  <2>. HIDE DEF r
  <2>14. Pre(half_pr, age) = <<r - 1, Scalar>> /\ Pre(half, age) = <<r, Scalar>>
    <3>1. <<r - 1>> \in Series /\ <<r>> \in Series /\ r - 1 \in Int
      BY <2>13 DEF Series
    <3>. QED BY <2>6, <2>8, <2>13, <3>1, Scaled, OneAndOne
  <2>15. Pre(a, age) = <<r, r - 1, Scalar>>
    BY <2>9, <2>13, <2>14, OneAndTwo
  <2>16. Pre(b, age) = <<r, r - 1, Scalar, r, Scalar>>
    BY <2>10, <2>13, <2>14, <2>15, ThreeAndTwo
  <2>17. Pre(ByAge(b, sp_list), age) = <<r, r - 1, Scalar, r, Scalar, r>>
    <3>. DEFINE q == r - 1
    <3>1. q \in Int
      BY <2>13
    <3>. HIDE DEF q
    <3>2. <<r, q, Scalar, r, Scalar>> \o <<r>> = <<r, q, Scalar, r, Scalar, r>>
      BY <2>13, <3>1, FiveAndOne
    <3>. QED BY <2>11, <2>13, <2>16, <3>2 DEF q
  <2>. QED BY <2>12, <2>17 DEF r
<1>2. ListInv => SeriesOfOneRow
  BY <1>1
<1>. QED BY <1>2, ListsKept, PTL

(* ts_delta() subtracts the row it says (List-inc.h, factor_func.hpp).      *)
THEOREM DeltasAreOfRows ==
  ASSUME Apart
  PROVE  Spec => []DifferencesOfRows
<1>1. ASSUME ListInv PROVE DifferencesOfRows
  <2>1. /\ Shows(mp, Rows) /\ Rows \in 0..MinLength /\ row \in Nat /\ MinLength \in Nat
        /\ \A x \in 0..(Rows - 1) : Pre(mp, x) = <<row - x>>
    BY <1>1, ColumnsShow, ListOperatorsAssumption
  <2>2. ASSUME NEW age \in 0..(Rows - 3)
        PROVE  Pre(ts_delta(mp, 2), age) = <<row - age, row - age - 2>>
    <3>1. /\ 2 \in 0..Rows /\ age \in 0..(Rows - 2 - 1) /\ age \in 0..(Rows - 1)
          /\ age + 2 \in 0..(Rows - 1) /\ row - (age + 2) = row - age - 2
          /\ row - age \in Int /\ row - age - 2 \in Int
      BY <2>1
    <3>2. Pre(ts_delta(mp, 2), age) = Pre(mp, age) \o Pre(mp, age + 2)
      BY <2>1, <3>1, DeltaShows
    <3>3. Pre(mp, age) = <<row - age>> /\ Pre(mp, age + 2) = <<row - age - 2>>
      BY <2>1, <3>1
    <3>. QED BY <3>1, <3>2, <3>3, OneAndOne
  <2>3. ASSUME NEW age \in 0..(Rows - 2)
        PROVE  Pre(L2p1, age) = <<row - age, row - age, (row - age) - 1, (row - age) - 1>>
    <3>. DEFINE c == copy(mp)
                b == ByAge(c, mp)
    <3>1. /\ 1 \in 0..Rows /\ age \in 0..(Rows - 1 - 1) /\ age \in 0..(Rows - 1)
          /\ age + 1 \in 0..(Rows - 1) /\ row - (age + 1) = (row - age) - 1
          /\ row - age \in Int /\ (row - age) - 1 \in Int
      BY <2>1
    <3>2. Shows(c, Rows) /\ Pre(c, age) = Pre(mp, age) /\ Pre(c, age + 1) = Pre(mp, age + 1)
      BY <2>1, <3>1, CopyShows
    <3>. HIDE DEF c
    <3>3. /\ Shows(b, Rows) /\ Pre(b, age) = Pre(c, age) \o Pre(mp, age)
          /\ Pre(b, age + 1) = Pre(c, age + 1) \o Pre(mp, age + 1)
      <4>1. Shows(ByAge(c, mp), Rows) /\ Joins(ByAge(c, mp), c, mp, Rows)
        BY <2>1, <3>2, ByAgeShows
      <4>. QED BY <3>1, <4>1 DEF Joins
    <3>. HIDE DEF b
    <3>4. Pre(ts_delta(b, 1), age) = Pre(b, age) \o Pre(b, age + 1)
      BY <3>1, <3>3, DeltaShows
    <3>5. L2p1 = ts_delta(b, 1)
      BY DEF L2p1, b, c
    <3>. DEFINE r == row - age
                q == r - 1
    <3>6. Pre(mp, age) = <<r>> /\ Pre(mp, age + 1) = <<q>> /\ r \in Int /\ q \in Int
      BY <2>1, <3>1
    <3>. HIDE DEF r, q
    <3>7. Pre(b, age) = <<r, r>> /\ Pre(b, age + 1) = <<q, q>>
      <4>1. <<r>> \o <<r>> = <<r, r>> /\ <<q>> \o <<q>> = <<q, q>>
        BY <3>6, OneAndOne
      <4>. QED BY <3>2, <3>3, <3>6, <4>1
    <3>8. Pre(L2p1, age) = <<r, r, q, q>>
      <4>1. <<r, r>> \o <<q, q>> = <<r, r, q, q>>
        BY <3>6, TwoAndTwo
      <4>. QED BY <3>4, <3>5, <3>7, <4>1
    <3>. QED BY <3>8 DEF r, q
  <2>. QED BY <2>2, <2>3 DEF DifferencesOfRows
<1>2. ListInv => DifferencesOfRows
  BY <1>1
<1>. QED BY <1>2, ListsKept, PTL

(* Ff1() weighs each difference with the volume of its row, although volume *)
(* is one element ahead of the prices (market_data.cpp, factors.hpp).       *)
THEOREM WeightsAreOfTheirRow ==
  ASSUME Apart
  PROVE  Spec => []WeightsOfTheirRow
<1>1. ASSUME ListInv PROVE WeightsOfTheirRow
  <2>1. SUFFICES ASSUME NEW age \in 0..(Rows - 2)
                 PROVE  /\ Pre(delta_price, age) = <<row - age, row - age - 1, Scalar>>
                        /\ Pre(weights, age) = <<row - age, Scalar>>
    BY DEF WeightsOfTheirRow
  <2>2. /\ Shows(mp, Rows) /\ Shows(volume, Rows) /\ Rows \in 0..MinLength /\ row \in Nat
        /\ \A x \in 0..(Rows - 1) : Pre(mp, x) = <<row - x>> /\ Pre(volume, x) = <<row - x>>
        /\ MinLength \in Nat
    BY <1>1, ColumnsShow, ListOperatorsAssumption
  <2>. DEFINE r == row - age
              q == row - age - 1
  <2>3. /\ 1 \in 0..Rows /\ age \in 0..(Rows - 1 - 1) /\ age \in 0..(Rows - 1)
        /\ age + 1 \in 0..(Rows - 1) /\ row - (age + 1) = q
        /\ r \in Int /\ q \in Int /\ Scalar \in Int
    BY <2>2 DEF Scalar
  <2>4. /\ Pre(mp, age) = <<r>> /\ Pre(mp, age + 1) = <<q>> /\ Pre(volume, age) = <<r>>
        /\ <<r>> \in Series /\ <<r, q>> \in Series
    BY <2>2, <2>3 DEF Series
  <2>. HIDE DEF r, q
  <2>5. Pre(delta_price, age) = <<r, q, Scalar>>
    <3>. DEFINE c == copy(mp)
                d == ts_delta(c, 1)
    <3>1. Shows(c, Rows) /\ Pre(c, age) = <<r>> /\ Pre(c, age + 1) = <<q>>
      BY <2>2, <2>3, <2>4, CopyShows
    <3>. HIDE DEF c
    <3>2. Shows(d, Rows - 1) /\ Pre(d, age) = Pre(c, age) \o Pre(c, age + 1)
      BY <2>3, <3>1, DeltaShows
    <3>. HIDE DEF d
    <3>3. Pre(d, age) = <<r, q>>
      BY <2>3, <3>1, <3>2, OneAndOne
    <3>4. Pre(Times(d), age) = Append(Pre(d, age), Scalar)
      BY <2>3, <3>2, TimesShows
    <3>5. delta_price = Times(d)
      BY DEF delta_price, d, c
    <3>6. Append(<<r, q>>, Scalar) = <<r, q>> \o <<Scalar>>
      BY <2>4, Scaled
    <3>. QED BY <2>3, <3>3, <3>4, <3>5, <3>6, TwoAndOne
  <2>6. Pre(weights, age) = <<r, Scalar>>
    <3>. DEFINE c == copy(volume)
                d == copy(c)
    <3>1. Shows(c, Rows) /\ Pre(c, age) = <<r>>
      BY <2>2, <2>3, <2>4, CopyShows
    <3>. HIDE DEF c
    <3>2. Shows(d, Rows) /\ Pre(d, age) = <<r>>
      BY <2>3, <3>1, CopyShows
    <3>. HIDE DEF d
    <3>3. Pre(Plus(d), age) = Append(<<r>>, Scalar)
      BY <2>3, <3>2, PlusShows
    <3>4. weights = Plus(d)
      BY DEF weights, d, c
    <3>5. Append(<<r>>, Scalar) = <<r>> \o <<Scalar>>
      BY <2>4, Scaled
    <3>. QED BY <2>3, <3>3, <3>4, <3>5, OneAndOne
  <2>. QED BY <2>5, <2>6 DEF r, q
<1>2. ListInv => WeightsOfTheirRow
  BY <1>1
<1>. QED BY <1>2, ListsKept, PTL

(* Pairing by index is pairing by row while the window of mp is full or the *)
(* first day has not ended (Ff7_10() and operator-(), which count from      *)
(* begin()).                                                                *)
THEOREM IndexedPairsAreOfOneRow ==
  ASSUME Apart
  PROVE  Spec => []IndexedPairsOfOneRow
<1>1. ASSUME ListInv PROVE IndexedPairsOfOneRow
  <2>1. SUFFICES ASSUME row > 0, mp.m_cum_size >= MinLength \/ dayStart = 0
                 PROVE  /\ \A age \in 0..(Rows - 2) :
                             Pre(Ff7_10, age) = <<row - age, (row - age) - 1, row - age, row - age>>
                        /\ \A age \in 0..(Rows - 1) :
                             Pre(ByIndex(mp, sp_list), age) = <<row - age, row - age>>
    BY DEF IndexedPairsOfOneRow
  <2>2. /\ Rows \in 0..MinLength /\ row \in Nat
        /\ \A x \in 0..(Rows - 1) : Pre(mp, x) = <<row - x>> /\ Pre(sp_list, x) = <<row - x>>
        /\ MinLength \in Nat /\ Rows = Newest(row)
    BY <1>1, ColumnsShow, ListOperatorsAssumption
  <2>3. /\ mp \in Lists /\ mp.m_itr <= row /\ (mp.m_itr = row \/ MinLength < mp.m_itr)
        /\ mp.m_cum_size = row - dayStart /\ dayStart \in 0..row /\ mp.m_itr \in Nat
        /\ sp_list \in Lists /\ sp_list.m_itr <= row
        /\ sp_list.m_itr = row \/ MinLength < sp_list.m_itr
        /\ sp_list.m_cum_size = row /\ sp_list.m_itr \in Nat
    BY <1>1 DEF ListInv, Histories, Columns, Column, Lists, Forms
  <2>4. Width(mp) = Rows /\ Width(sp_list) = Rows /\ Smaller(mp.m_cum_size, MinLength) = Rows
    <3>1. /\ Begin(mp) = IF mp.m_cum_size >= MinLength THEN mp.m_itr - MinLength ELSE 0
          /\ Begin(sp_list) = IF sp_list.m_cum_size >= MinLength THEN sp_list.m_itr - MinLength ELSE 0
      BY Elements
    <3>2. CASE mp.m_cum_size >= MinLength
      BY <2>2, <2>3, <3>1, <3>2 DEF Width, Smaller, Newest
    <3>3. CASE dayStart = 0 /\ ~(mp.m_cum_size >= MinLength)
      BY <2>2, <2>3, <3>1, <3>3 DEF Width, Smaller, Newest
    <3>. QED BY <2>1, <3>2, <3>3
  <2>5. ASSUME NEW age \in 0..(Rows - 2)
        PROVE  Pre(Ff7_10, age) = <<row - age, (row - age) - 1, row - age, row - age>>
    <3>. DEFINE r == row - age
                q == r - 1
    <3>1. /\ age \in 0..(Rows - 1) /\ age + 1 \in 0..(Rows - 1) /\ row - (age + 1) = q
          /\ r \in Int /\ q \in Int
      BY <2>2
    <3>2. Pre(mp, age) = <<r>> /\ Pre(mp, age + 1) = <<q>> /\ Pre(sp_list, age) = <<r>>
      BY <2>2, <3>1
    <3>. HIDE DEF r, q
    <3>3. Pre(Ff7_10, age) = <<r>> \o <<q>> \o <<r>> \o <<r>>
      BY <2>2, <2>3, <2>4, <3>2, Ff7_10Shows
    <3>4. <<r>> \o <<q>> \o <<r>> = <<r, q, r>>
      BY <3>1, OneAndOne, TwoAndOne
    <3>5. Pre(Ff7_10, age) = <<r, q, r, r>>
      BY <3>1, <3>3, <3>4, ThreeAndOne
    <3>. QED BY <3>5 DEF r, q
  <2>6. ASSUME NEW age \in 0..(Rows - 1)
        PROVE  Pre(ByIndex(mp, sp_list), age) = <<row - age, row - age>>
    <3>1. Pre(ByIndex(mp, sp_list), age) = Pre(mp, age) \o Pre(sp_list, age)
      BY <2>2, <2>3, <2>4, ByIndexShows
    <3>2. row - age \in Int /\ Pre(mp, age) = <<row - age>> /\ Pre(sp_list, age) = <<row - age>>
      BY <2>2
    <3>. QED BY <3>1, <3>2, OneAndOne
  <2>. QED BY <2>5, <2>6
<1>2. ListInv => IndexedPairsOfOneRow
  BY <1>1
<1>. QED BY <1>2, ListsKept, PTL

(* A list reads as the one that was assigned to it (operator=() of          *)
(* List-inc.h appends behind what is there and takes over the size).        *)
THEOREM AssignedReadsAsSource ==
  ASSUME Apart
  PROVE  Spec => []AssignmentShowsSource
<1>1. ASSUME ListInv PROVE AssignmentShowsSource
  <2>1. /\ kept \in Lists /\ ShowsRows(kept, keptRow) /\ kept.m_cum_size <= keptRow
        /\ keptRow \in Nat /\ MinLength \in Nat /\ kept.m_cum_size \in Nat
    BY <1>1, ListOperatorsAssumption DEF ListInv, Histories, Kept, Lists, Forms
  <2>2. \A age \in 0..(Smaller(keptRow, MinLength) - 1) : Pre(kept, age) = <<keptRow - age>>
    <3>1. \A age : Pre(kept, age) = At(kept, age)
      BY Elements DEF At
    <3>. QED BY <2>1, <3>1 DEF ShowsRows, Newest
  <2>3. ASSUME kept.m_cum_size >= MinLength
        PROVE  Window(kept) = [i \in 1..MinLength |-> <<keptRow - MinLength + i>>]
    <3>1. /\ Width(kept) = MinLength /\ Window(kept) \in [1..MinLength -> Series]
          /\ \A i \in 1..MinLength : Window(kept)[i] = Pre(kept, MinLength - i)
      <4>1. /\ Width(kept) = MinLength \/ kept.m_cum_size < MinLength
            /\ Window(kept) \in [1..Width(kept) -> Series]
            /\ \A i \in 1..Width(kept) : Window(kept)[i] = Pre(kept, Width(kept) - i)
        BY <2>1, Windows
      <4>2. Width(kept) = MinLength
        BY <2>1, <2>3, <4>1
      <4>. QED BY <4>1, <4>2
    <3>2. Smaller(keptRow, MinLength) = MinLength
      BY <2>1, <2>3 DEF Smaller
    <3>3. ASSUME NEW i \in 1..MinLength
          PROVE  Window(kept)[i] = <<keptRow - MinLength + i>>
      <4>1. /\ MinLength - i \in 0..(MinLength - 1)
            /\ keptRow - (MinLength - i) = keptRow - MinLength + i
        BY <2>1
      <4>2. Pre(kept, MinLength - i) = <<keptRow - (MinLength - i)>>
        BY <2>2, <3>2, <4>1
      <4>. QED BY <3>1, <4>1, <4>2
    <3>. QED BY <3>1, <3>3
  <2>. QED BY <2>2, <2>3 DEF AssignmentShowsSource
<1>2. ListInv => AssignmentShowsSource
  BY <1>1
<1>. QED BY <1>2, ListsKept, PTL
=============================================================================
