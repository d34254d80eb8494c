----------------------------- MODULE MCFastIC1 -----------------------------
(* An instance of FastIC1 for TLC: four books, with prices around 1000.  Their *)
(* ADI are 1/5, 1/3, 0 and 3/5: with a precision of 5 or 6, the first two are  *)
(* taken for equal; with 5, the first and the third differ by the tolerance.   *)
EXTENDS FastIC1

MCBook(bid1, ask1, step, bidv, askv) ==
  [price |-> [bid |-> [i \in Levels |-> bid1 - (i - 1) * step],
              ask |-> [i \in Levels |-> ask1 + (i - 1) * step]],
   vol   |-> [bid |-> [i \in Levels |-> bidv], ask |-> [i \in Levels |-> askv]]]

MCBooks == {MCBook(999, 1001, 1, 3, 2), MCBook(1001, 1002, 1, 2, 1),
            MCBook(997, 999, 2, 1, 1), MCBook(999, 1000, 2, 4, 1)}
MCTradePrices == 998..1002
============================================================================
