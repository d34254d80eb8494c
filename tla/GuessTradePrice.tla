-------------------------- MODULE GuessTradePrice --------------------------
(***************************************************************************)
(* guess_trade_price() of FastFactorMan.h and FactorMan.h: which of the    *)
(* lots traded between two rows of market data were bought at the ask and  *)
(* which were sold at the bid, guessed from the last price, the previous   *)
(* order book and the new one.  Both classes hold the same five steps.     *)
(*                                                                         *)
(* Prices are whole ticks.  `in` holds what a call reads: trade_vol, the   *)
(* traded amount (wvap * trade_vol in the code), lastprice, the new best   *)
(* prices, and the five levels of the previous row.  `s` holds the         *)
(* variables of the function.  Comparisons with NPS, and 0.01 more on one  *)
(* side, are exact between whole ticks.                                    *)
(***************************************************************************)
EXTENDS Integers

Sides == {"bid", "ask"}
Levels == 1..5

Spread(in) == in.best["ask"] - in.best["bid"]
TwiceMid(in) == in.best["ask"] + in.best["bid"]

(* The side of a price in comparison with mid_price. *)
SideOf(in, price) == IF 2 * price < TwiceMid(in) THEN "bid" ELSE "ask"

(* n lots are booked on a side at a price, and taken off what is left. *)
Book(s, side, n, price) ==
  [s EXCEPT !.vol[side] = @ + n, !.amount[side] = @ + n * price,
            !.left_vol = @ - n, !.left_amount = @ - n * price]

Start(in) ==
  [vol |-> [side \in Sides |-> 0], amount |-> [side \in Sides |-> 0],
   left_vol |-> in.trade_vol, left_amount |-> in.amount,
   take |-> [side \in Sides |-> [i \in Levels |-> 0]],   \* take_bid, take_ask
   near |-> [side \in Sides |-> 0]]                      \* take_b1, take_a1

(* Step 1: one lot at the last price. *)
LastPriceLot(in) == Book(Start(in), SideOf(in, in.lastprice), 1, in.lastprice)

(* Step 2: the levels the best price has moved past have traded. *)
Passed(in, side, i) ==
  IF side = "bid" THEN in.best["bid"] < in.price_pr["bid"][i]
                  ELSE in.best["ask"] > in.price_pr["ask"][i]

(* Mutant: a level is taken whole though fewer lots are left. *)
WholeLevel(in, s, side, i) ==
  IF Passed(in, side, i) /\ s.left_vol > 0 THEN in.vol_pr[side][i] ELSE 0

Taken(in, s, side, i) ==
  IF ~(Passed(in, side, i) /\ s.left_vol > 0) THEN 0
  ELSE IF in.vol_pr[side][i] <= s.left_vol THEN in.vol_pr[side][i] ELSE s.left_vol

TakeLevel(in, s, side, i) ==
  LET n == Taken(in, s, side, i)
  IN  [Book(s, side, n, in.price_pr[side][i]) EXCEPT !.take[side][i] = n]

Sweep(in, s, i) == TakeLevel(in, TakeLevel(in, s, "bid", i), "ask", i)

SweepAll(in, s) == Sweep(in, Sweep(in, Sweep(in, Sweep(in, Sweep(in, s, 1), 2), 3), 4), 5)

(* Step 3: the rest is divided between the best bid and the best ask.  Both *)
(* parts are rounded on their own, half away from zero.                     *)
Round(a, b) == (2 * a + b) \div (2 * b)

NearLots(in, s) ==
  LET atAsk == in.best["ask"] * s.left_vol - s.left_amount
      atBid == s.left_amount - in.best["bid"] * s.left_vol
  IN  IF s.left_vol <= 0 THEN [bid |-> 0, ask |-> 0]
      ELSE IF atAsk < 0 THEN [bid |-> 0, ask |-> s.left_vol]
      ELSE IF atBid < 0 THEN [bid |-> s.left_vol, ask |-> 0]
      ELSE [bid |-> Round(atAsk, Spread(in)), ask |-> Round(atBid, Spread(in))]

DivideRest(in, s) ==
  LET lots == NearLots(in, s)
  IN  [Book(Book(s, "ask", lots.ask, in.best["ask"]), "bid", lots.bid, in.best["bid"])
         EXCEPT !.near = lots]

(* Step 4: rounding may leave one lot too many or too few. *)
NearAsk(in, s) ==
  /\ \/ s.left_vol = 1 /\ in.best["ask"] - s.left_amount <= s.left_amount - in.best["bid"]
     \/ s.left_vol = -1 /\ in.best["ask"] + s.left_amount <= -s.left_amount - in.best["bid"]
  /\ s.left_vol + s.near["ask"] >= 0

(* Mutant: the odd lot is forgotten. *)
KeepOddLot(in, s) == s

PlaceOddLot(in, s) ==
  LET side == IF NearAsk(in, s) THEN "ask" ELSE "bid"
  IN  [Book(s, side, s.left_vol, in.best[side]) EXCEPT !.near[side] = @ + s.left_vol]

(* Step 5: the rest of the amount goes onto one of the lots, which is then   *)
(* booked on the side of its new price.                                     *)
Move(in, s, side, price) ==
  LET new == price + s.left_amount
  IN  Book(Book(s, side, -1, price), SideOf(in, new), 1, new)

FirstTaken(s, side) ==
  CHOOSE i \in Levels : s.take[side][i] > 0 /\ \A j \in 1..(i - 1) : s.take[side][j] <= 0

MoveSwept(in, s, side) == Move(in, s, side, in.price_pr[side][FirstTaken(s, side)])

(* Mutant: the swept levels are not considered. *)
PlaceOnNearLot(in, s) ==
  IF s.near["bid"] > 0 THEN Move(in, s, "bid", in.best["bid"])
  ELSE IF s.near["ask"] > 0 THEN Move(in, s, "ask", in.best["ask"])
  ELSE s

PlaceAmount(in, s) ==
  IF s.near["bid"] > 0 THEN Move(in, s, "bid", in.best["bid"])
  ELSE IF s.near["ask"] > 0 THEN Move(in, s, "ask", in.best["ask"])
  ELSE IF \E i \in Levels : s.take["bid"][i] > 0 THEN MoveSwept(in, s, "bid")
  ELSE IF \E i \in Levels : s.take["ask"][i] > 0 THEN MoveSwept(in, s, "ask")
  ELSE s

(* The function: each step but the first returns when no amount is left. *)
guess_trade_price(in) ==
  LET swept   == SweepAll(in, LastPriceLot(in))
      divided == DivideRest(in, swept)
      placed  == PlaceOddLot(in, divided)
  IN  IF in.trade_vol <= 0 THEN Start(in)
      ELSE IF swept.left_amount = 0 THEN swept
      ELSE IF divided.left_amount = 0 THEN divided
      ELSE IF placed.left_amount = 0 THEN placed
      ELSE PlaceAmount(in, placed)
=============================================================================
