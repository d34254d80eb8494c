------------------------------ MODULE Strapro ------------------------------
(***************************************************************************)
(* Order handling of the IC1 strategy (src/src/IC1/StraPro.cc) against an  *)
(* order manager whose life cycle of an order is the one documented in     *)
(* src/include/alpha/constant.h.                                           *)
(*                                                                         *)
(* calc() reads get_net_position() up to four times before it calls        *)
(* insert(), and the fills that move that position are booked outside the  *)
(* strategy.  Each read, and insert(), is a step of its own, so a fill may *)
(* fall between any two of them.  Prices, the factors and the model's      *)
(* score are abstracted to the branch that the score selects: buy, sell,   *)
(* or nothing.                                                             *)
(***************************************************************************)
EXTENDS Integers

CONSTANTS
  OrderIds,   \* orders the order manager can have alive at once (bound)
  MaxPos,     \* values the configuration may give max_pos
  DayTicks,   \* market data rows of one trading day
  LookAhead,  \* calc() looks this many rows ahead: 10 in the code
  HalfWord,   \* an unsigned int counts modulo 2 * HalfWord: 2^31 in the code
  Overnight,  \* net positions the first day may start with
  MaxLate     \* bound on the fills of orders already told to cancel

Word == 2 * HalfWord

Buy  == 1     \* oms::SideBuy, and the branch taken on a buy signal
Sell == -1    \* oms::SideSell

Abs(x) == IF x < 0 THEN -x ELSE x
Smaller(x, y) == IF x > y THEN y ELSE x
Larger(x, y)  == IF x > y THEN x ELSE y

ASSUME StraproAssumption ==
  /\ OrderIds # {}
  /\ MaxPos \subseteq Nat
  /\ Overnight \subseteq Int
  /\ DayTicks \in Nat /\ LookAhead \in Nat
  /\ MaxLate \in Nat
  /\ HalfWord \in Nat \ {0}
  /\ \A m \in MaxPos    : m + MaxLate + 1 < HalfWord
  /\ \A n \in Overnight : Abs(n) + MaxLate + 1 < HalfWord

VARIABLES
  net,         \* what get_net_position() returns
  orders,      \* the order manager's single_order records
  max_pos,     \* the static of the same name, 0 until do_finalize() sets it
  target_pos,  \* the member of the same name
  size,        \* the uint32_t argument of NewBuyOrder() and NewSellOrder()
  objective,   \* the local target_pos of NewBuyOrder() and NewSellOrder()
  branch,      \* the branch of calc() being executed
  pc,          \* where calc() stands: see Phases
  tick,        \* rows of the day received so far
  sent,        \* side and quantity of the latest call of insert()
  limit,       \* history: the largest of the position limits so far
  late,        \* history: lots filled by orders already told to cancel
  lateAtCalc   \* history: late when the current calc() began

vars == <<net, orders, max_pos, target_pos, size, objective, branch, pc, tick,
          sent, limit, late, lateAtCalc>>

calcVars == <<target_pos, size, objective, branch, pc>>
histVars == <<limit, late, lateAtCalc>>

(* "wait": a row arrived and calc() was not called for it; "done": calc()   *)
(* returned.                                                                *)
InCalc == {"signal", "check", "size", "place", "send"}
Phases == InCalc \cup {"wait", "done"}

(* fill counts down from vol, as in single_order; start is the start_time. *)
Statuses == {"INACTIVE", "TO_ACTIVE", "MARKET_ACCEPT", "TO_CANCEL"}
Order == [side : {Buy, Sell}, vol : Nat, fill : Nat, status : Statuses, start : Nat]
NoOrder == [side |-> Buy, vol |-> 0, fill |-> 0, status |-> "INACTIVE", start |-> 0]

Live    == {o \in OrderIds : orders[o].status # "INACTIVE"}
Working == {o \in OrderIds : orders[o].status \in {"TO_ACTIVE", "MARKET_ACCEPT"}}

(* Net position once the rest of order o has been filled. *)
Landing(o) == net + orders[o].side * orders[o].fill

----------------------------------------------------------------------------
(* 32-bit arithmetic: conversion to uint32_t and back to int. *)

NoConversion(x) == x    \* mutant: the arithmetic stays signed

ToUnsigned(x) == x % Word
ToSigned(u)   == IF u < HalfWord THEN u ELSE u - Word

----------------------------------------------------------------------------
(* The order manager. *)

(* Mutant: orders the exchange has not accepted yet are left alone. *)
CancelAccepted ==
  orders' = [o \in OrderIds |->
               IF orders[o].status = "MARKET_ACCEPT"
                 THEN [orders[o] EXCEPT !.status = "TO_CANCEL"]
                 ELSE orders[o]]

(* Every order that can still fill is told to cancel. *)
CancelAll ==
  orders' = [o \in OrderIds |->
               IF o \in Working THEN [orders[o] EXCEPT !.status = "TO_CANCEL"]
                                ELSE orders[o]]

(* insert() takes the objective position: the order is for the difference. *)
Insert(side, qty) ==
  LET delta == side * qty - net
  IN  /\ sent' = [side |-> side, qty |-> qty]
      /\ \/ /\ delta = 0
            /\ UNCHANGED orders
         \/ /\ delta # 0
            /\ \E o \in OrderIds \ Live :
                 orders' = [orders EXCEPT ![o] =
                              [side   |-> IF delta > 0 THEN Buy ELSE Sell,
                               vol    |-> Abs(delta),
                               fill   |-> Abs(delta),
                               status |-> "TO_ACTIVE",
                               start  |-> tick]]

Accept(o) ==
  /\ orders[o].status = "TO_ACTIVE"
  /\ orders' = [orders EXCEPT ![o].status = "MARKET_ACCEPT"]
  /\ UNCHANGED <<net, max_pos, calcVars, tick, sent, histVars>>

(* API_REJECT or MARKET_REJECT: nothing of the order was filled. *)
Reject(o) ==
  /\ orders[o].status \in {"TO_ACTIVE", "TO_CANCEL"}
  /\ orders[o].fill = orders[o].vol
  /\ orders' = [orders EXCEPT ![o] = NoOrder]
  /\ UNCHANGED <<net, max_pos, calcVars, tick, sent, histVars>>

OneLotLess(order) == IF order.fill = 1 THEN NoOrder ELSE [order EXCEPT !.fill = @ - 1]

(* One lot of order o fills; the last one ends the order, and a cancel that *)
(* is under way then fails.                                                 *)
Exec(o) ==
  /\ orders[o].status \in {"MARKET_ACCEPT", "TO_CANCEL"}
  /\ orders[o].status = "TO_CANCEL" => late < MaxLate
  /\ net' = net + orders[o].side
  /\ orders' = [orders EXCEPT ![o] = OneLotLess(@)]
  /\ late' = IF orders[o].status = "TO_CANCEL" THEN late + 1 ELSE late
  /\ UNCHANGED <<max_pos, calcVars, tick, sent, limit, lateAtCalc>>

CancelSuccess(o) ==
  /\ orders[o].status = "TO_CANCEL"
  /\ orders' = [orders EXCEPT ![o] = NoOrder]
  /\ UNCHANGED <<net, max_pos, calcVars, tick, sent, histVars>>

(* After the last row of the day the exchange ends what is still alive. *)
Expire(o) ==
  /\ tick = DayTicks /\ pc = "done"
  /\ o \in Live
  /\ orders' = [orders EXCEPT ![o] = NoOrder]
  /\ UNCHANGED <<net, max_pos, calcVars, tick, sent, histVars>>

----------------------------------------------------------------------------
(* The framework and the strategy. *)

MdTick ==
  /\ pc = "done" /\ tick < DayTicks
  /\ tick' = tick + 1
  /\ pc' = "wait"
  /\ UNCHANGED <<net, orders, max_pos, target_pos, size, objective, branch, sent, histVars>>

(* Is row (10) there?  Its update_time is 0 when it is not. *)
RowAhead == tick + LookAhead <= DayTicks

CalcReturnsEarly ==
  /\ pc = "wait" /\ ~RowAhead
  /\ pc' = "done"
  /\ UNCHANGED <<net, orders, max_pos, target_pos, size, objective, branch, tick, sent, histVars>>

CalcBegins ==
  /\ pc = "wait" /\ RowAhead
  /\ CancelAll
  /\ lateAtCalc' = late
  /\ pc' = "signal"
  /\ UNCHANGED <<net, max_pos, target_pos, size, objective, branch, tick, sent, limit, late>>

NoSignal ==
  /\ pc = "signal"
  /\ pc' = "done"
  /\ UNCHANGED <<net, orders, max_pos, target_pos, size, objective, branch, tick, sent, histVars>>

(* The position after the next one in direction d; 0 is passed over. *)
NextPosition(d) == IF net + d = 0 THEN d ELSE net + d

TargetNotClamped(d) == NextPosition(d)    \* mutant: max_pos is not applied

ClampTarget(d) == IF d = Buy THEN Smaller(NextPosition(d), max_pos)
                             ELSE Larger(NextPosition(d), -max_pos)

OnSignal(d) ==
  /\ pc = "signal"
  /\ target_pos' = ClampTarget(d)
  /\ branch' = d
  /\ pc' = "check"
  /\ UNCHANGED <<net, orders, max_pos, size, objective, tick, sent, histVars>>

CheckTarget ==
  /\ pc = "check"
  /\ pc' = IF branch * (target_pos - net) > 0 THEN "size" ELSE "done"
  /\ UNCHANGED <<net, orders, max_pos, target_pos, size, objective, branch, tick, sent, histVars>>

ComputeSize ==
  /\ pc = "size"
  /\ size' = ToUnsigned(branch * (target_pos - net))
  /\ pc' = "place"
  /\ UNCHANGED <<net, orders, max_pos, target_pos, objective, branch, tick, sent, histVars>>

(* Mutant: NewSellOrder() adds its size, as NewBuyOrder() does. *)
AddedInBothBranches == ToUnsigned(ToUnsigned(net) + size)

(* net_pos and size meet as unsigned numbers. *)
UnsignedTarget == ToUnsigned(ToUnsigned(net) + branch * size)

NewOrder(d) ==
  /\ pc = "place" /\ branch = d
  /\ objective' = UnsignedTarget
  /\ pc' = "send"
  /\ UNCHANGED <<net, orders, max_pos, target_pos, size, branch, tick, sent, histVars>>

NewBuyOrder  == NewOrder(Buy)
NewSellOrder == NewOrder(Sell)

(* The test target_pos > 0 is made on an unsigned number: it holds unless   *)
(* the number is 0, the SideSell arm is never taken, and insert() converts  *)
(* the number back to int.                                                  *)
SendObjective ==
  /\ pc = "send"
  /\ \/ objective > 0 /\ Insert(Buy, ToSigned(objective))
     \/ objective = 0 /\ UNCHANGED <<orders, sent>>
  /\ pc' = "done"
  /\ UNCHANGED <<net, max_pos, target_pos, size, objective, branch, tick, histVars>>

(* Between two days: the configuration is read again. *)
DoFinalize ==
  /\ pc = "done" /\ tick = DayTicks /\ Live = {}
  /\ max_pos' \in MaxPos
  /\ limit' = Larger(limit, max_pos')
  /\ tick' = 0
  /\ UNCHANGED <<net, orders, calcVars, sent, late, lateAtCalc>>

----------------------------------------------------------------------------

Init ==
  /\ net \in Overnight
  /\ orders = [o \in OrderIds |-> NoOrder]
  /\ max_pos = 0 /\ target_pos = 0 /\ size = 0 /\ objective = 0
  /\ branch = Buy
  /\ pc = "done" /\ tick = 0
  /\ sent = [side |-> Buy, qty |-> 0]
  /\ limit = Abs(net)
  /\ late = 0 /\ lateAtCalc = 0

Calc ==
  \/ CalcReturnsEarly \/ CalcBegins \/ NoSignal
  \/ \E d \in {Buy, Sell} : OnSignal(d)
  \/ CheckTarget \/ ComputeSize
  \/ NewBuyOrder \/ NewSellOrder \/ SendObjective

OrderManager ==
  \E o \in OrderIds :
    Accept(o) \/ Reject(o) \/ Exec(o) \/ CancelSuccess(o) \/ Expire(o)

Next == MdTick \/ Calc \/ DoFinalize \/ OrderManager

Spec == Init /\ [][Next]_vars

----------------------------------------------------------------------------
(* Properties. *)

TypeOK ==
  /\ net \in Int
  /\ orders \in [OrderIds -> Order]
  /\ max_pos \in Nat
  /\ target_pos \in Int
  /\ size \in 0..(Word - 1) /\ objective \in 0..(Word - 1)
  /\ branch \in {Buy, Sell}
  /\ pc \in Phases
  /\ tick \in 0..DayTicks
  /\ sent \in [side : {Buy, Sell}, qty : Int]
  /\ limit \in Nat
  /\ late \in 0..MaxLate /\ lateAtCalc \in 0..MaxLate

(* At most one order is at work: calc() cancels everything before it sends *)
(* an objective, whatever is still pending from earlier rows.               *)
OneWorkingOrder == \A o, p \in Working : o = p

(* The position overshoots the largest limit ever configured (or the        *)
(* overnight position) by no more lots than orders filled after they were   *)
(* told to cancel: the four reads of get_net_position() and the unsigned    *)
(* arithmetic add no overshoot of their own.                                *)
OvershootBoundedByLateFills == Abs(net) <= limit + late

(* Once calc() is over, an order at work belongs to this row, or in the     *)
(* rows without lookahead to the last row that had it.                      *)
WorkingOrderIsFresh ==
  pc = "done" => \A o \in Working :
                   orders[o].start = Smaller(tick, DayTicks - LookAhead)

(* An order placed by a calc() during which no cancelled order filled goes  *)
(* in the direction of its signal, and ends within max_pos or, when the     *)
(* position is already outside, strictly nearer to flat.                    *)
QuietOrderObeysLimit ==
  [][\A o \in OrderIds :
       (/\ orders[o].status = "INACTIVE"
        /\ orders'[o].status = "TO_ACTIVE"
        /\ late = lateAtCalc)
       => LET landing == net + orders'[o].side * orders'[o].vol
          IN  /\ orders'[o].side = branch
              /\ Abs(landing) <= max_pos \/ Abs(landing) < Abs(net)]_vars

(* "Sell the given number of lots": an objective below flat goes out as a   *)
(* sell, in the arm that is there for it.                                   *)
SellOrderIsSell ==
  [][pc = "send" /\ branch = Sell /\ pc' = "done" /\ ToSigned(objective) < 0
       => sent'.side = Sell]_vars

(* "Buy the given number of lots": an order for that many goes out, unless  *)
(* a late fill moves the position while it is prepared.                     *)
BuyOrderBuysSize ==
  [][pc = "send" /\ branch = Buy /\ pc' = "done" /\ late = lateAtCalc
       => \E o \in OrderIds : /\ o \notin Live
                              /\ orders'[o].side = Buy
                              /\ orders'[o].vol = size]_vars
============================================================================
