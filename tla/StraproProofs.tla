--------------------------- MODULE StraproProofs ---------------------------
(***************************************************************************)
(* Proofs about Strapro, for every configured max_pos, overnight position, *)
(* set of orders and word size that StraproAssumption admits.              *)
(*                                                                         *)
(* The invariant follows one number through calc(): where the position     *)
(* lands if nothing else fills.  It is target_pos after the clamp, net plus *)
(* the signed size once the size is computed, the objective read as an int *)
(* once the unsigned sum is made, and the landing position of the order    *)
(* once insert() has sent it.  A fill of a cancelled order moves it by one *)
(* lot, and late grows by one with it.                                     *)
(***************************************************************************)
EXTENDS Strapro, TLAPS

(* As far from flat as the limit and the late fills so far account for. *)
Within(x) == -(limit + late) <= x /\ x <= limit + late

(* No unsigned number below is wrapped more than once. *)
WordIsWide ==
  /\ max_pos <= limit
  /\ limit + MaxLate + 1 < HalfWord

(* An order that can still fill has something left to fill. *)
LiveOrdersUnfilled == \A o \in Live : orders[o].fill >= 1

WorkingOrdersLandWithin == \A o \in Working : Within(Landing(o))

(* Between cancel_all() and insert() nothing is at work, and the row (10) *)
(* that calc() has tested is still there.                                 *)
CalcOwnsTheBook == pc \in InCalc => Working = {} /\ RowAhead

TargetWithin == pc \in {"check", "size"} => Within(target_pos)

(* size is the difference x modulo the word, and x leads inside. *)
SizeWithin ==
  pc = "place" => \E x \in (1 - Word)..(Word - 1) :
                    size = ToUnsigned(x) /\ Within(net + branch * x)

ObjectiveWithin == pc = "send" => Within(ToSigned(objective))

IInv ==
  /\ TypeOK
  /\ WordIsWide
  /\ OneWorkingOrder
  /\ Within(net)
  /\ LiveOrdersUnfilled
  /\ WorkingOrdersLandWithin
  /\ CalcOwnsTheBook
  /\ TargetWithin
  /\ SizeWithin
  /\ ObjectiveWithin

(* For WorkingOrderIsFresh: while a row waits for calc(), what is at work *)
(* dates from the row before it.                                          *)
StartIsLastRow ==
  \A o \in Working :
    orders[o].start = Smaller(IF pc = "wait" THEN tick - 1 ELSE tick, DayTicks - LookAhead)

(* For QuietOrderObeysLimit: as long as no cancelled order has filled, what *)
(* calc() computed from its first read of the position is still exact.     *)
Obeys(x) ==
  /\ branch * (x - net) > 0
  /\ Abs(x) <= max_pos \/ Abs(x) < Abs(net)

QuietCalc ==
  /\ lateAtCalc <= late
  /\ (pc \in InCalc /\ late = lateAtCalc) =>
       /\ pc = "check" => target_pos = ClampTarget(branch)
       /\ pc \in {"size", "place", "send"} => Obeys(target_pos) /\ Within(target_pos)
       /\ pc = "place" => size = branch * (target_pos - net)
       /\ pc = "send"  => ToSigned(objective) = target_pos

----------------------------------------------------------------------------
(* The unsigned arithmetic of NewBuyOrder() and NewSellOrder(). *)

LEMMA Constants ==
  /\ HalfWord \in Nat \ {0}
  /\ Word \in Nat \ {0}
  /\ MaxLate \in Nat /\ DayTicks \in Nat /\ LookAhead \in Nat
  BY StraproAssumption DEF Word

(* A number less than a word away from 0..Word-1 is wrapped once. *)
LEMMA Wrap ==
  ASSUME NEW x \in (-Word)..(2 * Word - 1)
  PROVE  ToUnsigned(x) = IF x < 0 THEN x + Word ELSE IF x < Word THEN x ELSE x - Word
<1> DEFINE w == Word
<1>1. w \in Nat \ {0}
  BY Constants
<1>2. x % w = IF x < 0 THEN x + w ELSE IF x < w THEN x ELSE x - w
  <2> HIDE DEF w
  <2>1. x \in (-w)..(2 * w - 1)
    BY DEF w
  <2>2. CASE x < 0
    BY <1>1, <2>1, <2>2
  <2>3. CASE 0 <= x /\ x < w
    BY <1>1, <2>1, <2>3
  <2>4. CASE w <= x
    BY <1>1, <2>1, <2>4
  <2> QED
    BY <1>1, <2>1, <2>2, <2>3, <2>4
<1> QED
  BY <1>2 DEF ToUnsigned

(* The conversion to uint32_t loses nothing of a small number. *)
LEMMA RoundTrip ==
  ASSUME NEW x \in (-HalfWord)..(HalfWord - 1)
  PROVE  ToUnsigned(x) \in 0..(Word - 1) /\ ToSigned(ToUnsigned(x)) = x
  BY Wrap, Constants DEF ToSigned, Word

(* net_pos + size and net_pos - size, computed on unsigned numbers and read *)
(* as an int, are the signed sum whenever that sum is an int.               *)
LEMMA UnsignedSum ==
  ASSUME NEW n \in (-HalfWord)..(HalfWord - 1),
         NEW x \in (1 - Word)..(Word - 1),
         NEW b \in {Buy, Sell},
         n + b * x \in (-HalfWord)..(HalfWord - 1)
  PROVE  /\ ToUnsigned(ToUnsigned(n) + b * ToUnsigned(x)) \in 0..(Word - 1)
         /\ ToSigned(ToUnsigned(ToUnsigned(n) + b * ToUnsigned(x))) = n + b * x
<1> DEFINE un == ToUnsigned(n)
           ux == ToUnsigned(x)
<1>1. un = IF n < 0 THEN n + Word ELSE n
  BY Wrap, Constants DEF Word
<1>2. ux = IF x < 0 THEN x + Word ELSE x
  BY Wrap, Constants DEF Word
<1> HIDE DEF un, ux
<1>3. CASE b = Buy
  <2> DEFINE sum == un + ux
  <2>1. sum \in (-Word)..(2 * Word - 1) /\ un + b * ux = sum /\ n + b * x = n + x
    BY <1>1, <1>2, <1>3, Constants DEF Buy, Word
  <2> HIDE DEF sum
  <2>2. ToUnsigned(sum) =
          IF sum < 0 THEN sum + Word ELSE IF sum < Word THEN sum ELSE sum - Word
    BY <2>1, Wrap
  <2> QED
    BY <1>1, <1>2, <2>1, <2>2, Constants DEF ToSigned, Word, un, ux, sum
<1>4. CASE b = Sell
  <2> DEFINE diff == un - ux
  <2>1. diff \in (-Word)..(2 * Word - 1) /\ un + b * ux = diff /\ n + b * x = n - x
    BY <1>1, <1>2, <1>4, Constants DEF Sell, Word
  <2> HIDE DEF diff
  <2>2. ToUnsigned(diff) =
          IF diff < 0 THEN diff + Word ELSE IF diff < Word THEN diff ELSE diff - Word
    BY <2>1, Wrap
  <2> QED
    BY <1>1, <1>2, <2>1, <2>2, Constants DEF ToSigned, Word, un, ux, diff
<1> QED
  BY <1>3, <1>4

----------------------------------------------------------------------------
(* The invariant. *)

LEMMA InitIInv == Init => IInv
<1> SUFFICES ASSUME Init PROVE IInv
  OBVIOUS
<1>1. TypeOK /\ WordIsWide /\ Within(net)
  BY StraproAssumption, Constants
  DEF Init, TypeOK, Order, NoOrder, Statuses, Phases, InCalc, Buy, Sell, Abs, WordIsWide, Within
<1>2. Live = {} /\ Working = {}
  BY DEF Init, Live, Working, NoOrder
<1> QED
  BY <1>1, <1>2
  DEF Init, IInv, OneWorkingOrder, LiveOrdersUnfilled, WorkingOrdersLandWithin,
      CalcOwnsTheBook, InCalc, TargetWithin, SizeWithin, ObjectiveWithin

(* Steps of calc() that leave the position, the orders and the limits alone *)
(* can only disturb what is said about calc()'s own variables.              *)
LEMMA BookUnchanged ==
  ASSUME IInv, UNCHANGED <<net, orders, max_pos, limit, late>>
  PROVE  /\ WordIsWide' /\ OneWorkingOrder' /\ Within(net)'
         /\ LiveOrdersUnfilled' /\ WorkingOrdersLandWithin'
         /\ Live' = Live /\ Working' = Working
  BY DEF IInv, WordIsWide, OneWorkingOrder, Within, LiveOrdersUnfilled,
         WorkingOrdersLandWithin, Live, Working, Landing

LEMMA MdTickIInv == IInv /\ MdTick => IInv'
<1> SUFFICES ASSUME IInv, MdTick PROVE IInv'
  OBVIOUS
<1>1. UNCHANGED <<net, orders, max_pos, limit, late>>
  BY DEF MdTick, histVars
<1>2. TypeOK'
  BY Constants DEF IInv, TypeOK, MdTick, Phases, histVars
<1> QED
  BY <1>1, <1>2, BookUnchanged
  DEF MdTick, IInv, CalcOwnsTheBook, InCalc, TargetWithin, SizeWithin, ObjectiveWithin

LEMMA CalcBeginsIInv == IInv /\ CalcBegins => IInv'
<1> SUFFICES ASSUME IInv, CalcBegins PROVE IInv'
  OBVIOUS
<1>1. TypeOK'
  BY DEF IInv, TypeOK, CalcBegins, CancelAll, Phases, InCalc, Order, Statuses
<1>2. Working' = {}
  BY DEF IInv, TypeOK, CalcBegins, CancelAll, Working, Order
<1>3. LiveOrdersUnfilled'
  BY DEF IInv, TypeOK, CalcBegins, CancelAll, Working, Live, LiveOrdersUnfilled, Order
<1> QED
  BY <1>1, <1>2, <1>3
  DEF CalcBegins, IInv, WordIsWide, Within, OneWorkingOrder, WorkingOrdersLandWithin,
      CalcOwnsTheBook, RowAhead, TargetWithin, SizeWithin, ObjectiveWithin

(* calc() returns without having touched the book. *)
LEMMA CalcReturnsIInv == IInv /\ (CalcReturnsEarly \/ NoSignal) => IInv'
<1> SUFFICES ASSUME IInv, CalcReturnsEarly \/ NoSignal PROVE IInv'
  OBVIOUS
<1>1. UNCHANGED <<net, orders, max_pos, limit, late>>
  BY DEF CalcReturnsEarly, NoSignal, histVars
<1>2. TypeOK'
  BY DEF IInv, TypeOK, CalcReturnsEarly, NoSignal, Phases, histVars
<1>3. pc' = "done"
  BY DEF CalcReturnsEarly, NoSignal
<1> QED
  BY <1>1, <1>2, <1>3, BookUnchanged
  DEF IInv, CalcOwnsTheBook, InCalc, TargetWithin, SizeWithin, ObjectiveWithin

(* The clamp on one side and the position itself on the other keep the *)
(* target inside.                                                      *)
LEMMA ClampWithin ==
  ASSUME IInv, NEW d \in {Buy, Sell}
  PROVE  ClampTarget(d) \in Int /\ Within(ClampTarget(d))
  BY Constants DEF IInv, TypeOK, WordIsWide, Within, ClampTarget, NextPosition, Smaller, Larger, Buy, Sell

LEMMA OnSignalIInv ==
  ASSUME NEW d \in {Buy, Sell}
  PROVE  IInv /\ OnSignal(d) => IInv'
<1> SUFFICES ASSUME IInv, OnSignal(d) PROVE IInv'
  OBVIOUS
<1>1. UNCHANGED <<net, orders, max_pos, limit, late>>
  BY DEF OnSignal, histVars
<1>2. TypeOK'
  BY ClampWithin DEF IInv, TypeOK, OnSignal, Phases, InCalc, histVars
<1>3. CalcOwnsTheBook'
  BY <1>1, BookUnchanged DEF IInv, OnSignal, CalcOwnsTheBook, InCalc, RowAhead
<1>4. TargetWithin'
  BY <1>1, ClampWithin DEF OnSignal, TargetWithin, Within
<1> QED
  BY <1>1, <1>2, <1>3, <1>4, BookUnchanged DEF OnSignal, IInv, SizeWithin, ObjectiveWithin

LEMMA CheckTargetIInv == IInv /\ CheckTarget => IInv'
<1> SUFFICES ASSUME IInv, CheckTarget PROVE IInv'
  OBVIOUS
<1>1. UNCHANGED <<net, orders, max_pos, limit, late>>
  BY DEF CheckTarget, histVars
<1>2. TypeOK'
  BY DEF IInv, TypeOK, CheckTarget, Phases, InCalc, histVars
<1>3. CalcOwnsTheBook'
  BY <1>1, BookUnchanged DEF IInv, CheckTarget, CalcOwnsTheBook, InCalc, RowAhead
<1>4. TargetWithin' /\ pc' \in {"size", "done"}
  BY <1>1 DEF IInv, CheckTarget, TargetWithin, Within
<1> QED
  BY <1>1, <1>2, <1>3, <1>4, BookUnchanged DEF IInv, SizeWithin, ObjectiveWithin

(* The difference has the right remainder whatever its sign. *)
LEMMA ComputeSizeIInv == IInv /\ ComputeSize => IInv'
<1> SUFFICES ASSUME IInv, ComputeSize PROVE IInv'
  OBVIOUS
<1> DEFINE x == branch * (target_pos - net)
<1>1. UNCHANGED <<net, orders, max_pos, limit, late>>
  BY DEF ComputeSize, histVars
<1>2. Within(target_pos) /\ Within(net) /\ limit + late < HalfWord
  BY Constants DEF IInv, TypeOK, WordIsWide, ComputeSize, TargetWithin
<1>3. x \in (1 - Word)..(Word - 1) /\ net + branch * x = target_pos
  BY <1>2, Constants DEF IInv, TypeOK, Within, Word, Buy, Sell
<1>4. size' = ToUnsigned(x) /\ size' \in 0..(Word - 1)
  <2> HIDE DEF x
  <2> QED
    BY <1>3, Wrap, Constants DEF ComputeSize, x, Word
<1>5. TypeOK'
  BY <1>4 DEF IInv, TypeOK, ComputeSize, Phases, InCalc, histVars
<1>6. CalcOwnsTheBook'
  BY <1>1, BookUnchanged DEF IInv, ComputeSize, CalcOwnsTheBook, InCalc, RowAhead
<1>7. SizeWithin'
  <2>1. Within(net + branch * x)' <=> Within(net + branch * x)
    BY <1>1 DEF ComputeSize, Within
  <2> QED
    BY <1>1, <1>2, <1>3, <1>4 DEF ComputeSize, SizeWithin, Within
<1> QED
  BY <1>1, <1>5, <1>6, <1>7, BookUnchanged DEF ComputeSize, IInv, TargetWithin, ObjectiveWithin

LEMMA NewOrderIInv ==
  ASSUME NEW d \in {Buy, Sell}
  PROVE  IInv /\ NewOrder(d) => IInv'
<1> SUFFICES ASSUME IInv, NewOrder(d) PROVE IInv'
  OBVIOUS
<1>1. UNCHANGED <<net, orders, max_pos, limit, late>>
  BY DEF NewOrder, histVars
<1>2. PICK x \in (1 - Word)..(Word - 1) : size = ToUnsigned(x) /\ Within(net + branch * x)
  BY DEF IInv, NewOrder, SizeWithin
<1>3. /\ net \in (-HalfWord)..(HalfWord - 1)
      /\ net + branch * x \in (-HalfWord)..(HalfWord - 1)
  BY <1>2, Constants DEF IInv, TypeOK, WordIsWide, Within, Buy, Sell
<1>4. objective' \in 0..(Word - 1) /\ ToSigned(objective') = net + branch * x
  BY <1>2, <1>3, UnsignedSum DEF NewOrder, UnsignedTarget, IInv, TypeOK
<1>5. TypeOK'
  BY <1>4 DEF IInv, TypeOK, NewOrder, Phases, InCalc, histVars
<1>6. CalcOwnsTheBook'
  BY <1>1, BookUnchanged DEF IInv, NewOrder, CalcOwnsTheBook, InCalc, RowAhead
<1>7. ObjectiveWithin'
  BY <1>1, <1>2, <1>4 DEF ObjectiveWithin, Within, ToSigned, Word
<1> QED
  BY <1>1, <1>5, <1>6, <1>7, BookUnchanged DEF NewOrder, IInv, TargetWithin, SizeWithin

(* The one order that insert() adds is the only one at work, and lands on *)
(* the objective.                                                         *)
LEMMA SendObjectiveIInv == IInv /\ SendObjective => IInv'
<1> SUFFICES ASSUME IInv, SendObjective PROVE IInv'
  OBVIOUS
<1> DEFINE target == ToSigned(objective)
           delta  == target - net
<1>1. /\ UNCHANGED <<net, max_pos, limit, late, tick, target_pos, size, objective, branch, lateAtCalc>>
      /\ pc' = "done" /\ Working = {}
  BY DEF IInv, SendObjective, CalcOwnsTheBook, InCalc, histVars
<1>2. target \in Int /\ Within(target)
  BY Constants DEF IInv, TypeOK, ToSigned, Word, SendObjective, ObjectiveWithin
<1>3. CASE orders' = orders
  <2>1. TypeOK'
    BY <1>1, <1>2, <1>3 DEF IInv, TypeOK, SendObjective, Insert, Phases, Buy, Sell
  <2>2. UNCHANGED <<net, orders, max_pos, limit, late>>
    BY <1>1, <1>3
  <2> QED
    BY <1>1, <2>1, <2>2, BookUnchanged
    DEF IInv, CalcOwnsTheBook, InCalc, TargetWithin, SizeWithin, ObjectiveWithin
<1>4. CASE orders' # orders
  <2> HIDE DEF target
  <2>1. PICK o \in OrderIds \ Live :
          /\ delta # 0
          /\ orders' = [orders EXCEPT ![o] =
                          [side   |-> IF delta > 0 THEN Buy ELSE Sell,
                           vol    |-> Abs(delta),
                           fill   |-> Abs(delta),
                           status |-> "TO_ACTIVE",
                           start  |-> tick]]
          /\ sent' = [side |-> Buy, qty |-> target]
    BY <1>2, <1>4 DEF SendObjective, Insert, Buy, target, IInv, TypeOK
  <2>2. delta \in Int /\ Abs(delta) \in Nat /\ Abs(delta) >= 1
    BY <1>2, <2>1 DEF IInv, TypeOK, Abs
  <2>3. TypeOK'
    BY <1>1, <1>2, <2>1, <2>2, Constants DEF IInv, TypeOK, Order, Statuses, Phases
  <2>4. Working' = {o} /\ \A p \in OrderIds : p # o => orders'[p] = orders[p]
    BY <1>1, <2>1 DEF IInv, TypeOK, Working
  <2>5. LiveOrdersUnfilled'
    BY <2>1, <2>2, <2>4 DEF IInv, TypeOK, LiveOrdersUnfilled, Live
  <2>6. Landing(o)' = target
    BY <1>1, <1>2, <2>1, <2>2 DEF IInv, TypeOK, Landing, Abs, Buy, Sell
  <2>7. WorkingOrdersLandWithin' /\ OneWorkingOrder'
    BY <1>1, <1>2, <2>4, <2>6 DEF WorkingOrdersLandWithin, OneWorkingOrder, Within
  <2> QED
    BY <1>1, <2>3, <2>5, <2>7
    DEF IInv, WordIsWide, Within, CalcOwnsTheBook, InCalc, TargetWithin, SizeWithin, ObjectiveWithin
<1> QED
  BY <1>3, <1>4

(* An answer of the order manager that moves no position: an order is       *)
(* accepted or it ends.                                                     *)
LEMMA AnswerIInv ==
  ASSUME NEW o \in OrderIds
  PROVE  IInv /\ (Accept(o) \/ Reject(o) \/ CancelSuccess(o) \/ Expire(o)) => IInv'
<1> SUFFICES ASSUME IInv, Accept(o) \/ Reject(o) \/ CancelSuccess(o) \/ Expire(o) PROVE IInv'
  OBVIOUS
<1>1. UNCHANGED <<net, max_pos, target_pos, size, objective, branch, pc, tick, sent,
                  limit, late, lateAtCalc>>
  BY DEF Accept, Reject, CancelSuccess, Expire, calcVars, histVars
<1>2. \/ /\ orders[o].status = "TO_ACTIVE"
         /\ orders' = [orders EXCEPT ![o].status = "MARKET_ACCEPT"]
      \/ orders' = [orders EXCEPT ![o] = NoOrder]
  BY DEF Accept, Reject, CancelSuccess, Expire
<1>3. orders' \in [OrderIds -> Order]
  BY <1>2 DEF IInv, TypeOK, Order, NoOrder, Statuses
<1>4. TypeOK'
  BY <1>1, <1>3 DEF IInv, TypeOK
<1>5. Working' \subseteq Working /\ Live' \subseteq Live
  BY <1>2 DEF IInv, TypeOK, Working, Live, NoOrder
<1>6. \A p \in Live' : /\ orders'[p].fill = orders[p].fill
                       /\ orders'[p].side = orders[p].side
  BY <1>2 DEF IInv, TypeOK, Live, NoOrder, Order
<1>7. LiveOrdersUnfilled'
  BY <1>5, <1>6 DEF IInv, LiveOrdersUnfilled
<1>8. WorkingOrdersLandWithin'
  <2>1. Working' \subseteq Live'
    BY DEF Working, Live
  <2> QED
    BY <1>1, <1>5, <1>6, <2>1 DEF IInv, WorkingOrdersLandWithin, Landing, Within
<1> QED
  BY <1>1, <1>4, <1>5, <1>7, <1>8
  DEF IInv, WordIsWide, Within, OneWorkingOrder, CalcOwnsTheBook, RowAhead,
      TargetWithin, SizeWithin, ObjectiveWithin

(* One lot.  An order at work moves towards its landing position, which was *)
(* inside already; one that was told to cancel moves everything by one lot, *)
(* and late with it.                                                        *)
LEMMA ExecIInv ==
  ASSUME NEW o \in OrderIds
  PROVE  IInv /\ Exec(o) => IInv'
<1> SUFFICES ASSUME IInv, Exec(o) PROVE IInv'
  OBVIOUS
<1>1. UNCHANGED <<max_pos, target_pos, size, objective, branch, pc, tick, sent, limit, lateAtCalc>>
  BY DEF Exec, calcVars
<1>2. /\ o \in Live /\ orders[o].fill \in Nat /\ orders[o].fill >= 1
      /\ orders[o].side \in {Buy, Sell}
  BY DEF Exec, Live, IInv, LiveOrdersUnfilled, TypeOK, Order
<1> DEFINE rest == OneLotLess(orders[o])
<1>3. /\ orders' = [orders EXCEPT ![o] = rest]
      /\ orders \in [OrderIds -> Order]
  BY DEF Exec, IInv, TypeOK
<1>4. /\ rest \in Order
       /\ \/ rest.status = "INACTIVE"
          \/ /\ rest.fill = orders[o].fill - 1 /\ rest.fill >= 1
             /\ rest.side = orders[o].side /\ rest.status = orders[o].status
  BY <1>3, <1>2 DEF OneLotLess, Order, NoOrder, Statuses
<1> HIDE DEF rest
<1>5. orders'[o] = rest /\ \A p \in OrderIds : p # o => orders'[p] = orders[p]
  BY <1>3
<1>6. orders' \in [OrderIds -> Order]
  BY <1>3, <1>4
<1>7. net' \in Int /\ late' \in 0..MaxLate
  BY <1>2, Constants DEF Exec, IInv, TypeOK, Buy, Sell
<1>8. TypeOK'
  BY <1>1, <1>6, <1>7 DEF IInv, TypeOK
<1>9. Working' \subseteq Working /\ Live' \subseteq Live
  BY <1>2, <1>4, <1>5 DEF Exec, Working, Live
<1>10. LiveOrdersUnfilled'
  BY <1>9, <1>4, <1>5 DEF IInv, LiveOrdersUnfilled, Live
<1>11. OneWorkingOrder'
  BY <1>9 DEF IInv, OneWorkingOrder
<1>12. CASE o \in Working
  <2>1. late' = late /\ ~(pc \in InCalc)
    BY <1>12 DEF Exec, Working, IInv, CalcOwnsTheBook
  <2>2. Within(Landing(o))
    BY <1>12 DEF IInv, WorkingOrdersLandWithin
  <2>3. Within(net)'
    BY <1>1, <1>2, <2>1, <2>2 DEF Exec, IInv, TypeOK, Within, Landing, Buy, Sell
  <2>4. Working' \subseteq {o}
    BY <1>9, <1>12 DEF IInv, OneWorkingOrder
  <2>5. o \in Working' => Landing(o)' = Landing(o)
    <3>1. net' = net + orders[o].side /\ net \in Int
      BY DEF Exec, IInv, TypeOK
    <3> QED
      BY <1>2, <1>4, <1>5, <3>1 DEF Landing, Working, Buy, Sell
  <2>6. WorkingOrdersLandWithin'
    BY <1>1, <2>1, <2>2, <2>4, <2>5 DEF WorkingOrdersLandWithin, Within
  <2> QED
    BY <1>1, <1>8, <1>10, <1>11, <2>1, <2>3, <2>6
    DEF IInv, WordIsWide, CalcOwnsTheBook, InCalc, TargetWithin, SizeWithin, ObjectiveWithin
<1>13. CASE o \notin Working
  <2>1. /\ late' = late + 1
        /\ net' = net + 1 \/ net' = net - 1
    BY <1>2, <1>13 DEF Exec, Working, Buy, Sell, IInv, TypeOK
  <2>2. Within(net)'
    BY <1>1, <2>1 DEF IInv, TypeOK, Within
  <2>3. WorkingOrdersLandWithin'
    <3> SUFFICES ASSUME NEW p \in Working' PROVE Within(Landing(p))'
      BY DEF WorkingOrdersLandWithin
    <3>1. p \in Working /\ p # o /\ orders'[p] = orders[p]
      BY <1>9, <1>13 DEF Exec, IInv, TypeOK, Working
    <3>2. /\ Landing(p) \in Int /\ Landing(p)' \in Int
          /\ Landing(p)' = Landing(p) + 1 \/ Landing(p)' = Landing(p) - 1
      BY <2>1, <3>1 DEF IInv, TypeOK, Landing, Order, Working, Buy, Sell
    <3>3. Within(Landing(p))
      BY <3>1 DEF IInv, WorkingOrdersLandWithin
    <3> QED
      BY <1>1, <2>1, <3>2, <3>3 DEF Within, IInv, TypeOK
  <2>4. CalcOwnsTheBook'
    BY <1>1, <1>9 DEF IInv, CalcOwnsTheBook, RowAhead
  <2>5. TargetWithin' /\ ObjectiveWithin'
    BY <1>1, <2>1, Constants
    DEF IInv, TypeOK, Within, TargetWithin, ObjectiveWithin, ToSigned, Word
  <2>6. SizeWithin'
    <3> SUFFICES ASSUME pc = "place"
                 PROVE  \E x \in (1 - Word)..(Word - 1) :
                          size = ToUnsigned(x) /\ Within(net + branch * x)'
      BY <1>1 DEF SizeWithin, Within
    <3>1. PICK x \in (1 - Word)..(Word - 1) : size = ToUnsigned(x) /\ Within(net + branch * x)
      BY DEF IInv, SizeWithin
    <3>2. Within(net + branch * x)'
      BY <1>1, <2>1, <3>1, Constants DEF IInv, TypeOK, Within, Buy, Sell
    <3> QED
      BY <3>1, <3>2
  <2> QED
    BY <1>1, <1>8, <1>10, <1>11, <2>2, <2>3, <2>4, <2>5, <2>6 DEF IInv, WordIsWide
<1> QED
  BY <1>12, <1>13

LEMMA DoFinalizeIInv == IInv /\ DoFinalize => IInv'
<1> SUFFICES ASSUME IInv, DoFinalize PROVE IInv'
  OBVIOUS
<1>1. /\ UNCHANGED <<net, orders, target_pos, size, objective, branch, pc, sent, late, lateAtCalc>>
      /\ max_pos' \in MaxPos /\ limit' = Larger(limit, max_pos') /\ tick' = 0
      /\ pc = "done"
  BY DEF DoFinalize, calcVars
<1>2. TypeOK' /\ WordIsWide' /\ Within(net)'
  <2>1. max_pos' \in Nat /\ limit' \in Nat /\ limit' >= limit /\ limit' >= max_pos'
        /\ limit' + MaxLate + 1 < HalfWord
    <3>1. max_pos' \in Nat /\ max_pos' + MaxLate + 1 < HalfWord
      BY <1>1, StraproAssumption
    <3>2. limit \in Nat /\ limit + MaxLate + 1 < HalfWord
      BY DEF IInv, TypeOK, WordIsWide
    <3> QED
      BY <1>1, <3>1, <3>2 DEF Larger
  <2>2. TypeOK'
    BY <1>1, <2>1, Constants DEF IInv, TypeOK
  <2> QED
    BY <1>1, <2>1, <2>2 DEF IInv, TypeOK, WordIsWide, Within
<1>3. Working = {} /\ Live = {} /\ Live' = {} /\ Working' = {}
  BY DEF DoFinalize, Live, Working
<1> QED
  BY <1>1, <1>2, <1>3
  DEF IInv, OneWorkingOrder, LiveOrdersUnfilled, WorkingOrdersLandWithin, CalcOwnsTheBook,
      InCalc, TargetWithin, SizeWithin, ObjectiveWithin

LEMMA StutterIInv == IInv /\ UNCHANGED vars => IInv'
<1> SUFFICES ASSUME IInv, UNCHANGED vars PROVE IInv'
  OBVIOUS
<1>1. UNCHANGED <<net, orders, max_pos, limit, late, target_pos, size, objective, branch, pc,
                  tick, sent, lateAtCalc>>
  BY DEF vars
<1> QED
  BY <1>1, BookUnchanged
  DEF IInv, TypeOK, CalcOwnsTheBook, RowAhead, TargetWithin, SizeWithin, ObjectiveWithin, Within

LEMMA NextIInv == IInv /\ [Next]_vars => IInv'
  BY MdTickIInv, CalcBeginsIInv, CalcReturnsIInv, OnSignalIInv, CheckTargetIInv, ComputeSizeIInv,
     NewOrderIInv, SendObjectiveIInv, AnswerIInv, ExecIInv, DoFinalizeIInv, StutterIInv
  DEF Next, Calc, OrderManager, NewBuyOrder, NewSellOrder

THEOREM InductiveInvariant == Spec => []IInv
  BY InitIInv, NextIInv, PTL DEF Spec

(* The variables keep their types: in particular size and objective stay    *)
(* words, and the history counters within their bounds.                     *)
THEOREM TypeCorrect == Spec => []TypeOK
<1>1. IInv => TypeOK
  BY DEF IInv
<1> QED
  BY <1>1, InductiveInvariant, PTL

(* No two orders are ever at work together. *)
THEOREM AtMostOneWorking == Spec => []OneWorkingOrder
<1>1. IInv => OneWorkingOrder
  BY DEF IInv
<1> QED
  BY <1>1, InductiveInvariant, PTL

(* The position is never further out than the largest limit and the late    *)
(* fills explain.                                                           *)
THEOREM OvershootBounded == Spec => []OvershootBoundedByLateFills
<1>1. IInv => OvershootBoundedByLateFills
  BY Constants DEF IInv, TypeOK, Within, OvershootBoundedByLateFills, Abs
<1> QED
  BY <1>1, InductiveInvariant, PTL

----------------------------------------------------------------------------
(* Freshness of what is at work. *)

LEMMA NextStart ==
  ASSUME IInv, StartIsLastRow, [Next]_vars
  PROVE  StartIsLastRow'
<1> USE Constants
<1>1. CASE MdTick
  BY <1>1 DEF MdTick, StartIsLastRow, Working, Smaller, IInv, TypeOK, histVars
<1>2. CASE CalcReturnsEarly
  BY <1>2 DEF CalcReturnsEarly, RowAhead, StartIsLastRow, Working, Smaller, IInv, TypeOK, histVars
<1>3. CASE CalcBegins
  <2>1. Working' = {}
    BY <1>3, CalcBeginsIInv DEF CalcBegins, IInv, CalcOwnsTheBook, InCalc
  <2> QED
    BY <2>1 DEF StartIsLastRow
<1>4. CASE \/ NoSignal \/ CheckTarget \/ ComputeSize \/ NewBuyOrder \/ NewSellOrder
           \/ \E d \in {Buy, Sell} : OnSignal(d)
  <2>1. orders' = orders /\ pc \in InCalc
    BY <1>4 DEF NoSignal, CheckTarget, ComputeSize, NewBuyOrder, NewSellOrder, NewOrder, OnSignal,
                InCalc
  <2> QED
    BY <2>1 DEF IInv, CalcOwnsTheBook, Working, StartIsLastRow
<1>5. CASE SendObjective
  <2>1. pc = "send" /\ pc' = "done" /\ tick' = tick /\ Working = {} /\ RowAhead
    BY <1>5 DEF SendObjective, IInv, CalcOwnsTheBook, InCalc
  <2>2. \A o \in OrderIds : orders'[o] = orders[o] \/ orders'[o].start = tick
    BY <1>5 DEF SendObjective, Insert, IInv, TypeOK
  <2>3. \A o \in Working' : orders'[o].start = tick
    BY <2>1, <2>2 DEF Working
  <2> QED
    BY <2>1, <2>3 DEF StartIsLastRow, RowAhead, Smaller, IInv, TypeOK
<1>6. CASE DoFinalize
  BY <1>6 DEF DoFinalize, StartIsLastRow, Working, Live
<1>7. CASE OrderManager
  <2>1. PICK o \in OrderIds : Accept(o) \/ Reject(o) \/ Exec(o) \/ CancelSuccess(o) \/ Expire(o)
    BY <1>7 DEF OrderManager
  <2>2. tick' = tick /\ pc' = pc
    BY <2>1 DEF Accept, Reject, Exec, CancelSuccess, Expire, calcVars
  <2>3. \A p \in Working' : p \in Working /\ orders'[p].start = orders[p].start
    <3>1. CASE Exec(o)
      BY <3>1 DEF Exec, OneLotLess, Working, NoOrder, IInv, TypeOK, Order
    <3>2. CASE Accept(o)
      BY <3>2 DEF Accept, Working, IInv, TypeOK, Order
    <3>3. CASE Reject(o) \/ CancelSuccess(o) \/ Expire(o)
      BY <3>3 DEF Reject, CancelSuccess, Expire, Working, NoOrder, IInv, TypeOK
    <3> QED
      BY <2>1, <3>1, <3>2, <3>3
  <2> QED
    BY <2>2, <2>3 DEF StartIsLastRow
<1>8. CASE UNCHANGED vars
  BY <1>8 DEF vars, StartIsLastRow, Working
<1> QED
  BY <1>1, <1>2, <1>3, <1>4, <1>5, <1>6, <1>7, <1>8 DEF Next, Calc

(* What is at work when calc() is over was sent for this row. *)
THEOREM WorkingOrdersAreFresh == Spec => []WorkingOrderIsFresh
<1>1. Init => IInv /\ StartIsLastRow
  BY InitIInv DEF Init, StartIsLastRow, Working, NoOrder
<1>2. (IInv /\ StartIsLastRow) /\ [Next]_vars => (IInv /\ StartIsLastRow)'
  BY NextIInv, NextStart
<1>3. IInv /\ StartIsLastRow => WorkingOrderIsFresh
  BY DEF StartIsLastRow, WorkingOrderIsFresh
<1> QED
  BY <1>1, <1>2, <1>3, PTL DEF Spec

----------------------------------------------------------------------------
(* Orders placed in a quiet calc(). *)

(* A target that passed calc()'s test obeys the limit. *)
LEMMA ClampObeys ==
  ASSUME IInv, target_pos = ClampTarget(branch), branch * (target_pos - net) > 0
  PROVE  Obeys(target_pos)
<1>1. CASE branch = Buy
  BY <1>1 DEF IInv, TypeOK, ClampTarget, NextPosition, Smaller, Obeys, Abs, Buy
<1>2. CASE branch = Sell
  BY <1>2 DEF IInv, TypeOK, ClampTarget, NextPosition, Larger, Obeys, Abs, Buy, Sell
<1> QED
  BY <1>1, <1>2 DEF IInv, TypeOK

(* No step inside calc() but a late fill disturbs what it has computed. *)
LEMMA NextQuiet ==
  ASSUME IInv, QuietCalc, [Next]_vars
  PROVE  QuietCalc'
<1> USE Constants
<1>1. CASE MdTick \/ CalcReturnsEarly \/ NoSignal \/ DoFinalize
  BY <1>1 DEF MdTick, CalcReturnsEarly, NoSignal, DoFinalize, QuietCalc, InCalc, histVars, calcVars
<1>2. CASE CalcBegins
  BY <1>2 DEF CalcBegins, QuietCalc, IInv, TypeOK
<1>3. CASE \E d \in {Buy, Sell} : OnSignal(d)
  <2>1. PICK d \in {Buy, Sell} : OnSignal(d)
    BY <1>3
  <2> QED
    BY <2>1 DEF OnSignal, QuietCalc, ClampTarget, NextPosition, histVars
<1>4. CASE CheckTarget
  <2>1. /\ pc = "check" /\ pc' = IF branch * (target_pos - net) > 0 THEN "size" ELSE "done"
        /\ UNCHANGED <<net, max_pos, target_pos, branch, limit, late, lateAtCalc>>
    BY <1>4 DEF CheckTarget, histVars
  <2>2. ASSUME pc' = "size", late = lateAtCalc PROVE Obeys(target_pos) /\ Within(target_pos)
    BY <2>1, <2>2, ClampObeys DEF QuietCalc, InCalc, IInv, TargetWithin
  <2> QED
    BY <2>1, <2>2 DEF QuietCalc, InCalc, Obeys, Within
<1>5. CASE ComputeSize
  <2>1. /\ pc = "size" /\ pc' = "place" /\ size' = ToUnsigned(branch * (target_pos - net))
        /\ UNCHANGED <<net, max_pos, target_pos, branch, limit, late, lateAtCalc>>
    BY <1>5 DEF ComputeSize, histVars
  <2>2. ASSUME late = lateAtCalc PROVE size' = branch * (target_pos - net)
    <3> DEFINE x == branch * (target_pos - net)
    <3>1. x > 0 /\ Within(target_pos) /\ Within(net) /\ limit + late < HalfWord
      BY <2>1, <2>2 DEF QuietCalc, InCalc, Obeys, IInv, TypeOK, WordIsWide
    <3>2. x \in 0..(Word - 1)
      BY <3>1 DEF IInv, TypeOK, Within, Word, Buy, Sell
    <3> HIDE DEF x
    <3>3. ToUnsigned(x) = x
      BY <3>2, Wrap
    <3> QED
      BY <2>1, <3>3 DEF x
  <2> QED
    BY <2>1, <2>2 DEF QuietCalc, InCalc, Obeys, Within
<1>6. CASE \E d \in {Buy, Sell} : NewOrder(d)
  <2>1. /\ pc = "place" /\ pc' = "send" /\ objective' = UnsignedTarget
        /\ UNCHANGED <<net, max_pos, target_pos, size, branch, limit, late, lateAtCalc>>
    BY <1>6 DEF NewOrder, histVars
  <2>2. ASSUME late = lateAtCalc PROVE ToSigned(objective') = target_pos
    <3>1. /\ size = branch * (target_pos - net) /\ Within(target_pos) /\ Within(net)
          /\ limit + late < HalfWord
      BY <2>1, <2>2 DEF QuietCalc, InCalc, IInv, TypeOK, WordIsWide
    <3>2. /\ net + branch * size = target_pos /\ size \in 0..(Word - 1)
          /\ net \in (-HalfWord)..(HalfWord - 1) /\ target_pos \in (-HalfWord)..(HalfWord - 1)
      BY <3>1 DEF IInv, TypeOK, Within, Word, Buy, Sell
    <3>3. ToUnsigned(size) = size /\ size \in (1 - Word)..(Word - 1)
      BY <3>2, Wrap
    <3> QED
      BY <2>1, <3>2, <3>3, UnsignedSum DEF UnsignedTarget, IInv, TypeOK
  <2> QED
    BY <2>1, <2>2 DEF QuietCalc, InCalc, Obeys, Within, ToSigned, Word
<1>7. CASE SendObjective
  BY <1>7 DEF SendObjective, QuietCalc, InCalc, histVars
<1>8. CASE OrderManager
  <2>1. PICK o \in OrderIds : Accept(o) \/ Reject(o) \/ Exec(o) \/ CancelSuccess(o) \/ Expire(o)
    BY <1>8 DEF OrderManager
  <2>2. CASE Exec(o)
    <3>1. late' = late \/ late' = late + 1
      BY <2>2 DEF Exec
    <3>2. lateAtCalc' = lateAtCalc /\ lateAtCalc <= late /\ pc' = pc
      BY <2>2 DEF Exec, QuietCalc, calcVars
    <3>3. pc \in InCalc => late' = late + 1
      BY <2>2 DEF Exec, IInv, CalcOwnsTheBook, Working
    <3> QED
      BY <3>1, <3>2, <3>3 DEF QuietCalc, IInv, TypeOK
  <2>3. CASE Accept(o) \/ Reject(o) \/ CancelSuccess(o) \/ Expire(o)
    <3>1. UNCHANGED <<net, max_pos, target_pos, size, objective, branch, pc, limit, late, lateAtCalc>>
      BY <2>3 DEF Accept, Reject, CancelSuccess, Expire, calcVars, histVars
    <3> QED
      BY <3>1 DEF QuietCalc, ClampTarget, NextPosition, Obeys, Within, ToSigned
  <2> QED
    BY <2>1, <2>2, <2>3
<1>9. CASE UNCHANGED vars
  BY <1>9 DEF vars, QuietCalc, ClampTarget, NextPosition, Obeys, Within, ToSigned
<1> QED
  BY <1>1, <1>2, <1>3, <1>4, <1>5, <1>6, <1>7, <1>8, <1>9
  DEF Next, Calc, NewBuyOrder, NewSellOrder

LEMMA QuietStep ==
  ASSUME IInv, QuietCalc, [Next]_vars,
         NEW o \in OrderIds,
         orders[o].status = "INACTIVE", orders'[o].status = "TO_ACTIVE", late = lateAtCalc
  PROVE  LET landing == net + orders'[o].side * orders'[o].vol
         IN  /\ orders'[o].side = branch
             /\ Abs(landing) <= max_pos \/ Abs(landing) < Abs(net)
<1>1. SendObjective
  <2>1. ~UNCHANGED orders
    OBVIOUS
  <2>2. ~CalcBegins
    BY DEF CalcBegins, CancelAll, Working
  <2>3. ~OrderManager
    <3> SUFFICES ASSUME NEW p \in OrderIds,
                        Accept(p) \/ Reject(p) \/ Exec(p) \/ CancelSuccess(p) \/ Expire(p)
                 PROVE  FALSE
      BY DEF OrderManager
    <3>1. CASE p = o
      BY <3>1 DEF Accept, Reject, Exec, CancelSuccess, Expire, Live
    <3>2. CASE p # o
      <4>1. orders'[o] = orders[o]
        BY <3>2 DEF Accept, Reject, Exec, CancelSuccess, Expire, IInv, TypeOK
      <4> QED
        BY <4>1
    <3> QED
      BY <3>1, <3>2
  <2> QED
    BY <2>1, <2>2, <2>3
    DEF Next, vars, Calc, MdTick, CalcReturnsEarly, NoSignal, OnSignal, CheckTarget, ComputeSize,
        NewBuyOrder, NewSellOrder, NewOrder, DoFinalize
<1>2. /\ pc = "send" /\ Obeys(target_pos) /\ ToSigned(objective) = target_pos
  BY <1>1 DEF SendObjective, QuietCalc, InCalc
<1> DEFINE delta == target_pos - net
<1>3. delta \in Int /\ branch * delta > 0
  BY <1>2 DEF Obeys, IInv, TypeOK
<1>4. PICK p \in OrderIds : /\ orders'[p].side = IF delta > 0 THEN Buy ELSE Sell
                            /\ orders'[p].vol = Abs(delta)
                            /\ orders' = [orders EXCEPT ![p] = orders'[p]]
  <2>1. Insert(Buy, target_pos) /\ Buy * target_pos - net = delta
    BY <1>1, <1>2 DEF SendObjective, IInv, TypeOK, Buy
  <2> QED
    BY <2>1 DEF Insert, IInv, TypeOK
<1>5. p = o
  BY <1>4 DEF IInv, TypeOK
<1>6. orders'[o].side = branch /\ net + orders'[o].side * orders'[o].vol = target_pos
  BY <1>3, <1>4, <1>5 DEF IInv, TypeOK, Abs, Buy, Sell
<1> QED
  BY <1>2, <1>6 DEF Obeys

(* A calc() that no late fill interrupts trades in the direction of its     *)
(* signal and never leads further outside the limit.                        *)
THEOREM QuietOrdersObeyLimit == Spec => QuietOrderObeysLimit
<1>1. Init => IInv /\ QuietCalc
  BY InitIInv DEF Init, QuietCalc, InCalc
<1>2. (IInv /\ QuietCalc) /\ [Next]_vars => (IInv /\ QuietCalc)'
  BY NextIInv, NextQuiet
<1> DEFINE A == \A o \in OrderIds :
                  (/\ orders[o].status = "INACTIVE"
                   /\ orders'[o].status = "TO_ACTIVE"
                   /\ late = lateAtCalc)
                  => LET landing == net + orders'[o].side * orders'[o].vol
                     IN  /\ orders'[o].side = branch
                         /\ Abs(landing) <= max_pos \/ Abs(landing) < Abs(net)
<1>3. (IInv /\ QuietCalc) /\ [Next]_vars => [A]_vars
  BY QuietStep
<1>4. Spec => [][A]_vars
  <2> HIDE DEF A
  <2> QED
    BY <1>1, <1>2, <1>3, PTL DEF Spec
<1> QED
  BY <1>4 DEF QuietOrderObeysLimit
============================================================================
