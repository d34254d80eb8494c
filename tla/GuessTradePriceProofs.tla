----------------------- MODULE GuessTradePriceProofs -----------------------
(***************************************************************************)
(* guess_trade_price() divides what was traded, for every book, price and  *)
(* volume: but for a single lot not traded at the last price, the whole     *)
(* amount goes to the two sides; so does every lot when prices are close;   *)
(* and no side is left with less than nothing.  Each step keeps what the    *)
(* sides hold and what is left equal to what was traded; that nothing is    *)
(* left at the end is the harder part.                                      *)
(***************************************************************************)
EXTENDS GuessTradePrice, TLAPS

SideLots == [Sides -> Int]

(* What calc() passes: the best ask is above the best bid. *)
Inputs ==
  {in \in [trade_vol : Int, amount : Int, lastprice : Int, best : SideLots,
           price_pr : [Sides -> [Levels -> Int]], vol_pr : [Sides -> [Levels -> Int]]] :
     in.best["ask"] > in.best["bid"]}
Results == [vol : SideLots, amount : SideLots, left_vol : Int, left_amount : Int,
            take : [Sides -> [Levels -> Int]], near : SideLots]

AddsUp(in, s) ==
  /\ s \in Results
  /\ s.vol["bid"] + s.vol["ask"] + s.left_vol = in.trade_vol
  /\ s.amount["bid"] + s.amount["ask"] + s.left_amount = in.amount

(* Booking lots on a side moves them, and what they cost, from the rest.    *)
LEMMA BookAddsUp ==
  ASSUME NEW in \in Inputs, NEW s, AddsUp(in, s),
         NEW side \in Sides, NEW n \in Int, NEW price \in Int
  PROVE  AddsUp(in, Book(s, side, n, price))
<1>. DEFINE t == Book(s, side, n, price)
<1>0. s \in Results /\ side \in {"bid", "ask"} /\ n * price \in Int
  BY DEF AddsUp, Sides
<1>1. /\ t.vol = [s.vol EXCEPT ![side] = @ + n]
      /\ t.amount = [s.amount EXCEPT ![side] = @ + n * price]
      /\ t.left_vol = s.left_vol - n /\ t.left_amount = s.left_amount - n * price
      /\ t.take = s.take /\ t.near = s.near
  BY <1>0 DEF Book, Results
<1>2. t \in Results
  <2>1. [s.vol EXCEPT ![side] = @ + n] \in SideLots
    BY <1>0 DEF Results, SideLots
  <2>2. [s.amount EXCEPT ![side] = @ + n * price] \in SideLots
    BY <1>0 DEF Results, SideLots
  <2>3. s.left_vol - n \in Int /\ s.left_amount - n * price \in Int
    BY <1>0 DEF Results
  <2>. QED BY <1>0, <2>1, <2>2, <2>3 DEF Results, Book
<1>. HIDE DEF t
<1>3. t.vol["bid"] + t.vol["ask"] + t.left_vol = in.trade_vol
  <2>1. CASE side = "bid"
    BY <1>0, <1>1, <2>1 DEF AddsUp, Results, SideLots, Sides
  <2>2. CASE side = "ask"
    BY <1>0, <1>1, <2>2 DEF AddsUp, Results, SideLots, Sides
  <2>. QED BY <1>0, <2>1, <2>2
<1>4. t.amount["bid"] + t.amount["ask"] + t.left_amount = in.amount
  <2>. DEFINE cost == n * price
  <2>0. /\ cost \in Int /\ t.amount = [s.amount EXCEPT ![side] = @ + cost]
        /\ t.left_amount = s.left_amount - cost
    BY <1>0, <1>1
  <2>. HIDE DEF cost
  <2>1. CASE side = "bid"
    BY <1>0, <2>0, <2>1 DEF AddsUp, Results, SideLots, Sides
  <2>2. CASE side = "ask"
    BY <1>0, <2>0, <2>2 DEF AddsUp, Results, SideLots, Sides
  <2>. QED BY <1>0, <2>1, <2>2
<1>5. AddsUp(in, t)
  BY <1>2, <1>3, <1>4 DEF AddsUp
<1>. QED BY <1>5 DEF t

LEMMA StartAddsUp ==
  ASSUME NEW in \in Inputs
  PROVE  AddsUp(in, Start(in))
<1>1. Start(in) \in Results
  BY DEF Start, Results, SideLots, Inputs
<1>. QED BY <1>1 DEF Start, AddsUp, Sides, Inputs

LEMMA SideOfType ==
  ASSUME NEW in, NEW price
  PROVE  SideOf(in, price) \in Sides
BY DEF SideOf, Sides

(* Step 1. *)
LEMMA LastPriceAddsUp ==
  ASSUME NEW in \in Inputs
  PROVE  AddsUp(in, LastPriceLot(in))
<1>1. in.lastprice \in Int /\ 1 \in Int
  BY DEF Inputs
<1>. QED BY <1>1, StartAddsUp, SideOfType, BookAddsUp DEF LastPriceLot

(* Recording what was taken where changes no sum. *)
LEMMA RecordTake ==
  ASSUME NEW in \in Inputs, NEW s, AddsUp(in, s),
         NEW side \in Sides, NEW i \in Levels, NEW n \in Int
  PROVE  AddsUp(in, [s EXCEPT !.take[side][i] = n])
<1>. DEFINE t == [s EXCEPT !.take[side][i] = n]
<1>0. s \in Results
  BY DEF AddsUp
<1>1. [s.take EXCEPT ![side][i] = n] \in [Sides -> [Levels -> Int]]
  BY <1>0 DEF Results
<1>2. t \in Results
  BY <1>0, <1>1 DEF Results
<1>3. /\ t.vol = s.vol /\ t.amount = s.amount
      /\ t.left_vol = s.left_vol /\ t.left_amount = s.left_amount
  BY <1>0 DEF Results
<1>. QED BY <1>2, <1>3 DEF AddsUp

LEMMA RecordNear ==
  ASSUME NEW in \in Inputs, NEW s, AddsUp(in, s), NEW near \in SideLots
  PROVE  AddsUp(in, [s EXCEPT !.near = near])
<1>. DEFINE t == [s EXCEPT !.near = near]
<1>0. s \in Results
  BY DEF AddsUp
<1>1. t \in Results
  BY <1>0 DEF Results
<1>2. /\ t.vol = s.vol /\ t.amount = s.amount
      /\ t.left_vol = s.left_vol /\ t.left_amount = s.left_amount
  BY <1>0 DEF Results
<1>. QED BY <1>1, <1>2 DEF AddsUp

(* Step 2. *)
LEMMA TakeLevelAddsUp ==
  ASSUME NEW in \in Inputs, NEW s, AddsUp(in, s), NEW side \in Sides, NEW i \in Levels
  PROVE  AddsUp(in, TakeLevel(in, s, side, i))
<1>1. in.vol_pr[side][i] \in Int /\ in.price_pr[side][i] \in Int /\ s.left_vol \in Int
  BY DEF Inputs, AddsUp, Results
<1>2. Taken(in, s, side, i) \in Int
  BY <1>1 DEF Taken
<1>. QED BY <1>1, <1>2, BookAddsUp, RecordTake DEF TakeLevel

LEMMA SweepAllAddsUp ==
  ASSUME NEW in \in Inputs, NEW s, AddsUp(in, s)
  PROVE  AddsUp(in, SweepAll(in, s))
<1>1. ASSUME NEW t, AddsUp(in, t), NEW i \in Levels
      PROVE  AddsUp(in, Sweep(in, t, i))
  <2>1. "bid" \in Sides /\ "ask" \in Sides
    BY DEF Sides
  <2>2. AddsUp(in, TakeLevel(in, t, "bid", i))
    BY <1>1, <2>1, TakeLevelAddsUp
  <2>. QED BY <1>1, <2>1, <2>2, TakeLevelAddsUp DEF Sweep
<1>2. 1 \in Levels /\ 2 \in Levels /\ 3 \in Levels /\ 4 \in Levels /\ 5 \in Levels
  BY DEF Levels
<1>3. AddsUp(in, Sweep(in, Sweep(in, s, 1), 2))
  BY <1>1, <1>2
<1>4. AddsUp(in, Sweep(in, Sweep(in, Sweep(in, Sweep(in, s, 1), 2), 3), 4))
  BY <1>1, <1>2, <1>3
<1>. QED BY <1>1, <1>2, <1>4 DEF SweepAll

(* Step 3: the two parts are whole lots, whichever way they were rounded. *)
LEMMA NearLotsType ==
  ASSUME NEW in \in Inputs, NEW s \in Results
  PROVE  NearLots(in, s) \in [bid : Int, ask : Int]
<1>. DEFINE atAsk == in.best["ask"] * s.left_vol - s.left_amount
            atBid == s.left_amount - in.best["bid"] * s.left_vol
<1>1. /\ in.best["ask"] \in Int /\ in.best["bid"] \in Int
      /\ s.left_vol \in Int /\ s.left_amount \in Int
      /\ in.best["ask"] > in.best["bid"]
  BY DEF Inputs, SideLots, Sides, Results
<1>2. atAsk \in Int /\ atBid \in Int
  BY <1>1
<1>3. Spread(in) \in Int /\ Spread(in) > 0
  BY <1>1 DEF Spread
<1>4. ASSUME NEW a \in Int, NEW b \in Int, b > 0
      PROVE  Round(a, b) \in Int
  BY <1>4 DEF Round
<1>5. Round(atAsk, Spread(in)) \in Int /\ Round(atBid, Spread(in)) \in Int
  BY <1>2, <1>3, <1>4
<1>. HIDE DEF atAsk, atBid
<1>6. NearLots(in, s) = IF s.left_vol <= 0 THEN [bid |-> 0, ask |-> 0]
                        ELSE IF atAsk < 0 THEN [bid |-> 0, ask |-> s.left_vol]
                        ELSE IF atBid < 0 THEN [bid |-> s.left_vol, ask |-> 0]
                        ELSE [bid |-> Round(atAsk, Spread(in)), ask |-> Round(atBid, Spread(in))]
  BY DEF NearLots, atAsk, atBid
<1>. QED BY <1>1, <1>5, <1>6

LEMMA DivideRestAddsUp ==
  ASSUME NEW in \in Inputs, NEW s, AddsUp(in, s)
  PROVE  AddsUp(in, DivideRest(in, s))
<1>. DEFINE lots == NearLots(in, s)
<1>1. lots \in [bid : Int, ask : Int]
  BY NearLotsType DEF AddsUp
<1>2. lots \in SideLots
  BY <1>1 DEF SideLots, Sides
<1>3. "bid" \in Sides /\ "ask" \in Sides /\ in.best["bid"] \in Int /\ in.best["ask"] \in Int
  BY DEF Sides, Inputs, SideLots
<1>. HIDE DEF lots
<1>4. AddsUp(in, Book(s, "ask", lots.ask, in.best["ask"]))
  BY <1>1, <1>3, BookAddsUp
<1>5. AddsUp(in, Book(Book(s, "ask", lots.ask, in.best["ask"]), "bid", lots.bid, in.best["bid"]))
  BY <1>1, <1>3, <1>4, BookAddsUp
<1>. QED BY <1>2, <1>5, RecordNear DEF DivideRest, lots

(* Step 4. *)
LEMMA PlaceOddLotAddsUp ==
  ASSUME NEW in \in Inputs, NEW s, AddsUp(in, s)
  PROVE  AddsUp(in, PlaceOddLot(in, s))
<1>. DEFINE side == IF NearAsk(in, s) THEN "ask" ELSE "bid"
            t == Book(s, side, s.left_vol, in.best[side])
<1>1. side \in Sides
  BY DEF Sides
<1>. HIDE DEF side
<1>2. s.left_vol \in Int /\ in.best[side] \in Int /\ s.near \in SideLots
  BY <1>1 DEF AddsUp, Results, Inputs, SideLots
<1>3. AddsUp(in, t) /\ t.near = s.near
  <2>1. AddsUp(in, t)
    BY <1>1, <1>2, BookAddsUp
  <2>2. t.near = s.near
    BY DEF Book, AddsUp, Results
  <2>. QED BY <2>1, <2>2
<1>4. [t.near EXCEPT ![side] = @ + s.left_vol] \in SideLots
  BY <1>1, <1>2, <1>3 DEF SideLots
<1>. HIDE DEF t
<1>5. AddsUp(in, [t EXCEPT !.near = [t.near EXCEPT ![side] = @ + s.left_vol]])
  BY <1>3, <1>4, RecordNear
<1>. QED BY <1>5 DEF PlaceOddLot, side, t

(* Step 5. *)
LEMMA MoveAddsUp ==
  ASSUME NEW in \in Inputs, NEW s, AddsUp(in, s), NEW side \in Sides, NEW price \in Int
  PROVE  AddsUp(in, Move(in, s, side, price))
<1>1. AddsUp(in, Book(s, side, -1, price))
  BY BookAddsUp
<1>2. price + s.left_amount \in Int
  BY DEF AddsUp, Results
<1>. QED BY <1>1, <1>2, SideOfType, BookAddsUp DEF Move

LEMMA FirstTakenType ==
  ASSUME NEW s \in Results, NEW side \in Sides, \E i \in Levels : s.take[side][i] > 0
  PROVE  FirstTaken(s, side) \in Levels
<1>1. s.take[side] \in [Levels -> Int]
  BY DEF Results
<1>2. \E i \in Levels : s.take[side][i] > 0 /\ \A j \in 1..(i - 1) : s.take[side][j] <= 0
  <2>1. \A j \in 1..5 : s.take[side][j] \in Int
    BY <1>1 DEF Levels
  <2>2. CASE s.take[side][1] > 0
    BY <2>2 DEF Levels
  <2>3. CASE s.take[side][1] <= 0 /\ s.take[side][2] > 0
    BY <2>3 DEF Levels
  <2>4. CASE s.take[side][1] <= 0 /\ s.take[side][2] <= 0 /\ s.take[side][3] > 0
    BY <2>4 DEF Levels
  <2>5. CASE /\ s.take[side][1] <= 0 /\ s.take[side][2] <= 0 /\ s.take[side][3] <= 0
             /\ s.take[side][4] > 0
    BY <2>5 DEF Levels
  <2>6. CASE /\ s.take[side][1] <= 0 /\ s.take[side][2] <= 0 /\ s.take[side][3] <= 0
             /\ s.take[side][4] <= 0
    <3>1. s.take[side][5] > 0
      BY <2>1, <2>6 DEF Levels
    <3>. QED BY <2>6, <3>1 DEF Levels
  <2>. QED BY <2>1, <2>2, <2>3, <2>4, <2>5, <2>6
<1>. QED BY <1>2 DEF FirstTaken

LEMMA PlaceAmountAddsUp ==
  ASSUME NEW in \in Inputs, NEW s, AddsUp(in, s)
  PROVE  AddsUp(in, PlaceAmount(in, s))
<1>1. s \in Results /\ "bid" \in Sides /\ "ask" \in Sides
  BY DEF AddsUp, Sides
<1>2. \A side \in Sides : AddsUp(in, Move(in, s, side, in.best[side]))
  BY MoveAddsUp DEF Inputs, SideLots
<1>3. ASSUME NEW side \in Sides, \E i \in Levels : s.take[side][i] > 0
      PROVE  AddsUp(in, MoveSwept(in, s, side))
  <2>1. FirstTaken(s, side) \in Levels
    BY <1>1, <1>3, FirstTakenType
  <2>2. in.price_pr[side][FirstTaken(s, side)] \in Int
    BY <2>1 DEF Inputs
  <2>. QED BY <2>2, MoveAddsUp DEF MoveSwept
<1>. QED BY <1>1, <1>2, <1>3 DEF PlaceAmount

----------------------------------------------------------------------------
(* That nothing is left in the end: as long as the amount has not come out, *)
(* some lot can still be moved to another price.                            *)

(* Something of the levels up to i has been taken. *)
TookSome(s, i) == \E side \in Sides : \E j \in 1..i : s.take[side][j] > 0

(* During step 2, either lots are left or a level has given some. *)
Sweeping(s, i) == s.left_vol >= 0 /\ (s.left_vol > 0 \/ TookSome(s, i))

HasLot(s) == s.near["bid"] > 0 \/ s.near["ask"] > 0 \/ TookSome(s, 5)

LEMMA TakeLevelEffect ==
  ASSUME NEW in \in Inputs, NEW s \in Results, NEW side \in Sides, NEW i \in Levels
  PROVE  /\ Taken(in, s, side, i) \in Int
         /\ TakeLevel(in, s, side, i).take = [s.take EXCEPT ![side][i] = Taken(in, s, side, i)]
         /\ s.left_vol >= 0 => TakeLevel(in, s, side, i).left_vol >= 0
         /\ s.left_vol > 0 => TakeLevel(in, s, side, i).left_vol > 0 \/ Taken(in, s, side, i) > 0
<1>. DEFINE n == Taken(in, s, side, i)
            t == TakeLevel(in, s, side, i)
<1>1. /\ in.vol_pr[side][i] \in Int /\ in.price_pr[side][i] \in Int
      /\ s.left_vol \in Int /\ s.left_amount \in Int
  BY DEF Inputs, Results
<1>2. n \in Int
  BY <1>1 DEF Taken
<1>3. s.left_vol >= 0 => n <= s.left_vol
  BY <1>1 DEF Taken
<1>. HIDE DEF n
<1>4. /\ t.left_vol = s.left_vol - n
      /\ t.take = [s.take EXCEPT ![side][i] = n]
  BY DEF TakeLevel, Book, Results, n
<1>5. /\ s.left_vol >= 0 => t.left_vol >= 0
      /\ s.left_vol > 0 => t.left_vol > 0 \/ n > 0
  BY <1>1, <1>2, <1>3, <1>4
<1>. HIDE DEF t
<1>. QED BY <1>2, <1>4, <1>5 DEF n, t

LEMMA SweepKeeps ==
  ASSUME NEW in \in Inputs, NEW s, AddsUp(in, s), NEW i \in Levels, Sweeping(s, i - 1)
  PROVE  Sweeping(Sweep(in, s, i), i)
<1>. DEFINE n == Taken(in, s, "bid", i)
            t == TakeLevel(in, s, "bid", i)
            m == Taken(in, t, "ask", i)
            u == TakeLevel(in, t, "ask", i)
<1>1. "bid" \in Sides /\ "ask" \in Sides /\ i \in 1..5
  BY DEF Sides, Levels
<1>2. s \in Results /\ t \in Results
  BY <1>1, TakeLevelAddsUp DEF AddsUp
<1>3. /\ n \in Int /\ t.take = [s.take EXCEPT !["bid"][i] = n]
      /\ s.left_vol >= 0 => t.left_vol >= 0
      /\ s.left_vol > 0 => t.left_vol > 0 \/ n > 0
  BY <1>1, <1>2, TakeLevelEffect
<1>4. /\ m \in Int /\ u.take = [t.take EXCEPT !["ask"][i] = m]
      /\ t.left_vol >= 0 => u.left_vol >= 0
      /\ t.left_vol > 0 => u.left_vol > 0 \/ m > 0
  BY <1>1, <1>2, TakeLevelEffect
<1>5. s.take \in [Sides -> [Levels -> Int]] /\ t.take \in [Sides -> [Levels -> Int]]
  BY <1>2 DEF Results
<1>6. /\ u.take["bid"][i] = n /\ u.take["ask"][i] = m
      /\ \A side \in Sides : \A j \in 1..(i - 1) : u.take[side][j] = s.take[side][j]
  BY <1>1, <1>3, <1>4, <1>5 DEF Sides, Levels
<1>. HIDE DEF n, t, m, u
<1>7. s.left_vol \in Int /\ t.left_vol \in Int
  BY <1>2 DEF Results
<1>8. u.left_vol >= 0
  BY <1>3, <1>4 DEF Sweeping
<1>9. CASE TookSome(s, i - 1)
  <2>1. PICK side \in Sides, j \in 1..(i - 1) : s.take[side][j] > 0
    BY <1>9 DEF TookSome
  <2>2. j \in 1..i /\ u.take[side][j] > 0
    BY <1>1, <1>6, <2>1
  <2>. QED BY <1>8, <2>1, <2>2 DEF TookSome, Sweeping, Sweep, t, u
<1>10. CASE s.left_vol > 0
  <2>1. u.left_vol > 0 \/ n > 0 \/ m > 0
    BY <1>3, <1>4, <1>10
  <2>2. n > 0 \/ m > 0 => TookSome(u, i)
    <3>1. i \in 1..i
      BY <1>1
    <3>. QED BY <1>1, <1>6, <3>1 DEF TookSome
  <2>3. Sweeping(u, i)
    BY <1>8, <2>1, <2>2 DEF Sweeping
  <2>. QED BY <2>3 DEF Sweep, t, u
<1>. QED BY <1>9, <1>10 DEF Sweeping

LEMMA SweepAllKeeps ==
  ASSUME NEW in \in Inputs, NEW s, AddsUp(in, s), s.left_vol > 0
  PROVE  Sweeping(SweepAll(in, s), 5)
<1>. DEFINE s1 == Sweep(in, s, 1)
            s2 == Sweep(in, s1, 2)
            s3 == Sweep(in, s2, 3)
            s4 == Sweep(in, s3, 4)
<1>1. ASSUME NEW t, AddsUp(in, t), NEW i \in Levels
      PROVE  AddsUp(in, Sweep(in, t, i))
  <2>1. "bid" \in Sides /\ "ask" \in Sides
    BY DEF Sides
  <2>2. AddsUp(in, TakeLevel(in, t, "bid", i))
    BY <1>1, <2>1, TakeLevelAddsUp
  <2>. QED BY <1>1, <2>1, <2>2, TakeLevelAddsUp DEF Sweep
<1>2. /\ 1 \in Levels /\ 2 \in Levels /\ 3 \in Levels /\ 4 \in Levels /\ 5 \in Levels
      /\ 1 - 1 = 0 /\ 2 - 1 = 1 /\ 3 - 1 = 2 /\ 4 - 1 = 3 /\ 5 - 1 = 4
  BY DEF Levels
<1>3. Sweeping(s, 0)
  <2>1. s.left_vol \in Int
    BY DEF AddsUp, Results
  <2>. QED BY <2>1 DEF Sweeping
<1>4. AddsUp(in, s1) /\ Sweeping(s1, 1)
  BY <1>1, <1>2, <1>3, SweepKeeps
<1>. HIDE DEF s1
<1>5. AddsUp(in, s2) /\ Sweeping(s2, 2)
  BY <1>1, <1>2, <1>4, SweepKeeps
<1>. HIDE DEF s2
<1>6. AddsUp(in, s3) /\ Sweeping(s3, 3)
  BY <1>1, <1>2, <1>5, SweepKeeps
<1>. HIDE DEF s3
<1>7. AddsUp(in, s4) /\ Sweeping(s4, 4)
  BY <1>1, <1>2, <1>6, SweepKeeps
<1>. HIDE DEF s4
<1>8. Sweeping(Sweep(in, s4, 5), 5)
  BY <1>2, <1>7, SweepKeeps
<1>. QED BY <1>8 DEF SweepAll, s1, s2, s3, s4

LEMMA TakeNothing ==
  ASSUME NEW in \in Inputs, NEW s, AddsUp(in, s), s.left_vol = 0,
         NEW side \in Sides, NEW i \in Levels
  PROVE  /\ AddsUp(in, TakeLevel(in, s, side, i))
         /\ TakeLevel(in, s, side, i).left_vol = 0
         /\ TakeLevel(in, s, side, i).left_amount = s.left_amount
<1>. DEFINE t == TakeLevel(in, s, side, i)
<1>1. /\ in.price_pr[side][i] \in Int /\ s.left_amount \in Int /\ s \in Results
  BY DEF Inputs, Results, AddsUp
<1>2. Taken(in, s, side, i) = 0
  BY DEF Taken
<1>3. /\ t.left_vol = s.left_vol - 0
      /\ t.left_amount = s.left_amount - 0 * in.price_pr[side][i]
  BY <1>1, <1>2 DEF TakeLevel, Book, Results
<1>. HIDE DEF t
<1>4. t.left_vol = 0 /\ t.left_amount = s.left_amount
  BY <1>1, <1>3
<1>. QED BY <1>4, TakeLevelAddsUp DEF t

(* A trade of one lot at the last price leaves nothing to sweep. *)
LEMMA SweepNothing ==
  ASSUME NEW in \in Inputs, NEW s, AddsUp(in, s), s.left_vol = 0
  PROVE  SweepAll(in, s).left_vol = 0 /\ SweepAll(in, s).left_amount = s.left_amount
<1>1. ASSUME NEW t, AddsUp(in, t), t.left_vol = 0, NEW i \in Levels
      PROVE  /\ AddsUp(in, Sweep(in, t, i))
             /\ Sweep(in, t, i).left_vol = 0
             /\ Sweep(in, t, i).left_amount = t.left_amount
  <2>. DEFINE u == TakeLevel(in, t, "bid", i)
  <2>1. "bid" \in Sides /\ "ask" \in Sides
    BY DEF Sides
  <2>2. AddsUp(in, u) /\ u.left_vol = 0 /\ u.left_amount = t.left_amount
    BY <1>1, <2>1, TakeNothing
  <2>. HIDE DEF u
  <2>3. /\ AddsUp(in, TakeLevel(in, u, "ask", i))
        /\ TakeLevel(in, u, "ask", i).left_vol = 0
        /\ TakeLevel(in, u, "ask", i).left_amount = u.left_amount
    BY <2>1, <2>2, TakeNothing
  <2>. QED BY <2>2, <2>3 DEF Sweep, u
<1>. DEFINE s1 == Sweep(in, s, 1)
            s2 == Sweep(in, s1, 2)
            s3 == Sweep(in, s2, 3)
            s4 == Sweep(in, s3, 4)
<1>2. 1 \in Levels /\ 2 \in Levels /\ 3 \in Levels /\ 4 \in Levels /\ 5 \in Levels
  BY DEF Levels
<1>3. AddsUp(in, s1) /\ s1.left_vol = 0 /\ s1.left_amount = s.left_amount
  BY <1>1, <1>2
<1>. HIDE DEF s1
<1>4. AddsUp(in, s2) /\ s2.left_vol = 0 /\ s2.left_amount = s.left_amount
  BY <1>1, <1>2, <1>3
<1>. HIDE DEF s2
<1>5. AddsUp(in, s3) /\ s3.left_vol = 0 /\ s3.left_amount = s.left_amount
  BY <1>1, <1>2, <1>4
<1>. HIDE DEF s3
<1>6. AddsUp(in, s4) /\ s4.left_vol = 0 /\ s4.left_amount = s.left_amount
  BY <1>1, <1>2, <1>5
<1>. HIDE DEF s4
<1>7. Sweep(in, s4, 5).left_vol = 0 /\ Sweep(in, s4, 5).left_amount = s.left_amount
  BY <1>1, <1>2, <1>6
<1>. QED BY <1>7 DEF SweepAll, s1, s2, s3, s4

LEMMA DivideRestEffect ==
  ASSUME NEW in \in Inputs, NEW s, AddsUp(in, s)
  PROVE  /\ DivideRest(in, s).take = s.take
         /\ DivideRest(in, s).near = NearLots(in, s)
         /\ DivideRest(in, s).left_vol = (s.left_vol - NearLots(in, s).ask) - NearLots(in, s).bid
         /\ DivideRest(in, s).left_amount =
              (s.left_amount - NearLots(in, s).ask * in.best["ask"])
                - NearLots(in, s).bid * in.best["bid"]
<1>. DEFINE lots == NearLots(in, s)
<1>1. s \in Results
  BY DEF AddsUp
<1>. HIDE DEF lots
<1>2. /\ DivideRest(in, s).take = s.take
      /\ DivideRest(in, s).near = lots
      /\ DivideRest(in, s).left_vol = (s.left_vol - lots.ask) - lots.bid
      /\ DivideRest(in, s).left_amount =
           (s.left_amount - lots.ask * in.best["ask"]) - lots.bid * in.best["bid"]
  BY <1>1 DEF DivideRest, Book, Results, lots
<1>. QED BY <1>2 DEF lots

LEMMA PlaceOddLotEffect ==
  ASSUME NEW in \in Inputs, NEW s, AddsUp(in, s)
  PROVE  \E side \in Sides :
           /\ PlaceOddLot(in, s).near = [s.near EXCEPT ![side] = @ + s.left_vol]
           /\ PlaceOddLot(in, s).take = s.take
           /\ PlaceOddLot(in, s).left_vol = 0
<1>. DEFINE side == IF NearAsk(in, s) THEN "ask" ELSE "bid"
<1>1. s \in Results /\ side \in Sides
  BY DEF AddsUp, Sides
<1>. HIDE DEF side
<1>2. /\ PlaceOddLot(in, s).near = [s.near EXCEPT ![side] = @ + s.left_vol]
      /\ PlaceOddLot(in, s).take = s.take
      /\ PlaceOddLot(in, s).left_vol = s.left_vol - s.left_vol
  BY <1>1 DEF PlaceOddLot, Book, Results, side
<1>3. s.left_vol - s.left_vol = 0
  BY <1>1 DEF Results
<1>. QED BY <1>1, <1>2, <1>3

(* After step 4 there is a lot that step 5 can move. *)
LEMMA PlacedHasLot ==
  ASSUME NEW in \in Inputs, NEW s, AddsUp(in, s), Sweeping(s, 5)
  PROVE  /\ HasLot(PlaceOddLot(in, DivideRest(in, s)))
         /\ PlaceOddLot(in, DivideRest(in, s)).left_vol = 0
<1>. DEFINE d == DivideRest(in, s)
            p == PlaceOddLot(in, d)
<1>1. AddsUp(in, d) /\ d \in Results /\ s \in Results
  BY DivideRestAddsUp DEF AddsUp
<1>2. NearLots(in, s) \in [bid : Int, ask : Int]
  BY <1>1, NearLotsType
<1>3. /\ d.take = s.take /\ d.near = NearLots(in, s)
      /\ d.left_vol = (s.left_vol - NearLots(in, s).ask) - NearLots(in, s).bid
  BY DivideRestEffect
<1>. HIDE DEF d
<1>4. PICK side \in Sides : /\ p.near = [d.near EXCEPT ![side] = @ + d.left_vol]
                            /\ p.take = d.take /\ p.left_vol = 0
  BY <1>1, PlaceOddLotEffect
<1>. HIDE DEF p
<1>5. CASE TookSome(s, 5)
  <2>1. TookSome(p, 5)
    BY <1>3, <1>4, <1>5 DEF TookSome
  <2>. QED BY <1>4, <2>1 DEF HasLot, p, d
<1>6. CASE s.left_vol > 0
  <2>. DEFINE b == NearLots(in, s).bid
              a == NearLots(in, s).ask
  <2>1. a \in Int /\ b \in Int /\ s.left_vol \in Int
    BY <1>1, <1>2 DEF Results
  <2>2. d.near \in SideLots /\ d.near["bid"] = b /\ d.near["ask"] = a
    BY <1>1, <1>3 DEF Results
  <2>3. d.left_vol = (s.left_vol - a) - b
    BY <1>3
  <2>. HIDE DEF a, b
  <2>4. CASE side = "bid"
    <3>1. p.near["bid"] = b + d.left_vol /\ p.near["ask"] = a
      BY <1>4, <2>2, <2>4 DEF SideLots, Sides
    <3>2. p.near["bid"] > 0 \/ p.near["ask"] > 0
      BY <1>6, <2>1, <2>3, <3>1
    <3>. QED BY <1>4, <3>2 DEF HasLot, p, d
  <2>5. CASE side = "ask"
    <3>1. p.near["ask"] = a + d.left_vol /\ p.near["bid"] = b
      BY <1>4, <2>2, <2>5 DEF SideLots, Sides
    <3>2. p.near["bid"] > 0 \/ p.near["ask"] > 0
      BY <1>6, <2>1, <2>3, <3>1
    <3>. QED BY <1>4, <3>2 DEF HasLot, p, d
  <2>. QED BY <2>4, <2>5 DEF Sides
<1>. QED BY <1>5, <1>6 DEF Sweeping

LEMMA MoveEmpties ==
  ASSUME NEW in \in Inputs, NEW s \in Results, NEW side \in Sides, NEW price \in Int
  PROVE  /\ Move(in, s, side, price).left_amount = 0
         /\ Move(in, s, side, price).left_vol = s.left_vol
<1>. DEFINE t == Book(s, side, -1, price)
            new == price + s.left_amount
            u == Book(t, SideOf(in, new), 1, new)
<1>1. s.left_amount \in Int /\ s.left_vol \in Int
  BY DEF Results
<1>2. t.left_amount = s.left_amount - (-1) * price /\ t.left_vol = s.left_vol - (-1)
  BY DEF Book, Results
<1>. HIDE DEF t
<1>3. u.left_amount = t.left_amount - 1 * new /\ u.left_vol = t.left_vol - 1
  <2>1. \A r : /\ Book(t, r, 1, new).left_amount = t.left_amount - 1 * new
               /\ Book(t, r, 1, new).left_vol = t.left_vol - 1
    BY DEF Book, t, Results
  <2>. QED BY <2>1
<1>4. u.left_amount = 0 /\ u.left_vol = s.left_vol
  BY <1>1, <1>2, <1>3
<1>. QED BY <1>4 DEF Move, t

(* Step 5 leaves nothing of the amount. *)
LEMMA PlaceAmountEmpties ==
  ASSUME NEW in \in Inputs, NEW s, AddsUp(in, s), HasLot(s)
  PROVE  /\ PlaceAmount(in, s).left_amount = 0
         /\ PlaceAmount(in, s).left_vol = s.left_vol
<1>1. s \in Results /\ "bid" \in Sides /\ "ask" \in Sides
  BY DEF AddsUp, Sides
<1>2. \A side \in Sides : /\ Move(in, s, side, in.best[side]).left_amount = 0
                          /\ Move(in, s, side, in.best[side]).left_vol = s.left_vol
  <2>1. \A side \in Sides : in.best[side] \in Int
    BY DEF Inputs, SideLots
  <2>. QED BY <1>1, <2>1, MoveEmpties
<1>3. ASSUME NEW side \in Sides, \E i \in Levels : s.take[side][i] > 0
      PROVE  MoveSwept(in, s, side).left_amount = 0 /\ MoveSwept(in, s, side).left_vol = s.left_vol
  <2>1. FirstTaken(s, side) \in Levels
    BY <1>1, <1>3, FirstTakenType
  <2>2. in.price_pr[side][FirstTaken(s, side)] \in Int
    BY <2>1 DEF Inputs
  <2>. QED BY <1>1, <2>2, MoveEmpties DEF MoveSwept
<1>4. TookSome(s, 5) => \/ \E i \in Levels : s.take["bid"][i] > 0
                        \/ \E i \in Levels : s.take["ask"][i] > 0
  BY DEF TookSome, Levels, Sides
<1>. QED BY <1>1, <1>2, <1>3, <1>4 DEF PlaceAmount, HasLot

----------------------------------------------------------------------------
(* No lot is left after step 3 either, if the amount has come out: both     *)
(* parts of the rest may have been rounded up, but then what remains of the *)
(* amount is half the sum of the best prices.                               *)

LEMMA RoundBounds ==
  ASSUME NEW a \in Int, NEW b \in Int, b > 0
  PROVE  /\ Round(a, b) \in Int
         /\ 2 * (b * Round(a, b)) <= 2 * a + b
         /\ 2 * a + b < 2 * (b * Round(a, b)) + 2 * b
<1>. DEFINE n == 2 * a + b
            d == 2 * b
            q == n \div d
<1>1. n \in Int /\ d \in Int /\ d > 0
  OBVIOUS
<1>. HIDE DEF n, d
<1>2. q \in Int /\ d * q <= n /\ n < d * q + d
  BY <1>1
<1>. HIDE DEF q
<1>3. d * q = 2 * (b * q)
  BY <1>2 DEF d
<1>4. q = Round(a, b)
  BY DEF q, n, d, Round
<1>. QED BY <1>2, <1>3, <1>4 DEF n, d

LEMMA AtMostOneFactor ==
  ASSUME NEW S \in Int, S > 0, NEW k \in Int, S * k <= S, S * k > -S
  PROVE  k \in {0, 1}
<1>1. CASE k >= 2
  <2>1. S * k = 2 * S + S * (k - 2)
    OBVIOUS
  <2>2. S * (k - 2) >= 0
    BY <1>1
  <2>. QED BY <2>1, <2>2
<1>2. CASE k <= -1
  <2>1. S * k = S * (k + 1) - S
    OBVIOUS
  <2>2. S * (k + 1) <= 0
    BY <1>2
  <2>. QED BY <2>1, <2>2
<1>. QED BY <1>1, <1>2

(* What is left of the amount, by the error of the ask part or the bid part. *)
LEMMA ErrorOfRest ==
  ASSUME NEW ask \in Int, NEW bid \in Int, NEW vol \in Int, NEW amount \in Int,
         NEW a \in Int, NEW b \in Int
  PROVE  /\ (ask - bid) * b - (ask * vol - amount)
              = ask * ((a + b) - vol) + ((amount - a * ask) - b * bid)
         /\ (ask - bid) * a - (amount - bid * vol)
              = -(bid * ((a + b) - vol)) - ((amount - a * ask) - b * bid)
         /\ ask * ((a + b) - vol) - bid * ((a + b) - vol) = (ask - bid) * ((a + b) - vol)
<1>1. (ask - bid) * b - (ask * vol - amount)
        = ask * ((a + b) - vol) + ((amount - a * ask) - b * bid)
  OBVIOUS
<1>2. (ask - bid) * a - (amount - bid * vol)
        = -(bid * ((a + b) - vol)) - ((amount - a * ask) - b * bid)
  OBVIOUS
<1>3. ask * ((a + b) - vol) - bid * ((a + b) - vol) = (ask - bid) * ((a + b) - vol)
  OBVIOUS
<1>. QED BY <1>1, <1>2, <1>3

LEMMA ErrorsBounded ==
  ASSUME NEW S \in Int, NEW e \in Int, NEW f \in Int, NEW g \in Int, NEW h \in Int,
         2 * e <= 2 * g + S, 2 * g + S < 2 * e + 2 * S,
         2 * f <= 2 * h + S, 2 * h + S < 2 * f + 2 * S
  PROVE  /\ (e - g) + (f - h) <= S /\ (e - g) + (f - h) > -S
         /\ 2 * (e - g) <= S /\ 2 * (f - h) <= S
OBVIOUS

LEMMA RoundedLots ==
  ASSUME NEW ask \in Int, NEW bid \in Int, ask > bid, ask + bid # 0,
         NEW vol \in Int, NEW amount \in Int,
         (amount - Round(amount - bid * vol, ask - bid) * ask)
           - Round(ask * vol - amount, ask - bid) * bid = 0
  PROVE  (vol - Round(amount - bid * vol, ask - bid)) - Round(ask * vol - amount, ask - bid) = 0
<1>. DEFINE S == ask - bid
            atAsk == ask * vol - amount
            atBid == amount - bid * vol
            a == Round(atBid, S)
            b == Round(atAsk, S)
            k == (a + b) - vol
            rest == (amount - a * ask) - b * bid
<1>1. S \in Int /\ S > 0 /\ atAsk \in Int /\ atBid \in Int /\ S = ask - bid
  OBVIOUS
<1>2. a \in Int /\ b \in Int
  BY <1>1, RoundBounds
<1>3. rest = 0
  OBVIOUS
<1>4. (vol - a) - b = 0 => (vol - Round(amount - bid * vol, ask - bid))
                              - Round(ask * vol - amount, ask - bid) = 0
  OBVIOUS
<1>5. /\ 2 * (S * a) <= 2 * atBid + S /\ 2 * atBid + S < 2 * (S * a) + 2 * S
       /\ 2 * (S * b) <= 2 * atAsk + S /\ 2 * atAsk + S < 2 * (S * b) + 2 * S
  BY <1>1, RoundBounds
<1>. HIDE DEF a, b
<1>6. k \in Int
  BY <1>2
<1>7. /\ S * b - atAsk = ask * k + rest
      /\ S * a - atBid = -(bid * k) - rest
      /\ ask * k - bid * k = S * k
  BY <1>2, ErrorOfRest
<1>. HIDE DEF S, atAsk, atBid, rest
<1>8. k = 0 => (vol - a) - b = 0
  <2>1. \A v, x, y \in Int : (x + y) - v = 0 => (v - x) - y = 0
    OBVIOUS
  <2>. QED BY <1>2, <2>1, Zenon
<1>. HIDE DEF k
<1>. DEFINE askK == ask * k
            bidK == bid * k
            SK == S * k
            SA == S * a
            SB == S * b
<1>9. askK \in Int /\ bidK \in Int /\ SK \in Int /\ SA \in Int /\ SB \in Int
  BY <1>1, <1>2, <1>6
<1>10. SB - atAsk = askK + rest /\ SA - atBid = -bidK - rest /\ askK - bidK = SK
  BY <1>7
<1>11. k = 1 => askK = ask /\ bidK = bid
  BY <1>1
<1>12. /\ 2 * SA <= 2 * atBid + S /\ 2 * atBid + S < 2 * SA + 2 * S
      /\ 2 * SB <= 2 * atAsk + S /\ 2 * atAsk + S < 2 * SB + 2 * S
  BY <1>5
<1>13. SK <= S /\ SK > -S => k \in {0, 1}
  BY <1>1, <1>6, AtMostOneFactor
<1>. HIDE DEF askK, bidK, SK, SA, SB
<1>14. /\ (SA - atBid) + (SB - atAsk) <= S /\ (SA - atBid) + (SB - atAsk) > -S
       /\ 2 * (SA - atBid) <= S /\ 2 * (SB - atAsk) <= S
  BY <1>1, <1>9, <1>12, ErrorsBounded
<1>15. SB - atAsk = askK /\ SA - atBid = -bidK
  BY <1>1, <1>3, <1>9, <1>10
<1>16. SK <= S /\ SK > -S
  BY <1>1, <1>9, <1>10, <1>14, <1>15
<1>17. k # 1
  <2>1. 2 * askK <= S /\ 2 * (-bidK) <= S
    BY <1>14, <1>15
  <2>. QED BY <1>1, <1>11, <2>1
<1>. QED BY <1>8, <1>13, <1>16, <1>17, <1>4

LEMMA DividedWhole ==
  ASSUME NEW in \in Inputs, in.best["ask"] + in.best["bid"] # 0,
         NEW s, AddsUp(in, s), s.left_vol >= 0, DivideRest(in, s).left_amount = 0
  PROVE  DivideRest(in, s).left_vol = 0
<1>. DEFINE ask == in.best["ask"]
            bid == in.best["bid"]
            lots == NearLots(in, s)
<1>1. /\ ask \in Int /\ bid \in Int /\ ask > bid /\ ask + bid # 0
      /\ s.left_vol \in Int /\ s.left_amount \in Int /\ s \in Results
  BY DEF Inputs, SideLots, Sides, AddsUp, Results
<1>2. lots \in [bid : Int, ask : Int]
  BY <1>1, NearLotsType
<1>3. lots = IF s.left_vol <= 0 THEN [bid |-> 0, ask |-> 0]
             ELSE IF ask * s.left_vol - s.left_amount < 0 THEN [bid |-> 0, ask |-> s.left_vol]
             ELSE IF s.left_amount - bid * s.left_vol < 0 THEN [bid |-> s.left_vol, ask |-> 0]
             ELSE [bid |-> Round(ask * s.left_vol - s.left_amount, ask - bid),
                   ask |-> Round(s.left_amount - bid * s.left_vol, ask - bid)]
  BY DEF NearLots, Spread
<1>4. /\ DivideRest(in, s).left_vol = (s.left_vol - lots.ask) - lots.bid
      /\ (s.left_amount - lots.ask * ask) - lots.bid * bid = 0
  BY DivideRestEffect
<1>. HIDE DEF ask, bid, lots
<1>5. CASE \/ lots = [bid |-> 0, ask |-> 0] /\ s.left_vol <= 0
           \/ lots = [bid |-> 0, ask |-> s.left_vol]
           \/ lots = [bid |-> s.left_vol, ask |-> 0]
  BY <1>1, <1>4, <1>5
<1>6. CASE lots = [bid |-> Round(ask * s.left_vol - s.left_amount, ask - bid),
                   ask |-> Round(s.left_amount - bid * s.left_vol, ask - bid)]
  <2>1. (s.left_amount - Round(s.left_amount - bid * s.left_vol, ask - bid) * ask)
          - Round(ask * s.left_vol - s.left_amount, ask - bid) * bid = 0
    BY <1>4, <1>6
  <2>2. (s.left_vol - Round(s.left_amount - bid * s.left_vol, ask - bid))
          - Round(ask * s.left_vol - s.left_amount, ask - bid) = 0
    BY <1>1, <2>1, RoundedLots
  <2>. QED BY <1>4, <1>6, <2>2
<1>. QED BY <1>3, <1>5, <1>6

(* A trade of several lots, or of one lot at the last price, is given to the *)
(* two sides to the last bit of its amount; and to the last lot, unless the  *)
(* levels swept in step 2 come to the whole amount while lots are left,     *)
(* which guess_trade_price() takes for the end.                             *)
THEOREM TradeIsDivided ==
  ASSUME NEW in \in Inputs, in.best["ask"] + in.best["bid"] # 0,
         in.trade_vol >= 2 \/ (in.trade_vol = 1 /\ in.amount = in.lastprice)
  PROVE  LET s     == guess_trade_price(in)
             swept == SweepAll(in, LastPriceLot(in))
         IN  /\ s.amount["bid"] + s.amount["ask"] = in.amount
             /\ swept.left_amount # 0 \/ swept.left_vol = 0 =>
                  s.vol["bid"] + s.vol["ask"] = in.trade_vol
<1>. DEFINE first   == LastPriceLot(in)
            swept   == SweepAll(in, first)
            divided == DivideRest(in, swept)
            placed  == PlaceOddLot(in, divided)
            s       == guess_trade_price(in)
<1>0. /\ in.trade_vol \in Int /\ in.amount \in Int /\ in.lastprice \in Int
      /\ in.trade_vol > 0
  BY DEF Inputs
<1>1. AddsUp(in, first) /\ AddsUp(in, swept)
  BY LastPriceAddsUp, SweepAllAddsUp
<1>2. first.left_vol = in.trade_vol - 1 /\ first.left_amount = in.amount - 1 * in.lastprice
  <2>1. \A side : /\ Book(Start(in), side, 1, in.lastprice).left_vol = in.trade_vol - 1
                  /\ Book(Start(in), side, 1, in.lastprice).left_amount
                       = in.amount - 1 * in.lastprice
    BY DEF Book, Start
  <2>. QED BY <2>1 DEF LastPriceLot
<1>3. s = IF swept.left_amount = 0 THEN swept
          ELSE IF divided.left_amount = 0 THEN divided
          ELSE IF placed.left_amount = 0 THEN placed
          ELSE PlaceAmount(in, placed)
  BY <1>0 DEF guess_trade_price
<1>. HIDE DEF first
<1>4. CASE in.trade_vol = 1 /\ in.amount = in.lastprice
  <2>1. first.left_vol = 0 /\ first.left_amount = 0
    BY <1>0, <1>2, <1>4
  <2>2. swept.left_amount = 0
    BY <1>1, <2>1, SweepNothing
  <2>3. s = swept
    BY <1>3, <2>2
  <2>. HIDE DEF swept, s
  <2>4. swept.left_vol \in Int /\ swept.vol \in SideLots /\ swept.amount \in SideLots
    BY <1>1 DEF AddsUp, Results
  <2>5. /\ swept.vol["bid"] \in Int /\ swept.vol["ask"] \in Int
        /\ swept.amount["bid"] \in Int /\ swept.amount["ask"] \in Int
    BY <2>4 DEF SideLots, Sides
  <2>6. /\ swept.amount["bid"] + swept.amount["ask"] = in.amount
        /\ swept.left_vol = 0 => swept.vol["bid"] + swept.vol["ask"] = in.trade_vol
    BY <1>1, <2>2, <2>4, <2>5 DEF AddsUp
  <2>. QED BY <2>2, <2>3, <2>6 DEF swept, s, first
<1>5. CASE in.trade_vol >= 2
  <2>1. first.left_vol > 0
    BY <1>0, <1>2, <1>5
  <2>2. Sweeping(swept, 5)
    BY <1>1, <2>1, SweepAllKeeps
  <2>. HIDE DEF swept
  <2>3. /\ AddsUp(in, divided) /\ AddsUp(in, placed)
        /\ HasLot(placed) /\ placed.left_vol = 0
    BY <1>1, <2>2, DivideRestAddsUp, PlaceOddLotAddsUp, PlacedHasLot
  <2>4. divided.left_amount = 0 => divided.left_vol = 0
    BY <1>1, <2>2, DividedWhole DEF Sweeping
  <2>. HIDE DEF divided
  <2>5. /\ AddsUp(in, PlaceAmount(in, placed))
        /\ PlaceAmount(in, placed).left_amount = 0
        /\ PlaceAmount(in, placed).left_vol = 0
    BY <2>3, PlaceAmountAddsUp, PlaceAmountEmpties
  <2>. HIDE DEF placed
  <2>6. /\ AddsUp(in, s) /\ s.left_amount = 0
        /\ swept.left_amount # 0 \/ swept.left_vol = 0 => s.left_vol = 0
    BY <1>1, <1>3, <2>3, <2>4, <2>5
  <2>. HIDE DEF s
  <2>7. s.left_vol \in Int /\ s.vol \in SideLots /\ s.amount \in SideLots
    BY <2>6 DEF AddsUp, Results
  <2>8. /\ s.vol["bid"] \in Int /\ s.vol["ask"] \in Int
        /\ s.amount["bid"] \in Int /\ s.amount["ask"] \in Int
    BY <2>7 DEF SideLots, Sides
  <2>9. /\ s.amount["bid"] + s.amount["ask"] = in.amount
        /\ s.left_vol = 0 => s.vol["bid"] + s.vol["ask"] = in.trade_vol
    BY <2>6, <2>7, <2>8 DEF AddsUp
  <2>. QED BY <2>6, <2>9 DEF swept, s, first
<1>. QED BY <1>4, <1>5

----------------------------------------------------------------------------
(* That no side is given fewer than no lots, though step 4 may take back a  *)
(* lot and step 5 always does: each is taken from a side that was given one *)
(* by the step that recorded it.                                            *)

LotsInLevels(in) == \A side \in Sides : \A i \in Levels : in.vol_pr[side][i] >= 0

(* A side holds at least its part of the rest and what it took of a level.  *)
Backed(s) ==
  \A side \in Sides :
    /\ s.near[side] >= 0 /\ s.vol[side] >= s.near[side]
    /\ \A j \in Levels : s.take[side][j] >= 0 /\ s.vol[side] >= s.near[side] + s.take[side][j]

LEMMA BookLots ==
  ASSUME NEW s \in Results, NEW side \in Sides, NEW n \in Int, NEW price \in Int
  PROVE  Book(s, side, n, price).vol = [s.vol EXCEPT ![side] = @ + n]
BY DEF Book, Results

LEMMA BookKeeps ==
  ASSUME NEW s \in Results, NEW side, NEW n, NEW price
  PROVE  Book(s, side, n, price).take = s.take /\ Book(s, side, n, price).near = s.near
BY DEF Book, Results

LEMMA LastPriceBacked ==
  ASSUME NEW in \in Inputs
  PROVE  Backed(LastPriceLot(in))
<1>. DEFINE z == Start(in)
            side == SideOf(in, in.lastprice)
<1>1. z \in Results /\ in.lastprice \in Int /\ side \in Sides
  BY StartAddsUp, SideOfType DEF AddsUp, Inputs
<1>2. /\ LastPriceLot(in).vol = [z.vol EXCEPT ![side] = @ + 1]
      /\ LastPriceLot(in).take = z.take /\ LastPriceLot(in).near = z.near
  <2>1. 1 \in Int
    OBVIOUS
  <2>2. LastPriceLot(in).vol = [z.vol EXCEPT ![side] = @ + 1]
    BY <1>1, <2>1, BookLots DEF LastPriceLot
  <2>3. LastPriceLot(in).take = z.take /\ LastPriceLot(in).near = z.near
    BY <1>1, BookKeeps DEF LastPriceLot
  <2>. QED BY <2>2, <2>3
<1>3. \A r \in Sides : z.vol[r] = 0 /\ z.near[r] = 0 /\ \A j \in Levels : z.take[r][j] = 0
  BY DEF Start
<1>4. z.vol \in SideLots
  BY <1>1 DEF Results
<1>. DEFINE l == LastPriceLot(in)
<1>. HIDE DEF z, side, l
<1>5. ASSUME NEW r \in Sides
      PROVE  l.vol[r] \in {0, 1}
  <2>1. z.vol \in [Sides -> Int] /\ l.vol = [z.vol EXCEPT ![side] = @ + 1]
    BY <1>2, <1>4 DEF SideLots, l
  <2>2. z.vol[r] = 0 /\ z.vol[side] = 0
    BY <1>1, <1>3
  <2>. QED BY <1>1, <2>1, <2>2
<1>6. l.near = z.near /\ l.take = z.take
  BY <1>2 DEF l
<1>7. Backed(l)
  BY <1>3, <1>5, <1>6 DEF Backed
<1>. QED BY <1>7 DEF l

LEMMA TakenBounds ==
  ASSUME NEW in \in Inputs, LotsInLevels(in), NEW s \in Results,
         NEW side \in Sides, NEW i \in Levels
  PROVE  /\ Taken(in, s, side, i) \in Nat
         /\ s.left_vol >= 0 => Taken(in, s, side, i) <= s.left_vol
<1>1. in.vol_pr[side][i] \in Int /\ in.vol_pr[side][i] >= 0 /\ s.left_vol \in Int
  BY DEF Inputs, Results, LotsInLevels
<1>. QED BY <1>1 DEF Taken

LEMMA TakeLevelBacked ==
  ASSUME NEW in \in Inputs, LotsInLevels(in), NEW s, AddsUp(in, s), Backed(s),
         NEW side \in Sides, NEW i \in Levels
  PROVE  Backed(TakeLevel(in, s, side, i))
<1>. DEFINE n == Taken(in, s, side, i)
            price == in.price_pr[side][i]
            t == TakeLevel(in, s, side, i)
<1>1. s \in Results /\ price \in Int
  BY DEF AddsUp, Inputs
<1>2. n \in Nat
  BY <1>1, TakenBounds
<1>. HIDE DEF n, price
<1>3. /\ Book(s, side, n, price).vol = [s.vol EXCEPT ![side] = @ + n]
      /\ Book(s, side, n, price).near = s.near
  <2>1. Book(s, side, n, price).vol = [s.vol EXCEPT ![side] = @ + n]
    BY <1>1, <1>2, BookLots
  <2>2. Book(s, side, n, price).near = s.near
    BY <1>1, BookKeeps
  <2>. QED BY <2>1, <2>2
<1>4. /\ t.vol = [s.vol EXCEPT ![side] = @ + n] /\ t.near = s.near
      /\ t.take = [s.take EXCEPT ![side][i] = n]
  BY <1>1, <1>3 DEF TakeLevel, Book, Results, n, price
<1>5. s.vol \in [Sides -> Int] /\ s.near \in [Sides -> Int] /\ s.take \in [Sides -> [Levels -> Int]]
  BY <1>1 DEF Results, SideLots
<1>. HIDE DEF t
<1>6. ASSUME NEW r \in Sides
      PROVE  /\ t.near[r] >= 0 /\ t.vol[r] >= t.near[r]
             /\ \A j \in Levels : t.take[r][j] >= 0 /\ t.vol[r] >= t.near[r] + t.take[r][j]
  <2>0. /\ s.near[r] >= 0 /\ s.vol[r] >= s.near[r] /\ s.vol[r] \in Int /\ s.near[r] \in Int
        /\ \A j \in Levels : /\ s.take[r][j] >= 0 /\ s.vol[r] >= s.near[r] + s.take[r][j]
                             /\ s.take[r][j] \in Int
    BY <1>5 DEF Backed
  <2>1. CASE r = side
    <3>1. t.vol[r] = s.vol[r] + n /\ t.near[r] = s.near[r]
      BY <1>4, <1>5, <2>1
    <3>2. \A j \in Levels : t.take[r][j] = IF j = i THEN n ELSE s.take[r][j]
      BY <1>4, <1>5, <2>1
    <3>. QED BY <1>2, <2>0, <3>1, <3>2
  <2>2. CASE r # side
    <3>1. t.vol[r] = s.vol[r] /\ t.near[r] = s.near[r] /\ t.take[r] = s.take[r]
      BY <1>4, <1>5, <2>2
    <3>. QED BY <2>0, <3>1
  <2>. QED BY <2>1, <2>2
<1>. QED BY <1>6 DEF Backed, t

LEMMA SweepAllBacked ==
  ASSUME NEW in \in Inputs, LotsInLevels(in), NEW s, AddsUp(in, s), Backed(s)
  PROVE  Backed(SweepAll(in, s))
<1>1. ASSUME NEW t, AddsUp(in, t), Backed(t), NEW i \in Levels
      PROVE  AddsUp(in, Sweep(in, t, i)) /\ Backed(Sweep(in, t, i))
  <2>1. "bid" \in Sides /\ "ask" \in Sides
    BY DEF Sides
  <2>2. AddsUp(in, TakeLevel(in, t, "bid", i)) /\ Backed(TakeLevel(in, t, "bid", i))
    BY <1>1, <2>1, TakeLevelAddsUp, TakeLevelBacked
  <2>. QED BY <1>1, <2>1, <2>2, TakeLevelAddsUp, TakeLevelBacked DEF Sweep
<1>2. 1 \in Levels /\ 2 \in Levels /\ 3 \in Levels /\ 4 \in Levels /\ 5 \in Levels
  BY DEF Levels
<1>. DEFINE s1 == Sweep(in, s, 1)
            s2 == Sweep(in, s1, 2)
            s3 == Sweep(in, s2, 3)
            s4 == Sweep(in, s3, 4)
<1>3. AddsUp(in, s1) /\ Backed(s1)
  BY <1>1, <1>2
<1>. HIDE DEF s1
<1>4. AddsUp(in, s2) /\ Backed(s2)
  BY <1>1, <1>2, <1>3
<1>. HIDE DEF s2
<1>5. AddsUp(in, s3) /\ Backed(s3)
  BY <1>1, <1>2, <1>4
<1>. HIDE DEF s3
<1>6. AddsUp(in, s4) /\ Backed(s4)
  BY <1>1, <1>2, <1>5
<1>. HIDE DEF s4
<1>7. Backed(Sweep(in, s4, 5))
  BY <1>1, <1>2, <1>6
<1>. QED BY <1>7 DEF SweepAll, s1, s2, s3, s4

(* The two roundings of step 3 give at most one lot too many, and only when *)
(* both were rounded up, from at least half a lot.                          *)
LEMMA RoundOfNat ==
  ASSUME NEW a \in Int, NEW b \in Int, b > 0, a >= 0
  PROVE  Round(a, b) >= 0
<1>. DEFINE r == Round(a, b)
            P == b * r
<1>1. r \in Int /\ 2 * a + b < 2 * P + 2 * b
  BY RoundBounds
<1>. HIDE DEF r
<1>2. P \in Int
  BY <1>1
<1>3. r < 0 => P <= -b
  <2>1. r < 0 => r + 1 <= 0
    BY <1>1
  <2>2. r + 1 <= 0 => b * (r + 1) <= 0
    BY <1>1
  <2>3. b * (r + 1) = P + b
    BY <1>1
  <2>. QED BY <1>2, <2>1, <2>2, <2>3
<1>. HIDE DEF P
<1>4. ~(r < 0)
  BY <1>1, <1>2, <1>3
<1>. QED BY <1>1, <1>4 DEF r

LEMMA RoundingOff ==
  ASSUME NEW ask \in Int, NEW bid \in Int, ask > bid, NEW vol \in Int, NEW amount \in Int
  PROVE  /\ (Round(amount - bid * vol, ask - bid) + Round(ask * vol - amount, ask - bid)) - vol
              \in {0, 1}
         /\ (Round(amount - bid * vol, ask - bid) + Round(ask * vol - amount, ask - bid)) - vol = 1
              => /\ 2 * ((ask - bid) * Round(amount - bid * vol, ask - bid) - (amount - bid * vol))
                      = ask - bid
                 /\ 2 * ((ask - bid) * Round(ask * vol - amount, ask - bid) - (ask * vol - amount))
                      = ask - bid
<1>. DEFINE S == ask - bid
            atAsk == ask * vol - amount
            atBid == amount - bid * vol
            a == Round(atBid, S)
            b == Round(atAsk, S)
            k == (a + b) - vol
<1>1. S \in Int /\ S > 0 /\ atAsk \in Int /\ atBid \in Int
  OBVIOUS
<1>2. a \in Int /\ b \in Int
  BY <1>1, RoundBounds
<1>3. /\ 2 * (S * a) <= 2 * atBid + S /\ 2 * atBid + S < 2 * (S * a) + 2 * S
      /\ 2 * (S * b) <= 2 * atAsk + S /\ 2 * atAsk + S < 2 * (S * b) + 2 * S
  BY <1>1, RoundBounds
<1>. HIDE DEF a, b
<1>4. k \in Int
  BY <1>2
<1>5. (S * a - atBid) + (S * b - atAsk) = S * k
  <2>1. atBid + atAsk = S * vol
    OBVIOUS
  <2>. HIDE DEF S, atBid, atAsk
  <2>2. S * k = S * a + S * b - S * vol
    BY <1>1, <1>2
  <2>3. S * a \in Int /\ S * b \in Int /\ S * vol \in Int
    BY <1>1, <1>2
  <2>. QED BY <1>1, <2>1, <2>2, <2>3
<1>. DEFINE SA == S * a
            SB == S * b
            SK == S * k
<1>6. SA \in Int /\ SB \in Int /\ SK \in Int
  BY <1>1, <1>2, <1>4
<1>7. SK <= S /\ SK > -S => k \in {0, 1}
  <2>. HIDE DEF S, k
  <2>. QED BY <1>1, <1>4, AtMostOneFactor
<1>8. k = 1 => SK = S
  <2>. HIDE DEF S, k
  <2>. QED BY <1>1
<1>. HIDE DEF S, atAsk, atBid, k, SA, SB, SK
<1>9. /\ 2 * SA <= 2 * atBid + S /\ 2 * atBid + S < 2 * SA + 2 * S
      /\ 2 * SB <= 2 * atAsk + S /\ 2 * atAsk + S < 2 * SB + 2 * S
      /\ (SA - atBid) + (SB - atAsk) = SK
  BY <1>3, <1>5 DEF SA, SB, SK
<1>10. SK <= S /\ SK > -S
  BY <1>1, <1>6, <1>9
<1>11. SK = S => 2 * (SA - atBid) = S /\ 2 * (SB - atAsk) = S
  BY <1>1, <1>6, <1>9
<1>12. k \in {0, 1} /\ (k = 1 => 2 * (SA - atBid) = S /\ 2 * (SB - atAsk) = S)
  BY <1>7, <1>8, <1>10, <1>11
<1>. QED BY <1>12 DEF k, a, b, S, SA, SB, atAsk, atBid

LEMMA NearLotsSize ==
  ASSUME NEW in \in Inputs, NEW s \in Results, s.left_vol >= 0
  PROVE  /\ NearLots(in, s).bid >= 0 /\ NearLots(in, s).ask >= 0
         /\ (s.left_vol - NearLots(in, s).ask) - NearLots(in, s).bid \in {0, -1}
         /\ (s.left_vol - NearLots(in, s).ask) - NearLots(in, s).bid = -1
              => NearLots(in, s).bid >= 1 /\ NearLots(in, s).ask >= 1
<1>. DEFINE ask == in.best["ask"]
            bid == in.best["bid"]
            vol == s.left_vol
            amount == s.left_amount
            lots == NearLots(in, s)
            S == ask - bid
            atAsk == ask * vol - amount
            atBid == amount - bid * vol
            a == Round(atBid, S)
            b == Round(atAsk, S)
<1>1. /\ ask \in Int /\ bid \in Int /\ ask > bid /\ vol \in Int /\ amount \in Int /\ vol >= 0
  BY DEF Inputs, SideLots, Sides, Results
<1>2. lots = IF vol <= 0 THEN [bid |-> 0, ask |-> 0]
             ELSE IF atAsk < 0 THEN [bid |-> 0, ask |-> vol]
             ELSE IF atBid < 0 THEN [bid |-> vol, ask |-> 0]
             ELSE [bid |-> b, ask |-> a]
  BY DEF NearLots, Spread
<1>. HIDE DEF ask, bid, vol, amount, lots
<1>3. S \in Int /\ S > 0 /\ atAsk \in Int /\ atBid \in Int
  BY <1>1
<1>4. /\ (a + b) - vol \in {0, 1}
      /\ (a + b) - vol = 1 => 2 * (S * a - atBid) = S /\ 2 * (S * b - atAsk) = S
  BY <1>1, RoundingOff
<1>5. a \in Int /\ b \in Int
  BY <1>3, RoundBounds
<1>6. (atAsk >= 0 => b >= 0) /\ (atBid >= 0 => a >= 0)
  BY <1>3, RoundOfNat
<1>. HIDE DEF S, atAsk, atBid, a, b
<1>7. S * 0 = 0
  BY <1>3
<1>8. CASE vol > 0 /\ ~(atAsk < 0) /\ ~(atBid < 0)
  <2>1. lots.bid = b /\ lots.ask = a /\ a >= 0 /\ b >= 0
    BY <1>1, <1>2, <1>3, <1>6, <1>8
  <2>2. (a + b) - vol = 1 => a # 0 /\ b # 0
    <3>1. ASSUME (a + b) - vol = 1, a = 0 PROVE FALSE
      <4>1. S * a = 0
        BY <1>7, <3>1
      <4>2. 2 * (0 - atBid) = S
        BY <1>4, <3>1, <4>1
      <4>. QED BY <1>3, <1>8, <4>2
    <3>2. ASSUME (a + b) - vol = 1, b = 0 PROVE FALSE
      <4>1. S * b = 0
        BY <1>7, <3>2
      <4>2. 2 * (0 - atAsk) = S
        BY <1>4, <3>2, <4>1
      <4>. QED BY <1>3, <1>8, <4>2
    <3>. QED BY <3>1, <3>2
  <2>3. (vol - a) - b \in {0, -1} /\ ((vol - a) - b = -1 => (a + b) - vol = 1)
    BY <1>1, <1>4, <1>5
  <2>4. (vol - a) - b = -1 => a >= 1 /\ b >= 1
    BY <1>5, <2>1, <2>2, <2>3
  <2>. QED BY <2>1, <2>3, <2>4 DEF lots, vol
<1>9. CASE vol <= 0 \/ atAsk < 0 \/ atBid < 0
  <2>1. /\ lots.bid \in {0, vol} /\ lots.ask \in {0, vol}
        /\ (vol - lots.ask) - lots.bid = 0
    BY <1>1, <1>2, <1>9
  <2>2. /\ lots.bid >= 0 /\ lots.ask >= 0 /\ (vol - lots.ask) - lots.bid = 0
    BY <1>1, <2>1
  <2>. QED BY <2>2 DEF lots, vol
<1>. QED BY <1>1, <1>3, <1>8, <1>9

(* What step 4 needs: a lot may be taken back from either side. *)
OddLot(s) ==
  /\ s.left_vol \in {0, -1}
  /\ s.left_vol = -1 => s.near["bid"] >= 1 /\ s.near["ask"] >= 1

LEMMA DivideRestBacked ==
  ASSUME NEW in \in Inputs, NEW s, AddsUp(in, s), Backed(s), s.left_vol >= 0
  PROVE  Backed(DivideRest(in, s)) /\ OddLot(DivideRest(in, s))
<1>. DEFINE lots == NearLots(in, s)
            t == Book(s, "ask", lots.ask, in.best["ask"])
            u == Book(t, "bid", lots.bid, in.best["bid"])
            d == DivideRest(in, s)
<1>1. s \in Results /\ "bid" \in Sides /\ "ask" \in Sides
  BY DEF AddsUp, Sides
<1>2. /\ lots \in [bid : Int, ask : Int] /\ lots.bid >= 0 /\ lots.ask >= 0
      /\ (s.left_vol - lots.ask) - lots.bid \in {0, -1}
      /\ (s.left_vol - lots.ask) - lots.bid = -1 => lots.bid >= 1 /\ lots.ask >= 1
  BY <1>1, NearLotsType, NearLotsSize
<1>3. in.best["ask"] \in Int /\ in.best["bid"] \in Int
  BY <1>1 DEF Inputs, SideLots
<1>4. d.left_vol = (s.left_vol - lots.ask) - lots.bid /\ d.near = lots /\ d.take = s.take
  BY DivideRestEffect
<1>. HIDE DEF lots
<1>5. t \in Results /\ t.vol = [s.vol EXCEPT !["ask"] = @ + lots.ask]
  BY <1>1, <1>2, <1>3, BookLots, BookAddsUp DEF AddsUp
<1>6. u.vol = [t.vol EXCEPT !["bid"] = @ + lots.bid]
  <2>. HIDE DEF t
  <2>. DEFINE n == lots.bid
              price == in.best["bid"]
  <2>1. n \in Int /\ price \in Int
    BY <1>2, <1>3
  <2>. HIDE DEF n, price
  <2>2. Book(t, "bid", n, price).vol = [t.vol EXCEPT !["bid"] = @ + n]
    BY <1>1, <1>5, <2>1, BookLots
  <2>. QED BY <2>2 DEF n, price
<1>7. d.vol = u.vol
  <2>1. u \in Results
    BY <1>1, <1>2, <1>3, BookAddsUp DEF AddsUp
  <2>. QED BY <2>1 DEF DivideRest, lots, Results
<1>8. s.vol \in [Sides -> Int] /\ s.near \in [Sides -> Int] /\ s.take \in [Sides -> [Levels -> Int]]
  BY <1>1 DEF Results, SideLots
<1>9. d.vol["bid"] = s.vol["bid"] + lots.bid /\ d.vol["ask"] = s.vol["ask"] + lots.ask
  BY <1>1, <1>5, <1>6, <1>7, <1>8 DEF Sides
<1>. HIDE DEF t, u, d
<1>10. ASSUME NEW side \in Sides
       PROVE  /\ d.near[side] >= 0 /\ d.vol[side] >= d.near[side]
              /\ \A j \in Levels : d.take[side][j] >= 0 /\ d.vol[side] >= d.near[side] + d.take[side][j]
  <2>1. /\ s.near[side] >= 0 /\ s.vol[side] >= s.near[side] /\ s.vol[side] \in Int /\ s.near[side] \in Int
        /\ \A j \in Levels : /\ s.take[side][j] >= 0 /\ s.vol[side] >= s.near[side] + s.take[side][j]
                             /\ s.take[side][j] \in Int
    BY <1>8 DEF Backed
  <2>2. d.near[side] \in Int /\ d.near[side] >= 0 /\ d.vol[side] = s.vol[side] + d.near[side]
    <3>1. CASE side = "bid"
      BY <1>2, <1>4, <1>9, <3>1
    <3>2. CASE side = "ask"
      BY <1>2, <1>4, <1>9, <3>2
    <3>. QED BY <3>1, <3>2 DEF Sides
  <2>3. d.take[side] = s.take[side]
    BY <1>4
  <2>. QED BY <2>1, <2>2, <2>3
<1>11. OddLot(d)
  BY <1>2, <1>4 DEF OddLot
<1>. QED BY <1>10, <1>11 DEF Backed, d

LEMMA PlaceOddLotBacked ==
  ASSUME NEW in \in Inputs, NEW s, AddsUp(in, s), Backed(s), OddLot(s)
  PROVE  Backed(PlaceOddLot(in, s))
<1>. DEFINE side == IF NearAsk(in, s) THEN "ask" ELSE "bid"
            t == Book(s, side, s.left_vol, in.best[side])
            p == PlaceOddLot(in, s)
<1>1. s \in Results /\ side \in Sides
  BY DEF AddsUp, Sides
<1>2. side = "bid" \/ side = "ask"
  OBVIOUS
<1>. HIDE DEF side
<1>3. s.left_vol \in Int /\ in.best[side] \in Int
  BY <1>1 DEF Results, Inputs, SideLots
<1>4. /\ t \in Results /\ t.vol = [s.vol EXCEPT ![side] = @ + s.left_vol]
      /\ t.near = s.near /\ t.take = s.take
  <2>1. AddsUp(in, t)
    BY <1>1, <1>3, BookAddsUp
  <2>2. t \in Results
    BY <2>1 DEF AddsUp
  <2>. DEFINE n == s.left_vol
              price == in.best[side]
  <2>3. n \in Int /\ price \in Int
    BY <1>3
  <2>. HIDE DEF n, price
  <2>4. Book(s, side, n, price).vol = [s.vol EXCEPT ![side] = @ + n]
    BY <1>1, <2>3, BookLots
  <2>5. Book(s, side, n, price).near = s.near /\ Book(s, side, n, price).take = s.take
    BY <1>1, BookKeeps
  <2>. QED BY <2>2, <2>4, <2>5 DEF n, price
<1>5. p = [t EXCEPT !.near[side] = @ + s.left_vol]
  BY DEF PlaceOddLot, side
<1>. HIDE DEF t
<1>6. /\ p.vol = [s.vol EXCEPT ![side] = @ + s.left_vol]
      /\ p.near = [s.near EXCEPT ![side] = @ + s.left_vol] /\ p.take = s.take
  BY <1>4, <1>5 DEF Results
<1>7. s.vol \in [Sides -> Int] /\ s.near \in [Sides -> Int] /\ s.take \in [Sides -> [Levels -> Int]]
  BY <1>1 DEF Results, SideLots
<1>. HIDE DEF p
<1>8. ASSUME NEW r \in Sides
      PROVE  /\ p.near[r] >= 0 /\ p.vol[r] >= p.near[r]
             /\ \A j \in Levels : p.take[r][j] >= 0 /\ p.vol[r] >= p.near[r] + p.take[r][j]
  <2>1. /\ s.near[r] >= 0 /\ s.vol[r] >= s.near[r] /\ s.vol[r] \in Int /\ s.near[r] \in Int
        /\ \A j \in Levels : /\ s.take[r][j] >= 0 /\ s.vol[r] >= s.near[r] + s.take[r][j]
                             /\ s.take[r][j] \in Int
    BY <1>7 DEF Backed
  <2>2. p.take[r] = s.take[r]
    BY <1>6
  <2>3. CASE r = side
    <3>1. p.near[r] = s.near[r] + s.left_vol /\ p.vol[r] = s.vol[r] + s.left_vol
      BY <1>6, <1>7, <2>3
    <3>2. s.left_vol = 0 \/ (s.left_vol = -1 /\ s.near[r] >= 1)
      BY <1>2, <2>3 DEF OddLot
    <3>. QED BY <2>1, <2>2, <3>1, <3>2
  <2>4. CASE r # side
    <3>1. p.near[r] = s.near[r] /\ p.vol[r] = s.vol[r]
      BY <1>6, <1>7, <2>4
    <3>. QED BY <2>1, <2>2, <3>1
  <2>. QED BY <2>3, <2>4
<1>. QED BY <1>8 DEF Backed, p

LEMMA HoldsLots ==
  ASSUME NEW s \in Results, Backed(s), NEW side \in Sides
  PROVE  s.vol[side] >= 0
<1>1. s.vol[side] \in Int /\ s.near[side] \in Int
  BY DEF Results, SideLots
<1>2. s.near[side] >= 0 /\ s.vol[side] >= s.near[side]
  BY DEF Backed
<1>. QED BY <1>1, <1>2

LEMMA MoveNotNegative ==
  ASSUME NEW in \in Inputs, NEW s, AddsUp(in, s), Backed(s), NEW side \in Sides, NEW price \in Int,
         s.vol[side] >= 1
  PROVE  \A r \in Sides : Move(in, s, side, price).vol[r] >= 0
<1>. DEFINE new == price + s.left_amount
            to == SideOf(in, new)
            t == Book(s, side, -1, price)
            u == Book(t, to, 1, new)
<1>1. s \in Results /\ new \in Int /\ to \in Sides
  BY SideOfType DEF AddsUp, Results
<1>2. t \in Results /\ t.vol = [s.vol EXCEPT ![side] = @ + (-1)]
  BY <1>1, BookLots, BookAddsUp DEF AddsUp
<1>. HIDE DEF t, to, new
<1>3. u.vol = [t.vol EXCEPT ![to] = @ + 1]
  <2>1. 1 \in Int
    OBVIOUS
  <2>. QED BY <1>1, <1>2, <2>1, BookLots
<1>. HIDE DEF u
<1>4. s.vol \in [Sides -> Int] /\ \A r \in Sides : s.vol[r] >= 0
  <2>1. s.vol \in [Sides -> Int]
    BY <1>1 DEF Results, SideLots
  <2>. QED BY <1>1, <2>1, HoldsLots
<1>5. ASSUME NEW r \in Sides PROVE t.vol[r] \in Int /\ t.vol[r] >= 0
  <2>1. s.vol[r] \in Int /\ s.vol[r] >= 0
    BY <1>4
  <2>2. CASE r = side
    <3>1. t.vol[r] = s.vol[r] + (-1)
      BY <1>2, <1>4, <2>2
    <3>. QED BY <2>1, <2>2, <3>1
  <2>3. CASE r # side
    <3>1. t.vol[r] = s.vol[r]
      BY <1>2, <1>4, <2>3
    <3>. QED BY <2>1, <3>1
  <2>. QED BY <2>2, <2>3
<1>6. t.vol \in [Sides -> Int]
  BY <1>2 DEF Results, SideLots
<1>7. ASSUME NEW r \in Sides PROVE u.vol[r] >= 0
  <2>1. t.vol[r] \in Int /\ t.vol[r] >= 0
    BY <1>5
  <2>2. u.vol[r] = IF r = to THEN t.vol[r] + 1 ELSE t.vol[r]
    BY <1>1, <1>3, <1>6
  <2>. QED BY <2>1, <2>2
<1>. QED BY <1>7 DEF Move, u, t, to, new

LEMMA PlaceAmountNotNegative ==
  ASSUME NEW in \in Inputs, NEW s, AddsUp(in, s), Backed(s)
  PROVE  \A r \in Sides : PlaceAmount(in, s).vol[r] >= 0
<1>1. s \in Results /\ "bid" \in Sides /\ "ask" \in Sides /\ \A side \in Sides : in.best[side] \in Int
  BY DEF AddsUp, Sides, Inputs, SideLots
<1>2. /\ s.vol \in [Sides -> Int] /\ s.near \in [Sides -> Int] /\ s.take \in [Sides -> [Levels -> Int]]
  BY <1>1 DEF Results, SideLots
<1>3. ASSUME NEW side \in Sides, s.near[side] > 0
      PROVE  \A r \in Sides : Move(in, s, side, in.best[side]).vol[r] >= 0
  <2>1. s.vol[side] >= 1
    BY <1>2, <1>3 DEF Backed
  <2>. QED BY <1>1, <2>1, MoveNotNegative
<1>4. ASSUME NEW side \in Sides, \E i \in Levels : s.take[side][i] > 0
      PROVE  \A r \in Sides : MoveSwept(in, s, side).vol[r] >= 0
  <2>1. FirstTaken(s, side) \in Levels
    BY <1>1, <1>4, FirstTakenType
  <2>2. PICK i \in Levels : s.take[side][i] > 0
    BY <1>4
  <2>3. s.vol[side] >= 1
    <3>1. s.near[side] >= 0 /\ s.vol[side] >= s.near[side] + s.take[side][i]
      BY DEF Backed
    <3>2. s.take[side][i] \in Int /\ s.vol[side] \in Int /\ s.near[side] \in Int
      BY <1>2
    <3>. QED BY <2>2, <3>1, <3>2
  <2>4. in.price_pr[side][FirstTaken(s, side)] \in Int
    BY <2>1 DEF Inputs
  <2>. QED BY <2>3, <2>4, MoveNotNegative DEF MoveSwept
<1>5. \A r \in Sides : s.vol[r] >= 0
  BY <1>1, HoldsLots
<1>. QED BY <1>1, <1>3, <1>4, <1>5 DEF PlaceAmount

(* However a trade is divided, no side is given less than no lots.          *)
THEOREM NoSideBelowZero ==
  ASSUME NEW in \in Inputs, LotsInLevels(in)
  PROVE  \A side \in Sides : guess_trade_price(in).vol[side] >= 0
<1>. DEFINE first   == LastPriceLot(in)
            swept   == SweepAll(in, first)
            divided == DivideRest(in, swept)
            placed  == PlaceOddLot(in, divided)
            Good(s) == \A side \in Sides : s.vol[side] >= 0
<1>1. AddsUp(in, first) /\ AddsUp(in, swept) /\ Backed(first) /\ Backed(swept)
  BY LastPriceAddsUp, SweepAllAddsUp, LastPriceBacked, SweepAllBacked
<1>2. in.trade_vol > 0 => swept.left_vol >= 0
  <2>1. first.left_vol = in.trade_vol - 1
    <3>1. \A side : Book(Start(in), side, 1, in.lastprice).left_vol = in.trade_vol - 1
      BY DEF Book, Start
    <3>. QED BY <3>1 DEF LastPriceLot
  <2>2. in.trade_vol \in Int
    BY DEF Inputs
  <2>. HIDE DEF first
  <2>3. CASE first.left_vol = 0
    <3>1. swept.left_vol = 0
      BY <1>1, <2>3, SweepNothing
    <3>. QED BY <3>1
  <2>4. CASE first.left_vol > 0
    BY <1>1, <2>4, SweepAllKeeps DEF Sweeping
  <2>. QED BY <2>1, <2>2, <2>3, <2>4
<1>3. guess_trade_price(in) = IF in.trade_vol <= 0 THEN Start(in)
                              ELSE IF swept.left_amount = 0 THEN swept
                              ELSE IF divided.left_amount = 0 THEN divided
                              ELSE IF placed.left_amount = 0 THEN placed
                              ELSE PlaceAmount(in, placed)
  BY DEF guess_trade_price
<1>. HIDE DEF first, swept
<1>4. in.trade_vol > 0 => AddsUp(in, divided) /\ Backed(divided) /\ OddLot(divided)
  BY <1>1, <1>2, DivideRestAddsUp, DivideRestBacked
<1>. HIDE DEF divided
<1>5. in.trade_vol > 0 => AddsUp(in, placed) /\ Backed(placed)
  BY <1>4, PlaceOddLotAddsUp, PlaceOddLotBacked
<1>. HIDE DEF placed
<1>6. in.trade_vol > 0 => Good(PlaceAmount(in, placed))
  BY <1>5, PlaceAmountNotNegative
<1>7. ASSUME NEW s, AddsUp(in, s), Backed(s)
      PROVE  Good(s)
  <2>1. s \in Results
    BY <1>7 DEF AddsUp
  <2>. QED BY <1>7, <2>1, HoldsLots
<1>8. Good(Start(in))
  BY DEF Start
<1>9. in.trade_vol \in Int
  BY DEF Inputs
<1>10. in.trade_vol > 0 => Good(swept) /\ Good(divided) /\ Good(placed)
  BY <1>1, <1>4, <1>5, <1>7
<1>. HIDE DEF Good
<1>11. Good(guess_trade_price(in))
  BY <1>3, <1>6, <1>8, <1>9, <1>10
<1>. QED BY <1>11 DEF Good

----------------------------------------------------------------------------
(* That the levels swept in step 2 do not come to the whole amount while    *)
(* lots are left: with close prices, all lots but one cost less than what   *)
(* all of them were traded for at least.                                    *)

(* Of L lots and their amount, those taken so far have cost little: B bounds *)
(* L - 1 times the price of a level.                                        *)
Cheap(L, amount, B, s) ==
  /\ s.left_vol \in 0..L
  /\ s.left_vol = L => s.left_amount = amount
  /\ (L - 1) * (amount - s.left_amount) <= B * (L - s.left_vol)

LEMMA CostOfLots ==
  ASSUME NEW n \in Nat, NEW p \in Int, NEW B \in Int, NEW l \in Int, l * p <= B
  PROVE  l * (n * p) <= B * n
<1>. DEFINE q == l * p
<1>1. q \in Int /\ q <= B /\ l * (n * p) = q * n
  OBVIOUS
<1>. HIDE DEF q
<1>2. (B - q) * n >= 0 /\ (B - q) * n = B * n - q * n
  BY <1>1
<1>3. B * n \in Int /\ q * n \in Int
  BY <1>1
<1>. DEFINE Bn == B * n
            qn == q * n
<1>. HIDE DEF Bn, qn
<1>4. Bn \in Int /\ qn \in Int /\ Bn - qn >= 0
  BY <1>2, <1>3 DEF Bn, qn
<1>5. qn <= Bn
  BY <1>4
<1>. QED BY <1>1, <1>5 DEF Bn, qn

LEMMA TakeLevelCheap ==
  ASSUME NEW in \in Inputs, LotsInLevels(in), NEW s, AddsUp(in, s),
         NEW side \in Sides, NEW i \in Levels,
         NEW L \in Nat, NEW amount \in Int, NEW B \in Int,
         (L - 1) * in.price_pr[side][i] <= B, Cheap(L, amount, B, s)
  PROVE  Cheap(L, amount, B, TakeLevel(in, s, side, i))
<1>. DEFINE n == Taken(in, s, side, i)
            p == in.price_pr[side][i]
            t == TakeLevel(in, s, side, i)
            l == L - 1
            v == s.left_vol
            w == amount - s.left_amount
<1>1. s \in Results /\ p \in Int /\ s.left_vol \in Int /\ s.left_amount \in Int
  BY DEF AddsUp, Inputs, Results
<1>2. n \in Nat /\ n <= v
  <2>1. v >= 0
    BY DEF Cheap
  <2>. QED BY <1>1, <2>1, TakenBounds
<1>3. t.left_vol = v - n /\ t.left_amount = s.left_amount - n * p
  BY <1>1, <1>2 DEF TakeLevel, Book, Results
<1>4. l * (n * p) <= B * n
  <2>1. l \in Int /\ l * p <= B
    OBVIOUS
  <2>. HIDE DEF l, n, p
  <2>. QED BY <1>1, <1>2, <2>1, CostOfLots
<1>. HIDE DEF n, p, t
<1>5. v \in Int /\ w \in Int /\ l \in Int /\ l * w <= B * (L - v) /\ n * p \in Int
  BY <1>1, <1>2 DEF Cheap
<1>6. amount - t.left_amount = w + n * p
  BY <1>1, <1>3, <1>5
<1>7. l * (w + n * p) <= B * (L - (v - n))
  <2>. DEFINE c == n * p
  <2>. HIDE DEF c, w, l, v
  <2>1. c \in Int /\ l * c <= B * n
    BY <1>4, <1>5 DEF c
  <2>2. l * (w + c) = l * w + l * c
    BY <1>5, <2>1
  <2>3. B * (L - (v - n)) = B * (L - v) + B * n
    BY <1>2, <1>5
  <2>. DEFINE lw == l * w
              lc == l * c
              Bv == B * (L - v)
              Bn == B * n
  <2>4. lw \in Int /\ lc \in Int /\ Bv \in Int /\ Bn \in Int
    BY <1>2, <1>5, <2>1
  <2>5. lw <= Bv /\ lc <= Bn
    BY <1>5, <2>1
  <2>. HIDE DEF lw, lc, Bv, Bn
  <2>6. lw + lc <= Bv + Bn
    BY <2>4, <2>5
  <2>. QED BY <2>2, <2>3, <2>6 DEF lw, lc, Bv, Bn, c
<1>8. v - n \in 0..L
  BY <1>2, <1>5 DEF Cheap
<1>9. v - n = L => t.left_amount = amount
  <2>1. v - n = L => n = 0 /\ v = L
    BY <1>2, <1>5 DEF Cheap
  <2>2. v = L => s.left_amount = amount
    BY DEF Cheap
  <2>3. n = 0 => n * p = 0
    BY <1>1
  <2>. QED BY <1>1, <1>3, <2>1, <2>2, <2>3
<1>10. Cheap(L, amount, B, t)
  BY <1>3, <1>6, <1>7, <1>8, <1>9 DEF Cheap
<1>. QED BY <1>10 DEF t

LEMMA SweepAllCheap ==
  ASSUME NEW in \in Inputs, LotsInLevels(in), NEW s, AddsUp(in, s),
         NEW L \in Nat, NEW amount \in Int, NEW B \in Int,
         \A side \in Sides : \A i \in Levels : (L - 1) * in.price_pr[side][i] <= B,
         Cheap(L, amount, B, s)
  PROVE  Cheap(L, amount, B, SweepAll(in, s))
<1>. DEFINE Good(t) == AddsUp(in, t) /\ Cheap(L, amount, B, t)
<1>1. ASSUME NEW t, Good(t), NEW i \in Levels
      PROVE  Good(Sweep(in, t, i))
  <2>1. "bid" \in Sides /\ "ask" \in Sides
    BY DEF Sides
  <2>. DEFINE u == TakeLevel(in, t, "bid", i)
  <2>2. Good(u)
    BY <1>1, <2>1, TakeLevelAddsUp, TakeLevelCheap
  <2>. HIDE DEF u
  <2>3. Good(TakeLevel(in, u, "ask", i))
    BY <2>1, <2>2, TakeLevelAddsUp, TakeLevelCheap
  <2>. QED BY <2>3 DEF Sweep, u
<1>2. 1 \in Levels /\ 2 \in Levels /\ 3 \in Levels /\ 4 \in Levels /\ 5 \in Levels
  BY DEF Levels
<1>. DEFINE s1 == Sweep(in, s, 1)
            s2 == Sweep(in, s1, 2)
            s3 == Sweep(in, s2, 3)
            s4 == Sweep(in, s3, 4)
<1>0. Good(s)
  OBVIOUS
<1>. HIDE DEF Good
<1>3. Good(s1)
  BY <1>0, <1>1, <1>2
<1>. HIDE DEF s1
<1>4. Good(s2)
  BY <1>1, <1>2, <1>3
<1>. HIDE DEF s2
<1>5. Good(s3)
  BY <1>1, <1>2, <1>4
<1>. HIDE DEF s3
<1>6. Good(s4)
  BY <1>1, <1>2, <1>5
<1>. HIDE DEF s4
<1>7. Good(Sweep(in, s4, 5))
  BY <1>1, <1>2, <1>6
<1>8. Cheap(L, amount, B, Sweep(in, s4, 5))
  BY <1>7 DEF Good
<1>. QED BY <1>8 DEF SweepAll, s1, s2, s3, s4

(* A price so low that L lots cost at least that much each, and so near to  *)
(* the prices of the levels that L - 1 lots of a level cost less than those. *)
Near(in, low, L) ==
  /\ low > 0 /\ in.amount - in.lastprice >= L * low
  /\ \A side \in Sides : \A i \in Levels : (L - 1) * in.price_pr[side][i] < L * low

LEMMA AmountLastsAsLong ==
  ASSUME NEW in \in Inputs, LotsInLevels(in), in.trade_vol >= 2,
         NEW low \in Int, Near(in, low, in.trade_vol - 1)
  PROVE  \/ SweepAll(in, LastPriceLot(in)).left_amount # 0
         \/ SweepAll(in, LastPriceLot(in)).left_vol = 0
<1>. DEFINE first  == LastPriceLot(in)
            swept  == SweepAll(in, first)
            L      == in.trade_vol - 1
            amount == in.amount - in.lastprice
            B      == L * low - 1
<1>1. /\ in.trade_vol \in Int /\ in.amount \in Int /\ in.lastprice \in Int
      /\ L \in Nat /\ L >= 1 /\ amount \in Int
  BY DEF Inputs
<1>2. AddsUp(in, first) /\ AddsUp(in, swept)
  BY LastPriceAddsUp, SweepAllAddsUp
<1>3. first.left_vol = L /\ first.left_amount = amount
  <2>1. \A side : /\ Book(Start(in), side, 1, in.lastprice).left_vol = in.trade_vol - 1
                  /\ Book(Start(in), side, 1, in.lastprice).left_amount
                       = in.amount - 1 * in.lastprice
    BY DEF Book, Start
  <2>2. first.left_vol = in.trade_vol - 1 /\ first.left_amount = in.amount - 1 * in.lastprice
    BY <2>1 DEF LastPriceLot
  <2>. QED BY <1>1, <2>2
<1>4. amount >= L * low /\ low > 0 /\ L * low \in Int
  BY <1>1 DEF Near
<1>5. \A side \in Sides : \A i \in Levels : (L - 1) * in.price_pr[side][i] < L * low
  BY DEF Near
<1>6. ASSUME NEW side \in Sides, NEW i \in Levels
      PROVE  (L - 1) * in.price_pr[side][i] <= B
  <2>. DEFINE x == (L - 1) * in.price_pr[side][i]
              y == L * low
  <2>1. in.price_pr[side][i] \in Int
    BY DEF Inputs
  <2>. HIDE DEF L
  <2>2. x \in Int /\ y \in Int /\ x < y
    BY <1>1, <1>4, <1>5, <2>1
  <2>. HIDE DEF x, y
  <2>3. x <= y - 1
    BY <2>2
  <2>. QED BY <2>3 DEF x, y
<1>. HIDE DEF first, L, amount
<1>7. Cheap(L, amount, B, first)
  <2>1. (L - 1) * (amount - amount) = 0 /\ B * (L - L) = 0
    BY <1>1, <1>4
  <2>. QED BY <1>1, <1>3, <2>1 DEF Cheap
<1>8. Cheap(L, amount, B, swept)
  <2>1. B \in Int
    BY <1>1, <1>4
  <2>. HIDE DEF B
  <2>. QED BY <1>1, <1>2, <1>6, <1>7, <2>1, SweepAllCheap
<1>. HIDE DEF swept
<1>9. swept.left_vol \in Int /\ swept.left_amount \in Int
  BY <1>2 DEF AddsUp, Results
<1>10. ASSUME swept.left_amount = 0, swept.left_vol # 0
       PROVE  FALSE
  <2>1. swept.left_vol \in 1..L
    BY <1>1, <1>8, <1>10 DEF Cheap
  <2>2. (L - 1) * amount <= B * (L - swept.left_vol)
    BY <1>1, <1>8, <1>10 DEF Cheap
  <2>3. L * low > 0
    BY <1>1, <1>4
  <2>4. CASE swept.left_vol = L
    <3>1. amount = 0
      BY <1>8, <1>10, <2>4 DEF Cheap
    <3>. QED BY <1>4, <2>3, <3>1
  <2>5. CASE swept.left_vol # L
    <3>. DEFINE l == L - 1
                m == L - swept.left_vol
    <3>1. l \in Int /\ m \in Int /\ m <= l /\ l >= 1 /\ m >= 1
      BY <1>1, <1>9, <2>1, <2>5
    <3>2. l * amount <= B * m
      BY <2>2
    <3>3. B \in Int /\ B >= 0 /\ B < amount
      BY <1>1, <1>4, <2>3
    <3>. HIDE DEF B, l, m
    <3>4. B * m <= B * l
      <4>1. B * (l - m) >= 0 /\ B * (l - m) = B * l - B * m /\ B * l \in Int /\ B * m \in Int
        BY <3>1, <3>3
      <4>. DEFINE x == B * l
                  y == B * m
      <4>2. x \in Int /\ y \in Int /\ x - y >= 0
        BY <4>1
      <4>. HIDE DEF x, y
      <4>3. y <= x
        BY <4>2
      <4>. QED BY <4>3 DEF x, y
    <3>5. B * l < l * amount
      <4>1. l * (amount - B) > 0 /\ l * (amount - B) = l * amount - B * l
            /\ l * amount \in Int /\ B * l \in Int
        BY <1>1, <3>1, <3>3
      <4>. DEFINE x == l * amount
                  y == B * l
      <4>2. x \in Int /\ y \in Int /\ x - y > 0
        BY <4>1
      <4>. HIDE DEF x, y
      <4>3. y < x
        BY <4>2
      <4>. QED BY <4>3 DEF x, y
    <3>6. B * m \in Int /\ B * l \in Int /\ l * amount \in Int
      BY <1>1, <3>1, <3>3
    <3>. DEFINE x == B * m
                y == B * l
                z == l * amount
    <3>7. x \in Int /\ y \in Int /\ z \in Int /\ x <= y /\ y < z /\ z <= x
      BY <3>2, <3>4, <3>5, <3>6
    <3>. HIDE DEF x, y, z
    <3>. QED BY <3>7
  <2>. QED BY <2>4, <2>5
<1>. QED BY <1>10 DEF swept, first

(* A trade of several lots is given to the two sides to the last lot and the *)
(* last bit of its amount, if its prices are close to each other.           *)
THEOREM CloseTradeIsDivided ==
  ASSUME NEW in \in Inputs, LotsInLevels(in), in.best["ask"] + in.best["bid"] # 0,
         \/ in.trade_vol = 1 /\ in.amount = in.lastprice
         \/ in.trade_vol >= 2 /\ \E low \in Int : Near(in, low, in.trade_vol - 1)
  PROVE  LET s == guess_trade_price(in)
         IN  /\ s.vol["bid"] + s.vol["ask"] = in.trade_vol
             /\ s.amount["bid"] + s.amount["ask"] = in.amount
<1>. DEFINE s     == guess_trade_price(in)
            swept == SweepAll(in, LastPriceLot(in))
<1>1. /\ s.amount["bid"] + s.amount["ask"] = in.amount
      /\ swept.left_amount # 0 \/ swept.left_vol = 0 => s.vol["bid"] + s.vol["ask"] = in.trade_vol
  BY TradeIsDivided
<1>2. swept.left_amount # 0 \/ swept.left_vol = 0
  <2>1. CASE in.trade_vol = 1
    <3>1. \A side : Book(Start(in), side, 1, in.lastprice).left_vol = in.trade_vol - 1
      BY DEF Book, Start
    <3>2. LastPriceLot(in).left_vol = 0
      BY <2>1, <3>1 DEF LastPriceLot
    <3>3. AddsUp(in, LastPriceLot(in))
      BY LastPriceAddsUp
    <3>. QED BY <3>2, <3>3, SweepNothing
  <2>2. CASE in.trade_vol >= 2 /\ \E low \in Int : Near(in, low, in.trade_vol - 1)
    BY <2>2, AmountLastsAsLong
  <2>. QED BY <2>1, <2>2
<1>. QED BY <1>1, <1>2
=============================================================================
