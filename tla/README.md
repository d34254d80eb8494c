# Verification of release_model

TLA+ modules, TLC configurations and TLAPS proofs for this repository, a futures trading strategy in C++
with a small library of containers and inter-process helpers. The repository has no tests. This text says
what the system consists of, what is modelled and how, what each run shows, what is proved and from which
assumptions, and what is still open.

    tlc -workers 2 -config MCStrapro.cfg MCStrapro      # any other run: see "Runs"
    tlapm StraproProofs.tla

## 1. Inventory

| component | source (under `src/`) | state | operations | hard behaviour | what makes it correct | here |
|---|---|---|---|---|---|---|
| IC1 strategy, orders | `src/IC1/StraPro.cc`, `.hpp` | `target_pos`, static `max_pos`, the position and orders behind `alpha` | `calc`, `NewBuyOrder`, `NewSellOrder`, `do_finalize` | fills between two reads of the position; cancels that race fills; `int`/`uint32_t` mixed; last rows of a day | one order at work, position within `max_pos` up to late fills, orders never stale | `Strapro` |
| order manager, framework | `include/alpha/*` (declarations only) | `single_order` records, net position | `insert`, `cancel_all`, `get_net_position`, loads | runs outside the strategy | its life cycle comment, `constant.h:95-101` | external actions of `Strapro` |
| `hft::List` | `include/hft/List.hpp`, `List-inc.h` | array, cursor, `m_cum_size` | `Append`, `begin`, `end`, `pre`, `ReSet`, copies, arithmetic | in-place compaction; reset keeps the cursor; copies keep an inner pointer | readers see the newest values, in order; combined lists pair values of one row | `SlidingList`, `ListOperators` |
| market data | `include/hft/MarketData.h` | some thirty lists, pointers into them, last volume | `AppendTick`, `ReSet` | lists that do not start, reset or compact together | windows read side by side are of the same rows | `MarketData` |
| factors, old and fast | `include/hft/FactorMan.h`, `FastFactorMan.h`, `fast_factors.hpp` | lists, running sums | `eval`, `ExPose`, `ReSet`, `guess_trade_price` | incremental sums, order of eval and update, forgotten resets | both implementations agree, ranks up to the tolerance; no traded lot or amount is lost | `FastIC1`, `GuessTradePrice`, `RankSearch` |
| FastIC1 strategy | `src/FastIC1/StraPro.cc` | as IC1, both sets of factors | `calc`, `doExPose` | `init_data` against `ExPose`, one caler updated twice per row | comparison stays silent | `FastIC1` |
| mapped queue `mp1c::queue` | `include/common/husky_queue.h` | two 16-bit cursors, flag and data per slot, in a file | `enqueue`, `dequeue` | many processes, wrap-around, deaths between two stores | each message once, in order | `Mp1cQueue` |
| thread pool | `include/common/simple_thread_pool.h` | queue, `stop`, mutex, condition variable | `enqueue`, worker loop, destructor | missed notifications, shutdown with tasks queued | drained and joined, nothing lost | `SimpleThreadPool` |
| mapped matrix | `include/common/husky_matrix.h` | cursors and cells in a file | `set`, `operator()`, `extend_x` | reader in another process, reopening resets cursors | rows below the cursor are written | not modelled: see 6 |
| semaphore notification | `include/common/sem_notify.h` | a POSIX semaphore in a file | `notify`, `wait`, both constructors | either side first, restarts | no lost wake-up | not modelled: see 6 |
| ring buffer, stack, fixed queue, rolling list | `include/common/` | cursors in a buffer | push, pop, clear | full, empty and cleared at the boundary | bounded sequence | not modelled: see 6 |
| rolling and sorting queues | `include/hft/queue/` | circular buffer, sorted copy | `SetValue`, `SortInsert`, `Quantile` | remove and insert in one pass | sorted copy is the buffer sorted | not modelled: see 6 |
| generated model, configuration, logging, text | `src/IC1/BDT_model.hpp`, `include/common/cfg.h`, ... | none that matters here | | | | not modelled: see 6 |

How they meet: the framework behind `alpha` delivers rows by moving the cursor of the matrices and calls
`calc()`. `calc()` cancels what is pending, appends the rows to the market data lists, evaluates the
factors over windows of these lists, scores them with the tree ensemble, and compares the score with two
thresholds; on a signal it reads the position, clamps a target and sends an objective with `insert()`. Fills
move the position behind its back. After the market closes the framework calls `do_finalize()`, which
reads the configuration again, resets the lists and warms them up. The queue, the pool, the semaphores
and the containers are library components beside the strategy: no source file of the strategy includes
them.

The hazards of each part, at their lines, are listed in `PROJECT.json` with the properties that cover
them, or the reason why none does. The vendored libraries (spdlog, simpleini, robin_hood) are left out.

## 2. Modules

| module | what it is |
|---|---|
| `Strapro` | order handling of the strategy with an order manager around it |
| `MCStrapro` | values for its constants |
| `StraproProofs` | its inductive invariant, and five theorems about its properties |
| `RecentValues` | abstract: a bounded memory of the newest values |
| `SlidingList`, `MCSlidingList` | `hft::List`, with a refinement mapping to `RecentValues` |
| `SlidingListProofs` | its inductive invariant, its properties, and the refinement |
| `ListOperators`, `MCListOperators` | the operators of `hft::List` and the series the factors build with them |
| `ListOperatorsProofs` | what lists made by the operators show at each age, and the six properties of the series |
| `MarketData`, `MCMarketData` | columns of market data, three instances of `SlidingList` side by side |
| `MarketDataProofs` | its inductive invariant and its four properties, on the lemmas of three instances of `SlidingListProofs` |
| `GuessTradePrice`, `GuessTradePriceProofs` | `guess_trade_price()` as operators, and the proofs that it divides all that was traded and leaves no side below zero |
| `RankSearch` | the rank of a value by sorting, by scanning and by bisection, with the tolerance of each comparison, as operators |
| `FastIC1`, `MCFastIC1` | the fast factors beside the reference factors, over days; composes the two above |
| `FastIC1Proofs` | both compute from the same rows, for all periods; how far ranks agree, and that trades are divided, for all books |
| `MessageChannel` | abstract: a channel that loses at most the oldest message at each death of a receiver |
| `Mp1cQueue`, `MCMp1cQueue` | the mapped queue, with a refinement mapping to `MessageChannel` |
| `Mp1cQueueProofs` | its inductive invariant, its safety properties, and the refinement |
| `SimpleThreadPool`, `MCSimpleThreadPool` | the thread pool |
| `SimpleThreadPoolProofs` | its inductive invariant and its safety properties |

### Strapro

`calc()` is cut at every read of the position: `CalcBegins` (line 217, `cancel_all`), `OnSignal` (343-347 or
362-364), `CheckTarget` (355, 372), `ComputeSize` (356, 373), `NewBuyOrder` or `NewSellOrder` (157-158, 133-139)
and `SendObjective` (159-165, 140-144). The order manager takes steps between any two of these. Order
life cycles follow the comment in `constant.h`: send, accept or reject, partial fills, cancel with fills
while it is under way, cancel success, or the cancel failing because the order has filled. Fills are one
lot at a time; a larger fill is several of them with nothing in between. The score is abstracted to the choice among
`OnSignal(Buy)`, `OnSignal(Sell)` and `NoSignal`, all possible at every row.

`size` and `objective` are kept as unsigned words, modulo `2 * HalfWord`; `objective > 0` is the comparison
on the unsigned number that the compiler makes of `target_pos > 0`. `insert()` is declared to take an
"objective qty": the order it places is for the difference between `side * qty` and the position at that
moment. `max_pos` is a static, hence 0 until the first `do_finalize()`, which the code documents as
running after the close. Each day has its own limit. `m_orders`, which only the
uncalled `TradeOrder()` reads, is left out. `limit`, `late` and `lateAtCalc` are history
variables: the largest bound so far, and the lots filled by orders that had been told to cancel.

Assumed about the outside, and marked external: `insert()` finds a free record (`OrderIds` is a bound);
what is pending at the end of a day is ended by the exchange before `do_finalize()`; rows beyond the last
one of a day read as absent.

### SlidingList and RecentValues

The state is the array, the index `m_itr` and `m_cum_size`; a value is the number of its append, so "which value
does a reader see" is a question about numbers. The downward copy of the compaction is modelled with its
effect also where source and target overlap: slot `i` gets what its source holds at the time, which
`Source(i)` finds by going up in steps of the distance of the copy. `RecentValues` promises what `pre(i)`
may rely on: the newest `min(cum_size, m_min_length)` values, none older than the last reset. The mapping
reads `count` as that minimum and `recent` through `pre`.

### ListOperators

Lists are records `[m_list, m_itr, m_cum_size]`, and what `Append()`, `pre()` and `begin()` do with them is taken
from `SlidingList` through a parameterised instance. A value is the sequence of rows that were combined
into it, so `Pre(Ff7, age)` says from which rows the factor is computed at that age. Operators that change a list (`*=`, `/=`, `-=`
with a list) walk back from the newest elements of both; `+`, `-` and the loops over `operator[]` go forwards by
index into windows that need not begin at the same age. `Assign` is `operator=`, which appends behind what
the list holds; `L2f9::ExPose()` (`fast_factors.hpp:256`) uses it that way. Right after a reset by day, before the window is
full again, pairing by index does meet different rows: `IndexedPairsOfOneRow` therefore speaks of full
windows and of the first day. `calc()` never gets there, because `do_finalize()` appends 125 rows first.

### MarketData

Three columns stand for all of them: `lastamount` is appended once a row and reset, as most are;
`volume` has one more value, from the constructor; `sp_list` (with `delta_bidv1` and `delta_askv1`) is left
out by `ReSet()`. Each is an instance of `SlidingList` with variables of its own, and `AppendTick` performs one
`Write` of each. A value is the number of its row. `turn_over` and `trade_vol` are the pairs of rows their
differences are taken between; `Outside` stands for what lies before the array when the very first row reads
one element below it. `Calculate()`, which `AppendTick()` calls last, is empty in this class; its
override belongs to the factors.

### GuessTradePrice and RankSearch

`guess_trade_price()` is the composition of its five steps with their early returns, in whole ticks; `s` is
the record of the function's variables. Its two copies, in `FactorMan.h` and `FastFactorMan.h`, are
the same. Rounding is half away from zero, as in `Round` of `base.h`. The comparisons with a tolerance are exact between whole
ticks.

`RankSearch` has the rank as the reference computes it (`ts_rank`: sort the window and take the mean
position of the values that are equal within the tolerance) and as the fast factors do (`ScanRank`: `L2a2`; `BisectRank`:
`find_low` and `find_high` between two sentinels). Values are integers, and each comparison adds or subtracts the tolerance `eps` where
the code does. `L2a2::find_high_low()` does not where it looks for the upper end (`fast_factors.hpp:121`), and there the scan differs
from the reference: a value a little below one of the sorted ones is less than it for the scan and equal to it for `ts_rank()`.
The bisection uses the tolerance on both sides.

What is ranked are `ADI`, a fraction of lots, and `pa` and `pb`, prices in steps of half a tick. For the latter any tolerance below half
a tick is the same, and `QuarterTick` stands for 1e-5. ADI can be as near to each other as there are lots, so their tolerance is a
constant of the model, 1 / `Precision`. To compare fractions exactly, the four ADI of a window are written over a common
denominator: in units of which the tolerance has `Tolerance`, the product of the lots of the four books, each of them is an integer.

### FastIC1

A row is evaluated against what earlier rows left. The model follows which rows those were: a value is its
own row, with the rows whose mid price and whose book stood for "the previous one" when it was computed.
`list` stands for the lists of `FastFactorMan`, which are appended to together; `saved` for the members of the
calers; `used` for what the factors of the row were computed from. `DoFinalize` is
`do_finalize()`: 125 rows are read ahead, into the lists by `FastFactorMan::init_data()` and into the calers by theirs. `Calc` is
`calc()` of one row: `eval()` of all, then `doExPose()`, which refreshes one caler twice. `SavedAges` and `ReadAges`
are the arguments of `pre()` in the code, `ReferenceAges` those of the reference factors, and the property
compares them through the lists.

`Excused` names what the code gets wrong on the first row of each day. `Ff7::init_data()` reads
`PIM_list.pre(period - 2)` (`fast_factors.hpp:29`), where the comment of line 23 says "period-1" periods before and `ExPose()`
(line 51) reads `PIMsp_list.pre(period - 1)`. `L2a2::init_data()` (line 87) is empty, so the first row is
ranked among values of the day before. Both are right from the second row on. Not compared at all: values that are carried over
when nothing trades (`GTVol`, `VPI`), and `L2f10`, which divides zero by zero then where `ts_trend()` returns 0.
Rows before the first `do_finalize()` and books with one side empty (limit up or down) are left out: `BooksAssumption`
says that the best bid is above 0 and below the best ask, that there are lots in the book, and that its prices lie inside
the sentinels of the bisection (999999 on either side, in whole ticks). Its last conjunct relates prices to the size of a
trade, see section 4.

### MessageChannel

Three variables, three actions: `Send` at the end, `Receive` from the front, and `ReceiverDies`, which may take
the oldest message with it. `Mp1cQueue` maps the reservations that have not been read to `pending`, what was read
through the pointers to `delivered`, and restarts to `deaths`. A message counts as sent when its slot is
reserved, since that fixes the order; one whose producer dies stays pending for ever.

### Mp1cQueue

`enqueue` is three steps (`Reserve`: the compare-and-swap; `Copy`; `FinishWrite`), `dequeue` four (`Enter`:
the test for emptiness; `SeeFlag`; `LowerFlag`; `Advance`), and `ReadMessage` is the caller reading
through the returned pointer. The atomics are acquire and release pairs on the flag, so interleaving
semantics is adequate for what the data and the flag are used for. `ProducerDies` and `ConsumerRestarts`
model processes that end, with the file living on. The queue never checks whether it is full: `LagAllows`
states as an assumption on its users how far behind the consumer may be, and its bound is a constant. With it no producer reaches a slot
that has not been read: that part of `SlotHasOneUser` and `FlagMarksUnreadMessage` is assumed, not shown. What they do show is that the
compare-and-swap keeps producers apart, and that flag, cursor and reading, which move in separate steps, stay consistent.

### SimpleThreadPool

What a thread does under the mutex is one step, notifications are steps of their own after it. A worker in
`condition.wait()` is in the set `waiting`; a notification, or nothing at all (`WakesUpByItself`), takes it
out and it tests the predicate again. Tasks may call `enqueue()`, before and after `stop`; the exception of
the second case ends up in the future of the calling task.

## 3. Runs

| run | configuration | distinct states | shows |
|---|---|---|---|
| `strapro` | `MCStrapro.cfg` | 361,086 | types and word sizes; one order at work; overshoot bounded by late fills; no stale order after `calc()`; orders of an undisturbed `calc()` respect direction and limit |
| `sliding_list` | `MCSlidingList.cfg` | 325 | cursor inside the array; `pre` and windows show the newest values; implements `RecentValues` |
| `market_data` | `MCMarketData.cfg` | 226 | columns show the same row at every age and in full windows; average prices divide differences over the same rows from the second row of a day on |
| `list_operators` | `MCListOperators.cfg` | 30,087 | series, differences and weights combine values of the rows they say, at every age, across compactions and days; assigned lists show their source |
| `fast_ic1` | `MCFastIC1.cfg` | 6,656 | fast and reference factors are computed from the same rows; running means are of one day; bisected ranks are the reference's, scanned ones as far from them as values lie just above; traded lots and amounts are divided without loss |
| `mp1c_queue` | `MCMp1cQueue.cfg` | 133,327 | one user per slot; flags mean unread messages; order, no duplicates; everything is taken in the end; implements `MessageChannel` |
| `thread_pool` | `MCSimpleThreadPool.cfg` | 19,444 | no task lost or doubled, order, no missed notification; the destructor drains and returns |
| `sell_order_is_sell` | `SellOrderIsSell.cfg` | violation | the `SideSell` arm of `NewSellOrder()` is unreachable |
| `buy_order_buys_size` | `BuyOrderBuysSize.cfg` | violation | an objective of exactly 0 is not sent, though the order book records it |
| `list_reset` | `ListReSet.cfg` | violation | windows after `ReSet()` show values of before |
| `average_after_reset` | `AverageAfterReSet.cfg` | violation | the first average price of a day divides an amount since yesterday's last row by a volume since zero |
| `l2a2_error` | `L2a2Error.cfg` | violation | the one-sided tolerance of the scan gives another rank than `ts_rank()` |

The two findings about orders belong together with a result that holds: `QuietOrderObeysLimit` passes. If
`insert()` takes the signed objective `side * qty`, then side Buy with a negative quantity and side
Sell with the positive one mean the same position, and the short side works because of two conversions
that cancel. `SellOrderIsSell` says that it does so by way of the wrong arm, and anything in the order
manager that looks at the side alone would see a buy.

### Bounds, and why they are enough

* `strapro`: three order records, so that two cancelled orders may still fill while a new one is
  placed; four rows a day with one row of look-ahead, so that several `calc()` run, some orders survive from
  one to the next, and the last row has none ahead; limits 1 and 2, overnight positions -2, 0 and 3, so
  that positions inside, on and outside the limit and changes of the limit occur on both sides; `HalfWord` 8,
  the smallest power of two for which no value is wrapped twice; three late fills, enough for each
  of two orders to fill late at different reads. The order records are symmetric.
* `sliding_list`: array 7, minimum length 3: the largest minimum length without overlap, a
  compaction every three appends, 24 appends, so seven compactions, and a reset possible after each append.
* `market_data`: the same lists, 18 rows: each column compacts four or five times, and a reset may fall before,
  between or after the compactions of the two columns that are a row apart.
* `list_operators`: array 8, minimum length 4, 16 rows, so that each list compacts several times at different rows; a
  reset after any row; two assignments, the second onto a list that already holds one.
* `fast_ic1`: ten rows read ahead with periods of 6 to 8, the longest that fit, as 80 fits 125; 25 rows are two days with live
  rows on both. Four books that move up, down and wider, in every succession of four rows, the window of `L2a2`; a longer window
  changes nothing for the bisection but its size, and the proof is for all. Their ADI are 1/5, 1/3, 0 and 3/5. With a precision of
  5 they are equal, nearer than the tolerance, apart by exactly the tolerance, and further apart, as with 1e-5 and a thousand lots.
  (In `l2a2_error` the precision is 6, so that nothing lies just at the tolerance, where doubles would not be exact.) Trades of up to
  four lots, each at any of five prices, meet levels of one to four lots, so that all five steps of `guess_trade_price()` leave and place a rest.
* `mp1c_queue`: four slots, six reservations: the ring wraps and slots are used twice. Three producers may
  publish in any order. The lag of three is the largest that keeps a slot free for the held pointer. One
  producer and one consumer may die, each at any point.
* `thread_pool`: three workers and four tasks: workers asleep, running and on their way coexist with
  queued tasks and nested calls.

`CHECK_DEADLOCK FALSE` stands in the configurations of three modules: the bounded queue stops when all messages are taken,
the pool when it has been destroyed, and `FastIC1` when its market data ends. The others are checked for deadlock.

### Fairness

* `Mp1cQueue`: weak fairness for the steps inside `enqueue()` of each producer, which has no loop there
  that another step can hold up once the slot is reserved, and for the consumer's steps, because it
  polls. There is none for starting a new `enqueue()`, for deaths or for restarts. `EveryMessageIsTaken` is
  therefore conditional: it names the deaths that do hold messages up, before publication and between
  lowering the flag and advancing.
* `SimpleThreadPool`: weak fairness for each worker, each pending `notify_one` and the destructor, which
  says that runnable threads run and tasks end. There is none for spurious wake-ups, for enqueuing
  or for starting destruction. A mutex that starves one worker for ever is excluded by this; the code
  leaves that to the operating system.
* The other modules state safety only and have no fairness.

## 4. Proofs

`StraproProofs` holds for all constants admitted by `StraproAssumption`: any set of orders, any limits and
overnight positions that stay, with the late fills and one lot, below half a word.
The properties are not inductive. `IInv` follows one number through `calc()`, the position that would be
reached if nothing else filled: `target_pos` after the clamp (`TargetWithin`), `net + branch * size` once the size
is a word (`SizeWithin`, which carries the number behind the word as a witness), the objective read as an int
(`ObjectiveWithin`), and `Landing(o)` once an order is out (`WorkingOrdersLandWithin`). Each is within `limit +
late` of flat; a late fill moves the position by a lot and allows for one. `CalcOwnsTheBook` says that nothing is at
work between `cancel_all()` and `insert()`, which gives `OneWorkingOrder`. The lemmas `Wrap`, `RoundTrip` and
`UnsignedSum` are the arithmetic of words: adding as unsigned and reading back as signed is addition as
long as the result is less than half a word. `StartIsLastRow` strengthens freshness, `QuietCalc` the
exactness of an undisturbed `calc()`.

`SlidingListProofs` assumes `NoOverlap`, `2 * MinLength <= Length - 1`, which 125 and 400 satisfy. Under
it the copy is a plain shift, and the invariant is that the slots below the cursor hold consecutive
numbers, ending with the newest, and at least `MinLength + 1` of them (or all there are). That one more
than the window is what callers need who form differences at the end of it. The refinement maps `Append` to
`Push` and `ReSet` to `Clear`; a reset of an empty list stutters. The
assumption is needed: with `MinLength = 4` in `MCSlidingList.cfg` TLC finds `PreIsNewest` violated, and so is `WindowIsNewest`.

`MarketDataProofs` assumes `NoOverlap` too. The lemma `WriteKeepsOrder` of `SlidingListProofs` says of one `Append()` that an
array ordered up to its cursor stays so; the proof uses it for each column, through an instance of that module. The
invariant adds to the types that each column holds the newest rows (`Column`, `volume` with one value more, from the
constructor), how `cum_size()` of the columns is related to the rows of the day (`Counts`), and which row
`m_lastvolume` is of (`VolumeOfLastRow`). Without the counts nothing relates a full window of one column to that of another.

`SimpleThreadPoolProofs` needs two things that are not properties: `NothingDropped`, that the accepted
tasks are those finished, those at busy workers and those queued, and `Places`, that a worker has only
returned from an empty queue of a stopped pool, to which nothing is added. `DestructorDrains` follows once all
have returned. It holds for any workers and any number of tasks.

`Mp1cQueueProofs` holds for any number of producers, slots, messages, deaths and restarts. The invariant
counts slots from `r_cursor` on (`Ahead`): the slot that is `k` ahead belongs to message `taken + 1 + k`, for
writers (`WritersAhead`), raised flags (`FlagsAhead`) and the pointer in the consumer's hands (`ConsumersSlot`). Cursors wrap, so
this is only a numbering as long as fewer than `Slots` messages are under way (`Lag`), which is `MaxLag <
Slots`, the assumption on the users. `QueueImplementsChannel` maps each step: `Reserve` to `Send`, `ReadMessage` to
`Receive`, `ConsumerRestarts` to `ReceiverDies` and the rest to stuttering.

`FastIC1Proofs` holds for any periods that fit the rows read ahead (`FastIC1Assumption`) and any number of days. `FastMatchesReference` is about
the row just evaluated; the strengthening `UpToDate` is about the next one: the list holds the rows before it in
order, each evaluated against its predecessor, and every caler member was saved from the right ages.
`GuessTradePriceProofs` is about operators. Each step moves lots and amount from what is left to a side (`AddsUp`); what has to be
shown is that nothing is left in the end, and `TradeIsDivided` says how far that is so. Of the amount, because step 5 moves the rest onto some lot, and there always is one: while step 2 runs, lots
are left or a level has given some (`Sweeping`), and step 3 and 4 together place what is left. Of the lots, because two
parts that are both rounded up leave half the sum of the best prices (`RoundedLots`), so that step 3 does not return
early. The proof also shows the one case in which lots do get lost: the function returns after step 2 when the
swept levels come to exactly the traded amount, although lots are left. A trade would need hundreds of lots for
that, and no bound of the model reaches it. `CloseTradeIsDivided` gives the condition that excludes it: if `L` lots are left
after the first, each paid at `low` or more, no level costs more than `L / (L - 1)` times `low`. While a lot is left,
at most `L - 1` have been taken, and for less than the amount (`Cheap`). That condition is the last conjunct of `BooksAssumption`. It is
an assumption about the market, not about the code: with levels up to ten ticks above the lowest price paid,
at prices of 20,000 ticks, it admits trades of two thousand lots; with prices further apart the function really may lose lots.

`NoSideBelowZero` has no such condition. Step 4 and 5 take back from a side what earlier steps gave it; the invariant
`Backed` says that what they may take, the lot of step 1 and what the sweep took from a level, is still in the side's total.
With both, `TradesAlwaysDivided` proves `TradesAreDivided` for every set of books, prices and volumes of `BooksAssumption`.

`RanksStayClose` is the same kind of statement about ranks, for windows of any length and any precision.
`RankIsPosition` says that the positions the comparison of `Sort` gives are a permutation, hence `Sort` is a rearrangement
(`SortPermutes`), with the values below a bound in front (`SortedBelow`). All ranks are then made of counts of the values below a bound:
`RankOfReference` counts those below `v - eps` and those not above `v + eps`, and so does the bisection (`RankByBisection`), provided
that none lies just at the tolerance; of halves of a tick none does. There, the invariant is that the answer lies in
the part that is searched; the sentinels make it hold of the whole array, and the part gets shorter with each step, so the search ends with a
result. The scan counts to somewhere between the values not above `v` and those below `v + eps` (`RankByScan`), which leaves out at
most the values above `v` within the tolerance (`ScanNearReference`). `ThinBooksRankAlike` says when there are none: two different
fractions of small denominators cannot be near to each other (`FractionsApart`), so if the lots of any two books multiply to less than
`Precision`, the scan finds the rank of the reference. With 1e-5 that is for up to 316 lots in each book. `l2a2_error` shows that something of the kind is needed.

`ListOperatorsProofs` assumes `Apart`, `2 * MinLength <= Length`, which 125 and 400 satisfy, and so do the 4 and 8 of the run. It is weaker than
`NoOverlap`: one slot of the copy may be overwritten too early, but it is the one beyond the window. The argument
goes by age. `AppendedOne` says that one `Append()` makes each element a row older, with or without compaction;
`AppendedMany` says the same of a sequence of values, which is how copies, shifts and `operator=` come about. From
there each operator has a lemma that says what its result shows at an age in terms of what its operands show
(`CopyShows`, `DelayShows`, `DeltaShows`, `ByAgeShows`, `TimesShows`, `PlusShows`, `ByIndexShows`), and the series of the
factors are compositions of these. The invariant `ListInv` is about the columns alone: each holds the newest rows in order
(`ShowsRows`), is as long as the rows appended or longer than the window (`Column`), and has the `m_cum_size` of its day. Without the last, the
windows paired by index could not be compared. TLC finds `ListInv` true of the instance of the run.

Two of these proofs need induction: on the length of the part searched, on the number of values appended. The induction theorems of the library cannot
be applied, since they take an operator; the lemma `Least` takes their place. It says that a nonempty set of naturals has a
least member, and comes from the library's theorem that finite sets are well-founded under strict inclusion. A proof
by induction is then the refutation of a least counterexample. A fold over a sequence is defined through a function on
subsets of its domain; `FoldExists` shows in this way that the function exists, and `Iterates` turns it into a chain of lists.

| theorem | module | statement |
|---|---|---|
| `TypeCorrect` | `StraproProofs` | `Spec => []TypeOK` |
| `AtMostOneWorking` | `StraproProofs` | `Spec => []OneWorkingOrder` |
| `OvershootBounded` | `StraproProofs` | `Spec => []OvershootBoundedByLateFills` |
| `WorkingOrdersAreFresh` | `StraproProofs` | `Spec => []WorkingOrderIsFresh` |
| `QuietOrdersObeyLimit` | `StraproProofs` | `Spec => QuietOrderObeysLimit` |
| `TypeCorrect` | `SlidingListProofs` | `Spec => []TypeOK` |
| `PreReadsNewest` | `SlidingListProofs` | `Spec => []PreIsNewest` |
| `WindowShowsNewest` | `SlidingListProofs` | `Spec => []WindowIsNewest` |
| `ListImplementsRecentValues` | `SlidingListProofs` | `Spec => ImplementsRecentValues` |
| `ListsKept` | `ListOperatorsProofs` | `Spec => []ListInv`, assuming `Apart` |
| `ListTypes` | `ListOperatorsProofs` | the same for `TypeOK` |
| `Ff7IsOfOneRow` | `ListOperatorsProofs` | the same for `SeriesOfOneRow` |
| `DeltasAreOfRows` | `ListOperatorsProofs` | the same for `DifferencesOfRows` |
| `WeightsAreOfTheirRow` | `ListOperatorsProofs` | the same for `WeightsOfTheirRow` |
| `IndexedPairsAreOfOneRow` | `ListOperatorsProofs` | the same for `IndexedPairsOfOneRow` |
| `AssignedReadsAsSource` | `ListOperatorsProofs` | the same for `AssignmentShowsSource` |
| `AppendedMany` | `ListOperatorsProofs` | a list behind which values were appended shows them, the last first |
| `ColumnsInductive` | `MarketDataProofs` | `Spec /\ NoOverlap => []IInv` |
| `ColumnsTypeCorrect` | `MarketDataProofs` | the same for `TypeOK` |
| `ColumnsShowSameRow` | `MarketDataProofs` | the same for `SameRowAtEveryAge` |
| `FullColumnsShowSameRows` | `MarketDataProofs` | the same for `FullWindowsShowSameRows` |
| `AverageOfSameRows` | `MarketDataProofs` | the same for `AverageOverSameRows` |
| `PoolInductive`, `PoolTypeCorrect` | `SimpleThreadPoolProofs` | `Spec => []IInv`, `Spec => []TypeOK` |
| `PoolKeepsOrder` | `SimpleThreadPoolProofs` | `Spec => []TasksRunOnceInOrder` |
| `PoolDrains` | `SimpleThreadPoolProofs` | `Spec => []DestructorDrains` |
| `PoolLosesNoWakeup` | `SimpleThreadPoolProofs` | `Spec => []NoLostWakeup` |
| `QueueInductive`, `QueueTypeCorrect` | `Mp1cQueueProofs` | `Spec => []IInv`, `Spec => []TypeOK` |
| `QueueSlotHasOneUser` | `Mp1cQueueProofs` | `Spec => []SlotHasOneUser` |
| `QueueFlagMarksUnread` | `Mp1cQueueProofs` | `Spec => []FlagMarksUnreadMessage` |
| `QueueReceivesInOrder` | `Mp1cQueueProofs` | `Spec => []ReceivedInOrder` |
| `QueueImplementsChannel` | `Mp1cQueueProofs` | `Spec => ImplementsMessageChannel` |
| `FastIsReference` | `FastIC1Proofs` | `Spec => [](TypeOK /\ FastMatchesReference)` |
| `MeansOfToday` | `FastIC1Proofs` | `Spec => []MeanOfToday` |
| `FastTypes` | `FastIC1Proofs` | `Spec => []TypeOK` |
| `RanksStayClose` | `FastIC1Proofs` | `Spec => []RanksAgree` |
| `ThinBooksRankAlike` | `FastIC1Proofs` | `Spec => []L2a2MatchesReference`, if the lots of any two books multiply to less than `Precision` |
| `TradesAlwaysDivided` | `FastIC1Proofs` | `Spec => []TradesAreDivided` |
| `TradeIsDivided` | `GuessTradePriceProofs` | the sides add up to the traded amount, and to the traded lots but for the case above |
| `CloseTradeIsDivided` | `GuessTradePriceProofs` | the same without the exception, for prices close to each other |
| `NoSideBelowZero` | `GuessTradePriceProofs` | no side gets a negative number of lots |

Only model-checked: `EveryMessageIsTaken`, `EveryTaskFinishes` and `DestructorReturns`, which rest on
fairness. Every other property that a passing run checks is the conclusion of a theorem.

## 5. Open

* `TradesAreDivided` for books whose best prices are crossed or empty, when it is known what the feed delivers.
* Creation of the queue's file by two processes at once, and what a full queue does to unread slots
  (`husky_queue.h:63`, `122`): the code has no answer of its own to either.
* `RecentValues` for assigned lists, whose count and position do not belong together.

## 6. Not modelled

* **Vendored code** (`spdlog` with its `fmt`, `simpleini`, `robin_hood`) and the **generated** decision trees
  (`src/IC1/BDT_model.hpp`), which together are most of the lines of the repository. The score of the trees is
  an arbitrary choice of `calc()`'s branches.
* **`hft/queue/*`** (rolling and sorting queues): they include headers that are not in the repository, and
  cannot be compiled.
* **`sem_notifier` and `sem_listener`, `ringbuffer`, `stack`, `fixed::queue`, `rolling_list`, `trie`**: nothing in the repository
  uses them. For the containers, which operations are called in which state is the question, and for the
  semaphores, who starts and stops when: both would be invented.
* **Writing the mapped matrix** (`set()`, `get_offset()`, `cube`): the writer is another program; only what
  `calc()` reads ahead is in `Strapro`.
* **Floating-point formulas** of the factors: which rows they read is modelled, not what they compute. That also leaves out the drift of
  `EWMCaler`.
* **`operator-(List, number)`** (`List-inc.h:178-183`) adds the number instead of subtracting it; nothing in the repository calls it, and
  `ListOperators` leaves it out.
* **A forgotten list in `ReSet()`** of the factors, and the caler that `doExPose()` refreshes twice: the first does not show in anything
  the factors read, the second assigns the same values again, so no property of `FastIC1` speaks of them.
* **Configuration, logging, parsing, text conversion**: input and output.
