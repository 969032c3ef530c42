# A TLA+ model of the exchange simulator

This directory holds a specification of the exchange simulator in `src/`: TLA+
modules written from the Rust code, TLC configurations that check them on small
instances, and proofs, checked by TLAPS, that hold for every instance. File and
line references below are to `src/src/`.

## The system

| component | state | operations | source |
|---|---|---|---|
| Exchange | symbols, `router_tx`, `client_tx` | `submit_order`, `cancel_order`, `set_time_scale`, `advance_time`, `notify_clients`; the heartbeat task; `process_exchange_messages` | `exchange.rs` |
| Router | one sender per symbol | `route_message`, `create_order_book` | `router.rs` |
| OrderBook | `bids`, `asks`, `orders`, `order_info`, `bid_quantities`, `ask_quantities`, `next_sequence` | `run`, `process_order`, `process_market_order`, `process_limit_order`, `process_stop_order`, `cancel_order`, `check_expired_orders` | `order_book.rs` |
| MatchingEngine | `last_prices` | `can_match`, `match_orders`, `validate_time_in_force` | `matching_engine.rs` |
| ExchangeClock | `scale`, `current_time` | `set_time_scale`, `update_time`, `advance_time`, `set_time`, `sleep_sim` | `time.rs` |
| Model | none: orders, trades, messages | `Order::new`, `validate`, `is_marketable` | `model.rs` |

How they interact. A client's `submit_order` or `cancel_order` puts a message
into a bounded channel to the router task. The router sends an order to the book
of its symbol, and a cancellation or a heartbeat to every book, through one
bounded channel per book. Each book is a task: it handles its messages one at a
time and sends `OrderUpdate` and `Trade` messages through one bounded channel
that all books share to `process_exchange_messages`, which forwards them to the
client's channel. A heartbeat task reads the clock and sends `Heartbeat` through
the router; a book that receives one reads the clock itself and cancels what has
expired. The clock is the only state shared under a lock; everything else is
owned by one task.

Behaviours that are hard to test, each listed at its line under `hazards` in
`PROJECT.json`:

* A book holds one order in up to four places (a priority queue, `orders`,
  `order_info`, the sum of its price level) and updates them one after the other
  in eight code paths, several of which return early.
* The matching loop takes the best order out of its queue, trades, awaits the
  channel, and puts a partial fill back after the loop. What `?` leaves behind
  when a later iteration fails is not cleaned up.
* `process_limit_order` lends a clone to the matching loop and goes on with the
  original.
* Cancellations and expiries race fills. The router broadcasts cancellations, so
  books also see ids they do not know.
* Orders may reach a book in another order than the one they were created in,
  and the price of a trade depends on which order was created first.
* All channels are bounded and everyone waits for room.
* The clock may be rescaled, set, and set back.

What makes each component correct:

* *OrderBook*: its structures agree; level sums are the open quantities; what
  was filled is what was traded and reported; no order trades above its quantity
  or beyond its limit; an order reported out of the market stays out; every
  handler ends; time in force, time priority and stop prices are respected.
* *MatchingEngine*: a match is between a buy and a sell order whose prices
  cross, at a price both accept, for no more than either has left.
* *Router and Exchange*: every accepted message reaches each book it is for, in
  order, and every notification reaches the client, as long as the client reads;
  at most one book answers a cancellation with `Canceled`.
* *ExchangeClock*: a change of scale does not lose the clock; under one scale
  time does not go back.

## Modules

| module | models |
|---|---|
| `MatchingEngine.tla` | the operators of `MatchingAlgorithm`; no state but the last price, which `OrderBook` keeps |
| `OrderBook.tla` | one book task: state, one action per outcome of each handler, properties |
| `OrderLife.tla` | abstract: what a client can follow of the life of the orders of one book |
| `OrderBookLife.tla` | the refinement mapping from `OrderBook` to `OrderLife` |
| `OrderBookPromises.tla` | what comments of the code promise and the book does not do |
| `ExchangeClock.tla` | the shared clock, the tasks that call it, `sleep_sim` |
| `Router.tla` | the router task and its channels |
| `Exchange.tla` | composes `Router` with callers, heartbeat, books reduced to what they answer, `process_exchange_messages` and the client |
| `ExchangePromises.tla` | what a test takes for granted of the exchange and two books do not do |
| `MCOrderBook.tla`, `MCExchangeClock.tla`, `MCExchange.tla` | instances |
| `OrderBook_proofs.tla` | the inductive invariant of a book; its types and the agreement of its structures |
| `OrderHistory_proofs.tla` | what a book has told its clients, on top of that invariant: trade limits, withdrawals, closed orders, sweeps |
| `Sums_proofs.tla` | sums over finite sets, without an induction theorem |
| `OrderSums_proofs.tla` | what a book has filled, traded, reported and still open, as sums; every handler ends |
| `OrderBookLife_proofs.tla` | a book implements `OrderLife` |
| `ExchangeClock_proofs.tla` | the clock's types, its readings, the scales it cannot leave, its sleepers |
| `Exchange_proofs.tla` | the router delivers in order |
| `ExchangeAnswers_proofs.tla` | the answers reach the client in order, an order is cancelled once, channels keep their bounds, the pipeline comes to rest, and where |

### How `OrderBook` corresponds to the code

| variable | code |
|---|---|
| `book` | `bids` and `asks`: a set of entries per side, each with its price and sequence number (`BuyPriority`, `SellPriority`); `IsBest` is what `pop` returns |
| `orders`, `info` | the maps `orders` and `order_info` |
| `level` | `bid_quantities` and `ask_quantities`, with 0 for an absent key |
| `nextSeq`, `lastPrice` | `next_sequence`; the engine's `last_prices` entry of the symbol |
| `pc`, `taker`, `partial`, `expired` | where the handler of the current message stands, and the locals it holds: `order`, the entry of `matched_orders` with a remainder, the rest of `expired_orders` |
| `outbox` | all that was sent through `router_tx`, in order |
| `submitted`, `cancels` | what the book has received |

| action | code |
|---|---|
| `RefuseInvalid` | `process_order` returns `Err`, `run` sends `Rejected` |
| `ParkStop` | `process_stop_order`, not triggered: acknowledged and forgotten |
| `RejectUnfillable` | `validate_time_in_force` fails: `Rejected` from `process_market_order` and again from `run` |
| `DropLimit`, `RestLimit` | `process_limit_order` when the best opposite price is out of reach |
| `StartMatching` | entry into the loop of `process_market_order`, for market orders, marketable limit orders, triggered stop orders |
| `FillNext` | one iteration that trades: pop, match, level, maps, `Trade` and the maker's update |
| `FailNext` | `match_orders` fails: the error leaves the loop, `run` sends `Rejected` |
| `FinishMarket` | reinsertion of the partial fill and the taker's final update |
| `CancelRemainder`, `RestRemainder` | the tail of `process_limit_order` |
| `CancelLive`, `CancelMissing` | `cancel_order` through `remove_order`, found or not |
| `Heartbeat`, `ExpireNext`, `ExpireAbort` | `check_expired_orders`: what it collects, one cancellation, the error that ends the sweep |

A step is one iteration of a loop, or what comes before or behind one. It may span
awaits: `FillNext` sends the trade, changes the book and sends the update of the
resting order, `RejectUnfillable` sends twice. That loses nothing, since the book is
owned by its task and no other task can see it: the outside sees the messages, one
after the other, and `outbox` has them in that order. The steps are kept apart where
a handler can end early between them, and because the properties relate what has
been sent to what the book holds at that moment.

### How `OrderBook` implements `OrderLife`

An order of `OrderLife` is unknown, working, in the market or out. `PhaseOf` reads
that off a book: an order is in the market when it is queued or when the matching
loop holds it with a remainder. `told` is the set of statuses in `outbox` about
the order, `deals` the pairs in its trades. `OrderLife` promises that an order
comes once; that a trade is between the order being matched and one in the
market, and that neither was closed; that only these two hear of it; that what
was withdrawn does not come back; that only an order in the market is cancelled
and any other cancellation is refused. It also says what the code does and a
reader may not expect: a parked stop order is told `New` and is out; a failed
match rejects the order that came and takes the one it met out of the market
without a word.

### How `ExchangeClock` corresponds to the code

| variable | code |
|---|---|
| `scale`, `current` | the two mutexes `scale` and `current_time` |
| `real` | `Utc::now() - start_real`; `Tick` lets it grow |
| `call` | where each task stands between two locks: `set_time_scale` before its second lock, `sleep_sim` asleep or before `advance_time`, or dead of a panic |
| `low`, `rewound` | history: the reading that none should come below, and whether `set_time` or `advance_time` went back since |

| action | code |
|---|---|
| `Now`, `NowPanics` | `update_time` by `now` (a book, the heartbeat task, `current_time`); the addition of a date that leaves the calendar panics |
| `BeginSetTimeScale`, `EndSetTimeScale` | `set_time_scale` before and after it lets go of its locks |
| `AdvanceTime`, `AdvancePanics`, `SetTime` | `advance_time`, `set_time`, under any scale |
| `SleepSim`, `Wake`, `SleepPanics` | `sleep_sim` under a moving scale; the factor 0 of `Fast` divides by zero, the product under `Slow` may overflow |
| `BeginSleepFixed`, `EndSleepFixed`, `SleepFixedPanics` | `sleep_sim` under `Fixed`, which advances the time after it let go of the scale |

`AsI32` is the cast of the factor, `Quotient` the division of a duration, whose
seconds (of `Second` ticks) and part of a second are divided and rounded one by one.
Dates have a first and a last value; `num_nanoseconds` has a limit, and so has a
product (`ProductLimit`), beyond all the dates: in `update_time` a product that is out
of range is also one that cannot be added to a date, and both panic. `update_time` is
one step: it holds the lock on the scale while it waits for the other one and reads
the wall clock afterwards, and whoever holds the other lock waits for nothing.
The wall clock is assumed not to go back; a sleeper may wake at any time after the
one it waits for.

### How `Router` and `Exchange` correspond to the code

| variable | code |
|---|---|
| `routerBox`, `bookBox`, `exchangeBox`, `clientBox` | the bounded channels: to the router, to each book, from all books, to the client |
| `sending` | the message a caller, or the heartbeat task, waits to send |
| `routing`, `togo` | the message `route_message` holds and the books it still has to go to |
| `resting`, `answering` | of a book, the orders a cancellation would find and the answers of the current message not yet sent |
| `forwarding` | the message `process_exchange_messages` waits to send |
| `receiver` | who reads: a caller between its calls, a task of its own, nobody |
| `entered`, `handled`, `answered`, `read`, `canceled`, the field `place` | history |

| action | code |
|---|---|
| `SubmitOrder`, `CancelOrder`, `Accept` | the call, which ends at once or when its message is taken |
| `Beat` | a tick of `start_heartbeat` whose reading of the clock succeeds |
| `RouterTake`, `RouterSend` | `Router::run`, and one `send` of `route_message` |
| `TakeOrder`, `TakeCancel`, `TakeHeartbeat`, `BookSend` | `OrderBook::run` takes a message, and one `send` of a handler |
| `ForwardTake`, `ForwardSend` | `process_exchange_messages` |
| `NotifyClients` | `notify_clients` when `try_send` succeeds |
| `Read`, `DropReceiver` | the client |

A book is reduced to its answers. `TakeOrder` leaves open what becomes of an
order, among the ends a book has for it: it rests without a word, or meets any
number of the orders that rest, in any order, all of which are filled but perhaps
the last, and then is told its last words (`Verdicts`, at most two updates: a
rejection, a refusal by `process_market_order` and again by `run`, the final status,
a cancelled remainder) and is out, or rests in spite of them. A failed match takes
the order it fails with out of the market as well. An order that is met has a trade
and an update in the answers, as the matching loop sends them (`Trades`); that each is
met once and filled before the next one, `NoTradeAfterClose` and `SweepsBestFirst` say
of `OrderBook`.

Each handler has all its answers ready when it begins to send; in the code they come
one by one, which makes no difference to the channels. Tokio serves senders that
wait in turn; `Accept` lets any of them go first, which covers that.
`DashMap` visits the books in some fixed order (`Broadcast`), as none is created
after `Exchange::new`.

### Abstractions and environment of `OrderBook`

Abstractions. Quantities and prices are integers: the code only adds, subtracts
and compares decimals, and never divides. Ids are numbers, in the order in which
the orders were created, which need not be the order in which they arrive. The
queue is a set of entries with priorities, since `PriorityQueue` promises no
more. `now` is an arbitrary clock value at each heartbeat: `set_time` and
`set_time_scale` can move the clock anywhere, so this covers every behaviour of
the clock. `SumFunction` stands for the running sums of a map's values.

Environment. A client submits each order at most once (`Submissions`, a set of
orders with fresh ids), and cancels ids it has submitted; ids that no order of
this book carries may be cancelled as well, because the router broadcasts.
`router_tx` accepts every message: its receiver is the exchange task, which runs
as long as the exchange does, and `run` only logs a failing send.

## Runs

Quantities are 1 to 3 (and 0, which is refused), prices 1 and 2, clock values 1 and 2. Two prices are
enough for "within the limit", "out of reach", "equal" and a sweep through two
levels; a quantity of 2 against 1 and 1 gives full and partial fills on both
sides, and 3 exceeds what the book can hold on one price. Four orders allow two
resting on one side, one on the other, and one that sweeps, in every order of
arrival. `MaxCancels` bounds the `CancelOrder` messages and is the only bound in a
guard of `OrderBook`: heartbeats are unbounded, and submissions are bounded by their ids.

| run | what it shows |
|---|---|
| `matching` | Sellers at one or two prices, buyers of every kind, a seller that meets a bid, one cancellation. The structures of the book agree in every state (`BookConsistent`), levels are the open quantities of their price (`LevelsMatchOrders`), recorded fills are the trades sent (`FillsMatchTrades`), no order trades above its quantity (`NoOverfill`), reports agree with trades (`FillReportsMatchTrades`), trades are within both limits (`TradesWithinLimits`), whichever order was created first, a sweep takes the best price first and one order at a time (`SweepsBestFirst`), a handler always has a next step (`HandlerGoesOn`), and the book implements `OrderLife` (`KeepsPromises`). |
| `lifecycle` | Good-till-date sellers, stop and stop-limit buyers, refused orders, two cancellations, heartbeats at any time. An order reported out of the market is in no queue (`WithdrawnNotQueued`), no trade names an order already closed (`NoTradeAfterClose`), levels stay right across cancellations and expiries, every step of a handler leaves it fewer steps (`HandlerShrinks`), it returns to the channel (`HandlerTerminates`), and the book implements `OrderLife` (`KeepsPromises`). |
| `scales` | Two tasks and the clock, all scales, factors 0, 2, 3 and 7 of three bits, so that 7 is cast to -1. No reading is below an earlier one unless time was set back under `Fixed`, a slower scale came, or `Fixed` ended (`ReadingsForward`); a scale under which the time cannot be computed stays for ever once no `set_time_scale` is half-way (`NoWayBack`); a sleeper does not wake early, but for the two roundings of a division (`SleepsLongEnough`); the time stays a date (`TypeOK`). |
| `pipeline` | Two orders, one cancellation, two heartbeats, one notice, two books, all channels of one place. Accepted messages reach each of their books once and in order (`DeliveredInOrder`); the client reads the answers of each book once and in order while it has its receiver (`AnsweredInOrder`); an order is reported `Canceled` at most once and by its own book (`CanceledOnce`); the tasks stop only when all is done, or when the client's own channel is full and it is a caller that does not read, and a call is left waiting only if everything in between is full as well (`StopsDoneOrUnread`); what they can wait for is what `CanWork` lists and nothing else (`WaitsForNothingElse`); they do stop (`EffortSpent`). |
| `cancel` | After `Canceled` the client may read `Rejected` for the same cancellation, from the other book; see below. |
| `fok`, `filled_rests`, `orphan`, `sell_market`, `priority`, `stop`, `sweep` | Each shows one promise of a comment that the code does not keep; see below. |

A book may be left idle for ever, but it can always receive a heartbeat, so its
runs check for deadlock. Those of the clock and the pipeline do not: real time is
bounded and all callers of the clock may have panicked, and the calls of the pipeline
are bounded; when it may stop is what `StopsDoneOrUnread` says.

Bounds. `scales`: `MaxReal` (4 ticks), a calendar from -4 to 5, sleeps of -1, 2 and
4, a second of 3 ticks, a limit of 5 for nanoseconds and of 10 for products. Four ticks
are enough for `Fast(2)` and `Fast(3)` to leave the calendar and for a sleep to end
under every scale, 4 ticks divided by 2 give 1, since 3 and 1 are halved one by one,
4 times 3 is no duration, and two tasks put any call between the halves
of another. `pipeline`: `MaxCancels`, `MaxBeats`,
`MaxNotices`. One place per channel is the tightest the code allows and the one
where waiting is most frequent; the calls are enough to fill every channel and
leave a call waiting in front of them, and up to four answers to one order meet a
channel of one place. The verdicts are `Filled`, after which an order may rest or
not, and the two of an immediate-or-cancel order; with two orders a sweep meets at
most one, and the theorems have no such bound. That a second cancellation of an order
does no harm is the theorem `Cancellations`; the run has one (with `MaxCancels = 2`
and `MaxBeats = 1` it has 2.9 million states, and nothing is violated either). The two books are not alike: both orders are for the first.

Fairness. `FairSpec` assumes weak fairness of `HandlerNext`, the steps of a
handler that has taken a message: tokio polls a task that is ready, and a handler
waits for nothing but room in `router_tx`, which is drained by
`process_exchange_messages` as long as the client reads. No fairness is assumed of
the arrival of messages. That the handler has a step until it is done
(`HandlerGoesOn`) and that each leaves fewer (`HandlerShrinks`) needs no fairness, and
is proved. `Exchange` needs none for what it says of progress: the tasks can always
make a step (`CanWork`, which is `ENABLED Work` in every state of the run) unless the
pipeline is done or unread, and every step that is not a new call reduces `Effort`. So if tokio polls some task that is ready
as long as there is one, every call that is made returns and every message is
answered, unless the client neither reads nor drops its receiver.

### Disagreements between comments and code

| run | property | what happens |
|---|---|---|
| `fok` | `FillOrKillAtomic` | A fill-or-kill order is checked against the whole opposite side, also at prices it does not accept, then trades in part and is rejected (`order_book.rs:259`, `model.rs:28`). |
| `filled_rests` | `FilledNotQueued` | `process_limit_order` matches a clone and then rests the original, with its whole quantity, after it was reported `Filled` (`order_book.rs:545`). |
| `orphan` | `IndexedQueued` | When `match_orders` fails, the popped resting order stays in `orders`, `order_info` and its level, and in no queue (`order_book.rs:317`). |
| `sell_market` | `MarketOrderExecutes` | `match_orders(buy, sell)` is called with (incoming, resting): an incoming sell order never matches (`order_book.rs:317`). |
| `priority` | `PartialFillKeepsItsTurn` | A partial fill is reinserted behind younger orders of its price (`order_book.rs:428`). |
| `stop` | `StopTriggersAtStop` | Stop orders trigger on the wrong side of their stop price (`order_book.rs:668`). |
| `sweep` | `SweepCancelsExpired` | A filled order stays in `orders`; a sweep that meets it ends before the live expired orders (`order_book.rs:872`). |
| `cancel` | `CanceledIsFinal` | A cancellation goes to all books and all but one answer `Rejected`, so the last update on a cancelled order need not be `Canceled` (`router.rs:138`, `tests/integration_tests.rs:272`). |

Three more are known by reading and have no run, since no property of a passing run
could notice them: a stop order that is not triggered on arrival is acknowledged and
dropped, which the comment behind `order_book.rs:725` admits; the price of two limit
orders is that of the one created first, resting or not (`matching_engine.rs:109`);
and what `set_time` sets under a moving scale is gone at the next reading
(`time.rs:71`). They are in the model (`ParkStop`, `MatchPrice`, `Reading`).

The properties of the passing runs are stated so that they hold in spite of
these: `FillsMatchTrades`, for instance, speaks of resting sell orders and of the
order being matched, not of a bid, whose record `filled_rests` shows to be reset.

## Proofs

For any set of orders, prices, clock values, tasks, factors, books and callers, any
capacity of the channels and any number of calls:

| theorem | module | what it says |
|---|---|---|
| `Typing` | `OrderBook_proofs` | `Spec => []TypeOK` of `OrderBook` |
| `Consistency` | `OrderBook_proofs` | `Spec => []BookConsistent` |
| `Limits` | `OrderHistory_proofs` | `Spec => []TradesWithinLimits` |
| `Withdrawals` | `OrderHistory_proofs` | `Spec => []WithdrawnNotQueued` |
| `Closures` | `OrderHistory_proofs` | `Spec => []NoTradeAfterClose` |
| `PricePriority` | `OrderHistory_proofs` | `Spec => []SweepsBestFirst` |
| `FillAccounts` | `OrderSums_proofs` | `Spec => []FillsMatchTrades` |
| `Overfills` | `OrderSums_proofs` | `Spec => []NoOverfill` |
| `FillReports` | `OrderSums_proofs` | `Spec => []FillReportsMatchTrades` |
| `Levels` | `OrderSums_proofs` | `NoNegativeQuantity => (Spec => []LevelsMatchOrders)` |
| `Progress` | `OrderSums_proofs` | `Spec => []HandlerGoesOn` |
| `HandlerEnds` | `OrderSums_proofs` | `Spec => HandlerShrinks` |
| `Refinement` | `OrderBookLife_proofs` | `Spec => KeepsPromises`: a book implements `OrderLife` |
| `ClockTyping` | `ExchangeClock_proofs` | `Spec => []TypeOK` of `ExchangeClock` |
| `Forwardness` | `ExchangeClock_proofs` | `Spec => []ReadingsForward` |
| `Trap` | `ExchangeClock_proofs` | `Spec => NoWayBack` |
| `Sleepers` | `ExchangeClock_proofs` | `Spec => []SleepsLongEnough` |
| `Delivery` | `Exchange_proofs` | `Spec => []DeliveredInOrder` |
| `Answers` | `ExchangeAnswers_proofs` | `Spec => []AnsweredInOrder` |
| `Cancellations` | `ExchangeAnswers_proofs` | `Spec => []CanceledOnce` |
| `Types` | `ExchangeAnswers_proofs` | `Spec => []TypeOK` of `Exchange` |
| `Rest` | `ExchangeAnswers_proofs` | `Spec => EffortSpent` |
| `Stops` | `ExchangeAnswers_proofs` | `Spec => []StopsDoneOrUnread` |

### The book

The assumptions are those of `OrderBookAssumption`: ids and clock values are
natural numbers, prices are integers, `NoPrice` and `NoOrder` are not among them,
and a submitted order is new and has filled nothing. Nothing is assumed of
quantities, which may be negative; only `Levels` excludes that, by a hypothesis.

The inductive invariant is `Inv == TypeOK /\ BookConsistent`. Neither half is
inductive alone: a fill reads `orders[e.id]` for the entry `e` it pops, which is an
order only if queued orders are stored, and that a queued order is stored says
nothing unless entries, orders and ids have their types. Inside `BookConsistent`
the part that carries the argument is `HandlerState`: at most one resting order
has a remainder, and then the incoming order has none left, so the loop ends; the
resting order is still indexed and queued nowhere when it is put back, which
keeps `TurnsDistinct`. `TakerFacts` and `StoredSubmitted` keep the incoming order
apart from the stored ones, which is what makes `AddLimit` of its remainder add a
new key.

The proof has a lemma per operation on the book (`AddLimitKeeps`,
`RemoveLiveKeeps`, `RemoveMissingKeeps`, `FillKeeps`, `ReinsertKeeps`), a lemma
per action, and `InvNext`, which puts them together.

The second invariant, `History`, is proved relative to the first. `Limits` needs
only that stored orders and the order being matched have the terms they were
submitted with. `Withdrawals` and `Closures` need to know which orders can still
come back to a queue:

* an order that arrives has not been told anything (`BookHistory`, third line:
  updates are about orders received, or about ids no order of this book has);
* a partial fill that is put back is open;
* the remainder of a limit order that is rested was not withdrawn by the final
  update of the loop. That is so because fills do not exceed a positive quantity
  (`Remaining(taker) >= 0`), so `FinalStatus` does not take its last case;
* a closed bid may be queued (this is what `filled_rests` shows), but a closed ask
  may not. A trade pops an ask, since only incoming buy orders match. An incoming
  sell order cannot reach the tail of `process_limit_order`, because it enters the
  loop with a bid in the queue and the first iteration fails; so what is rested
  after matching is a bid.

`Closures` therefore holds because of `sell_market`: it says that the two defects
cancel out, and a repair of `order_book.rs:317` alone would break it.

`SweepsBestFirst` speaks of pairs of trades; `LoopHistory` is what makes it inductive:
while the loop runs, no ask left in the queue is cheaper than one it has traded with,
and as long as the taker has a remainder every seller so far was reported filled. The
first holds since the queue only shrinks and the best ask is popped (`BestAsk`), the
second since a match uses up one side or the other (`UsedUp`). Only the loop trades
(`QuietSteps`), and a new order has not traded before it enters it
(`StartMatchingSweeps`), so no other trade names the same buyer.

### What is traded, reported and still open

`FillsMatchTrades`, `NoOverfill`, `FillReportsMatchTrades`, `LevelsMatchOrders` and
`EffortSpent` are about sums over finite sets, which `SumFunction` folds. The
provers cannot instantiate the induction theorems of the library, whose parameter
is an operator. `Sums_proofs` does without them: by `WFMin`, a family of finite sets
has a member that includes no other (`MinimalSet`), so a finite set on which a claim
fails has a smallest part on which it fails. A claim is passed as the set of the
subsets it holds of, which needs no operator (`SetInduction`). From this follow that
the fold does not depend on the order in which it takes the elements (`SumOneStep`,
`SumWithout`), and the lemmas that are cited: the sum of integers is an integer,
equal functions have equal sums, and what adding, removing or replacing one summand
does to it, or adding to all of them (`SumPlus`, `SumMinus`, `SumChange`,
`SumGrowth`).

`Fills` is inductive relative to `Inv` and `History`: the filled quantity recorded
for a stored sell order is what it has traded, and that of a stored bid is zero,
because what `process_limit_order` rests is the original and not the matched copy
(`filled_rests`). A step sends at most one trade and then its reports, so each sum
changes by one summand or not at all. `NoOverfill` is part of `Fills` since the
match quantity is at most what the resting order has left, and what it has left is
its quantity less what it has traded.

`update_quantity_at_price` adds a signed quantity and takes what would be below
zero as an absent level. So `Levels` needs the open quantity of every stored order
to be non-negative (`StoredOpen`): it follows from `Fills` if no submitted quantity
is negative (`NoNegativeQuantity`), and it is false otherwise, since an order with
a quantity of -1 would be stored at a level that stays empty. An operation adds,
removes or replaces one order at one price; `Replaces` names that, `OpenAtStep`
says what it does to the sums of all prices, and each action is shown to be one.

### The end of a handler

`HandlerTerminates` is liveness, but what it rests on is not. `Progress` says that the
matching loop has a next step: it is over, or the queue of the other side has a best
entry. That is so because a queue is finite (it has one entry at most for each stored
order, and `Fills` knows those to be finite) and no two entries share a turn, so
`Better` orders them (`BetterOrder`) and every part of a queue that is not empty has a
best one (`BestExists`, by `SetInduction`). `HandlerEnds` says that the steps become fewer:
a pop takes one entry off a queue to which nothing is added before the loop is over
(`PopShrinks`), and a sweep has one order less to cancel or ends. What is left to
fairness is only that tokio polls the task.

### The book and `OrderLife`

`Refinement` rests on both invariants, which give the places an order can be in.
What they do not say is that a book has not spoken of an order before it was
submitted; `Unheard` adds that, because a step of `OrderLife` that takes an order
in requires it. With it every action of the book is one step in the life of one or
two orders (`AnswerLife`, `WithdrawLife`, `FillNextLife` and the others), or
changes nothing that a client sees (`HiddenLife`). The work is in the phases of
the orders a step does *not* speak of: the lemmas on queues (`AddLimitQueued`,
`PopQueued`, `ReinsertQueued` and so on) say exactly which order enters or leaves
them, and `StayBy` that the others keep their phase.

### The clock

The assumptions are those of `ClockAssumption`: factors have the width of a cast,
dates have a first and a last value, and the wall clock does not leave the dates.

`ReadingsForward` is not inductive: `Fixed` goes on from the stored time, which
under a moving scale is the one of the last update. `StoredForward` adds that the
stored time is not below what was read either, unless it was set back. The
arithmetic is in the lemmas before: a scale moves time one way (`SimulatedTrend`),
and of two that move forward the one that is `NotSlower` is not behind the other at
any instant (`FasterIsAhead`), by what the two roundings of a division leave in order
(`QuotientMonotone`, `QuotientShrinks`; `SplitOrder` compares the seconds of two
durations and then their rests). `Trap` uses `SimulatedTrend` as well: a time that has left the
calendar does not come back into it as real time goes on.

`SleepsLongEnough` compares what `sleep_sim` waits for in real time, computed by a
division of the duration, with how `update_time` scales real time. `SleepsSound` is
inductive: a steady sleeper under a forward scale has an end, and the simulated
time at that end is within two ticks of its goal. When the sleep begins that is
`WaitIsEnough`, an inequality about the two remainders of the division
(`QuotientFacts`, and `QuotientOfSum` for a sleep that is multiplied); while it lasts,
the scale stays and so does the claim; a later waking is only later
(`ForwardMonotone`).

### The pipeline

The assumptions are `RouterAssumption` (no book is visited twice in a broadcast,
channels have at least one place) and `ExchangeAssumption`: there are finitely many
callers, and a verdict, the last updates on an order, has at most two of them and
reports `Canceled` at most once. Two is what the code sends: `Rejected` twice, or the
final status and the cancellation of a remainder.

A message carries the place it has in the line of each book, and a line goes
through two channels and the router's hands: `bookBox[s]`, `routing` while `s` is
in `togo`, `routerBox`. `DeliveredInOrder` says that the places along it are
consecutive, from `handled[s]` to `entered[s]`; given the types (`LineTyped`, which
includes that `togo` visits no book twice) it is inductive. Each step moves a
message from one section of the line to the next (`EnterKeeps`, `RouterTakeKeeps`,
`RouterSendKeeps`, `TakeKeeps`), or leaves all of them alone (`HoldKeeps`).

The way back. Its line also goes through two channels and a pair of hands:
`exchangeBox`, `forwarding`, `clientBox`, but here the answers of all books, and
notices, stand in between. `Staged` cuts the places of one book at two points: those
in `clientBox` come first, then the one in hand, then those in `exchangeBox`. A step
appends the next place at the end (`BookSend`), moves the first of a section to the
end of the section before, or removes the first of all (`Read`), and leaves the
other books' places as they are. That an answer is at the head of its channel makes
it the lowest of its book, which is why nothing is overtaken.

`CanceledOnce` needs more than the answers. An order is reported by the book in
which it rests, which takes it out, or by the verdict when it arrives. So it matters
that an order arrives once: every message with an order on its way from a call to
its book is the only one (`OrdersApart`), and an order that rests, or was reported,
is not on its way any more (`OrdersTracked`). The inductive invariant is `AnswerInv`,
which joins these with `LineInv` of the way there, the types and the order of the
answers. The capacity of the channels (`RouterBounds`, `AnswerBounds`) is a guard of
each step that fills one; `Types` puts the two together.

`Rest`. Effort has a part for the way to the books and one for the way back. Each
task's step is a lemma: a call that returns turns the weight of one caller into a
message for at most every book (`AcceptEffort`, where the loads of all books change,
by `SumGrowth`), the router turns a message into its copies (`RouterEffort`), a book
turns one into answers (`BookTakeEffort`), and an answer moves on (`AnswerEffort`).
The difficult one is an order that meets others: the number of its answers has no
bound, two for each order met. But all of these except perhaps the last leave the
market, and an order that rests carries a weight of its own, which pays for them
(`OrderReply`, `PaidReply`, `SweepReply`); what is left is a trade, an update and the
last words, which the weight of the message covers.

`Stops`. If no task can go on, the pipeline is stuck from its end: were the way
to the client free, `forwarding` would be empty, then `exchangeBox`, then every book
would have sent its answers and taken its messages, and so on back to the callers.
So either all of it is empty (`NothingLeft`) and `AnsweredInOrder`'s line of places
shows that nothing is left to be read, or the client's channel is full and its reader is
a caller (`ClientInTheWay`); and a call that waits finds the router's channel full,
and so each channel behind it (`FullOrEmpty`). The theorem speaks of `CanWork`, what
each task waits for, spelled out; that this is `ENABLED Work` is
`WaitsForNothingElse`, which TLC checks.

### What is only model-checked

`HandlerTerminates`, which is liveness under fairness, and `WaitsForNothingElse`, which
speaks of `ENABLED`: neither is in reach of the provers, and of each the part that is
not temporal is proved (`Progress` and `HandlerEnds`, `Stops`). All other properties
of the passing runs have a theorem.

## What is not modelled

* Negative quantities. `validate` refuses only a quantity of zero
  (`order_book.rs:760`), although the error it returns says that it must be greater
  than 0. The actions are defined for negative quantities and the
  proofs cover them, but for `Levels`; the instances of the runs have none.
* The same order submitted twice: `Order::new` gives each a fresh id, and all
  that is said of a book rests on it.
* `set_matching_algorithm`: it writes a map that is read when a book is created,
  which is before it can be called, and the two algorithms are the same.
  `set_heartbeat_interval` is `todo!()`.
* `Order::is_marketable` and `OrderStatus::Expired`, which nothing outside the
  tests uses; logging; the error values, except through the messages they lead to.
* Sends that fail because the exchange is being dropped, which the code only logs.
* In `Exchange`, times: a heartbeat may find any order expired. What the clock
  makes of a heartbeat is `ExchangeClock`'s and `OrderBook`'s matter, and the
  latter lets it see any time at all. A heartbeat that is not sent because the
  clock cannot be read is one that `Beat` does not take.
* The death of a book. A sweep reads the clock (`order_book.rs:843`), and a reading
  panics when the date is out of range (`NowPanics` of `ExchangeClock`, which has a
  task that is dead of it). The book's task would end with all its orders, and each
  later send to it would fail, which the router logs (`router.rs:124`, `140`, `156`).
  No model joins the clock to the books: what is said of the pipeline is said of books
  that live, and of a heartbeat task that lives (`exchange.rs:108`).
* A `Fast(0)` sleeper's division by zero, a `Slow` sleeper's overflow, a sleep of more nanoseconds than fit and
  a negative one are modelled as what they are (dead tasks, no sleep, one without
  end); no property says what they should be.

## Plan

1. The books of `Exchange` replaced by `OrderLife`, so that the two refinements meet,
   and joined to the clock, so that a book can die of a reading.
2. A run with a negative quantity; duplicates of an order.
