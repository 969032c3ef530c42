------------------------------ MODULE OrderBook ------------------------------
(***************************************************************************)
(* One order book task (src/order_book.rs): OrderBook::run takes messages  *)
(* from its channel one at a time, and this module has one action for each *)
(* outcome of handling a message.  The matching loop of                    *)
(* process_market_order, the tail of process_limit_order behind it and the *)
(* loop of check_expired_orders await router_tx between their iterations;  *)
(* they are steps of their own, ordered by pc.                             *)
(*                                                                         *)
(* The book is owned by its task, so nothing else can read or write it     *)
(* between two of these steps.  What the outside sees is outbox, the       *)
(* messages sent through router_tx, in order.                              *)
(***************************************************************************)
EXTENDS MatchingEngine, Sequences, FiniteSets, Functions

CONSTANTS
  OrderIds,      (* order ids (Uuid), numbered by the creation of the order *)
  Prices,        (* limit and stop prices                                   *)
  Times,         (* values of the exchange clock                            *)
  Submissions,   (* the orders clients may submit, each id at most once     *)
  MaxCancels,    (* bound: CancelOrder messages delivered to the book       *)
  NoOrder        (* no order is being processed                             *)

OrderType   == {"Market", "Limit", "StopLoss", "StopLimit"}
StopTypes   == {"StopLoss", "StopLimit"}
TimeInForce == {"IOC", "FOK", "GTC", "GTD", "DAY"}
OrderStatus == {"New", "PartiallyFilled", "Filled", "Canceled", "Rejected"}

(***************************************************************************)
(* An order.  expiry is the argument of GTD(expiry) and is not read under  *)
(* another time in force.  The symbol is that of the book and the          *)
(* timestamps are left out (created_at: CreatedBefore).                    *)
(***************************************************************************)
Order ==
  [id : OrderIds, side : Side, type : OrderType, qty : Int, filled : Int,
   price : Prices \cup {NoPrice}, stop : Prices \cup {NoPrice},
   tif : TimeInForce, expiry : Times, status : OrderStatus]

ASSUME OrderBookAssumption ==
  /\ OrderIds \subseteq Nat
  /\ Prices \subseteq Int
  /\ Times \subseteq Nat
  /\ NoPrice \notin Prices
  /\ NoOrder \notin OrderIds /\ NoOrder \notin Order
  /\ MaxCancels \in Nat
  /\ \A o \in Submissions : o \in Order /\ o.filled = 0 /\ o.status = "New"

(* The messages a book sends: ExchangeMessage::OrderUpdate and ::Trade.    *)
Update(id, status, filled) ==
  [kind |-> "OrderUpdate", id |-> id, status |-> status, filled |-> filled]

Trade(buy, sell, price, qty) ==
  [kind |-> "Trade", buy |-> buy, sell |-> sell, price |-> price, qty |-> qty]

Message ==
  [kind : {"OrderUpdate"}, id : OrderIds, status : OrderStatus, filled : Int]
    \cup
  [kind : {"Trade"}, buy : OrderIds, sell : OrderIds,
   price : Prices \cup {0}, qty : Int]

(* An element of the priority queues bids and asks, with its priority.     *)
Entry == [id : OrderIds, price : Prices, seq : Nat]

VARIABLES
  book,        (* book["Buy"] is bids, book["Sell"] is asks                 *)
  orders,      (* orders: HashMap<Uuid, Order>                              *)
  info,        (* order_info: HashMap<Uuid, (Side, price)>                  *)
  level,       (* bid_quantities and ask_quantities; 0 for an absent key    *)
  nextSeq,     (* next_sequence                                             *)
  lastPrice,   (* the engine's last_prices entry of this symbol             *)
  pc,          (* where the handler of the current message stands           *)
  taker,       (* the order process_market_order works on                   *)
  partial,     (* the resting order of matched_orders not fully filled      *)
  expired,     (* expired_orders still to be cancelled                      *)
  outbox,      (* everything sent through router_tx so far                  *)
  submitted,   (* the orders received so far, as they were submitted        *)
  cancels      (* the number of CancelOrder messages received               *)

bookVars == <<book, orders, info, level, nextSeq, lastPrice>>
taskVars == <<pc, taker, partial, expired>>
inputVars == <<submitted, cancels>>
vars == <<bookVars, taskVars, outbox, inputVars>>

-----------------------------------------------------------------------------
(* Maps that gain or lose a key.                                           *)
Put(f, k, v) == [x \in DOMAIN f \cup {k} |-> IF x = k THEN v ELSE f[x]]
Drop(f, k)   == [x \in DOMAIN f \ {k} |-> f[x]]

Opposite(side) == IF side = "Buy" THEN "Sell" ELSE "Buy"

(* PriorityQueue::push: an element already queued gets the new priority.   *)
Push(queue, e) == {f \in queue : f.id # e.id} \cup {e}
Entries(queue, id) == {e \in queue : e.id = id}

(* Mutation of Better: the price of an ask is not reversed.                *)
BetterHighest(side, e, f) ==
  e.price > f.price \/ (e.price = f.price /\ e.seq < f.seq)

(* BuyPriority and SellPriority: price first, then the older sequence.     *)
Better(side, e, f) ==
  \/ IF side = "Buy" THEN e.price > f.price ELSE e.price < f.price
  \/ e.price = f.price /\ e.seq < f.seq

(* The element a pop of this queue returns.                                *)
IsBest(side, e) ==
  e \in book[side] /\ \A f \in book[side] \ {e} : Better(side, e, f)

(***************************************************************************)
(* best_ask() <= p for a buyer, best_bid() >= p for a seller: whether the  *)
(* best price of the other side reaches p.  False on an empty queue.       *)
(***************************************************************************)
Reaches(side, p) ==
  \E e \in book[Opposite(side)] :
     IF side = "Buy" THEN e.price <= p ELSE e.price >= p

(* get_available_quantity: all the price levels of the other side.         *)
Available(side) == SumFunction(level[Opposite(side)])

(* Mutation of AdjustLevel: the decrement of a level is dropped.           *)
AdjustLevelUpOnly(side, price, delta) ==
  [level EXCEPT ![side][price] = IF delta > 0 THEN @ + delta ELSE @]

(* update_quantity_at_price of the level's quantity plus delta.            *)
AdjustLevel(side, price, delta) ==
  [level EXCEPT ![side][price] = IF @ + delta > 0 THEN @ + delta ELSE 0]

Send(msgs) == outbox' = outbox \o msgs

Idle == pc = "recv"
Done == pc' = "recv" /\ taker' = NoOrder /\ partial' = NoOrder /\ expired' = {}

-----------------------------------------------------------------------------
(* Mutation of AddLimit: the order is not entered in order_info.           *)
AddLimitUnindexed(o) ==
  /\ book' = [book EXCEPT ![o.side] =
                Push(@, [id |-> o.id, price |-> o.price, seq |-> nextSeq])]
  /\ nextSeq' = nextSeq + 1
  /\ level' = AdjustLevel(o.side, o.price, Remaining(o))
  /\ orders' = Put(orders, o.id, [o EXCEPT !.status = "New"])
  /\ UNCHANGED <<info, lastPrice>>

(* add_limit_order, which queues and indexes an order and stores it as New.*)
AddLimit(o) ==
  /\ book' = [book EXCEPT ![o.side] =
                Push(@, [id |-> o.id, price |-> o.price, seq |-> nextSeq])]
  /\ nextSeq' = nextSeq + 1
  /\ level' = AdjustLevel(o.side, o.price, Remaining(o))
  /\ info' = Put(info, o.id, [side |-> o.side, price |-> o.price])
  /\ orders' = Put(orders, o.id, [o EXCEPT !.status = "New"])
  /\ UNCHANGED lastPrice

(* remove_order finds the id in order_info and in the queue of its side.   *)
Live(id) == id \in DOMAIN info /\ Entries(book[info[id].side], id) # {}

(* Mutation of RemoveLive: the order is unindexed, and not dequeued.       *)
RemoveLiveLazily(id) ==
  /\ level' = AdjustLevel(info[id].side, info[id].price, -Remaining(orders[id]))
  /\ info' = Drop(info, id)
  /\ UNCHANGED <<book, orders, nextSeq, lastPrice>>

(* Mutation of RemoveLive: the level gives up the full order quantity.     *)
RemoveLiveFullQty(id) ==
  /\ book' = [book EXCEPT ![info[id].side] = @ \ Entries(@, id)]
  /\ level' = AdjustLevel(info[id].side, info[id].price, -orders[id].qty)
  /\ info' = Drop(info, id)
  /\ orders' = Drop(orders, id)
  /\ UNCHANGED <<nextSeq, lastPrice>>

RemoveLive(id) ==
  /\ book' = [book EXCEPT ![info[id].side] = @ \ Entries(@, id)]
  /\ level' = AdjustLevel(info[id].side, info[id].price, -Remaining(orders[id]))
  /\ info' = Drop(info, id)
  /\ orders' = Drop(orders, id)
  /\ UNCHANGED <<nextSeq, lastPrice>>

(* remove_order otherwise: it has dropped the id from order_info all the   *)
(* same, and returns None.                                                 *)
RemoveMissing(id) ==
  /\ info' = Drop(info, id)
  /\ UNCHANGED <<book, orders, level, nextSeq, lastPrice>>

-----------------------------------------------------------------------------
(* process_order and what it calls, for an order that needs no match.      *)

(* The checks of process_order; the quantity is compared with zero only.   *)
Valid(o) ==
  /\ o.qty # 0
  /\ o.type \in {"Limit", "StopLimit"} => o.price # NoPrice
  /\ o.type \in StopTypes => o.stop # NoPrice

(* A stop order that is triggered goes on as a market or a limit order.    *)
Effective(o) ==
  [o EXCEPT !.type = CASE @ = "StopLoss"  -> "Market"
                       [] @ = "StopLimit" -> "Limit"
                       [] OTHER           -> @]

Triggered(o)   == o.type \in StopTypes => Reaches(o.side, o.stop)
Marketable(o)  == Effective(o).type = "Limit" => Reaches(o.side, o.price)
Fillable(o)    == TimeInForceHolds(o, Available(o.side))

(* The task takes SubmitOrder(o) from its channel.                         *)
Receive(o) ==
  /\ Idle
  /\ o.id \notin DOMAIN submitted
  /\ submitted' = Put(submitted, o.id, o)
  /\ UNCHANGED cancels

(* The order fails a check; run reports the error as a rejection.          *)
RefuseInvalid(o) ==
  /\ Receive(o)
  /\ ~Valid(o)
  /\ Send(<<Update(o.id, "Rejected", 0)>>)
  /\ UNCHANGED <<bookVars, taskVars>>

(* A stop order that is not triggered is acknowledged, and forgotten.      *)
ParkStop(o) ==
  /\ Receive(o)
  /\ Valid(o) /\ ~Triggered(o)
  /\ Send(<<Update(o.id, "New", 0)>>)
  /\ UNCHANGED <<bookVars, taskVars>>

(***************************************************************************)
(* A fill-or-kill order the whole opposite side cannot fill is rejected by *)
(* process_market_order, and then by run, which sees the error.            *)
(***************************************************************************)
RejectUnfillable(o) ==
  /\ Receive(o)
  /\ Valid(o) /\ Triggered(o) /\ Marketable(o) /\ ~Fillable(o)
  /\ Send(<<Update(o.id, "Rejected", 0), Update(o.id, "Rejected", 0)>>)
  /\ UNCHANGED <<bookVars, taskVars>>

(* A limit order that must fill at once and cannot.                        *)
DropLimit(o) ==
  /\ Receive(o)
  /\ Valid(o) /\ Triggered(o) /\ ~Marketable(o)
  /\ o.tif \in {"IOC", "FOK"}
  /\ Send(<<Update(o.id, IF o.tif = "IOC" THEN "Canceled" ELSE "Rejected", 0)>>)
  /\ UNCHANGED <<bookVars, taskVars>>

(* Any other limit order rests; nothing is sent.                           *)
RestLimit(o) ==
  /\ Receive(o)
  /\ Valid(o) /\ Triggered(o) /\ ~Marketable(o)
  /\ o.tif \notin {"IOC", "FOK"}
  /\ AddLimit(Effective(o))
  /\ UNCHANGED <<taskVars, outbox>>

-----------------------------------------------------------------------------
(* process_market_order: the matching loop.                                *)
StartMatching(o) ==
  /\ Receive(o)
  /\ Valid(o) /\ Triggered(o) /\ Marketable(o) /\ Fillable(o)
  /\ pc' = "match"
  /\ taker' = Effective(o)
  /\ UNCHANGED <<bookVars, partial, expired, outbox>>

(* Mutation of Pop: the best order is looked at and stays in its queue.    *)
Peek(e) ==
  /\ pc = "match"
  /\ Remaining(taker) > 0
  /\ IsBest(Opposite(taker.side), e)
  /\ UNCHANGED book

(* The best order of the other side leaves its queue for this iteration.   *)
Pop(e) ==
  /\ pc = "match"
  /\ Remaining(taker) > 0
  /\ IsBest(Opposite(taker.side), e)
  /\ book' = [book EXCEPT ![Opposite(taker.side)] = @ \ {e}]

(* Mutation of Filled: the last fill replaces the ones before it.          *)
FilledLastOnly(o, qty) == [o EXCEPT !.filled = qty]

(* The copy of a resting order that replaces it after a fill.              *)
Filled(o, qty) ==
  [o EXCEPT !.filled = @ + qty,
            !.status = IF o.filled + qty = o.qty THEN "Filled" ELSE "PartiallyFilled"]

(***************************************************************************)
(* One iteration that trades.  match_orders takes (buy, sell) and is given *)
(* (incoming, resting), so it accepts an incoming buy order only.          *)
(***************************************************************************)
FillNext(e) ==
  /\ Pop(e)
  /\ LET resting == orders[e.id]
         qty     == MatchQty(taker, resting)
         price   == MatchPrice(taker, resting, lastPrice)
         updated == Filled(resting, qty)
         full    == updated.filled = updated.qty
     IN /\ ~MatchFails(taker, resting)
        /\ taker' = [taker EXCEPT !.filled = @ + qty]
        /\ orders' = [orders EXCEPT ![e.id] = updated]
        /\ info' = IF full THEN Drop(info, e.id) ELSE info
        /\ partial' = IF full THEN partial ELSE e.id
        /\ level' = AdjustLevel(resting.side, resting.price, -qty)
        /\ lastPrice' = price
        /\ Send(<<Trade(taker.id, e.id, price, qty),
                  Update(e.id, updated.status, updated.filled)>>)
  /\ UNCHANGED <<nextSeq, pc, expired, inputVars>>

(***************************************************************************)
(* match_orders fails and the error leaves process_order: run rejects the  *)
(* incoming order, and the popped order does not return to its queue.      *)
(***************************************************************************)
FailNext(e) ==
  /\ Pop(e)
  /\ MatchFails(taker, orders[e.id])
  /\ Send(<<Update(taker.id, "Rejected", 0)>>)
  /\ Done
  /\ UNCHANGED <<orders, info, level, nextSeq, lastPrice, inputVars>>

(* Mutation of FinalStatus: any fill counts as all of it.                  *)
FinalStatusAnyFill(o) ==
  IF o.filled > 0 THEN "Filled"
  ELSE IF o.tif = "IOC" THEN "Canceled" ELSE "PartiallyFilled"

(* The last case is that of an order with a negative quantity.             *)
FinalStatus(o) ==
  CASE o.filled = o.qty                  -> "Filled"
    [] o.filled < o.qty /\ o.tif = "IOC" -> IF o.filled > 0 THEN "PartiallyFilled"
                                                            ELSE "Canceled"
    [] o.filled < o.qty /\ o.tif # "IOC" -> "PartiallyFilled"
    [] OTHER                             -> "Rejected"

(* Mutation of Reinsert: the sequence is used and not consumed.            *)
ReinsertSharingTurn ==
  /\ book' = IF partial = NoOrder THEN book
             ELSE [book EXCEPT ![info[partial].side] =
                     Push(@, [id |-> partial, price |-> info[partial].price,
                              seq |-> nextSeq])]
  /\ UNCHANGED nextSeq

(* The partially filled order goes back to its queue, with a new sequence. *)
Reinsert ==
  IF partial = NoOrder
  THEN UNCHANGED <<book, nextSeq>>
  ELSE /\ book' = [book EXCEPT ![info[partial].side] =
                     Push(@, [id |-> partial, price |-> info[partial].price,
                              seq |-> nextSeq])]
       /\ nextSeq' = nextSeq + 1

(* Mutation of LoopOver: the filled order waits for the queue to be empty. *)
LoopOverEmptyOnly == pc = "match" /\ book[Opposite(taker.side)] = {}

LoopOver ==
  /\ pc = "match"
  /\ Remaining(taker) > 0 => book[Opposite(taker.side)] = {}

(***************************************************************************)
(* The loop is over: reinsertion and the final update.  process_limit_order*)
(* lent a clone, so the order it goes on with has filled nothing.          *)
(***************************************************************************)
FinishMarket ==
  /\ LoopOver
  /\ Reinsert
  /\ Send(<<Update(taker.id, FinalStatus(taker), taker.filled)>>)
  /\ IF taker.type = "Limit" /\ 0 < taker.qty
     THEN pc' = "rest" /\ partial' = NoOrder /\ UNCHANGED <<taker, expired>>
     ELSE Done
  /\ UNCHANGED <<orders, info, level, lastPrice, inputVars>>

-----------------------------------------------------------------------------
(* process_limit_order after the loop.                                     *)
Original(o) == [o EXCEPT !.filled = 0]

CancelRemainder ==
  /\ pc = "rest" /\ taker.tif = "IOC"
  /\ Send(<<Update(taker.id, "Canceled", 0)>>)
  /\ Done
  /\ UNCHANGED <<bookVars, inputVars>>

RestRemainder ==
  /\ pc = "rest" /\ taker.tif # "IOC"
  /\ AddLimit(Original(taker))
  /\ Done
  /\ UNCHANGED <<outbox, inputVars>>

-----------------------------------------------------------------------------
(***************************************************************************)
(* CancelOrder(id).  The router broadcasts it, so the id may be one of     *)
(* another book; a client does not cancel what it has not submitted.       *)
(***************************************************************************)
ReceiveCancel(id) ==
  /\ Idle
  /\ cancels < MaxCancels
  /\ id \in DOMAIN submitted \/ \A o \in Submissions : o.id # id
  /\ cancels' = cancels + 1
  /\ UNCHANGED submitted

CancelLive(id) ==
  /\ ReceiveCancel(id)
  /\ Live(id)
  /\ RemoveLive(id)
  /\ Send(<<Update(id, "Canceled", orders[id].filled)>>)
  /\ UNCHANGED taskVars

(* OrderNotFound, which run reports as a rejection.                        *)
CancelMissing(id) ==
  /\ ReceiveCancel(id)
  /\ ~Live(id)
  /\ RemoveMissing(id)
  /\ Send(<<Update(id, "Rejected", 0)>>)
  /\ UNCHANGED taskVars

-----------------------------------------------------------------------------
(***************************************************************************)
(* Heartbeat: check_expired_orders collects every expired order there is   *)
(* in orders.  The clock can be set, rescaled and set back, so now is any  *)
(* of its values.                                                          *)
(***************************************************************************)
Expired(now) == {id \in DOMAIN orders : orders[id].tif = "GTD" /\ orders[id].expiry <= now}

Heartbeat(now) ==
  /\ Idle
  /\ expired' = Expired(now)
  /\ pc' = IF expired' = {} THEN "recv" ELSE "expire"
  /\ UNCHANGED <<bookVars, taker, partial, outbox, inputVars>>

(* The map orders is visited in no particular order.                       *)
ExpireNext(id) ==
  /\ pc = "expire" /\ id \in expired
  /\ Live(id)
  /\ RemoveLive(id)
  /\ Send(<<Update(id, "Canceled", orders[id].filled)>>)
  /\ expired' = expired \ {id}
  /\ pc' = IF expired' = {} THEN "recv" ELSE "expire"
  /\ UNCHANGED <<taker, partial, inputVars>>

(* cancel_order does not find the order; its error ends the whole sweep.   *)
ExpireAbort(id) ==
  /\ pc = "expire" /\ id \in expired
  /\ ~Live(id)
  /\ RemoveMissing(id)
  /\ Done
  /\ UNCHANGED <<outbox, inputVars>>

-----------------------------------------------------------------------------
Init ==
  /\ book = [s \in Side |-> {}]
  /\ orders = <<>> /\ info = <<>>
  /\ level = [s \in Side |-> [p \in Prices |-> 0]]
  /\ nextSeq = 1 /\ lastPrice = NoPrice
  /\ pc = "recv" /\ taker = NoOrder /\ partial = NoOrder /\ expired = {}
  /\ outbox = <<>>
  /\ submitted = <<>> /\ cancels = 0

(* The task takes its next message.                                        *)
ReceiveNext ==
  \/ \E o \in Submissions :
        \/ RefuseInvalid(o) \/ ParkStop(o) \/ RejectUnfillable(o)
        \/ DropLimit(o) \/ RestLimit(o) \/ StartMatching(o)
  \/ \E id \in OrderIds : CancelLive(id) \/ CancelMissing(id)
  \/ \E now \in Times : Heartbeat(now)

(* The task goes on with the message it took.                              *)
HandlerNext ==
  \/ \E s \in Side : \E e \in book[s] : FillNext(e) \/ FailNext(e)
  \/ FinishMarket \/ CancelRemainder \/ RestRemainder
  \/ \E id \in OrderIds : ExpireNext(id) \/ ExpireAbort(id)

Next == ReceiveNext \/ HandlerNext

Spec == Init /\ [][Next]_vars

(* A task that is ready to run is run, and router_tx is drained.           *)
FairSpec == Spec /\ WF_vars(HandlerNext)

-----------------------------------------------------------------------------
(***************************************************************************)
(*                              Properties                                 *)
(***************************************************************************)

(* The values the variables of this module take.                           *)
TypeOK ==
  /\ book \in [Side -> SUBSET Entry]
  /\ DOMAIN orders \subseteq OrderIds
  /\ orders \in [DOMAIN orders -> Order]
  /\ DOMAIN info \subseteq OrderIds
  /\ info \in [DOMAIN info -> [side : Side, price : Prices]]
  /\ level \in [Side -> [Prices -> Int]]
  /\ nextSeq \in Nat
  /\ lastPrice \in Prices \cup {NoPrice, 0}
  /\ pc \in {"recv", "match", "rest", "expire"}
  /\ taker \in Order \cup {NoOrder}
  /\ partial \in OrderIds \cup {NoOrder}
  /\ expired \subseteq DOMAIN orders
  /\ outbox \in Seq(Message)
  /\ DOMAIN submitted \subseteq OrderIds
  /\ submitted \in [DOMAIN submitted -> Order]
  /\ cancels \in 0..MaxCancels

Queued(id) == \E s \in Side : Entries(book[s], id) # {}

(* Two orders that differ in nothing a handler may not change.             *)
SameTerms(o, p) ==
  /\ o.id = p.id /\ o.side = p.side /\ o.qty = p.qty
  /\ o.price = p.price /\ o.tif = p.tif /\ o.expiry = p.expiry

(* A queued order is stored and indexed, under its own side and price.     *)
QueuedStored ==
  \A s \in Side : \A e \in book[s] :
    /\ e.id \in DOMAIN orders
    /\ orders[e.id].side = s /\ orders[e.id].price = e.price
    /\ e.id \in DOMAIN info

(* So is an indexed one.                                                   *)
IndexedStored ==
  \A id \in DOMAIN info :
    /\ id \in DOMAIN orders
    /\ info[id] = [side |-> orders[id].side, price |-> orders[id].price]

(* No order is queued twice and no two entries share a priority.           *)
TurnsDistinct ==
  \A s \in Side : \A e, f \in book[s] :
    /\ e.seq < nextSeq
    /\ e.id = f.id \/ e.seq = f.seq => e = f

(* The stored orders, and the one being processed, are as submitted.       *)
StoredSubmitted ==
  /\ \A id \in DOMAIN orders :
       id \in DOMAIN submitted /\ SameTerms(orders[id], submitted[id])
  /\ pc \in {"match", "rest"} =>
       /\ taker # NoOrder
       /\ taker.id \in DOMAIN submitted \ DOMAIN orders
       /\ SameTerms(taker, submitted[taker.id])

(* A handler holds what it needs and nothing of an earlier one.  It ends   *)
(* with at most one partial fill to put back, that of its last iteration.  *)
HandlerState ==
  /\ taker = NoOrder <=> pc \in {"recv", "expire"}
  /\ pc # "expire" => expired = {}
  /\ pc = "match" => taker.type \in {"Market", "Limit"}
  /\ pc = "rest" => taker.type = "Limit" /\ 0 < taker.qty
  /\ taker # NoOrder /\ taker.type = "Limit" => taker.price # NoPrice
  /\ partial # NoOrder =>
       /\ pc = "match" /\ Remaining(taker) = 0
       /\ partial \in DOMAIN info /\ ~Queued(partial)

(***************************************************************************)
(* The structures of a book that hold an order agree on it between any two *)
(* steps: bids, asks, orders, order_info and the local variables of the    *)
(* handlers.  The look-ups of the matching loop, whose failures the code   *)
(* only logs or passes over (order_book.rs:410, 426), never fail.          *)
(***************************************************************************)
BookConsistent ==
  QueuedStored /\ IndexedStored /\ TurnsDistinct /\ StoredSubmitted /\ HandlerState

-----------------------------------------------------------------------------
(* Sums over the stored orders and over the trades sent.                   *)
Open(id) == Remaining(orders[id])

OpenAt(side, price) ==
  SumFunction([id \in {i \in DOMAIN orders : orders[i].side = side /\ orders[i].price = price}
                 |-> Open(id)])

Trades == {i \in DOMAIN outbox : outbox[i].kind = "Trade"}
TradedBy(id, n) ==
  SumFunction([i \in {j \in Trades : j <= n /\ id \in {outbox[j].buy, outbox[j].sell}}
                 |-> outbox[i].qty])
Traded(id) == TradedBy(id, Len(outbox))

(***************************************************************************)
(* bid_quantities and ask_quantities, which are kept up to date by signed  *)
(* increments in four places, are what the stored orders of their price    *)
(* still have to fill, in every state and for every interleaving of fills, *)
(* cancellations and expiries.                                             *)
(***************************************************************************)
LevelsMatchOrders ==
  \A s \in Side, p \in Prices : level[s][p] = OpenAt(s, p)

(***************************************************************************)
(* What an order has filled, as recorded in the book, is what the trades   *)
(* sent to the clients add up to: for the resting side, whose record       *)
(* process_market_order replaces by an updated copy, and for the order     *)
(* being matched.                                                          *)
(***************************************************************************)
FillsMatchTrades ==
  /\ \A id \in DOMAIN orders :
       orders[id].side = "Sell" => orders[id].filled = Traded(id)
  /\ pc = "match" => taker.filled = Traded(taker.id)

(***************************************************************************)
(* No order trades more than its quantity, however often it is matched,    *)
(* reinserted and added to the book again, and one without a positive      *)
(* quantity does not trade a positive quantity.                            *)
(***************************************************************************)
NoOverfill ==
  \A id \in DOMAIN submitted :
    Traded(id) <= IF submitted[id].qty > 0 THEN submitted[id].qty ELSE 0

(***************************************************************************)
(* An update that reports a fill reports all the trades sent before it,    *)
(* and reports Filled exactly when they exhaust the order.                 *)
(***************************************************************************)
FillReportsMatchTrades ==
  \A i \in DOMAIN outbox \ Trades :
    LET m == outbox[i]
    IN  m.status \in {"PartiallyFilled", "Filled"} =>
          /\ m.filled = TradedBy(m.id, i)
          /\ m.status = "Filled" <=> m.filled = submitted[m.id].qty

(***************************************************************************)
(* Every trade is at a price both its orders accept, although the price    *)
(* of a trade is taken from the older order and not from the resting one.  *)
(***************************************************************************)
TradesWithinLimits ==
  \A i \in Trades :
    LET m == outbox[i]
    IN  /\ {m.buy, m.sell} \subseteq DOMAIN submitted
        /\ submitted[m.buy].side = "Buy" /\ submitted[m.sell].side = "Sell"
        /\ submitted[m.buy].price # NoPrice => m.price <= submitted[m.buy].price
        /\ submitted[m.sell].price # NoPrice => m.price >= submitted[m.sell].price

(* An order reported Canceled or Rejected is in no queue.                  *)
WithdrawnNotQueued ==
  \A i \in DOMAIN outbox \ Trades :
    outbox[i].status \in {"Canceled", "Rejected"} => ~Queued(outbox[i].id)

(***************************************************************************)
(* After an order was reported Filled, Canceled or Rejected it does not    *)
(* trade: no trade naming it is sent behind that update.                   *)
(***************************************************************************)
NoTradeAfterClose ==
  \A j \in Trades : \A i \in 1..(j - 1) :
    outbox[i].kind = "OrderUpdate" /\ outbox[i].status \in {"Filled", "Canceled", "Rejected"}
      => outbox[i].id \notin {outbox[j].buy, outbox[j].sell}

(***************************************************************************)
(* A sweep takes the best prices first, and one order at a time: of two    *)
(* trades of the same buy order the first is with the cheaper or equally   *)
(* cheap seller, who is told that all was sold before the second is made.  *)
(***************************************************************************)
SweepsBestFirst ==
  \A i, j \in Trades :
    i < j /\ outbox[i].buy = outbox[j].buy =>
      LET seller == outbox[i].sell
      IN  /\ submitted[seller].price <= submitted[outbox[j].sell].price
          /\ outbox[i + 1] = Update(seller, "Filled", submitted[seller].qty)

(***************************************************************************)
(* A handler that has begun can go on: a queue the matching loop needs an  *)
(* order of has a best one, whatever was reinserted with whatever turn,    *)
(* and a sweep that goes on has an order left.  (PriorityQueue::pop takes  *)
(* one of two equals; IsBest stands for it since there are none.)          *)
(***************************************************************************)
HandlerGoesOn ==
  LET queue == Opposite(taker.side)
  IN  /\ pc = "match" =>
           LoopOver \/ (Remaining(taker) > 0 /\ \E e \in book[queue] : IsBest(queue, e))
      /\ pc = "expire" => expired # {}

(***************************************************************************)
(* The steps a handler may still take.  The matching loop takes an order   *)
(* off its queue each time and puts one back only when it is over, and the *)
(* task takes no other message meanwhile, so they become fewer.            *)
(***************************************************************************)
StepsLeft ==
  CASE pc = "match"  -> Cardinality(book[Opposite(taker.side)]) + 2
    [] pc = "rest"   -> 1
    [] pc = "expire" -> Cardinality(expired)
    [] pc = "recv"   -> 0

HandlerShrinks == [][pc # "recv" => StepsLeft' < StepsLeft]_vars

(***************************************************************************)
(* The matching loop, and the sweep over the expired orders, come to an    *)
(* end: the task returns to its channel.                                   *)
(***************************************************************************)
HandlerTerminates == pc # "recv" ~> pc = "recv"
=============================================================================
