-------------------------- MODULE OrderBookPromises --------------------------
(***************************************************************************)
(* What the comments and messages of the code say of an order book and the *)
(* book does not do.  Each of these formulas is checked by a run of its    *)
(* own, in which TLC shows how it fails.                                   *)
(***************************************************************************)
EXTENDS OrderBook

Reported(id, status) ==
  \E i \in DOMAIN outbox \ Trades : outbox[i].id = id /\ outbox[i].status = status

(***************************************************************************)
(* model.rs:28: a fill-or-kill order executes completely or not at all.    *)
(***************************************************************************)
FillOrKillAtomic ==
  Idle => \A id \in DOMAIN submitted :
    submitted[id].tif = "FOK" => Traded(id) \in {0, submitted[id].qty}

(***************************************************************************)
(* order_book.rs:581, 586: only a remainder is added to the book, a fully  *)
(* processed order is not.                                                 *)
(***************************************************************************)
FilledNotQueued == \A id \in DOMAIN submitted : Reported(id, "Filled") => ~Queued(id)

(***************************************************************************)
(* order_book.rs:234 reports it as an error that an indexed order is not   *)
(* queued: between two messages every indexed order can be matched.        *)
(***************************************************************************)
IndexedQueued == Idle => \A id \in DOMAIN info : Queued(id)

(***************************************************************************)
(* order_book.rs:246: a market order executes immediately at the current   *)
(* prices, so it is not rejected while it is being matched.                *)
(***************************************************************************)
MarketOrderExecutes ==
  [][pc = "match" /\ taker.type = "Market"
       => \A i \in DOMAIN outbox' \ DOMAIN outbox :
            outbox'[i] # Update(taker.id, "Rejected", 0)]_vars

(***************************************************************************)
(* order_book.rs:28, 31: equal prices are served oldest first.  The order  *)
(* that was best when it was popped and keeps a remainder is best again    *)
(* when it has been put back.                                              *)
(***************************************************************************)
PartialFillKeepsItsTurn ==
  [][pc = "match" /\ partial # NoOrder
       => \A s \in Side : \A e \in Entries(book'[s], partial) : IsBest(s, e)']_vars

(***************************************************************************)
(* order_book.rs:665, 679: a buy stop triggers when the market price is at *)
(* or above the stop price, a sell stop when it is at or below it.         *)
(***************************************************************************)
ThroughStop(o) ==
  \A e \in book[Opposite(o.side)] :
    IF o.side = "Buy" THEN e.price >= o.stop ELSE e.price <= o.stop

StopTriggersAtStop ==
  [][Idle /\ pc' = "match" /\ submitted'[taker'.id].type \in StopTypes
       => ThroughStop(taker')]_vars

(***************************************************************************)
(* order_book.rs:868: the sweep cancels the expired orders, so when it is  *)
(* over none of those it collected is queued.                              *)
(***************************************************************************)
SweepCancelsExpired ==
  [][pc = "expire" /\ pc' = "recv" => \A id \in expired : ~Queued(id)']_vars
=============================================================================
