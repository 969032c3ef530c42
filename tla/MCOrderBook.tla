----------------------------- MODULE MCOrderBook -----------------------------
(* Instances of OrderBook for TLC: which orders the clients submit.        *)
EXTENDS OrderBookPromises, OrderBookLife

(* A new order; an absent price is NoPrice.                                *)
NewOrder(id, side, type, qty, price, stop, tif) ==
  [id |-> id, side |-> side, type |-> type, qty |-> qty, filled |-> 0,
   price |-> price, stop |-> stop, tif |-> tif, expiry |-> 1, status |-> "New"]

(* Two sellers at two prices and buyers of every kind: sweeps through one  *)
(* and two levels, partial fills on both sides, a sell that meets a bid.   *)
MatchingSubmissions ==
       {NewOrder(1, "Sell", "Limit", q, p, NoPrice, "GTC") : q \in {1, 2}, p \in {1, 2}}
  \cup {NewOrder(2, "Buy", "Limit", 2, p, NoPrice, t) : p \in {1, 2}, t \in {"IOC", "FOK", "GTC"}}
  \cup {NewOrder(3, "Sell", "Limit", 1, p, NoPrice, "GTC") : p \in {1, 2}}
  \cup {NewOrder(4, "Buy", "Market", q, NoPrice, NoPrice, t) : q \in {1, 3}, t \in {"IOC", "FOK", "GTC"}}

Until(expiry, o) == [o EXCEPT !.tif = "GTD", !.expiry = expiry]

(* Orders that expire or are cancelled around fills, stop orders, orders   *)
(* that fail a check; the id 5 belongs to an order of another book.        *)
LifecycleSubmissions ==
       {Until(1, NewOrder(1, "Sell", "Limit", 2, 1, NoPrice, "GTD"))}
  \cup {Until(2, NewOrder(2, "Sell", "Limit", 1, 2, NoPrice, "GTD"))}
  \cup {NewOrder(3, "Buy", "StopLimit", 1, 1, p, t) : p \in {1, 2}, t \in {"GTC", "IOC"}}
  \cup {NewOrder(3, "Buy", "StopLimit", 1, 1, NoPrice, "GTC")}
  \cup {NewOrder(3, "Sell", "Limit", 1, 1, NoPrice, t) : t \in {"FOK", "DAY"}}
  \cup {NewOrder(4, "Buy", "StopLoss", q, NoPrice, 1, "IOC") : q \in {0, 1, 2}}

(* A bid, and a market order on either side.                               *)
SellMarketSubmissions ==
  {NewOrder(1, "Buy", "Limit", 1, 1, NoPrice, "GTC"),
   NewOrder(2, "Sell", "Limit", 1, 2, NoPrice, "GTC"),
   NewOrder(3, "Sell", "Market", 1, NoPrice, NoPrice, "IOC"),
   NewOrder(4, "Buy", "Market", 1, NoPrice, NoPrice, "IOC")}
=============================================================================
