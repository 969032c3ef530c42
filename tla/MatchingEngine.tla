--------------------------- MODULE MatchingEngine ---------------------------
(***************************************************************************)
(* The rules of src/matching_engine.rs: which two orders may trade, how    *)
(* much of them, at which price, and when a fill-or-kill order may go      *)
(* ahead.  PriceTimeMatchingEngine and ProRataMatchingEngine have the same *)
(* bodies, so one set of operators stands for both.                        *)
(*                                                                         *)
(* Decimals are integers: the engine only compares, subtracts and takes    *)
(* minima.  Both orders of a call belong to one book, whose process_order  *)
(* refuses every other symbol, so the symbol test of can_match is dropped. *)
(***************************************************************************)
EXTENDS Integers

CONSTANT NoPrice   (* Option::None in the price fields of an order         *)

Side == {"Buy", "Sell"}

(* Quantity still to be filled: order.quantity - order.filled_quantity.    *)
Remaining(o) == o.qty - o.filled

(***************************************************************************)
(* A client numbers its orders in the order in which it creates them, so   *)
(* created_at is compared by comparing ids.  (A tie between a buy and a    *)
(* sell takes the branch of the younger buy, so nothing is lost by having  *)
(* no ties.)                                                               *)
(***************************************************************************)
CreatedBefore(o, p) == o.id < p.id

-----------------------------------------------------------------------------
(* Mutation of CanMatch: the price test is lost.                           *)
CanMatchAnyPrice(buy, sell) == buy.side = "Buy" /\ sell.side = "Sell"

CanMatch(buy, sell) ==
  /\ buy.side = "Buy"
  /\ sell.side = "Sell"
  /\ (buy.price # NoPrice /\ sell.price # NoPrice) => buy.price >= sell.price

(* Mutation of MatchQty: trades what the taker wants, not what is there.   *)
MatchQtyOfBuyer(buy, sell) == Remaining(buy)

MatchQty(buy, sell) ==
  IF Remaining(buy) <= Remaining(sell) THEN Remaining(buy) ELSE Remaining(sell)

(* match_orders returns Err in exactly these cases.                        *)
MatchFails(buy, sell) == ~CanMatch(buy, sell) \/ MatchQty(buy, sell) = 0

(* Mutation of MatchPrice: always the buyer's limit.                       *)
MatchPriceOfBuyer(buy, sell, last) == buy.price

(***************************************************************************)
(* The older of two limit orders sets the price; against an order without  *)
(* a price, the other one does; two of those trade at the last price, or   *)
(* at 0 before the first trade.                                            *)
(***************************************************************************)
MatchPrice(buy, sell, last) ==
  CASE buy.price # NoPrice /\ sell.price # NoPrice ->
         IF CreatedBefore(buy, sell) THEN buy.price ELSE sell.price
    [] buy.price = NoPrice /\ sell.price # NoPrice -> sell.price
    [] buy.price # NoPrice /\ sell.price = NoPrice -> buy.price
    [] OTHER -> IF last = NoPrice THEN 0 ELSE last

(* validate_time_in_force: a fill-or-kill order needs its whole quantity.  *)
TimeInForceHolds(o, fillQty) == o.tif = "FOK" => fillQty >= o.qty
=============================================================================
