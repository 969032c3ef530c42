---------------------------- MODULE OrderBookLife ----------------------------
(***************************************************************************)
(* The book of OrderBook keeps the promises of OrderLife.                  *)
(***************************************************************************)
EXTENDS OrderBook

(* An order is in the market when it is queued, or held by the matching    *)
(* loop with a remainder that goes back to its queue.                      *)
InMarket(id) == Queued(id) \/ partial = id

PhaseOf(id) ==
  IF id \notin DOMAIN submitted              THEN "unknown"
  ELSE IF taker # NoOrder /\ taker.id = id   THEN "working"
  ELSE IF InMarket(id)                       THEN "market"
  ELSE "out"

ToldOf(id) == {outbox[i].status : i \in {j \in DOMAIN outbox \ Trades : outbox[j].id = id}}

Phase == [id \in OrderIds |-> PhaseOf(id)]
Told  == [id \in OrderIds |-> ToldOf(id)]
Deals == {<<outbox[i].buy, outbox[i].sell>> : i \in Trades}

Life == INSTANCE OrderLife WITH phase <- Phase, told <- Told, deals <- Deals

(***************************************************************************)
(* Every step of the book is a step in the life of an order, or is not     *)
(* visible to the clients: orders come once and are in one place, trade    *)
(* only between an order being matched and one in the market, neither of   *)
(* them closed before, and one that is out, or was withdrawn, stays out.   *)
(***************************************************************************)
KeepsPromises == Life!Spec
=============================================================================
