----------------------------- MODULE MCExchange -----------------------------
(* Instances of Exchange for TLC: one caller, two books.                   *)
EXTENDS ExchangePromises

TwoBooks == <<"A", "B">>

(* Two orders for the first book.                                          *)
BothInA == <<"A", "A">>

(* A match that fills the order, after which it is out or rests all the    *)
(* same, and one that does not, for an immediate-or-cancel limit order.    *)
FillOrCancel == {<<"Filled">>, <<"PartiallyFilled", "Canceled">>}
=============================================================================
