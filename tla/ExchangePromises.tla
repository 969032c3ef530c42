-------------------------- MODULE ExchangePromises --------------------------
(***************************************************************************)
(* What the tests of the code say of the exchange and an exchange with     *)
(* more than one book does not do.                                         *)
(***************************************************************************)
EXTENDS Exchange

(***************************************************************************)
(* integration_tests.rs:267-279 cancels an order that rests, keeps the     *)
(* last update of each order (:61-75) and takes it for the order's state:  *)
(* "Buy order should be canceled".  So Canceled is the last word on an     *)
(* order that was cancelled once.                                          *)
(***************************************************************************)
CanceledIsFinal ==
  [][Read => \/ Head(clientBox) = Notice
             \/ Head(clientBox).id \notin canceled]_vars
=============================================================================
