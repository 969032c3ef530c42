------------------------------- MODULE Router -------------------------------
(***************************************************************************)
(* The router task (src/router.rs): it takes messages from the channel the *)
(* exchange gives it and puts each into the channel of the book it is for, *)
(* or of every book.  All channels are bounded, and a task that sends into *)
(* a full one waits.                                                       *)
(***************************************************************************)
EXTENDS Naturals, Sequences, Functions

CONSTANTS
  Broadcast,   (* the symbols, in the order in which DashMap visits them;   *)
               (* it is fixed, as no book is created after Exchange::new    *)
  Capacity,    (* channel_capacity                                          *)
  NoMessage    (* a task has no message in its hands                        *)

Symbols == Range(Broadcast)

ASSUME RouterAssumption ==
  /\ Broadcast \in Seq(Symbols) /\ IsInjective(Broadcast)
  /\ Capacity \in Nat \ {0}

VARIABLES
  routerBox,   (* the channel to the router                                 *)
  bookBox,     (* order_book_tx: the channel to each book                   *)
  routing,     (* the message in the router's hands                         *)
  togo         (* the books it still has to go to, in order                 *)

routerVars == <<routerBox, bookBox, routing, togo>>

HasRoom(box, capacity) == Len(box) < capacity

-----------------------------------------------------------------------------
(* Mutation of Route: an order is broadcast, like everything else.         *)
RouteToAll(m) == Broadcast

(***************************************************************************)
(* route_message: an order goes to the book of its symbol, a cancellation  *)
(* and a heartbeat to all of them.                                         *)
(***************************************************************************)
Route(m) ==
  IF m.kind # "SubmitOrder" THEN Broadcast
  ELSE IF m.symbol \in Symbols THEN <<m.symbol>>
  ELSE <<>>

(* run takes a message; one for a symbol without a book is only logged.    *)
RouterTake ==
  /\ routing = NoMessage
  /\ routerBox # <<>>
  /\ routerBox' = Tail(routerBox)
  /\ togo' = Route(Head(routerBox))
  /\ routing' = IF togo' = <<>> THEN NoMessage ELSE Head(routerBox)
  /\ UNCHANGED bookBox

(* Mutation of RouterSend: try_send, which gives up on a full channel.     *)
RouterTrySend ==
  /\ togo # <<>>
  /\ bookBox' = IF HasRoom(bookBox[Head(togo)], Capacity)
                THEN [bookBox EXCEPT ![Head(togo)] = Append(@, routing)]
                ELSE bookBox
  /\ togo' = Tail(togo)
  /\ routing' = IF togo' = <<>> THEN NoMessage ELSE routing
  /\ UNCHANGED routerBox

(* Mutation of RouterSend: the loop over the books begins again.           *)
RouterSendAgain ==
  /\ togo # <<>>
  /\ HasRoom(bookBox[Head(togo)], Capacity)
  /\ bookBox' = [bookBox EXCEPT ![Head(togo)] = Append(@, routing)]
  /\ togo' = Route(routing)
  /\ UNCHANGED <<routerBox, routing>>

(***************************************************************************)
(* tx.send(message).await: the router waits for room in the channel of the *)
(* next book, and with it everything that is behind the message.           *)
(***************************************************************************)
RouterSend ==
  /\ togo # <<>>
  /\ HasRoom(bookBox[Head(togo)], Capacity)
  /\ bookBox' = [bookBox EXCEPT ![Head(togo)] = Append(@, routing)]
  /\ togo' = Tail(togo)
  /\ routing' = IF togo' = <<>> THEN NoMessage ELSE routing
  /\ UNCHANGED routerBox

RouterInit ==
  /\ routerBox = <<>>
  /\ bookBox = [s \in Symbols |-> <<>>]
  /\ routing = NoMessage /\ togo = <<>>

RouterNext == RouterTake \/ RouterSend
=============================================================================
