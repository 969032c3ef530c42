------------------------------ MODULE Exchange ------------------------------
(***************************************************************************)
(* The exchange as a pipeline of tasks (src/exchange.rs, around the router *)
(* of Router): callers of submit_order and cancel_order and the heartbeat  *)
(* task send to the router, the books answer to process_exchange_messages, *)
(* which forwards to the channel the client reads.                         *)
(*                                                                         *)
(* A book is reduced to the orders that rest in it and the answers it has  *)
(* still to send.  What it does with an order is left open, within the     *)
(* bounds of OrderLife; a cancellation is answered by what rests.          *)
(***************************************************************************)
EXTENDS Router, FiniteSets

CONSTANTS
  Callers,         (* the tasks that call the exchange                      *)
  Heart,           (* the heartbeat task                                    *)
  SymbolOf,        (* the symbol of each order, a sequence: clients submit  *)
                   (* each order once, and its number says when             *)
  Verdicts,        (* how a book ends its work on an order: the last updates*)
                   (* on it, behind those on its trades                     *)
  ClientCapacity,  (* the capacity of the client's channel                  *)
  MaxCancels,      (* bound: calls of cancel_order                          *)
  MaxBeats,        (* bound: heartbeats                                     *)
  MaxNotices,      (* bound: calls of notify_clients that succeed           *)
  Reader,          (* a task of its own that reads the client's channel     *)
  Nobody           (* the client has dropped its receiver                   *)

Orders == DOMAIN SymbolOf
Senders == Callers \cup {Heart}

(* The messages to the router.  place is history, the place of a message   *)
(* in the line of each book.                                               *)
Place == [Symbols -> Nat]

RouterMessage ==
  [kind : {"SubmitOrder"}, id : Orders, symbol : Range(SymbolOf), place : Place]
    \cup [kind : {"CancelOrder"}, id : Orders, place : Place]
    \cup [kind : {"Heartbeat"}, place : Place]

(* The messages of the books, with their places among those of each book.  *)
OrderStatus == {"New", "PartiallyFilled", "Filled", "Canceled", "Rejected"}
AnswerMessage == [from : Symbols, id : Orders, status : OrderStatus \cup {"Trade"}, place : Nat]

ASSUME ExchangeAssumption ==
  /\ IsFiniteSet(Callers) /\ Heart \notin Callers
  /\ ClientCapacity \in Nat \ {0}
  /\ MaxCancels \in Nat /\ MaxBeats \in Nat /\ MaxNotices \in Nat
  /\ Reader \notin Callers /\ Nobody \notin Callers \cup {Reader} \cup Symbols
  /\ NoMessage \notin RouterMessage \cup AnswerMessage
  /\ Verdicts \subseteq Seq(OrderStatus)
  /\ \A v \in Verdicts :
       /\ Len(v) <= 2
       /\ \A i, j \in DOMAIN v : v[i] = "Canceled" /\ v[j] = "Canceled" => i = j

VARIABLES
  sending,     (* the message each task waits to send to the router         *)
  resting,     (* the orders that rest in each book                         *)
  answering,   (* what each book has still to send for its current message  *)
  exchangeBox, (* exchange_tx: the channel all books answer into            *)
  forwarding,  (* the message process_exchange_messages has in its hands    *)
  clientBox,   (* client_tx                                                 *)
  receiver,    (* who holds the receiver of client_tx                       *)
  submitted,   (* the number of orders for which submit_order was called    *)
  cancels, beats, notices,   (* how often each was done                     *)
  entered,     (* history: the messages the router was given for each book  *)
  handled,     (* history: the messages each book has taken                 *)
  answered,    (* history: the answers each book has produced               *)
  read,        (* history: the answers of each book the client has read     *)
  canceled     (* history: the orders the client has read to be Canceled    *)

inputVars == <<submitted, cancels, beats, notices>>
bookVars == <<resting, answering, handled, answered>>
clientVars == <<forwarding, clientBox, receiver, read, canceled>>
vars == <<routerVars, sending, entered, bookVars, exchangeBox, clientVars, inputVars>>

-----------------------------------------------------------------------------
NoPlace == [s \in Symbols |-> 0]

Submission(o)   == [kind |-> "SubmitOrder", id |-> o, symbol |-> SymbolOf[o], place |-> NoPlace]
Cancellation(o) == [kind |-> "CancelOrder", id |-> o, place |-> NoPlace]
Heartbeat       == [kind |-> "Heartbeat", place |-> NoPlace]

(* Mutation of Enter: the channel takes every message at once.             *)
EnterUnbounded(m) ==
  /\ entered' = [s \in Symbols |->
                   IF s \in Range(Route(m)) THEN entered[s] + 1 ELSE entered[s]]
  /\ routerBox' = Append(routerBox, [m EXCEPT !.place = entered'])
  /\ UNCHANGED <<bookBox, routing, togo>>

(* A message enters the channel to the router, and the lines of its books. *)
Enter(m) ==
  /\ HasRoom(routerBox, Capacity)
  /\ entered' = [s \in Symbols |->
                   IF s \in Range(Route(m)) THEN entered[s] + 1 ELSE entered[s]]
  /\ routerBox' = Append(routerBox, [m EXCEPT !.place = entered'])
  /\ UNCHANGED <<bookBox, routing, togo>>

(* router_tx.send(m).await: the call returns, or waits for its turn.       *)
Begin(c, m) ==
  /\ sending[c] = NoMessage
  /\ IF HasRoom(routerBox, Capacity) /\ \A d \in Senders : sending[d] = NoMessage
     THEN Enter(m) /\ UNCHANGED sending
     ELSE sending' = [sending EXCEPT ![c] = m] /\ UNCHANGED <<routerVars, entered>>
  /\ UNCHANGED <<bookVars, exchangeBox, clientVars, notices>>

(* submit_order refuses an unknown symbol; nothing is sent then.           *)
SubmitOrder(c, o) ==
  /\ o = submitted + 1
  /\ submitted' = o
  /\ IF SymbolOf[o] \in Symbols
     THEN Begin(c, Submission(o))
     ELSE UNCHANGED <<routerVars, sending, entered, bookVars, exchangeBox, clientVars, notices>>
  /\ UNCHANGED <<cancels, beats>>

(* cancel_order takes every id, also that of an order that was refused.    *)
CancelOrder(c, o) ==
  /\ cancels < MaxCancels
  /\ o <= submitted
  /\ Begin(c, Cancellation(o))
  /\ cancels' = cancels + 1
  /\ UNCHANGED <<submitted, beats>>

(* start_heartbeat; a tick at which the clock cannot be read sends nothing.*)
Beat ==
  /\ beats < MaxBeats
  /\ Begin(Heart, Heartbeat)
  /\ beats' = beats + 1
  /\ UNCHANGED <<submitted, cancels>>

(* The call of a task that waited returns.                                *)
Accept(c) ==
  /\ sending[c] # NoMessage
  /\ Enter(sending[c])
  /\ sending' = [sending EXCEPT ![c] = NoMessage]
  /\ UNCHANGED <<bookVars, exchangeBox, clientVars, inputVars>>

(* The router does one of its steps.                                       *)
RouterStep ==
  /\ RouterNext
  /\ UNCHANGED <<sending, entered, bookVars, exchangeBox, clientVars, inputVars>>

-----------------------------------------------------------------------------
(* The books.  An answer carries its place among those of its book.        *)
Answer(s, id, status, n) == [from |-> s, id |-> id, status |-> status, place |-> n]

(* Book s takes a message of this kind when it has sent all its answers.   *)
Take(s, kind) ==
  /\ answering[s] = <<>>
  /\ bookBox[s] # <<>>
  /\ Head(bookBox[s]).kind = kind
  /\ bookBox' = [bookBox EXCEPT ![s] = Tail(@)]
  /\ handled' = [handled EXCEPT ![s] = @ + 1]
  /\ UNCHANGED <<routerBox, routing, togo, sending, entered, exchangeBox, clientVars, inputVars>>

(* It is going to send these updates, given as pairs of an id and a status.*)
Reply(s, updates) ==
  /\ answering' = [answering EXCEPT ![s] =
       [i \in DOMAIN updates |->
          Answer(s, updates[i][1], updates[i][2], answered[s] + i)]]
  /\ answered' = [answered EXCEPT ![s] = @ + Len(updates)]

(* The matching loop tells of a trade, then of the order o has met.        *)
Trades(o, met, gone) ==
  [i \in 1..(2 * Len(met)) |->
     IF i % 2 = 1 THEN <<o, "Trade">>
     ELSE <<met[i \div 2], IF met[i \div 2] \in gone THEN "Filled" ELSE "PartiallyFilled">>]

LastWords(o, verdict) == [i \in DOMAIN verdict |-> <<o, verdict[i]>>]

(***************************************************************************)
(* process_order.  The order rests without a word; or it meets some of the *)
(* orders that rest, in any order, all of them filled but perhaps the last,*)
(* and then is out.  The one that a match fails with is gone as well.  A   *)
(* limit order may rest although it is filled.                             *)
(***************************************************************************)
TakeOrder(s) ==
  /\ Take(s, "SubmitOrder")
  /\ LET o == Head(bookBox[s]).id
     IN \/ /\ resting' = [resting EXCEPT ![s] = @ \cup {o}]
           /\ Reply(s, <<>>)
        \/ \E makers \in SUBSET resting[s], gone \in SUBSET resting[s],
              verdict \in Verdicts, again \in SUBSET {o} :
             /\ "Filled" \in Range(verdict) \/ again # {} => makers # {}
             /\ again # {} => Range(verdict) \cap {"Canceled", "Rejected"} = {}
             /\ gone \subseteq makers \/ "Rejected" \in Range(verdict)
             /\ resting' = [resting EXCEPT ![s] = (@ \ gone) \cup again]
             /\ \E met \in Bijection(1..Cardinality(makers), makers) :
                  /\ \A i \in DOMAIN met : met[i] \in gone \/ i = Cardinality(makers)
                  /\ Reply(s, Trades(o, met, gone) \o LastWords(o, verdict))

(* Mutation of TakeCancel: the order is reported and keeps its place.      *)
TakeCancelKeeping(s) ==
  /\ Take(s, "CancelOrder")
  /\ LET o == Head(bookBox[s]).id
     IN Reply(s, <<<<o, IF o \in resting[s] THEN "Canceled" ELSE "Rejected">>>>)
  /\ UNCHANGED resting

(* cancel_order of the book; run answers its error.                        *)
TakeCancel(s) ==
  /\ Take(s, "CancelOrder")
  /\ LET o == Head(bookBox[s]).id
     IN /\ resting' = [resting EXCEPT ![s] = @ \ {o}]
        /\ Reply(s, <<<<o, IF o \in resting[s] THEN "Canceled" ELSE "Rejected">>>>)

(* check_expired_orders, which may find any of the orders that rest, and   *)
(* goes through them in any order.  It reads the clock: the books of this  *)
(* module are those that never read it when that panics, and so live.      *)
TakeHeartbeat(s) ==
  /\ Take(s, "Heartbeat")
  /\ \E expired \in SUBSET resting[s] :
       /\ resting' = [resting EXCEPT ![s] = @ \ expired]
       /\ \E q \in Bijection(1..Cardinality(expired), expired) :
            Reply(s, [i \in DOMAIN q |-> <<q[i], "Canceled">>])

(* Mutation of BookSend: the last answer goes first.                       *)
BookSendLastFirst(s) ==
  /\ answering[s] # <<>>
  /\ HasRoom(exchangeBox, Capacity)
  /\ exchangeBox' = Append(exchangeBox, answering[s][Len(answering[s])])
  /\ answering' = [answering EXCEPT ![s] = SubSeq(@, 1, Len(@) - 1)]
  /\ UNCHANGED <<routerVars, sending, entered, resting, handled, answered, clientVars, inputVars>>

(* router_tx.send(update).await in a handler of the book.                  *)
BookSend(s) ==
  /\ answering[s] # <<>>
  /\ HasRoom(exchangeBox, Capacity)
  /\ exchangeBox' = Append(exchangeBox, Head(answering[s]))
  /\ answering' = [answering EXCEPT ![s] = Tail(@)]
  /\ UNCHANGED <<routerVars, sending, entered, resting, handled, answered, clientVars, inputVars>>

-----------------------------------------------------------------------------
(* process_exchange_messages.                                              *)

(* Mutation of Deliver: the task never learns that the client is gone.     *)
DeliverToClient(m) ==
  /\ receiver # Nobody /\ HasRoom(clientBox, ClientCapacity)
  /\ clientBox' = Append(clientBox, m)

(* client_tx.send(m).await ends, without effect when the client is gone.   *)
Deliver(m) ==
  \/ /\ receiver # Nobody /\ HasRoom(clientBox, ClientCapacity)
     /\ clientBox' = Append(clientBox, m)
  \/ receiver = Nobody /\ UNCHANGED clientBox

CanDeliver == receiver = Nobody \/ HasRoom(clientBox, ClientCapacity)

(* The task takes a message and sends it on, or waits until it can.        *)
ForwardTake ==
  /\ forwarding = NoMessage
  /\ exchangeBox # <<>>
  /\ exchangeBox' = Tail(exchangeBox)
  /\ IF CanDeliver
     THEN Deliver(Head(exchangeBox)) /\ UNCHANGED forwarding
     ELSE forwarding' = Head(exchangeBox) /\ UNCHANGED clientBox
  /\ UNCHANGED <<routerVars, sending, entered, bookVars, receiver, read, canceled, inputVars>>

ForwardSend ==
  /\ forwarding # NoMessage
  /\ Deliver(forwarding)
  /\ forwarding' = NoMessage
  /\ UNCHANGED <<routerVars, sending, entered, bookVars, exchangeBox, receiver, read, canceled,
                 inputVars>>

(* notify_clients: try_send, past the messages still in the pipeline; it   *)
(* fails when the channel is full, or a sender waits for its room.         *)
Notice == [from |-> Nobody]

NotifyClients ==
  /\ notices < MaxNotices
  /\ forwarding = NoMessage /\ receiver # Nobody /\ HasRoom(clientBox, ClientCapacity)
  /\ clientBox' = Append(clientBox, Notice)
  /\ notices' = notices + 1
  /\ UNCHANGED <<routerVars, sending, entered, bookVars, exchangeBox, forwarding, receiver,
                 read, canceled, submitted, cancels, beats>>

(* The client reads, a caller that holds the receiver between its calls.   *)
Read ==
  /\ clientBox # <<>>
  /\ receiver \in Callers => sending[receiver] = NoMessage
  /\ clientBox' = Tail(clientBox)
  /\ LET m == Head(clientBox)
     IN IF m = Notice THEN UNCHANGED <<read, canceled>>
        ELSE /\ read' = [read EXCEPT ![m.from] = @ + 1]
             /\ canceled' = IF m.status = "Canceled" THEN canceled \cup {m.id} ELSE canceled
  /\ UNCHANGED <<routerVars, sending, entered, bookVars, exchangeBox, forwarding, receiver,
                 inputVars>>

(* The client drops the receiver, and what is in its channel is gone.      *)
DropReceiver ==
  /\ receiver # Nobody
  /\ receiver \in Callers => sending[receiver] = NoMessage
  /\ receiver' = Nobody
  /\ clientBox' = <<>>
  /\ UNCHANGED <<routerVars, sending, entered, bookVars, exchangeBox, forwarding, read, canceled,
                 inputVars>>

-----------------------------------------------------------------------------
Init ==
  /\ RouterInit
  /\ sending = [c \in Senders |-> NoMessage]
  /\ resting = [s \in Symbols |-> {}]
  /\ answering = [s \in Symbols |-> <<>>]
  /\ exchangeBox = <<>> /\ forwarding = NoMessage /\ clientBox = <<>>
  /\ receiver \in Callers \cup {Reader}
  /\ submitted = 0 /\ cancels = 0 /\ beats = 0 /\ notices = 0
  /\ entered = [s \in Symbols |-> 0] /\ handled = [s \in Symbols |-> 0]
  /\ answered = [s \in Symbols |-> 0] /\ read = [s \in Symbols |-> 0]
  /\ canceled = {}

BookTake(s) == TakeOrder(s) \/ TakeCancel(s) \/ TakeHeartbeat(s)

(* What the tasks of the exchange do, and a client that only reads.        *)
Work ==
  \/ \E c \in Senders : Accept(c)
  \/ RouterStep
  \/ \E s \in Symbols : BookTake(s) \/ BookSend(s)
  \/ ForwardTake \/ ForwardSend
  \/ receiver = Reader /\ Read

Next ==
  \/ Work
  \/ \E c \in Callers, o \in Orders : SubmitOrder(c, o) \/ CancelOrder(c, o)
  \/ Beat \/ NotifyClients
  \/ receiver # Reader /\ Read
  \/ DropReceiver

Spec == Init /\ [][Next]_vars

-----------------------------------------------------------------------------
(***************************************************************************)
(*                              Properties                                 *)
(***************************************************************************)

(* The channels keep their bounds, and no task holds what it cannot.       *)
TypeOK ==
  /\ Len(routerBox) <= Capacity /\ Len(exchangeBox) <= Capacity
  /\ Len(clientBox) <= ClientCapacity
  /\ \A s \in Symbols : Len(bookBox[s]) <= Capacity /\ resting[s] \subseteq 1..submitted
  /\ routing = NoMessage <=> togo = <<>>
  /\ receiver \in Callers \cup {Reader, Nobody}

(* The messages for book s that have left the channel to the router.       *)
Passed(s) ==
  handled[s] + Len(bookBox[s]) + (IF s \in Range(togo) THEN 1 ELSE 0)

(* The messages for book s accepted before the i-th in that channel.       *)
AcceptedBefore(s, i) == IF i = 1 THEN Passed(s) ELSE routerBox[i - 1].place[s]

(* What the books have sent and the client has not read, and the places of *)
(* it that came from book s.                                               *)
Line == clientBox \o (IF forwarding = NoMessage THEN <<>> ELSE <<forwarding>>) \o exchangeBox
From(s) == {i \in DOMAIN Line : Line[i].from = s}

(***************************************************************************)
(* Every accepted message reaches each book it is for once, and in the     *)
(* order in which the messages were accepted, past a router that stops at  *)
(* every full channel: all on the way to book s carry consecutive places,  *)
(* from the first it has not handled to the last that was accepted.        *)
(***************************************************************************)
DeliveredInOrder ==
  \A s \in Symbols :
    /\ \A i \in DOMAIN bookBox[s] : bookBox[s][i].place[s] = handled[s] + i
    /\ s \in Range(togo) => routing.place[s] = Passed(s)
    /\ \A i \in DOMAIN routerBox :
         routerBox[i].place[s] =
           AcceptedBefore(s, i) + (IF s \in Range(Route(routerBox[i])) THEN 1 ELSE 0)
    /\ entered[s] = AcceptedBefore(s, Len(routerBox) + 1)

(***************************************************************************)
(* As long as the client keeps its receiver, it reads every answer of a    *)
(* book once, and in the order in which the book produced them, whatever   *)
(* the other books answer and notify_clients puts in between.              *)
(***************************************************************************)
AnsweredInOrder ==
  receiver # Nobody =>
    \A s \in Symbols :
      LET sent == answered[s] - Len(answering[s])
      IN  /\ read[s] <= sent
          /\ {Line[i].place : i \in From(s)} = (read[s] + 1)..sent
          /\ \A i, j \in From(s) : i < j => Line[i].place < Line[j].place
          /\ \A i \in DOMAIN answering[s] : answering[s][i].place = sent + i

(***************************************************************************)
(* Although a cancellation goes to every book, is repeated and races with  *)
(* expiry and fills, an order is reported Canceled at most once, by the    *)
(* book of its symbol, and does not rest when it is.                       *)
(***************************************************************************)
Cancels(s) ==
  {m \in {Line[i] : i \in From(s)} \cup Range(answering[s]) : m.status = "Canceled"}

CanceledOnce ==
  \A s \in Symbols : \A a \in Cancels(s) :
    /\ a.id \notin resting[s] \cup canceled
    /\ SymbolOf[a.id] = s
    /\ \A u \in Symbols : \A b \in Cancels(u) : a.id = b.id => a = b

(* Every channel and every task between a call and its reader is full.     *)
Jammed ==
  /\ ~HasRoom(routerBox, Capacity)
  /\ togo # <<>> /\ ~HasRoom(bookBox[Head(togo)], Capacity)
  /\ ~HasRoom(exchangeBox, Capacity)
  /\ forwarding # NoMessage /\ ~HasRoom(clientBox, ClientCapacity)

Waiting == \E c \in Senders : sending[c] # NoMessage

(* All messages were handled by their books and every answer is through.   *)
Quiet ==
  /\ ~Waiting
  /\ handled = entered
  /\ \A s \in Symbols : answering[s] = <<>>
  /\ exchangeBox = <<>> /\ forwarding = NoMessage
  /\ receiver = Reader => clientBox = <<>>

(* What the tasks of the exchange, and a client that only reads, wait for. *)
CanWork ==
  \/ Waiting /\ HasRoom(routerBox, Capacity)
  \/ routing = NoMessage /\ routerBox # <<>>
  \/ togo # <<>> /\ HasRoom(bookBox[Head(togo)], Capacity)
  \/ \E s \in Symbols : answering[s] = <<>> /\ bookBox[s] # <<>>
  \/ \E s \in Symbols : answering[s] # <<>> /\ HasRoom(exchangeBox, Capacity)
  \/ forwarding = NoMessage /\ exchangeBox # <<>>
  \/ forwarding # NoMessage /\ CanDeliver
  \/ receiver = Reader /\ clientBox # <<>>

(***************************************************************************)
(* And for nothing else: no message is of a kind that a task cannot take,  *)
(* no handler needs an order that is not there, and process_exchange_      *)
(* messages goes on when the client has dropped its receiver.              *)
(***************************************************************************)
WaitsForNothingElse == CanWork <=> ENABLED Work

(***************************************************************************)
(* The pipeline only stops when it is done, or when the client that calls  *)
(* the exchange does not read.  A call, and the heartbeat, then waits for  *)
(* ever only if everything between it and the client is full: a client     *)
(* with a task that reads, or one that has dropped its receiver, is never  *)
(* kept waiting.                                                           *)
(***************************************************************************)
StopsDoneOrUnread ==
  ~CanWork =>
    \/ Quiet
    \/ /\ receiver \in Callers /\ ~HasRoom(clientBox, ClientCapacity)
       /\ Waiting => Jammed

(***************************************************************************)
(* What is still to be done, with a weight for each place on the way that  *)
(* covers all that can follow: a message a book takes causes two answers   *)
(* on each order that is met, of which all but one rest no more, and two   *)
(* in the end; an order that rests, one report of its expiry.              *)
(***************************************************************************)
Effort ==
  LET Books == Cardinality(Symbols)
      AtBook(s) ==
        25 * (entered[s] - handled[s]) + 8 * Cardinality(resting[s]) + 4 * Len(answering[s])
  IN (27 * Books + 2) * Cardinality({c \in Senders : sending[c] # NoMessage})
     + (Books + 1) * Len(routerBox) + Len(togo)
     + SumFunction([s \in Symbols |-> AtBook(s)])
     + 3 * Len(exchangeBox) + (IF forwarding = NoMessage THEN 0 ELSE 2) + Len(clientBox)

(***************************************************************************)
(* And it does stop: every step that is not a new call uses up some of the *)
(* effort that the calls so far have cost, so no task of the exchange      *)
(* turns in circles or keeps another from its turn for ever.               *)
(***************************************************************************)
EffortSpent == [][UNCHANGED <<inputVars, receiver>> => Effort' < Effort]_vars
=============================================================================
