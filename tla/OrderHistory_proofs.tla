------------------------- MODULE OrderHistory_proofs -------------------------
(***************************************************************************)
(* Proofs about what a book has told its clients: trades are within the    *)
(* limits of both orders, an order reported out of the market is in no     *)
(* queue, and no trade follows the report that closed its order.           *)
(***************************************************************************)
EXTENDS OrderBook_proofs

Withdrawing == {"Canceled", "Rejected"}
Closing     == {"Filled", "Canceled", "Rejected"}

Withdrawn(id) ==
  \E i \in DOMAIN outbox \ Trades : outbox[i].id = id /\ outbox[i].status \in Withdrawing

Closed(id) ==
  \E i \in DOMAIN outbox \ Trades : outbox[i].id = id /\ outbox[i].status \in Closing

(* The trades sent so far.                                                 *)
TradeHistory == TradesWithinLimits /\ NoTradeAfterClose

(***************************************************************************)
(* The queues.  A bid may be closed: an incoming order that was filled can *)
(* be added to the book again.  It does not trade, since only incoming buy *)
(* orders find a match, so it is the asks that have to be open.            *)
(***************************************************************************)
BookHistory ==
  \A id \in OrderIds :
    /\ Withdrawn(id) => ~Queued(id)
    /\ Closed(id) => Entries(book["Sell"], id) = {}
    /\ Closed(id) => id \in DOMAIN submitted \/ \A o \in Submissions : o.id # id

(***************************************************************************)
(* The order being matched is open until its final update.  What remains   *)
(* to be added to the book was not withdrawn by that update, because fills *)
(* do not exceed a positive quantity, and is a buy order, because a sell   *)
(* order ends in FailNext as long as there are bids, and enters the loop   *)
(* with some.                                                              *)
(***************************************************************************)
HandlerHistory ==
  /\ pc = "match" =>
       /\ ~Closed(taker.id)
       /\ 0 < taker.qty => Remaining(taker) >= 0
       /\ taker.side = "Sell" /\ taker.type = "Limit"
            => taker.filled = 0 /\ book["Buy"] # {}
  /\ pc = "rest" =>
       /\ taker.side = "Buy"
       /\ taker.tif # "IOC" => ~Withdrawn(taker.id)
  /\ partial # NoOrder => ~Closed(partial)

History == TradeHistory /\ BookHistory /\ HandlerHistory

-----------------------------------------------------------------------------
(*                        What a step sends                                *)

LEMMA OutboxFacts ==
  ASSUME outbox \in Seq(Message)
  PROVE  /\ DOMAIN outbox = 1..Len(outbox) /\ Len(outbox) \in Nat
         /\ Trades \subseteq DOMAIN outbox
         /\ \A i \in DOMAIN outbox : outbox[i] \in Message
  BY LenProperties, ElementOfSeq DEF Trades

(* Sending the messages msgs appends them.                                 *)
LEMMA SendPlaces ==
  ASSUME outbox \in Seq(Message), NEW msgs \in Seq(Message), Send(msgs)
  PROVE  /\ \A i \in DOMAIN outbox : i \in DOMAIN outbox' /\ outbox'[i] = outbox[i]
         /\ \A i \in DOMAIN outbox' \ DOMAIN outbox :
              i - Len(outbox) \in DOMAIN msgs /\ outbox'[i] = msgs[i - Len(outbox)]
<1>1. outbox' = outbox \o msgs
  BY DEF Send
<1>2. /\ DOMAIN outbox = 1..Len(outbox) /\ Len(outbox) \in Nat
      /\ DOMAIN msgs = 1..Len(msgs) /\ Len(msgs) \in Nat
  BY LenProperties
<1>3. /\ outbox' \in Seq(Message)
      /\ Len(outbox') = Len(outbox) + Len(msgs)
      /\ \A i \in 1..(Len(outbox) + Len(msgs)) :
           outbox'[i] = IF i <= Len(outbox) THEN outbox[i] ELSE msgs[i - Len(outbox)]
  BY <1>1, ConcatProperties
<1>4. DOMAIN outbox' = 1..(Len(outbox) + Len(msgs))
  BY <1>3, LenProperties
<1> QED
  BY <1>2, <1>3, <1>4

(***************************************************************************)
(* Updates about one order leave the trades alone, and tell that order's   *)
(* status and no other's.                                                  *)
(***************************************************************************)
LEMMA ReportFacts ==
  ASSUME outbox \in Seq(Message),
         NEW id, NEW status, NEW msgs \in Seq(Message), Send(msgs),
         \A j \in DOMAIN msgs :
           msgs[j].kind = "OrderUpdate" /\ msgs[j].id = id /\ msgs[j].status = status
  PROVE  /\ Trades' = Trades
         /\ \A i \in DOMAIN outbox : outbox'[i] = outbox[i]
         /\ \A x : Withdrawn(x)' => Withdrawn(x) \/ (x = id /\ status \in Withdrawing)
         /\ \A x : Closed(x)' => Closed(x) \/ (x = id /\ status \in Closing)
<1>1. \A i \in DOMAIN outbox : i \in DOMAIN outbox' /\ outbox'[i] = outbox[i]
  BY SendPlaces
<1>2. \A i \in DOMAIN outbox' \ DOMAIN outbox :
        outbox'[i].kind = "OrderUpdate" /\ outbox'[i].id = id /\ outbox'[i].status = status
  <2>1. \A i \in DOMAIN outbox' \ DOMAIN outbox :
          i - Len(outbox) \in DOMAIN msgs /\ outbox'[i] = msgs[i - Len(outbox)]
    BY SendPlaces
  <2> QED
    BY <2>1
<1>3. Trades' = Trades
  BY <1>1, <1>2 DEF Trades
<1>4. \A x : Withdrawn(x)' => Withdrawn(x) \/ (x = id /\ status \in Withdrawing)
  BY <1>1, <1>2, <1>3 DEF Withdrawn
<1>5. \A x : Closed(x)' => Closed(x) \/ (x = id /\ status \in Closing)
  BY <1>1, <1>2, <1>3 DEF Closed
<1> QED
  BY <1>1, <1>3, <1>4, <1>5

(* A step that sends nothing tells nothing.                                *)
LEMMA SilenceFacts ==
  ASSUME UNCHANGED outbox
  PROVE  /\ Trades' = Trades
         /\ \A x : Withdrawn(x)' = Withdrawn(x) /\ Closed(x)' = Closed(x)
  BY DEF Trades, Withdrawn, Closed

(* Without new trades the trades keep their properties.                    *)
LEMMA TradesKept ==
  ASSUME outbox \in Seq(Message), TradeHistory, Trades' = Trades,
         \A i \in DOMAIN outbox : outbox'[i] = outbox[i],
         \A x \in DOMAIN submitted : x \in DOMAIN submitted' /\ submitted'[x] = submitted[x]
  PROVE  TradeHistory'
<1>1. /\ \A j \in Trades : j \in DOMAIN outbox /\ \A i \in 1..(j - 1) : i \in DOMAIN outbox
  BY OutboxFacts
<1>2. TradesWithinLimits'
  BY <1>1 DEF TradeHistory, TradesWithinLimits
<1>3. NoTradeAfterClose'
  BY <1>1 DEF TradeHistory, NoTradeAfterClose
<1> QED
  BY <1>2, <1>3 DEF TradeHistory

(***************************************************************************)
(* A step that tells something only of the orders in T, none of which it   *)
(* leaves queued, and that queues only orders that are open.               *)
(***************************************************************************)
LEMMA BookHistoryKept ==
  ASSUME BookHistory,
         \A x \in DOMAIN submitted : x \in DOMAIN submitted',
         NEW T,
         \A x \in OrderIds \ T :
           (Withdrawn(x)' => Withdrawn(x)) /\ (Closed(x)' => Closed(x)),
         \A x \in T :
           /\ ~Queued(x)'
           /\ x \in DOMAIN submitted' \/ \A o \in Submissions : o.id # x,
         \A s \in Side : \A f \in book'[s] :
           \/ f \in book[s]
           \/ ~Withdrawn(f.id) /\ (s = "Sell" => ~Closed(f.id))
  PROVE  BookHistory'
<1> SUFFICES ASSUME NEW x \in OrderIds
             PROVE  /\ Withdrawn(x)' => ~Queued(x)'
                    /\ Closed(x)' => Entries(book'["Sell"], x) = {}
                    /\ Closed(x)' => x \in DOMAIN submitted' \/ \A o \in Submissions : o.id # x
  BY DEF BookHistory, Entries
<1>0. "Sell" \in Side
  BY DEF Side
<1>1. CASE x \in T
  BY <1>0, <1>1 DEF Queued, Entries
<1>2. CASE x \notin T
  <2>1. /\ Withdrawn(x)' => Withdrawn(x) /\ ~Queued(x)
        /\ Closed(x)' => Closed(x) /\ Entries(book["Sell"], x) = {}
        /\ Closed(x)' => x \in DOMAIN submitted \/ \A o \in Submissions : o.id # x
    BY <1>2 DEF BookHistory
  <2>2. Withdrawn(x)' => ~Queued(x)'
    BY <2>1 DEF Queued, Entries
  <2>3. Closed(x)' => Entries(book'["Sell"], x) = {}
    BY <1>0, <2>1 DEF Entries
  <2> QED
    BY <2>1, <2>2, <2>3
<1> QED
  BY <1>1, <1>2

(* A task that has ended its handler holds no order.                       *)
LEMMA HandlerOver ==
  ASSUME Inv', pc' \in {"recv", "expire"}
  PROVE  HandlerHistory'
  BY InvParts DEF HandlerState, HandlerHistory

(* An order that is not stored is not queued.                              *)
LEMMA NotStoredNotQueued ==
  ASSUME Inv', NEW x, x \notin DOMAIN orders'
  PROVE  ~Queued(x)'
<1>1. QueuedStored'
  BY InvParts DEF BookInv
<1> QED
  BY <1>1 DEF QueuedStored, Queued, Entries

-----------------------------------------------------------------------------
(*                        The actions that end a handler                   *)

LEMMA WithdrawnClosed == \A x : Withdrawn(x) => Closed(x)
  BY DEF Withdrawn, Closed, Withdrawing, Closing

(* One update, as the sequence Send is given.                              *)
LEMMA OneReport ==
  ASSUME NEW id \in OrderIds, NEW status \in OrderStatus, NEW filled \in Int
  PROVE  /\ <<Update(id, status, filled)>> \in Seq(Message)
         /\ \A j \in DOMAIN <<Update(id, status, filled)>> :
              LET m == <<Update(id, status, filled)>>[j]
              IN  m.kind = "OrderUpdate" /\ m.id = id /\ m.status = status
<1>1. Update(id, status, filled) \in Message
  BY MessageTypes
<1> QED
  BY <1>1 DEF Update

(* A step that sends updates about an order it leaves out of the queues.   *)
LEMMA ReportTells ==
  ASSUME Inv, History,
         \A x \in DOMAIN submitted : x \in DOMAIN submitted' /\ submitted'[x] = submitted[x],
         NEW id, NEW status, NEW msgs \in Seq(Message), Send(msgs),
         \A j \in DOMAIN msgs :
           msgs[j].kind = "OrderUpdate" /\ msgs[j].id = id /\ msgs[j].status = status,
         ~Queued(id)',
         id \in DOMAIN submitted' \/ \A o \in Submissions : o.id # id,
         \A s \in Side : \A f \in book'[s] : f \in book[s] \/ ~Closed(f.id)
  PROVE  /\ TradeHistory' /\ BookHistory'
         /\ \A x : Withdrawn(x)' => Withdrawn(x) \/ (x = id /\ status \in Withdrawing)
<1>1. outbox \in Seq(Message) /\ TradeHistory /\ BookHistory
  BY InvParts DEF TaskTyped, History
<1>2. /\ Trades' = Trades
      /\ \A i \in DOMAIN outbox : outbox'[i] = outbox[i]
      /\ \A x : Withdrawn(x)' => Withdrawn(x) \/ (x = id /\ status \in Withdrawing)
      /\ \A x : Closed(x)' => Closed(x) \/ (x = id /\ status \in Closing)
  BY ONLY <1>1, Send(msgs), msgs \in Seq(Message), ReportFacts,
     \A j \in DOMAIN msgs :
       msgs[j].kind = "OrderUpdate" /\ msgs[j].id = id /\ msgs[j].status = status
<1>3. TradeHistory'
  BY <1>1, <1>2, TradesKept
<1>4. BookHistory'
  <2> DEFINE T == {id}
  <2>1. \A x \in OrderIds \ T :
          (Withdrawn(x)' => Withdrawn(x)) /\ (Closed(x)' => Closed(x))
    BY <1>2
  <2>2. \A x \in T :
          /\ ~Queued(x)'
          /\ x \in DOMAIN submitted' \/ \A o \in Submissions : o.id # x
    OBVIOUS
  <2>3. \A s \in Side : \A f \in book'[s] :
          f \in book[s] \/ (~Withdrawn(f.id) /\ (s = "Sell" => ~Closed(f.id)))
    BY WithdrawnClosed
  <2> HIDE DEF T
  <2> QED
    BY <1>1, <2>1, <2>2, <2>3, BookHistoryKept
<1> QED
  BY <1>2, <1>3, <1>4

(* One that also ends its handler.                                         *)
LEMMA ReportKeeps ==
  ASSUME Inv, Inv', History, pc' \in {"recv", "expire"},
         \A x \in DOMAIN submitted : x \in DOMAIN submitted' /\ submitted'[x] = submitted[x],
         NEW id, NEW status, NEW msgs \in Seq(Message), Send(msgs),
         \A j \in DOMAIN msgs :
           msgs[j].kind = "OrderUpdate" /\ msgs[j].id = id /\ msgs[j].status = status,
         ~Queued(id)',
         id \in DOMAIN submitted' \/ \A o \in Submissions : o.id # id,
         \A s \in Side : \A f \in book'[s] : f \in book[s] \/ ~Closed(f.id)
  PROVE  History'
<1>1. TradeHistory' /\ BookHistory'
  BY ReportTells
<1> QED
  BY <1>1, HandlerOver DEF History

(* A step that sends nothing, and queues nothing that is closed.           *)
LEMMA SilenceKeeps ==
  ASSUME Inv, History, UNCHANGED outbox,
         \A x \in DOMAIN submitted : x \in DOMAIN submitted' /\ submitted'[x] = submitted[x],
         \A s \in Side : \A f \in book'[s] :
           f \in book[s] \/ (~Withdrawn(f.id) /\ (s = "Sell" => ~Closed(f.id)))
  PROVE  TradeHistory' /\ BookHistory'
<1>1. outbox \in Seq(Message) /\ TradeHistory /\ BookHistory
  BY InvParts DEF TaskTyped, History
<1>2. /\ Trades' = Trades
      /\ \A x : Withdrawn(x)' = Withdrawn(x) /\ Closed(x)' = Closed(x)
  BY SilenceFacts
<1>3. TradeHistory'
  BY <1>1, <1>2, TradesKept
<1>4. BookHistory'
  <2> DEFINE T == {}
  <2>1. \A x \in OrderIds \ T :
          (Withdrawn(x)' => Withdrawn(x)) /\ (Closed(x)' => Closed(x))
    BY <1>2
  <2>2. \A x \in T :
          /\ ~Queued(x)'
          /\ x \in DOMAIN submitted' \/ \A o \in Submissions : o.id # x
    OBVIOUS
  <2> HIDE DEF T
  <2> QED
    BY <1>1, <2>1, <2>2, BookHistoryKept
<1> QED
  BY <1>3, <1>4

(* A new order: nothing has been told of it.                               *)
LEMMA NewOrderOpen ==
  ASSUME Inv, History, NEW o \in Submissions, Receive(o)
  PROVE  /\ o.id \in OrderIds /\ ~Closed(o.id) /\ ~Withdrawn(o.id)
         /\ o.id \in DOMAIN submitted' /\ o.id \notin DOMAIN orders
         /\ \A x \in DOMAIN submitted :
              x \in DOMAIN submitted' /\ submitted'[x] = submitted[x]
<1>1. /\ o.id \in OrderIds /\ o.id \notin DOMAIN submitted /\ o.id \notin DOMAIN orders
      /\ DOMAIN submitted' = DOMAIN submitted \cup {o.id}
      /\ \A x \in DOMAIN submitted : submitted'[x] = submitted[x]
  BY ReceiveFacts
<1>2. ~Closed(o.id)
  BY <1>1 DEF History, BookHistory
<1> QED
  BY <1>1, <1>2, WithdrawnClosed

(* RefuseInvalid, ParkStop, RejectUnfillable and DropLimit.                *)
LEMMA AnswerHistory ==
  ASSUME Inv, Inv', History, NEW o \in Submissions, Receive(o),
         NEW status, NEW msgs \in Seq(Message), Send(msgs),
         \A j \in DOMAIN msgs :
           msgs[j].kind = "OrderUpdate" /\ msgs[j].id = o.id /\ msgs[j].status = status,
         UNCHANGED <<bookVars, taskVars>>
  PROVE  History'
<1>1. UNCHANGED <<book, orders, pc>>
  BY DEF bookVars, taskVars
<1>2. pc' = "recv"
  BY <1>1, ReceiveFacts
<1>3. ~Queued(o.id)'
  BY <1>1, NewOrderOpen, NotStoredNotQueued
<1> QED
  BY <1>1, <1>2, <1>3, NewOrderOpen, ReportKeeps

LEMMA RefuseInvalidHistory ==
  ASSUME Inv, Inv', History, NEW o \in Submissions, RefuseInvalid(o)
  PROVE  History'
<1> DEFINE msgs == <<Update(o.id, "Rejected", 0)>>
<1>1. Receive(o) /\ Send(msgs) /\ UNCHANGED <<bookVars, taskVars>>
  BY DEF RefuseInvalid
<1>2. /\ msgs \in Seq(Message)
      /\ \A j \in DOMAIN msgs :
           msgs[j].kind = "OrderUpdate" /\ msgs[j].id = o.id /\ msgs[j].status = "Rejected"
  BY <1>1, NewOrderOpen, OneReport DEF OrderStatus
<1> HIDE DEF msgs
<1> QED
  BY <1>1, <1>2, AnswerHistory

LEMMA ParkStopHistory ==
  ASSUME Inv, Inv', History, NEW o \in Submissions, ParkStop(o)
  PROVE  History'
<1> DEFINE msgs == <<Update(o.id, "New", 0)>>
<1>1. Receive(o) /\ Send(msgs) /\ UNCHANGED <<bookVars, taskVars>>
  BY DEF ParkStop
<1>2. /\ msgs \in Seq(Message)
      /\ \A j \in DOMAIN msgs :
           msgs[j].kind = "OrderUpdate" /\ msgs[j].id = o.id /\ msgs[j].status = "New"
  BY <1>1, NewOrderOpen, OneReport DEF OrderStatus
<1> HIDE DEF msgs
<1> QED
  BY <1>1, <1>2, AnswerHistory

LEMMA RejectUnfillableHistory ==
  ASSUME Inv, Inv', History, NEW o \in Submissions, RejectUnfillable(o)
  PROVE  History'
<1> DEFINE msgs == <<Update(o.id, "Rejected", 0), Update(o.id, "Rejected", 0)>>
<1>1. Receive(o) /\ Send(msgs) /\ UNCHANGED <<bookVars, taskVars>>
  BY DEF RejectUnfillable
<1>2. msgs \in Seq(Message)
  <2>1. Update(o.id, "Rejected", 0) \in Message
    BY <1>1, NewOrderOpen, MessageTypes DEF OrderStatus
  <2> QED
    BY <2>1
<1>3. \A j \in DOMAIN msgs :
        msgs[j].kind = "OrderUpdate" /\ msgs[j].id = o.id /\ msgs[j].status = "Rejected"
  BY DEF Update
<1> HIDE DEF msgs
<1> QED
  BY <1>1, <1>2, <1>3, AnswerHistory

LEMMA DropLimitHistory ==
  ASSUME Inv, Inv', History, NEW o \in Submissions, DropLimit(o)
  PROVE  History'
<1> DEFINE status == IF o.tif = "IOC" THEN "Canceled" ELSE "Rejected"
           msgs == <<Update(o.id, status, 0)>>
<1>1. Receive(o) /\ Send(msgs) /\ UNCHANGED <<bookVars, taskVars>>
  BY DEF DropLimit
<1>2. status \in OrderStatus
  BY DEF OrderStatus
<1> HIDE DEF status
<1>3. /\ msgs \in Seq(Message)
      /\ \A j \in DOMAIN msgs :
           msgs[j].kind = "OrderUpdate" /\ msgs[j].id = o.id /\ msgs[j].status = status
  BY <1>1, <1>2, NewOrderOpen, OneReport
<1> HIDE DEF msgs
<1> QED
  BY <1>1, <1>3, AnswerHistory

(* add_limit_order queues nothing but its order.                           *)
LEMMA AddLimitQueue ==
  ASSUME BookInv, NEW o, o.side \in Side, AddLimit(o)
  PROVE  \A s \in Side : \A f \in book'[s] :
           f \in book[s] \/ (s = o.side /\ f.id = o.id)
<1> DEFINE e == [id |-> o.id, price |-> o.price, seq |-> nextSeq]
<1>1. book' = [book EXCEPT ![o.side] = Push(@, e)] /\ book \in [Side -> SUBSET Entry]
  BY DEF AddLimit, BookInv, BookTyped
<1>2. \A f \in Push(book[o.side], e) : f \in book[o.side] \/ f.id = o.id
  BY DEF Push
<1> QED
  BY <1>1, <1>2

LEMMA RestLimitHistory ==
  ASSUME Inv, Inv', History, NEW o \in Submissions, RestLimit(o)
  PROVE  History'
<1> DEFINE p == Effective(o)
<1>1. Receive(o) /\ Valid(o) /\ AddLimit(p) /\ UNCHANGED <<pc, outbox>>
  BY DEF RestLimit, taskVars
<1>2. p.id = o.id /\ p.side \in Side
  BY <1>1, ReceiveFacts, EffectiveFacts DEF SameTerms, Order
<1>3. \A s \in Side : \A f \in book'[s] : f \in book[s] \/ f.id = o.id
  BY <1>1, <1>2, InvParts, AddLimitQueue
<1>4. TradeHistory' /\ BookHistory'
  BY <1>1, <1>3, NewOrderOpen, SilenceKeeps
<1>5. pc' = "recv"
  BY <1>1, ReceiveFacts
<1> QED
  BY <1>4, <1>5, HandlerOver DEF History

LEMMA CancelLiveHistory ==
  ASSUME Inv, Inv', History, NEW id \in OrderIds, CancelLive(id)
  PROVE  History'
<1> DEFINE msgs == <<Update(id, "Canceled", orders[id].filled)>>
<1>1. /\ ReceiveCancel(id) /\ Live(id) /\ RemoveLive(id) /\ Send(msgs) /\ UNCHANGED pc
  BY DEF CancelLive, taskVars
<1>2. /\ pc' = "recv" /\ UNCHANGED submitted
      /\ id \in DOMAIN submitted \/ \A o \in Submissions : o.id # id
  BY <1>1 DEF ReceiveCancel, Idle
<1>3. /\ id \in DOMAIN orders /\ id \notin DOMAIN orders'
      /\ \A s \in Side : book'[s] \subseteq book[s]
  BY <1>1, InvParts, RemoveLiveKeeps
<1>4. /\ msgs \in Seq(Message)
      /\ \A j \in DOMAIN msgs :
           msgs[j].kind = "OrderUpdate" /\ msgs[j].id = id /\ msgs[j].status = "Canceled"
  <2>1. orders[id].filled \in Int
    BY <1>3, InvParts DEF BookInv, BookTyped, Order
  <2> QED
    BY <2>1, OneReport DEF OrderStatus
<1> HIDE DEF msgs
<1>5. ~Queued(id)'
  BY <1>3, NotStoredNotQueued
<1> QED
  BY <1>1, <1>2, <1>3, <1>4, <1>5, ReportKeeps

LEMMA CancelMissingHistory ==
  ASSUME Inv, Inv', History, NEW id \in OrderIds, CancelMissing(id)
  PROVE  History'
<1> DEFINE msgs == <<Update(id, "Rejected", 0)>>
<1>1. /\ ReceiveCancel(id) /\ ~Live(id) /\ RemoveMissing(id) /\ Send(msgs) /\ UNCHANGED pc
  BY DEF CancelMissing, taskVars
<1>2. /\ pc' = "recv" /\ UNCHANGED submitted
      /\ id \in DOMAIN submitted \/ \A o \in Submissions : o.id # id
  BY <1>1 DEF ReceiveCancel, Idle
<1>3. UNCHANGED book
  BY <1>1 DEF RemoveMissing
<1>4. /\ msgs \in Seq(Message)
      /\ \A j \in DOMAIN msgs :
           msgs[j].kind = "OrderUpdate" /\ msgs[j].id = id /\ msgs[j].status = "Rejected"
  BY OneReport DEF OrderStatus
<1> HIDE DEF msgs
<1>5. ~Queued(id)'
  <2>1. ~Queued(id)
    BY <1>1, InvParts, QueuedLive DEF BookInv
  <2> QED
    BY <1>3, <2>1 DEF Queued
<1> QED
  BY <1>1, <1>2, <1>3, <1>4, <1>5, ReportKeeps

LEMMA HeartbeatHistory ==
  ASSUME Inv, Inv', History, NEW now \in Times, Heartbeat(now)
  PROVE  History'
<1>1. UNCHANGED <<book, outbox, submitted>> /\ pc' \in {"recv", "expire"}
  BY DEF Heartbeat, bookVars, inputVars
<1>2. TradeHistory' /\ BookHistory'
  BY <1>1, SilenceKeeps
<1> QED
  BY <1>1, <1>2, HandlerOver DEF History

LEMMA ExpireNextHistory ==
  ASSUME Inv, Inv', History, NEW id \in OrderIds, ExpireNext(id)
  PROVE  History'
<1> DEFINE msgs == <<Update(id, "Canceled", orders[id].filled)>>
<1>1. /\ Live(id) /\ RemoveLive(id) /\ Send(msgs)
      /\ pc' \in {"recv", "expire"} /\ UNCHANGED submitted
  BY DEF ExpireNext, inputVars
<1>2. /\ id \in DOMAIN orders /\ id \notin DOMAIN orders'
      /\ \A s \in Side : book'[s] \subseteq book[s]
  BY <1>1, InvParts, RemoveLiveKeeps
<1>3. /\ msgs \in Seq(Message)
      /\ \A j \in DOMAIN msgs :
           msgs[j].kind = "OrderUpdate" /\ msgs[j].id = id /\ msgs[j].status = "Canceled"
  <2>1. orders[id].filled \in Int
    BY <1>2, InvParts DEF BookInv, BookTyped, Order
  <2> QED
    BY <2>1, OneReport DEF OrderStatus
<1> HIDE DEF msgs
<1>4. id \in DOMAIN submitted /\ ~Queued(id)'
  BY <1>2, InvParts, NotStoredNotQueued DEF StoredSubmitted
<1> QED
  BY <1>1, <1>2, <1>3, <1>4, ReportKeeps

LEMMA ExpireAbortHistory ==
  ASSUME Inv, Inv', History, NEW id \in OrderIds, ExpireAbort(id)
  PROVE  History'
<1>1. UNCHANGED <<book, outbox, submitted>> /\ pc' = "recv"
  BY DEF ExpireAbort, RemoveMissing, Done, inputVars
<1>2. TradeHistory' /\ BookHistory'
  BY <1>1, SilenceKeeps
<1> QED
  BY <1>1, <1>2, HandlerOver DEF History

-----------------------------------------------------------------------------
(*                        The matching loop and its tail                   *)

LEMMA StartMatchingHistory ==
  ASSUME Inv, Inv', History, NEW o \in Submissions, StartMatching(o)
  PROVE  History'
<1>1. /\ Receive(o) /\ Valid(o) /\ Marketable(o)
      /\ pc' = "match" /\ taker' = Effective(o)
      /\ UNCHANGED <<book, partial, outbox>>
  BY DEF StartMatching, bookVars
<1>2. o \in Order /\ o.filled = 0 /\ partial = NoOrder
  BY <1>1, ReceiveFacts
<1>3. taker' \in Order /\ SameTerms(taker', o) /\ taker'.filled = 0
  BY <1>1, <1>2, EffectiveFacts
<1>4. TradeHistory' /\ BookHistory'
  BY <1>1, NewOrderOpen, SilenceKeeps
<1>5. ~Closed(taker.id)'
  <2>1. taker'.id = o.id
    BY <1>3 DEF SameTerms
  <2>2. ~Closed(o.id)
    BY <1>1, NewOrderOpen
  <2> QED
    BY <1>1, <2>1, <2>2 DEF Closed, Trades
<1>6. 0 < taker'.qty => Remaining(taker)' >= 0
  BY <1>3 DEF Remaining, Order
<1>7. taker'.side = "Sell" /\ taker'.type = "Limit" => book'["Buy"] # {}
  <2>1. taker'.side = o.side
    BY <1>3 DEF SameTerms
  <2> QED
    BY <1>1, <2>1 DEF Marketable, Reaches, Opposite
<1>8. HandlerHistory'
  BY <1>1, <1>2, <1>3, <1>5, <1>6, <1>7 DEF HandlerHistory
<1> QED
  BY <1>4, <1>8 DEF History

(***************************************************************************)
(* What an iteration sends: a trade, and the update of the resting order,  *)
(* which says Filled or PartiallyFilled.                                   *)
(***************************************************************************)
LEMMA FillSends ==
  ASSUME outbox \in Seq(Message), NEW trade \in Message, NEW update \in Message,
         trade.kind = "Trade", update.kind = "OrderUpdate",
         Send(<<trade, update>>)
  PROVE  /\ Len(outbox) + 1 \in DOMAIN outbox'
         /\ Trades' = Trades \cup {Len(outbox) + 1}
         /\ outbox'[Len(outbox) + 1] = trade
         /\ \A i \in DOMAIN outbox : i \in DOMAIN outbox' /\ outbox'[i] = outbox[i]
         /\ \A x : Withdrawn(x)' => \/ Withdrawn(x)
                                    \/ x = update.id /\ update.status \in Withdrawing
         /\ \A x : Closed(x)' => \/ Closed(x)
                                 \/ x = update.id /\ update.status \in Closing
         /\ DOMAIN outbox' \ Trades' = (DOMAIN outbox \ Trades) \cup {Len(outbox) + 2}
         /\ outbox'[Len(outbox) + 2] = update
<1> DEFINE n == Len(outbox)
           msgs == <<trade, update>>
<1>1. msgs \in Seq(Message) /\ Len(msgs) = 2 /\ msgs[1] = trade /\ msgs[2] = update
  OBVIOUS
<1>2. DOMAIN outbox = 1..n /\ n \in Nat
  BY LenProperties
<1>3. outbox' = outbox \o msgs
  BY DEF Send
<1> HIDE DEF msgs
<1>4. /\ outbox' \in Seq(Message) /\ Len(outbox') = n + 2
      /\ \A i \in 1..(n + 2) : outbox'[i] = IF i <= n THEN outbox[i] ELSE msgs[i - n]
  <2>1. /\ outbox \o msgs \in Seq(Message)
        /\ Len(outbox \o msgs) = Len(outbox) + Len(msgs)
        /\ \A i \in 1..(Len(outbox) + Len(msgs)) :
             (outbox \o msgs)[i] = IF i <= Len(outbox) THEN outbox[i]
                                                       ELSE msgs[i - Len(outbox)]
    BY <1>1, ConcatProperties
  <2> QED
    BY <1>1, <1>3, <2>1
<1>5. DOMAIN outbox' = 1..(n + 2)
  BY <1>4, LenProperties
<1>6. /\ DOMAIN outbox' = DOMAIN outbox \cup {n + 1, n + 2}
      /\ n + 1 \notin DOMAIN outbox /\ n + 2 \notin DOMAIN outbox /\ n + 1 # n + 2
  BY <1>2, <1>5
<1>7. /\ outbox'[n + 1] = trade /\ outbox'[n + 2] = update
      /\ \A i \in DOMAIN outbox : outbox'[i] = outbox[i]
  <2>1. outbox'[n + 1] = msgs[n + 1 - n] /\ outbox'[n + 2] = msgs[n + 2 - n]
    BY <1>2, <1>4
  <2>2. n + 1 - n = 1 /\ n + 2 - n = 2
    BY <1>2
  <2>3. \A i \in DOMAIN outbox : outbox'[i] = outbox[i]
    BY <1>2, <1>4
  <2> QED
    BY <1>1, <2>1, <2>2, <2>3
<1>8. Trades' = Trades \cup {n + 1}
  BY <1>6, <1>7 DEF Trades
<1>9. \A i \in DOMAIN outbox' \ Trades' :
        \/ i \in DOMAIN outbox \ Trades /\ outbox'[i] = outbox[i]
        \/ outbox'[i] = update
  BY <1>6, <1>7, <1>8
<1>10. \A x : Withdrawn(x)' => \/ Withdrawn(x)
                               \/ x = update.id /\ update.status \in Withdrawing
  BY <1>9 DEF Withdrawn
<1>11. \A x : Closed(x)' => \/ Closed(x)
                            \/ x = update.id /\ update.status \in Closing
  BY <1>9 DEF Closed
<1>12. DOMAIN outbox' \ Trades' = (DOMAIN outbox \ Trades) \cup {n + 2}
  BY <1>6, <1>7, <1>8 DEF Trades
<1> QED
  BY <1>6, <1>7, <1>8, <1>10, <1>11, <1>12

(* The price of a trade is one of its orders', and the orders cross.       *)
LEMMA PriceWithinLimits ==
  ASSUME NEW buy \in Order, NEW sell \in Order, NEW last,
         CanMatch(buy, sell), sell.price \in Prices
  PROVE  /\ buy.price # NoPrice => MatchPrice(buy, sell, last) <= buy.price
         /\ MatchPrice(buy, sell, last) >= sell.price
<1>1. /\ sell.price \in Int /\ sell.price # NoPrice
      /\ buy.price # NoPrice => buy.price \in Int
      /\ Prices \subseteq Int
  BY OrderBookAssumption DEF Order
<1>2. CASE buy.price # NoPrice
  <2>1. /\ buy.price >= sell.price
        /\ MatchPrice(buy, sell, last) \in {buy.price, sell.price}
    BY <1>1, <1>2 DEF CanMatch, MatchPrice
  <2> QED
    BY <1>1, <1>2, <2>1
<1>3. CASE buy.price = NoPrice
  <2>1. MatchPrice(buy, sell, last) = sell.price
    BY <1>1, <1>3 DEF MatchPrice
  <2> QED
    BY <1>1, <1>3, <2>1
<1> QED
  BY <1>2, <1>3

LEMMA FillNextHistory ==
  ASSUME Inv, Inv', History, NEW e, FillNext(e)
  PROVE  History'
<1> DEFINE resting == orders[e.id]
           qty == MatchQty(taker, resting)
           updated == Filled(resting, qty)
           price == MatchPrice(taker, resting, lastPrice)
           trade == Trade(taker.id, e.id, price, qty)
           update == Update(e.id, updated.status, updated.filled)
           n == Len(outbox)
<1>1. /\ pc = "match" /\ pc' = "match" /\ Pop(e) /\ CanMatch(taker, resting)
      /\ UNCHANGED submitted
      /\ taker' = [taker EXCEPT !.filled = @ + qty]
      /\ partial' = IF updated.filled = updated.qty THEN partial ELSE e.id
      /\ Send(<<trade, update>>)
  BY DEF FillNext, Pop, inputVars, MatchFails
<1>2. /\ BookInv /\ taker \in Order /\ taker.id \in OrderIds
      /\ taker.id \in DOMAIN submitted /\ taker.id \notin DOMAIN orders
      /\ SameTerms(taker, submitted[taker.id])
      /\ outbox \in Seq(Message) /\ lastPrice \in Prices \cup {NoPrice, 0}
  BY <1>1, InvParts, TakerFacts DEF TaskTyped, BookInv, BookTyped
<1>3. /\ taker.side = "Buy" /\ resting.side = "Sell"
      /\ e \in book["Sell"]
      /\ e.id \in DOMAIN orders /\ e.id \in OrderIds
      /\ resting \in Order /\ resting.price \in Prices
      /\ \A s \in Side : \A f \in book'[s] : f \in book[s] /\ f.id # e.id
  <2>1. taker.side = "Buy" /\ resting.side = "Sell"
    BY <1>1 DEF CanMatch
  <2> QED
    BY <1>1, <1>2, <2>1, PopFacts DEF Opposite, BookInv, BookTyped
<1>4. e.id \in DOMAIN submitted /\ SameTerms(resting, submitted[e.id])
  BY <1>3, InvParts DEF StoredSubmitted
<1>5. /\ qty \in Int /\ price \in Prices \cup {0}
      /\ Remaining(taker) \in Int /\ qty <= Remaining(taker)
  BY <1>2, <1>3, MatchTypes
<1>6. /\ updated \in Order
      /\ updated.status = IF updated.filled = updated.qty THEN "Filled" ELSE "PartiallyFilled"
  <2>1. updated \in Order /\ updated.filled = resting.filled + qty /\ updated.qty = resting.qty
    BY <1>3, <1>5, FilledFacts DEF SameTerms
  <2>2. updated.status = IF resting.filled + qty = resting.qty THEN "Filled" ELSE "PartiallyFilled"
    BY <1>3 DEF Filled, Order
  <2> QED
    BY <2>1, <2>2
<1>7. /\ trade \in Message /\ trade.kind = "Trade"
      /\ trade.buy = taker.id /\ trade.sell = e.id /\ trade.price = price
  BY <1>2, <1>3, <1>5, MessageTypes DEF Trade
<1>8. /\ update \in Message /\ update.kind = "OrderUpdate"
      /\ update.id = e.id /\ update.status = updated.status
  <2>1. updated.status \in OrderStatus /\ updated.filled \in Int
    BY <1>6 DEF Order
  <2> QED
    BY <1>3, <2>1, MessageTypes DEF Update
<1>9. /\ ~Closed(taker.id) /\ ~Closed(e.id)
      /\ partial = NoOrder
  <2>1. ~Closed(taker.id)
    BY <1>1 DEF History, HandlerHistory
  <2>2. ~Closed(e.id)
    BY <1>3 DEF History, BookHistory, Entries
  <2>3. partial = NoOrder
    <3>1. Remaining(taker) > 0
      BY <1>1 DEF Pop
    <3> QED
      BY <1>5, <3>1, InvParts DEF HandlerState
  <2> QED
    BY <2>1, <2>2, <2>3
<1> HIDE DEF trade, update, updated, price, qty
<1>10. /\ Trades' = Trades \cup {n + 1}
       /\ outbox'[n + 1] = trade
       /\ \A i \in DOMAIN outbox : outbox'[i] = outbox[i]
       /\ \A x : Withdrawn(x)' => Withdrawn(x)
       /\ \A x : Closed(x)' => \/ Closed(x)
                               \/ x = e.id /\ updated.filled = updated.qty
  <2>1. /\ Trades' = Trades \cup {Len(outbox) + 1}
        /\ outbox'[Len(outbox) + 1] = trade
        /\ \A i \in DOMAIN outbox : i \in DOMAIN outbox' /\ outbox'[i] = outbox[i]
        /\ \A x : Withdrawn(x)' => \/ Withdrawn(x)
                                   \/ x = update.id /\ update.status \in Withdrawing
        /\ \A x : Closed(x)' => \/ Closed(x)
                                \/ x = update.id /\ update.status \in Closing
    BY <1>1, <1>2, <1>7, <1>8, FillSends
  <2>2. update.status \notin Withdrawing
    BY <1>6, <1>8 DEF Withdrawing
  <2>3. update.status \in Closing => updated.filled = updated.qty
    BY <1>6, <1>8 DEF Closing
  <2> QED
    BY <1>8, <2>1, <2>2, <2>3
<1>11. /\ DOMAIN outbox = 1..n /\ n \in Nat /\ Trades \subseteq DOMAIN outbox
  BY <1>2, OutboxFacts
<1>12. TradesWithinLimits'
  <2>1. /\ submitted[taker.id].side = "Buy" /\ submitted[e.id].side = "Sell"
        /\ submitted[taker.id].price = taker.price
        /\ submitted[e.id].price = resting.price
    BY <1>2, <1>3, <1>4 DEF SameTerms
  <2>2. /\ taker.price # NoPrice => price <= taker.price
        /\ price >= resting.price
    BY <1>1, <1>2, <1>3, PriceWithinLimits DEF price
  <2>3. \A i \in Trades' :
          \/ i \in Trades /\ outbox'[i] = outbox[i]
          \/ outbox'[i] = trade
    BY <1>10, <1>11
  <2>4. TradesWithinLimits
    BY DEF History, TradeHistory
  <2> QED
    BY <1>1, <1>2, <1>4, <1>7, <2>1, <2>2, <2>3, <2>4 DEF TradesWithinLimits
<1>13. NoTradeAfterClose'
  <2> SUFFICES ASSUME NEW j \in Trades', NEW i \in 1..(j - 1),
                      outbox'[i].kind = "OrderUpdate", outbox'[i].status \in Closing
               PROVE  outbox'[i].id \notin {outbox'[j].buy, outbox'[j].sell}
    BY DEF NoTradeAfterClose, Closing
  <2>1. i \in DOMAIN outbox /\ outbox'[i] = outbox[i]
    BY <1>10, <1>11
  <2>2. CASE j \in Trades
    <3>1. outbox'[j] = outbox[j]
      BY <1>10, <1>11, <2>2
    <3> QED
      BY <2>1, <2>2, <3>1 DEF History, TradeHistory, NoTradeAfterClose, Closing
  <2>3. CASE j = n + 1
    <3>1. i \notin Trades
      BY <2>1 DEF Trades
    <3>2. Closed(outbox[i].id)
      BY <2>1, <3>1 DEF Closed
    <3> QED
      BY <1>7, <1>9, <1>10, <2>1, <2>3, <3>2
  <2> QED
    BY <1>10, <2>2, <2>3
<1>14. BookHistory'
  <2> DEFINE T == {e.id}
  <2>1. \A x \in OrderIds \ T :
          (Withdrawn(x)' => Withdrawn(x)) /\ (Closed(x)' => Closed(x))
    BY <1>10
  <2>2. BookHistory /\ \A s \in Side : \A f \in book'[s] : f \in book[s]
    BY <1>3 DEF History
  <2>3. \A x \in T :
          /\ ~Queued(x)'
          /\ x \in DOMAIN submitted' \/ \A o \in Submissions : o.id # x
    BY <1>1, <1>3, <1>4 DEF Queued, Entries
  <2>4. \A x \in DOMAIN submitted : x \in DOMAIN submitted'
    BY <1>1
  <2> HIDE DEF T
  <2> QED
    BY <2>1, <2>2, <2>3, <2>4, BookHistoryKept
<1>15. HandlerHistory'
  <2>1. /\ taker'.id = taker.id /\ taker'.side = taker.side /\ taker'.qty = taker.qty
        /\ taker'.filled = taker.filled + qty
    BY <1>1, <1>2 DEF Order
  <2>2. ~Closed(taker.id)'
    <3>1. \A x : x = taker.id => ~Closed(x)'
      BY <1>2, <1>3, <1>9, <1>10
    <3> QED
      BY <2>1, <3>1 DEF Closed
  <2>3. 0 < taker'.qty => Remaining(taker)' >= 0
    BY <1>2, <1>5, <2>1 DEF Remaining, Order
  <2>4. partial' # NoOrder => ~Closed(partial)'
    <3>1. \A x : x = partial' /\ partial' # NoOrder => ~Closed(x)'
      BY <1>1, <1>9, <1>10
    <3> QED
      BY <3>1 DEF Closed
  <2> QED
    BY <1>1, <1>3, <2>1, <2>2, <2>3, <2>4 DEF HandlerHistory
<1> QED
  BY <1>12, <1>13, <1>14, <1>15 DEF History, TradeHistory

LEMMA FailNextHistory ==
  ASSUME Inv, Inv', History, NEW e, FailNext(e)
  PROVE  History'
<1>0. PICK id : id = taker.id
  OBVIOUS
<1> DEFINE msgs == <<Update(id, "Rejected", 0)>>
<1>1. /\ Pop(e) /\ pc = "match" /\ pc' = "recv" /\ Send(msgs)
      /\ UNCHANGED <<orders, submitted>>
  BY <1>0 DEF FailNext, Pop, Done, inputVars
<1>2. /\ BookInv /\ taker \in Order /\ id \in OrderIds
      /\ id \in DOMAIN submitted /\ id \notin DOMAIN orders'
  BY <1>1, InvParts, TakerFacts, <1>0
<1>3. \A s \in Side : \A f \in book'[s] : f \in book[s]
  BY <1>1, <1>2, PopFacts
<1>4. /\ msgs \in Seq(Message)
      /\ \A j \in DOMAIN msgs :
           msgs[j].kind = "OrderUpdate" /\ msgs[j].id = id /\ msgs[j].status = "Rejected"
  BY <1>2, OneReport DEF OrderStatus
<1> HIDE DEF msgs
<1>5. ~Queued(id)'
  BY <1>2, NotStoredNotQueued
<1> QED
  BY <1>1, <1>2, <1>3, <1>4, <1>5, ReportKeeps

LEMMA FinishMarketHistory ==
  ASSUME Inv, Inv', History, FinishMarket
  PROVE  History'
<1>0. PICK id : id = taker.id
  OBVIOUS
<1> DEFINE status == FinalStatus(taker)
           msgs == <<Update(id, status, taker.filled)>>
           rests == taker.type = "Limit" /\ 0 < taker.qty
<1>1. /\ LoopOver /\ pc = "match" /\ Reinsert /\ Send(msgs)
      /\ rests => pc' = "rest" /\ partial' = NoOrder /\ taker' = taker
      /\ ~rests => pc' = "recv"
      /\ UNCHANGED <<orders, info, level, lastPrice, submitted>>
  BY <1>0 DEF FinishMarket, LoopOver, Done, inputVars
<1>2. /\ BookInv /\ taker \in Order /\ id \in OrderIds
      /\ id \in DOMAIN submitted /\ id \notin DOMAIN orders'
      /\ outbox \in Seq(Message)
  BY <1>1, InvParts, TakerFacts, <1>0 DEF TaskTyped
<1>3. status \in OrderStatus /\ taker.filled \in Int
  BY <1>2 DEF FinalStatus, OrderStatus, Order
<1>4. rests /\ taker.tif # "IOC" => status \notin Withdrawing
  <2> SUFFICES ASSUME rests, taker.tif # "IOC" PROVE status \in {"Filled", "PartiallyFilled"}
    BY DEF Withdrawing
  <2>1. Remaining(taker) >= 0 /\ taker.qty \in Int /\ taker.filled \in Int
    BY <1>1, <1>2 DEF History, HandlerHistory, Order
  <2>2. taker.filled = taker.qty \/ taker.filled < taker.qty
    BY <2>1 DEF Remaining
  <2> QED
    BY <2>2 DEF FinalStatus
<1> HIDE DEF status
<1>5. /\ msgs \in Seq(Message)
      /\ \A j \in DOMAIN msgs :
           msgs[j].kind = "OrderUpdate" /\ msgs[j].id = id /\ msgs[j].status = status
  BY <1>2, <1>3, OneReport
<1> HIDE DEF msgs
<1>6. \A s \in Side : \A f \in book'[s] : f \in book[s] \/ ~Closed(f.id)
  <2>1. partial # NoOrder => /\ partial \in DOMAIN info /\ ~Queued(partial)
                             /\ ~Closed(partial)
    BY InvParts DEF HandlerState, History, HandlerHistory
  <2>2. \A s \in Side : \A f \in book'[s] :
          f \in book[s] \/ (partial # NoOrder /\ f.id = partial)
    BY <1>1, <1>2, <2>1, ReinsertKeeps
  <2> QED
    BY <2>1, <2>2
<1>7. ~Queued(id)'
  BY <1>2, NotStoredNotQueued
<1>8. CASE ~rests
  BY <1>1, <1>2, <1>5, <1>6, <1>7, <1>8, ReportKeeps
<1>9. CASE rests
  <2>1. /\ TradeHistory' /\ BookHistory'
        /\ \A x : Withdrawn(x)' => Withdrawn(x) \/ (x = id /\ status \in Withdrawing)
    BY <1>1, <1>2, <1>5, <1>6, <1>7, ReportTells
  <2>2. taker.side = "Buy"
    <3> SUFFICES ASSUME taker.side = "Sell" PROVE FALSE
      BY <1>2 DEF Order, Side
    <3>1. taker.filled = 0 /\ book["Buy"] # {}
      BY <1>1, <1>9 DEF History, HandlerHistory
    <3>2. Remaining(taker) > 0
      BY <1>2, <1>9, <3>1 DEF Remaining, Order
    <3> QED
      BY <1>1, <3>1, <3>2 DEF LoopOver, Opposite
  <2>3. taker.tif # "IOC" => ~Withdrawn(taker.id)'
    <3>1. ~Withdrawn(id)
      BY <1>0, <1>1, WithdrawnClosed DEF History, HandlerHistory
    <3>2. taker.tif # "IOC" => ~Withdrawn(id)'
      BY <1>4, <1>9, <2>1, <3>1
    <3> QED
      BY <1>0, <1>1, <1>9, <3>2 DEF Withdrawn
  <2>4. HandlerHistory'
    BY <1>1, <1>9, <2>2, <2>3 DEF HandlerHistory
  <2> QED
    BY <2>1, <2>4 DEF History
<1> QED
  BY <1>8, <1>9

LEMMA CancelRemainderHistory ==
  ASSUME Inv, Inv', History, CancelRemainder
  PROVE  History'
<1>0. PICK id : id = taker.id
  OBVIOUS
<1> DEFINE msgs == <<Update(id, "Canceled", 0)>>
<1>1. /\ pc = "rest" /\ pc' = "recv" /\ Send(msgs)
      /\ UNCHANGED <<book, orders, submitted>>
  BY <1>0 DEF CancelRemainder, Done, bookVars, inputVars
<1>2. /\ id \in OrderIds
      /\ id \in DOMAIN submitted /\ id \notin DOMAIN orders'
  BY <1>1, TakerFacts, <1>0
<1>3. /\ msgs \in Seq(Message)
      /\ \A j \in DOMAIN msgs :
           msgs[j].kind = "OrderUpdate" /\ msgs[j].id = id /\ msgs[j].status = "Canceled"
  BY <1>2, OneReport DEF OrderStatus
<1> HIDE DEF msgs
<1>4. ~Queued(id)'
  BY <1>2, NotStoredNotQueued
<1> QED
  BY <1>1, <1>2, <1>3, <1>4, ReportKeeps

LEMMA RestRemainderHistory ==
  ASSUME Inv, Inv', History, RestRemainder
  PROVE  History'
<1> DEFINE o == Original(taker)
<1>1. /\ pc = "rest" /\ pc' = "recv" /\ taker.tif # "IOC" /\ AddLimit(o)
      /\ UNCHANGED <<outbox, submitted>>
  BY DEF RestRemainder, Done, inputVars
<1>2. BookInv /\ taker \in Order
  BY <1>1, InvParts, TakerFacts
<1>3. o.id = taker.id /\ o.side = taker.side /\ o.side \in Side
  BY <1>2 DEF Original, Order
<1>4. taker.side = "Buy" /\ ~Withdrawn(taker.id)
  BY <1>1 DEF History, HandlerHistory
<1> HIDE DEF o
<1>5. \A s \in Side : \A f \in book'[s] :
        f \in book[s] \/ (s = "Buy" /\ f.id = taker.id)
  BY <1>1, <1>2, <1>3, <1>4, AddLimitQueue
<1>6. TradeHistory' /\ BookHistory'
  BY <1>1, <1>4, <1>5, SilenceKeeps
<1> QED
  BY <1>1, <1>6, HandlerOver DEF History

-----------------------------------------------------------------------------
(*                        The invariant                                    *)

LEMMA HistoryInit == Init => History
<1> SUFFICES ASSUME Init PROVE History
  OBVIOUS
<1>1. DOMAIN outbox = {} /\ Trades = {}
  BY DEF Init, Trades
<1>2. TradeHistory
  BY <1>1 DEF TradeHistory, TradesWithinLimits, NoTradeAfterClose
<1>3. BookHistory /\ HandlerHistory
  BY <1>1 DEF Init, BookHistory, HandlerHistory, Withdrawn, Closed
<1> QED
  BY <1>2, <1>3 DEF History

LEMMA HistoryNext == Inv /\ Inv' /\ History /\ [Next]_vars => History'
<1> SUFFICES ASSUME Inv, Inv', History, [Next]_vars PROVE History'
  OBVIOUS
<1>1. ASSUME NEW o \in Submissions,
             RefuseInvalid(o) \/ ParkStop(o) \/ RejectUnfillable(o) \/ DropLimit(o)
      PROVE  History'
  BY <1>1, RefuseInvalidHistory, ParkStopHistory, RejectUnfillableHistory, DropLimitHistory
<1>2. ASSUME NEW o \in Submissions, RestLimit(o) \/ StartMatching(o) PROVE History'
  BY <1>2, RestLimitHistory, StartMatchingHistory
<1>3. ASSUME NEW id \in OrderIds, CancelLive(id) \/ CancelMissing(id) PROVE History'
  BY <1>3, CancelLiveHistory, CancelMissingHistory
<1>4. ASSUME NEW now \in Times, Heartbeat(now) PROVE History'
  BY <1>4, HeartbeatHistory
<1>5. ASSUME NEW e, FillNext(e) \/ FailNext(e) PROVE History'
  BY <1>5, FillNextHistory, FailNextHistory
<1>6. CASE FinishMarket \/ CancelRemainder \/ RestRemainder
  BY <1>6, FinishMarketHistory, CancelRemainderHistory, RestRemainderHistory
<1>7. ASSUME NEW id \in OrderIds, ExpireNext(id) \/ ExpireAbort(id) PROVE History'
  BY <1>7, ExpireNextHistory, ExpireAbortHistory
<1>8. CASE UNCHANGED vars
  <2>1. UNCHANGED <<book, pc, taker, partial, outbox, submitted>>
    BY <1>8 DEF vars, bookVars, taskVars, inputVars
  <2>2. TradeHistory' /\ BookHistory'
    BY <2>1, SilenceKeeps
  <2>3. \A x : (Withdrawn(x)' <=> Withdrawn(x)) /\ (Closed(x)' <=> Closed(x))
    BY <2>1 DEF Withdrawn, Closed, Trades
  <2>4. HandlerHistory'
    BY <2>1, <2>3 DEF History, HandlerHistory
  <2> QED
    BY <2>2, <2>4 DEF History
<1> QED
  BY <1>1, <1>2, <1>3, <1>4, <1>5, <1>6, <1>7, <1>8 DEF Next, ReceiveNext, HandlerNext

LEMMA HistoryInvariance == Spec => []History
  BY HistoryInit, HistoryNext, Invariance, PTL DEF Spec

(***************************************************************************)
(* match_orders: every trade is between a buy and a sell order at a price  *)
(* within the limits of both, in whatever order the two were created and   *)
(* arrived, and whatever the quantities.                                   *)
(***************************************************************************)
THEOREM Limits == Spec => []TradesWithinLimits
<1>1. History => TradesWithinLimits
  BY DEF History, TradeHistory
<1> QED
  BY <1>1, HistoryInvariance, PTL

(***************************************************************************)
(* run, cancel_order, check_expired_orders: an order reported Canceled or  *)
(* Rejected, by whichever path and as often as it may be, is in no queue   *)
(* then or later.                                                          *)
(***************************************************************************)
THEOREM Withdrawals == Spec => []WithdrawnNotQueued
<1>1. Inv /\ History => WithdrawnNotQueued
  <2> SUFFICES ASSUME Inv, History,
                      NEW i \in DOMAIN outbox \ Trades, outbox[i].status \in Withdrawing
               PROVE  ~Queued(outbox[i].id)
    BY DEF WithdrawnNotQueued, Withdrawing
  <2>1. Withdrawn(outbox[i].id)
    BY DEF Withdrawn
  <2>2. outbox[i] \in Message /\ outbox[i].kind # "Trade"
    BY InvParts, OutboxFacts DEF TaskTyped, Trades
  <2>3. outbox[i].id \in OrderIds
    BY <2>2 DEF Message
  <2> QED
    BY <2>1, <2>3 DEF History, BookHistory
<1> QED
  BY <1>1, Invariance, HistoryInvariance, PTL

(***************************************************************************)
(* process_market_order: no trade is sent behind an update that reported   *)
(* one of its orders Filled, Canceled or Rejected.                         *)
(***************************************************************************)
THEOREM Closures == Spec => []NoTradeAfterClose
<1>1. History => NoTradeAfterClose
  BY DEF History, TradeHistory
<1> QED
  BY <1>1, HistoryInvariance, PTL

-----------------------------------------------------------------------------
(*                        Sweeps                                           *)

(***************************************************************************)
(* While the loop runs, what it has bought so far was not dearer than what *)
(* is left, and as long as it buys on, its sellers have nothing left.      *)
(***************************************************************************)
LoopHistory ==
  pc = "match" =>
    \A i \in Trades : outbox[i].buy = taker.id =>
      LET seller == outbox[i].sell
      IN  /\ \A e \in book["Sell"] : submitted[seller].price <= e.price
          /\ Remaining(taker) > 0 =>
               /\ i + 1 \in DOMAIN outbox
               /\ outbox[i + 1] = Update(seller, "Filled", submitted[seller].qty)

Sweeps == SweepsBestFirst /\ LoopHistory

(* A step that sends updates only, or nothing.                             *)
OnlyUpdates ==
  /\ Trades' = Trades
  /\ \A i \in DOMAIN outbox : i \in DOMAIN outbox' /\ outbox'[i] = outbox[i]

LEMMA UpdatesSent ==
  ASSUME outbox \in Seq(Message), NEW M, Message \subseteq M, NEW msgs \in Seq(M),
         \A j \in DOMAIN msgs : msgs[j].kind = "OrderUpdate", Send(msgs)
  PROVE  OnlyUpdates
<1>1. outbox \in Seq(M) /\ outbox' = outbox \o msgs
  BY DEF Send
<1>2. /\ DOMAIN outbox = 1..Len(outbox) /\ Len(outbox) \in Nat
      /\ DOMAIN msgs = 1..Len(msgs) /\ Len(msgs) \in Nat
  BY LenProperties
<1>3. /\ outbox' \in Seq(M)
      /\ Len(outbox') = Len(outbox) + Len(msgs)
      /\ \A i \in 1..(Len(outbox) + Len(msgs)) :
           outbox'[i] = IF i <= Len(outbox) THEN outbox[i] ELSE msgs[i - Len(outbox)]
  BY <1>1, ConcatProperties
<1>4. DOMAIN outbox' = 1..(Len(outbox) + Len(msgs))
  BY <1>3, LenProperties
<1>5. \A i \in DOMAIN outbox : i \in DOMAIN outbox' /\ outbox'[i] = outbox[i]
  BY <1>2, <1>3, <1>4
<1>6. \A i \in DOMAIN outbox' \ DOMAIN outbox : outbox'[i].kind = "OrderUpdate"
  <2> SUFFICES ASSUME NEW i \in DOMAIN outbox' \ DOMAIN outbox
               PROVE  outbox'[i].kind = "OrderUpdate"
    OBVIOUS
  <2>1. i - Len(outbox) \in DOMAIN msgs /\ outbox'[i] = msgs[i - Len(outbox)]
    BY <1>2, <1>3, <1>4
  <2> QED
    BY <2>1
<1>7. Trades' = Trades
  BY <1>5, <1>6 DEF Trades
<1> QED
  BY <1>5, <1>7 DEF OnlyUpdates

LEMMA UpdateSent ==
  ASSUME outbox \in Seq(Message), NEW id, NEW status, NEW filled,
         Send(<<Update(id, status, filled)>>)
  PROVE  OnlyUpdates
<1> DEFINE m == Update(id, status, filled)
           msgs == <<m>>
<1>1. msgs \in Seq(Message \cup {m}) /\ Send(msgs)
  OBVIOUS
<1>2. \A j \in DOMAIN msgs : msgs[j].kind = "OrderUpdate"
  BY DEF Update
<1> HIDE DEF m, msgs
<1> QED
  BY <1>1, <1>2, UpdatesSent

LEMMA NothingSent ==
  ASSUME UNCHANGED outbox
  PROVE  OnlyUpdates
  BY DEF OnlyUpdates, Trades

(* Only the matching loop trades.                                          *)
LEMMA QuietSteps ==
  ASSUME outbox \in Seq(Message), Next, \A e : ~FillNext(e)
  PROVE  OnlyUpdates
<1>1. ASSUME NEW o \in Submissions,
             RefuseInvalid(o) \/ ParkStop(o) \/ DropLimit(o)
      PROVE  OnlyUpdates
  BY <1>1, UpdateSent DEF RefuseInvalid, ParkStop, DropLimit
<1>2. ASSUME NEW o \in Submissions, RejectUnfillable(o) PROVE OnlyUpdates
  <2> DEFINE m == Update(o.id, "Rejected", 0)
             msgs == <<m, m>>
  <2>1. msgs \in Seq(Message \cup {m}) /\ Send(msgs)
    BY <1>2 DEF RejectUnfillable
  <2>2. \A j \in DOMAIN msgs : msgs[j].kind = "OrderUpdate"
    BY DEF Update
  <2> HIDE DEF m, msgs
  <2> QED
    BY <2>1, <2>2, UpdatesSent
<1>3. ASSUME NEW o \in Submissions, RestLimit(o) \/ StartMatching(o) PROVE OnlyUpdates
  BY <1>3, NothingSent DEF RestLimit, StartMatching
<1>4. ASSUME NEW id \in OrderIds, CancelLive(id) \/ CancelMissing(id) PROVE OnlyUpdates
  BY <1>4, UpdateSent DEF CancelLive, CancelMissing
<1>5. ASSUME NEW now \in Times, Heartbeat(now) PROVE OnlyUpdates
  BY <1>5, NothingSent DEF Heartbeat
<1>6. ASSUME NEW e, FailNext(e) PROVE OnlyUpdates
  BY <1>6, UpdateSent DEF FailNext
<1>7. CASE FinishMarket \/ CancelRemainder
  BY <1>7, UpdateSent DEF FinishMarket, CancelRemainder
<1>8. CASE RestRemainder
  BY <1>8, NothingSent DEF RestRemainder
<1>9. ASSUME NEW id \in OrderIds, ExpireNext(id) PROVE OnlyUpdates
  BY <1>9, UpdateSent DEF ExpireNext
<1>10. ASSUME NEW id \in OrderIds, ExpireAbort(id) PROVE OnlyUpdates
  BY <1>10, NothingSent DEF ExpireAbort
<1> QED
  BY <1>1, <1>2, <1>3, <1>4, <1>5, <1>6, <1>7, <1>8, <1>9, <1>10
  DEF Next, ReceiveNext, HandlerNext

(* An order stays as it was submitted.                                     *)
LEMMA SubmittedKept ==
  ASSUME [Next]_vars
  PROVE  \A x \in DOMAIN submitted : x \in DOMAIN submitted' /\ submitted'[x] = submitted[x]
<1>1. CASE UNCHANGED submitted
  BY <1>1
<1>2. ASSUME NEW o \in Submissions, Receive(o)
      PROVE  \A x \in DOMAIN submitted : x \in DOMAIN submitted' /\ submitted'[x] = submitted[x]
  BY <1>2 DEF Receive, Put
<1>3. ASSUME NEW o \in Submissions,
             \/ RefuseInvalid(o) \/ ParkStop(o) \/ RejectUnfillable(o)
             \/ DropLimit(o) \/ RestLimit(o) \/ StartMatching(o)
      PROVE  Receive(o)
  BY <1>3 DEF RefuseInvalid, ParkStop, RejectUnfillable, DropLimit, RestLimit, StartMatching
<1>4. ASSUME NEW id \in OrderIds,
             CancelLive(id) \/ CancelMissing(id) \/ ExpireNext(id) \/ ExpireAbort(id)
      PROVE  UNCHANGED submitted
  BY <1>4 DEF CancelLive, CancelMissing, ReceiveCancel, ExpireNext, ExpireAbort, inputVars
<1>5. ASSUME NEW now \in Times, Heartbeat(now) PROVE UNCHANGED submitted
  BY <1>5 DEF Heartbeat, inputVars
<1>6. ASSUME NEW e, FillNext(e) \/ FailNext(e) PROVE UNCHANGED submitted
  BY <1>6 DEF FillNext, FailNext, inputVars
<1>7. ASSUME FinishMarket \/ CancelRemainder \/ RestRemainder PROVE UNCHANGED submitted
  BY <1>7 DEF FinishMarket, CancelRemainder, RestRemainder, inputVars
<1>8. ASSUME UNCHANGED vars PROVE UNCHANGED submitted
  BY <1>8 DEF vars, inputVars
<1> QED
  BY <1>1, <1>2, <1>3, <1>4, <1>5, <1>6, <1>7, <1>8 DEF Next, ReceiveNext, HandlerNext

(* The loop is entered by StartMatching, and goes on by FillNext only.     *)
LEMMA LoopSteps ==
  ASSUME Next, pc' = "match"
  PROVE  (\E o \in Submissions : StartMatching(o)) \/ (\E e : FillNext(e))
<1>1. ASSUME NEW o \in Submissions,
             \/ RefuseInvalid(o) \/ ParkStop(o) \/ RejectUnfillable(o)
             \/ DropLimit(o) \/ RestLimit(o)
      PROVE  FALSE
  BY <1>1 DEF RefuseInvalid, ParkStop, RejectUnfillable, DropLimit, RestLimit,
              Receive, Idle, taskVars
<1>2. ASSUME NEW id \in OrderIds, CancelLive(id) \/ CancelMissing(id) PROVE FALSE
  BY <1>2 DEF CancelLive, CancelMissing, ReceiveCancel, Idle, taskVars
<1>3. ASSUME NEW now \in Times, Heartbeat(now) PROVE FALSE
  BY <1>3 DEF Heartbeat
<1>4. ASSUME NEW e, FailNext(e) PROVE FALSE
  BY <1>4 DEF FailNext, Done
<1>5. ~(FinishMarket \/ CancelRemainder \/ RestRemainder)
  BY DEF FinishMarket, CancelRemainder, RestRemainder, Done
<1>6. ASSUME NEW id \in OrderIds, ExpireNext(id) \/ ExpireAbort(id) PROVE FALSE
  BY <1>6 DEF ExpireNext, ExpireAbort, Done
<1> QED
  BY <1>1, <1>2, <1>3, <1>4, <1>5, <1>6 DEF Next, ReceiveNext, HandlerNext

(* Without new trades, the sweeps so far stay as they were.                *)
LEMMA SweepsKept ==
  ASSUME outbox \in Seq(Message), TradesWithinLimits, SweepsBestFirst, OnlyUpdates,
         \A x \in DOMAIN submitted : x \in DOMAIN submitted' /\ submitted'[x] = submitted[x]
  PROVE  SweepsBestFirst'
<1> SUFFICES ASSUME NEW i \in Trades', NEW j \in Trades', i < j,
                    outbox'[i].buy = outbox'[j].buy
             PROVE  LET seller == outbox'[i].sell
                    IN  /\ submitted'[seller].price <= submitted'[outbox'[j].sell].price
                        /\ outbox'[i + 1] = Update(seller, "Filled", submitted'[seller].qty)
  BY DEF SweepsBestFirst
<1>1. i \in Trades /\ j \in Trades /\ i + 1 \in DOMAIN outbox
  BY OutboxFacts DEF OnlyUpdates
<1>2. outbox'[i] = outbox[i] /\ outbox'[j] = outbox[j] /\ outbox'[i + 1] = outbox[i + 1]
  BY <1>1, OutboxFacts DEF OnlyUpdates
<1>3. outbox[i].sell \in DOMAIN submitted /\ outbox[j].sell \in DOMAIN submitted
  BY <1>1 DEF TradesWithinLimits
<1> QED
  BY <1>1, <1>2, <1>3 DEF SweepsBestFirst

(* A new order has not traded.                                             *)
LEMMA StartMatchingSweeps ==
  ASSUME Inv, TradesWithinLimits, NEW o \in Submissions, StartMatching(o)
  PROVE  LoopHistory'
<1>1. Receive(o) /\ Valid(o) /\ taker' = Effective(o) /\ UNCHANGED outbox
  BY DEF StartMatching
<1>2. taker'.id = o.id /\ o.id \notin DOMAIN submitted
  <2>1. o \in Order /\ o.id \notin DOMAIN submitted
    BY <1>1, ReceiveFacts
  <2> QED
    BY <1>1, <2>1, EffectiveFacts DEF SameTerms
<1>3. \A i \in Trades : outbox[i].buy # o.id
  BY <1>2 DEF TradesWithinLimits
<1>4. Trades' = Trades /\ \A i \in Trades' : outbox'[i].buy # taker'.id
  BY <1>1, <1>2, <1>3 DEF Trades
<1> QED
  BY <1>4 DEF LoopHistory

(* The best ask is not dearer than another.                                *)
LEMMA BestAsk ==
  ASSUME Inv, NEW e, IsBest("Sell", e)
  PROVE  \A f \in book["Sell"] : e.price <= f.price
<1> SUFFICES ASSUME NEW f \in book["Sell"] PROVE e.price <= f.price
  OBVIOUS
<1>1. e \in Entry /\ f \in Entry
  BY InvParts DEF IsBest, BookInv, BookTyped, Side
<1>2. e.price \in Int /\ f.price \in Int
  BY <1>1, OrderBookAssumption DEF Entry
<1>3. f = e \/ Better("Sell", e, f)
  BY DEF IsBest
<1> QED
  BY <1>2, <1>3 DEF Better

(***************************************************************************)
(* An iteration trades with the best ask, and if the taker still wants     *)
(* more after it, it has used that order up.                               *)
(***************************************************************************)
FillNextSold(e) ==
  /\ outbox'[Len(outbox) + 1].buy = taker.id /\ outbox'[Len(outbox) + 1].sell = e.id
  /\ e.id \in DOMAIN submitted /\ submitted[e.id].price = e.price
  /\ e \in book["Sell"] /\ \A f \in book["Sell"] : e.price <= f.price
  /\ Remaining(taker)' > 0 =>
       outbox'[Len(outbox) + 2] = Update(e.id, "Filled", submitted[e.id].qty)

FillNextGrows ==
  /\ Len(outbox) + 2 \in DOMAIN outbox'
  /\ Trades' = Trades \cup {Len(outbox) + 1}
  /\ \A i \in DOMAIN outbox : i \in DOMAIN outbox' /\ outbox'[i] = outbox[i]

LEMMA UsedUp ==
  ASSUME NEW qty \in Int, NEW want \in Int, NEW left \in Int,
         NEW total \in Int, NEW filled \in Int,
         left = total - filled, qty \in {want, left}, want - qty > 0
  PROVE  filled + qty = total
  OBVIOUS

LEMMA FillNextTrade ==
  ASSUME Inv, NEW e, FillNext(e)
  PROVE  FillNextGrows /\ FillNextSold(e)
<1> DEFINE resting == orders[e.id]
           qty == MatchQty(taker, resting)
           updated == Filled(resting, qty)
           price == MatchPrice(taker, resting, lastPrice)
           trade == Trade(taker.id, e.id, price, qty)
           update == Update(e.id, updated.status, updated.filled)
<1>1. /\ pc = "match" /\ Pop(e) /\ CanMatch(taker, resting)
      /\ taker' = [taker EXCEPT !.filled = @ + qty]
      /\ Send(<<trade, update>>)
  BY DEF FillNext, Pop, MatchFails
<1>2. /\ BookInv /\ taker \in Order /\ taker.id \in OrderIds
      /\ outbox \in Seq(Message) /\ lastPrice \in Prices \cup {NoPrice, 0}
  BY <1>1, InvParts, TakerFacts DEF TaskTyped, BookInv, BookTyped
<1>3. /\ taker.side = "Buy"
      /\ e \in book["Sell"] /\ IsBest("Sell", e)
      /\ e.id \in DOMAIN orders /\ e.id \in OrderIds
      /\ resting \in Order /\ resting.price = e.price
  <2>1. taker.side = "Buy"
    BY <1>1 DEF CanMatch
  <2>2. IsBest("Sell", e) /\ e \in book["Sell"]
    BY <1>1, <2>1 DEF Pop, Opposite, IsBest
  <2>3. resting.price = e.price
    BY <1>2, <2>2 DEF BookInv, QueuedStored, Side
  <2> QED
    BY <1>1, <1>2, <2>1, <2>2, <2>3, PopFacts DEF BookInv, BookTyped
<1>4. e.id \in DOMAIN submitted /\ SameTerms(resting, submitted[e.id])
  BY <1>3, InvParts DEF StoredSubmitted
<1>5. /\ qty \in Int /\ price \in Prices \cup {0}
      /\ Remaining(taker) \in Int /\ Remaining(resting) \in Int
      /\ qty \in {Remaining(taker), Remaining(resting)}
  BY <1>2, <1>3, MatchTypes
<1>6. /\ updated \in Order /\ updated.filled = resting.filled + qty
      /\ updated.status = IF resting.filled + qty = resting.qty THEN "Filled" ELSE "PartiallyFilled"
  BY <1>3, <1>5, FilledFacts DEF Filled, Order
<1>7. trade \in Message /\ trade.kind = "Trade" /\ trade.buy = taker.id /\ trade.sell = e.id
  BY <1>2, <1>3, <1>5, MessageTypes DEF Trade
<1>8. update \in Message /\ update.kind = "OrderUpdate"
  <2>1. updated.status \in OrderStatus /\ updated.filled \in Int
    BY <1>6 DEF Order
  <2> QED
    BY <1>3, <2>1, MessageTypes DEF Update
<1>9. Remaining(taker)' > 0 => update = Update(e.id, "Filled", submitted[e.id].qty)
  <2> SUFFICES ASSUME Remaining(taker)' > 0
               PROVE  update = Update(e.id, "Filled", submitted[e.id].qty)
    OBVIOUS
  <2>1. /\ taker.qty \in Int /\ taker.filled \in Int
        /\ resting.qty \in Int /\ resting.filled \in Int
    BY <1>2, <1>3 DEF Order
  <2>2. Remaining(taker) - qty > 0
    <3>1. taker'.qty = taker.qty /\ taker'.filled = taker.filled + qty
      BY <1>1, <1>2 DEF Order
    <3> QED
      BY <1>5, <2>1, <3>1 DEF Remaining
  <2>3. resting.filled + qty = resting.qty
    BY <1>5, <2>1, <2>2, UsedUp DEF Remaining
  <2>4. submitted[e.id].qty = resting.qty
    BY <1>4 DEF SameTerms
  <2> QED
    BY <1>6, <2>3, <2>4
<1> HIDE DEF trade, update, updated, price, qty
<1>10. FillNextGrows /\ outbox'[Len(outbox) + 1] = trade /\ outbox'[Len(outbox) + 2] = update
  <2>1. /\ Trades' = Trades \cup {Len(outbox) + 1}
        /\ outbox'[Len(outbox) + 1] = trade
        /\ \A i \in DOMAIN outbox : i \in DOMAIN outbox' /\ outbox'[i] = outbox[i]
        /\ DOMAIN outbox' \ Trades' = (DOMAIN outbox \ Trades) \cup {Len(outbox) + 2}
        /\ outbox'[Len(outbox) + 2] = update
    BY <1>1, <1>2, <1>7, <1>8, FillSends
  <2> QED
    BY <2>1 DEF FillNextGrows
<1>11. submitted[e.id].price = e.price
  BY <1>3, <1>4 DEF SameTerms
<1>12. \A f \in book["Sell"] : e.price <= f.price
  BY <1>3, BestAsk
<1> QED
  BY <1>3, <1>4, <1>7, <1>9, <1>10, <1>11, <1>12 DEF FillNextSold

LEMMA FillNextSweeps ==
  ASSUME outbox \in Seq(Message), taker \in Order, TradesWithinLimits, Sweeps,
         NEW e, FillNext(e), FillNextGrows, FillNextSold(e)
  PROVE  Sweeps'
<1> DEFINE n == Len(outbox)
<1>1. DOMAIN outbox = 1..n /\ n \in Nat /\ Trades \subseteq DOMAIN outbox
  BY OutboxFacts
<1>2. /\ pc = "match" /\ Pop(e) /\ Remaining(taker) > 0 /\ UNCHANGED submitted
      /\ taker'.id = taker.id
  <2>1. \E qty : taker' = [taker EXCEPT !.filled = @ + qty]
    BY DEF FillNext
  <2> QED
    BY <2>1 DEF FillNext, Pop, inputVars, Order
<1>3. \A f \in book'["Sell"] : f \in book["Sell"]
  BY <1>2 DEF Pop
<1>4. /\ n + 2 \in DOMAIN outbox' /\ Trades' = Trades \cup {n + 1}
      /\ \A i \in DOMAIN outbox : i \in DOMAIN outbox' /\ outbox'[i] = outbox[i]
  BY DEF FillNextGrows
<1>5. /\ outbox'[n + 1].buy = taker.id /\ outbox'[n + 1].sell = e.id
      /\ e.id \in DOMAIN submitted /\ submitted[e.id].price = e.price
      /\ \A f \in book["Sell"] : e.price <= f.price
      /\ Remaining(taker)' > 0 => outbox'[n + 2] = Update(e.id, "Filled", submitted[e.id].qty)
      /\ e \in book["Sell"]
  BY DEF FillNextSold
<1> HIDE DEF n
<1>6. ASSUME NEW i \in Trades, outbox[i].buy = taker.id
      PROVE  /\ \A f \in book["Sell"] : submitted[outbox[i].sell].price <= f.price
             /\ i + 1 \in DOMAIN outbox
             /\ outbox[i + 1] = Update(outbox[i].sell, "Filled", submitted[outbox[i].sell].qty)
  BY <1>2, <1>6 DEF Sweeps, LoopHistory
<1>7. SweepsBestFirst'
  <2> SUFFICES ASSUME NEW i \in Trades', NEW j \in Trades', i < j,
                      outbox'[i].buy = outbox'[j].buy
               PROVE  LET seller == outbox'[i].sell
                      IN  /\ submitted'[seller].price <= submitted'[outbox'[j].sell].price
                          /\ outbox'[i + 1] = Update(seller, "Filled", submitted'[seller].qty)
    BY DEF SweepsBestFirst
  <2>1. i \in Trades /\ i \in DOMAIN outbox /\ outbox'[i] = outbox[i]
    BY <1>1, <1>4
  <2>2. CASE j \in Trades
    <3>1. i + 1 \in DOMAIN outbox /\ outbox'[j] = outbox[j]
      BY <1>1, <1>4, <2>1, <2>2
    <3>2. outbox'[i + 1] = outbox[i + 1]
      BY <1>4, <3>1
    <3> QED
      BY <1>2, <2>1, <2>2, <3>1, <3>2 DEF Sweeps, SweepsBestFirst
  <2>3. CASE j = n + 1
    <3>1. outbox[i].buy = taker.id
      BY <1>5, <2>1, <2>3
    <3>2. outbox'[i + 1] = outbox[i + 1]
      BY <1>4, <1>6, <2>1, <3>1
    <3> QED
      BY <1>2, <1>5, <1>6, <2>1, <2>3, <3>1, <3>2
  <2> QED
    BY <1>4, <2>2, <2>3
<1>8. LoopHistory'
  <2> SUFFICES ASSUME NEW i \in Trades', outbox'[i].buy = taker.id
               PROVE  LET seller == outbox'[i].sell
                      IN  /\ \A f \in book'["Sell"] : submitted'[seller].price <= f.price
                          /\ Remaining(taker)' > 0 =>
                               /\ i + 1 \in DOMAIN outbox'
                               /\ outbox'[i + 1] = Update(seller, "Filled", submitted'[seller].qty)
    BY <1>2 DEF LoopHistory
  <2>1. CASE i \in Trades
    <3>1. outbox'[i] = outbox[i]
      BY <1>1, <1>4, <2>1
    <3>2. i + 1 \in DOMAIN outbox' /\ outbox'[i + 1] = outbox[i + 1]
      BY <1>4, <1>6, <2>1, <3>1
    <3> QED
      BY <1>2, <1>3, <1>6, <2>1, <3>1, <3>2
  <2>2. CASE i = n + 1
    <3>1. i + 1 = n + 2
      BY <1>1, <2>2
    <3> QED
      BY <1>2, <1>3, <1>4, <1>5, <2>2, <3>1
  <2> QED
    BY <1>4, <2>1, <2>2
<1> QED
  BY <1>7, <1>8 DEF Sweeps

LEMMA SweepsInit == Init => Sweeps
<1> SUFFICES ASSUME Init PROVE Sweeps
  OBVIOUS
<1>1. Trades = {} /\ pc = "recv"
  BY DEF Init, Trades
<1> QED
  BY <1>1 DEF Sweeps, SweepsBestFirst, LoopHistory

LEMMA SweepsNext == Inv /\ TradesWithinLimits /\ Sweeps /\ [Next]_vars => Sweeps'
<1> SUFFICES ASSUME Inv, TradesWithinLimits, Sweeps, [Next]_vars PROVE Sweeps'
  OBVIOUS
<1>1. outbox \in Seq(Message)
  BY InvParts DEF TaskTyped
<1>2. ASSUME OnlyUpdates PROVE SweepsBestFirst'
  BY <1>1, <1>2, SubmittedKept, SweepsKept DEF Sweeps
<1>3. ASSUME NEW e, FillNext(e) PROVE Sweeps'
  <2>1. FillNextGrows /\ FillNextSold(e)
    BY <1>3, FillNextTrade
  <2>2. taker \in Order
    BY <1>3, TakerFacts DEF FillNext, Pop
  <2> QED
    BY <1>1, <1>3, <2>1, <2>2, FillNextSweeps
<1>4. ASSUME Next, \A e : ~FillNext(e) PROVE Sweeps'
  <2>1. SweepsBestFirst'
    BY <1>1, <1>2, <1>4, QuietSteps
  <2>2. CASE pc' # "match"
    BY <2>1, <2>2 DEF Sweeps, LoopHistory
  <2>3. CASE pc' = "match"
    BY <1>4, <2>1, <2>3, LoopSteps, StartMatchingSweeps DEF Sweeps
  <2> QED
    BY <2>2, <2>3
<1>5. CASE UNCHANGED vars
  <2>1. UNCHANGED <<book, pc, taker, outbox, submitted>>
    BY <1>5 DEF vars, bookVars, taskVars, inputVars
  <2> QED
    BY <2>1 DEF Sweeps, SweepsBestFirst, LoopHistory, Trades, Remaining
<1> QED
  BY <1>3, <1>4, <1>5

(***************************************************************************)
(* pop_best_order and the loop of process_market_order: of two trades of   *)
(* one buy order the first is with the cheaper seller, or one as cheap,    *)
(* and is followed at once by the report that this seller sold all he had, *)
(* for any orders, prices and quantities.                                  *)
(***************************************************************************)
THEOREM PricePriority == Spec => []SweepsBestFirst
<1>1. History => TradesWithinLimits
  BY DEF History, TradeHistory
<1>2. Sweeps => SweepsBestFirst
  BY DEF Sweeps
<1> QED
  BY <1>1, <1>2, SweepsInit, SweepsNext, Invariance, HistoryInvariance, PTL DEF Spec
=============================================================================
