--------------------------- MODULE OrderSums_proofs ---------------------------
(***************************************************************************)
(* Proofs about the quantities of a book: what an order has filled is what *)
(* its trades add up to, no order trades more than its quantity, and the   *)
(* price levels add up to what the stored orders still have to fill.       *)
(***************************************************************************)
EXTENDS OrderHistory_proofs, Sums_proofs

(* The stored orders are finitely many, and bids are stored unfilled:      *)
(* RestRemainder adds the original of an order that has traded.            *)
StoredFills ==
  /\ IsFiniteSet(DOMAIN orders)
  /\ \A id \in DOMAIN orders :
       orders[id].filled = IF orders[id].side = "Sell" THEN Traded(id) ELSE 0
  /\ pc = "match" => taker.filled = Traded(taker.id)

(* A fill is reported of a submitted order, whose quantity does not change.*)
ReportHolds(i) ==
  outbox[i].status \in {"PartiallyFilled", "Filled"} =>
    /\ outbox[i].id \in DOMAIN submitted
    /\ outbox[i].filled = TradedBy(outbox[i].id, i)
    /\ outbox[i].status = "Filled" <=> outbox[i].filled = submitted[outbox[i].id].qty

Reports == \A i \in DOMAIN outbox \ Trades : ReportHolds(i)

Fills == StoredFills /\ Reports /\ NoOverfill

-----------------------------------------------------------------------------
(*                        What the trades of an order add up to            *)

TradesOf(id, n) == {j \in Trades : j <= n /\ id \in {outbox[j].buy, outbox[j].sell}}

LEMMA TradedSummable ==
  ASSUME outbox \in Seq(Message), NEW id, NEW n
  PROVE  /\ Summable([i \in TradesOf(id, n) |-> outbox[i].qty])
         /\ TradedBy(id, n) = SumFunction([i \in TradesOf(id, n) |-> outbox[i].qty])
         /\ TradedBy(id, n) \in Int
<1> DEFINE f == [i \in TradesOf(id, n) |-> outbox[i].qty]
<1>1. /\ DOMAIN outbox = 1..Len(outbox) /\ Len(outbox) \in Nat
      /\ Trades \subseteq DOMAIN outbox
      /\ \A i \in DOMAIN outbox : outbox[i] \in Message
  BY OutboxFacts
<1>2. IsFiniteSet(TradesOf(id, n))
  <2>1. IsFiniteSet(1..Len(outbox))
    BY <1>1, FS_Interval
  <2> QED
    BY <1>1, <2>1, FS_Subset DEF TradesOf
<1>3. \A i \in TradesOf(id, n) : outbox[i].qty \in Int
  <2>1. \A m \in Message : m.kind = "Trade" => m.qty \in Int
    BY DEF Message
  <2> QED
    BY <1>1, <2>1 DEF TradesOf, Trades
<1>4. Summable(f)
  BY <1>2, <1>3 DEF Summable
<1>5. TradedBy(id, n) = SumFunction(f)
  BY DEF TradedBy, TradesOf
<1>6. SumFunction(f) \in Int
  <2> HIDE DEF f
  <2> QED
    BY <1>4, SumFunctionType
<1> QED
  BY <1>4, <1>5, <1>6

(* Traded counts all the trades.                                           *)
LEMMA TradedAll ==
  ASSUME NEW id
  PROVE  /\ outbox \in Seq(Message)
              => TradesOf(id, Len(outbox)) = {j \in Trades : id \in {outbox[j].buy, outbox[j].sell}}
         /\ outbox' \in Seq(Message)
              => TradesOf(id, Len(outbox))' = {j \in Trades : id \in {outbox[j].buy, outbox[j].sell}}'
<1>1. outbox \in Seq(Message) => \A j \in Trades : j <= Len(outbox)
  BY LenProperties DEF Trades
<1>2. outbox' \in Seq(Message) => \A j \in Trades' : j <= Len(outbox')
  BY LenProperties DEF Trades
<1> QED
  BY <1>1, <1>2 DEF TradesOf

LEMMA NotTraded ==
  ASSUME TradesWithinLimits, NEW id, id \notin DOMAIN submitted
  PROVE  Traded(id) = 0
<1> DEFINE f == [i \in TradesOf(id, Len(outbox)) |-> outbox[i].qty]
<1>1. DOMAIN f = {}
  BY DEF TradesOf, TradesWithinLimits
<1>2. Traded(id) = SumFunction(f)
  BY DEF Traded, TradedBy, TradesOf
<1> HIDE DEF f
<1> QED
  BY <1>1, <1>2, SumFunctionEmpty

(* What was sent stays as it is, up to any place in the old outbox.        *)
LEMMA TradedByKept ==
  ASSUME outbox \in Seq(Message), NEW msgs \in Seq(Message), Send(msgs),
         NEW id, NEW n \in Int, n <= Len(outbox)
  PROVE  TradedBy(id, n)' = TradedBy(id, n)
<1>1. /\ DOMAIN outbox = 1..Len(outbox) /\ Len(outbox) \in Nat
      /\ DOMAIN msgs = 1..Len(msgs) /\ Len(msgs) \in Nat
      /\ Trades \subseteq DOMAIN outbox
  BY OutboxFacts, LenProperties
<1>2. /\ \A i \in DOMAIN outbox : i \in DOMAIN outbox' /\ outbox'[i] = outbox[i]
      /\ \A i \in DOMAIN outbox' \ DOMAIN outbox : i - Len(outbox) \in DOMAIN msgs
  BY SendPlaces
<1>3. DOMAIN outbox' \subseteq Int
  <2>1. outbox' \in Seq(Message)
    BY SendFacts
  <2> QED
    BY <2>1, LenProperties
<1>4. \A i \in DOMAIN outbox' : i <= n => i \in DOMAIN outbox
  BY <1>1, <1>2, <1>3
<1>5. /\ TradesOf(id, n)' = TradesOf(id, n)
      /\ \A i \in TradesOf(id, n) : outbox'[i] = outbox[i]
  BY <1>1, <1>2, <1>4 DEF TradesOf, Trades
<1>6. [i \in TradesOf(id, n) |-> outbox[i].qty]' = [i \in TradesOf(id, n) |-> outbox[i].qty]
  BY <1>5
<1> QED
  BY <1>6 DEF TradedBy, TradesOf

(* A step that sends no trade leaves what every order has traded.          *)
LEMMA TradedKept ==
  ASSUME outbox \in Seq(Message), outbox' \in Seq(Message), Trades' = Trades,
         \A i \in DOMAIN outbox : outbox'[i] = outbox[i],
         NEW id
  PROVE  Traded(id)' = Traded(id)
<1>1. /\ TradesOf(id, Len(outbox)) = {j \in Trades : id \in {outbox[j].buy, outbox[j].sell}}
      /\ TradesOf(id, Len(outbox))' = {j \in Trades : id \in {outbox[j].buy, outbox[j].sell}}'
  BY TradedAll
<1>2. \A j \in Trades : outbox'[j] = outbox[j]
  BY DEF Trades
<1>3. [i \in TradesOf(id, Len(outbox)) |-> outbox[i].qty]'
        = [i \in TradesOf(id, Len(outbox)) |-> outbox[i].qty]
  BY <1>1, <1>2
<1> QED
  BY <1>3 DEF Traded, TradedBy, TradesOf

(* A trade counts for both its orders, and for no other.                   *)
LEMMA TradedMore ==
  ASSUME outbox \in Seq(Message), outbox' \in Seq(Message),
         NEW n, n \notin DOMAIN outbox, Trades' = Trades \cup {n},
         n \in DOMAIN outbox',
         \A i \in DOMAIN outbox : outbox'[i] = outbox[i],
         NEW id
  PROVE  Traded(id)' = IF id \in {outbox'[n].buy, outbox'[n].sell}
                       THEN Traded(id) + outbox'[n].qty ELSE Traded(id)
<1> DEFINE f == [i \in TradesOf(id, Len(outbox)) |-> outbox[i].qty]
           h == [i \in TradesOf(id, Len(outbox))' |-> outbox'[i].qty]
<1>1. /\ TradesOf(id, Len(outbox)) = {j \in Trades : id \in {outbox[j].buy, outbox[j].sell}}
      /\ TradesOf(id, Len(outbox))' = {j \in Trades : id \in {outbox[j].buy, outbox[j].sell}}'
  BY TradedAll
<1>2. \A j \in Trades : outbox'[j] = outbox[j] /\ j # n
  BY DEF Trades
<1>3. Summable(f) /\ Traded(id) = SumFunction(f)
  BY TradedSummable DEF Traded
<1>4. Traded(id)' = SumFunction(h)
  BY DEF Traded, TradedBy, TradesOf
<1>5. outbox'[n].qty \in Int
  <2>1. outbox'[n] \in Message /\ outbox'[n].kind = "Trade"
    BY ElementOfSeq, LenProperties DEF Trades
  <2> QED
    BY <2>1 DEF Message
<1>6. CASE id \in {outbox'[n].buy, outbox'[n].sell}
  <2>1. /\ DOMAIN h = DOMAIN f \cup {n} /\ n \notin DOMAIN f
        /\ h[n] = outbox'[n].qty /\ \A y \in DOMAIN f : h[y] = f[y]
    BY <1>1, <1>2, <1>6
  <2> HIDE DEF f, h
  <2> QED
    BY <1>3, <1>4, <1>5, <1>6, <2>1, SumPlus
<1>7. CASE id \notin {outbox'[n].buy, outbox'[n].sell}
  <2>1. DOMAIN h = DOMAIN f /\ \A y \in DOMAIN f : h[y] = f[y]
    BY <1>1, <1>2, <1>7
  <2> HIDE DEF f, h
  <2> QED
    BY <1>3, <1>4, <1>7, <2>1, SumSame
<1> QED
  BY <1>6, <1>7

-----------------------------------------------------------------------------
(*                        The steps that send no trade                     *)

(* The reports are right if the new ones are.                              *)
LEMMA ReportsKept ==
  ASSUME outbox \in Seq(Message), Reports, NEW msgs \in Seq(Message), Send(msgs),
         \A x \in DOMAIN submitted : x \in DOMAIN submitted' /\ submitted'[x] = submitted[x],
         \A i \in DOMAIN outbox' \ Trades' : i \notin DOMAIN outbox => ReportHolds(i)'
  PROVE  Reports'
<1> SUFFICES ASSUME NEW i \in DOMAIN outbox' \ Trades' PROVE ReportHolds(i)'
  BY DEF Reports
<1>1. CASE i \notin DOMAIN outbox
  BY <1>1
<1>2. CASE i \in DOMAIN outbox
  <2>1. outbox'[i] = outbox[i] /\ i \in DOMAIN outbox \ Trades
    BY <1>2, SendPlaces DEF Trades
  <2>2. ReportHolds(i)
    BY <2>1 DEF Reports
  <2>3. PICK id : id = outbox[i].id
    OBVIOUS
  <2>4. TradedBy(id, i)' = TradedBy(id, i)
    <3>1. i \in Int /\ i <= Len(outbox)
      BY <1>2, OutboxFacts
    <3> QED
      BY <3>1, TradedByKept
  <2>5. (TradedBy(outbox[i].id, i))' = TradedBy(outbox[i].id, i)
    <3>1. (outbox[i].id)' = id
      BY <2>1, <2>3
    <3>2. (TradedBy(outbox[i].id, i))' = TradedBy(id, i)'
      BY <3>1 DEF TradedBy
    <3> QED
      BY <2>3, <2>4, <3>2
  <2> QED
    BY <2>1, <2>2, <2>5 DEF ReportHolds
<1> QED
  BY <1>1, <1>2

(* Without new trades, the orders stored, received and started count none. *)
LEMMA FillsKept ==
  ASSUME Inv, Inv', History, StoredFills, NoOverfill, Trades' = Trades,
         \A i \in DOMAIN outbox : outbox'[i] = outbox[i],
         \A x \in DOMAIN submitted : x \in DOMAIN submitted' /\ submitted'[x] = submitted[x],
         NEW new, DOMAIN orders' \subseteq DOMAIN orders \cup {new},
         \A x \in DOMAIN orders' :
           \/ x \in DOMAIN orders /\ orders'[x] = orders[x]
           \/ orders'[x].filled = 0 /\ (orders'[x].side = "Sell" => x \notin DOMAIN submitted),
         pc' = "match" => taker'.filled = 0 /\ taker'.id \notin DOMAIN submitted
  PROVE  StoredFills' /\ NoOverfill'
<1>1. outbox \in Seq(Message) /\ outbox' \in Seq(Message)
  BY InvParts DEF TaskTyped
<1>2. \A x : Traded(x)' = Traded(x)
  BY <1>1, TradedKept
<1>3. \A x : x \notin DOMAIN submitted => Traded(x) = 0
  BY NotTraded DEF History, TradeHistory
<1>4. IsFiniteSet(DOMAIN orders')
  BY FS_AddElement, FS_Subset DEF StoredFills
<1>5. \A x \in DOMAIN orders' :
        orders'[x].filled = IF orders'[x].side = "Sell" THEN Traded(x)' ELSE 0
  BY <1>2, <1>3 DEF StoredFills
<1>6. pc' = "match" => taker'.filled = (Traded(taker.id))'
  <2>1. PICK id : id = taker'.id
    OBVIOUS
  <2>2. pc' = "match" => taker'.filled = Traded(id)'
    BY <1>2, <1>3, <2>1
  <2> QED
    BY <2>1, <2>2 DEF Traded, TradedBy
<1>7. NoOverfill'
  <2> SUFFICES ASSUME NEW x \in DOMAIN submitted'
               PROVE  Traded(x)' <= IF submitted'[x].qty > 0 THEN submitted'[x].qty ELSE 0
    BY DEF NoOverfill
  <2>1. CASE x \in DOMAIN submitted
    BY <1>2, <2>1 DEF NoOverfill
  <2>2. CASE x \notin DOMAIN submitted
    <3>1. Traded(x)' = 0
      BY <1>2, <1>3, <2>2
    <3>2. submitted'[x].qty \in Int
      BY InvParts DEF TaskTyped, Order
    <3> QED
      BY <3>1, <3>2
  <2> QED
    BY <2>1, <2>2
<1> QED
  BY <1>4, <1>5, <1>6, <1>7 DEF StoredFills

(* Updates that report no fill.                                            *)
LEMMA ReportFills ==
  ASSUME Inv, Inv', History, Fills,
         \A x \in DOMAIN submitted : x \in DOMAIN submitted' /\ submitted'[x] = submitted[x],
         NEW id, NEW status \in {"New", "Canceled", "Rejected"},
         NEW msgs \in Seq(Message), Send(msgs),
         \A j \in DOMAIN msgs :
           msgs[j].kind = "OrderUpdate" /\ msgs[j].id = id /\ msgs[j].status = status,
         DOMAIN orders' \subseteq DOMAIN orders,
         \A x \in DOMAIN orders' : orders'[x] = orders[x],
         pc' # "match"
  PROVE  Fills'
<1>1. outbox \in Seq(Message)
  BY InvParts DEF TaskTyped
<1>2. /\ Trades' = Trades
      /\ \A i \in DOMAIN outbox : outbox'[i] = outbox[i]
      /\ \A x : Withdrawn(x)' => Withdrawn(x) \/ (x = id /\ status \in Withdrawing)
      /\ \A x : Closed(x)' => Closed(x) \/ (x = id /\ status \in Closing)
  BY ONLY <1>1, ReportFacts, Send(msgs), msgs \in Seq(Message),
     \A j \in DOMAIN msgs :
       msgs[j].kind = "OrderUpdate" /\ msgs[j].id = id /\ msgs[j].status = status
<1>3. Reports'
  <2>1. \A i \in DOMAIN outbox' : i \notin DOMAIN outbox => outbox'[i].status = status
    BY <1>1, SendPlaces
  <2>2. \A i \in DOMAIN outbox' \ Trades' : i \notin DOMAIN outbox => ReportHolds(i)'
    BY <2>1 DEF ReportHolds
  <2> QED
    BY <1>1, <2>2, ReportsKept DEF Fills
<1>4. StoredFills' /\ NoOverfill'
  BY <1>2, FillsKept DEF Fills
<1> QED
  BY <1>3, <1>4 DEF Fills

(* A step that sends nothing.                                              *)
LEMMA SilenceFills ==
  ASSUME Inv, Inv', History, Fills, UNCHANGED outbox,
         \A x \in DOMAIN submitted : x \in DOMAIN submitted' /\ submitted'[x] = submitted[x],
         NEW new, DOMAIN orders' \subseteq DOMAIN orders \cup {new},
         \A x \in DOMAIN orders' :
           \/ x \in DOMAIN orders /\ orders'[x] = orders[x]
           \/ orders'[x].filled = 0 /\ (orders'[x].side = "Sell" => x \notin DOMAIN submitted),
         pc' = "match" => taker'.filled = 0 /\ taker'.id \notin DOMAIN submitted
  PROVE  Fills'
<1>1. outbox \in Seq(Message)
  BY InvParts DEF TaskTyped
<1>2. Send(<<>>) /\ <<>> \in Seq(Message)
  BY <1>1, ConcatEmptySeq DEF Send
<1>3. Trades' = Trades /\ outbox' = outbox
  BY SilenceFacts
<1>4. Reports'
  BY <1>1, <1>2, ReportsKept DEF Fills
<1>5. \A i \in DOMAIN outbox : outbox'[i] = outbox[i]
  BY <1>3
<1>6. StoredFills' /\ NoOverfill'
  BY <1>3, <1>5, FillsKept DEF Fills
<1> QED
  BY <1>4, <1>6 DEF Fills

(* RefuseInvalid, ParkStop, RejectUnfillable and DropLimit.                *)
LEMMA AnswerFills ==
  ASSUME Inv, Inv', History, Fills, NEW o \in Submissions, Receive(o),
         NEW status \in {"New", "Canceled", "Rejected"},
         NEW msgs, msgs = <<Update(o.id, status, 0)>>
                     \/ msgs = <<Update(o.id, status, 0), Update(o.id, status, 0)>>,
         Send(msgs), UNCHANGED <<bookVars, taskVars>>
  PROVE  Fills'
<1>1. UNCHANGED <<orders, pc>>
  BY DEF bookVars, taskVars
<1>2. pc' # "match"
  BY <1>1, ReceiveFacts
<1>3. /\ \A x \in DOMAIN submitted : x \in DOMAIN submitted' /\ submitted'[x] = submitted[x]
      /\ o.id \in OrderIds
  BY NewOrderOpen
<1>4. Update(o.id, status, 0) \in Message
  BY <1>3, MessageTypes DEF OrderStatus
<1>5. /\ msgs \in Seq(Message)
      /\ \A j \in DOMAIN msgs : msgs[j] = Update(o.id, status, 0)
  <2>1. CASE msgs = <<Update(o.id, status, 0)>>
    BY <1>4, <2>1
  <2>2. CASE msgs = <<Update(o.id, status, 0), Update(o.id, status, 0)>>
    BY <1>4, <2>2
  <2> QED
    BY <2>1, <2>2
<1>6. \A j \in DOMAIN msgs :
        msgs[j].kind = "OrderUpdate" /\ msgs[j].id = o.id /\ msgs[j].status = status
  BY <1>5 DEF Update
<1> QED
  BY <1>1, <1>2, <1>3, <1>5, <1>6, ReportFills

LEMMA AnswersFills ==
  ASSUME Inv, Inv', History, Fills, NEW o \in Submissions,
         RefuseInvalid(o) \/ ParkStop(o) \/ RejectUnfillable(o) \/ DropLimit(o)
  PROVE  Fills'
<1>1. CASE RefuseInvalid(o)
  BY <1>1, AnswerFills DEF RefuseInvalid
<1>2. CASE ParkStop(o)
  BY <1>2, AnswerFills DEF ParkStop
<1>3. CASE RejectUnfillable(o)
  BY <1>3, AnswerFills DEF RejectUnfillable
<1>4. CASE DropLimit(o)
  <2> DEFINE status == IF o.tif = "IOC" THEN "Canceled" ELSE "Rejected"
  <2>1. Receive(o) /\ Send(<<Update(o.id, status, 0)>>) /\ UNCHANGED <<bookVars, taskVars>>
    BY <1>4 DEF DropLimit
  <2>2. status \in {"New", "Canceled", "Rejected"}
    OBVIOUS
  <2> HIDE DEF status
  <2> QED
    BY <2>1, <2>2, AnswerFills
<1> QED
  BY <1>1, <1>2, <1>3, <1>4

LEMMA RestLimitFills ==
  ASSUME Inv, Inv', History, Fills, NEW o \in Submissions, RestLimit(o)
  PROVE  Fills'
<1> DEFINE p == Effective(o)
<1>1. /\ Receive(o) /\ Valid(o) /\ AddLimit(p)
      /\ UNCHANGED <<pc, outbox>>
  BY DEF RestLimit, taskVars
<1>2. o \in Order /\ o.filled = 0 /\ o.id \notin DOMAIN submitted /\ pc = "recv"
  BY <1>1, ReceiveFacts
<1>3. p \in Order /\ p.id = o.id /\ p.filled = 0
  BY <1>1, <1>2, EffectiveFacts DEF SameTerms
<1>4. orders' = Put(orders, p.id, [p EXCEPT !.status = "New"])
  BY <1>1 DEF AddLimit
<1> HIDE DEF p
<1>5. [p EXCEPT !.status = "New"].filled = 0
  BY <1>3 DEF Order
<1>6. /\ DOMAIN orders' \subseteq DOMAIN orders \cup {o.id}
      /\ \A x \in DOMAIN orders' :
           \/ x \in DOMAIN orders /\ orders'[x] = orders[x]
           \/ orders'[x].filled = 0 /\ x \notin DOMAIN submitted
  BY <1>2, <1>3, <1>4, <1>5 DEF Put
<1> QED
  BY <1>1, <1>2, <1>6, NewOrderOpen, SilenceFills

LEMMA StartMatchingFills ==
  ASSUME Inv, Inv', History, Fills, NEW o \in Submissions, StartMatching(o)
  PROVE  Fills'
<1>1. /\ Receive(o) /\ Valid(o) /\ taker' = Effective(o) /\ UNCHANGED <<orders, outbox>>
  BY DEF StartMatching, bookVars
<1>2. o \in Order /\ o.filled = 0 /\ o.id \notin DOMAIN submitted
  BY <1>1, ReceiveFacts
<1>3. taker'.id = o.id /\ taker'.filled = 0
  BY <1>1, <1>2, EffectiveFacts DEF SameTerms
<1> QED
  BY <1>1, <1>2, <1>3, NewOrderOpen, SilenceFills

LEMMA CancelLiveFills ==
  ASSUME Inv, Inv', History, Fills, NEW id \in OrderIds, CancelLive(id)
  PROVE  Fills'
<1> DEFINE msgs == <<Update(id, "Canceled", orders[id].filled)>>
<1>1. /\ ReceiveCancel(id) /\ Live(id) /\ RemoveLive(id) /\ Send(msgs) /\ UNCHANGED pc
  BY DEF CancelLive, taskVars
<1>2. pc' = "recv" /\ UNCHANGED submitted
  BY <1>1 DEF ReceiveCancel, Idle
<1>3. /\ id \in DOMAIN orders /\ DOMAIN orders' \subseteq DOMAIN orders
      /\ \A x \in DOMAIN orders' : orders'[x] = orders[x]
  BY <1>1, InvParts, RemoveLiveKeeps
<1>4. /\ msgs \in Seq(Message)
      /\ \A j \in DOMAIN msgs :
           msgs[j].kind = "OrderUpdate" /\ msgs[j].id = id /\ msgs[j].status = "Canceled"
  <2>1. orders[id].filled \in Int
    BY <1>3, InvParts DEF BookInv, BookTyped, Order
  <2> QED
    BY <2>1, OneReport DEF OrderStatus
<1> HIDE DEF msgs
<1> QED
  BY <1>1, <1>2, <1>3, <1>4, ReportFills

LEMMA CancelMissingFills ==
  ASSUME Inv, Inv', History, Fills, NEW id \in OrderIds, CancelMissing(id)
  PROVE  Fills'
<1> DEFINE msgs == <<Update(id, "Rejected", 0)>>
<1>1. /\ ReceiveCancel(id) /\ RemoveMissing(id) /\ Send(msgs) /\ UNCHANGED pc
  BY DEF CancelMissing, taskVars
<1>2. pc' = "recv" /\ UNCHANGED <<submitted, orders>>
  BY <1>1 DEF ReceiveCancel, Idle, RemoveMissing
<1>3. /\ msgs \in Seq(Message)
      /\ \A j \in DOMAIN msgs :
           msgs[j].kind = "OrderUpdate" /\ msgs[j].id = id /\ msgs[j].status = "Rejected"
  BY OneReport DEF OrderStatus
<1> HIDE DEF msgs
<1> QED
  BY <1>1, <1>2, <1>3, ReportFills

LEMMA HeartbeatFills ==
  ASSUME Inv, Inv', History, Fills, NEW now \in Times, Heartbeat(now)
  PROVE  Fills'
<1>1. UNCHANGED <<orders, outbox, submitted>> /\ pc' # "match"
  BY DEF Heartbeat, bookVars, inputVars
<1> QED
  BY <1>1, SilenceFills

LEMMA ExpireNextFills ==
  ASSUME Inv, Inv', History, Fills, NEW id \in OrderIds, ExpireNext(id)
  PROVE  Fills'
<1> DEFINE msgs == <<Update(id, "Canceled", orders[id].filled)>>
<1>1. /\ Live(id) /\ RemoveLive(id) /\ Send(msgs) /\ pc' # "match" /\ UNCHANGED submitted
  BY DEF ExpireNext, inputVars
<1>2. /\ id \in DOMAIN orders /\ DOMAIN orders' \subseteq DOMAIN orders
      /\ \A x \in DOMAIN orders' : orders'[x] = orders[x]
  BY <1>1, InvParts, RemoveLiveKeeps
<1>3. /\ msgs \in Seq(Message)
      /\ \A j \in DOMAIN msgs :
           msgs[j].kind = "OrderUpdate" /\ msgs[j].id = id /\ msgs[j].status = "Canceled"
  <2>1. orders[id].filled \in Int
    BY <1>2, InvParts DEF BookInv, BookTyped, Order
  <2> QED
    BY <2>1, OneReport DEF OrderStatus
<1> HIDE DEF msgs
<1> QED
  BY <1>1, <1>2, <1>3, ReportFills

LEMMA ExpireAbortFills ==
  ASSUME Inv, Inv', History, Fills, NEW id \in OrderIds, ExpireAbort(id)
  PROVE  Fills'
<1>1. UNCHANGED <<orders, outbox, submitted>> /\ pc' = "recv"
  BY DEF ExpireAbort, RemoveMissing, Done, inputVars
<1> QED
  BY <1>1, SilenceFills

LEMMA FailNextFills ==
  ASSUME Inv, Inv', History, Fills, NEW e, FailNext(e)
  PROVE  Fills'
<1>0. PICK id : id = taker.id
  OBVIOUS
<1> DEFINE msgs == <<Update(id, "Rejected", 0)>>
<1>1. /\ pc = "match" /\ pc' = "recv" /\ Send(msgs) /\ UNCHANGED <<orders, submitted>>
  BY <1>0 DEF FailNext, Pop, Done, inputVars
<1>2. id \in OrderIds
  BY <1>0, <1>1, TakerFacts
<1>3. /\ msgs \in Seq(Message)
      /\ \A j \in DOMAIN msgs :
           msgs[j].kind = "OrderUpdate" /\ msgs[j].id = id /\ msgs[j].status = "Rejected"
  BY <1>2, OneReport DEF OrderStatus
<1> HIDE DEF msgs
<1> QED
  BY <1>1, <1>3, ReportFills

LEMMA CancelRemainderFills ==
  ASSUME Inv, Inv', History, Fills, CancelRemainder
  PROVE  Fills'
<1>0. PICK id : id = taker.id
  OBVIOUS
<1> DEFINE msgs == <<Update(id, "Canceled", 0)>>
<1>1. /\ pc = "rest" /\ pc' = "recv" /\ Send(msgs) /\ UNCHANGED <<orders, submitted>>
  BY <1>0 DEF CancelRemainder, Done, bookVars, inputVars
<1>2. id \in OrderIds
  BY <1>0, <1>1, TakerFacts
<1>3. /\ msgs \in Seq(Message)
      /\ \A j \in DOMAIN msgs :
           msgs[j].kind = "OrderUpdate" /\ msgs[j].id = id /\ msgs[j].status = "Canceled"
  BY <1>2, OneReport DEF OrderStatus
<1> HIDE DEF msgs
<1> QED
  BY <1>1, <1>3, ReportFills

(* What rests is a bid, and is stored as if it had filled nothing.         *)
LEMMA RestRemainderFills ==
  ASSUME Inv, Inv', History, Fills, RestRemainder
  PROVE  Fills'
<1>0. PICK id : id = taker.id
  OBVIOUS
<1> DEFINE o == [Original(taker) EXCEPT !.status = "New"]
<1>1. /\ pc = "rest" /\ pc' = "recv" /\ AddLimit(Original(taker))
      /\ UNCHANGED <<outbox, submitted>>
  BY DEF RestRemainder, Done, inputVars
<1>2. taker \in Order /\ taker.side = "Buy"
  BY <1>1, TakerFacts DEF History, HandlerHistory
<1>3. /\ Original(taker).id = id
      /\ o.filled = 0 /\ o.side = "Buy"
  BY <1>0, <1>2 DEF Original, Order
<1>4. orders' = Put(orders, id, o)
  BY <1>1, <1>3 DEF AddLimit
<1> HIDE DEF o
<1>5. /\ DOMAIN orders' \subseteq DOMAIN orders \cup {id}
      /\ \A x \in DOMAIN orders' :
           \/ x \in DOMAIN orders /\ orders'[x] = orders[x]
           \/ orders'[x].filled = 0 /\ orders'[x].side = "Buy"
  BY <1>3, <1>4 DEF Put
<1> QED
  BY <1>1, <1>5, SilenceFills

(* The final update reports what the loop has filled.                      *)
LEMMA FinishMarketFills ==
  ASSUME Inv, Inv', History, Fills, FinishMarket
  PROVE  Fills'
<1>0. PICK id, filled : id = taker.id /\ filled = taker.filled
  OBVIOUS
<1> DEFINE status == FinalStatus(taker)
           msgs == <<Update(id, status, filled)>>
<1>1. /\ pc = "match" /\ pc' # "match" /\ Send(msgs) /\ UNCHANGED <<orders, submitted>>
  BY <1>0 DEF FinishMarket, LoopOver, Done, inputVars
<1>2. /\ taker \in Order /\ id \in OrderIds /\ id \in DOMAIN submitted
      /\ submitted[id].qty = taker.qty
      /\ outbox \in Seq(Message) /\ outbox' \in Seq(Message)
  BY <1>0, <1>1, InvParts, TakerFacts DEF TaskTyped, SameTerms
<1>3. /\ status \in OrderStatus /\ filled \in Int
      /\ status = "Filled" <=> filled = taker.qty
  BY <1>0, <1>2 DEF FinalStatus, OrderStatus, Order
<1> HIDE DEF status
<1>4. /\ msgs \in Seq(Message)
      /\ \A j \in DOMAIN msgs :
           msgs[j].kind = "OrderUpdate" /\ msgs[j].id = id /\ msgs[j].status = status
  BY <1>2, <1>3, OneReport
<1>5. \A j \in DOMAIN msgs : j = 1 /\ msgs[j] = Update(id, status, filled)
  OBVIOUS
<1> HIDE DEF msgs
<1>6. /\ Trades' = Trades
      /\ \A i \in DOMAIN outbox : outbox'[i] = outbox[i]
      /\ \A x : Withdrawn(x)' => Withdrawn(x) \/ (x = id /\ status \in Withdrawing)
      /\ \A x : Closed(x)' => Closed(x) \/ (x = id /\ status \in Closing)
  BY ONLY <1>1, <1>2, <1>4, ReportFacts
<1>7. StoredFills' /\ NoOverfill'
  BY <1>1, <1>6, FillsKept DEF Fills
<1>8. Traded(id)' = filled
  <2>1. Traded(id) = filled
    BY <1>0, <1>1 DEF Fills, StoredFills
  <2> QED
    BY <1>2, <1>6, <2>1, TradedKept
<1>9. \A i \in DOMAIN outbox' \ Trades' : i \notin DOMAIN outbox => ReportHolds(i)'
  <2> SUFFICES ASSUME NEW i \in DOMAIN outbox' \ Trades', i \notin DOMAIN outbox
               PROVE  ReportHolds(i)'
    OBVIOUS
  <2>1. outbox'[i] = Update(id, status, filled) /\ i - Len(outbox) = 1
    BY <1>1, <1>2, <1>4, <1>5, SendPlaces
  <2>2. i = Len(outbox')
    <3>1. i \in 1..Len(outbox') /\ Len(outbox') \in Nat /\ Len(outbox) \in Nat
      BY <1>2, LenProperties
    <3>2. \A k \in DOMAIN outbox' \ DOMAIN outbox : k - Len(outbox) = 1
      BY <1>1, <1>2, <1>4, <1>5, SendPlaces
    <3>3. Len(outbox') \in DOMAIN outbox'
      BY <1>2, <3>1, LenProperties
    <3>4. Len(outbox') \notin DOMAIN outbox
      BY <1>2, <2>1, <3>1, LenProperties
    <3> QED
      BY <2>1, <3>1, <3>2, <3>3, <3>4
  <2>3. TradedBy(id, i)' = filled
    BY <1>8, <2>2 DEF Traded
  <2>4. /\ outbox'[i].id = id /\ outbox'[i].status = status /\ outbox'[i].filled = filled
    BY <2>1 DEF Update
  <2>5. (TradedBy(outbox[i].id, i))' = filled
    BY <2>3, <2>4 DEF TradedBy
  <2> QED
    BY <1>1, <1>2, <1>3, <2>4, <2>5 DEF ReportHolds
<1>10. Reports'
  BY <1>1, <1>2, <1>4, <1>9, ReportsKept DEF Fills
<1> QED
  BY <1>7, <1>10 DEF Fills

(***************************************************************************)
(* An iteration that trades adds the quantity of its trade to the taker,   *)
(* and to the copy of the resting order that replaces it.                  *)
(***************************************************************************)
LEMMA FillNextFills ==
  ASSUME Inv, Inv', History, Fills, NEW e, FillNext(e)
  PROVE  Fills'
<1>0. PICK n, id : n = Len(outbox) /\ id = taker.id
  OBVIOUS
<1> DEFINE resting == orders[e.id]
           qty == MatchQty(taker, resting)
           updated == Filled(resting, qty)
           price == MatchPrice(taker, resting, lastPrice)
           trade == Trade(id, e.id, price, qty)
           update == Update(e.id, updated.status, updated.filled)
           msgs == <<trade, update>>
<1>1. /\ pc = "match" /\ Pop(e) /\ CanMatch(taker, resting)
      /\ UNCHANGED submitted
      /\ taker' = [taker EXCEPT !.filled = @ + qty]
      /\ Send(msgs)
  BY <1>0 DEF FillNext, Pop, inputVars, MatchFails
<1>2. /\ BookInv /\ taker \in Order /\ id \in OrderIds
      /\ id \in DOMAIN submitted /\ id \notin DOMAIN orders
      /\ submitted[id].qty = taker.qty
      /\ outbox \in Seq(Message) /\ outbox' \in Seq(Message)
      /\ lastPrice \in Prices \cup {NoPrice, 0}
  BY <1>0, <1>1, InvParts, TakerFacts DEF TaskTyped, BookInv, BookTyped, SameTerms
<1>3. /\ e.id \in DOMAIN orders /\ e.id \in OrderIds /\ id # e.id
      /\ resting \in Order /\ resting.side = "Sell"
  BY <1>1, <1>2, PopFacts DEF CanMatch, BookInv, BookTyped
<1>4. /\ e.id \in DOMAIN submitted /\ submitted[e.id].qty = resting.qty
  BY <1>3, InvParts DEF StoredSubmitted, SameTerms
<1>5. /\ qty \in Int /\ price \in Prices \cup {0}
      /\ qty <= taker.qty - taker.filled /\ qty <= resting.qty - resting.filled
      /\ taker.filled \in Int /\ taker.qty \in Int
      /\ resting.filled \in Int /\ resting.qty \in Int
  <2>1. qty \in Int /\ price \in Prices \cup {0}
    BY <1>2, <1>3, MatchTypes
  <2>2. /\ taker.filled \in Int /\ taker.qty \in Int
        /\ resting.filled \in Int /\ resting.qty \in Int
    BY <1>2, <1>3 DEF Order
  <2>3. qty <= taker.qty - taker.filled /\ qty <= resting.qty - resting.filled
    BY <2>2 DEF MatchQty, Remaining
  <2> QED
    BY <2>1, <2>2, <2>3
<1>6. /\ orders' = [orders EXCEPT ![e.id] = updated]
      /\ DOMAIN orders' = DOMAIN orders /\ orders'[e.id] = updated
      /\ \A x \in DOMAIN orders \ {e.id} : orders'[x] = orders[x]
  <2>1. orders' = [orders EXCEPT ![e.id] = updated]
    BY DEF FillNext
  <2> QED
    BY <1>2, <1>3, <2>1, FillKeeps
<1>7. /\ updated \in Order /\ updated.side = "Sell" /\ updated.qty = resting.qty
      /\ updated.filled = resting.filled + qty
      /\ updated.status = IF resting.filled + qty = resting.qty THEN "Filled" ELSE "PartiallyFilled"
  <2>1. /\ updated \in Order /\ updated.side = "Sell" /\ updated.qty = resting.qty
        /\ updated.filled = resting.filled + qty
    BY <1>3, <1>5, FilledFacts DEF SameTerms
  <2>2. updated.status = IF resting.filled + qty = resting.qty THEN "Filled" ELSE "PartiallyFilled"
    BY <1>3 DEF Filled, Order
  <2> QED
    BY <2>1, <2>2
<1>8. /\ trade \in Message /\ trade.kind = "Trade" /\ trade.qty = qty
      /\ trade.buy = id /\ trade.sell = e.id
  BY <1>2, <1>3, <1>5, MessageTypes DEF Trade
<1>9. /\ update \in Message /\ update.kind = "OrderUpdate" /\ update.id = e.id
      /\ update.status = updated.status /\ update.filled = updated.filled
  <2>1. updated.status \in OrderStatus /\ updated.filled \in Int
    BY <1>7 DEF Order
  <2> QED
    BY <1>3, <2>1, MessageTypes DEF Update
<1>10. msgs \in Seq(Message) /\ Len(msgs) = 2
  BY <1>8, <1>9
<1> HIDE DEF trade, update, updated, price, qty
<1>11. /\ n + 1 \in DOMAIN outbox' /\ Trades' = Trades \cup {n + 1}
       /\ outbox'[n + 1] = trade
       /\ \A i \in DOMAIN outbox : outbox'[i] = outbox[i]
       /\ DOMAIN outbox' \ Trades' = (DOMAIN outbox \ Trades) \cup {n + 2}
       /\ outbox'[n + 2] = update
  BY ONLY <1>0, <1>1, <1>2, <1>8, <1>9, FillSends
<1> HIDE DEF msgs
<1>12. n \in Nat /\ n + 1 \notin DOMAIN outbox
  BY <1>0, <1>2, LenProperties
<1>13. Len(outbox') = n + 2
  <2>1. Len(outbox \o msgs) = Len(outbox) + Len(msgs)
    BY <1>2, <1>10, ConcatProperties
  <2>2. outbox' = outbox \o msgs
    BY <1>1 DEF Send
  <2> QED
    BY <1>0, <1>10, <2>1, <2>2
<1>14. \A x : Traded(x)' = IF x \in {id, e.id} THEN Traded(x) + qty ELSE Traded(x)
  BY <1>2, <1>8, <1>11, <1>12, TradedMore
<1>15. Traded(id) = taker.filled /\ Traded(e.id) = resting.filled
  BY <1>0, <1>1, <1>3 DEF Fills, StoredFills
<1>16. StoredFills'
  <2>1. IsFiniteSet(DOMAIN orders')
    BY <1>6 DEF Fills, StoredFills
  <2>2. \A x \in DOMAIN orders' :
          orders'[x].filled = IF orders'[x].side = "Sell" THEN Traded(x)' ELSE 0
    <3> SUFFICES ASSUME NEW x \in DOMAIN orders'
                 PROVE  orders'[x].filled = IF orders'[x].side = "Sell" THEN Traded(x)' ELSE 0
      OBVIOUS
    <3>1. CASE x = e.id
      BY <1>6, <1>7, <1>14, <1>15, <3>1
    <3>2. CASE x # e.id
      <4>1. Traded(x)' = Traded(x)
        BY <1>2, <1>6, <1>14, <3>2
      <4> QED
        BY <1>6, <3>2, <4>1 DEF Fills, StoredFills
    <3> QED
      BY <3>1, <3>2
  <2>3. taker'.filled = (Traded(taker.id))'
    <3>1. taker'.filled = taker.filled + qty /\ taker'.id = id
      BY <1>0, <1>1, <1>2 DEF Order
    <3>2. taker'.filled = Traded(id)'
      BY <1>14, <1>15, <3>1
    <3> QED
      BY <3>1, <3>2 DEF Traded, TradedBy
  <2> QED
    BY <2>1, <2>2, <2>3 DEF StoredFills
<1>17. NoOverfill'
  <2> SUFFICES ASSUME NEW x \in DOMAIN submitted
               PROVE  Traded(x)' <= IF submitted[x].qty > 0 THEN submitted[x].qty ELSE 0
    BY <1>1 DEF NoOverfill
  <2>1. CASE x = id
    BY <1>2, <1>5, <1>14, <1>15, <2>1
  <2>2. CASE x = e.id
    BY <1>4, <1>5, <1>14, <1>15, <2>2
  <2>3. CASE x \notin {id, e.id}
    BY <1>14, <2>3 DEF Fills, NoOverfill
  <2> QED
    BY <2>1, <2>2, <2>3
<1>18. Reports'
  <2>1. (TradedBy(outbox[n + 2].id, n + 2))' = updated.filled
    <3>1. Traded(e.id)' = updated.filled
      BY <1>7, <1>14, <1>15
    <3>2. TradedBy(e.id, n + 2)' = updated.filled
      BY <1>13, <3>1 DEF Traded
    <3> QED
      BY <1>9, <1>11, <3>2 DEF TradedBy
  <2>2. ReportHolds(n + 2)'
    <3>1. /\ outbox'[n + 2].id = e.id /\ outbox'[n + 2].filled = updated.filled
          /\ outbox'[n + 2].status = updated.status
      BY <1>9, <1>11
    <3>2. updated.status = "Filled" <=> updated.filled = submitted'[e.id].qty
      BY <1>1, <1>4, <1>7
    <3> QED
      BY <1>1, <1>4, <2>1, <3>1, <3>2 DEF ReportHolds
  <2>3. \A i \in DOMAIN outbox' \ Trades' : i \notin DOMAIN outbox => ReportHolds(i)'
    <3>1. \A i \in DOMAIN outbox' \ Trades' : i \notin DOMAIN outbox => i = n + 2
      BY <1>11
    <3> QED
      BY <2>2, <3>1
  <2> QED
    BY <1>1, <1>2, <1>10, <2>3, ReportsKept DEF Fills
<1> QED
  BY <1>16, <1>17, <1>18 DEF Fills

-----------------------------------------------------------------------------
(*                        The fills                                        *)

LEMMA FillsInit == Init => Fills
<1> SUFFICES ASSUME Init PROVE Fills
  OBVIOUS
<1>1. DOMAIN outbox = {} /\ DOMAIN orders = {} /\ DOMAIN submitted = {} /\ pc = "recv"
  BY DEF Init
<1>2. StoredFills
  BY <1>1, FS_EmptySet DEF StoredFills
<1> QED
  BY <1>1, <1>2 DEF Fills, Reports, NoOverfill

LEMMA FillsNext == Inv /\ Inv' /\ History /\ Fills /\ [Next]_vars => Fills'
<1> SUFFICES ASSUME Inv, Inv', History, Fills, [Next]_vars PROVE Fills'
  OBVIOUS
<1>1. ASSUME NEW o \in Submissions,
             RefuseInvalid(o) \/ ParkStop(o) \/ RejectUnfillable(o) \/ DropLimit(o)
      PROVE  Fills'
  BY <1>1, AnswersFills
<1>2. ASSUME NEW o \in Submissions, RestLimit(o) \/ StartMatching(o) PROVE Fills'
  BY <1>2, RestLimitFills, StartMatchingFills
<1>3. ASSUME NEW id \in OrderIds, CancelLive(id) \/ CancelMissing(id) PROVE Fills'
  BY <1>3, CancelLiveFills, CancelMissingFills
<1>4. ASSUME NEW now \in Times, Heartbeat(now) PROVE Fills'
  BY <1>4, HeartbeatFills
<1>5. ASSUME NEW e, FillNext(e) \/ FailNext(e) PROVE Fills'
  BY <1>5, FillNextFills, FailNextFills
<1>6. CASE FinishMarket \/ CancelRemainder \/ RestRemainder
  BY <1>6, FinishMarketFills, CancelRemainderFills, RestRemainderFills
<1>7. ASSUME NEW id \in OrderIds, ExpireNext(id) \/ ExpireAbort(id) PROVE Fills'
  BY <1>7, ExpireNextFills, ExpireAbortFills
<1>8. CASE UNCHANGED vars
  <2>1. UNCHANGED <<orders, pc, taker, outbox, submitted>>
    BY <1>8 DEF vars, bookVars, taskVars, inputVars
  <2>2. StoredFills'
    BY <2>1 DEF Fills, StoredFills, Traded, TradedBy, Trades
  <2>3. Reports'
    BY <2>1 DEF Fills, Reports, ReportHolds, TradedBy, Trades
  <2>4. NoOverfill'
    BY <2>1 DEF Fills, NoOverfill, Traded, TradedBy, Trades
  <2> QED
    BY <2>2, <2>3, <2>4 DEF Fills
<1> QED
  BY <1>1, <1>2, <1>3, <1>4, <1>5, <1>6, <1>7, <1>8 DEF Next, ReceiveNext, HandlerNext

LEMMA FillsInvariance == Spec => []Fills
  BY FillsInit, FillsNext, Invariance, HistoryInvariance, PTL DEF Spec

(***************************************************************************)
(* process_market_order: what the book records as filled, in the order it  *)
(* is matching and in the copies that replace the asks it has matched, is  *)
(* the sum of the trades it has sent of that order.                        *)
(***************************************************************************)
THEOREM FillAccounts == Spec => []FillsMatchTrades
<1>1. Fills => FillsMatchTrades
  BY DEF Fills, StoredFills, FillsMatchTrades
<1> QED
  BY <1>1, FillsInvariance, PTL

(***************************************************************************)
(* match_orders and process_market_order: no order trades more than its    *)
(* quantity, whatever the quantities of the orders are.                    *)
(***************************************************************************)
THEOREM Overfills == Spec => []NoOverfill
<1>1. Fills => NoOverfill
  BY DEF Fills
<1> QED
  BY <1>1, FillsInvariance, PTL

(***************************************************************************)
(* process_market_order: an update that reports a fill reports the sum of  *)
(* the trades sent before it, and reports Filled exactly when that is the  *)
(* quantity the client submitted.                                          *)
(***************************************************************************)
THEOREM FillReports == Spec => []FillReportsMatchTrades
<1>1. Fills => FillReportsMatchTrades
  BY DEF Fills, Reports, ReportHolds, FillReportsMatchTrades
<1> QED
  BY <1>1, FillsInvariance, PTL

-----------------------------------------------------------------------------
(*                        The price levels                                 *)

(***************************************************************************)
(* update_quantity_at_price takes a level that would fall below zero as    *)
(* empty, so the levels are sums only as long as no order has a negative   *)
(* quantity, which process_order does not refuse.                          *)
(***************************************************************************)
NoNegativeQuantity == \A o \in Submissions : o.qty >= 0

StoredOpen == IsFiniteSet(DOMAIN orders) /\ \A id \in DOMAIN orders : Open(id) \in Nat

SubmittedOnly == \A id \in DOMAIN submitted : submitted[id] \in Submissions

LEMMA SubmittedOnlyInvariance == Spec => []SubmittedOnly
<1>1. Init => SubmittedOnly
  BY DEF Init, SubmittedOnly
<1>2. SubmittedOnly /\ [Next]_vars => SubmittedOnly'
  <2> SUFFICES ASSUME SubmittedOnly, [Next]_vars PROVE SubmittedOnly'
    OBVIOUS
  <2>1. ASSUME NEW o \in Submissions, Receive(o) PROVE SubmittedOnly'
    BY <2>1 DEF Receive, Put, SubmittedOnly
  <2>2. CASE UNCHANGED submitted
    BY <2>2 DEF SubmittedOnly
  <2>3. ASSUME NEW o \in Submissions,
               \/ RefuseInvalid(o) \/ ParkStop(o) \/ RejectUnfillable(o)
               \/ DropLimit(o) \/ RestLimit(o) \/ StartMatching(o)
        PROVE  Receive(o)
    BY <2>3 DEF RefuseInvalid, ParkStop, RejectUnfillable, DropLimit, RestLimit, StartMatching
  <2>4. ASSUME NEW id \in OrderIds, CancelLive(id) \/ CancelMissing(id)
        PROVE  UNCHANGED submitted
    BY <2>4 DEF CancelLive, CancelMissing, ReceiveCancel
  <2>5. ASSUME NEW now \in Times, Heartbeat(now) PROVE UNCHANGED submitted
    BY <2>5 DEF Heartbeat, inputVars
  <2>6. ASSUME HandlerNext PROVE UNCHANGED submitted
    BY <2>6 DEF HandlerNext, FillNext, FailNext, FinishMarket, CancelRemainder, RestRemainder,
                ExpireNext, ExpireAbort, inputVars
  <2>7. CASE UNCHANGED vars
    BY <2>2, <2>7 DEF vars, inputVars
  <2> QED
    BY <2>1, <2>2, <2>3, <2>4, <2>5, <2>6, <2>7 DEF Next, ReceiveNext
<1> QED
  BY <1>1, <1>2, PTL DEF Spec

LEMMA StoredOpenFollows ==
  NoNegativeQuantity /\ Inv /\ Fills /\ SubmittedOnly => StoredOpen
<1> SUFFICES ASSUME NoNegativeQuantity, Inv, Fills, SubmittedOnly, NEW id \in DOMAIN orders
             PROVE  Open(id) \in Nat
  BY DEF StoredOpen, Fills, StoredFills
<1>1. orders[id] \in Order
  BY InvParts DEF BookInv, BookTyped
<1>2. /\ id \in DOMAIN submitted /\ submitted[id].qty = orders[id].qty
      /\ orders[id].qty \in Int /\ orders[id].qty >= 0 /\ orders[id].filled \in Int
  BY <1>1, InvParts DEF StoredSubmitted, SameTerms, SubmittedOnly, NoNegativeQuantity, Order
<1>3. orders[id].filled <= orders[id].qty
  <2>1. orders[id].filled = IF orders[id].side = "Sell" THEN Traded(id) ELSE 0
    BY DEF Fills, StoredFills
  <2>2. Traded(id) <= IF submitted[id].qty > 0 THEN submitted[id].qty ELSE 0
    BY <1>2 DEF Fills, NoOverfill
  <2> QED
    BY <1>2, <2>1, <2>2
<1> QED
  BY <1>2, <1>3 DEF Open, Remaining

OrdersAt(s, p) == {i \in DOMAIN orders : orders[i].side = s /\ orders[i].price = p}

LEMMA OpenSummable ==
  ASSUME NEW s, NEW p
  PROVE  /\ StoredOpen =>
              /\ Summable([i \in OrdersAt(s, p) |-> Open(i)])
              /\ OpenAt(s, p) = SumFunction([i \in OrdersAt(s, p) |-> Open(i)])
              /\ OpenAt(s, p) \in Nat
         /\ StoredOpen' =>
              /\ OpenAt(s, p)' = SumFunction([i \in OrdersAt(s, p)' |-> Open(i)'])
              /\ OpenAt(s, p)' \in Nat
<1>1. ASSUME StoredOpen
      PROVE  /\ Summable([i \in OrdersAt(s, p) |-> Open(i)])
             /\ OpenAt(s, p) = SumFunction([i \in OrdersAt(s, p) |-> Open(i)])
             /\ OpenAt(s, p) \in Nat
  <2> DEFINE f == [i \in OrdersAt(s, p) |-> Open(i)]
  <2>1. IsFiniteSet(DOMAIN f)
    BY <1>1, FS_Subset DEF StoredOpen, OrdersAt
  <2>2. \A i \in DOMAIN f : f[i] \in Nat
    BY <1>1 DEF StoredOpen, OrdersAt
  <2>3. OpenAt(s, p) = SumFunction(f)
    BY DEF OpenAt, OrdersAt
  <2> HIDE DEF f
  <2>4. Summable(f)
    BY <2>1, <2>2 DEF Summable
  <2>5. SumFunction(f) \in Nat
    BY <2>1, <2>2, SumNat
  <2> QED
    BY <2>3, <2>4, <2>5 DEF f
<1>2. ASSUME StoredOpen'
      PROVE  /\ OpenAt(s, p)' = SumFunction([i \in OrdersAt(s, p)' |-> Open(i)'])
             /\ OpenAt(s, p)' \in Nat
  <2> DEFINE f == [i \in OrdersAt(s, p)' |-> Open(i)']
  <2>1. IsFiniteSet(DOMAIN f)
    BY <1>2, FS_Subset DEF StoredOpen, OrdersAt
  <2>2. \A i \in DOMAIN f : f[i] \in Nat
    BY <1>2 DEF StoredOpen, OrdersAt
  <2>3. OpenAt(s, p)' = SumFunction(f)
    BY DEF OpenAt, OrdersAt
  <2> HIDE DEF f
  <2>4. SumFunction(f) \in Nat
    BY <2>1, <2>2, SumNat
  <2> QED
    BY <2>3, <2>4 DEF f
<1> QED
  BY <1>1, <1>2

LEMMA OpenNat ==
  ASSUME NEW s, NEW p
  PROVE  /\ StoredOpen => OpenAt(s, p) \in Nat
         /\ StoredOpen' => OpenAt(s, p)' \in Nat
<1>1. ASSUME StoredOpen PROVE OpenAt(s, p) \in Nat
  <2>1. /\ Summable([i \in OrdersAt(s, p) |-> Open(i)])
        /\ OpenAt(s, p) = SumFunction([i \in OrdersAt(s, p) |-> Open(i)])
        /\ OpenAt(s, p) \in Nat
    BY <1>1, OpenSummable
  <2> QED
    BY <2>1
<1>2. ASSUME StoredOpen' PROVE OpenAt(s, p)' \in Nat
  <2>1. /\ OpenAt(s, p)' = SumFunction([i \in OrdersAt(s, p)' |-> Open(i)'])
        /\ OpenAt(s, p)' \in Nat
    BY <1>2, OpenSummable
  <2> QED
    BY <2>1
<1> QED
  BY <1>1, <1>2

(* A step that adds, removes or replaces the order x, at one price, and    *)
(* changes by delta what it has open.                                      *)
Replaces(x, side, price, delta) ==
  /\ \A y : y # x => /\ y \in DOMAIN orders' <=> y \in DOMAIN orders
                     /\ y \in DOMAIN orders => orders'[y] = orders[y]
  /\ x \in DOMAIN orders => orders[x].side = side /\ orders[x].price = price
  /\ x \in DOMAIN orders' => orders'[x].side = side /\ orders'[x].price = price
  /\ delta = (IF x \in DOMAIN orders' THEN Open(x)' ELSE 0)
               - (IF x \in DOMAIN orders THEN Open(x) ELSE 0)

(* It changes the sum at that price by delta, and no other.                *)
LEMMA OpenAtStep ==
  ASSUME StoredOpen, StoredOpen',
         NEW x, NEW side, NEW price, NEW delta,
         Replaces(x, side, price, delta),
         NEW s, NEW p
  PROVE  OpenAt(s, p)' = IF s = side /\ p = price THEN OpenAt(s, p) + delta ELSE OpenAt(s, p)
<1> DEFINE f == [i \in OrdersAt(s, p) |-> Open(i)]
           h == [i \in OrdersAt(s, p)' |-> Open(i)']
<1>0. delta = (IF x \in DOMAIN orders' THEN Open(x)' ELSE 0)
               - (IF x \in DOMAIN orders THEN Open(x) ELSE 0)
  BY DEF Replaces
<1>1. Summable(f) /\ OpenAt(s, p) = SumFunction(f) /\ OpenAt(s, p)' = SumFunction(h)
  BY OpenSummable
<1>2. /\ x \in DOMAIN orders => Open(x) \in Int
      /\ x \in DOMAIN orders' => Open(x)' \in Int
      /\ OpenAt(s, p) \in Int
  <2>1. x \in DOMAIN orders => Open(x) \in Int
    BY DEF StoredOpen
  <2>2. x \in DOMAIN orders' => Open(x)' \in Int
    BY DEF StoredOpen
  <2>3. OpenAt(s, p) \in Int
    BY OpenNat
  <2> QED
    BY <2>1, <2>2, <2>3
<1>3. \A y : y # x => /\ y \in DOMAIN h <=> y \in DOMAIN f
                      /\ y \in DOMAIN f => h[y] = f[y]
  BY DEF Replaces, OrdersAt, Open
<1>4. /\ x \in DOMAIN f <=> x \in DOMAIN orders /\ s = side /\ p = price
      /\ x \in DOMAIN h <=> x \in DOMAIN orders' /\ s = side /\ p = price
      /\ x \in DOMAIN f => f[x] = Open(x)
      /\ x \in DOMAIN h => h[x] = Open(x)'
  BY DEF Replaces, OrdersAt
<1> HIDE DEF f, h
<1>5. CASE x \notin DOMAIN f /\ x \notin DOMAIN h
  <2>1. DOMAIN h = DOMAIN f /\ \A y \in DOMAIN f : h[y] = f[y]
    BY <1>3, <1>5
  <2>2. SumFunction(h) = SumFunction(f)
    BY <1>1, <2>1, SumSame
  <2>3. s = side /\ p = price => delta = 0
    BY <1>0, <1>4, <1>5
  <2> QED
    BY <1>1, <1>2, <2>2, <2>3
<1>6. CASE x \notin DOMAIN f /\ x \in DOMAIN h
  <2>1. DOMAIN h = DOMAIN f \cup {x} /\ \A y \in DOMAIN f : h[y] = f[y]
    BY <1>3, <1>6
  <2>2. s = side /\ p = price /\ delta = h[x] /\ h[x] \in Int
    BY <1>0, <1>2, <1>4, <1>6
  <2>3. SumFunction(h) = SumFunction(f) + h[x]
    BY <1>1, <1>6, <2>1, <2>2, SumPlus
  <2> QED
    BY <1>1, <2>2, <2>3
<1>7. CASE x \in DOMAIN f /\ x \notin DOMAIN h
  <2>1. DOMAIN h = DOMAIN f \ {x} /\ \A y \in DOMAIN h : h[y] = f[y]
    BY <1>3, <1>7
  <2>2. s = side /\ p = price /\ delta = 0 - f[x] /\ f[x] \in Int
    BY <1>0, <1>2, <1>4, <1>7
  <2>3. SumFunction(h) = SumFunction(f) - f[x]
    BY <1>1, <1>7, <2>1, SumMinus
  <2> QED
    BY <1>1, <1>2, <2>2, <2>3
<1>8. CASE x \in DOMAIN f /\ x \in DOMAIN h
  <2>1. DOMAIN h = DOMAIN f /\ \A y \in DOMAIN f \ {x} : h[y] = f[y]
    BY <1>3, <1>8
  <2>2. s = side /\ p = price /\ delta = h[x] - f[x] /\ f[x] \in Int /\ h[x] \in Int
    BY <1>0, <1>2, <1>4, <1>8
  <2>3. SumFunction(h) = SumFunction(f) - f[x] + h[x]
    BY <1>1, <1>8, <2>1, <2>2, SumChange
  <2> QED
    BY <1>1, <1>2, <2>2, <2>3
<1> QED
  BY <1>5, <1>6, <1>7, <1>8

(* A step that gives the level of that order what it adds to the sum.      *)
LEMMA LevelStep ==
  ASSUME StoredOpen, StoredOpen', LevelsMatchOrders, level \in [Side -> [Prices -> Int]],
         NEW x, NEW side \in Side, NEW price \in Prices, NEW delta \in Int,
         Replaces(x, side, price, delta),
         level' = AdjustLevel(side, price, delta)
  PROVE  LevelsMatchOrders'
<1> SUFFICES ASSUME NEW s \in Side, NEW p \in Prices PROVE level'[s][p] = OpenAt(s, p)'
  BY DEF LevelsMatchOrders
<1>1. OpenAt(s, p)' = IF s = side /\ p = price THEN OpenAt(s, p) + delta ELSE OpenAt(s, p)
  BY OpenAtStep
<1>2. OpenAt(s, p) \in Nat /\ OpenAt(s, p)' \in Nat
  BY OpenNat
<1>3. level[s][p] = OpenAt(s, p)
  BY DEF LevelsMatchOrders
<1>4. level'[s][p] = IF s = side /\ p = price
                     THEN IF level[s][p] + delta > 0 THEN level[s][p] + delta ELSE 0
                     ELSE level[s][p]
  BY DEF AdjustLevel
<1> QED
  BY <1>1, <1>2, <1>3, <1>4

(* add_limit_order raises the level by what the order still has to fill.   *)
LEMMA AddLimitLevels ==
  ASSUME BookInv, StoredOpen, StoredOpen', LevelsMatchOrders,
         NEW o \in Order, o.price # NoPrice, o.id \notin DOMAIN orders, AddLimit(o)
  PROVE  LevelsMatchOrders'
<1>1. /\ DOMAIN orders' = DOMAIN orders \cup {o.id}
      /\ orders'[o.id] = [o EXCEPT !.status = "New"]
      /\ \A x \in DOMAIN orders : orders'[x] = orders[x]
  BY AddLimitKeeps
<1>2. /\ o.side \in Side /\ o.price \in Prices /\ Remaining(o) \in Int
      /\ level \in [Side -> [Prices -> Int]]
  BY DEF Order, Remaining, BookInv, BookTyped
<1>3. /\ orders'[o.id].side = o.side /\ orders'[o.id].price = o.price
      /\ Open(o.id)' = Remaining(o)
  BY <1>1 DEF Open, Remaining, Order
<1>4. Replaces(o.id, o.side, o.price, Remaining(o))
  BY <1>1, <1>2, <1>3 DEF Replaces
<1>5. level' = AdjustLevel(o.side, o.price, Remaining(o))
  BY DEF AddLimit
<1> QED
  BY <1>2, <1>4, <1>5, LevelStep

(* remove_order lowers it by what the order still had to fill.             *)
LEMMA RemoveLiveLevels ==
  ASSUME BookInv, StoredOpen, StoredOpen', LevelsMatchOrders,
         NEW id, Live(id), RemoveLive(id)
  PROVE  LevelsMatchOrders'
<1>0. PICK side, price, delta :
        side = orders[id].side /\ price = orders[id].price /\ delta = -Open(id)
  OBVIOUS
<1>1. /\ id \in DOMAIN orders /\ DOMAIN orders' = DOMAIN orders \ {id}
      /\ \A x \in DOMAIN orders' : orders'[x] = orders[x]
  BY RemoveLiveKeeps
<1>2. info[id] = [side |-> side, price |-> price]
  BY <1>0 DEF BookInv, IndexedStored, Live
<1>3. side \in Side /\ price \in Prices /\ level \in [Side -> [Prices -> Int]]
  <2>1. info[id] \in [side : Side, price : Prices] /\ level \in [Side -> [Prices -> Int]]
    BY DEF BookInv, BookTyped, Live
  <2> QED
    BY <1>2, <2>1
<1>4. Open(id) \in Nat
  BY <1>1 DEF StoredOpen
<1>5. delta \in Int
  BY <1>0, <1>4
<1>6. delta = 0 - Open(id)
  BY <1>0, <1>4
<1>7. Replaces(id, side, price, delta)
  BY <1>0, <1>1, <1>6 DEF Replaces
<1>8. level' = AdjustLevel(side, price, delta)
  BY <1>0, <1>2 DEF RemoveLive, Open
<1> QED
  BY <1>3, <1>5, <1>7, <1>8, LevelStep

(* A fill lowers it by the quantity traded.                                *)
LEMMA FillNextLevels ==
  ASSUME Inv, StoredOpen, StoredOpen', LevelsMatchOrders, NEW e, FillNext(e)
  PROVE  LevelsMatchOrders'
<1>0. PICK resting, qty : resting = orders[e.id] /\ qty = MatchQty(taker, resting)
  OBVIOUS
<1>1. /\ pc = "match" /\ Pop(e)
      /\ level' = AdjustLevel(resting.side, resting.price, -qty)
  BY <1>0 DEF FillNext, Pop
<1>2. /\ BookInv /\ taker \in Order /\ lastPrice \in Prices \cup {NoPrice, 0}
      /\ level \in [Side -> [Prices -> Int]]
  BY <1>1, InvParts, TakerFacts DEF BookInv, BookTyped
<1>3. e.id \in DOMAIN orders /\ resting \in Order /\ resting.price \in Prices
  BY <1>0, <1>1, <1>2, PopFacts
<1>4. qty \in Int
  BY <1>0, <1>2, <1>3, MatchTypes
<1>5. /\ DOMAIN orders' = DOMAIN orders
      /\ orders'[e.id] = Filled(resting, qty)
      /\ \A x \in DOMAIN orders \ {e.id} : orders'[x] = orders[x]
  BY <1>0, <1>2, FillKeeps
<1>6. /\ Filled(resting, qty).side = resting.side /\ Filled(resting, qty).price = resting.price
      /\ Filled(resting, qty).qty = resting.qty
      /\ Filled(resting, qty).filled = resting.filled + qty
  BY <1>3, <1>4, FilledFacts DEF SameTerms
<1>7. resting.side \in Side /\ resting.qty \in Int /\ resting.filled \in Int
  BY <1>3 DEF Order
<1>8. /\ Open(e.id) = resting.qty - resting.filled
      /\ Open(e.id)' = resting.qty - (resting.filled + qty)
  BY <1>0, <1>5, <1>6 DEF Open, Remaining
<1>9. -qty \in Int /\ -qty = Open(e.id)' - Open(e.id)
  BY <1>4, <1>7, <1>8
<1>10. Replaces(e.id, resting.side, resting.price, -qty)
  BY <1>0, <1>3, <1>5, <1>6, <1>9 DEF Replaces
<1> QED
  BY <1>1, <1>2, <1>3, <1>7, <1>9, <1>10, LevelStep

LEMMA LevelsNext ==
  Inv /\ StoredOpen /\ StoredOpen' /\ LevelsMatchOrders /\ [Next]_vars => LevelsMatchOrders'
<1> SUFFICES ASSUME Inv, StoredOpen, StoredOpen', LevelsMatchOrders, [Next]_vars
             PROVE  LevelsMatchOrders'
  OBVIOUS
<1>0. BookInv
  BY InvParts
<1>1. CASE UNCHANGED <<orders, level>>
  BY <1>1 DEF LevelsMatchOrders, OpenAt, Open
<1>2. ASSUME NEW o \in Submissions,
             \/ RefuseInvalid(o) \/ ParkStop(o) \/ RejectUnfillable(o) \/ DropLimit(o)
             \/ StartMatching(o)
      PROVE  UNCHANGED <<orders, level>>
  BY <1>2 DEF RefuseInvalid, ParkStop, RejectUnfillable, DropLimit, StartMatching, bookVars
<1>3. ASSUME NEW o \in Submissions, RestLimit(o) PROVE LevelsMatchOrders'
  <2>1. Receive(o) /\ Valid(o) /\ ~Marketable(o) /\ AddLimit(Effective(o))
    BY <1>3 DEF RestLimit
  <2>2. o \in Order /\ o.id \notin DOMAIN orders
    BY <2>1, ReceiveFacts
  <2>3. /\ Effective(o) \in Order /\ Effective(o).price # NoPrice
        /\ Effective(o).id \notin DOMAIN orders
    BY <2>1, <2>2, EffectiveFacts DEF Marketable, SameTerms
  <2> QED
    BY <1>0, <2>1, <2>3, AddLimitLevels
<1>4. ASSUME NEW id \in OrderIds, CancelLive(id) \/ ExpireNext(id) PROVE LevelsMatchOrders'
  <2>1. Live(id) /\ RemoveLive(id)
    BY <1>4 DEF CancelLive, ExpireNext
  <2> QED
    BY <1>0, <2>1, RemoveLiveLevels
<1>5. ASSUME NEW id \in OrderIds, CancelMissing(id) \/ ExpireAbort(id)
      PROVE  UNCHANGED <<orders, level>>
  BY <1>5 DEF CancelMissing, ExpireAbort, RemoveMissing
<1>6. ASSUME NEW now \in Times, Heartbeat(now) PROVE UNCHANGED <<orders, level>>
  BY <1>6 DEF Heartbeat, bookVars
<1>7. ASSUME NEW e, FillNext(e) PROVE LevelsMatchOrders'
  BY <1>7, FillNextLevels
<1>8. ASSUME NEW e, FailNext(e) PROVE UNCHANGED <<orders, level>>
  BY <1>8 DEF FailNext
<1>9. ASSUME FinishMarket \/ CancelRemainder PROVE UNCHANGED <<orders, level>>
  BY <1>9 DEF FinishMarket, CancelRemainder, bookVars
<1>10. CASE RestRemainder
  <2>0. PICK o : o = Original(taker)
    OBVIOUS
  <2>1. pc = "rest" /\ AddLimit(o)
    BY <1>10, <2>0 DEF RestRemainder
  <2>2. /\ taker \in Order /\ taker # NoOrder /\ taker.id \notin DOMAIN orders
    BY <2>1, TakerFacts
  <2>3. taker.price # NoPrice
    BY <2>1, <2>2, InvParts DEF HandlerState
  <2>4. o \in Order /\ o.price # NoPrice /\ o.id \notin DOMAIN orders
    BY <2>0, <2>2, <2>3 DEF Original, Order
  <2> QED
    BY <1>0, <2>1, <2>4, AddLimitLevels
<1>11. CASE UNCHANGED vars
  BY <1>1, <1>11 DEF vars, bookVars
<1> QED
  BY <1>1, <1>2, <1>3, <1>4, <1>5, <1>6, <1>7, <1>8, <1>9, <1>10, <1>11
     DEF Next, ReceiveNext, HandlerNext

LEMMA LevelsInit == Init => LevelsMatchOrders
<1> SUFFICES ASSUME Init, NEW s \in Side, NEW p \in Prices PROVE level[s][p] = OpenAt(s, p)
  BY DEF LevelsMatchOrders
<1> DEFINE f == [i \in OrdersAt(s, p) |-> Open(i)]
<1>1. DOMAIN f = {} /\ level[s][p] = 0
  BY DEF Init, OrdersAt
<1>2. OpenAt(s, p) = SumFunction(f)
  BY DEF OpenAt, OrdersAt
<1> HIDE DEF f
<1> QED
  BY <1>1, <1>2, SumFunctionEmpty

(***************************************************************************)
(* update_quantity_at_price: as long as no client submits a negative       *)
(* quantity, the price levels of a book are what its stored orders still   *)
(* have to fill, for every interleaving of fills, cancellations, expiries. *)
(***************************************************************************)
THEOREM Levels == NoNegativeQuantity => (Spec => []LevelsMatchOrders)
<1> SUFFICES ASSUME NoNegativeQuantity PROVE Spec => []LevelsMatchOrders
  OBVIOUS
<1>1. Inv /\ Fills /\ SubmittedOnly => StoredOpen
  BY StoredOpenFollows
<1>2. Spec => []StoredOpen
  BY <1>1, Invariance, FillsInvariance, SubmittedOnlyInvariance, PTL
<1> QED
  BY <1>2, LevelsInit, LevelsNext, Invariance, PTL DEF Spec

-----------------------------------------------------------------------------
(*                      The handlers come to an end                        *)

(* The queues and the sweep are finite, and the sweep is over when empty.  *)
HandlerBounds ==
  /\ \A s \in Side : IsFiniteSet(book[s])
  /\ IsFiniteSet(expired)

Sweeping == pc = "expire" => expired # {}

LEMMA HandlerBounded ==
  Inv /\ Fills => HandlerBounds
<1> SUFFICES ASSUME Inv, Fills PROVE HandlerBounds
  OBVIOUS
<1>1. IsFiniteSet(DOMAIN orders)
  BY DEF Fills, StoredFills
<1>2. IsFiniteSet(expired)
  BY <1>1, InvParts, FS_Subset DEF TaskTyped
<1>3. ASSUME NEW s \in Side PROVE IsFiniteSet(book[s])
  <2>1. \A e \in book[s] : e.id \in DOMAIN orders
    BY InvParts DEF BookInv, QueuedStored
  <2>2. \A e, f \in book[s] : e.id = f.id => e = f
    BY InvParts DEF BookInv, TurnsDistinct
  <2>3. [e \in book[s] |-> e.id] \in Injection(book[s], DOMAIN orders)
    BY <2>1, <2>2 DEF Injection, IsInjective
  <2> QED
    BY <1>1, <2>3, FS_Injection
<1> QED
  BY <1>2, <1>3 DEF HandlerBounds

LEMMA SweepingNext ==
  Sweeping /\ [Next]_vars => Sweeping'
<1> SUFFICES ASSUME Sweeping, [Next]_vars PROVE Sweeping'
  OBVIOUS
<1> USE DEF Sweeping
<1>1. ASSUME NEW o \in Submissions,
             \/ RefuseInvalid(o) \/ ParkStop(o) \/ RejectUnfillable(o)
             \/ DropLimit(o) \/ RestLimit(o) \/ StartMatching(o)
      PROVE  Sweeping'
  BY <1>1 DEF RefuseInvalid, ParkStop, RejectUnfillable, DropLimit, RestLimit, StartMatching,
              Receive, Idle, taskVars
<1>2. ASSUME NEW id \in OrderIds, CancelLive(id) \/ CancelMissing(id) PROVE Sweeping'
  BY <1>2 DEF CancelLive, CancelMissing, ReceiveCancel, Idle, taskVars
<1>3. ASSUME NEW now \in Times, Heartbeat(now) PROVE Sweeping'
  BY <1>3 DEF Heartbeat
<1>4. ASSUME NEW e, FillNext(e) \/ FailNext(e) PROVE Sweeping'
  BY <1>4 DEF FillNext, FailNext, Pop, Done
<1>5. CASE FinishMarket \/ CancelRemainder \/ RestRemainder
  BY <1>5 DEF FinishMarket, CancelRemainder, RestRemainder, Done
<1>6. ASSUME NEW id \in OrderIds, ExpireNext(id) \/ ExpireAbort(id) PROVE Sweeping'
  BY <1>6 DEF ExpireNext, ExpireAbort, Done
<1>7. CASE UNCHANGED vars
  BY <1>7 DEF vars, taskVars
<1> QED
  BY <1>1, <1>2, <1>3, <1>4, <1>5, <1>6, <1>7 DEF Next, ReceiveNext, HandlerNext

(* A finite queue whose entries have turns of their own has a best entry.  *)
LEMMA BetterOrder ==
  ASSUME NEW side, NEW e \in Entry, NEW f \in Entry, NEW g \in Entry
  PROVE  /\ Better(side, e, f) /\ Better(side, f, g) => Better(side, e, g)
         /\ e.seq # f.seq => Better(side, e, f) \/ Better(side, f, e)
<1>1. Prices \subseteq Int
  BY OrderBookAssumption
<1>2. \A x \in Entry : x.price \in Prices /\ x.seq \in Nat
  BY DEF Entry
<1>3. e.price \in Int /\ f.price \in Int /\ g.price \in Int
  BY <1>1, <1>2
<1>4. e.seq \in Nat /\ f.seq \in Nat /\ g.seq \in Nat
  BY <1>2
<1> QED
  BY <1>3, <1>4 DEF Better

BestIn(side, queue, e) == e \in queue /\ \A f \in queue \ {e} : Better(side, e, f)

LEMMA BestExists ==
  ASSUME NEW side, NEW queue \in SUBSET Entry, IsFiniteSet(queue), queue # {},
         \A e, f \in queue : e.seq = f.seq => e = f
  PROVE  \E e \in queue : BestIn(side, queue, e)
<1> DEFINE G == {Q \in SUBSET queue : Q = {} \/ \E e \in Q : BestIn(side, Q, e)}
<1>1. ASSUME NEW Q \in SUBSET queue, NEW x \in Q, Q \ {x} \in G
      PROVE  \E e \in Q : BestIn(side, Q, e)
  <2>1. CASE Q \ {x} = {}
    <3>1. BestIn(side, Q, x)
      BY <1>1, <2>1 DEF BestIn
    <3> QED
      BY <1>1, <3>1
  <2>2. CASE \E e \in Q \ {x} : BestIn(side, Q \ {x}, e)
    <3>1. PICK b \in Q \ {x} : BestIn(side, Q \ {x}, b)
      BY <2>2
    <3>2. b \in Entry /\ x \in Entry /\ b.seq # x.seq
      BY <1>1, <3>1
    <3>3. \A f \in Q \ {x} : f # b => Better(side, b, f)
      BY <3>1 DEF BestIn
    <3>4. CASE Better(side, b, x)
      <4>1. BestIn(side, Q, b)
        BY <3>1, <3>3, <3>4 DEF BestIn
      <4> QED
        BY <3>1, <4>1
    <3>5. CASE Better(side, x, b)
      <4>1. ASSUME NEW f \in Q \ {x} PROVE Better(side, x, f)
        <5>1. CASE f = b
          BY <3>5, <5>1
        <5>2. CASE f # b
          <6>1. Better(side, b, f) /\ f \in Entry
            BY <1>1, <3>3, <4>1, <5>2
          <6> QED
            BY <3>2, <3>5, <6>1, BetterOrder
        <5> QED
          BY <5>1, <5>2
      <4>2. BestIn(side, Q, x)
        BY <1>1, <4>1 DEF BestIn
      <4> QED
        BY <1>1, <4>2
    <3> QED
      BY <3>2, <3>4, <3>5, BetterOrder
  <2> QED
    BY <1>1, <2>1, <2>2
<1>2. \A Q \in SUBSET queue : \A x \in Q : Q \ {x} \in G => Q \in G
  BY <1>1
<1>3. G \in SUBSET SUBSET queue /\ {} \in G
  OBVIOUS
<1> HIDE DEF G
<1>4. queue \in G
  BY <1>2, <1>3, SetInduction
<1> QED
  BY <1>4 DEF G

LEMMA GoesOn ==
  ASSUME Inv, HandlerBounds, Sweeping
  PROVE  HandlerGoesOn
<1>1. ASSUME pc = "match", ~LoopOver
      PROVE  /\ Remaining(taker) > 0
             /\ \E e \in book[Opposite(taker.side)] : IsBest(Opposite(taker.side), e)
  <2>1. PICK side \in Side : side = Opposite(taker.side)
    <3>1. Opposite(taker.side) \in Side
      BY <1>1, TakerFacts DEF Opposite, Side, Order
    <3> QED
      BY <3>1
  <2>2. Remaining(taker) > 0 /\ book[side] # {}
    BY <1>1, <2>1 DEF LoopOver
  <2>3. book[side] \in SUBSET Entry /\ IsFiniteSet(book[side])
    BY InvParts DEF BookInv, BookTyped, HandlerBounds
  <2>4. \A e, f \in book[side] : e.seq = f.seq => e = f
    BY InvParts DEF BookInv, TurnsDistinct
  <2>5. PICK queue \in SUBSET Entry : queue = book[side]
    BY <2>3
  <2>6. \E e \in queue : BestIn(side, queue, e)
    BY <2>2, <2>3, <2>4, <2>5, BestExists
  <2>7. \E e \in book[side] : IsBest(side, e)
    BY <2>5, <2>6 DEF BestIn, IsBest
  <2> QED
    BY <2>1, <2>2, <2>7
<1> QED
  BY <1>1 DEF HandlerGoesOn, Sweeping

(***************************************************************************)
(* process_market_order and check_expired_orders never stall: as long as   *)
(* the quantity of the taker is not used up and the queue not empty,       *)
(* one of its orders is the best, for any prices and any number of         *)
(* reinsertions, and a sweep that goes on has an order left.               *)
(***************************************************************************)
THEOREM Progress == Spec => []HandlerGoesOn
<1>1. Init => Sweeping
  BY DEF Init, Sweeping
<1>2. Inv /\ Fills => HandlerBounds
  BY HandlerBounded
<1>3. Inv /\ HandlerBounds /\ Sweeping => HandlerGoesOn
  BY GoesOn
<1> QED
  BY <1>1, <1>2, <1>3, SweepingNext, Invariance, FillsInvariance, PTL DEF Spec

LEMMA PopShrinks ==
  ASSUME Inv, HandlerBounds, NEW e, Pop(e)
  PROVE  \E s \in Side, n \in Nat :
           /\ s = Opposite(taker.side)
           /\ Cardinality(book[s]) = n + 1 /\ Cardinality(book'[s]) = n
<1>1. PICK s \in Side : s = Opposite(taker.side)
  <2>1. Opposite(taker.side) \in Side
    BY TakerFacts DEF Pop, Opposite, Side, Order
  <2> QED
    BY <2>1
<1>2. e \in book[s] /\ book' = [book EXCEPT ![s] = @ \ {e}]
  BY <1>1 DEF Pop, IsBest
<1>3. PICK old : old = book[s]
  OBVIOUS
<1>4. IsFiniteSet(old) /\ e \in old /\ book'[s] = old \ {e}
  BY <1>2, <1>3, InvParts DEF HandlerBounds, BookInv, BookTyped
<1>5. PICK m \in Nat : m = Cardinality(old)
  BY <1>4, FS_CardinalityType
<1>6. Cardinality(old \ {e}) = m - 1 /\ Cardinality(old \ {e}) \in Nat
  BY <1>4, <1>5, FS_RemoveElement, FS_CardinalityType
<1>7. PICK n \in Nat : n = Cardinality(old \ {e}) /\ m = n + 1
  BY <1>5, <1>6
<1> QED
  BY <1>1, <1>3, <1>4, <1>5, <1>7

LEMMA StepsShrink ==
  ASSUME Inv, HandlerBounds, HandlerNext
  PROVE  StepsLeft' < StepsLeft
<1>1. ASSUME NEW e, FillNext(e) PROVE StepsLeft' < StepsLeft
  <2>1. Pop(e) /\ pc = "match" /\ pc' = "match"
    BY <1>1 DEF FillNext, Pop
  <2>2. taker'.side = taker.side
    BY <1>1, <2>1, TakerFacts DEF FillNext, Order
  <2>3. PICK s \in Side, n \in Nat :
          /\ s = Opposite(taker.side)
          /\ Cardinality(book[s]) = n + 1 /\ Cardinality(book'[s]) = n
    BY <2>1, PopShrinks
  <2>4. StepsLeft = n + 1 + 2 /\ StepsLeft' = n + 2
    BY <2>1, <2>2, <2>3 DEF StepsLeft
  <2> QED
    BY <2>4
<1>2. ASSUME NEW e, FailNext(e) PROVE StepsLeft' < StepsLeft
  <2>1. Pop(e) /\ pc = "match" /\ pc' = "recv"
    BY <1>2 DEF FailNext, Pop, Done
  <2>2. PICK s \in Side, n \in Nat :
          s = Opposite(taker.side) /\ Cardinality(book[s]) = n + 1
    BY <2>1, PopShrinks
  <2>3. StepsLeft = n + 1 + 2 /\ StepsLeft' = 0
    BY <2>1, <2>2 DEF StepsLeft
  <2> QED
    BY <2>3
<1>3. CASE FinishMarket
  <2>1. pc = "match" /\ pc' \in {"recv", "rest"}
    BY <1>3 DEF FinishMarket, LoopOver, Done
  <2>2. Opposite(taker.side) \in Side
    BY <2>1, TakerFacts DEF Opposite, Side, Order
  <2>3. PICK n \in Nat : n = Cardinality(book[Opposite(taker.side)])
    BY <2>2, FS_CardinalityType DEF HandlerBounds
  <2>4. StepsLeft = n + 2 /\ StepsLeft' \in {0, 1}
    BY <2>1, <2>3 DEF StepsLeft
  <2> QED
    BY <2>4
<1>4. CASE CancelRemainder \/ RestRemainder
  <2>1. pc = "rest" /\ pc' = "recv"
    BY <1>4 DEF CancelRemainder, RestRemainder, Done
  <2>2. StepsLeft = 1 /\ StepsLeft' = 0
    BY <2>1 DEF StepsLeft
  <2> QED
    BY <2>2
<1>5. ASSUME NEW id \in OrderIds, ExpireNext(id) \/ ExpireAbort(id) PROVE StepsLeft' < StepsLeft
  <2>1. pc = "expire" /\ id \in expired
    BY <1>5 DEF ExpireNext, ExpireAbort
  <2>2. PICK old : old = expired
    OBVIOUS
  <2>3. IsFiniteSet(old) /\ id \in old
    BY <2>1, <2>2 DEF HandlerBounds
  <2>4. PICK m \in Nat : m = Cardinality(old)
    BY <2>3, FS_CardinalityType
  <2>5. Cardinality(old \ {id}) = m - 1 /\ Cardinality(old \ {id}) \in Nat
    BY <2>3, <2>4, FS_RemoveElement, FS_CardinalityType
  <2>6. PICK n \in Nat : n = Cardinality(old \ {id}) /\ m = n + 1
    BY <2>4, <2>5
  <2>7. StepsLeft = n + 1
    BY <2>1, <2>2, <2>4, <2>6 DEF StepsLeft
  <2>8. pc' = "recv" \/ (pc' = "expire" /\ expired' = old \ {id})
    BY <1>5, <2>2 DEF ExpireNext, ExpireAbort, Done
  <2>9. StepsLeft' = 0 \/ StepsLeft' = n
    BY <2>6, <2>8 DEF StepsLeft
  <2> QED
    BY <2>7, <2>9
<1> QED
  BY <1>1, <1>2, <1>3, <1>4, <1>5 DEF HandlerNext

(***************************************************************************)
(* The matching loop and the sweep over the expired orders come to an end: *)
(* each of their steps leaves fewer to take, whatever trades, fails or is  *)
(* put back, and the task takes no other message before, for any orders    *)
(* and any length of the queues.                                           *)
(***************************************************************************)
THEOREM HandlerEnds == Spec => HandlerShrinks
<1>1. Inv /\ Fills => HandlerBounds
  BY HandlerBounded
<1>2. Inv /\ HandlerBounds /\ [Next]_vars => [pc # "recv" => StepsLeft' < StepsLeft]_vars
  <2>1. SUFFICES ASSUME Inv, HandlerBounds, Next, pc # "recv" PROVE StepsLeft' < StepsLeft
    OBVIOUS
  <2>2. ~ReceiveNext
    BY <2>1 DEF ReceiveNext, RefuseInvalid, ParkStop, RejectUnfillable, DropLimit, RestLimit,
                StartMatching, Receive, CancelLive, CancelMissing, ReceiveCancel, Heartbeat, Idle
  <2> QED
    BY <2>1, <2>2, StepsShrink DEF Next
<1> QED
  BY <1>1, <1>2, Invariance, FillsInvariance, PTL DEF Spec, HandlerShrinks
=============================================================================
