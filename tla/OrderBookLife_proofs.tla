------------------------ MODULE OrderBookLife_proofs ------------------------
(***************************************************************************)
(* Proof that a book keeps the promises of OrderLife: the initial states   *)
(* map to initial states, and every step to a step of one order's life, or *)
(* to none.                                                                *)
(***************************************************************************)
EXTENDS OrderHistory_proofs, OrderBookLife

(* A book is told of an order before it says something about it.           *)
Unheard ==
  \A id \in OrderIds :
    ToldOf(id) # {} => id \in DOMAIN submitted \/ \A o \in Submissions : o.id # id

Working(id) == taker # NoOrder /\ taker.id = id

(* What a step of the book is in the lives of its orders.                  *)
LifeStep == Life!Next \/ UNCHANGED Life!vars

-----------------------------------------------------------------------------
(*                     What a step does to the mapping                     *)

LEMMA LifeSame ==
  \A id \in OrderIds : (Life!Withdrawn(id) <=> Withdrawn(id)) /\ (Life!Closed(id) <=> Closed(id))
<1> SUFFICES ASSUME NEW id \in OrderIds
             PROVE  (Life!Withdrawn(id) <=> Withdrawn(id)) /\ (Life!Closed(id) <=> Closed(id))
  OBVIOUS
<1>1. Told[id] = ToldOf(id)
  BY DEF Told
<1>2. \A status : status \in ToldOf(id) <=>
        \E i \in DOMAIN outbox \ Trades : outbox[i].id = id /\ outbox[i].status = status
  BY DEF ToldOf
<1> QED
  BY <1>1, <1>2 DEF Life!Withdrawn, Life!Closed, Withdrawn, Closed, Withdrawing, Closing

(* Updates about one order, with one status.                               *)
LEMMA ReportTold ==
  ASSUME outbox \in Seq(Message),
         NEW id, NEW status, NEW msgs \in Seq(Message), Len(msgs) > 0, Send(msgs),
         \A j \in DOMAIN msgs :
           msgs[j].kind = "OrderUpdate" /\ msgs[j].id = id /\ msgs[j].status = status
  PROVE  /\ Deals' = Deals
         /\ ToldOf(id)' = ToldOf(id) \cup {status}
         /\ \A x : x # id => ToldOf(x)' = ToldOf(x)
<1>1. /\ \A i \in DOMAIN outbox : i \in DOMAIN outbox' /\ outbox'[i] = outbox[i]
      /\ \A i \in DOMAIN outbox' \ DOMAIN outbox :
           i - Len(outbox) \in DOMAIN msgs /\ outbox'[i] = msgs[i - Len(outbox)]
  BY SendPlaces
<1>2. \A i \in DOMAIN outbox' \ DOMAIN outbox :
        outbox'[i].kind = "OrderUpdate" /\ outbox'[i].id = id /\ outbox'[i].status = status
  BY <1>1
<1>3. PICK n : n \in DOMAIN outbox' \ DOMAIN outbox
  <2>1. outbox' = outbox \o msgs
    BY DEF Send
  <2>2. Len(outbox) \in Nat /\ DOMAIN outbox = 1..Len(outbox) /\ Len(msgs) \in Nat
    BY LenProperties
  <2>3. outbox' \in Seq(Message) /\ Len(outbox') = Len(outbox) + Len(msgs)
    BY <2>1, ConcatProperties
  <2>4. Len(outbox) + 1 \in DOMAIN outbox' /\ Len(outbox) + 1 \notin DOMAIN outbox
    BY <2>2, <2>3, LenProperties
  <2> QED
    BY <2>4
<1>4. Trades' = Trades
  BY <1>1, <1>2 DEF Trades
<1>5. Deals' = Deals
  BY <1>1, <1>4 DEF Deals, Trades
<1>6. n \in DOMAIN outbox' \ Trades' /\ outbox'[n].id = id /\ outbox'[n].status = status
  BY <1>2, <1>3 DEF Trades
<1>7. \A i : i \in DOMAIN outbox' \ Trades' <=>
        i \in DOMAIN outbox \ Trades \/ i \in DOMAIN outbox' \ DOMAIN outbox
  BY <1>1, <1>2, <1>4 DEF Trades
<1>8. \A x : x # id => ToldOf(x)' = ToldOf(x)
  BY <1>1, <1>2, <1>7 DEF ToldOf
<1>9. ToldOf(id)' = ToldOf(id) \cup {status}
  BY <1>1, <1>2, <1>6, <1>7 DEF ToldOf
<1> QED
  BY <1>5, <1>8, <1>9

LEMMA SilenceTold ==
  ASSUME UNCHANGED outbox
  PROVE  UNCHANGED <<Told, Deals>> /\ \A x : ToldOf(x)' = ToldOf(x)
  BY DEF Told, Deals, ToldOf, Trades

(* The trade and the update of an iteration.                               *)
LEMMA FillTold ==
  ASSUME outbox \in Seq(Message), NEW trade \in Message, NEW update \in Message,
         trade.kind = "Trade", update.kind = "OrderUpdate",
         Send(<<trade, update>>)
  PROVE  /\ Deals' = Deals \cup {<<trade.buy, trade.sell>>}
         /\ ToldOf(update.id)' = ToldOf(update.id) \cup {update.status}
         /\ \A x : x # update.id => ToldOf(x)' = ToldOf(x)
<1> DEFINE n == Len(outbox)
<1>1. /\ Trades' = Trades \cup {n + 1} /\ outbox'[n + 1] = trade
      /\ DOMAIN outbox' \ Trades' = (DOMAIN outbox \ Trades) \cup {n + 2}
      /\ outbox'[n + 2] = update
      /\ \A i \in DOMAIN outbox : outbox'[i] = outbox[i]
  BY FillSends
<1> HIDE DEF n
<1>2. Trades \subseteq DOMAIN outbox
  BY DEF Trades
<1>3. Deals' = Deals \cup {<<trade.buy, trade.sell>>}
  BY <1>1, <1>2 DEF Deals
<1>4. \A x : x # update.id => ToldOf(x)' = ToldOf(x)
  BY <1>1 DEF ToldOf
<1>5. ToldOf(update.id)' = ToldOf(update.id) \cup {update.status}
  BY <1>1 DEF ToldOf
<1> QED
  BY <1>3, <1>4, <1>5

-----------------------------------------------------------------------------
(*                     Moves and stays                                     *)

LEMMA TellBy ==
  ASSUME NEW id \in OrderIds, NEW status,
         ToldOf(id)' = ToldOf(id) \cup {status},
         \A x \in OrderIds \ {id} : ToldOf(x)' = ToldOf(x)
  PROVE  Life!Tell(id, status)
  BY DEF Life!Tell, Told

LEMMA MoveBy ==
  ASSUME NEW id \in OrderIds, NEW from, NEW to, PhaseOf(id) \in from, PhaseOf(id)' = to,
         \A x \in OrderIds \ {id} : PhaseOf(x)' = PhaseOf(x)
  PROVE  Life!Move(id, from, to)
  BY DEF Life!Move, Phase

LEMMA AllStay ==
  ASSUME \A x \in OrderIds : PhaseOf(x)' = PhaseOf(x)
  PROVE  UNCHANGED Phase
  BY DEF Phase

(* An order stays in its phase when it stays in its places.                *)
LEMMA StayBy ==
  ASSUME NEW x \in OrderIds,
         x \in DOMAIN submitted' <=> x \in DOMAIN submitted,
         Working(x)' <=> Working(x), InMarket(x)' <=> InMarket(x)
  PROVE  PhaseOf(x)' = PhaseOf(x)
  BY DEF PhaseOf, Working

LEMMA UnheardKept ==
  ASSUME Unheard, \A x \in DOMAIN submitted : x \in DOMAIN submitted',
         NEW T, \A x \in OrderIds \ T : ToldOf(x)' = ToldOf(x),
         \A x \in T : x \in DOMAIN submitted' \/ \A o \in Submissions : o.id # x
  PROVE  Unheard'
  BY DEF Unheard

(* The phases of an order in the places of a book.                         *)
LEMMA Phases ==
  ASSUME NEW x
  PROVE  /\ x \notin DOMAIN submitted => PhaseOf(x) = "unknown"
         /\ x \in DOMAIN submitted /\ Working(x) => PhaseOf(x) = "working"
         /\ x \in DOMAIN submitted /\ ~Working(x) /\ InMarket(x) => PhaseOf(x) = "market"
         /\ x \in DOMAIN submitted /\ ~Working(x) /\ ~InMarket(x) => PhaseOf(x) = "out"
<1>1. CASE x \notin DOMAIN submitted
  BY <1>1 DEF PhaseOf
<1>2. CASE x \in DOMAIN submitted /\ Working(x)
  BY <1>2 DEF PhaseOf, Working
<1>3. CASE x \in DOMAIN submitted /\ ~Working(x) /\ InMarket(x)
  BY <1>3 DEF PhaseOf, Working
<1>4. CASE x \in DOMAIN submitted /\ ~Working(x) /\ ~InMarket(x)
  BY <1>4 DEF PhaseOf, Working
<1> QED
  BY <1>1, <1>2, <1>3, <1>4

LEMMA NextPhases ==
  ASSUME NEW x, x \in DOMAIN submitted'
  PROVE  /\ Working(x)' => PhaseOf(x)' = "working"
         /\ ~Working(x)' /\ InMarket(x)' => PhaseOf(x)' = "market"
         /\ ~Working(x)' /\ ~InMarket(x)' => PhaseOf(x)' = "out"
<1>1. CASE Working(x)'
  BY <1>1 DEF PhaseOf, Working
<1>2. CASE ~Working(x)' /\ InMarket(x)'
  BY <1>2 DEF PhaseOf, Working
<1>3. CASE ~Working(x)' /\ ~InMarket(x)'
  BY <1>3 DEF PhaseOf, Working
<1> QED
  BY <1>1, <1>2, <1>3

(* Without a partial fill and a taker an order is in a queue or nowhere.   *)
LEMMA IdlePlaces ==
  ASSUME NEW x \in OrderIds
  PROVE  /\ partial = NoOrder => (InMarket(x) <=> Queued(x))
         /\ partial' = NoOrder => (InMarket(x)' <=> Queued(x)')
         /\ taker = NoOrder => ~Working(x)
         /\ taker' = NoOrder => ~Working(x)'
  BY OrderBookAssumption DEF InMarket, Working

-----------------------------------------------------------------------------
(*                     What a step does to the queues                      *)

LEMMA PushQueued ==
  ASSUME book \in [Side -> SUBSET Entry], NEW side \in Side, NEW e,
         book' = [book EXCEPT ![side] = Push(@, e)]
  PROVE  /\ Queued(e.id)'
         /\ \A x : x # e.id => (Queued(x)' <=> Queued(x))
<1>1. \A s \in Side : book'[s] = IF s = side THEN Push(book[s], e) ELSE book[s]
  OBVIOUS
<1>2. \A x : Entries(Push(book[side], e), x) = IF x = e.id THEN {e} ELSE Entries(book[side], x)
  BY DEF Push, Entries
<1>3. \A s \in Side : \A x : x # e.id => Entries(book'[s], x) = Entries(book[s], x)
  BY <1>1, <1>2
<1>4. Entries(book'[side], e.id) = {e}
  BY <1>1, <1>2
<1> QED
  BY <1>3, <1>4 DEF Queued, Entries

(* add_limit_order.                                                        *)
LEMMA AddLimitQueued ==
  ASSUME BookInv, NEW o, o.side \in Side, AddLimit(o)
  PROVE  /\ Queued(o.id)'
         /\ \A x : x # o.id => (Queued(x)' <=> Queued(x))
<1> DEFINE e == [id |-> o.id, price |-> o.price, seq |-> nextSeq]
<1>1. book' = [book EXCEPT ![o.side] = Push(@, e)] /\ book \in [Side -> SUBSET Entry]
  BY DEF AddLimit, BookInv, BookTyped
<1>2. PICK k : k = e
  OBVIOUS
<1>3. k.id = o.id /\ book' = [book EXCEPT ![o.side] = Push(@, k)]
  BY <1>1, <1>2
<1> HIDE DEF e
<1>4. Queued(k.id)' /\ \A x : x # k.id => (Queued(x)' <=> Queued(x))
  BY <1>1, <1>3, PushQueued
<1> QED
  BY <1>3, <1>4

(* remove_order.                                                           *)
LEMMA RemoveLiveQueued ==
  ASSUME BookInv, NEW id, Live(id), RemoveLive(id)
  PROVE  /\ Queued(id) /\ ~Queued(id)'
         /\ \A x : x # id => (Queued(x)' <=> Queued(x))
<1>1. \A s \in Side : book'[s] = book[s] \ Entries(book[s], id)
  BY RemoveLiveKeeps
<1>2. Queued(id)
  BY DEF Live, Queued, BookInv, BookTyped
<1>3. ~Queued(id)' /\ \A x : x # id => (Queued(x)' <=> Queued(x))
  BY <1>1 DEF Queued, Entries
<1> QED
  BY <1>2, <1>3

(* The order popped by an iteration.                                       *)
LEMMA PopQueued ==
  ASSUME BookInv, taker \in Order, NEW e, Pop(e)
  PROVE  /\ Queued(e.id) /\ ~Queued(e.id)'
         /\ \A x : x # e.id => (Queued(x)' <=> Queued(x))
<1> DEFINE side == Opposite(taker.side)
<1>1. /\ side \in Side /\ e \in book[side]
      /\ \A s \in Side : \A f \in book'[s] : f \in book[s] /\ f.id # e.id
  BY PopFacts
<1>2. book' = [book EXCEPT ![side] = @ \ {e}] /\ book \in [Side -> SUBSET Entry]
  BY DEF Pop, BookInv, BookTyped
<1>3. \A s \in Side : book[s] \subseteq book'[s] \cup {e}
  BY <1>1, <1>2
<1> HIDE DEF side
<1>4. Queued(e.id) /\ ~Queued(e.id)'
  BY <1>1 DEF Queued, Entries
<1>5. \A x : x # e.id => (Queued(x)' <=> Queued(x))
  BY <1>1, <1>3 DEF Queued, Entries
<1> QED
  BY <1>4, <1>5

(* The partial fill put back: it is queued again, and so in the market.    *)
LEMMA ReinsertQueued ==
  ASSUME BookInv, Reinsert, partial # NoOrder => partial \in DOMAIN info
  PROVE  \A x \in OrderIds : Queued(x)' <=> InMarket(x)
<1>1. CASE partial = NoOrder
  <2>1. UNCHANGED book
    BY <1>1 DEF Reinsert
  <2> QED
    BY <1>1, <2>1, OrderBookAssumption DEF Queued, InMarket
<1>2. CASE partial # NoOrder
  <2>0. PICK id : id = partial
    OBVIOUS
  <2> DEFINE side == info[id].side
             e == [id |-> id, price |-> info[id].price, seq |-> nextSeq]
  <2>1. /\ side \in Side /\ book \in [Side -> SUBSET Entry]
        /\ book' = [book EXCEPT ![side] = Push(@, e)] /\ e.id = id
    BY <1>2, <2>0 DEF Reinsert, BookInv, BookTyped
  <2> HIDE DEF e, side
  <2>2. PICK k : k = e
    OBVIOUS
  <2>3. PICK there : there = side
    OBVIOUS
  <2>4. Queued(k.id)' /\ \A x : x # k.id => (Queued(x)' <=> Queued(x))
    BY <2>1, <2>2, <2>3, PushQueued
  <2> QED
    BY <2>0, <2>1, <2>2, <2>4 DEF InMarket
<1> QED
  BY <1>1, <1>2

-----------------------------------------------------------------------------
(*                     The steps                                           *)

LEMMA SamePlaces ==
  ASSUME UNCHANGED <<book, taker, partial>>
  PROVE  \A x : (Working(x)' <=> Working(x)) /\ (InMarket(x)' <=> InMarket(x))
  BY DEF Working, InMarket, Queued

(* Updates about one order, as steps of its life.                          *)
LEMMA ReportLife ==
  ASSUME Inv, NEW id \in OrderIds, NEW status, NEW msgs \in Seq(Message),
         Len(msgs) > 0, Send(msgs),
         \A j \in DOMAIN msgs :
           msgs[j].kind = "OrderUpdate" /\ msgs[j].id = id /\ msgs[j].status = status
  PROVE  /\ Life!Tell(id, status) /\ UNCHANGED Deals
         /\ \A x : x # id => ToldOf(x)' = ToldOf(x)
<1>1. outbox \in Seq(Message)
  BY InvParts DEF TaskTyped
<1>2. /\ Deals' = Deals
      /\ ToldOf(id)' = ToldOf(id) \cup {status}
      /\ \A x : x # id => ToldOf(x)' = ToldOf(x)
  BY <1>1, ReportTold
<1> QED
  BY <1>2, TellBy

(* RefuseInvalid, ParkStop, RejectUnfillable and DropLimit.                *)
LEMMA AnswerLife ==
  ASSUME Inv, Inv', Unheard, NEW o \in Submissions, Receive(o),
         NEW status \in {"Rejected", "Canceled", "New"},
         NEW msgs \in Seq(Message), Len(msgs) > 0, Send(msgs),
         \A j \in DOMAIN msgs :
           msgs[j].kind = "OrderUpdate" /\ msgs[j].id = o.id /\ msgs[j].status = status,
         UNCHANGED <<bookVars, taskVars>>
  PROVE  LifeStep /\ Unheard'
<1>1. /\ o.id \in OrderIds /\ o.id \notin DOMAIN submitted /\ o.id \notin DOMAIN orders
      /\ DOMAIN submitted' = DOMAIN submitted \cup {o.id}
      /\ taker = NoOrder /\ partial = NoOrder
  BY ReceiveFacts
<1>2. UNCHANGED <<book, orders, taker, partial>>
  BY DEF bookVars, taskVars
<1>3. /\ Life!Tell(o.id, status) /\ UNCHANGED Deals
      /\ \A x : x # o.id => ToldOf(x)' = ToldOf(x)
  BY <1>1, ReportLife
<1>4. PhaseOf(o.id) = "unknown"
  BY <1>1, Phases
<1>5. PhaseOf(o.id)' = "out"
  <2>1. ~Queued(o.id)'
    BY <1>1, <1>2, NotStoredNotQueued
  <2> QED
    BY <1>1, <1>2, <2>1, IdlePlaces, NextPhases
<1>6. \A x \in OrderIds \ {o.id} : PhaseOf(x)' = PhaseOf(x)
  BY <1>1, <1>2, SamePlaces, StayBy
<1>7. Life!Move(o.id, {"unknown"}, "out")
  BY <1>1, <1>4, <1>5, <1>6, MoveBy
<1>8. Told[o.id] = {}
  BY <1>1 DEF Told, Unheard
<1>9. Life!Answer(o.id)
  BY <1>3, <1>7, <1>8 DEF Life!Answer
<1>10. LifeStep
  BY <1>1, <1>9 DEF LifeStep, Life!Next
<1>11. Unheard'
  <2> DEFINE T == {o.id}
  <2>1. \A x \in OrderIds \ T : ToldOf(x)' = ToldOf(x)
    BY <1>3
  <2>2. \A x \in T : x \in DOMAIN submitted' \/ \A p \in Submissions : p.id # x
    BY <1>1
  <2> HIDE DEF T
  <2> QED
    BY <1>1, <2>1, <2>2, UnheardKept
<1> QED
  BY <1>10, <1>11

LEMMA RefuseInvalidLife ==
  ASSUME Inv, Inv', History, Unheard, NEW o \in Submissions, RefuseInvalid(o)
  PROVE  LifeStep /\ Unheard'
<1> DEFINE msgs == <<Update(o.id, "Rejected", 0)>>
<1>1. Receive(o) /\ Send(msgs) /\ UNCHANGED <<bookVars, taskVars>>
  BY DEF RefuseInvalid
<1>2. /\ msgs \in Seq(Message) /\ Len(msgs) > 0
      /\ \A j \in DOMAIN msgs :
           msgs[j].kind = "OrderUpdate" /\ msgs[j].id = o.id /\ msgs[j].status = "Rejected"
  BY <1>1, NewOrderOpen, OneReport DEF OrderStatus
<1> HIDE DEF msgs
<1> QED
  BY <1>1, <1>2, AnswerLife

LEMMA ParkStopLife ==
  ASSUME Inv, Inv', History, Unheard, NEW o \in Submissions, ParkStop(o)
  PROVE  LifeStep /\ Unheard'
<1> DEFINE msgs == <<Update(o.id, "New", 0)>>
<1>1. Receive(o) /\ Send(msgs) /\ UNCHANGED <<bookVars, taskVars>>
  BY DEF ParkStop
<1>2. /\ msgs \in Seq(Message) /\ Len(msgs) > 0
      /\ \A j \in DOMAIN msgs :
           msgs[j].kind = "OrderUpdate" /\ msgs[j].id = o.id /\ msgs[j].status = "New"
  BY <1>1, NewOrderOpen, OneReport DEF OrderStatus
<1> HIDE DEF msgs
<1> QED
  BY <1>1, <1>2, AnswerLife

LEMMA RejectUnfillableLife ==
  ASSUME Inv, Inv', History, Unheard, NEW o \in Submissions, RejectUnfillable(o)
  PROVE  LifeStep /\ Unheard'
<1> DEFINE msgs == <<Update(o.id, "Rejected", 0), Update(o.id, "Rejected", 0)>>
<1>1. Receive(o) /\ Send(msgs) /\ UNCHANGED <<bookVars, taskVars>>
  BY DEF RejectUnfillable
<1>2. msgs \in Seq(Message) /\ Len(msgs) > 0
  <2>1. Update(o.id, "Rejected", 0) \in Message
    BY <1>1, NewOrderOpen, MessageTypes DEF OrderStatus
  <2> QED
    BY <2>1
<1>3. \A j \in DOMAIN msgs :
        msgs[j].kind = "OrderUpdate" /\ msgs[j].id = o.id /\ msgs[j].status = "Rejected"
  BY DEF Update
<1> HIDE DEF msgs
<1> QED
  BY <1>1, <1>2, <1>3, AnswerLife

LEMMA DropLimitLife ==
  ASSUME Inv, Inv', History, Unheard, NEW o \in Submissions, DropLimit(o)
  PROVE  LifeStep /\ Unheard'
<1> DEFINE status == IF o.tif = "IOC" THEN "Canceled" ELSE "Rejected"
           msgs == <<Update(o.id, status, 0)>>
<1>1. Receive(o) /\ Send(msgs) /\ UNCHANGED <<bookVars, taskVars>>
  BY DEF DropLimit
<1>2. status \in OrderStatus /\ status \in {"Rejected", "Canceled", "New"}
  BY DEF OrderStatus
<1> HIDE DEF status
<1>3. /\ msgs \in Seq(Message) /\ Len(msgs) > 0
      /\ \A j \in DOMAIN msgs :
           msgs[j].kind = "OrderUpdate" /\ msgs[j].id = o.id /\ msgs[j].status = status
  BY <1>1, <1>2, NewOrderOpen, OneReport
<1> HIDE DEF msgs
<1> QED
  BY <1>1, <1>2, <1>3, AnswerLife

(* A step that tells nothing.                                              *)
LEMMA UnheardSilent ==
  ASSUME Unheard, UNCHANGED outbox,
         \A x \in DOMAIN submitted : x \in DOMAIN submitted'
  PROVE  Unheard'
<1> DEFINE T == {}
<1>1. \A x \in OrderIds \ T : ToldOf(x)' = ToldOf(x)
  BY SilenceTold
<1>2. \A x \in T : x \in DOMAIN submitted' \/ \A o \in Submissions : o.id # x
  OBVIOUS
<1> HIDE DEF T
<1> QED
  BY <1>1, <1>2, UnheardKept

LEMMA RestLimitLife ==
  ASSUME Inv, Inv', History, Unheard, NEW o \in Submissions, RestLimit(o)
  PROVE  LifeStep /\ Unheard'
<1>0. PICK p : p = Effective(o)
  OBVIOUS
<1>1. /\ Receive(o) /\ Valid(o) /\ AddLimit(p)
      /\ UNCHANGED <<taker, partial, outbox>>
  BY <1>0 DEF RestLimit, taskVars
<1>2. p.id = o.id /\ p.side \in Side
  BY <1>0, <1>1, ReceiveFacts, EffectiveFacts DEF SameTerms, Order
<1>3. /\ o.id \in OrderIds /\ o.id \notin DOMAIN submitted
      /\ DOMAIN submitted' = DOMAIN submitted \cup {o.id}
      /\ taker = NoOrder /\ partial = NoOrder
  BY <1>1, ReceiveFacts
<1>4. Queued(p.id)' /\ \A x : x # p.id => (Queued(x)' <=> Queued(x))
  BY <1>1, <1>2, InvParts, AddLimitQueued
<1>5. PhaseOf(o.id) = "unknown"
  BY <1>3, Phases
<1>6. PhaseOf(o.id)' = "market"
  <2>1. Queued(o.id)'
    BY <1>2, <1>4
  <2> QED
    BY <1>1, <1>3, <2>1, IdlePlaces, NextPhases
<1>7. \A x \in OrderIds \ {o.id} : PhaseOf(x)' = PhaseOf(x)
  <2> SUFFICES ASSUME NEW x \in OrderIds \ {o.id} PROVE PhaseOf(x)' = PhaseOf(x)
    OBVIOUS
  <2>1. InMarket(x)' <=> InMarket(x)
    BY <1>1, <1>2, <1>3, <1>4, IdlePlaces
  <2>2. Working(x)' <=> Working(x)
    BY <1>1, <1>3, IdlePlaces
  <2> QED
    BY <1>3, <2>1, <2>2, StayBy
<1>8. Life!Move(o.id, {"unknown", "working"}, "market")
  BY <1>3, <1>5, <1>6, <1>7, MoveBy
<1>9. ~Life!Withdrawn(o.id)
  BY <1>1, <1>3, NewOrderOpen, LifeSame
<1>10. Life!Rest(o.id)
  BY <1>1, <1>8, <1>9, SilenceTold DEF Life!Rest
<1>11. LifeStep
  BY <1>3, <1>10 DEF LifeStep, Life!Next
<1> QED
  BY <1>1, <1>3, <1>11, UnheardSilent

LEMMA StartMatchingLife ==
  ASSUME Inv, Inv', History, Unheard, NEW o \in Submissions, StartMatching(o)
  PROVE  LifeStep /\ Unheard'
<1>1. /\ Receive(o) /\ Valid(o) /\ taker' = Effective(o)
      /\ UNCHANGED <<book, partial, outbox>>
  BY DEF StartMatching, bookVars
<1>2. /\ o \in Order /\ o.id \in OrderIds /\ o.id \notin DOMAIN submitted
      /\ DOMAIN submitted' = DOMAIN submitted \cup {o.id}
      /\ taker = NoOrder
  BY <1>1, ReceiveFacts
<1>3. taker'.id = o.id /\ taker' # NoOrder
  BY <1>1, <1>2, EffectiveFacts, OrderBookAssumption DEF SameTerms
<1>4. \A x : (Working(x)' <=> x = o.id) /\ ~Working(x)
  BY <1>2, <1>3 DEF Working
<1>5. \A x : InMarket(x)' <=> InMarket(x)
  BY <1>1 DEF InMarket, Queued
<1>6. PhaseOf(o.id) = "unknown" /\ PhaseOf(o.id)' = "working"
  BY <1>2, <1>4, Phases, NextPhases
<1>7. \A x \in OrderIds \ {o.id} : PhaseOf(x)' = PhaseOf(x)
  BY <1>2, <1>4, <1>5, StayBy
<1>8. Life!Move(o.id, {"unknown"}, "working")
  BY <1>2, <1>6, <1>7, MoveBy
<1>9. Told[o.id] = {}
  BY <1>2 DEF Told, Unheard
<1>10. Life!Arrive(o.id)
  BY <1>1, <1>8, <1>9, SilenceTold DEF Life!Arrive
<1>11. LifeStep
  BY <1>2, <1>10 DEF LifeStep, Life!Next
<1> QED
  BY <1>1, <1>2, <1>11, UnheardSilent

(* CancelLive and ExpireNext.                                              *)
LEMMA WithdrawLife ==
  ASSUME Inv, Inv', History, Unheard, NEW id \in OrderIds, Live(id), RemoveLive(id),
         Send(<<Update(id, "Canceled", orders[id].filled)>>),
         taker = NoOrder, partial = NoOrder, UNCHANGED <<taker, partial, submitted>>
  PROVE  LifeStep /\ Unheard'
<1> DEFINE msgs == <<Update(id, "Canceled", orders[id].filled)>>
<1>1. /\ Queued(id) /\ ~Queued(id)'
      /\ \A x : x # id => (Queued(x)' <=> Queued(x))
  BY InvParts, RemoveLiveQueued
<1>2. id \in DOMAIN orders /\ id \in DOMAIN submitted
  BY InvParts, RemoveLiveKeeps DEF StoredSubmitted
<1>3. /\ msgs \in Seq(Message) /\ Len(msgs) > 0
      /\ \A j \in DOMAIN msgs :
           msgs[j].kind = "OrderUpdate" /\ msgs[j].id = id /\ msgs[j].status = "Canceled"
  <2>1. orders[id].filled \in Int
    BY <1>2, InvParts DEF BookInv, BookTyped, Order
  <2> QED
    BY <2>1, OneReport DEF OrderStatus
<1>4. Send(msgs)
  OBVIOUS
<1> HIDE DEF msgs
<1>5. /\ Life!Tell(id, "Canceled") /\ UNCHANGED Deals
      /\ \A x : x # id => ToldOf(x)' = ToldOf(x)
  BY <1>3, <1>4, ReportLife
<1>6. PhaseOf(id) = "market" /\ PhaseOf(id)' = "out"
  <2>1. ~Working(id) /\ InMarket(id)
    BY <1>1, IdlePlaces
  <2>2. ~Working(id)' /\ ~InMarket(id)'
    BY <1>1, IdlePlaces
  <2> QED
    BY <1>2, <2>1, <2>2, Phases, NextPhases
<1>7. \A x \in OrderIds \ {id} : PhaseOf(x)' = PhaseOf(x)
  <2> SUFFICES ASSUME NEW x \in OrderIds \ {id} PROVE PhaseOf(x)' = PhaseOf(x)
    OBVIOUS
  <2>1. InMarket(x)' <=> InMarket(x)
    BY <1>1, IdlePlaces
  <2>2. Working(x)' <=> Working(x)
    BY IdlePlaces
  <2> QED
    BY <2>1, <2>2, StayBy
<1>8. Life!Move(id, {"market"}, "out")
  BY <1>6, <1>7, MoveBy
<1>9. ~Life!Withdrawn(id)
  BY <1>1, LifeSame DEF History, BookHistory
<1>10. Life!Withdraw(id)
  BY <1>5, <1>8, <1>9 DEF Life!Withdraw
<1>11. LifeStep
  BY <1>10 DEF LifeStep, Life!Next
<1>12. Unheard'
  <2> DEFINE T == {id}
  <2>1. \A x \in OrderIds \ T : ToldOf(x)' = ToldOf(x)
    BY <1>5
  <2>2. \A x \in T : x \in DOMAIN submitted' \/ \A p \in Submissions : p.id # x
    BY <1>2
  <2> HIDE DEF T
  <2> QED
    BY <2>1, <2>2, UnheardKept
<1> QED
  BY <1>11, <1>12

LEMMA CancelLiveLife ==
  ASSUME Inv, Inv', History, Unheard, NEW id \in OrderIds, CancelLive(id)
  PROVE  LifeStep /\ Unheard'
<1>1. /\ Idle /\ Live(id) /\ RemoveLive(id)
      /\ Send(<<Update(id, "Canceled", orders[id].filled)>>)
      /\ UNCHANGED <<taker, partial, submitted>>
  BY DEF CancelLive, ReceiveCancel, taskVars
<1> QED
  BY <1>1, IdleFacts, WithdrawLife

LEMMA ExpireNextLife ==
  ASSUME Inv, Inv', History, Unheard, NEW id \in OrderIds, ExpireNext(id)
  PROVE  LifeStep /\ Unheard'
<1>1. /\ pc = "expire" /\ Live(id) /\ RemoveLive(id)
      /\ Send(<<Update(id, "Canceled", orders[id].filled)>>)
      /\ UNCHANGED <<taker, partial, submitted>>
  BY DEF ExpireNext, inputVars
<1>2. taker = NoOrder /\ partial = NoOrder
  BY <1>1, InvParts DEF HandlerState
<1> QED
  BY <1>1, <1>2, WithdrawLife

LEMMA CancelMissingLife ==
  ASSUME Inv, Inv', History, Unheard, NEW id \in OrderIds, CancelMissing(id)
  PROVE  LifeStep /\ Unheard'
<1> DEFINE msgs == <<Update(id, "Rejected", 0)>>
<1>1. /\ ReceiveCancel(id) /\ ~Live(id) /\ Send(msgs)
      /\ UNCHANGED <<book, taker, partial>>
  BY DEF CancelMissing, RemoveMissing, taskVars
<1>2. /\ taker = NoOrder /\ partial = NoOrder /\ UNCHANGED submitted
      /\ id \in DOMAIN submitted \/ \A o \in Submissions : o.id # id
  BY <1>1, IdleFacts DEF ReceiveCancel
<1>3. /\ msgs \in Seq(Message) /\ Len(msgs) > 0
      /\ \A j \in DOMAIN msgs :
           msgs[j].kind = "OrderUpdate" /\ msgs[j].id = id /\ msgs[j].status = "Rejected"
  BY OneReport DEF OrderStatus
<1> HIDE DEF msgs
<1>4. /\ Life!Tell(id, "Rejected") /\ UNCHANGED Deals
      /\ \A x : x # id => ToldOf(x)' = ToldOf(x)
  BY <1>1, <1>3, ReportLife
<1>5. PhaseOf(id) \in {"unknown", "out"}
  <2>1. ~Queued(id)
    BY <1>1, InvParts, QueuedLive DEF BookInv
  <2> QED
    BY <1>2, <2>1, IdlePlaces, Phases
<1>6. UNCHANGED Phase
  <2>1. \A x \in OrderIds : PhaseOf(x)' = PhaseOf(x)
    BY <1>1, <1>2, SamePlaces, StayBy
  <2> QED
    BY <2>1, AllStay
<1>7. Life!Refuse(id)
  BY <1>4, <1>5, <1>6 DEF Life!Refuse, Phase
<1>8. LifeStep
  BY <1>7 DEF LifeStep, Life!Next
<1>9. Unheard'
  <2> DEFINE T == {id}
  <2>1. \A x \in OrderIds \ T : ToldOf(x)' = ToldOf(x)
    BY <1>4
  <2>2. \A x \in T : x \in DOMAIN submitted' \/ \A p \in Submissions : p.id # x
    BY <1>2
  <2> HIDE DEF T
  <2> QED
    BY <1>2, <2>1, <2>2, UnheardKept
<1> QED
  BY <1>8, <1>9

(* Heartbeat, ExpireAbort and the steps that change nothing.               *)
LEMMA HiddenLife ==
  ASSUME Unheard, UNCHANGED <<book, taker, partial, submitted, outbox>>
  PROVE  LifeStep /\ Unheard'
<1>1. \A x \in OrderIds : PhaseOf(x)' = PhaseOf(x)
  BY SamePlaces, StayBy
<1>2. UNCHANGED <<Phase, Told, Deals>>
  BY <1>1, AllStay, SilenceTold
<1>3. LifeStep
  BY <1>2 DEF LifeStep, Life!vars
<1> QED
  BY <1>3, UnheardSilent

LEMMA ExpireAbortLife ==
  ASSUME Inv, Unheard, NEW id \in OrderIds, ExpireAbort(id)
  PROVE  LifeStep /\ Unheard'
<1>1. /\ pc = "expire" /\ UNCHANGED <<book, submitted, outbox>>
      /\ taker' = NoOrder /\ partial' = NoOrder
  BY DEF ExpireAbort, RemoveMissing, Done, inputVars
<1>2. taker = NoOrder /\ partial = NoOrder
  BY <1>1, InvParts DEF HandlerState
<1> QED
  BY <1>1, <1>2, HiddenLife

-----------------------------------------------------------------------------
(*                     The matching loop and its tail                      *)

LEMMA FillNextLife ==
  ASSUME Inv, Inv', History, Unheard, NEW e, FillNext(e)
  PROVE  LifeStep /\ Unheard'
<1>0. PICK id : id = taker.id
  OBVIOUS
<1> DEFINE resting == orders[e.id]
           qty == MatchQty(taker, resting)
           updated == Filled(resting, qty)
           full == updated.filled = updated.qty
           price == MatchPrice(taker, resting, lastPrice)
           trade == Trade(id, e.id, price, qty)
           update == Update(e.id, updated.status, updated.filled)
<1>1. /\ pc = "match" /\ pc' = "match" /\ Pop(e) /\ Remaining(taker) > 0
      /\ UNCHANGED submitted /\ CanMatch(taker, resting)
      /\ taker' = [taker EXCEPT !.filled = @ + qty]
      /\ partial' = IF full THEN partial ELSE e.id
      /\ Send(<<trade, update>>)
  BY <1>0 DEF FillNext, Pop, inputVars, MatchFails
<1>2. /\ BookInv /\ taker \in Order /\ taker # NoOrder /\ id \in OrderIds
      /\ id \in DOMAIN submitted /\ id \notin DOMAIN orders
      /\ outbox \in Seq(Message) /\ lastPrice \in Prices \cup {NoPrice, 0}
  BY <1>0, <1>1, InvParts, TakerFacts DEF TaskTyped, BookInv, BookTyped
<1>3. /\ e.id \in OrderIds /\ e.id # id /\ e.id \in DOMAIN submitted
      /\ resting \in Order
      /\ e \in book["Sell"]
  <2>1. taker.side = "Buy"
    BY <1>1 DEF CanMatch
  <2>2. /\ e.id \in DOMAIN orders /\ resting \in Order
        /\ e \in book[Opposite(taker.side)]
    BY <1>1, <1>2, PopFacts
  <2> QED
    BY <1>2, <2>1, <2>2, InvParts DEF Opposite, StoredSubmitted, BookInv, BookTyped
<1>4. partial = NoOrder
  <2>1. Remaining(taker) \in Int
    BY <1>2, <1>3, MatchTypes
  <2> QED
    BY <1>1, <2>1, InvParts DEF HandlerState
<1>5. taker'.id = id /\ taker' # NoOrder
  <2>1. taker'.id = taker.id
    BY <1>1, <1>2 DEF Order
  <2>2. taker' # NoOrder
    BY <1>1, InvParts DEF StoredSubmitted
  <2> QED
    BY <1>0, <2>1, <2>2
<1>6. qty \in Int /\ price \in Prices \cup {0}
  BY <1>2, <1>3, MatchTypes
<1>7. /\ updated \in Order
      /\ updated.status = IF full THEN "Filled" ELSE "PartiallyFilled"
  <2>1. updated \in Order /\ updated.filled = resting.filled + qty /\ updated.qty = resting.qty
    BY <1>3, <1>6, FilledFacts DEF SameTerms
  <2>2. updated.status = IF resting.filled + qty = resting.qty THEN "Filled" ELSE "PartiallyFilled"
    BY <1>3 DEF Filled, Order
  <2> QED
    BY <2>1, <2>2
<1>8. /\ trade \in Message /\ trade.kind = "Trade"
      /\ trade.buy = id /\ trade.sell = e.id
  BY <1>2, <1>3, <1>6, MessageTypes DEF Trade
<1>9. /\ update \in Message /\ update.kind = "OrderUpdate"
      /\ update.id = e.id /\ update.status = updated.status
  <2>1. updated.status \in OrderStatus /\ updated.filled \in Int
    BY <1>7 DEF Order
  <2> QED
    BY <1>3, <2>1, MessageTypes DEF Update
<1>10. PICK status : status = updated.status
  OBVIOUS
<1> HIDE DEF trade, update, updated, full, price, qty
<1>11. /\ Deals' = Deals \cup {<<id, e.id>>}
       /\ ToldOf(e.id)' = ToldOf(e.id) \cup {status}
       /\ \A x : x # e.id => ToldOf(x)' = ToldOf(x)
  <2>1. PICK t : t = trade
    OBVIOUS
  <2>2. PICK u : u = update
    OBVIOUS
  <2>3. /\ Deals' = Deals \cup {<<t.buy, t.sell>>}
        /\ ToldOf(u.id)' = ToldOf(u.id) \cup {u.status}
        /\ \A x : x # u.id => ToldOf(x)' = ToldOf(x)
    BY <1>1, <1>2, <1>8, <1>9, <2>1, <2>2, FillTold
  <2>4. /\ t.buy = id /\ t.sell = e.id
        /\ u.id = e.id /\ u.status = status
    BY <1>8, <1>9, <1>10, <2>1, <2>2
  <2> QED
    BY <2>3, <2>4
<1>12. Life!Tell(e.id, status)
  BY <1>3, <1>11, TellBy
<1>13. /\ Queued(e.id) /\ ~Queued(e.id)'
       /\ \A x : x # e.id => (Queued(x)' <=> Queued(x))
  BY <1>1, <1>2, PopQueued
<1>14. \A x : (Working(x)' <=> Working(x)) /\ (Working(x) <=> x = id)
  BY <1>0, <1>2, <1>5 DEF Working
<1>15. PhaseOf(id) = "working"
  BY <1>2, <1>14, Phases
<1>16. PhaseOf(e.id) = "market"
  BY <1>3, <1>13, <1>14, Phases DEF InMarket
<1>17. ~Closed(id) /\ ~Closed(e.id)
  <2>1. ~Closed(id)
    BY <1>0, <1>1 DEF History, HandlerHistory
  <2>2. ~Closed(e.id)
    BY <1>3 DEF History, BookHistory, Entries
  <2> QED
    BY <2>1, <2>2
<1>18. ~Life!Closed(id) /\ ~Life!Closed(e.id)
  BY <1>2, <1>3, <1>17, LifeSame
<1>19. \A x \in OrderIds \ {e.id} : PhaseOf(x)' = PhaseOf(x)
  <2> SUFFICES ASSUME NEW x \in OrderIds \ {e.id} PROVE PhaseOf(x)' = PhaseOf(x)
    OBVIOUS
  <2>1. InMarket(x)' <=> InMarket(x)
    BY <1>1, <1>4, <1>13, OrderBookAssumption DEF InMarket
  <2> QED
    BY <1>1, <1>14, <2>1, StayBy
<1>20. ASSUME full PROVE LifeStep
  <2>1. PhaseOf(e.id)' = "out"
    <3>1. ~InMarket(e.id)'
      BY <1>1, <1>3, <1>4, <1>13, <1>20, OrderBookAssumption DEF InMarket
    <3> QED
      BY <1>1, <1>3, <1>14, <3>1, NextPhases
  <2>2. Life!Move(e.id, {"market"}, "out")
    BY <1>3, <1>16, <1>19, <2>1, MoveBy
  <2>3. status = "Filled"
    BY <1>7, <1>10, <1>20
  <2>4. Life!Trade(id)
    BY <1>2, <1>3, <1>11, <1>12, <1>15, <1>16, <1>18, <2>2, <2>3 DEF Life!Trade, Phase
  <2> QED
    BY <1>2, <2>4 DEF LifeStep, Life!Next
<1>21. ASSUME ~full PROVE LifeStep
  <2>1. PhaseOf(e.id)' = PhaseOf(e.id)
    <3>1. InMarket(e.id)'
      BY <1>1, <1>21 DEF InMarket
    <3> QED
      BY <1>1, <1>3, <1>14, <1>16, <3>1, NextPhases
  <2>2. UNCHANGED Phase
    BY <1>19, <2>1, AllStay
  <2>3. status = "PartiallyFilled"
    BY <1>7, <1>10, <1>21
  <2>4. Life!Trade(id)
    BY <1>2, <1>3, <1>11, <1>12, <1>15, <1>16, <1>18, <2>2, <2>3 DEF Life!Trade, Phase
  <2> QED
    BY <1>2, <2>4 DEF LifeStep, Life!Next
<1>22. Unheard'
  <2> DEFINE T == {e.id}
  <2>1. \A x \in OrderIds \ T : ToldOf(x)' = ToldOf(x)
    BY <1>11
  <2>2. \A x \in T : x \in DOMAIN submitted' \/ \A p \in Submissions : p.id # x
    BY <1>1, <1>3
  <2> HIDE DEF T
  <2> QED
    BY <1>1, <2>1, <2>2, UnheardKept
<1> QED
  BY <1>20, <1>21, <1>22

LEMMA FailNextLife ==
  ASSUME Inv, Inv', History, Unheard, NEW e, FailNext(e)
  PROVE  LifeStep /\ Unheard'
<1>0. PICK id : id = taker.id
  OBVIOUS
<1> DEFINE msgs == <<Update(id, "Rejected", 0)>>
<1>1. /\ pc = "match" /\ Pop(e) /\ Remaining(taker) > 0
      /\ Send(msgs) /\ UNCHANGED submitted
      /\ taker' = NoOrder /\ partial' = NoOrder
  BY <1>0 DEF FailNext, Pop, Done, inputVars
<1>2. /\ BookInv /\ taker \in Order /\ taker # NoOrder /\ id \in OrderIds
      /\ id \in DOMAIN submitted /\ id \notin DOMAIN orders
  BY <1>0, <1>1, InvParts, TakerFacts
<1>3. e.id \in OrderIds /\ e.id # id /\ e.id \in DOMAIN submitted
  <2>1. e.id \in DOMAIN orders
    BY <1>1, <1>2, PopFacts
  <2> QED
    BY <1>2, <2>1, InvParts DEF StoredSubmitted, BookInv, BookTyped
<1>4. partial = NoOrder
  <2>1. Remaining(taker) \in Int
    BY <1>2 DEF Order, Remaining
  <2> QED
    BY <1>1, <2>1, InvParts DEF HandlerState
<1>5. /\ msgs \in Seq(Message) /\ Len(msgs) > 0
      /\ \A j \in DOMAIN msgs :
           msgs[j].kind = "OrderUpdate" /\ msgs[j].id = id /\ msgs[j].status = "Rejected"
  BY <1>2, OneReport DEF OrderStatus
<1> HIDE DEF msgs
<1>6. /\ Life!Tell(id, "Rejected") /\ UNCHANGED Deals
      /\ \A x : x # id => ToldOf(x)' = ToldOf(x)
  BY <1>1, <1>2, <1>5, ReportLife
<1>7. /\ Queued(e.id) /\ ~Queued(e.id)'
      /\ \A x : x # e.id => (Queued(x)' <=> Queued(x))
  BY <1>1, <1>2, PopQueued
<1>8. \A x : ~Working(x)' /\ (Working(x) <=> x = id)
  BY <1>0, <1>1, <1>2 DEF Working
<1>9. ~Queued(id)
  <2>1. QueuedStored
    BY <1>2 DEF BookInv
  <2> QED
    BY <1>2, <2>1 DEF QueuedStored, Queued, Entries
<1>10. PhaseOf(id) = "working" /\ PhaseOf(id)' = "out"
  <2>1. ~Queued(id)'
    BY <1>3, <1>7, <1>9
  <2> QED
    BY <1>1, <1>2, <1>8, <2>1, IdlePlaces, Phases, NextPhases
<1>11. PhaseOf(e.id) = "market" /\ PhaseOf(e.id)' = "out"
  BY <1>1, <1>3, <1>4, <1>7, <1>8, IdlePlaces, Phases, NextPhases
<1>12. \A x \in OrderIds \ {id, e.id} : PhaseOf(x)' = PhaseOf(x)
  <2> SUFFICES ASSUME NEW x \in OrderIds \ {id, e.id} PROVE PhaseOf(x)' = PhaseOf(x)
    OBVIOUS
  <2>1. InMarket(x)' <=> InMarket(x)
    BY <1>1, <1>4, <1>7, IdlePlaces
  <2> QED
    BY <1>1, <1>8, <2>1, StayBy
<1>13. Phase' = [Phase EXCEPT ![id] = "out", ![e.id] = "out"]
  BY <1>2, <1>3, <1>10, <1>11, <1>12 DEF Phase
<1>14. ~Life!Closed(id)
  <2>1. ~Closed(id)
    BY <1>0, <1>1 DEF History, HandlerHistory
  <2> QED
    BY <1>2, <2>1, LifeSame
<1>15. Life!Fail(id)
  BY <1>2, <1>3, <1>6, <1>10, <1>11, <1>13, <1>14 DEF Life!Fail, Phase
<1>16. LifeStep
  BY <1>2, <1>15 DEF LifeStep, Life!Next
<1>17. Unheard'
  <2> DEFINE T == {id}
  <2>1. \A x \in OrderIds \ T : ToldOf(x)' = ToldOf(x)
    BY <1>6
  <2>2. \A x \in T : x \in DOMAIN submitted' \/ \A p \in Submissions : p.id # x
    BY <1>1, <1>2
  <2> HIDE DEF T
  <2> QED
    BY <1>1, <2>1, <2>2, UnheardKept
<1> QED
  BY <1>16, <1>17

LEMMA FinishMarketLife ==
  ASSUME Inv, Inv', History, Unheard, FinishMarket
  PROVE  LifeStep /\ Unheard'
<1>0. PICK id, status : id = taker.id /\ status = FinalStatus(taker)
  OBVIOUS
<1> DEFINE msgs == <<Update(id, status, taker.filled)>>
           rests == taker.type = "Limit" /\ 0 < taker.qty
<1>1. /\ pc = "match" /\ Reinsert /\ Send(msgs) /\ UNCHANGED <<orders, submitted>>
      /\ partial' = NoOrder
      /\ rests => taker' = taker
      /\ ~rests => taker' = NoOrder
  BY <1>0 DEF FinishMarket, LoopOver, Done, inputVars
<1>2. /\ BookInv /\ taker \in Order /\ taker # NoOrder /\ id \in OrderIds
      /\ id \in DOMAIN submitted /\ id \notin DOMAIN orders'
  BY <1>0, <1>1, InvParts, TakerFacts
<1>3. /\ status \in {"PartiallyFilled", "Filled", "Canceled", "Rejected"}
      /\ taker.filled \in Int
  BY <1>0, <1>2 DEF FinalStatus, Order
<1>4. /\ msgs \in Seq(Message) /\ Len(msgs) > 0
      /\ \A j \in DOMAIN msgs :
           msgs[j].kind = "OrderUpdate" /\ msgs[j].id = id /\ msgs[j].status = status
  <2>1. PICK filled : filled = taker.filled
    OBVIOUS
  <2>2. status \in OrderStatus /\ filled \in Int
    BY <1>3, <2>1 DEF OrderStatus
  <2> QED
    BY <1>2, <2>1, <2>2, OneReport
<1> HIDE DEF msgs, rests
<1>5. /\ Life!Tell(id, status) /\ UNCHANGED Deals
      /\ \A x : x # id => ToldOf(x)' = ToldOf(x)
  BY <1>1, <1>2, <1>4, ReportLife
<1>6. \A x \in OrderIds : Queued(x)' <=> InMarket(x)
  <2>1. partial # NoOrder => partial \in DOMAIN info
    BY InvParts DEF HandlerState
  <2> QED
    BY <1>1, <1>2, <2>1, ReinsertQueued
<1>7. \A x : (Working(x) <=> x = id) /\ (x # id => ~Working(x)')
  BY <1>0, <1>1, <1>2 DEF Working
<1>8. \A x \in OrderIds \ {id} : PhaseOf(x)' = PhaseOf(x)
  <2> SUFFICES ASSUME NEW x \in OrderIds \ {id} PROVE PhaseOf(x)' = PhaseOf(x)
    OBVIOUS
  <2>1. InMarket(x)' <=> InMarket(x)
    BY <1>1, <1>6, IdlePlaces
  <2> QED
    BY <1>1, <1>7, <2>1, StayBy
<1>9. PhaseOf(id) = "working"
  BY <1>2, <1>7, Phases
<1>10. PhaseOf(id)' \in {"working", "out"}
  <2>1. CASE rests
    <3>1. Working(id)'
      BY <1>0, <1>1, <1>2, <2>1 DEF Working
    <3> QED
      BY <1>1, <1>2, <3>1, NextPhases
  <2>2. CASE ~rests
    <3>1. ~Working(id)' /\ ~Queued(id)'
      BY <1>1, <1>2, <2>2, IdlePlaces, NotStoredNotQueued
    <3> QED
      BY <1>1, <1>2, <3>1, IdlePlaces, NextPhases
  <2> QED
    BY <2>1, <2>2
<1>11. Life!Move(id, {"working"}, "out") \/ Life!Move(id, {"working"}, "working")
  <2>1. CASE PhaseOf(id)' = "out"
    BY <1>2, <1>8, <1>9, <2>1, MoveBy
  <2>2. CASE PhaseOf(id)' = "working"
    BY <1>2, <1>8, <1>9, <2>2, MoveBy
  <2> QED
    BY <1>10, <2>1, <2>2
<1>12. ~Life!Closed(id)
  <2>1. ~Closed(id)
    BY <1>0, <1>1 DEF History, HandlerHistory
  <2> QED
    BY <1>2, <2>1, LifeSame
<1>13. Life!Report(id)
  BY <1>3, <1>5, <1>11, <1>12 DEF Life!Report
<1>14. LifeStep
  BY <1>2, <1>13 DEF LifeStep, Life!Next
<1>15. Unheard'
  <2> DEFINE T == {id}
  <2>1. \A x \in OrderIds \ T : ToldOf(x)' = ToldOf(x)
    BY <1>5
  <2>2. \A x \in T : x \in DOMAIN submitted' \/ \A p \in Submissions : p.id # x
    BY <1>1, <1>2
  <2> HIDE DEF T
  <2> QED
    BY <1>1, <2>1, <2>2, UnheardKept
<1> QED
  BY <1>14, <1>15

LEMMA CancelRemainderLife ==
  ASSUME Inv, Inv', History, Unheard, CancelRemainder
  PROVE  LifeStep /\ Unheard'
<1>0. PICK id : id = taker.id
  OBVIOUS
<1> DEFINE msgs == <<Update(id, "Canceled", 0)>>
<1>1. /\ pc = "rest" /\ Send(msgs) /\ UNCHANGED <<book, orders, submitted>>
      /\ taker' = NoOrder /\ partial' = NoOrder
  BY <1>0 DEF CancelRemainder, Done, bookVars, inputVars
<1>2. /\ taker # NoOrder /\ id \in OrderIds /\ partial = NoOrder
      /\ id \in DOMAIN submitted /\ id \notin DOMAIN orders'
  BY <1>0, <1>1, InvParts, TakerFacts DEF HandlerState
<1>3. /\ msgs \in Seq(Message) /\ Len(msgs) > 0
      /\ \A j \in DOMAIN msgs :
           msgs[j].kind = "OrderUpdate" /\ msgs[j].id = id /\ msgs[j].status = "Canceled"
  BY <1>2, OneReport DEF OrderStatus
<1> HIDE DEF msgs
<1>4. /\ Life!Tell(id, "Canceled") /\ UNCHANGED Deals
      /\ \A x : x # id => ToldOf(x)' = ToldOf(x)
  BY <1>1, <1>2, <1>3, ReportLife
<1>5. \A x : (Working(x) <=> x = id) /\ ~Working(x)'
  BY <1>0, <1>1, <1>2 DEF Working
<1>6. \A x : InMarket(x)' <=> InMarket(x)
  BY <1>1, <1>2 DEF InMarket, Queued
<1>7. PhaseOf(id) = "working" /\ PhaseOf(id)' = "out"
  <2>1. ~Queued(id)'
    BY <1>2, NotStoredNotQueued
  <2> QED
    BY <1>1, <1>2, <1>5, <2>1, IdlePlaces, Phases, NextPhases
<1>8. \A x \in OrderIds \ {id} : PhaseOf(x)' = PhaseOf(x)
  BY <1>1, <1>5, <1>6, StayBy
<1>9. Life!Move(id, {"working"}, "out")
  BY <1>2, <1>7, <1>8, MoveBy
<1>10. Life!Discard(id)
  BY <1>4, <1>9 DEF Life!Discard
<1>11. LifeStep
  BY <1>2, <1>10 DEF LifeStep, Life!Next
<1>12. Unheard'
  <2> DEFINE T == {id}
  <2>1. \A x \in OrderIds \ T : ToldOf(x)' = ToldOf(x)
    BY <1>4
  <2>2. \A x \in T : x \in DOMAIN submitted' \/ \A p \in Submissions : p.id # x
    BY <1>1, <1>2
  <2> HIDE DEF T
  <2> QED
    BY <1>1, <2>1, <2>2, UnheardKept
<1> QED
  BY <1>11, <1>12

LEMMA RestRemainderLife ==
  ASSUME Inv, Inv', History, Unheard, RestRemainder
  PROVE  LifeStep /\ Unheard'
<1>0. PICK o, id : o = Original(taker) /\ id = taker.id
  OBVIOUS
<1>1. /\ pc = "rest" /\ taker.tif # "IOC" /\ AddLimit(o)
      /\ UNCHANGED <<outbox, submitted>>
      /\ taker' = NoOrder /\ partial' = NoOrder
  BY <1>0 DEF RestRemainder, Done, inputVars
<1>2. /\ BookInv /\ taker \in Order /\ taker # NoOrder /\ id \in OrderIds
      /\ partial = NoOrder /\ id \in DOMAIN submitted
  BY <1>0, <1>1, InvParts, TakerFacts DEF HandlerState
<1>3. o.id = id /\ o.side \in Side
  BY <1>0, <1>2 DEF Original, Order
<1>4. Queued(o.id)' /\ \A x : x # o.id => (Queued(x)' <=> Queued(x))
  BY <1>1, <1>2, <1>3, AddLimitQueued
<1>5. \A x : (Working(x) <=> x = id) /\ ~Working(x)'
  BY <1>0, <1>1, <1>2 DEF Working
<1>6. PhaseOf(id) = "working" /\ PhaseOf(id)' = "market"
  <2>1. Queued(id)'
    BY <1>3, <1>4
  <2> QED
    BY <1>1, <1>2, <1>5, <2>1, IdlePlaces, Phases, NextPhases
<1>7. \A x \in OrderIds \ {id} : PhaseOf(x)' = PhaseOf(x)
  <2> SUFFICES ASSUME NEW x \in OrderIds \ {id} PROVE PhaseOf(x)' = PhaseOf(x)
    OBVIOUS
  <2>1. InMarket(x)' <=> InMarket(x)
    BY <1>1, <1>2, <1>3, <1>4, IdlePlaces
  <2> QED
    BY <1>1, <1>5, <2>1, StayBy
<1>8. Life!Move(id, {"unknown", "working"}, "market")
  BY <1>2, <1>6, <1>7, MoveBy
<1>9. ~Life!Withdrawn(id)
  <2>1. ~Withdrawn(id)
    BY <1>0, <1>1 DEF History, HandlerHistory
  <2> QED
    BY <1>2, <2>1, LifeSame
<1>10. Life!Rest(id)
  BY <1>1, <1>8, <1>9, SilenceTold DEF Life!Rest
<1>11. LifeStep
  BY <1>2, <1>10 DEF LifeStep, Life!Next
<1> QED
  BY <1>1, <1>11, UnheardSilent

-----------------------------------------------------------------------------
(*                     The refinement                                      *)

LEMMA LifeInit == Init => Life!Init /\ Unheard
<1> SUFFICES ASSUME Init PROVE Life!Init /\ Unheard
  OBVIOUS
<1>1. DOMAIN submitted = {} /\ DOMAIN outbox = {} /\ Trades = {}
  BY DEF Init, Trades
<1>2. \A id \in OrderIds : PhaseOf(id) = "unknown" /\ ToldOf(id) = {}
  BY <1>1, Phases DEF ToldOf
<1>3. Deals = {}
  BY <1>1 DEF Deals
<1>4. Phase = [id \in OrderIds |-> "unknown"] /\ Told = [id \in OrderIds |-> {}]
  BY <1>2 DEF Phase, Told
<1> QED
  BY <1>2, <1>3, <1>4 DEF Life!Init, Unheard

LEMMA LifeNext ==
  Inv /\ Inv' /\ History /\ Unheard /\ [Next]_vars => [Life!Next]_(Life!vars) /\ Unheard'
<1> SUFFICES ASSUME Inv, Inv', History, Unheard, [Next]_vars PROVE LifeStep /\ Unheard'
  BY DEF LifeStep
<1>1. ASSUME NEW o \in Submissions,
             RefuseInvalid(o) \/ ParkStop(o) \/ RejectUnfillable(o) \/ DropLimit(o)
      PROVE  LifeStep /\ Unheard'
  BY <1>1, RefuseInvalidLife, ParkStopLife, RejectUnfillableLife, DropLimitLife
<1>2. ASSUME NEW o \in Submissions, RestLimit(o) \/ StartMatching(o)
      PROVE  LifeStep /\ Unheard'
  BY <1>2, RestLimitLife, StartMatchingLife
<1>3. ASSUME NEW id \in OrderIds, CancelLive(id) \/ CancelMissing(id)
      PROVE  LifeStep /\ Unheard'
  BY <1>3, CancelLiveLife, CancelMissingLife
<1>4. ASSUME NEW now \in Times, Heartbeat(now) PROVE LifeStep /\ Unheard'
  <2>1. UNCHANGED <<book, taker, partial, submitted, outbox>>
    BY <1>4 DEF Heartbeat, bookVars, inputVars
  <2> QED
    BY <2>1, HiddenLife
<1>5. ASSUME NEW e, FillNext(e) \/ FailNext(e) PROVE LifeStep /\ Unheard'
  BY <1>5, FillNextLife, FailNextLife
<1>6. CASE FinishMarket \/ CancelRemainder \/ RestRemainder
  BY <1>6, FinishMarketLife, CancelRemainderLife, RestRemainderLife
<1>7. ASSUME NEW id \in OrderIds, ExpireNext(id) \/ ExpireAbort(id)
      PROVE  LifeStep /\ Unheard'
  BY <1>7, ExpireNextLife, ExpireAbortLife
<1>8. CASE UNCHANGED vars
  <2>1. UNCHANGED <<book, taker, partial, submitted, outbox>>
    BY <1>8 DEF vars, bookVars, taskVars, inputVars
  <2> QED
    BY <2>1, HiddenLife
<1> QED
  BY <1>1, <1>2, <1>3, <1>4, <1>5, <1>6, <1>7, <1>8 DEF Next, ReceiveNext, HandlerNext

(***************************************************************************)
(* A book keeps its promises, for any orders, prices and clock values:     *)
(* every step of OrderBook::run is one step in the life of one order, or   *)
(* none that a client could see.                                           *)
(***************************************************************************)
THEOREM Refinement == Spec => KeepsPromises
<1>1. Init => Life!Init /\ Unheard
  BY LifeInit
<1>2. Inv /\ Inv' /\ History /\ Unheard /\ [Next]_vars
        => [Life!Next]_(Life!vars) /\ Unheard'
  BY LifeNext
<1> QED
  BY <1>1, <1>2, Invariance, HistoryInvariance, PTL DEF Spec, KeepsPromises, Life!Spec
=============================================================================
