--------------------------- MODULE OrderBook_proofs ---------------------------
(***************************************************************************)
(* Proofs about OrderBook, for any prices, orders, clock values and number *)
(* of cancellations.                                                       *)
(*                                                                         *)
(* Inv is the inductive invariant: the types, and the agreement of the     *)
(* structures of the book.  Neither half is inductive alone.  A fill reads *)
(* the stored copy of the order it pops, so the types need the agreement,  *)
(* and the agreement is about values of the right types.                   *)
(***************************************************************************)
EXTENDS OrderBook, SequenceTheorems, TLAPS

Inv == TypeOK /\ BookConsistent

(* The part of Inv that is about the book alone.                           *)
BookTyped ==
  /\ book \in [Side -> SUBSET Entry]
  /\ DOMAIN orders \subseteq OrderIds
  /\ orders \in [DOMAIN orders -> Order]
  /\ DOMAIN info \subseteq OrderIds
  /\ info \in [DOMAIN info -> [side : Side, price : Prices]]
  /\ level \in [Side -> [Prices -> Int]]
  /\ nextSeq \in Nat
  /\ lastPrice \in Prices \cup {NoPrice, 0}

BookInv == BookTyped /\ QueuedStored /\ IndexedStored /\ TurnsDistinct

-----------------------------------------------------------------------------
(*                        The maps, the levels, the outbox                  *)

(* HashMap::insert keeps a map's type.                                     *)
LEMMA PutType ==
  ASSUME NEW V, NEW f, f \in [DOMAIN f -> V], NEW k, NEW v \in V
  PROVE  Put(f, k, v) \in [DOMAIN Put(f, k, v) -> V]
  BY DEF Put

(* So does HashMap::remove.                                                *)
LEMMA DropType ==
  ASSUME NEW V, NEW f, f \in [DOMAIN f -> V], NEW k
  PROVE  Drop(f, k) \in [DOMAIN Drop(f, k) -> V]
  BY DEF Drop

(* update_quantity_at_price keeps the levels numbers.                      *)
LEMMA AdjustLevelType ==
  ASSUME level \in [Side -> [Prices -> Int]],
         NEW side \in Side, NEW price \in Prices, NEW delta \in Int
  PROVE  AdjustLevel(side, price, delta) \in [Side -> [Prices -> Int]]
<1>1. level[side] \in [Prices -> Int] /\ level[side][price] \in Int
  OBVIOUS
<1>2. (IF level[side][price] + delta > 0 THEN level[side][price] + delta ELSE 0) \in Int
  BY <1>1
<1> QED
  BY <1>1, <1>2 DEF AdjustLevel

(* What a handler sends follows what was sent before.                      *)
LEMMA SendFacts ==
  ASSUME outbox \in Seq(Message), NEW msgs \in Seq(Message), Send(msgs)
  PROVE  /\ outbox' \in Seq(Message)
         /\ DOMAIN outbox \subseteq DOMAIN outbox'
         /\ \A i \in DOMAIN outbox : outbox'[i] = outbox[i]
         /\ \A i \in DOMAIN outbox' \ DOMAIN outbox :
              \E j \in DOMAIN msgs : outbox'[i] = msgs[j]
<1>1. outbox' = outbox \o msgs
  BY DEF Send
<1>2. /\ DOMAIN outbox = 1..Len(outbox) /\ Len(outbox) \in Nat
      /\ DOMAIN msgs = 1..Len(msgs) /\ Len(msgs) \in Nat
  BY LenProperties
<1>3. /\ outbox' \in Seq(Message)
      /\ Len(outbox') = Len(outbox) + Len(msgs)
      /\ \A i \in 1..(Len(outbox) + Len(msgs)) :
           outbox'[i] = IF i <= Len(outbox) THEN outbox[i] ELSE msgs[i - Len(outbox)]
  BY <1>1, ConcatProperties
<1>4. DOMAIN outbox' = 1..(Len(outbox) + Len(msgs))
  BY <1>3, LenProperties
<1>5. ASSUME NEW i \in DOMAIN outbox' \ DOMAIN outbox
      PROVE  \E j \in DOMAIN msgs : outbox'[i] = msgs[j]
  <2>1. i - Len(outbox) \in DOMAIN msgs /\ ~(i <= Len(outbox))
    BY <1>2, <1>4
  <2> QED
    BY <1>2, <1>3, <1>4, <2>1
<1> QED
  BY <1>2, <1>3, <1>4, <1>5

LEMMA MessageTypes ==
  /\ \A id \in OrderIds, status \in OrderStatus, filled \in Int :
       Update(id, status, filled) \in Message
  /\ \A buy, sell \in OrderIds, price \in Prices \cup {0}, qty \in Int :
       Trade(buy, sell, price, qty) \in Message
  BY DEF Update, Trade, Message

-----------------------------------------------------------------------------
(*                        The operations on the book                       *)

(* add_limit_order, for an order the book does not hold.                   *)
LEMMA AddLimitKeeps ==
  ASSUME BookInv,
         NEW o \in Order, o.price # NoPrice, o.id \notin DOMAIN orders,
         AddLimit(o)
  PROVE  /\ BookInv'
         /\ DOMAIN orders' = DOMAIN orders \cup {o.id}
         /\ orders'[o.id] = [o EXCEPT !.status = "New"]
         /\ \A x \in DOMAIN orders : orders'[x] = orders[x]
<1> USE DEF BookInv
<1> DEFINE e == [id |-> o.id, price |-> o.price, seq |-> nextSeq]
           new == [o EXCEPT !.status = "New"]
<1>0. /\ o.id \in OrderIds /\ o.side \in Side /\ o.price \in Prices
      /\ o.qty \in Int /\ o.filled \in Int
  BY DEF Order
<1>1. new \in Order /\ new.id = o.id /\ new.side = o.side /\ new.price = o.price
  BY DEF Order, OrderStatus
<1>2. e \in Entry
  BY <1>0 DEF Entry, BookTyped
<1>3. /\ DOMAIN orders' = DOMAIN orders \cup {o.id}
      /\ orders'[o.id] = new
      /\ \A x \in DOMAIN orders : orders'[x] = orders[x]
      /\ orders' \in [DOMAIN orders' -> Order]
  <2>1. orders' = Put(orders, o.id, new) /\ orders \in [DOMAIN orders -> Order]
    BY DEF AddLimit, BookTyped
  <2>2. Put(orders, o.id, new) \in [DOMAIN Put(orders, o.id, new) -> Order]
    BY <1>1, <2>1, PutType
  <2> QED
    BY <2>1, <2>2 DEF Put
<1>4. /\ DOMAIN info' = DOMAIN info \cup {o.id}
      /\ info'[o.id] = [side |-> o.side, price |-> o.price]
      /\ \A x \in DOMAIN info \ {o.id} : info'[x] = info[x]
      /\ info' \in [DOMAIN info' -> [side : Side, price : Prices]]
  <2>1. [side |-> o.side, price |-> o.price] \in [side : Side, price : Prices]
    BY <1>0
  <2>2. /\ info' = Put(info, o.id, [side |-> o.side, price |-> o.price])
        /\ info \in [DOMAIN info -> [side : Side, price : Prices]]
    BY DEF AddLimit, BookTyped
  <2>3. info' \in [DOMAIN info' -> [side : Side, price : Prices]]
    BY <2>1, <2>2, PutType
  <2> QED
    BY <2>2, <2>3 DEF Put
<1>5. \A f \in book[o.side] : f.id # o.id
  BY <1>0 DEF QueuedStored
<1>6. /\ book' \in [Side -> SUBSET Entry]
      /\ book'[o.side] = book[o.side] \cup {e}
      /\ \A s \in Side \ {o.side} : book'[s] = book[s]
  BY <1>0, <1>2, <1>5 DEF AddLimit, Push, BookTyped
<1>7. BookTyped'
  <2>1. level' \in [Side -> [Prices -> Int]]
    <3>1. level \in [Side -> [Prices -> Int]] /\ Remaining(o) \in Int
      BY <1>0 DEF BookTyped, Remaining
    <3> QED
      BY <1>0, <3>1, AdjustLevelType DEF AddLimit
  <2>2. /\ nextSeq' \in Nat /\ lastPrice' = lastPrice
        /\ DOMAIN orders' \subseteq OrderIds /\ DOMAIN info' \subseteq OrderIds
    BY <1>0, <1>3, <1>4 DEF AddLimit, BookTyped
  <2> QED
    BY <1>3, <1>4, <1>6, <2>1, <2>2 DEF BookTyped
<1>8. QueuedStored'
  <2> SUFFICES ASSUME NEW s \in Side, NEW f \in book'[s]
               PROVE  /\ f.id \in DOMAIN orders'
                      /\ orders'[f.id].side = s /\ orders'[f.id].price = f.price
                      /\ f.id \in DOMAIN info'
    BY DEF QueuedStored
  <2>1. CASE f \in book[s]
    BY <2>1, <1>3, <1>4 DEF QueuedStored
  <2>2. CASE f \notin book[s]
    <3>1. f = e /\ s = o.side
      BY <1>0, <1>6, <2>2
    <3> QED
      BY <3>1, <1>1, <1>3, <1>4
  <2> QED
    BY <2>1, <2>2
<1>9. IndexedStored'
  <2> SUFFICES ASSUME NEW id \in DOMAIN info'
               PROVE  /\ id \in DOMAIN orders'
                      /\ info'[id] = [side |-> orders'[id].side, price |-> orders'[id].price]
    BY DEF IndexedStored
  <2>1. CASE id = o.id
    BY <2>1, <1>1, <1>3, <1>4
  <2>2. CASE id # o.id
    BY <2>2, <1>3, <1>4 DEF IndexedStored
  <2> QED
    BY <2>1, <2>2
<1>10. TurnsDistinct'
  <2> SUFFICES ASSUME NEW s \in Side, NEW f \in book'[s], NEW g \in book'[s]
               PROVE  /\ f.seq < nextSeq'
                      /\ f.id = g.id \/ f.seq = g.seq => f = g
    BY DEF TurnsDistinct
  <2>0. nextSeq' = nextSeq + 1 /\ nextSeq \in Nat
    BY DEF AddLimit, BookTyped
  <2>1. \A h \in book[s] : h.seq \in Nat /\ h.seq < nextSeq
    BY DEF TurnsDistinct, BookTyped, Entry
  <2>2. \A h \in book'[s] : h \in book[s] \/ (h = e /\ s = o.side)
    BY <1>0, <1>6
  <2>3. f.id = g.id \/ f.seq = g.seq => f = g
    BY <1>5, <2>0, <2>1, <2>2 DEF TurnsDistinct
  <2> QED
    BY <2>0, <2>1, <2>2, <2>3
<1> QED
  BY <1>3, <1>7, <1>8, <1>9, <1>10

(* remove_order, when it finds the order.                                  *)
LEMMA RemoveLiveKeeps ==
  ASSUME BookInv, NEW id, Live(id), RemoveLive(id)
  PROVE  /\ BookInv'
         /\ id \in DOMAIN orders
         /\ DOMAIN orders' = DOMAIN orders \ {id}
         /\ \A x \in DOMAIN orders' : orders'[x] = orders[x]
         /\ \A s \in Side : book'[s] = book[s] \ Entries(book[s], id)
<1> USE DEF BookInv
<1> DEFINE side == info[id].side
           price == info[id].price
<1>1. id \in DOMAIN info /\ side \in Side /\ price \in Prices
  BY DEF Live, BookTyped
<1>2. id \in DOMAIN orders /\ orders[id] \in Order /\ orders[id].side = side
  BY <1>1 DEF IndexedStored, BookTyped
<1>3. /\ DOMAIN orders' = DOMAIN orders \ {id}
      /\ \A x \in DOMAIN orders' : orders'[x] = orders[x]
      /\ orders' \in [DOMAIN orders' -> Order]
  <2>1. orders' = Drop(orders, id) /\ orders \in [DOMAIN orders -> Order]
    BY DEF RemoveLive, BookTyped
  <2> QED
    BY <2>1 DEF Drop
<1>4. /\ DOMAIN info' = DOMAIN info \ {id}
      /\ \A x \in DOMAIN info' : info'[x] = info[x]
      /\ info' \in [DOMAIN info' -> [side : Side, price : Prices]]
  <2>1. /\ info' = Drop(info, id)
        /\ info \in [DOMAIN info -> [side : Side, price : Prices]]
    BY DEF RemoveLive, BookTyped
  <2> QED
    BY <2>1, DropType DEF Drop
<1>5. /\ book' \in [Side -> SUBSET Entry]
      /\ book'[side] = book[side] \ Entries(book[side], id)
      /\ \A s \in Side \ {side} : book'[s] = book[s]
  BY <1>1 DEF RemoveLive, BookTyped
<1>6. \A s \in Side \ {side} : Entries(book[s], id) = {}
  BY <1>2 DEF QueuedStored, Entries
<1>7. \A s \in Side : book'[s] = book[s] \ Entries(book[s], id)
  BY <1>5, <1>6
<1>8. BookTyped'
  <2>1. level' \in [Side -> [Prices -> Int]]
    <3>1. level \in [Side -> [Prices -> Int]] /\ -Remaining(orders[id]) \in Int
      BY <1>2 DEF BookTyped, Remaining, Order
    <3> QED
      BY <1>1, <3>1, AdjustLevelType DEF RemoveLive
  <2>2. /\ nextSeq' = nextSeq /\ lastPrice' = lastPrice
        /\ DOMAIN orders' \subseteq OrderIds /\ DOMAIN info' \subseteq OrderIds
    BY <1>3, <1>4 DEF RemoveLive, BookTyped
  <2> QED
    BY <1>3, <1>4, <1>5, <2>1, <2>2 DEF BookTyped
<1>9. QueuedStored'
  <2>1. \A s \in Side : \A e \in book'[s] : e \in book[s] /\ e.id # id
    BY <1>7 DEF Entries
  <2> QED
    BY <2>1, <1>3, <1>4 DEF QueuedStored
<1>10. IndexedStored'
  BY <1>3, <1>4 DEF IndexedStored
<1>11. TurnsDistinct'
  <2>1. nextSeq' = nextSeq /\ \A s \in Side : book'[s] \subseteq book[s]
    BY <1>7 DEF RemoveLive
  <2> QED
    BY <2>1 DEF TurnsDistinct
<1> QED
  BY <1>2, <1>3, <1>7, <1>8, <1>9, <1>10, <1>11

(* A queued order is one that remove_order finds.                          *)
LEMMA QueuedLive ==
  ASSUME QueuedStored, IndexedStored, NEW id, Queued(id)
  PROVE  Live(id)
<1>1. PICK s \in Side : Entries(book[s], id) # {}
  BY DEF Queued
<1>2. id \in DOMAIN info /\ id \in DOMAIN orders /\ orders[id].side = s
  BY <1>1 DEF QueuedStored, Entries
<1> QED
  BY <1>1, <1>2 DEF Live, IndexedStored

(* remove_order, when it does not find the order.                          *)
LEMMA RemoveMissingKeeps ==
  ASSUME BookInv, NEW id, ~Live(id), RemoveMissing(id)
  PROVE  BookInv' /\ UNCHANGED <<book, orders>>
<1> USE DEF BookInv
<1>1. UNCHANGED <<book, orders, level, nextSeq, lastPrice>> /\ info' = Drop(info, id)
  BY DEF RemoveMissing
<1>2. /\ DOMAIN info' = DOMAIN info \ {id}
      /\ \A x \in DOMAIN info' : info'[x] = info[x]
      /\ info' \in [DOMAIN info' -> [side : Side, price : Prices]]
  <2>1. info \in [DOMAIN info -> [side : Side, price : Prices]]
    BY DEF BookTyped
  <2> QED
    BY <1>1, <2>1, DropType DEF Drop
<1>3. \A s \in Side : \A e \in book[s] : e.id # id
  BY QueuedLive DEF Queued, Entries
<1>4. BookTyped'
  BY <1>1, <1>2 DEF BookTyped
<1>5. QueuedStored'
  BY <1>1, <1>2, <1>3 DEF QueuedStored
<1>6. IndexedStored' /\ TurnsDistinct'
  BY <1>1, <1>2 DEF IndexedStored, TurnsDistinct
<1> QED
  BY <1>1, <1>4, <1>5, <1>6

(* pop_best_order: the order is stored and indexed, and no longer queued.  *)
LEMMA PopFacts ==
  ASSUME BookInv, taker \in Order, NEW e, Pop(e)
  PROVE  /\ Opposite(taker.side) \in Side
         /\ e \in book[Opposite(taker.side)]
         /\ e.id \in DOMAIN orders /\ e.id \in DOMAIN info
         /\ orders[e.id] \in Order
         /\ orders[e.id].side = Opposite(taker.side)
         /\ orders[e.id].price \in Prices
         /\ book' \in [Side -> SUBSET Entry]
         /\ \A s \in Side : \A f \in book'[s] : f \in book[s] /\ f.id # e.id
<1> USE DEF BookInv
<1> DEFINE side == Opposite(taker.side)
<1>1. side \in Side /\ e \in book[side] /\ e \in Entry
  BY DEF Pop, IsBest, Opposite, Side, BookTyped
<1>2. /\ e.id \in DOMAIN orders /\ e.id \in DOMAIN info
      /\ orders[e.id].side = side /\ orders[e.id].price = e.price
  BY <1>1 DEF QueuedStored
<1>3. orders[e.id] \in Order /\ e.price \in Prices
  BY <1>1, <1>2 DEF BookTyped, Entry
<1>4. /\ book' \in [Side -> SUBSET Entry]
      /\ book'[side] = book[side] \ {e}
      /\ \A s \in Side \ {side} : book'[s] = book[s]
  BY <1>1 DEF Pop, BookTyped
<1>5. ASSUME NEW s \in Side, NEW f \in book'[s]
      PROVE  f \in book[s] /\ f.id # e.id
  <2>1. CASE s = side
    BY <1>1, <1>4, <2>1 DEF TurnsDistinct
  <2>2. CASE s # side
    BY <1>2, <1>4, <2>2 DEF QueuedStored
  <2> QED
    BY <2>1, <2>2
<1> QED
  BY <1>1, <1>2, <1>3, <1>4, <1>5

(* Losing queue entries disturbs nothing else.                             *)
LEMMA FewerQueuedKeeps ==
  ASSUME BookInv, book' \in [Side -> SUBSET Entry],
         \A s \in Side : book'[s] \subseteq book[s],
         UNCHANGED <<orders, info, level, nextSeq, lastPrice>>
  PROVE  BookInv'
<1> USE DEF BookInv
<1>1. BookTyped'
  BY DEF BookTyped
<1>2. QueuedStored'
  BY DEF QueuedStored
<1>3. IndexedStored' /\ TurnsDistinct'
  BY DEF IndexedStored, TurnsDistinct
<1> QED
  BY <1>1, <1>2, <1>3

(* match_orders: what it takes from both orders, and the price.            *)
LEMMA MatchTypes ==
  ASSUME NEW buy \in Order, NEW sell \in Order,
         lastPrice \in Prices \cup {NoPrice, 0}
  PROVE  /\ Remaining(buy) \in Int /\ Remaining(sell) \in Int
         /\ MatchQty(buy, sell) \in Int
         /\ MatchQty(buy, sell) \in {Remaining(buy), Remaining(sell)}
         /\ MatchQty(buy, sell) <= Remaining(buy)
         /\ MatchPrice(buy, sell, lastPrice) \in Prices \cup {0}
<1>1. Remaining(buy) \in Int /\ Remaining(sell) \in Int
  BY DEF Order, Remaining
<1>2. /\ MatchQty(buy, sell) \in {Remaining(buy), Remaining(sell)}
      /\ MatchQty(buy, sell) <= Remaining(buy)
  BY <1>1 DEF MatchQty
<1>3. MatchPrice(buy, sell, lastPrice) \in Prices \cup {0}
  <2>1. /\ buy.price \in Prices \cup {NoPrice}
        /\ sell.price \in Prices \cup {NoPrice}
    BY DEF Order
  <2> QED
    BY <2>1 DEF MatchPrice
<1> QED
  BY <1>1, <1>2, <1>3

(* The updated copy of a resting order.                                    *)
LEMMA FilledFacts ==
  ASSUME NEW o \in Order, NEW qty \in Int
  PROVE  /\ Filled(o, qty) \in Order
         /\ SameTerms(Filled(o, qty), o)
         /\ Filled(o, qty).filled = o.filled + qty
<1>1. o.filled + qty \in Int
  BY DEF Order
<1>2. (IF o.filled + qty = o.qty THEN "Filled" ELSE "PartiallyFilled") \in OrderStatus
  BY DEF OrderStatus
<1> QED
  BY <1>1, <1>2 DEF Filled, Order, SameTerms

(* One iteration of the matching loop that trades.                         *)
LEMMA FillKeeps ==
  ASSUME BookInv, taker \in Order, NEW e, FillNext(e)
  PROVE  /\ BookInv'
         /\ DOMAIN orders' = DOMAIN orders
         /\ orders'[e.id] = Filled(orders[e.id], MatchQty(taker, orders[e.id]))
         /\ \A x \in DOMAIN orders \ {e.id} : orders'[x] = orders[x]
         /\ \A x \in DOMAIN info \ {e.id} : x \in DOMAIN info'
         /\ orders'[e.id].filled # orders'[e.id].qty => e.id \in DOMAIN info'
<1> USE DEF BookInv
<1> DEFINE resting == orders[e.id]
           qty == MatchQty(taker, resting)
           updated == Filled(resting, qty)
           full == updated.filled = updated.qty
<1>1. Pop(e)
  BY DEF FillNext
<1>2. /\ e.id \in DOMAIN orders /\ e.id \in DOMAIN info
      /\ resting \in Order /\ resting.side \in Side /\ resting.price \in Prices
      /\ book' \in [Side -> SUBSET Entry]
      /\ \A s \in Side : \A f \in book'[s] : f \in book[s] /\ f.id # e.id
  BY <1>1, PopFacts
<1>3. qty \in Int /\ MatchPrice(taker, resting, lastPrice) \in Prices \cup {0}
  BY <1>2, MatchTypes DEF BookTyped
<1>4. /\ updated \in Order
      /\ updated.side = resting.side /\ updated.price = resting.price
  BY <1>2, <1>3, FilledFacts DEF SameTerms
<1>5. /\ orders' = [orders EXCEPT ![e.id] = updated]
      /\ info' = IF full THEN Drop(info, e.id) ELSE info
      /\ level' = AdjustLevel(resting.side, resting.price, -qty)
      /\ lastPrice' = MatchPrice(taker, resting, lastPrice)
      /\ nextSeq' = nextSeq
  BY DEF FillNext
<1>6. /\ DOMAIN orders' = DOMAIN orders
      /\ orders'[e.id] = updated
      /\ \A x \in DOMAIN orders \ {e.id} : orders'[x] = orders[x]
      /\ orders' \in [DOMAIN orders' -> Order]
  BY <1>2, <1>4, <1>5 DEF BookTyped
<1>7. /\ DOMAIN info' \subseteq DOMAIN info
      /\ \A x \in DOMAIN info \ {e.id} : x \in DOMAIN info'
      /\ ~full => e.id \in DOMAIN info'
      /\ \A x \in DOMAIN info' : info'[x] = info[x]
      /\ info' \in [DOMAIN info' -> [side : Side, price : Prices]]
  <2>1. info \in [DOMAIN info -> [side : Side, price : Prices]]
    BY DEF BookTyped
  <2>2. CASE full
    BY <1>5, <2>1, <2>2, DropType DEF Drop
  <2>3. CASE ~full
    BY <1>2, <1>5, <2>1, <2>3
  <2> QED
    BY <2>2, <2>3
<1>8. BookTyped'
  <2>1. level' \in [Side -> [Prices -> Int]]
    <3>1. level \in [Side -> [Prices -> Int]] /\ -qty \in Int
      BY <1>3 DEF BookTyped
    <3> QED
      BY <1>2, <1>5, <3>1, AdjustLevelType
  <2>2. /\ nextSeq' \in Nat /\ lastPrice' \in Prices \cup {NoPrice, 0}
        /\ DOMAIN orders' \subseteq OrderIds /\ DOMAIN info' \subseteq OrderIds
    BY <1>3, <1>5, <1>6, <1>7 DEF BookTyped
  <2> QED
    BY <1>2, <1>6, <1>7, <2>1, <2>2 DEF BookTyped
<1>9. QueuedStored'
  BY <1>2, <1>6, <1>7 DEF QueuedStored
<1>10. IndexedStored'
  <2> SUFFICES ASSUME NEW id \in DOMAIN info'
               PROVE  /\ id \in DOMAIN orders'
                      /\ info'[id] = [side |-> orders'[id].side, price |-> orders'[id].price]
    BY DEF IndexedStored
  <2>1. id \in DOMAIN orders /\ info'[id] = [side |-> orders[id].side, price |-> orders[id].price]
    BY <1>7 DEF IndexedStored
  <2> QED
    BY <1>4, <1>6, <2>1
<1>11. TurnsDistinct'
  BY <1>2, <1>5 DEF TurnsDistinct
<1> QED
  BY <1>6, <1>7, <1>8, <1>9, <1>10, <1>11

(* The reinsertion of a partially filled order.                            *)
LEMMA ReinsertKeeps ==
  ASSUME BookInv, Reinsert,
         partial # NoOrder => partial \in DOMAIN info /\ ~Queued(partial),
         UNCHANGED <<orders, info, level, lastPrice>>
  PROVE  /\ BookInv'
         /\ \A s \in Side : \A f \in book'[s] :
              f \in book[s] \/ (partial # NoOrder /\ f.id = partial)
<1> USE DEF BookInv
<1>1. CASE partial = NoOrder
  <2>1. UNCHANGED <<book, nextSeq>>
    BY <1>1 DEF Reinsert
  <2> QED
    BY <2>1, FewerQueuedKeeps DEF BookTyped
<1>2. CASE partial # NoOrder
  <2> DEFINE side == info[partial].side
             e == [id |-> partial, price |-> info[partial].price, seq |-> nextSeq]
  <2>1. /\ partial \in DOMAIN info /\ side \in Side /\ info[partial].price \in Prices
        /\ partial \in OrderIds /\ nextSeq \in Nat
    BY <1>2 DEF BookTyped
  <2>2. /\ partial \in DOMAIN orders
        /\ orders[partial].side = side /\ orders[partial].price = info[partial].price
    BY <2>1 DEF IndexedStored
  <2>3. \A s \in Side : \A f \in book[s] : f.id # partial
    BY <1>2 DEF Queued, Entries
  <2>4. e \in Entry
    BY <2>1 DEF Entry
  <2>5. /\ book' \in [Side -> SUBSET Entry]
        /\ book'[side] = book[side] \cup {e}
        /\ \A s \in Side \ {side} : book'[s] = book[s]
        /\ nextSeq' = nextSeq + 1
    BY <1>2, <2>1, <2>3, <2>4 DEF Reinsert, Push, BookTyped
  <2>6. \A s \in Side : \A f \in book'[s] : f \in book[s] \/ (s = side /\ f = e)
    BY <2>1, <2>5
  <2>7. BookTyped'
    BY <2>1, <2>5 DEF BookTyped
  <2>8. QueuedStored'
    BY <2>1, <2>2, <2>6 DEF QueuedStored
  <2>9. IndexedStored'
    BY DEF IndexedStored
  <2>10. TurnsDistinct'
    <3>1. \A s \in Side : \A h \in book[s] : h.seq \in Nat /\ h.seq < nextSeq
      BY DEF TurnsDistinct, BookTyped, Entry
    <3> QED
      BY <2>1, <2>3, <2>5, <2>6, <3>1 DEF TurnsDistinct
  <2> QED
    BY <1>2, <2>6, <2>7, <2>8, <2>9, <2>10
<1> QED
  BY <1>1, <1>2

-----------------------------------------------------------------------------
(*                        The actions                                      *)

(* The part of the types that is not about the book.                       *)
TaskTyped ==
  /\ pc \in {"recv", "match", "rest", "expire"}
  /\ taker \in Order \cup {NoOrder}
  /\ partial \in OrderIds \cup {NoOrder}
  /\ expired \subseteq DOMAIN orders
  /\ outbox \in Seq(Message)
  /\ DOMAIN submitted \subseteq OrderIds
  /\ submitted \in [DOMAIN submitted -> Order]
  /\ cancels \in 0..MaxCancels

LEMMA InvParts ==
  /\ Inv <=> BookInv /\ TaskTyped /\ StoredSubmitted /\ HandlerState
  /\ Inv' <=> BookInv' /\ TaskTyped' /\ StoredSubmitted' /\ HandlerState'
<1>1. Inv <=> BookInv /\ TaskTyped /\ StoredSubmitted /\ HandlerState
  BY DEF Inv, TypeOK, BookConsistent, BookInv, BookTyped, TaskTyped
<1>2. Inv' <=> BookInv' /\ TaskTyped' /\ StoredSubmitted' /\ HandlerState'
  BY DEF Inv, TypeOK, BookConsistent, BookInv, BookTyped, TaskTyped
<1> QED
  BY <1>1, <1>2

LEMMA BookUnchanged ==
  ASSUME BookInv, UNCHANGED bookVars
  PROVE  BookInv'
<1>1. UNCHANGED <<book, orders, info, level, nextSeq, lastPrice>>
  BY DEF bookVars
<1> QED
  BY <1>1, FewerQueuedKeeps DEF BookInv, BookTyped

(* Between two messages the task holds nothing.                            *)
LEMMA IdleFacts ==
  ASSUME Inv, Idle
  PROVE  pc = "recv" /\ taker = NoOrder /\ partial = NoOrder /\ expired = {}
  BY InvParts DEF Idle, HandlerState

(* The conversion of a triggered stop order.                               *)
LEMMA EffectiveFacts ==
  ASSUME NEW o \in Order, Valid(o)
  PROVE  /\ Effective(o) \in Order
         /\ SameTerms(Effective(o), o)
         /\ Effective(o).filled = o.filled
         /\ Effective(o).type \in {"Market", "Limit"}
         /\ Effective(o).type = "Limit" => o.price # NoPrice
<1> DEFINE type == CASE o.type = "StopLoss"  -> "Market"
                     [] o.type = "StopLimit" -> "Limit"
                     [] OTHER                -> o.type
<1>1. o.type \in OrderType
  BY DEF Order
<1>2. /\ type \in {"Market", "Limit"}
      /\ type = "Limit" => o.type \in {"Limit", "StopLimit"}
  BY <1>1 DEF OrderType
<1>3. Effective(o) = [o EXCEPT !.type = type]
  BY DEF Effective
<1>4. type \in OrderType
  BY <1>2 DEF OrderType
<1> QED
  BY <1>2, <1>3, <1>4 DEF Order, SameTerms, Valid

(* SubmitOrder is taken from the channel.                                  *)
LEMMA ReceiveFacts ==
  ASSUME Inv, NEW o \in Submissions, Receive(o)
  PROVE  /\ o \in Order /\ o.id \in OrderIds /\ o.filled = 0
         /\ o.id \notin DOMAIN submitted /\ o.id \notin DOMAIN orders
         /\ DOMAIN submitted' = DOMAIN submitted \cup {o.id}
         /\ submitted'[o.id] = o
         /\ \A id \in DOMAIN submitted : submitted'[id] = submitted[id]
         /\ submitted' \in [DOMAIN submitted' -> Order]
         /\ DOMAIN submitted' \subseteq OrderIds
         /\ cancels' \in 0..MaxCancels
         /\ pc = "recv" /\ taker = NoOrder /\ partial = NoOrder /\ expired = {}
         /\ \A id \in DOMAIN orders :
              id \in DOMAIN submitted' /\ SameTerms(orders[id], submitted'[id])
<1>1. o \in Order /\ o.id \in OrderIds /\ o.filled = 0
  BY OrderBookAssumption DEF Order
<1>2. Idle /\ o.id \notin DOMAIN submitted /\ cancels' = cancels
  BY DEF Receive
<1>3. /\ submitted' = Put(submitted, o.id, o)
      /\ submitted \in [DOMAIN submitted -> Order]
      /\ DOMAIN submitted \subseteq OrderIds /\ cancels \in 0..MaxCancels
  BY InvParts DEF Receive, TaskTyped
<1>4. submitted' \in [DOMAIN submitted' -> Order]
  BY <1>1, <1>3, PutType
<1>5. /\ DOMAIN submitted' = DOMAIN submitted \cup {o.id}
      /\ submitted'[o.id] = o
      /\ \A id \in DOMAIN submitted : submitted'[id] = submitted[id]
  BY <1>2, <1>3 DEF Put
<1>6. \A id \in DOMAIN orders :
        id \in DOMAIN submitted /\ SameTerms(orders[id], submitted[id])
  BY InvParts DEF StoredSubmitted
<1> QED
  BY <1>1, <1>2, <1>3, <1>4, <1>5, <1>6, IdleFacts

(* An order that is answered and leaves no trace in the book.              *)
LEMMA AnswerKeeps ==
  ASSUME Inv, NEW o \in Submissions, Receive(o),
         NEW msgs \in Seq(Message), Send(msgs), UNCHANGED <<bookVars, taskVars>>
  PROVE  Inv'
<1>1. BookInv'
  BY InvParts, BookUnchanged
<1>2. UNCHANGED <<orders, info, book, pc, taker, partial, expired>>
  BY DEF bookVars, taskVars
<1>3. TaskTyped'
  <2>1. outbox' \in Seq(Message)
    BY InvParts, SendFacts DEF TaskTyped
  <2> QED
    BY <1>2, <2>1, InvParts, ReceiveFacts DEF TaskTyped
<1>4. StoredSubmitted'
  BY <1>2, ReceiveFacts DEF StoredSubmitted
<1>5. HandlerState'
  BY <1>2, InvParts, ReceiveFacts DEF HandlerState
<1> QED
  BY <1>1, <1>3, <1>4, <1>5, InvParts

LEMMA RefuseInvalidKeeps ==
  ASSUME Inv, NEW o \in Submissions, RefuseInvalid(o)
  PROVE  Inv'
<1> DEFINE msgs == <<Update(o.id, "Rejected", 0)>>
<1>1. Receive(o) /\ o.id \in OrderIds
  BY ReceiveFacts DEF RefuseInvalid
<1>2. msgs \in Seq(Message)
  <2>1. Update(o.id, "Rejected", 0) \in Message
    BY <1>1, MessageTypes DEF OrderStatus
  <2> QED
    BY <2>1
<1>3. Send(msgs) /\ UNCHANGED <<bookVars, taskVars>>
  BY DEF RefuseInvalid
<1> HIDE DEF msgs
<1> QED
  BY <1>1, <1>2, <1>3, AnswerKeeps

LEMMA ParkStopKeeps ==
  ASSUME Inv, NEW o \in Submissions, ParkStop(o)
  PROVE  Inv'
<1> DEFINE msgs == <<Update(o.id, "New", 0)>>
<1>1. Receive(o) /\ o.id \in OrderIds
  BY ReceiveFacts DEF ParkStop
<1>2. msgs \in Seq(Message)
  <2>1. Update(o.id, "New", 0) \in Message
    BY <1>1, MessageTypes DEF OrderStatus
  <2> QED
    BY <2>1
<1>3. Send(msgs) /\ UNCHANGED <<bookVars, taskVars>>
  BY DEF ParkStop
<1> HIDE DEF msgs
<1> QED
  BY <1>1, <1>2, <1>3, AnswerKeeps

LEMMA RejectUnfillableKeeps ==
  ASSUME Inv, NEW o \in Submissions, RejectUnfillable(o)
  PROVE  Inv'
<1> DEFINE msgs == <<Update(o.id, "Rejected", 0), Update(o.id, "Rejected", 0)>>
<1>1. Receive(o) /\ o.id \in OrderIds
  BY ReceiveFacts DEF RejectUnfillable
<1>2. msgs \in Seq(Message)
  <2>1. Update(o.id, "Rejected", 0) \in Message
    BY <1>1, MessageTypes DEF OrderStatus
  <2> QED
    BY <2>1
<1>3. Send(msgs) /\ UNCHANGED <<bookVars, taskVars>>
  BY DEF RejectUnfillable
<1> HIDE DEF msgs
<1> QED
  BY <1>1, <1>2, <1>3, AnswerKeeps

LEMMA DropLimitKeeps ==
  ASSUME Inv, NEW o \in Submissions, DropLimit(o)
  PROVE  Inv'
<1> DEFINE status == IF o.tif = "IOC" THEN "Canceled" ELSE "Rejected"
           msgs == <<Update(o.id, status, 0)>>
<1>1. Receive(o) /\ o.id \in OrderIds
  BY ReceiveFacts DEF DropLimit
<1>2. msgs \in Seq(Message)
  <2>1. Update(o.id, status, 0) \in Message
    BY <1>1, MessageTypes DEF OrderStatus
  <2> QED
    BY <2>1
<1>3. Send(msgs) /\ UNCHANGED <<bookVars, taskVars>>
  BY DEF DropLimit
<1> HIDE DEF msgs
<1> QED
  BY <1>1, <1>2, <1>3, AnswerKeeps

LEMMA RestLimitKeeps ==
  ASSUME Inv, NEW o \in Submissions, RestLimit(o)
  PROVE  Inv'
<1> DEFINE p == Effective(o)
<1>1. Receive(o) /\ Valid(o) /\ ~Marketable(o) /\ AddLimit(p)
  BY DEF RestLimit
<1>2. o \in Order /\ o.id \notin DOMAIN orders
  BY <1>1, ReceiveFacts
<1>3. p \in Order /\ SameTerms(p, o) /\ p.price # NoPrice
  BY <1>1, <1>2, EffectiveFacts DEF Marketable, SameTerms
<1>4. /\ BookInv'
      /\ DOMAIN orders' = DOMAIN orders \cup {o.id}
      /\ orders'[o.id] = [p EXCEPT !.status = "New"]
      /\ \A x \in DOMAIN orders : orders'[x] = orders[x]
  <2>1. p.id = o.id
    BY <1>3 DEF SameTerms
  <2> QED
    BY <1>1, <1>2, <1>3, <2>1, AddLimitKeeps, InvParts
<1>5. UNCHANGED <<pc, taker, partial, expired, outbox>>
  BY DEF RestLimit, taskVars
<1>6. TaskTyped'
  BY <1>1, <1>4, <1>5, InvParts, ReceiveFacts DEF TaskTyped
<1>7. StoredSubmitted'
  <2>1. SameTerms([p EXCEPT !.status = "New"], o)
    BY <1>3 DEF SameTerms, Order
  <2> QED
    <3>1. SameTerms(orders'[o.id], submitted'[o.id])
      BY <1>1, <1>4, <2>1, ReceiveFacts
    <3>2. \A id \in DOMAIN orders :
            id \in DOMAIN submitted' /\ SameTerms(orders[id], submitted'[id])
      BY <1>1, ReceiveFacts
    <3>3. o.id \in DOMAIN submitted'
      BY <1>1, ReceiveFacts, ZenonT(40)
    <3>4. \A id \in DOMAIN orders' :
            id \in DOMAIN submitted' /\ SameTerms(orders'[id], submitted'[id])
      BY <1>4, <3>1, <3>2, <3>3
    <3>5. pc' = "recv"
      BY <1>1, <1>5, ReceiveFacts
    <3> QED
      BY <3>4, <3>5 DEF StoredSubmitted
<1>8. HandlerState'
  BY <1>1, <1>5, InvParts, ReceiveFacts DEF HandlerState
<1> QED
  BY <1>4, <1>6, <1>7, <1>8, InvParts

LEMMA StartMatchingKeeps ==
  ASSUME Inv, NEW o \in Submissions, StartMatching(o)
  PROVE  Inv'
<1>1. Receive(o) /\ Valid(o) /\ pc' = "match" /\ taker' = Effective(o)
  BY DEF StartMatching
<1>2. UNCHANGED <<bookVars, orders, partial, expired, outbox>>
  BY DEF StartMatching, bookVars
<1>3. /\ Effective(o) \in Order /\ SameTerms(Effective(o), o)
      /\ Effective(o).type \in {"Market", "Limit"}
      /\ Effective(o).type = "Limit" => Effective(o).price # NoPrice
  <2>1. o \in Order
    BY <1>1, ReceiveFacts
  <2>2. /\ Effective(o) \in Order /\ SameTerms(Effective(o), o)
        /\ Effective(o).type \in {"Market", "Limit"}
        /\ Effective(o).type = "Limit" => o.price # NoPrice
    BY <1>1, <2>1, EffectiveFacts
  <2>3. Effective(o).price = o.price
    BY <2>2 DEF SameTerms
  <2> QED
    BY <2>2, <2>3
<1>4. BookInv'
  BY <1>2, InvParts, BookUnchanged
<1>5. TaskTyped'
  BY <1>1, <1>2, <1>3, InvParts, ReceiveFacts DEF TaskTyped
<1>6. StoredSubmitted'
  <2>1. taker' # NoOrder
    BY <1>1, <1>3, OrderBookAssumption
  <2>2. taker'.id = o.id /\ SameTerms(taker', o)
    BY <1>1, <1>3 DEF SameTerms
  <2>3. o.id \in DOMAIN submitted' \ DOMAIN orders /\ submitted'[o.id] = o
    <3>1. Receive(o)
      BY <1>1
    <3>2. DOMAIN submitted' = DOMAIN submitted \cup {o.id} /\ submitted'[o.id] = o
      BY <3>1, ReceiveFacts
    <3>3. o.id \notin DOMAIN orders
      BY <3>1, ReceiveFacts
    <3> QED
      BY <3>2, <3>3
  <2>4. \A id \in DOMAIN orders :
          id \in DOMAIN submitted' /\ SameTerms(orders[id], submitted'[id])
    BY <1>1, ReceiveFacts
  <2> QED
    BY <1>2, <2>1, <2>2, <2>3, <2>4 DEF StoredSubmitted
<1>7. HandlerState'
  <2>1. taker' # NoOrder
    BY <1>1, <1>3, OrderBookAssumption
  <2> QED
    BY <1>1, <1>2, <1>3, <2>1, ReceiveFacts DEF HandlerState
<1> QED
  BY <1>4, <1>5, <1>6, <1>7, InvParts

(* What the handler holds while it matches.                                *)
LEMMA TakerFacts ==
  ASSUME Inv, pc \in {"match", "rest"}
  PROVE  /\ taker \in Order /\ taker # NoOrder /\ taker.id \in OrderIds
         /\ taker.id \in DOMAIN submitted /\ taker.id \notin DOMAIN orders
         /\ SameTerms(taker, submitted[taker.id])
         /\ expired = {}
<1>1. taker \in Order \cup {NoOrder}
  BY InvParts DEF TaskTyped
<1>2. /\ taker # NoOrder
      /\ taker.id \in DOMAIN submitted /\ taker.id \notin DOMAIN orders
      /\ SameTerms(taker, submitted[taker.id])
  BY InvParts DEF StoredSubmitted
<1>3. expired = {}
  BY InvParts DEF HandlerState
<1> QED
  BY <1>1, <1>2, <1>3 DEF Order

LEMMA FillNextKeeps ==
  ASSUME Inv, NEW e, FillNext(e)
  PROVE  Inv'
<1> DEFINE resting == orders[e.id]
           qty == MatchQty(taker, resting)
           updated == Filled(resting, qty)
           price == MatchPrice(taker, resting, lastPrice)
<1>1. /\ pc = "match" /\ pc' = "match"
      /\ Pop(e) /\ Remaining(taker) > 0
      /\ UNCHANGED <<expired, submitted, cancels>>
      /\ taker' = [taker EXCEPT !.filled = @ + qty]
      /\ partial' = IF updated.filled = updated.qty THEN partial ELSE e.id
      /\ Send(<<Trade(taker.id, e.id, price, qty),
                Update(e.id, updated.status, updated.filled)>>)
  BY DEF FillNext, Pop, inputVars
<1>2. BookInv /\ taker \in Order /\ taker.id \in OrderIds
  BY <1>1, InvParts, TakerFacts
<1>3. /\ taker.side \in Side
      /\ e.id \in DOMAIN orders /\ e.id \in DOMAIN info /\ e.id \in OrderIds
      /\ resting \in Order
      /\ \A s \in Side : \A f \in book'[s] : f \in book[s] /\ f.id # e.id
  BY <1>1, <1>2, PopFacts DEF Order, BookInv, BookTyped
<1>4. /\ BookInv'
      /\ DOMAIN orders' = DOMAIN orders
      /\ orders'[e.id] = updated
      /\ \A x \in DOMAIN orders \ {e.id} : orders'[x] = orders[x]
      /\ orders'[e.id].filled # orders'[e.id].qty => e.id \in DOMAIN info'
  BY <1>2, FillKeeps
<1>5. /\ qty \in Int /\ price \in Prices \cup {0}
      /\ qty \in {Remaining(taker), Remaining(resting)}
      /\ Remaining(taker) \in Int
  BY <1>2, <1>3, MatchTypes DEF BookInv, BookTyped
<1>6. updated \in Order /\ SameTerms(updated, resting) /\ updated.filled = resting.filled + qty
  BY <1>3, <1>5, FilledFacts
<1>7. taker' \in Order /\ SameTerms(taker', taker) /\ taker'.type = taker.type
      /\ Remaining(taker') = Remaining(taker) - qty
  <2>1. taker.filled + qty \in Int /\ taker.filled \in Int /\ taker.qty \in Int
    BY <1>2, <1>5 DEF Order
  <2> QED
    BY <1>1, <1>2, <1>5, <2>1 DEF Order, SameTerms, Remaining
<1>8. TaskTyped'
  <2>1. outbox' \in Seq(Message)
    <3> DEFINE trade == Trade(taker.id, e.id, price, qty)
               update == Update(e.id, updated.status, updated.filled)
               msgs == <<trade, update>>
    <3>1. trade \in Message
      BY <1>2, <1>3, <1>5, MessageTypes
    <3>2. update \in Message
      <4>1. updated.status \in OrderStatus /\ updated.filled \in Int
        BY <1>6 DEF Order
      <4> QED
        BY <1>3, <4>1, MessageTypes
    <3>3. msgs \in Seq(Message) /\ Send(msgs) /\ outbox \in Seq(Message)
      BY <1>1, <3>1, <3>2, InvParts DEF TaskTyped
    <3> HIDE DEF msgs
    <3> QED
      BY <3>3, SendFacts
  <2>2. partial' \in OrderIds \cup {NoOrder}
    BY <1>1, <1>3, InvParts DEF TaskTyped
  <2> QED
    BY <1>1, <1>4, <1>7, <2>1, <2>2, InvParts DEF TaskTyped
<1>9. StoredSubmitted'
  <2>1. \A id \in DOMAIN orders :
          id \in DOMAIN submitted /\ SameTerms(orders[id], submitted[id])
    BY InvParts DEF StoredSubmitted
  <2>2. SameTerms(updated, submitted[e.id])
    BY <1>3, <1>6, <2>1 DEF SameTerms
  <2>3. \A id \in DOMAIN orders' :
          id \in DOMAIN submitted' /\ SameTerms(orders'[id], submitted'[id])
    BY <1>1, <1>3, <1>4, <2>1, <2>2
  <2>4. /\ taker'.id = taker.id /\ taker' # NoOrder
        /\ SameTerms(taker', submitted'[taker'.id])
    <3>1. SameTerms(taker, submitted[taker.id])
      BY <1>1, TakerFacts
    <3>2. taker' # NoOrder
      BY <1>7, OrderBookAssumption
    <3> QED
      BY <1>1, <1>7, <3>1, <3>2 DEF SameTerms
  <2>5. taker.id \in DOMAIN submitted /\ taker.id \notin DOMAIN orders
    BY <1>1, TakerFacts
  <2> QED
    BY <1>1, <1>4, <2>3, <2>4, <2>5 DEF StoredSubmitted
<1>10. HandlerState'
  <2>1. partial = NoOrder
    BY <1>1, <1>5, InvParts DEF HandlerState
  <2>2. partial' # NoOrder =>
          Remaining(taker') = 0 /\ partial' \in DOMAIN info' /\ ~Queued(partial)'
    <3> SUFFICES ASSUME partial' # NoOrder
                 PROVE  Remaining(taker') = 0 /\ partial' \in DOMAIN info' /\ ~Queued(partial)'
      OBVIOUS
    <3>1. partial' = e.id /\ updated.filled # updated.qty
      BY <1>1, <2>1
    <3>2. qty # Remaining(resting)
      <4>1. resting.qty \in Int /\ resting.filled \in Int /\ updated.qty = resting.qty
        BY <1>3, <1>6 DEF Order, SameTerms
      <4> QED
        BY <1>5, <1>6, <3>1, <4>1 DEF Remaining
    <3>3. Remaining(taker') = 0
      BY <1>5, <1>7, <3>2
    <3> QED
      BY <1>3, <1>4, <3>1, <3>3 DEF Queued, Entries
  <2>3. taker' # NoOrder
    BY <1>7, OrderBookAssumption
  <2>4. /\ taker.type \in {"Market", "Limit"} /\ expired = {}
        /\ taker.type = "Limit" => taker.price # NoPrice
    BY <1>1, InvParts, TakerFacts DEF HandlerState
  <2>5. taker'.price = taker.price
    BY <1>7 DEF SameTerms
  <2> QED
    BY <1>1, <1>7, <2>2, <2>3, <2>4, <2>5 DEF HandlerState
<1> QED
  BY <1>4, <1>8, <1>9, <1>10, InvParts

(* A handler that ends with the book's orders where they were.             *)
LEMMA DoneKeeps ==
  ASSUME Inv, Done, BookInv', DOMAIN orders' = DOMAIN orders,
         \A id \in DOMAIN orders : orders'[id] = orders[id],
         UNCHANGED inputVars, outbox' \in Seq(Message)
  PROVE  Inv'
<1>1. UNCHANGED <<submitted, cancels>>
  BY DEF inputVars
<1>2. TaskTyped'
  BY <1>1, InvParts DEF Done, TaskTyped
<1>3. StoredSubmitted'
  BY <1>1, InvParts DEF Done, StoredSubmitted
<1>4. HandlerState'
  BY DEF Done, HandlerState
<1> QED
  BY <1>2, <1>3, <1>4, InvParts

LEMMA FailNextKeeps ==
  ASSUME Inv, NEW e, FailNext(e)
  PROVE  Inv'
<1> DEFINE msgs == <<Update(taker.id, "Rejected", 0)>>
<1>1. /\ Pop(e) /\ pc = "match" /\ Done /\ Send(msgs)
      /\ UNCHANGED <<orders, info, level, nextSeq, lastPrice, inputVars>>
  BY DEF FailNext, Pop
<1>2. BookInv /\ taker \in Order /\ taker.id \in OrderIds /\ outbox \in Seq(Message)
  BY <1>1, InvParts, TakerFacts DEF TaskTyped
<1>3. BookInv'
  <2>1. /\ book' \in [Side -> SUBSET Entry]
        /\ \A s \in Side : book'[s] \subseteq book[s]
    BY <1>1, <1>2, PopFacts
  <2> QED
    BY <1>1, <1>2, <2>1, FewerQueuedKeeps
<1>4. msgs \in Seq(Message)
  BY <1>2, MessageTypes DEF OrderStatus
<1> HIDE DEF msgs
<1>5. outbox' \in Seq(Message)
  BY <1>1, <1>2, <1>4, SendFacts
<1> QED
  BY <1>1, <1>3, <1>5, DoneKeeps

LEMMA FinishMarketKeeps ==
  ASSUME Inv, FinishMarket
  PROVE  Inv'
<1> DEFINE msgs == <<Update(taker.id, FinalStatus(taker), taker.filled)>>
           rests == taker.type = "Limit" /\ 0 < taker.qty
<1>1. /\ pc = "match" /\ Reinsert /\ Send(msgs)
      /\ rests => pc' = "rest" /\ partial' = NoOrder /\ UNCHANGED <<taker, expired>>
      /\ ~rests => Done
      /\ UNCHANGED <<orders, info, level, lastPrice, inputVars>>
  BY DEF FinishMarket, LoopOver
<1>2. /\ BookInv /\ taker \in Order /\ taker # NoOrder /\ taker.id \in OrderIds
      /\ outbox \in Seq(Message) /\ expired = {}
  BY <1>1, InvParts, TakerFacts DEF TaskTyped
<1>3. BookInv'
  <2>1. partial # NoOrder => partial \in DOMAIN info /\ ~Queued(partial)
    BY InvParts DEF HandlerState
  <2> QED
    BY <1>1, <1>2, <2>1, ReinsertKeeps
<1>4. msgs \in Seq(Message)
  <2>1. FinalStatus(taker) \in OrderStatus
    BY DEF FinalStatus, OrderStatus
  <2>2. taker.filled \in Int
    BY <1>2 DEF Order
  <2> QED
    BY <1>2, <2>1, <2>2, MessageTypes
<1> HIDE DEF msgs
<1>5. outbox' \in Seq(Message)
  BY <1>1, <1>2, <1>4, SendFacts
<1>6. CASE ~rests
  BY <1>1, <1>3, <1>5, <1>6, DoneKeeps
<1>7. CASE rests
  <2>1. UNCHANGED <<submitted, cancels>>
    BY <1>1 DEF inputVars
  <2>2. TaskTyped'
    BY <1>1, <1>2, <1>5, <1>7, <2>1, InvParts DEF TaskTyped
  <2>3. StoredSubmitted'
    BY <1>1, <1>7, <2>1, InvParts DEF StoredSubmitted
  <2>4. HandlerState'
    <3>1. taker.type = "Limit" => taker.price # NoPrice
      BY <1>2, InvParts DEF HandlerState
    <3> QED
      BY <1>1, <1>2, <1>7, <3>1 DEF HandlerState
  <2> QED
    BY <1>3, <2>2, <2>3, <2>4, InvParts
<1> QED
  BY <1>6, <1>7

LEMMA CancelRemainderKeeps ==
  ASSUME Inv, CancelRemainder
  PROVE  Inv'
<1> DEFINE msgs == <<Update(taker.id, "Canceled", 0)>>
<1>1. pc = "rest" /\ Done /\ Send(msgs) /\ UNCHANGED <<bookVars, inputVars>>
  BY DEF CancelRemainder
<1>2. BookInv' /\ UNCHANGED orders
  BY <1>1, InvParts, BookUnchanged DEF bookVars
<1>3. msgs \in Seq(Message) /\ outbox \in Seq(Message)
  BY <1>1, InvParts, TakerFacts, MessageTypes DEF OrderStatus, TaskTyped
<1> HIDE DEF msgs
<1>4. outbox' \in Seq(Message)
  BY <1>1, <1>3, SendFacts
<1> QED
  BY <1>1, <1>2, <1>4, DoneKeeps

LEMMA RestRemainderKeeps ==
  ASSUME Inv, RestRemainder
  PROVE  Inv'
<1> DEFINE o == Original(taker)
<1>1. pc = "rest" /\ Done /\ AddLimit(o) /\ UNCHANGED <<outbox, submitted, cancels>>
  BY DEF RestRemainder, inputVars
<1>2. /\ taker \in Order
      /\ taker.id \in DOMAIN submitted /\ taker.id \notin DOMAIN orders
      /\ SameTerms(taker, submitted[taker.id])
  BY <1>1, TakerFacts
<1>3. o \in Order /\ SameTerms(o, taker)
  BY <1>2 DEF Original, Order, SameTerms
<1>4. o.id = taker.id /\ o.price # NoPrice
  BY <1>1, <1>3, InvParts, TakerFacts DEF SameTerms, HandlerState
<1>5. /\ BookInv'
      /\ DOMAIN orders' = DOMAIN orders \cup {taker.id}
      /\ orders'[taker.id] = [o EXCEPT !.status = "New"]
      /\ \A x \in DOMAIN orders : orders'[x] = orders[x]
  BY <1>1, <1>2, <1>3, <1>4, InvParts, AddLimitKeeps
<1>6. TaskTyped'
  BY <1>1, InvParts DEF Done, TaskTyped
<1>7. StoredSubmitted'
  <2>1. SameTerms([o EXCEPT !.status = "New"], submitted[taker.id])
    BY <1>2, <1>3 DEF SameTerms, Order
  <2>2. \A id \in DOMAIN orders :
          id \in DOMAIN submitted /\ SameTerms(orders[id], submitted[id])
    BY InvParts DEF StoredSubmitted
  <2>3. \A id \in DOMAIN orders' :
          id \in DOMAIN submitted' /\ SameTerms(orders'[id], submitted'[id])
    BY <1>1, <1>2, <1>5, <2>1, <2>2
  <2> QED
    BY <1>1, <2>3 DEF Done, StoredSubmitted
<1>8. HandlerState'
  BY <1>1 DEF Done, HandlerState
<1> QED
  BY <1>5, <1>6, <1>7, <1>8, InvParts

(* What a removal takes from the orders, it leaves as submitted.           *)
LEMMA RemovalStored ==
  ASSUME Inv, pc' \in {"recv", "expire"}, UNCHANGED submitted,
         DOMAIN orders' \subseteq DOMAIN orders,
         \A x \in DOMAIN orders' : orders'[x] = orders[x]
  PROVE  StoredSubmitted'
  BY InvParts DEF StoredSubmitted

LEMMA CancelLiveKeeps ==
  ASSUME Inv, NEW id \in OrderIds, CancelLive(id)
  PROVE  Inv'
<1> DEFINE msgs == <<Update(id, "Canceled", orders[id].filled)>>
<1>1. /\ ReceiveCancel(id) /\ Live(id) /\ RemoveLive(id) /\ Send(msgs)
      /\ UNCHANGED <<pc, taker, partial, expired>>
  BY DEF CancelLive, taskVars
<1>2. /\ Idle /\ cancels' \in 0..MaxCancels /\ UNCHANGED submitted
      /\ pc = "recv" /\ taker = NoOrder /\ partial = NoOrder /\ expired = {}
  <2>1. Idle /\ cancels < MaxCancels /\ cancels' = cancels + 1 /\ UNCHANGED submitted
    BY <1>1 DEF ReceiveCancel
  <2>2. cancels \in 0..MaxCancels /\ MaxCancels \in Nat
    BY InvParts, OrderBookAssumption DEF TaskTyped
  <2> QED
    BY <2>1, <2>2, IdleFacts
<1>3. /\ BookInv' /\ id \in DOMAIN orders
      /\ DOMAIN orders' = DOMAIN orders \ {id}
      /\ \A x \in DOMAIN orders' : orders'[x] = orders[x]
  BY <1>1, InvParts, RemoveLiveKeeps
<1>4. msgs \in Seq(Message) /\ outbox \in Seq(Message)
  <2>1. orders[id].filled \in Int
    BY <1>3, InvParts DEF BookInv, BookTyped, Order
  <2> QED
    BY <2>1, InvParts, MessageTypes DEF OrderStatus, TaskTyped
<1> HIDE DEF msgs
<1>5. outbox' \in Seq(Message)
  BY <1>1, <1>4, SendFacts
<1>6. TaskTyped'
  BY <1>1, <1>2, <1>5, InvParts DEF TaskTyped
<1>7. StoredSubmitted'
  BY <1>1, <1>2, <1>3, RemovalStored
<1>8. HandlerState'
  BY <1>1, <1>2, InvParts DEF HandlerState
<1> QED
  BY <1>3, <1>6, <1>7, <1>8, InvParts

LEMMA CancelMissingKeeps ==
  ASSUME Inv, NEW id \in OrderIds, CancelMissing(id)
  PROVE  Inv'
<1> DEFINE msgs == <<Update(id, "Rejected", 0)>>
<1>1. /\ ReceiveCancel(id) /\ ~Live(id) /\ RemoveMissing(id) /\ Send(msgs)
      /\ UNCHANGED <<pc, taker, partial, expired>>
  BY DEF CancelMissing, taskVars
<1>2. /\ Idle /\ cancels' \in 0..MaxCancels /\ UNCHANGED submitted
      /\ pc = "recv" /\ taker = NoOrder /\ partial = NoOrder /\ expired = {}
  <2>1. Idle /\ cancels < MaxCancels /\ cancels' = cancels + 1 /\ UNCHANGED submitted
    BY <1>1 DEF ReceiveCancel
  <2>2. cancels \in 0..MaxCancels /\ MaxCancels \in Nat
    BY InvParts, OrderBookAssumption DEF TaskTyped
  <2> QED
    BY <2>1, <2>2, IdleFacts
<1>3. BookInv' /\ UNCHANGED orders
  BY <1>1, InvParts, RemoveMissingKeeps
<1>4. msgs \in Seq(Message) /\ outbox \in Seq(Message)
  BY InvParts, MessageTypes DEF OrderStatus, TaskTyped
<1> HIDE DEF msgs
<1>5. outbox' \in Seq(Message)
  BY <1>1, <1>4, SendFacts
<1>6. TaskTyped'
  BY <1>1, <1>2, <1>3, <1>5, InvParts DEF TaskTyped
<1>7. StoredSubmitted'
  BY <1>1, <1>2, <1>3, RemovalStored
<1>8. HandlerState'
  BY <1>1, <1>2, InvParts DEF HandlerState
<1> QED
  BY <1>3, <1>6, <1>7, <1>8, InvParts

LEMMA HeartbeatKeeps ==
  ASSUME Inv, NEW now \in Times, Heartbeat(now)
  PROVE  Inv'
<1>1. /\ Idle /\ expired' = Expired(now)
      /\ pc' = IF expired' = {} THEN "recv" ELSE "expire"
      /\ UNCHANGED <<bookVars, orders, taker, partial, outbox, submitted, cancels>>
  BY DEF Heartbeat, bookVars, inputVars
<1>2. pc = "recv" /\ taker = NoOrder /\ partial = NoOrder
  BY <1>1, IdleFacts
<1>3. BookInv'
  BY <1>1, InvParts, BookUnchanged
<1>4. TaskTyped'
  BY <1>1, InvParts DEF TaskTyped, Expired
<1>5. StoredSubmitted'
  BY <1>1, RemovalStored
<1>6. HandlerState'
  BY <1>1, <1>2 DEF HandlerState
<1> QED
  BY <1>3, <1>4, <1>5, <1>6, InvParts

LEMMA ExpireNextKeeps ==
  ASSUME Inv, NEW id \in OrderIds, ExpireNext(id)
  PROVE  Inv'
<1> DEFINE msgs == <<Update(id, "Canceled", orders[id].filled)>>
<1>1. /\ pc = "expire" /\ Live(id) /\ RemoveLive(id) /\ Send(msgs)
      /\ expired' = expired \ {id}
      /\ pc' = IF expired' = {} THEN "recv" ELSE "expire"
      /\ UNCHANGED <<taker, partial, submitted, cancels>>
  BY DEF ExpireNext, inputVars
<1>2. taker = NoOrder /\ partial = NoOrder
  BY <1>1, InvParts DEF HandlerState
<1>3. /\ BookInv' /\ id \in DOMAIN orders
      /\ DOMAIN orders' = DOMAIN orders \ {id}
      /\ \A x \in DOMAIN orders' : orders'[x] = orders[x]
  BY <1>1, InvParts, RemoveLiveKeeps
<1>4. msgs \in Seq(Message) /\ outbox \in Seq(Message)
  <2>1. orders[id].filled \in Int
    BY <1>3, InvParts DEF BookInv, BookTyped, Order
  <2> QED
    BY <2>1, InvParts, MessageTypes DEF OrderStatus, TaskTyped
<1> HIDE DEF msgs
<1>5. outbox' \in Seq(Message)
  BY <1>1, <1>4, SendFacts
<1>6. TaskTyped'
  BY <1>1, <1>3, <1>5, InvParts DEF TaskTyped
<1>7. StoredSubmitted'
  BY <1>1, <1>3, RemovalStored
<1>8. HandlerState'
  BY <1>1, <1>2 DEF HandlerState
<1> QED
  BY <1>3, <1>6, <1>7, <1>8, InvParts

LEMMA ExpireAbortKeeps ==
  ASSUME Inv, NEW id \in OrderIds, ExpireAbort(id)
  PROVE  Inv'
<1>1. /\ ~Live(id) /\ RemoveMissing(id) /\ Done
      /\ UNCHANGED <<outbox, inputVars>>
  BY DEF ExpireAbort
<1>2. BookInv' /\ UNCHANGED orders
  BY <1>1, InvParts, RemoveMissingKeeps
<1>3. outbox' \in Seq(Message)
  BY <1>1, InvParts DEF TaskTyped
<1> QED
  BY <1>1, <1>2, <1>3, DoneKeeps

-----------------------------------------------------------------------------
(*                        The invariant                                    *)

LEMMA InvInit == Init => Inv
<1> SUFFICES ASSUME Init PROVE Inv
  OBVIOUS
<1>1. BookInv
  <2>1. BookTyped
    BY DEF Init, BookTyped
  <2> QED
    BY <2>1 DEF Init, BookInv, QueuedStored, IndexedStored, TurnsDistinct
<1>2. TaskTyped
  BY OrderBookAssumption DEF Init, TaskTyped
<1>3. StoredSubmitted /\ HandlerState
  BY DEF Init, StoredSubmitted, HandlerState
<1> QED
  BY <1>1, <1>2, <1>3, InvParts

LEMMA InvNext == Inv /\ [Next]_vars => Inv'
<1> SUFFICES ASSUME Inv, [Next]_vars PROVE Inv'
  OBVIOUS
<1>1. ASSUME NEW o \in Submissions, RefuseInvalid(o) PROVE Inv'
  BY <1>1, RefuseInvalidKeeps
<1>2. ASSUME NEW o \in Submissions, ParkStop(o) PROVE Inv'
  BY <1>2, ParkStopKeeps
<1>3. ASSUME NEW o \in Submissions, RejectUnfillable(o) PROVE Inv'
  BY <1>3, RejectUnfillableKeeps
<1>4. ASSUME NEW o \in Submissions, DropLimit(o) PROVE Inv'
  BY <1>4, DropLimitKeeps
<1>5. ASSUME NEW o \in Submissions, RestLimit(o) PROVE Inv'
  BY <1>5, RestLimitKeeps
<1>6. ASSUME NEW o \in Submissions, StartMatching(o) PROVE Inv'
  BY <1>6, StartMatchingKeeps
<1>7. ASSUME NEW id \in OrderIds, CancelLive(id) \/ CancelMissing(id) PROVE Inv'
  BY <1>7, CancelLiveKeeps, CancelMissingKeeps
<1>8. ASSUME NEW now \in Times, Heartbeat(now) PROVE Inv'
  BY <1>8, HeartbeatKeeps
<1>9. ASSUME NEW e, FillNext(e) \/ FailNext(e) PROVE Inv'
  BY <1>9, FillNextKeeps, FailNextKeeps
<1>10. CASE FinishMarket
  BY <1>10, FinishMarketKeeps
<1>11. CASE CancelRemainder \/ RestRemainder
  BY <1>11, CancelRemainderKeeps, RestRemainderKeeps
<1>12. ASSUME NEW id \in OrderIds, ExpireNext(id) \/ ExpireAbort(id) PROVE Inv'
  BY <1>12, ExpireNextKeeps, ExpireAbortKeeps
<1>13. CASE UNCHANGED vars
  <2>1. UNCHANGED <<bookVars, book, orders, info, pc, taker, partial, expired,
                    outbox, submitted, cancels>>
    BY <1>13 DEF vars, bookVars, taskVars, inputVars
  <2>2. BookInv'
    BY <2>1, InvParts, BookUnchanged
  <2>3. TaskTyped'
    BY <2>1, InvParts DEF TaskTyped
  <2>4. StoredSubmitted'
    BY <2>1, InvParts DEF StoredSubmitted
  <2>5. HandlerState'
    BY <2>1, InvParts DEF HandlerState, Queued
  <2> QED
    BY <2>2, <2>3, <2>4, <2>5, InvParts
<1> QED
  BY <1>1, <1>2, <1>3, <1>4, <1>5, <1>6, <1>7, <1>8, <1>9, <1>10, <1>11, <1>12, <1>13
     DEF Next, ReceiveNext, HandlerNext

(***************************************************************************)
(* The invariant holds in every state of every instance.                   *)
(***************************************************************************)
THEOREM Invariance == Spec => []Inv
  BY InvInit, InvNext, PTL DEF Spec

(***************************************************************************)
(* The variables keep their types: in particular, what the matching loop   *)
(* computes from a stored order is an order again, and every message names *)
(* orders and prices that exist.                                           *)
(***************************************************************************)
THEOREM Typing == Spec => []TypeOK
<1>1. Inv => TypeOK
  BY DEF Inv
<1> QED
  BY <1>1, Invariance, PTL

(***************************************************************************)
(* bids, asks, orders, order_info and the state of the handlers agree on   *)
(* every order in every state, for any orders with any quantities (also    *)
(* negative ones), any prices and any clock: no look-up of the matching    *)
(* loop or of the reinsertion meets an absent order.                       *)
(***************************************************************************)
THEOREM Consistency == Spec => []BookConsistent
<1>1. Inv => BookConsistent
  BY DEF Inv
<1> QED
  BY <1>1, Invariance, PTL
=============================================================================
