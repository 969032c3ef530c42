--------------------------- MODULE Exchange_proofs ---------------------------
(***************************************************************************)
(* Proof that the router delivers in order, for any number of books,       *)
(* callers, orders and calls, and channels of any capacity.                *)
(***************************************************************************)
EXTENDS Exchange, TLAPS

(* The types of the way from the callers to the books.                     *)
LineTyped ==
  /\ routerBox \in Seq(RouterMessage)
  /\ bookBox \in [Symbols -> Seq(RouterMessage)]
  /\ routing \in RouterMessage \cup {NoMessage}
  /\ togo \in Seq(Symbols) /\ IsInjective(togo)
  /\ routing = NoMessage <=> togo = <<>>
  /\ sending \in [Senders -> RouterMessage \cup {NoMessage}]
  /\ entered \in [Symbols -> Nat] /\ handled \in [Symbols -> Nat]

(* DeliveredInOrder for one book.                                          *)
LineOf(s) ==
  /\ \A i \in DOMAIN bookBox[s] : bookBox[s][i].place[s] = handled[s] + i
  /\ s \in Range(togo) => routing.place[s] = Passed(s)
  /\ \A i \in DOMAIN routerBox :
       routerBox[i].place[s] =
         AcceptedBefore(s, i) + (IF s \in Range(Route(routerBox[i])) THEN 1 ELSE 0)
  /\ entered[s] = AcceptedBefore(s, Len(routerBox) + 1)

LineInv == LineTyped /\ DeliveredInOrder

-----------------------------------------------------------------------------
(*                              Messages                                   *)

LEMMA PlacedMessage ==
  ASSUME NEW m \in RouterMessage, NEW p \in Place
  PROVE  /\ [m EXCEPT !.place = p] \in RouterMessage
         /\ [m EXCEPT !.place = p].place = p
         /\ Route([m EXCEPT !.place = p]) = Route(m)
<1>1. CASE m \in [kind : {"SubmitOrder"}, id : Orders, symbol : Range(SymbolOf), place : Place]
  BY <1>1 DEF RouterMessage, Route
<1>2. CASE m \in [kind : {"CancelOrder"}, id : Orders, place : Place]
  BY <1>2 DEF RouterMessage, Route
<1>3. CASE m \in [kind : {"Heartbeat"}, place : Place]
  BY <1>3 DEF RouterMessage, Route
<1> QED
  BY <1>1, <1>2, <1>3 DEF RouterMessage

(* No route visits a book twice.                                           *)
LEMMA RouteType ==
  ASSUME NEW m
  PROVE  Route(m) \in Seq(Symbols) /\ IsInjective(Route(m))
<1>1. Broadcast \in Seq(Symbols) /\ IsInjective(Broadcast)
  BY RouterAssumption
<1>2. CASE m.kind # "SubmitOrder"
  BY <1>1, <1>2 DEF Route
<1>3. CASE m.kind = "SubmitOrder" /\ m.symbol \in Symbols
  <2>1. Route(m) = <<m.symbol>>
    BY <1>3 DEF Route
  <2> QED
    BY <1>3, <2>1 DEF IsInjective
<1>4. CASE m.kind = "SubmitOrder" /\ m.symbol \notin Symbols
  <2>1. Route(m) = <<>>
    BY <1>4 DEF Route
  <2> QED
    BY <2>1 DEF IsInjective
<1> QED
  BY <1>2, <1>3, <1>4

(* Taking the head of a sequence that repeats nothing.                     *)
LEMMA TailOfInjective ==
  ASSUME NEW q \in Seq(Symbols), q # <<>>, IsInjective(q)
  PROVE  /\ Head(q) \in Symbols /\ Head(q) \in Range(q)
         /\ Tail(q) \in Seq(Symbols) /\ IsInjective(Tail(q))
         /\ Range(Tail(q)) = Range(q) \ {Head(q)}
<1>1. /\ Len(q) \in Nat \ {0} /\ Head(q) = q[1] /\ Tail(q) \in Seq(Symbols)
      /\ Len(Tail(q)) = Len(q) - 1
      /\ \A i \in 1..Len(q) - 1 : Tail(q)[i] = q[i + 1]
      /\ DOMAIN q = 1..Len(q) /\ DOMAIN Tail(q) = 1..Len(q) - 1
      /\ q[1] \in Symbols
  OBVIOUS
<1>2. IsInjective(Tail(q))
  BY <1>1 DEF IsInjective
<1>3. ASSUME NEW x \in Range(Tail(q)) PROVE x \in Range(q) /\ x # Head(q)
  BY <1>1, <1>3 DEF Range, IsInjective
<1>4. ASSUME NEW x \in Range(q), x # Head(q) PROVE x \in Range(Tail(q))
  <2>1. PICK i \in 1..Len(q) : x = q[i]
    BY <1>1 DEF Range
  <2>2. i # 1 /\ i - 1 \in 1..Len(q) - 1 /\ Tail(q)[i - 1] = q[i - 1 + 1] /\ i - 1 + 1 = i
    BY <1>1, <1>4, <2>1
  <2> QED
    BY <1>1, <2>1, <2>2 DEF Range
<1>5. Head(q) \in Range(q)
  BY <1>1 DEF Range
<1> QED
  BY <1>1, <1>2, <1>3, <1>4, <1>5

-----------------------------------------------------------------------------
(*                        The steps of the line                            *)

(* What a step does to the way from the callers to the books.              *)
HoldStep ==
  /\ UNCHANGED <<routerVars, entered, handled>>
  /\ sending' \in [Senders -> RouterMessage \cup {NoMessage}]

EnterStep(m) ==
  /\ Enter(m)
  /\ UNCHANGED handled
  /\ sending' \in [Senders -> RouterMessage \cup {NoMessage}]

RouterTakeStep == RouterTake /\ UNCHANGED <<sending, entered, handled>>
RouterSendStep == RouterSend /\ UNCHANGED <<sending, entered, handled>>

TakeStep(s) == \E kind \in {"SubmitOrder", "CancelOrder", "Heartbeat"} : Take(s, kind)

LEMMA SubmissionTyped ==
  ASSUME NEW o \in Orders PROVE Submission(o) \in RouterMessage
  BY DEF Submission, RouterMessage, NoPlace, Place, Orders, Range

LEMMA CancellationTyped ==
  ASSUME NEW o \in Orders PROVE Cancellation(o) \in RouterMessage
  BY DEF Cancellation, RouterMessage, NoPlace, Place

LEMMA HeartbeatTyped == Heartbeat \in RouterMessage
  BY DEF Heartbeat, RouterMessage, NoPlace, Place

LEMMA BeginKind ==
  ASSUME LineTyped, NEW c \in Senders, NEW m \in RouterMessage, Begin(c, m)
  PROVE  HoldStep \/ EnterStep(m)
<1>1. UNCHANGED handled
  BY DEF Begin, bookVars
<1>2. CASE Enter(m) /\ UNCHANGED sending
  BY <1>1, <1>2 DEF EnterStep, LineTyped
<1>3. CASE sending' = [sending EXCEPT ![c] = m] /\ UNCHANGED <<routerVars, entered>>
  BY <1>1, <1>3 DEF HoldStep, LineTyped
<1> QED
  BY <1>2, <1>3 DEF Begin

LEMMA StepKinds ==
  ASSUME LineTyped, [Next]_vars
  PROVE  \/ HoldStep
         \/ \E m \in RouterMessage : EnterStep(m)
         \/ RouterTakeStep
         \/ RouterSendStep
         \/ \E s \in Symbols : TakeStep(s)
<1>1. ASSUME NEW c \in Callers, NEW o \in Orders, SubmitOrder(c, o)
      PROVE  HoldStep \/ \E m \in RouterMessage : EnterStep(m)
  <2>1. CASE Begin(c, Submission(o))
    BY <2>1, BeginKind, SubmissionTyped DEF Senders
  <2>2. CASE UNCHANGED <<routerVars, sending, entered, bookVars>>
    BY <2>2 DEF HoldStep, LineTyped, bookVars
  <2> QED
    BY <1>1, <2>1, <2>2 DEF SubmitOrder
<1>2. ASSUME NEW c \in Callers, NEW o \in Orders, CancelOrder(c, o)
      PROVE  HoldStep \/ \E m \in RouterMessage : EnterStep(m)
  BY <1>2, BeginKind, CancellationTyped DEF CancelOrder, Senders
<1>3. ASSUME Beat PROVE HoldStep \/ \E m \in RouterMessage : EnterStep(m)
  BY <1>3, BeginKind, HeartbeatTyped DEF Beat, Senders
<1>4. ASSUME NEW c \in Senders, Accept(c) PROVE \E m \in RouterMessage : EnterStep(m)
  <2>1. PICK m \in RouterMessage : m = sending[c]
    BY <1>4 DEF Accept, LineTyped
  <2>2. Enter(m) /\ UNCHANGED handled /\ sending' = [sending EXCEPT ![c] = NoMessage]
    BY <1>4, <2>1 DEF Accept, bookVars
  <2> QED
    BY <2>1, <2>2 DEF EnterStep, LineTyped
<1>5. ASSUME RouterStep PROVE RouterTakeStep \/ RouterSendStep
  BY <1>5 DEF RouterStep, RouterNext, RouterTakeStep, RouterSendStep, bookVars
<1>6. ASSUME NEW s \in Symbols, BookTake(s) PROVE TakeStep(s)
  BY <1>6 DEF BookTake, TakeOrder, TakeCancel, TakeHeartbeat, TakeStep
<1>7. ASSUME UNCHANGED <<routerVars, sending, entered, handled>> PROVE HoldStep
  BY <1>7 DEF HoldStep, LineTyped
<1>8. ASSUME NEW s \in Symbols, BookSend(s) PROVE HoldStep
  BY <1>7, <1>8 DEF BookSend
<1>9. ASSUME ForwardTake \/ ForwardSend \/ Read \/ DropReceiver \/ NotifyClients PROVE HoldStep
  BY <1>7, <1>9 DEF ForwardTake, ForwardSend, Read, DropReceiver, NotifyClients, bookVars
<1>10. ASSUME UNCHANGED vars PROVE HoldStep
  BY <1>7, <1>10 DEF vars, bookVars
<1> QED
  BY <1>1, <1>2, <1>3, <1>4, <1>5, <1>6, <1>8, <1>9, <1>10 DEF Next, Work

-----------------------------------------------------------------------------
(*                      What a step does to one line                       *)

LEMMA PassedType ==
  ASSUME LineTyped, NEW s \in Symbols
  PROVE  Passed(s) \in Nat
<1>1. handled[s] \in Nat /\ Len(bookBox[s]) \in Nat
  BY DEF LineTyped
<1> QED
  BY <1>1 DEF Passed

LEMMA HoldKeeps ==
  ASSUME LineInv, HoldStep
  PROVE  LineInv'
<1>1. UNCHANGED <<routerBox, bookBox, routing, togo, entered, handled>>
  BY DEF HoldStep, routerVars
<1>2. LineTyped'
  BY <1>1 DEF LineInv, LineTyped, HoldStep
<1>3. DeliveredInOrder'
  BY <1>1 DEF LineInv, DeliveredInOrder, AcceptedBefore, Passed
<1> QED
  BY <1>2, <1>3 DEF LineInv

(* A message that is accepted gets the next place in the line of each book *)
(* it is for.                                                              *)
LEMMA EnterKeeps ==
  ASSUME LineInv, NEW m \in RouterMessage, EnterStep(m)
  PROVE  LineInv'
<1>1. LineTyped /\ UNCHANGED <<bookBox, routing, togo, handled>>
  BY DEF LineInv, EnterStep, Enter
<1>2. PICK p : p = entered'
  OBVIOUS
<1>3. /\ p = [s \in Symbols |-> IF s \in Range(Route(m)) THEN entered[s] + 1 ELSE entered[s]]
      /\ routerBox' = Append(routerBox, [m EXCEPT !.place = p])
  BY <1>2 DEF EnterStep, Enter
<1>4. p \in Place
  BY <1>1, <1>3 DEF LineTyped, Place
<1>5. PICK n : n = [m EXCEPT !.place = p]
  OBVIOUS
<1>6. n \in RouterMessage /\ n.place = p /\ Route(n) = Route(m)
  BY <1>4, <1>5, PlacedMessage
<1>7. PICK k : k = Len(routerBox)
  OBVIOUS
<1>8. /\ k \in Nat
      /\ routerBox' \in Seq(RouterMessage) /\ Len(routerBox') = k + 1
      /\ DOMAIN routerBox = 1..k /\ DOMAIN routerBox' = 1..k + 1
      /\ \A i \in 1..k : routerBox'[i] = routerBox[i]
      /\ routerBox'[k + 1] = n
  BY <1>1, <1>3, <1>5, <1>6, <1>7 DEF LineTyped
<1>9. LineTyped'
  BY <1>1, <1>2, <1>4, <1>8 DEF LineTyped, EnterStep, Place
<1>10. ASSUME NEW s \in Symbols PROVE LineOf(s)'
  <2>1. LineOf(s)
    BY DEF LineInv, DeliveredInOrder, LineOf
  <2>2. Passed(s)' = Passed(s)
    BY <1>1 DEF Passed
  <2>3. \A i \in 1..k + 1 : AcceptedBefore(s, i)' = AcceptedBefore(s, i)
    BY <1>8, <2>2 DEF AcceptedBefore
  <2>4. n.place[s] = entered[s] + (IF s \in Range(Route(n)) THEN 1 ELSE 0)
    BY <1>1, <1>3, <1>6 DEF LineTyped
  <2>5. entered'[s] = n.place[s]
    BY <1>2, <1>6
  <2>6. AcceptedBefore(s, k + 2)' = n.place[s]
    BY <1>8 DEF AcceptedBefore
  <2>7. ASSUME NEW i \in DOMAIN routerBox'
        PROVE  routerBox'[i].place[s] =
                 AcceptedBefore(s, i)'
                   + (IF s \in Range(Route(routerBox'[i])) THEN 1 ELSE 0)
    <3>1. CASE i \in 1..k
      <4>1. routerBox[i].place[s] =
              AcceptedBefore(s, i) + (IF s \in Range(Route(routerBox[i])) THEN 1 ELSE 0)
        BY <1>8, <2>1, <3>1 DEF LineOf
      <4>2. routerBox'[i] = routerBox[i] /\ AcceptedBefore(s, i)' = AcceptedBefore(s, i)
        BY <1>8, <2>3, <3>1
      <4> QED
        BY <4>1, <4>2
    <3>2. CASE i = k + 1
      <4>1. AcceptedBefore(s, i)' = entered[s]
        BY <1>7, <1>8, <2>1, <2>3, <3>2 DEF LineOf
      <4>2. routerBox'[i] = n
        BY <1>8, <3>2
      <4> QED
        BY <2>4, <4>1, <4>2
    <3> QED
      BY <1>8, <3>1, <3>2
  <2>8. \A i \in DOMAIN bookBox'[s] : bookBox'[s][i].place[s] = handled'[s] + i
    BY <1>1, <2>1 DEF LineOf
  <2>9. s \in Range(togo') => routing'.place[s] = Passed(s)'
    BY <1>1, <2>1, <2>2 DEF LineOf
  <2>10. (entered[s] = AcceptedBefore(s, Len(routerBox) + 1))'
    <3>1. Len(routerBox') + 1 = k + 2
      BY <1>8
    <3> QED
      BY <2>5, <2>6, <3>1 DEF AcceptedBefore
  <2> QED
    BY <2>7, <2>8, <2>9, <2>10 DEF LineOf
<1> QED
  BY <1>9, <1>10 DEF LineInv, DeliveredInOrder, LineOf

(* The router takes the first message, and knows the books it goes to.     *)
LEMMA RouterTakeKeeps ==
  ASSUME LineInv, RouterTakeStep
  PROVE  LineInv'
<1>1. LineTyped /\ UNCHANGED <<bookBox, sending, entered, handled>>
  BY DEF LineInv, RouterTakeStep, RouterTake
<1>2. PICK k : k = Len(routerBox)
  OBVIOUS
<1>3. PICK m : m = routerBox[1]
  OBVIOUS
<1>4. routing = NoMessage /\ togo = <<>> /\ routerBox # <<>>
  BY <1>1 DEF RouterTakeStep, RouterTake, LineTyped
<1>5. /\ k \in Nat \ {0} /\ m \in RouterMessage /\ Head(routerBox) = m
      /\ routerBox' \in Seq(RouterMessage) /\ Len(routerBox') = k - 1
      /\ DOMAIN routerBox = 1..k /\ DOMAIN routerBox' = 1..k - 1
      /\ \A i \in 1..k - 1 : routerBox'[i] = routerBox[i + 1]
  BY <1>1, <1>2, <1>3, <1>4 DEF RouterTakeStep, RouterTake, LineTyped
<1>6. togo' = Route(m) /\ routing' = (IF togo' = <<>> THEN NoMessage ELSE m)
  BY <1>5 DEF RouterTakeStep, RouterTake
<1>7. m # NoMessage
  BY <1>5, ExchangeAssumption
<1>8. LineTyped'
  <2>1. togo' \in Seq(Symbols) /\ IsInjective(togo')
    BY <1>6, RouteType
  <2>2. routing' \in RouterMessage \cup {NoMessage} /\ (routing' = NoMessage <=> togo' = <<>>)
    BY <1>5, <1>6, <1>7
  <2> QED
    BY <1>1, <1>5, <2>1, <2>2 DEF LineTyped
<1>9. ASSUME NEW s \in Symbols PROVE LineOf(s)'
  <2>1. LineOf(s)
    BY DEF LineInv, DeliveredInOrder, LineOf
  <2>2. m.place[s] = Passed(s) + (IF s \in Range(Route(m)) THEN 1 ELSE 0)
    BY <1>3, <1>5, <2>1 DEF LineOf, AcceptedBefore
  <2>3. Passed(s) = handled[s] + Len(bookBox[s])
    <3>1. s \notin Range(togo)
      BY <1>4 DEF Range
    <3>2. handled[s] \in Nat /\ Len(bookBox[s]) \in Nat
      BY <1>1 DEF LineTyped
    <3> QED
      BY <3>1, <3>2 DEF Passed
  <2>4. Passed(s)' = m.place[s]
    <3>1. Passed(s)' = handled[s] + Len(bookBox[s]) + (IF s \in Range(Route(m)) THEN 1 ELSE 0)
      BY <1>1, <1>6 DEF Passed
    <3> QED
      BY <2>2, <2>3, <3>1
  <2>5. \A i \in 1..k : AcceptedBefore(s, i)' = AcceptedBefore(s, i + 1)
    <3>1. AcceptedBefore(s, 1)' = AcceptedBefore(s, 2)
      BY <1>3, <2>4 DEF AcceptedBefore
    <3>2. ASSUME NEW i \in 2..k PROVE AcceptedBefore(s, i)' = AcceptedBefore(s, i + 1)
      <4>1. i - 1 \in 1..k - 1 /\ i # 1 /\ i + 1 # 1 /\ i + 1 - 1 = i /\ i - 1 + 1 = i
        BY <1>5
      <4>2. routerBox'[i - 1] = routerBox[i]
        BY <1>5, <4>1
      <4> QED
        BY <4>1, <4>2 DEF AcceptedBefore
    <3> QED
      BY <1>5, <3>1, <3>2
  <2>6. \A i \in DOMAIN bookBox'[s] : bookBox'[s][i].place[s] = handled'[s] + i
    BY <1>1, <2>1 DEF LineOf
  <2>7. s \in Range(togo') => routing'.place[s] = Passed(s)'
    BY <1>6, <2>4 DEF Range
  <2>8. ASSUME NEW i \in DOMAIN routerBox'
        PROVE  routerBox'[i].place[s] =
                 AcceptedBefore(s, i)'
                   + (IF s \in Range(Route(routerBox'[i])) THEN 1 ELSE 0)
    <3>1. i \in 1..k - 1 /\ i \in 1..k /\ i + 1 \in 1..k
      BY <1>5
    <3>2. routerBox'[i] = routerBox[i + 1] /\ AcceptedBefore(s, i)' = AcceptedBefore(s, i + 1)
      BY <1>5, <2>5, <3>1
    <3>3. routerBox[i + 1].place[s] =
            AcceptedBefore(s, i + 1)
              + (IF s \in Range(Route(routerBox[i + 1])) THEN 1 ELSE 0)
      BY <1>5, <2>1, <3>1 DEF LineOf
    <3> QED
      BY <3>2, <3>3
  <2>9. (entered[s] = AcceptedBefore(s, Len(routerBox) + 1))'
    <3>1. entered[s] = AcceptedBefore(s, k + 1)
      BY <1>2, <2>1 DEF LineOf
    <3>2. AcceptedBefore(s, k)' = AcceptedBefore(s, k + 1)
      BY <1>5, <2>5
    <3>3. Len(routerBox') + 1 = k /\ entered'[s] = entered[s]
      BY <1>1, <1>5
    <3> QED
      BY <3>1, <3>2, <3>3 DEF AcceptedBefore
  <2> QED
    BY <2>6, <2>7, <2>8, <2>9 DEF LineOf
<1> QED
  BY <1>8, <1>9 DEF LineInv, DeliveredInOrder, LineOf

(* The router puts its message at the end of one channel.                  *)
LEMMA RouterSendKeeps ==
  ASSUME LineInv, RouterSendStep
  PROVE  LineInv'
<1>1. LineTyped /\ UNCHANGED <<routerBox, sending, entered, handled>>
  BY DEF LineInv, RouterSendStep, RouterSend
<1>2. PICK b : b = Head(togo)
  OBVIOUS
<1>3. PICK m : m = routing
  OBVIOUS
<1>4. /\ togo # <<>>
      /\ bookBox' = [bookBox EXCEPT ![b] = Append(@, m)]
      /\ togo' = Tail(togo)
      /\ routing' = IF togo' = <<>> THEN NoMessage ELSE m
  BY <1>2, <1>3 DEF RouterSendStep, RouterSend
<1>5. /\ b \in Symbols /\ b \in Range(togo)
      /\ togo' \in Seq(Symbols) /\ IsInjective(togo')
      /\ Range(togo') = Range(togo) \ {b}
  BY <1>1, <1>2, <1>4, TailOfInjective DEF LineTyped
<1>6. m \in RouterMessage /\ m # NoMessage
  BY <1>1, <1>3, <1>4 DEF LineTyped
<1>7. bookBox' \in [Symbols -> Seq(RouterMessage)]
  BY <1>1, <1>4, <1>5, <1>6 DEF LineTyped
<1>8. LineTyped'
  BY <1>1, <1>4, <1>5, <1>6, <1>7 DEF LineTyped
<1>9. ASSUME NEW s \in Symbols PROVE LineOf(s)'
  <2>1. LineOf(s)
    BY DEF LineInv, DeliveredInOrder, LineOf
  <2>2. bookBox[s] \in Seq(RouterMessage) /\ handled[s] \in Nat /\ Len(bookBox[s]) \in Nat
    BY <1>1 DEF LineTyped
  <2>3. Passed(s)' = Passed(s)
    <3>1. CASE s = b
      <4>1. Len(bookBox'[s]) = Len(bookBox[s]) + 1
        BY <1>1, <1>4, <1>6, <2>2, <3>1 DEF LineTyped
      <4>2. s \in Range(togo) /\ s \notin Range(togo')
        BY <1>5, <3>1
      <4> QED
        BY <1>1, <2>2, <4>1, <4>2 DEF Passed
    <3>2. CASE s # b
      <4>1. bookBox'[s] = bookBox[s] /\ (s \in Range(togo') <=> s \in Range(togo))
        BY <1>1, <1>4, <1>5, <3>2 DEF LineTyped
      <4> QED
        BY <1>1, <4>1 DEF Passed
    <3> QED
      BY <3>1, <3>2
  <2>4. \A i : AcceptedBefore(s, i)' = AcceptedBefore(s, i)
    BY <1>1, <2>3 DEF AcceptedBefore
  <2>5. ASSUME NEW i \in DOMAIN bookBox'[s]
        PROVE  bookBox'[s][i].place[s] = handled'[s] + i
    <3>1. CASE s = b
      <4>1. m.place[s] = handled[s] + Len(bookBox[s]) + 1
        <5>1. m.place[s] = Passed(s) /\ s \in Range(togo)
          BY <1>3, <1>5, <2>1, <3>1 DEF LineOf
        <5> QED
          BY <5>1 DEF Passed
      <4>2. bookBox'[s] = Append(bookBox[s], m)
        BY <1>1, <1>4, <3>1 DEF LineTyped
      <4>3. /\ i \in 1..Len(bookBox[s]) + 1
            /\ i # Len(bookBox[s]) + 1 => i \in DOMAIN bookBox[s] /\ bookBox'[s][i] = bookBox[s][i]
            /\ i = Len(bookBox[s]) + 1 => bookBox'[s][i] = m
        BY <1>6, <2>2, <4>2
      <4>4. CASE i = Len(bookBox[s]) + 1
        BY <1>1, <2>2, <4>1, <4>3, <4>4
      <4>5. CASE i # Len(bookBox[s]) + 1
        BY <1>1, <2>1, <4>3, <4>5 DEF LineOf
      <4> QED
        BY <4>4, <4>5
    <3>2. CASE s # b
      <4>1. bookBox'[s] = bookBox[s]
        BY <1>1, <1>4, <3>2 DEF LineTyped
      <4> QED
        BY <1>1, <2>1, <4>1 DEF LineOf
    <3> QED
      BY <3>1, <3>2
  <2>6. s \in Range(togo') => routing'.place[s] = Passed(s)'
    <3>1. ASSUME s \in Range(togo') PROVE routing' = m /\ s \in Range(togo)
      BY <1>4, <1>5, <3>1 DEF Range
    <3> QED
      BY <1>3, <2>1, <2>3, <3>1 DEF LineOf
  <2>7. ASSUME NEW i \in DOMAIN routerBox'
        PROVE  routerBox'[i].place[s] =
                 AcceptedBefore(s, i)'
                   + (IF s \in Range(Route(routerBox'[i])) THEN 1 ELSE 0)
    BY <1>1, <2>1, <2>4 DEF LineOf
  <2>8. (entered[s] = AcceptedBefore(s, Len(routerBox) + 1))'
    BY <1>1, <2>1, <2>3 DEF LineOf, AcceptedBefore
  <2> QED
    BY <2>5, <2>6, <2>7, <2>8 DEF LineOf
<1> QED
  BY <1>8, <1>9 DEF LineInv, DeliveredInOrder, LineOf

(* A book takes the first message in its channel.                          *)
LEMMA TakeKeeps ==
  ASSUME LineInv, NEW b \in Symbols, TakeStep(b)
  PROVE  LineInv'
<1>1. /\ LineTyped /\ UNCHANGED <<routerBox, routing, togo, sending, entered>>
      /\ bookBox[b] # <<>>
      /\ bookBox' = [bookBox EXCEPT ![b] = Tail(@)]
      /\ handled' = [handled EXCEPT ![b] = @ + 1]
  BY DEF LineInv, TakeStep, Take
<1>2. LineTyped'
  BY <1>1, SMTT(30) DEF LineTyped
<1>3. ASSUME NEW s \in Symbols PROVE LineOf(s)'
  <2>1. LineOf(s)
    BY DEF LineInv, DeliveredInOrder, LineOf
  <2>2. CASE s # b
    <3>1. bookBox'[s] = bookBox[s] /\ handled'[s] = handled[s]
      BY <1>1, <2>2 DEF LineTyped
    <3> QED
      BY <1>1, <2>1, <3>1 DEF LineOf, AcceptedBefore, Passed
  <2>3. CASE s = b
    <3>1. PICK q : q = bookBox[s]
      OBVIOUS
    <3>2. /\ q \in Seq(RouterMessage) /\ q # <<>>
          /\ bookBox'[s] = Tail(q)
      BY <1>1, <2>3, <3>1 DEF LineTyped
    <3>3. PICK n : n = Len(q)
      OBVIOUS
    <3>4. /\ n \in Nat \ {0} /\ Len(bookBox'[s]) = n - 1
          /\ DOMAIN bookBox'[s] = 1..n - 1 /\ DOMAIN q = 1..n
          /\ \A i \in 1..n - 1 : bookBox'[s][i] = q[i + 1]
      BY <3>2, <3>3
    <3>5. PICK h \in Nat : handled[s] = h /\ handled'[s] = h + 1
      BY <1>1, <2>3 DEF LineTyped
    <3>6. Passed(s)' = Passed(s)
      <4>1. handled[s] + Len(bookBox[s]) = h + n
        BY <3>1, <3>3, <3>5
      <4>2. handled'[s] + Len(bookBox'[s]) = h + n
        BY <3>4, <3>5
      <4> QED
        BY <1>1, <4>1, <4>2 DEF Passed
    <3>7. \A i \in DOMAIN bookBox'[s] : bookBox'[s][i].place[s] = handled'[s] + i
      <4>1. SUFFICES ASSUME NEW i \in 1..n - 1
                     PROVE  bookBox'[s][i].place[s] = handled'[s] + i
        BY <3>4
      <4>2. i + 1 \in 1..n
        BY <3>4
      <4>3. bookBox'[s][i] = bookBox[s][i + 1] /\ i + 1 \in DOMAIN bookBox[s]
        BY <3>1, <3>4, <4>2
      <4>4. bookBox'[s][i].place[s] = handled[s] + (i + 1)
        BY <2>1, <4>3 DEF LineOf
      <4> QED
        BY <3>5, <4>4
    <3>8. s \in Range(togo') => routing'.place[s] = Passed(s)'
      BY <1>1, <2>1, <3>6 DEF LineOf
    <3>9. \A i : AcceptedBefore(s, i)' = AcceptedBefore(s, i)
      BY <1>1, <3>6 DEF AcceptedBefore
    <3>10. ASSUME NEW i \in DOMAIN routerBox'
          PROVE  routerBox'[i].place[s] =
                   AcceptedBefore(s, i)'
                     + (IF s \in Range(Route(routerBox'[i])) THEN 1 ELSE 0)
      BY <1>1, <2>1, <3>9 DEF LineOf
    <3>11. (entered[s] = AcceptedBefore(s, Len(routerBox) + 1))'
      BY <1>1, <2>1, <3>6 DEF LineOf, AcceptedBefore
    <3> QED
      BY <3>7, <3>8, <3>10, <3>11 DEF LineOf
  <2> QED
    BY <2>2, <2>3
<1> QED
  BY <1>2, <1>3 DEF LineInv, DeliveredInOrder, LineOf

-----------------------------------------------------------------------------
LEMMA LineInit ==
  ASSUME Init
  PROVE  LineInv
<1>1. /\ routerBox = <<>> /\ bookBox = [s \in Symbols |-> <<>>]
      /\ routing = NoMessage /\ togo = <<>>
      /\ sending = [c \in Senders |-> NoMessage]
      /\ entered = [s \in Symbols |-> 0] /\ handled = [s \in Symbols |-> 0]
  BY DEF Init, RouterInit
<1>2. LineTyped
  BY <1>1 DEF LineTyped, IsInjective
<1>3. ASSUME NEW s \in Symbols PROVE LineOf(s)
  <2>1. s \notin Range(togo) /\ bookBox[s] = <<>> /\ handled[s] = 0 /\ entered[s] = 0
    BY <1>1 DEF Range
  <2>2. Passed(s) = 0
    BY <2>1 DEF Passed
  <2> QED
    BY <1>1, <2>1, <2>2 DEF LineOf, AcceptedBefore
<1> QED
  BY <1>2, <1>3 DEF LineInv, DeliveredInOrder, LineOf

LEMMA LineNext ==
  ASSUME LineInv, [Next]_vars
  PROVE  LineInv'
<1>1. LineTyped
  BY DEF LineInv
<1> QED
  BY <1>1, StepKinds, HoldKeeps, EnterKeeps, RouterTakeKeeps, RouterSendKeeps, TakeKeeps

(***************************************************************************)
(* Every message that was accepted by the channel to the router            *)
(* (exchange.rs, router.rs) reaches each book it is for exactly once and   *)
(* in the order of acceptance, whatever the capacity of the channels and   *)
(* however many books the router visits in its loop.                       *)
(***************************************************************************)
THEOREM Delivery == Spec => []DeliveredInOrder
<1>1. Init => LineInv
  BY LineInit
<1>2. LineInv /\ [Next]_vars => LineInv'
  BY LineNext
<1>3. LineInv => DeliveredInOrder
  BY DEF LineInv
<1> QED
  BY <1>1, <1>2, <1>3, PTL DEF Spec
=============================================================================
