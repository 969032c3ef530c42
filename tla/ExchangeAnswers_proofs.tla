------------------------ MODULE ExchangeAnswers_proofs ------------------------
(***************************************************************************)
(* Proofs about the way back, from the books to the client: the order of   *)
(* the answers, and that an order is reported Canceled at most once.  Then *)
(* of the pipeline as a whole: the bounds of its channels, and that its    *)
(* tasks come to rest between the calls.                                   *)
(***************************************************************************)
EXTENDS Exchange_proofs, Sums_proofs, SequenceTheorems

Letter == AnswerMessage \cup {Notice}

(* The places in a line of letters that hold answers of book s, and what   *)
(* stands there.                                                           *)
Of(q, s) == {i \in DOMAIN q : q[i].from = s}
Letters(q, s) == {q[i] : i \in Of(q, s)}

(* The answers of book s in q are those after place lo and up to hi.       *)
InOrder(q, s, lo, hi) ==
  /\ {q[i].place : i \in Of(q, s)} = (lo + 1)..hi
  /\ \A i, j \in Of(q, s) : i < j => q[i].place < q[j].place

-----------------------------------------------------------------------------
(*                         Lines of letters                                *)

LEMMA NoticeLetter ==
  /\ Notice \in Letter /\ Notice \notin AnswerMessage
  /\ \A s \in Symbols : Notice.from # s
  BY ExchangeAssumption DEF Notice, Letter, AnswerMessage

LEMMA HeadAndTail ==
  ASSUME NEW S, NEW q \in Seq(S), q # <<>>
  PROVE  q = <<Head(q)>> \o Tail(q)
<1>1. Head(q) \in S /\ Tail(q) \in Seq(S) /\ Len(Tail(q)) = Len(q) - 1 /\ Len(q) \in Nat \ {0}
      /\ \A i \in 1..Len(Tail(q)) : Tail(q)[i] = q[i + 1]
      /\ Head(q) = q[1]
  OBVIOUS
<1>2. <<Head(q)>> \in Seq(S) /\ Len(<<Head(q)>>) = 1 /\ <<Head(q)>>[1] = Head(q)
  BY <1>1
<1> DEFINE t == <<Head(q)>> \o Tail(q)
<1>3. t \in Seq(S) /\ Len(t) = 1 + Len(Tail(q))
      /\ \A i \in 1..Len(t) : t[i] = IF i <= 1 THEN <<Head(q)>>[i] ELSE Tail(q)[i - 1]
  BY <1>1, <1>2, ConcatProperties
<1> HIDE DEF t
<1>4. \A i \in 1..Len(q) : q[i] = t[i]
  <2>1. SUFFICES ASSUME NEW i \in 1..Len(q) PROVE q[i] = t[i]
    OBVIOUS
  <2>2. CASE i = 1
    BY <1>1, <1>2, <1>3, <2>2
  <2>3. CASE i # 1
    <3>1. i - 1 \in 1..Len(Tail(q)) /\ i - 1 + 1 = i /\ i \in 1..Len(t) /\ ~(i <= 1)
      BY <1>1, <1>3, <2>3
    <3>2. t[i] = Tail(q)[i - 1] /\ Tail(q)[i - 1] = q[i]
      BY <1>1, <1>3, <3>1
    <3> QED
      BY <3>2
  <2> QED
    BY <2>2, <2>3
<1>5. Len(q) = Len(t)
  BY <1>1, <1>3
<1>6. q = t
  BY <1>3, <1>4, <1>5, SeqEqual
<1> QED
  BY <1>6 DEF t

LEMMA ConcatLetters ==
  ASSUME NEW p \in Seq(Letter), NEW q \in Seq(Letter), NEW s \in Symbols
  PROVE  Letters(p \o q, s) = Letters(p, s) \cup Letters(q, s)
<1>1. PICK n \in Nat : n = Len(p)
  OBVIOUS
<1>2. PICK k \in Nat : k = Len(q)
  OBVIOUS
<1>3. PICK t : t = p \o q
  OBVIOUS
<1>4. DOMAIN p = 1..n /\ DOMAIN q = 1..k /\ DOMAIN t = 1..n + k
      /\ (\A i \in 1..n : t[i] = p[i]) /\ (\A i \in 1..k : t[n + i] = q[i])
  BY <1>1, <1>2, <1>3
<1>5. ASSUME NEW m \in Letters(t, s) PROVE m \in Letters(p, s) \cup Letters(q, s)
  <2>1. PICK i \in 1..n + k : m = t[i] /\ t[i].from = s
    BY <1>4, <1>5 DEF Letters, Of
  <2>2. CASE i \in 1..n
    BY <1>4, <2>1, <2>2 DEF Letters, Of
  <2>3. CASE i \notin 1..n
    <3>1. PICK j \in 1..k : i = n + j
      <4>1. i - n \in 1..k /\ i = n + (i - n)
        BY <2>1, <2>3
      <4> QED
        BY <4>1
    <3> QED
      BY <1>4, <2>1, <3>1 DEF Letters, Of
  <2> QED
    BY <2>2, <2>3
<1>6. ASSUME NEW m \in Letters(p, s) PROVE m \in Letters(t, s)
  <2>1. PICK i \in 1..n : m = p[i] /\ p[i].from = s
    BY <1>4, <1>6 DEF Letters, Of
  <2>2. i \in 1..n + k /\ t[i] = m
    BY <1>4, <2>1
  <2> QED
    BY <1>4, <2>1, <2>2 DEF Letters, Of
<1>7. ASSUME NEW m \in Letters(q, s) PROVE m \in Letters(t, s)
  <2>1. PICK i \in 1..k : m = q[i] /\ q[i].from = s
    BY <1>4, <1>7 DEF Letters, Of
  <2>2. n + i \in 1..n + k /\ t[n + i] = m
    BY <1>4, <2>1
  <2> QED
    BY <1>4, <2>1, <2>2 DEF Letters, Of
<1> QED
  BY <1>3, <1>5, <1>6, <1>7

LEMMA OneLetter ==
  ASSUME NEW m, NEW s
  PROVE  Letters(<<>>, s) = {} /\ Letters(<<m>>, s) = IF m.from = s THEN {m} ELSE {}
<1>1. DOMAIN <<m>> = {1} /\ <<m>>[1] = m
  OBVIOUS
<1>2. Of(<<m>>, s) = IF m.from = s THEN {1} ELSE {}
  BY <1>1 DEF Of
<1>3. Of(<<>>, s) = {}
  BY DEF Of
<1> QED
  BY <1>1, <1>2, <1>3 DEF Letters

LEMMA AppendLetters ==
  ASSUME NEW q \in Seq(Letter), NEW m \in Letter, NEW s \in Symbols
  PROVE  Letters(Append(q, m), s) = Letters(q, s) \cup (IF m.from = s THEN {m} ELSE {})
<1>1. PICK p : p = <<m>>
  OBVIOUS
<1>2. Append(q, m) = q \o p /\ p \in Seq(Letter)
  BY <1>1, AppendIsConcat
<1>3. Letters(q \o p, s) = Letters(q, s) \cup Letters(p, s)
  BY <1>2, ConcatLetters
<1>4. Letters(p, s) = IF m.from = s THEN {m} ELSE {}
  BY <1>1, OneLetter
<1> QED
  BY <1>2, <1>3, <1>4

LEMMA TailLetters ==
  ASSUME NEW q \in Seq(Letter), q # <<>>, NEW s \in Symbols
  PROVE  Letters(q, s) = Letters(Tail(q), s) \cup (IF Head(q).from = s THEN {Head(q)} ELSE {})
<1>1. PICK p : p = <<Head(q)>>
  OBVIOUS
<1>2. PICK t : t = Tail(q)
  OBVIOUS
<1>3. p \in Seq(Letter) /\ t \in Seq(Letter)
  BY <1>1, <1>2, HeadTailProperties
<1>4. q = p \o t
  BY <1>1, <1>2, HeadAndTail
<1>5. Letters(p \o t, s) = Letters(p, s) \cup Letters(t, s)
  BY <1>3, ConcatLetters
<1>6. Letters(p, s) = IF Head(q).from = s THEN {Head(q)} ELSE {}
  BY <1>1, OneLetter
<1> QED
  BY <1>2, <1>4, <1>5, <1>6

LEMMA AppendInOrder ==
  ASSUME NEW q \in Seq(Letter), NEW m \in Letter, NEW s \in Symbols,
         NEW lo \in Nat, NEW hi \in Nat, lo <= hi, InOrder(q, s, lo, hi)
  PROVE  /\ m.from # s => InOrder(Append(q, m), s, lo, hi)
         /\ m.from = s /\ m.place = hi + 1 => InOrder(Append(q, m), s, lo, hi + 1)
<1>1. PICK n \in Nat : n = Len(q)
  OBVIOUS
<1>2. PICK t : t = Append(q, m)
  OBVIOUS
<1>3. DOMAIN q = 1..n /\ DOMAIN t = 1..n + 1 /\ (\A i \in 1..n : t[i] = q[i]) /\ t[n + 1] = m
  BY <1>1, <1>2
<1>4. \A i \in Of(q, s) : i \in 1..n /\ t[i] = q[i]
  BY <1>3 DEF Of
<1>5. CASE m.from # s
  <2>1. Of(t, s) = Of(q, s)
    BY <1>3, <1>5 DEF Of
  <2> QED
    BY <1>2, <1>4, <1>5, <2>1 DEF InOrder
<1>6. CASE m.from = s /\ m.place = hi + 1
  <2>1. Of(t, s) = Of(q, s) \cup {n + 1}
    BY <1>3, <1>6 DEF Of
  <2>2. \A i \in Of(q, s) : q[i].place \in (lo + 1)..hi
    BY DEF InOrder
  <2>3. {t[i].place : i \in Of(t, s)} = {q[i].place : i \in Of(q, s)} \cup {hi + 1}
    BY <1>3, <1>4, <1>6, <2>1
  <2>4. {t[i].place : i \in Of(t, s)} = (lo + 1)..(hi + 1)
    <3>1. {q[i].place : i \in Of(q, s)} = (lo + 1)..hi
      BY DEF InOrder
    <3>2. (lo + 1)..hi \cup {hi + 1} = (lo + 1)..(hi + 1)
      OBVIOUS
    <3> QED
      BY <2>3, <3>1, <3>2
  <2>5. ASSUME NEW i \in Of(t, s), NEW j \in Of(t, s), i < j
        PROVE  t[i].place < t[j].place
    <3>1. CASE j \in Of(q, s)
      <4>1. i \in Of(q, s)
        BY <1>4, <2>1, <2>5, <3>1
      <4> QED
        BY <1>4, <2>5, <3>1, <4>1 DEF InOrder
    <3>2. CASE j = n + 1
      <4>1. i \in Of(q, s)
        BY <2>1, <2>5, <3>2
      <4>2. t[i].place \in (lo + 1)..hi /\ t[j].place = hi + 1
        BY <1>3, <1>4, <1>6, <2>2, <3>2, <4>1
      <4> QED
        BY <4>2
    <3> QED
      BY <2>1, <3>1, <3>2
  <2> QED
    BY <1>2, <1>6, <2>4, <2>5 DEF InOrder
<1> QED
  BY <1>2, <1>5, <1>6
LEMMA NothingInOrder ==
  ASSUME NEW s, NEW lo \in Nat, NEW hi \in Nat, lo <= hi
  PROVE  InOrder(<<>>, s, lo, hi) <=> lo = hi
<1>1. Of(<<>>, s) = {}
  BY DEF Of
<1>2. (lo + 1)..hi = {} <=> lo = hi
  OBVIOUS
<1> QED
  BY <1>1, <1>2 DEF InOrder

LEMMA TailInOrder ==
  ASSUME NEW q \in Seq(Letter), q # <<>>, NEW s \in Symbols,
         NEW lo \in Nat, NEW hi \in Nat, InOrder(q, s, lo, hi)
  PROVE  /\ Head(q).from # s => InOrder(Tail(q), s, lo, hi)
         /\ Head(q).from = s =>
              /\ lo < hi /\ Head(q).place = lo + 1
              /\ InOrder(Tail(q), s, lo + 1, hi)
<1>1. PICK n \in Nat : n = Len(q)
  OBVIOUS
<1>2. PICK t : t = Tail(q)
  OBVIOUS
<1>3. /\ n \in Nat \ {0} /\ Head(q) = q[1] /\ DOMAIN q = 1..n /\ DOMAIN t = 1..n - 1
      /\ \A i \in 1..n - 1 : t[i] = q[i + 1]
  BY <1>1, <1>2
<1>4. \A i : i \in Of(t, s) <=> i \in 1..n - 1 /\ i + 1 \in Of(q, s)
  BY <1>3 DEF Of
<1>5. \A i \in Of(t, s) : t[i] = q[i + 1] /\ i + 1 \in Of(q, s)
  BY <1>3, <1>4
<1>6. \A i \in Of(q, s) : i = 1 \/ (i - 1 \in Of(t, s) /\ t[i - 1] = q[i])
  <2>1. SUFFICES ASSUME NEW i \in Of(q, s), i # 1 PROVE i - 1 \in Of(t, s) /\ t[i - 1] = q[i]
    OBVIOUS
  <2>2. i \in 1..n
    BY <1>3 DEF Of
  <2>3. i - 1 \in 1..n - 1 /\ i - 1 + 1 = i
    BY <1>3, <2>1, <2>2
  <2> QED
    BY <1>3, <1>4, <2>3
<1>7. \A i, j \in Of(t, s) : i < j => t[i].place < t[j].place
  <2>1. SUFFICES ASSUME NEW i \in Of(t, s), NEW j \in Of(t, s), i < j
                 PROVE  t[i].place < t[j].place
    OBVIOUS
  <2>2. i + 1 < j + 1
    BY <1>4, <2>1
  <2> QED
    BY <1>5, <2>2 DEF InOrder
<1>8. {q[i].place : i \in Of(q, s)} = (lo + 1)..hi
  BY DEF InOrder
<1>9. CASE Head(q).from # s
  <2>1. 1 \notin Of(q, s)
    BY <1>3, <1>9 DEF Of
  <2>2. {t[i].place : i \in Of(t, s)} = {q[i].place : i \in Of(q, s)}
    BY <1>5, <1>6, <2>1
  <2> QED
    BY <1>2, <1>7, <1>8, <1>9, <2>2 DEF InOrder
<1>10. CASE Head(q).from = s
  <2>1. 1 \in Of(q, s)
    BY <1>3, <1>10 DEF Of
  <2>2. PICK p : p = q[1].place
    OBVIOUS
  <2>3. p \in (lo + 1)..hi
    BY <1>8, <2>1, <2>2
  <2>4. \A i \in Of(t, s) : t[i].place \in (lo + 1)..hi /\ p < t[i].place
    <3>1. SUFFICES ASSUME NEW i \in Of(t, s)
                   PROVE  t[i].place \in (lo + 1)..hi /\ p < t[i].place
      OBVIOUS
    <3>2. i \in Nat /\ 1 < i + 1
      BY <1>4
    <3> QED
      BY <1>5, <1>8, <2>1, <2>2, <3>2 DEF InOrder
  <2>5. p = lo + 1
    <3>1. lo + 1 \in (lo + 1)..hi
      BY <2>3
    <3>2. PICK i \in Of(q, s) : q[i].place = lo + 1
      BY <1>8, <3>1
    <3>3. CASE i = 1
      BY <2>2, <3>2, <3>3
    <3>4. CASE i # 1
      <4>1. i - 1 \in Of(t, s) /\ t[i - 1].place = lo + 1
        BY <1>6, <3>2, <3>4
      <4>2. p < lo + 1
        BY <2>4, <4>1
      <4> QED
        BY <2>3, <4>2
    <3> QED
      BY <3>3, <3>4
  <2>6. {t[i].place : i \in Of(t, s)} = (lo + 2)..hi
    <3>1. ASSUME NEW i \in Of(t, s) PROVE t[i].place \in (lo + 2)..hi
      BY <2>4, <2>5
    <3>2. ASSUME NEW x \in (lo + 2)..hi PROVE \E i \in Of(t, s) : x = t[i].place
      <4>1. x \in (lo + 1)..hi /\ x # lo + 1
        OBVIOUS
      <4>2. PICK i \in Of(q, s) : q[i].place = x
        BY <1>8, <4>1
      <4>3. i # 1
        BY <2>2, <2>5, <4>1, <4>2
      <4> QED
        BY <1>6, <4>2, <4>3
    <3> QED
      BY <3>1, <3>2
  <2>7. lo < hi
    BY <2>3
  <2>8. InOrder(t, s, lo + 1, hi)
    <3>1. lo + 1 + 1 = lo + 2
      OBVIOUS
    <3> QED
      BY <1>7, <2>6, <3>1 DEF InOrder
  <2>9. Head(q).place = lo + 1
    BY <1>3, <2>2, <2>5
  <2> QED
    BY <1>2, <1>10, <2>7, <2>8, <2>9
<1> QED
  BY <1>9, <1>10

LEMMA ConcatInOrder ==
  ASSUME NEW p \in Seq(Letter), NEW q \in Seq(Letter), NEW s \in Symbols,
         NEW lo \in Nat, NEW mid \in Nat, NEW hi \in Nat, lo <= mid, mid <= hi,
         InOrder(p, s, lo, mid), InOrder(q, s, mid, hi)
  PROVE  InOrder(p \o q, s, lo, hi)
<1>1. PICK n \in Nat : n = Len(p)
  OBVIOUS
<1>2. PICK k \in Nat : k = Len(q)
  OBVIOUS
<1>3. PICK t : t = p \o q
  OBVIOUS
<1>4. DOMAIN p = 1..n /\ DOMAIN q = 1..k /\ DOMAIN t = 1..n + k
      /\ (\A i \in 1..n : t[i] = p[i]) /\ (\A i \in 1..k : t[n + i] = q[i])
  BY <1>1, <1>2, <1>3
<1>5. \A i \in Of(t, s) :
        \/ i \in 1..n /\ i \in Of(p, s) /\ t[i] = p[i]
        \/ i \notin 1..n /\ i > n /\ i - n \in Of(q, s) /\ t[i] = q[i - n]
  <2>1. SUFFICES ASSUME NEW i \in Of(t, s), i \notin 1..n
                 PROVE  i > n /\ i - n \in Of(q, s) /\ t[i] = q[i - n]
    BY <1>4 DEF Of
  <2>2. i \in 1..n + k /\ t[i].from = s
    BY <1>4 DEF Of
  <2>3. i > n /\ i - n \in 1..k /\ n + (i - n) = i
    BY <2>1, <2>2
  <2>4. t[i] = q[i - n]
    BY <1>4, <2>3
  <2> QED
    BY <1>4, <2>2, <2>3, <2>4 DEF Of
<1>6. \A i \in Of(p, s) : i \in Of(t, s) /\ t[i] = p[i]
  BY <1>4 DEF Of
<1>7. \A i \in Of(q, s) : n + i \in Of(t, s) /\ t[n + i] = q[i]
  BY <1>4 DEF Of
<1>8. \A i \in Of(p, s) : p[i].place \in (lo + 1)..mid
  BY DEF InOrder
<1>9. \A i \in Of(q, s) : q[i].place \in (mid + 1)..hi
  BY DEF InOrder
<1>10. {t[i].place : i \in Of(t, s)} = (lo + 1)..hi
  <2>1. ASSUME NEW i \in Of(t, s) PROVE t[i].place \in (lo + 1)..hi
    <3>1. t[i].place \in (lo + 1)..mid \/ t[i].place \in (mid + 1)..hi
      BY <1>5, <1>8, <1>9
    <3> QED
      BY <3>1
  <2>2. ASSUME NEW x \in (lo + 1)..hi PROVE \E i \in Of(t, s) : x = t[i].place
    <3>1. CASE x \in (lo + 1)..mid
      <4>1. PICK i \in Of(p, s) : p[i].place = x
        BY <3>1 DEF InOrder
      <4> QED
        BY <1>6, <4>1
    <3>2. CASE x \in (mid + 1)..hi
      <4>1. PICK i \in Of(q, s) : q[i].place = x
        BY <3>2 DEF InOrder
      <4> QED
        BY <1>7, <4>1
    <3>3. x \in (lo + 1)..mid \/ x \in (mid + 1)..hi
      OBVIOUS
    <3> QED
      BY <3>1, <3>2, <3>3
  <2> QED
    BY <2>1, <2>2
<1>11. ASSUME NEW i \in Of(t, s), NEW j \in Of(t, s), i < j
       PROVE  t[i].place < t[j].place
  <2>1. CASE i \in 1..n /\ j \in 1..n
    <3>1. i \in Of(p, s) /\ j \in Of(p, s) /\ t[i] = p[i] /\ t[j] = p[j]
      BY <1>5, <2>1
    <3> QED
      BY <1>11, <3>1 DEF InOrder
  <2>2. CASE i \in 1..n /\ j \notin 1..n
    <3>1. t[i].place \in (lo + 1)..mid /\ t[j].place \in (mid + 1)..hi
      BY <1>5, <1>8, <1>9, <2>2
    <3> QED
      BY <3>1, SMTT(30)
  <2>3. CASE i \notin 1..n
    <3>1. i \in 1..n + k /\ j \in 1..n + k
      BY <1>4 DEF Of
    <3>2. j \notin 1..n
      BY <1>11, <2>3, <3>1
    <3>3. i - n \in Of(q, s) /\ j - n \in Of(q, s) /\ t[i] = q[i - n] /\ t[j] = q[j - n]
      BY <1>5, <2>3, <3>2
    <3>4. i - n < j - n
      BY <1>11, <3>1
    <3> QED
      BY <3>3, <3>4 DEF InOrder
  <2> QED
    BY <2>1, <2>2, <2>3
<1> QED
  BY <1>3, <1>10, <1>11 DEF InOrder

-----------------------------------------------------------------------------
(***************************************************************************)
(* The answers of book s after place lo and up to hi are divided between   *)
(* the channel to the client, the hands of process_exchange_messages and   *)
(* the channel from the books, the older ones nearer to the client.        *)
(***************************************************************************)
Staged(s, c, h, x, lo, hi) ==
  \E m, n \in Nat :
    /\ lo <= m /\ m <= n /\ n <= hi
    /\ InOrder(c, s, lo, m) /\ InOrder(h, s, m, n) /\ InOrder(x, s, n, hi)

LEMMA StagedSend ==
  ASSUME NEW s \in Symbols, NEW c, NEW h, NEW x \in Seq(Letter), NEW a \in Letter,
         NEW lo \in Nat, NEW hi \in Nat, Staged(s, c, h, x, lo, hi)
  PROVE  /\ a.from # s => Staged(s, c, h, Append(x, a), lo, hi)
         /\ a.from = s /\ a.place = hi + 1 => Staged(s, c, h, Append(x, a), lo, hi + 1)
<1>1. PICK m \in Nat, n \in Nat :
        /\ lo <= m /\ m <= n /\ n <= hi
        /\ InOrder(c, s, lo, m) /\ InOrder(h, s, m, n) /\ InOrder(x, s, n, hi)
  BY DEF Staged
<1>2. /\ a.from # s => InOrder(Append(x, a), s, n, hi)
      /\ a.from = s /\ a.place = hi + 1 => InOrder(Append(x, a), s, n, hi + 1)
  BY <1>1, AppendInOrder
<1>3. n <= hi + 1
  BY <1>1
<1> QED
  BY <1>1, <1>2, <1>3 DEF Staged

(* A letter moves from the channel of the books to the hands of the task.  *)
LEMMA StagedTake ==
  ASSUME NEW s \in Symbols, NEW c, NEW x \in Seq(Letter), x # <<>>,
         NEW lo \in Nat, NEW hi \in Nat, Staged(s, c, <<>>, x, lo, hi)
  PROVE  Staged(s, c, <<Head(x)>>, Tail(x), lo, hi)
<1>1. PICK m \in Nat, n \in Nat :
        /\ lo <= m /\ m <= n /\ n <= hi
        /\ InOrder(c, s, lo, m) /\ InOrder(<<>>, s, m, n) /\ InOrder(x, s, n, hi)
  BY DEF Staged
<1>2. m = n
  BY <1>1, NothingInOrder
<1>3. PICK a : a = Head(x)
  OBVIOUS
<1>4. a \in Letter
  BY <1>3, HeadTailProperties
<1>5. PICK e : e = <<>>
  OBVIOUS
<1>6. e \in Seq(Letter) /\ Append(e, a) = <<a>> /\ InOrder(e, s, n, n)
  BY <1>1, <1>2, <1>4, <1>5
<1>7. /\ a.from # s => InOrder(Tail(x), s, n, hi)
      /\ a.from = s => n < hi /\ a.place = n + 1 /\ InOrder(Tail(x), s, n + 1, hi)
  BY <1>1, <1>3, TailInOrder
<1>8. /\ a.from # s => InOrder(Append(e, a), s, n, n)
      /\ a.from = s /\ a.place = n + 1 => InOrder(Append(e, a), s, n, n + 1)
  <2>1. n <= n
    OBVIOUS
  <2> QED
    BY <1>4, <1>6, <2>1, AppendInOrder
<1>9. CASE a.from # s
  <2>1. InOrder(<<a>>, s, n, n)
    BY <1>6, <1>8, <1>9
  <2> QED
    BY <1>1, <1>2, <1>3, <1>7, <1>9, <2>1 DEF Staged
<1>10. CASE a.from = s
  <2>1. InOrder(<<a>>, s, n, n + 1)
    BY <1>6, <1>7, <1>8, <1>10
  <2>2. n + 1 \in Nat /\ n <= n + 1 /\ n + 1 <= hi
    BY <1>7, <1>10
  <2> QED
    BY <1>1, <1>2, <1>3, <1>7, <1>10, <2>1, <2>2 DEF Staged
<1> QED
  BY <1>9, <1>10

(* And on to the channel to the client.                                    *)
LEMMA StagedPass ==
  ASSUME NEW s \in Symbols, NEW c \in Seq(Letter), NEW x, NEW a \in Letter,
         NEW lo \in Nat, NEW hi \in Nat, Staged(s, c, <<a>>, x, lo, hi)
  PROVE  Staged(s, Append(c, a), <<>>, x, lo, hi)
<1>1. PICK m \in Nat, n \in Nat :
        /\ lo <= m /\ m <= n /\ n <= hi
        /\ InOrder(c, s, lo, m) /\ InOrder(<<a>>, s, m, n) /\ InOrder(x, s, n, hi)
  BY DEF Staged
<1>2. PICK h : h = <<a>>
  OBVIOUS
<1>3. h \in Seq(Letter) /\ h # <<>> /\ Head(h) = a /\ Tail(h) = <<>> /\ InOrder(h, s, m, n)
  BY <1>1, <1>2
<1>4. /\ a.from # s => InOrder(<<>>, s, m, n)
      /\ a.from = s => m < n /\ a.place = m + 1 /\ InOrder(<<>>, s, m + 1, n)
  <2>1. /\ Head(h).from # s => InOrder(Tail(h), s, m, n)
        /\ Head(h).from = s =>
             m < n /\ Head(h).place = m + 1 /\ InOrder(Tail(h), s, m + 1, n)
    BY <1>3, TailInOrder
  <2> QED
    BY <1>3, <2>1
<1>5. InOrder(Append(c, a), s, lo, n)
  <2>1. CASE a.from # s
    <3>1. m = n
      BY <1>1, <1>4, <2>1, NothingInOrder
    <3> QED
      BY <1>1, <2>1, <3>1, AppendInOrder
  <2>2. CASE a.from = s
    <3>1. m + 1 \in Nat /\ m + 1 <= n
      BY <1>4, <2>2
    <3>2. m + 1 = n
      BY <1>4, <2>2, <3>1, NothingInOrder
    <3>3. InOrder(Append(c, a), s, lo, m + 1)
      BY <1>1, <1>4, <2>2, AppendInOrder
    <3> QED
      BY <3>2, <3>3
  <2> QED
    BY <2>1, <2>2
<1>6. InOrder(<<>>, s, n, n) /\ lo <= n /\ n <= n
  BY <1>1, NothingInOrder
<1> QED
  BY <1>1, <1>5, <1>6 DEF Staged

LEMMA StagedNotice ==
  ASSUME NEW s \in Symbols, NEW c \in Seq(Letter), NEW h, NEW x,
         NEW lo \in Nat, NEW hi \in Nat, Staged(s, c, h, x, lo, hi)
  PROVE  Staged(s, Append(c, Notice), h, x, lo, hi)
<1>1. PICK m \in Nat, n \in Nat :
        /\ lo <= m /\ m <= n /\ n <= hi
        /\ InOrder(c, s, lo, m) /\ InOrder(h, s, m, n) /\ InOrder(x, s, n, hi)
  BY DEF Staged
<1>2. InOrder(Append(c, Notice), s, lo, m)
  BY <1>1, NoticeLetter, AppendInOrder
<1> QED
  BY <1>1, <1>2 DEF Staged

LEMMA StagedRead ==
  ASSUME NEW s \in Symbols, NEW c \in Seq(Letter), c # <<>>, NEW h, NEW x,
         NEW lo \in Nat, NEW hi \in Nat, Staged(s, c, h, x, lo, hi)
  PROVE  /\ Head(c).from # s => Staged(s, Tail(c), h, x, lo, hi)
         /\ Head(c).from = s => Staged(s, Tail(c), h, x, lo + 1, hi) /\ Head(c).place = lo + 1
<1>1. PICK m \in Nat, n \in Nat :
        /\ lo <= m /\ m <= n /\ n <= hi
        /\ InOrder(c, s, lo, m) /\ InOrder(h, s, m, n) /\ InOrder(x, s, n, hi)
  BY DEF Staged
<1>2. /\ Head(c).from # s => InOrder(Tail(c), s, lo, m)
      /\ Head(c).from = s =>
           lo < m /\ Head(c).place = lo + 1 /\ InOrder(Tail(c), s, lo + 1, m)
  BY <1>1, TailInOrder
<1>3. CASE Head(c).from # s
  BY <1>1, <1>2, <1>3 DEF Staged
<1>4. CASE Head(c).from = s
  <2>1. lo + 1 <= m
    BY <1>2, <1>4
  <2> QED
    BY <1>1, <1>2, <1>4, <2>1 DEF Staged
<1> QED
  BY <1>3, <1>4

LEMMA StagedInOrder ==
  ASSUME NEW s \in Symbols, NEW c \in Seq(Letter), NEW h \in Seq(Letter),
         NEW x \in Seq(Letter), NEW lo \in Nat, NEW hi \in Nat, Staged(s, c, h, x, lo, hi)
  PROVE  lo <= hi /\ InOrder(c \o h \o x, s, lo, hi)
<1>1. PICK m \in Nat, n \in Nat :
        /\ lo <= m /\ m <= n /\ n <= hi
        /\ InOrder(c, s, lo, m) /\ InOrder(h, s, m, n) /\ InOrder(x, s, n, hi)
  BY DEF Staged
<1>2. PICK q : q = c \o h
  OBVIOUS
<1>3. q \in Seq(Letter)
  BY <1>2, ConcatProperties
<1>4. InOrder(q, s, lo, n)
  BY <1>1, <1>2, ConcatInOrder
<1>5. lo <= n /\ lo <= hi
  BY <1>1
<1>6. InOrder(q \o x, s, lo, hi)
  BY <1>1, <1>3, <1>4, <1>5, ConcatInOrder
<1> QED
  BY <1>2, <1>5, <1>6

-----------------------------------------------------------------------------
(*                       The types of the way back                         *)

AnswersTyped ==
  /\ exchangeBox \in Seq(AnswerMessage)
  /\ forwarding \in AnswerMessage \cup {NoMessage}
  /\ clientBox \in Seq(Letter)
  /\ answering \in [Symbols -> Seq(AnswerMessage)]
  /\ \A s \in Symbols : \A i \in DOMAIN answering[s] : answering[s][i].from = s
  /\ answered \in [Symbols -> Nat] /\ read \in [Symbols -> Nat]
  /\ receiver \in Callers \cup {Reader, Nobody}
  /\ receiver = Nobody => clientBox = <<>>

(* The orders that rest were submitted for the book they rest in.          *)
RestingTyped ==
  /\ submitted \in Nat
  /\ resting \in [Symbols -> SUBSET Orders]
  /\ \A s \in Symbols : resting[s] \subseteq 1..submitted /\ \A o \in resting[s] : SymbolOf[o] = s

(* What a step does to the answers.                                        *)
Update == Orders \X (OrderStatus \cup {"Trade"})

AnswerHold == UNCHANGED <<answering, answered, exchangeBox, clientVars>>

TakeReply(s) ==
  \E updates \in Seq(Update) :
    /\ answering[s] = <<>>
    /\ Reply(s, updates)
    /\ UNCHANGED <<exchangeBox, clientVars>>

LEMMA MessageId ==
  ASSUME NEW m \in RouterMessage, m.kind # "Heartbeat"
  PROVE  m.id \in Orders
<1>1. CASE m \in [kind : {"SubmitOrder"}, id : Orders, symbol : Range(SymbolOf), place : Place]
  BY <1>1
<1>2. CASE m \in [kind : {"CancelOrder"}, id : Orders, place : Place]
  BY <1>2
<1>3. CASE m \in [kind : {"Heartbeat"}, place : Place]
  BY <1>3
<1> QED
  BY <1>1, <1>2, <1>3 DEF RouterMessage

LEMMA HeadOfBookBox ==
  ASSUME LineTyped, NEW s \in Symbols, NEW kind, Take(s, kind)
  PROVE  /\ bookBox[s] # <<>> /\ Head(bookBox[s]) \in RouterMessage
         /\ Head(bookBox[s]).kind = kind
         /\ kind # "Heartbeat" => Head(bookBox[s]).id \in Orders
<1>1. bookBox[s] \in Seq(RouterMessage) /\ bookBox[s] # <<>> /\ Head(bookBox[s]).kind = kind
  BY DEF LineTyped, Take
<1>2. Head(bookBox[s]) \in RouterMessage
  BY <1>1, HeadTailProperties
<1> QED
  BY <1>1, <1>2, MessageId

LEMMA OneUpdate ==
  ASSUME NEW u \in Update
  PROVE  <<u>> \in Seq(Update)
  OBVIOUS

(* The updates on the orders that have expired, one for each.              *)
LEMMA ExpiredUpdates ==
  ASSUME RestingTyped, NEW s \in Symbols, NEW expired \in SUBSET resting[s],
         NEW q \in Bijection(1..Cardinality(expired), expired)
  PROVE  /\ [i \in DOMAIN q |-> <<q[i], "Canceled">>] \in Seq(Update)
         /\ \A i \in DOMAIN q : q[i] \in expired
         /\ \A i, j \in DOMAIN q : q[i] = q[j] => i = j
<1>1. IsFiniteSet(1..submitted)
  BY FS_Interval DEF RestingTyped
<1>2. expired \subseteq 1..submitted /\ expired \subseteq Orders
  BY DEF RestingTyped
<1>3. PICK n \in Nat : n = Cardinality(expired)
  BY <1>1, <1>2, FS_Subset, FS_CardinalityType
<1>4. q \in [1..n -> expired] /\ IsInjective(q)
  BY <1>3 DEF Bijection, Injection
<1>5. \A i \in 1..n : <<q[i], "Canceled">> \in Update
  BY <1>2, <1>4 DEF Update, OrderStatus
<1>6. [i \in DOMAIN q |-> <<q[i], "Canceled">>] \in [1..n -> Update]
  BY <1>4, <1>5
<1>7. [1..n -> Update] \subseteq Seq(Update)
  OBVIOUS
<1>8. \A i, j \in DOMAIN q : q[i] = q[j] => i = j
  BY <1>4 DEF IsInjective
<1> QED
  BY <1>4, <1>6, <1>7, <1>8

(* The updates on the trades of an order, and how many orders it has met.  *)
LEMMA TradeUpdates ==
  ASSUME NEW old \in SUBSET Orders, IsFiniteSet(old), NEW o \in Orders,
         NEW makers \in SUBSET old, NEW gone \in SUBSET old,
         NEW met \in Bijection(1..Cardinality(makers), makers),
         \A i \in DOMAIN met : met[i] \in gone \/ i = Cardinality(makers)
  PROVE  \E n \in Nat :
           /\ n <= Cardinality(gone) + 1
           /\ Trades(o, met, gone) \in Seq(Update) /\ Len(Trades(o, met, gone)) = 2 * n
           /\ \A i \in DOMAIN Trades(o, met, gone) : Trades(o, met, gone)[i][2] # "Canceled"
<1>1. IsFiniteSet(makers) /\ IsFiniteSet(gone)
  BY FS_Subset
<1>2. PICK n \in Nat : n = Cardinality(makers)
  BY <1>1, FS_CardinalityType
<1>3. met \in [1..n -> makers] /\ Len(met) = n
  BY <1>2 DEF Bijection, Injection
<1>4. PICK g \in Nat : g = Cardinality(gone)
  BY <1>1, FS_CardinalityType
<1>5. n <= g + 1
  <2>1. CASE n = 0
    BY <2>1
  <2>2. CASE n # 0
    <3>1. PICK m : m = met[n]
      OBVIOUS
    <3>2. m \in makers
      BY <1>3, <2>2, <3>1
    <3>3. makers \ {m} \subseteq gone
      <4>1. ASSUME NEW x \in makers, x # m PROVE x \in gone
        <5>1. PICK i \in 1..n : met[i] = x
          BY <1>2 DEF Bijection, Surjection
        <5> QED
          BY <1>2, <1>3, <3>1, <4>1, <5>1
      <4> QED
        BY <4>1
    <3>4. Cardinality(makers \ {m}) = n - 1
      BY <1>1, <1>2, <3>2, FS_RemoveElement
    <3>5. Cardinality(makers \ {m}) <= g
      BY <1>1, <1>4, <3>3, FS_Subset
    <3> QED
      BY <1>2, <1>4, <3>4, <3>5
  <2> QED
    BY <2>1, <2>2
<1>6. PICK q : q = Trades(o, met, gone)
  OBVIOUS
<1>7. ASSUME NEW i \in 1..(2 * n) PROVE i % 2 # 1 => i \div 2 \in 1..n
  OBVIOUS
<1>8. DOMAIN q = 1..(2 * n) /\ \A i \in 1..(2 * n) : q[i] \in Update /\ q[i][2] # "Canceled"
  <2>1. q = [i \in 1..(2 * n) |->
               IF i % 2 = 1 THEN <<o, "Trade">>
               ELSE <<met[i \div 2], IF met[i \div 2] \in gone THEN "Filled" ELSE "PartiallyFilled">>]
    BY <1>3, <1>6 DEF Trades
  <2>2. ASSUME NEW i \in 1..(2 * n) PROVE q[i] \in Update /\ q[i][2] # "Canceled"
    <3>1. CASE i % 2 = 1
      BY <2>1, <3>1 DEF Update
    <3>2. CASE i % 2 # 1
      <4>1. PICK k \in 1..n : k = i \div 2
        BY <1>7, <3>2
      <4>2. met[k] \in Orders
        BY <1>3
      <4>3. q[i] = <<met[k], IF met[k] \in gone THEN "Filled" ELSE "PartiallyFilled">>
        BY <2>1, <3>2, <4>1
      <4> QED
        BY <4>2, <4>3 DEF Update, OrderStatus
    <3> QED
      BY <3>1, <3>2
  <2> QED
    BY <2>1, <2>2
<1>9. q \in [1..(2 * n) -> Update]
  <2>1. q = [i \in DOMAIN q |-> q[i]]
    BY <1>6 DEF Trades
  <2> QED
    BY <1>8, <2>1
<1>10. q \in Seq(Update) /\ Len(q) = 2 * n
  BY <1>9
<1> QED
  BY <1>4, <1>5, <1>6, <1>8, <1>10

LEMMA LastUpdates ==
  ASSUME NEW o \in Orders, NEW v \in Verdicts
  PROVE  /\ LastWords(o, v) \in Seq(Update) /\ Len(LastWords(o, v)) \in 0..2
         /\ \A i \in DOMAIN LastWords(o, v) :
              LastWords(o, v)[i][2] = "Canceled" => LastWords(o, v)[i][1] = o /\ "Canceled" \in Range(v)
         /\ \A i, j \in DOMAIN LastWords(o, v) :
              LastWords(o, v)[i][2] = "Canceled" /\ LastWords(o, v)[j][2] = "Canceled" => i = j
<1>1. v \in Seq(OrderStatus) /\ Len(v) <= 2
      /\ \A i, j \in DOMAIN v : v[i] = "Canceled" /\ v[j] = "Canceled" => i = j
  BY ExchangeAssumption
<1>2. PICK n \in Nat : n = Len(v)
  BY <1>1
<1>3. v \in [1..n -> OrderStatus]
  BY <1>1, <1>2
<1>4. PICK q : q = LastWords(o, v)
  OBVIOUS
<1>5. DOMAIN q = 1..n /\ \A i \in 1..n : q[i] = <<o, v[i]>>
  BY <1>3, <1>4 DEF LastWords
<1>6. q \in [1..n -> Update]
  <2>1. \A i \in 1..n : <<o, v[i]>> \in Update
    BY <1>3 DEF Update
  <2> QED
    BY <1>3, <1>4, <2>1 DEF LastWords
<1>7. q \in Seq(Update) /\ Len(q) = n
  BY <1>6
<1>8. \A i \in DOMAIN q : q[i][2] = v[i] /\ q[i][1] = o /\ v[i] \in Range(v)
  BY <1>3, <1>5 DEF Range
<1>9. \A i, j \in DOMAIN q : q[i][2] = "Canceled" /\ q[j][2] = "Canceled" => i = j
  BY <1>1, <1>3, <1>5, <1>8
<1> QED
  BY <1>1, <1>2, <1>4, <1>7, <1>8, <1>9

(***************************************************************************)
(* What a book may answer and let rest when it takes an order o: of all    *)
(* orders only o is reported Canceled, and only if it rests no more than   *)
(* before; every two answers more than four are paid for by an order that  *)
(* rested.                                                                 *)
(***************************************************************************)
OrderReply(s, o, updates, rest) ==
  /\ rest \subseteq resting[s] \cup {o}
  /\ \A i \in DOMAIN updates :
       updates[i][2] = "Canceled" => updates[i][1] = o /\ rest \subseteq resting[s]
  /\ \A i, j \in DOMAIN updates :
       updates[i][2] = "Canceled" /\ updates[j][2] = "Canceled" => i = j
  /\ 8 * Cardinality(rest) + 4 * Len(updates) < 25 + 8 * Cardinality(resting[s])

LEMMA PaidReply ==
  ASSUME NEW j \in Nat, NEW g \in Nat, NEW n \in Nat, NEW k \in Nat, NEW r \in Nat,
         n <= g + 1, k <= 2, r <= (j - g) + 1
  PROVE  8 * r + 4 * (2 * n + k) < 25 + 8 * j
  OBVIOUS

(* w is p and then q, of l and of k entries.                                *)
Joined(w, p, q, l, k) ==
  /\ Len(w) = l + k
  /\ \A i \in DOMAIN w :
       IF i <= l THEN w[i] = p[i] /\ i \in 1..l
                 ELSE i - l \in 1..k /\ w[i] = q[i - l]

LEMMA BothParts ==
  ASSUME NEW T, NEW p \in Seq(T), NEW q \in Seq(T), NEW l \in Nat, l = Len(p), NEW k \in Nat, k = Len(q)
  PROVE  Joined(p \o q, p, q, l, k)
<1>1. PICK w \in Seq(T) : w = p \o q
  BY ConcatProperties
<1>2. Len(w) = l + k
  BY <1>1, ConcatProperties
<1>3. DOMAIN w = 1..(l + k)
  BY <1>2
<1>4. ASSUME NEW i \in 1..(l + k)
      PROVE  IF i <= l THEN w[i] = p[i] /\ i \in 1..l ELSE i - l \in 1..k /\ w[i] = q[i - l]
  BY <1>1
<1> QED
  BY <1>1, <1>2, <1>3, <1>4 DEF Joined

LEMMA SilentReply ==
  ASSUME NEW s \in Symbols, IsFiniteSet(resting[s]), NEW o
  PROVE  OrderReply(s, o, <<>>, resting[s] \cup {o})
<1>1. PICK updates : updates = <<>>
  OBVIOUS
<1>2. DOMAIN updates = {} /\ Len(updates) = 0
  BY <1>1
<1>3. PICK j \in Nat : j = Cardinality(resting[s])
  BY FS_CardinalityType
<1>4. Cardinality(resting[s] \cup {o}) \in {j, j + 1}
  BY <1>3, FS_AddElement
<1>5. OrderReply(s, o, updates, resting[s] \cup {o})
  BY <1>2, <1>3, <1>4 DEF OrderReply
<1> QED
  BY <1>1, <1>5

LEMMA SweepReply ==
  ASSUME NEW s \in Symbols, IsFiniteSet(resting[s]), resting[s] \subseteq Orders, NEW o \in Orders,
         NEW makers \in SUBSET resting[s], NEW gone \in SUBSET resting[s],
         NEW verdict \in Verdicts, NEW again \in SUBSET {o},
         again # {} => Range(verdict) \cap {"Canceled", "Rejected"} = {},
         NEW met \in Bijection(1..Cardinality(makers), makers),
         \A i \in DOMAIN met : met[i] \in gone \/ i = Cardinality(makers)
  PROVE  /\ Trades(o, met, gone) \o LastWords(o, verdict) \in Seq(Update)
         /\ OrderReply(s, o, Trades(o, met, gone) \o LastWords(o, verdict),
                       (resting[s] \ gone) \cup again)
<1>1. PICK old \in SUBSET Orders : old = resting[s]
  OBVIOUS
<1>2. IsFiniteSet(old) /\ makers \subseteq old /\ gone \subseteq old
  BY <1>1
<1>3. PICK n \in Nat :
        /\ n <= Cardinality(gone) + 1
        /\ Trades(o, met, gone) \in Seq(Update) /\ Len(Trades(o, met, gone)) = 2 * n
        /\ \A i \in DOMAIN Trades(o, met, gone) : Trades(o, met, gone)[i][2] # "Canceled"
  BY <1>2, TradeUpdates
<1>4. PICK p \in Seq(Update) : p = Trades(o, met, gone)
  BY <1>3
<1>5. PICK q \in Seq(Update) : q = LastWords(o, verdict)
  BY LastUpdates
<1>6. PICK k \in Nat : k = Len(q) /\ k <= 2
  BY <1>5, LastUpdates
<1>7. Len(p) = 2 * n /\ \A i \in 1..(2 * n) : p[i][2] # "Canceled"
  BY <1>3, <1>4
<1>8. /\ \A i \in 1..k : q[i][2] = "Canceled" => q[i][1] = o /\ "Canceled" \in Range(verdict)
      /\ \A i, j \in 1..k : q[i][2] = "Canceled" /\ q[j][2] = "Canceled" => i = j
  BY <1>5, <1>6, LastUpdates
<1>9. PICK updates \in Seq(Update) : updates = p \o q
  BY ConcatProperties
<1>10. /\ Len(updates) = 2 * n + k
       /\ \A i \in DOMAIN updates :
            IF i <= 2 * n THEN updates[i] = p[i] /\ i \in 1..(2 * n)
                          ELSE i - 2 * n \in 1..k /\ updates[i] = q[i - 2 * n]
  <2>1. PICK l \in Nat : l = 2 * n
    OBVIOUS
  <2>2. l = Len(p)
    BY <1>7, <2>1
  <2>3. Joined(p \o q, p, q, l, k)
    BY ONLY p \in Seq(Update), q \in Seq(Update), l \in Nat, k \in Nat, <1>6, <2>2, BothParts
  <2> QED
    BY <1>9, <2>1, <2>3 DEF Joined
<1>11. PICK rest : rest = (old \ gone) \cup again
  OBVIOUS
<1>12. rest \subseteq old \cup {o}
  BY <1>11
<1>13. ASSUME NEW i \in DOMAIN updates, updates[i][2] = "Canceled"
       PROVE  i - 2 * n \in 1..k /\ q[i - 2 * n][2] = "Canceled"
              /\ updates[i][1] = o /\ rest \subseteq old
  <2>1. i - 2 * n \in 1..k /\ updates[i] = q[i - 2 * n]
    BY <1>7, <1>10, <1>13
  <2>2. updates[i][1] = o /\ "Canceled" \in Range(verdict)
    BY <1>8, <1>13, <2>1
  <2>3. again = {}
    BY <2>2
  <2> QED
    BY <1>11, <1>13, <2>1, <2>2, <2>3
<1>14. \A i, j \in DOMAIN updates : updates[i][2] = "Canceled" /\ updates[j][2] = "Canceled" => i = j
  <2>1. ASSUME NEW i \in DOMAIN updates, NEW j \in DOMAIN updates,
               updates[i][2] = "Canceled", updates[j][2] = "Canceled"
        PROVE  i = j
    <3>1. i - 2 * n = j - 2 * n
      BY <1>8, <1>13, <2>1
    <3>2. i \in Nat /\ j \in Nat
      BY <2>1
    <3> QED
      BY <3>1, <3>2
  <2> QED
    BY <2>1
<1>15. PICK j \in Nat, g \in Nat : j = Cardinality(old) /\ g = Cardinality(gone)
  BY <1>2, FS_Subset, FS_CardinalityType
<1>16. Cardinality(rest) \in Nat /\ Cardinality(rest) <= (j - g) + 1
  <2>1. Cardinality(old \ gone) = Cardinality(old) - Cardinality(old \cap gone)
        /\ IsFiniteSet(old \ gone)
    BY <1>2, FS_Difference
  <2>2. old \cap gone = gone
    BY <1>2
  <2>3. Cardinality(old \ gone) = j - g
    BY <1>15, <2>1, <2>2
  <2>4. rest \subseteq (old \ gone) \cup {o}
    BY <1>11
  <2>5. IsFiniteSet((old \ gone) \cup {o}) /\ Cardinality((old \ gone) \cup {o}) \in {j - g, (j - g) + 1}
    BY <2>1, <2>3, FS_AddElement, ZenonT(40)
  <2>6. IsFiniteSet(rest) /\ Cardinality(rest) <= Cardinality((old \ gone) \cup {o})
    BY <2>4, <2>5, FS_Subset
  <2>7. Cardinality(rest) \in Nat
    BY <2>6, FS_CardinalityType
  <2>8. PICK x \in Nat : x = Cardinality(rest)
    BY <2>7
  <2>9. PICK y \in {j - g, (j - g) + 1} : y = Cardinality((old \ gone) \cup {o})
    BY <2>5
  <2>10. x <= y
    BY <2>6, <2>8, <2>9
  <2> QED
    BY <1>15, <2>8, <2>9, <2>10
<1>17. PICK r \in Nat : r = Cardinality(rest) /\ r <= (j - g) + 1
  BY <1>16
<1>18. 8 * r + 4 * (2 * n + k) < 25 + 8 * j
  <2>1. n <= g + 1
    BY <1>3, <1>15
  <2>2. k \in Nat /\ k <= 2
    BY <1>6
  <2> QED
    BY <1>15, <1>17, <2>1, <2>2, PaidReply
<1>19. 8 * Cardinality(rest) + 4 * Len(updates) < 25 + 8 * Cardinality(old)
  BY <1>10, <1>15, <1>17, <1>18
<1>20. OrderReply(s, o, updates, rest)
  BY <1>1, <1>12, <1>13, <1>14, <1>19 DEF OrderReply
<1> QED
  BY <1>1, <1>4, <1>5, <1>9, <1>11, <1>20

LEMMA TakeOrderReply ==
  ASSUME LineTyped, RestingTyped, NEW s \in Symbols, TakeOrder(s)
  PROVE  \E o \in Orders, updates \in Seq(Update) : \E rest :
           /\ o = Head(bookBox[s]).id
           /\ Reply(s, updates) /\ resting' = [resting EXCEPT ![s] = rest]
           /\ OrderReply(s, o, updates, rest)
<1>1. Take(s, "SubmitOrder")
  BY DEF TakeOrder
<1>2. PICK o \in Orders : o = Head(bookBox[s]).id
  BY <1>1, HeadOfBookBox
<1>3. IsFiniteSet(resting[s]) /\ resting[s] \subseteq Orders
  <2>1. IsFiniteSet(1..submitted)
    BY FS_Interval DEF RestingTyped
  <2> QED
    BY <2>1, FS_Subset DEF RestingTyped
<1>4. CASE resting' = [resting EXCEPT ![s] = @ \cup {o}] /\ Reply(s, <<>>)
  <2>1. PICK updates : updates = <<>>
    OBVIOUS
  <2>2. <<>> \in Seq(Update)
    OBVIOUS
  <2>3. PICK rest : rest = resting[s] \cup {o}
    OBVIOUS
  <2>4. resting' = [resting EXCEPT ![s] = rest] /\ Reply(s, updates)
    BY <1>4, <2>1, <2>3
  <2>5. OrderReply(s, o, updates, rest)
    BY <1>3, <2>1, <2>3, SilentReply
  <2> QED
    BY <1>2, <2>1, <2>2, <2>4, <2>5
<1>5. ASSUME NEW makers \in SUBSET resting[s], NEW gone \in SUBSET resting[s],
             NEW verdict \in Verdicts, NEW again \in SUBSET {o},
             again # {} => Range(verdict) \cap {"Canceled", "Rejected"} = {},
             resting' = [resting EXCEPT ![s] = (@ \ gone) \cup again],
             NEW met \in Bijection(1..Cardinality(makers), makers),
             \A i \in DOMAIN met : met[i] \in gone \/ i = Cardinality(makers),
             Reply(s, Trades(o, met, gone) \o LastWords(o, verdict))
      PROVE  \E updates \in Seq(Update) : \E rest :
               /\ Reply(s, updates) /\ resting' = [resting EXCEPT ![s] = rest]
               /\ OrderReply(s, o, updates, rest)
  <2>1. PICK updates : updates = Trades(o, met, gone) \o LastWords(o, verdict)
    OBVIOUS
  <2>2. PICK rest : rest = (resting[s] \ gone) \cup again
    OBVIOUS
  <2>3. resting' = [resting EXCEPT ![s] = rest] /\ Reply(s, updates)
    BY <1>5, <2>1, <2>2
  <2>4. /\ Trades(o, met, gone) \o LastWords(o, verdict) \in Seq(Update)
        /\ OrderReply(s, o, Trades(o, met, gone) \o LastWords(o, verdict),
                      (resting[s] \ gone) \cup again)
    BY <1>3, <1>5, SweepReply
  <2> QED
    BY <2>1, <2>2, <2>3, <2>4
<1>6. \/ resting' = [resting EXCEPT ![s] = @ \cup {o}] /\ Reply(s, <<>>)
      \/ \E makers \in SUBSET resting[s], gone \in SUBSET resting[s],
            verdict \in Verdicts, again \in SUBSET {o} :
           /\ again # {} => Range(verdict) \cap {"Canceled", "Rejected"} = {}
           /\ resting' = [resting EXCEPT ![s] = (@ \ gone) \cup again]
           /\ \E met \in Bijection(1..Cardinality(makers), makers) :
                /\ \A i \in DOMAIN met : met[i] \in gone \/ i = Cardinality(makers)
                /\ Reply(s, Trades(o, met, gone) \o LastWords(o, verdict))
  BY <1>2, Zenon DEF TakeOrder
<1> QED
  BY <1>2, <1>4, <1>5, <1>6, Zenon

LEMMA BookTakeReplies ==
  ASSUME LineTyped, RestingTyped, NEW s \in Symbols, BookTake(s)
  PROVE  TakeReply(s)
<1>1. ASSUME TakeOrder(s) PROVE TakeReply(s)
  <2>1. Take(s, "SubmitOrder")
    BY <1>1 DEF TakeOrder
  <2>2. answering[s] = <<>> /\ UNCHANGED <<exchangeBox, clientVars>>
    BY <2>1 DEF Take
  <2>3. \E updates \in Seq(Update) : Reply(s, updates)
    BY <1>1, TakeOrderReply
  <2> QED
    BY <2>2, <2>3, Zenon DEF TakeReply
<1>2. ASSUME TakeCancel(s) PROVE TakeReply(s)
  <2>1. Take(s, "CancelOrder")
    BY <1>2 DEF TakeCancel
  <2>2. answering[s] = <<>> /\ UNCHANGED <<exchangeBox, clientVars>>
    BY <2>1 DEF Take
  <2>3. PICK o \in Orders : o = Head(bookBox[s]).id
    BY <2>1, HeadOfBookBox
  <2>4. PICK status : status = IF o \in resting[s] THEN "Canceled" ELSE "Rejected"
    OBVIOUS
  <2>5. <<o, status>> \in Update
    BY <2>4 DEF Update, OrderStatus
  <2>6. Reply(s, <<<<o, status>>>>)
    BY <1>2, <2>3, <2>4 DEF TakeCancel
  <2> QED
    BY <2>2, <2>5, <2>6, OneUpdate DEF TakeReply
<1>3. ASSUME TakeHeartbeat(s) PROVE TakeReply(s)
  <2>1. Take(s, "Heartbeat")
    BY <1>3 DEF TakeHeartbeat
  <2>2. answering[s] = <<>> /\ UNCHANGED <<exchangeBox, clientVars>>
    BY <2>1 DEF Take
  <2>3. PICK expired \in SUBSET resting[s] :
          \E q \in Bijection(1..Cardinality(expired), expired) :
            Reply(s, [i \in DOMAIN q |-> <<q[i], "Canceled">>])
    BY <1>3 DEF TakeHeartbeat
  <2>4. PICK q \in Bijection(1..Cardinality(expired), expired) :
          Reply(s, [i \in DOMAIN q |-> <<q[i], "Canceled">>])
    BY <2>3
  <2>5. [i \in DOMAIN q |-> <<q[i], "Canceled">>] \in Seq(Update)
    BY ExpiredUpdates
  <2> QED
    BY <2>2, <2>4, <2>5 DEF TakeReply
<1> QED
  BY <1>1, <1>2, <1>3 DEF BookTake

LEMMA AnswerKinds ==
  ASSUME LineTyped, RestingTyped, [Next]_vars
  PROVE  \/ AnswerHold
         \/ \E s \in Symbols : TakeReply(s) \/ BookSend(s)
         \/ ForwardTake \/ ForwardSend \/ NotifyClients \/ Read \/ DropReceiver
<1>1. ASSUME NEW c \in Senders, NEW m, Begin(c, m) PROVE AnswerHold
  BY <1>1 DEF Begin, AnswerHold, bookVars
<1>2. ASSUME NEW c \in Callers, NEW o \in Orders, SubmitOrder(c, o) \/ CancelOrder(c, o)
      PROVE  AnswerHold
  BY <1>1, <1>2 DEF SubmitOrder, CancelOrder, Senders, AnswerHold, bookVars
<1>3. ASSUME Beat PROVE AnswerHold
  BY <1>1, <1>3 DEF Beat, Senders
<1>4. ASSUME NEW c \in Senders, Accept(c) PROVE AnswerHold
  BY <1>4 DEF Accept, AnswerHold, bookVars
<1>5. ASSUME RouterStep PROVE AnswerHold
  BY <1>5 DEF RouterStep, AnswerHold, bookVars
<1>6. ASSUME UNCHANGED vars PROVE AnswerHold
  BY <1>6 DEF vars, AnswerHold, bookVars
<1> QED
  BY <1>2, <1>3, <1>4, <1>5, <1>6, BookTakeReplies DEF Next, Work

(* What a book is going to send.                                           *)
LEMMA ReplyFacts ==
  ASSUME AnswersTyped, NEW s \in Symbols, NEW updates \in Seq(Update), Reply(s, updates)
  PROVE  /\ answering' \in [Symbols -> Seq(AnswerMessage)]
         /\ answered' \in [Symbols -> Nat]
         /\ \A u \in Symbols \ {s} : answering'[u] = answering[u] /\ answered'[u] = answered[u]
         /\ Len(answering'[s]) = Len(updates)
         /\ answered'[s] = answered[s] + Len(updates)
         /\ DOMAIN answering'[s] = DOMAIN updates
         /\ \A i \in DOMAIN updates :
              answering'[s][i] = Answer(s, updates[i][1], updates[i][2], answered[s] + i)
<1>1. PICK a \in Nat : a = answered[s]
  BY DEF AnswersTyped
<1>2. PICK n \in Nat : n = Len(updates)
  OBVIOUS
<1>3. DOMAIN updates = 1..n /\ \A i \in 1..n : updates[i] \in Update
  BY <1>2
<1>4. PICK q : q = [i \in DOMAIN updates |-> Answer(s, updates[i][1], updates[i][2], a + i)]
  OBVIOUS
<1>5. \A i \in 1..n : Answer(s, updates[i][1], updates[i][2], a + i) \in AnswerMessage
  BY <1>3 DEF Answer, AnswerMessage, Update
<1>6. q \in [1..n -> AnswerMessage]
  BY <1>3, <1>4, <1>5
<1>7. q \in Seq(AnswerMessage) /\ Len(q) = n
  BY <1>6
<1>8. answering' = [answering EXCEPT ![s] = q] /\ answered' = [answered EXCEPT ![s] = @ + n]
  BY <1>1, <1>2, <1>4 DEF Reply
<1>9. answering'[s] = q /\ answered'[s] = a + n
  BY <1>1, <1>8 DEF AnswersTyped
<1>10. /\ answering' \in [Symbols -> Seq(AnswerMessage)]
       /\ answered' \in [Symbols -> Nat]
       /\ \A u \in Symbols \ {s} : answering'[u] = answering[u] /\ answered'[u] = answered[u]
  BY <1>7, <1>8 DEF AnswersTyped
<1> QED
  BY <1>1, <1>2, <1>3, <1>4, <1>7, <1>9, <1>10

(* What the task sends on to the client.                                   *)
LEMMA AnswerLetter ==
  /\ AnswerMessage \subseteq Letter
  /\ \A q \in Seq(AnswerMessage) : q \in Seq(Letter)
  BY DEF Letter

LEMMA DeliverTyped ==
  ASSUME AnswersTyped, NEW m \in Letter, Deliver(m), UNCHANGED receiver
  PROVE  clientBox' \in Seq(Letter) /\ (receiver' = Nobody => clientBox' = <<>>)
<1>1. CASE receiver # Nobody /\ clientBox' = Append(clientBox, m)
  <2>1. Append(clientBox, m) \in Seq(Letter)
    BY AppendProperties DEF AnswersTyped
  <2> QED
    BY <1>1, <2>1
<1>2. CASE receiver = Nobody /\ UNCHANGED clientBox
  BY <1>2 DEF AnswersTyped
<1> QED
  BY <1>1, <1>2 DEF Deliver

LEMMA AnswersTypedKept ==
  ASSUME AnswersTyped,
         \/ AnswerHold
         \/ \E s \in Symbols : TakeReply(s) \/ BookSend(s)
         \/ ForwardTake \/ ForwardSend \/ NotifyClients \/ Read \/ DropReceiver
  PROVE  AnswersTyped'
<1>1. CASE AnswerHold
  BY <1>1 DEF AnswersTyped, AnswerHold, clientVars
<1>2. ASSUME NEW s \in Symbols, TakeReply(s) PROVE AnswersTyped'
  <2>1. PICK updates \in Seq(Update) : Reply(s, updates)
    BY <1>2 DEF TakeReply
  <2>2. UNCHANGED <<exchangeBox, clientVars>>
    BY <1>2 DEF TakeReply
  <2>3. answering' \in [Symbols -> Seq(AnswerMessage)] /\ answered' \in [Symbols -> Nat]
    BY <2>1, ReplyFacts
  <2>4. ASSUME NEW u \in Symbols, NEW i \in DOMAIN answering'[u]
        PROVE  answering'[u][i].from = u
    <3>1. CASE u = s
      <4>1. /\ DOMAIN answering'[s] = DOMAIN updates
            /\ \A k \in DOMAIN updates :
                 answering'[s][k] = Answer(s, updates[k][1], updates[k][2], answered[s] + k)
        BY <2>1, ReplyFacts
      <4>2. answering'[u][i] = Answer(s, updates[i][1], updates[i][2], answered[s] + i)
        BY <2>4, <3>1, <4>1
      <4> QED
        BY <3>1, <4>2 DEF Answer
    <3>2. CASE u # s
      <4>1. answering'[u] = answering[u]
        BY <2>1, <3>2, ReplyFacts
      <4>2. \A k \in DOMAIN answering[u] : answering[u][k].from = u
        BY DEF AnswersTyped
      <4> QED
        BY <2>4, <4>1, <4>2
    <3> QED
      BY <3>1, <3>2
  <2> QED
    BY <2>2, <2>3, <2>4 DEF AnswersTyped, clientVars
<1>3. ASSUME NEW s \in Symbols, BookSend(s) PROVE AnswersTyped'
  <2>1. PICK q : q = answering[s]
    OBVIOUS
  <2>2. q \in Seq(AnswerMessage) /\ q # <<>> /\ \A i \in DOMAIN q : q[i].from = s
    BY <1>3, <2>1 DEF AnswersTyped, BookSend
  <2>3. /\ exchangeBox' = Append(exchangeBox, Head(q))
        /\ answering' = [answering EXCEPT ![s] = Tail(q)]
        /\ UNCHANGED <<answered, clientVars>>
    BY <1>3, <2>1 DEF BookSend
  <2>4. Head(q) \in AnswerMessage /\ Tail(q) \in Seq(AnswerMessage)
        /\ \A i \in DOMAIN Tail(q) : Tail(q)[i].from = s
    BY <2>2
  <2>5. exchangeBox' \in Seq(AnswerMessage)
    BY <2>3, <2>4, AppendProperties DEF AnswersTyped
  <2>6. /\ answering' \in [Symbols -> Seq(AnswerMessage)]
        /\ \A u \in Symbols : \A i \in DOMAIN answering'[u] : answering'[u][i].from = u
    BY <2>3, <2>4 DEF AnswersTyped
  <2> QED
    BY <2>3, <2>5, <2>6 DEF AnswersTyped, clientVars
<1>4. CASE ForwardTake
  <2>1. exchangeBox \in Seq(AnswerMessage) /\ exchangeBox # <<>>
    BY <1>4 DEF AnswersTyped, ForwardTake
  <2>2. PICK m \in AnswerMessage : m = Head(exchangeBox)
    BY <2>1, HeadTailProperties
  <2>3. exchangeBox' \in Seq(AnswerMessage)
    BY <1>4, <2>1, HeadTailProperties DEF ForwardTake
  <2>4. UNCHANGED <<answering, answered, read, receiver>> /\ m \in Letter
    BY <1>4, AnswerLetter DEF ForwardTake, bookVars
  <2>5. CASE Deliver(m) /\ UNCHANGED forwarding
    BY <2>3, <2>4, <2>5, DeliverTyped DEF AnswersTyped
  <2>6. CASE forwarding' = m /\ UNCHANGED clientBox
    BY <2>3, <2>4, <2>6 DEF AnswersTyped
  <2> QED
    BY <1>4, <2>2, <2>5, <2>6 DEF ForwardTake
<1>5. CASE ForwardSend
  <2>1. PICK m \in AnswerMessage : m = forwarding
    BY <1>5 DEF ForwardSend, AnswersTyped
  <2>2. m \in Letter /\ Deliver(m) /\ UNCHANGED <<answering, answered, read, receiver, exchangeBox>>
    BY <1>5, <2>1, AnswerLetter DEF ForwardSend, bookVars
  <2>3. clientBox' \in Seq(Letter) /\ (receiver' = Nobody => clientBox' = <<>>)
    BY <2>2, DeliverTyped
  <2>4. forwarding' = NoMessage
    BY <1>5 DEF ForwardSend
  <2> QED
    BY <2>2, <2>3, <2>4 DEF AnswersTyped
<1>6. CASE NotifyClients
  <2>1. clientBox' \in Seq(Letter)
    BY <1>6, NoticeLetter, AppendProperties DEF NotifyClients, AnswersTyped
  <2>2. receiver' # Nobody /\ UNCHANGED <<answering, answered, exchangeBox, forwarding, read, receiver>>
    BY <1>6 DEF NotifyClients, bookVars
  <2> QED
    BY <2>1, <2>2 DEF AnswersTyped
<1>7. CASE Read
  <2>1. clientBox \in Seq(Letter) /\ clientBox # <<>>
    BY <1>7 DEF Read, AnswersTyped
  <2>2. clientBox' \in Seq(Letter) /\ receiver # Nobody
    BY <1>7, <2>1, HeadTailProperties DEF Read, AnswersTyped
  <2>3. UNCHANGED <<answering, answered, exchangeBox, forwarding, receiver>>
    BY <1>7 DEF Read, bookVars
  <2>4. read' \in [Symbols -> Nat]
    <3>1. PICK m \in Letter : m = Head(clientBox)
      BY <2>1, HeadTailProperties
    <3>2. CASE m = Notice
      BY <1>7, <3>1, <3>2 DEF Read, AnswersTyped
    <3>3. CASE m # Notice
      <4>1. m.from \in Symbols
        BY <3>1, <3>3 DEF Letter, AnswerMessage
      <4>2. read' = [read EXCEPT ![m.from] = @ + 1]
        BY <1>7, <3>1, <3>3 DEF Read
      <4> QED
        BY <4>1, <4>2 DEF AnswersTyped
    <3> QED
      BY <3>2, <3>3
  <2> QED
    BY <2>2, <2>3, <2>4 DEF AnswersTyped
<1>8. CASE DropReceiver
  BY <1>8 DEF DropReceiver, AnswersTyped, bookVars
<1> QED
  BY <1>1, <1>2, <1>3, <1>4, <1>5, <1>6, <1>7, <1>8

-----------------------------------------------------------------------------
(*                       The order of the answers                          *)

Hand == IF forwarding = NoMessage THEN <<>> ELSE <<forwarding>>
Sent(s) == answered[s] - Len(answering[s])

(* AnsweredInOrder for one book, with the line cut where a letter waits.   *)
AnswerOrder(s) ==
  /\ Sent(s) \in Nat
  /\ Staged(s, clientBox, Hand, exchangeBox, read[s], Sent(s))
  /\ \A i \in DOMAIN answering[s] : answering[s][i].place = Sent(s) + i

AnswersOrdered == receiver # Nobody => \A s \in Symbols : AnswerOrder(s)

LEMMA HoldOrder ==
  ASSUME NEW s \in Symbols, AnswerOrder(s),
         answering'[s] = answering[s], answered'[s] = answered[s], read'[s] = read[s],
         Staged(s, clientBox', Hand', exchangeBox', read[s], Sent(s))
  PROVE  AnswerOrder(s)'
<1>1. Sent(s)' = Sent(s)
  BY DEF Sent
<1>2. Staged(s, clientBox, Hand, exchangeBox, read[s], Sent(s))'
  BY <1>1 DEF Staged
<1> QED
  BY <1>1, <1>2 DEF AnswerOrder

LEMMA TakeReplyOrder ==
  ASSUME AnswersTyped, NEW u \in Symbols, TakeReply(u), NEW s \in Symbols, AnswerOrder(s)
  PROVE  AnswerOrder(s)'
<1>1. PICK updates \in Seq(Update) : Reply(u, updates)
  BY DEF TakeReply
<1>2. UNCHANGED <<exchangeBox, clientBox, Hand, read>> /\ answering[u] = <<>>
  BY DEF TakeReply, clientVars, Hand
<1>3. CASE s # u
  <2>1. answering'[s] = answering[s] /\ answered'[s] = answered[s]
    BY <1>1, <1>3, ReplyFacts
  <2>2. Staged(s, clientBox', Hand', exchangeBox', read[s], Sent(s))
    BY <1>2 DEF AnswerOrder
  <2> QED
    BY <1>2, <2>1, <2>2, HoldOrder
<1>4. CASE s = u
  <2>1. PICK a \in Nat : a = answered[s]
    BY DEF AnswersTyped
  <2>2. PICK n \in Nat : n = Len(updates)
    OBVIOUS
  <2>3. /\ Len(answering'[s]) = n /\ answered'[s] = a + n
        /\ DOMAIN answering'[s] = DOMAIN updates
        /\ \A i \in DOMAIN updates :
             answering'[s][i] = Answer(s, updates[i][1], updates[i][2], a + i)
    BY <1>1, <1>4, <2>1, <2>2, ReplyFacts
  <2>4. Sent(s) = a
    <3>1. Len(answering[s]) = 0
      BY <1>2, <1>4
    <3> QED
      BY <2>1, <3>1 DEF Sent
  <2>5. Sent(s)' = a
    BY <2>3 DEF Sent
  <2>6. \A i \in DOMAIN answering'[s] : answering'[s][i].place = a + i
    <3>1. SUFFICES ASSUME NEW i \in DOMAIN updates PROVE answering'[s][i].place = a + i
      BY <2>3
    <3>2. answering'[s][i] = Answer(s, updates[i][1], updates[i][2], a + i)
      BY <2>3
    <3> QED
      BY <3>2 DEF Answer
  <2>7. Staged(s, clientBox, Hand, exchangeBox, read[s], Sent(s))'
    BY <1>2, <2>4, <2>5 DEF AnswerOrder, Staged
  <2> QED
    BY <2>5, <2>6, <2>7 DEF AnswerOrder
<1> QED
  BY <1>3, <1>4

LEMMA BookSendOrder ==
  ASSUME AnswersTyped, NEW u \in Symbols, BookSend(u), NEW s \in Symbols, AnswerOrder(s)
  PROVE  AnswerOrder(s)'
<1>1. PICK q : q = answering[u]
  OBVIOUS
<1>2. PICK m : m = Head(q)
  OBVIOUS
<1>3. q \in Seq(AnswerMessage) /\ q # <<>> /\ \A i \in DOMAIN q : q[i].from = u
  BY <1>1 DEF AnswersTyped, BookSend
<1>4. /\ exchangeBox' = Append(exchangeBox, m)
      /\ answering' = [answering EXCEPT ![u] = Tail(q)]
      /\ UNCHANGED <<answered, clientBox, Hand, read>>
  BY <1>1, <1>2 DEF BookSend, clientVars, Hand
<1>5. PICK n \in Nat \ {0} : n = Len(q)
  BY <1>3
<1>6. /\ m = q[1] /\ m \in AnswerMessage /\ m.from = u
      /\ Len(Tail(q)) = n - 1 /\ DOMAIN q = 1..n /\ DOMAIN Tail(q) = 1..n - 1
      /\ \A i \in 1..n - 1 : Tail(q)[i] = q[i + 1]
  BY <1>2, <1>3, <1>5
<1>7. m \in Letter /\ exchangeBox \in Seq(Letter) /\ read[s] \in Nat /\ Sent(s) \in Nat
      /\ Staged(s, clientBox, Hand, exchangeBox, read[s], Sent(s))
  BY <1>6, AnswerLetter DEF AnswersTyped, AnswerOrder
<1>8. PICK lo \in Nat, hi \in Nat, x \in Seq(Letter) :
        lo = read[s] /\ hi = Sent(s) /\ x = exchangeBox
  BY <1>7
<1>9. PICK c, h : c = clientBox /\ h = Hand
  OBVIOUS
<1>10. /\ m.from # s => Staged(s, c, h, Append(x, m), lo, hi)
       /\ m.from = s /\ m.place = hi + 1 => Staged(s, c, h, Append(x, m), lo, hi + 1)
  BY <1>7, <1>8, <1>9, StagedSend
<1>11. CASE s # u
  <2>1. answering'[s] = answering[s]
    BY <1>4, <1>11 DEF AnswersTyped
  <2>2. Staged(s, c, h, Append(x, m), lo, hi)
    BY <1>6, <1>10, <1>11
  <2>3. Staged(s, clientBox', Hand', exchangeBox', read[s], Sent(s))
    <3>1. /\ clientBox' = c /\ Hand' = h /\ exchangeBox' = Append(x, m)
          /\ read[s] = lo /\ Sent(s) = hi
      BY <1>4, <1>8, <1>9
    <3> QED
      BY <2>2, <3>1, Zenon
  <2> QED
    BY <1>4, <2>1, <2>3, HoldOrder
<1>12. CASE s = u
  <2>1. answering'[s] = Tail(q)
    BY <1>4, <1>12 DEF AnswersTyped
  <2>2. PICK a \in Nat : a = answered[s]
    BY DEF AnswersTyped
  <2>3. hi = a - n
    BY <1>1, <1>5, <1>8, <1>12, <2>2 DEF Sent
  <2>4. Sent(s)' = hi + 1
    <3>1. Sent(s)' = a - (n - 1)
      BY <1>4, <1>6, <2>1, <2>2 DEF Sent
    <3> QED
      BY <2>3, <3>1
  <2>5. \A i \in 1..n : q[i].place = hi + i
    BY <1>1, <1>6, <1>8, <1>12 DEF AnswerOrder
  <2>6. m.place = hi + 1
    BY <1>6, <2>5
  <2>7. Staged(s, c, h, Append(x, m), lo, hi + 1)
    BY <1>6, <1>10, <1>12, <2>6
  <2>8. Staged(s, clientBox, Hand, exchangeBox, read[s], Sent(s))'
    BY <1>4, <1>8, <1>9, <2>4, <2>7 DEF Staged
  <2>9. \A i \in 1..n - 1 : Tail(q)[i].place = hi + 1 + i
    <3>1. SUFFICES ASSUME NEW i \in 1..n - 1 PROVE Tail(q)[i].place = hi + 1 + i
      OBVIOUS
    <3>2. i + 1 \in 1..n /\ Tail(q)[i] = q[i + 1]
      BY <1>6
    <3>3. q[i + 1].place = hi + (i + 1)
      BY <2>5, <3>2
    <3>4. hi + (i + 1) = hi + 1 + i
      OBVIOUS
    <3> QED
      BY <3>2, <3>3, <3>4
  <2> QED
    BY <1>6, <2>1, <2>4, <2>8, <2>9 DEF AnswerOrder
<1> QED
  BY <1>11, <1>12

LEMMA ForwardTakeOrder ==
  ASSUME AnswersTyped, ForwardTake, receiver # Nobody, NEW s \in Symbols, AnswerOrder(s)
  PROVE  AnswerOrder(s)'
<1>1. PICK lo \in Nat, hi \in Nat, c \in Seq(Letter), x \in Seq(Letter) :
        lo = read[s] /\ hi = Sent(s) /\ c = clientBox /\ x = exchangeBox
  BY AnswerLetter DEF AnswersTyped, AnswerOrder
<1>2. Staged(s, c, <<>>, x, lo, hi) /\ x # <<>>
  BY <1>1 DEF AnswerOrder, ForwardTake, Hand
<1>3. PICK m : m = Head(x)
  OBVIOUS
<1>4. m \in AnswerMessage /\ m \in Letter /\ m # NoMessage
  BY <1>1, <1>2, <1>3, HeadTailProperties, AnswerLetter, ExchangeAssumption DEF AnswersTyped
<1>5. Staged(s, c, <<m>>, Tail(x), lo, hi)
  BY <1>2, <1>3, StagedTake
<1>6. UNCHANGED <<answering, answered, read>> /\ exchangeBox' = Tail(x)
  BY <1>1 DEF ForwardTake, bookVars
<1>7. CASE clientBox' = Append(c, m) /\ UNCHANGED forwarding
  <2>1. Staged(s, Append(c, m), <<>>, Tail(x), lo, hi)
    BY <1>4, <1>5, StagedPass
  <2>2. Hand' = <<>>
    BY <1>7 DEF Hand, ForwardTake
  <2>3. Staged(s, clientBox', Hand', exchangeBox', read[s], Sent(s))
    BY <1>1, <1>6, <1>7, <2>1, <2>2
  <2> QED
    BY <1>6, <2>3, HoldOrder
<1>8. CASE forwarding' = m /\ UNCHANGED clientBox
  <2>1. Hand' = <<m>>
    BY <1>4, <1>8 DEF Hand
  <2>2. Staged(s, clientBox', Hand', exchangeBox', read[s], Sent(s))
    BY <1>1, <1>5, <1>6, <1>8, <2>1
  <2> QED
    BY <1>6, <2>2, HoldOrder
<1> QED
  BY <1>1, <1>3, <1>7, <1>8 DEF ForwardTake, Deliver

LEMMA ForwardSendOrder ==
  ASSUME AnswersTyped, ForwardSend, receiver # Nobody, NEW s \in Symbols, AnswerOrder(s)
  PROVE  AnswerOrder(s)'
<1>1. PICK lo \in Nat, hi \in Nat, c \in Seq(Letter) :
        lo = read[s] /\ hi = Sent(s) /\ c = clientBox
  BY DEF AnswersTyped, AnswerOrder
<1>2. PICK x : x = exchangeBox
  OBVIOUS
<1>3. PICK m : m = forwarding
  OBVIOUS
<1>4. m # NoMessage /\ m \in Letter
  BY <1>3, AnswerLetter DEF ForwardSend, AnswersTyped
<1>5. Staged(s, c, <<m>>, x, lo, hi)
  BY <1>1, <1>3, <1>4, <1>2 DEF AnswerOrder, Hand
<1>6. Staged(s, Append(c, m), <<>>, x, lo, hi)
  BY <1>4, <1>5, StagedPass
<1>7. /\ UNCHANGED <<answering, answered, read, exchangeBox>>
      /\ clientBox' = Append(c, m) /\ forwarding' = NoMessage
  BY <1>1, <1>3 DEF ForwardSend, Deliver, bookVars
<1>8. Staged(s, clientBox', Hand', exchangeBox', read[s], Sent(s))
  BY <1>1, <1>6, <1>7, <1>2 DEF Hand
<1> QED
  BY <1>7, <1>8, HoldOrder

LEMMA NoticeOrder ==
  ASSUME AnswersTyped, NotifyClients, NEW s \in Symbols, AnswerOrder(s)
  PROVE  AnswerOrder(s)'
<1>1. PICK lo \in Nat, hi \in Nat, c \in Seq(Letter) :
        lo = read[s] /\ hi = Sent(s) /\ c = clientBox
  BY DEF AnswersTyped, AnswerOrder
<1>2. PICK h, x : h = Hand /\ x = exchangeBox
  OBVIOUS
<1>3. Staged(s, c, h, x, lo, hi)
  BY <1>1, <1>2 DEF AnswerOrder
<1>4. Staged(s, Append(c, Notice), h, x, lo, hi)
  BY <1>3, StagedNotice
<1>5. /\ UNCHANGED <<answering, answered, read, exchangeBox, Hand>>
      /\ clientBox' = Append(c, Notice)
  BY <1>1 DEF NotifyClients, bookVars, Hand
<1>6. Staged(s, clientBox', Hand', exchangeBox', read[s], Sent(s))
  BY <1>1, <1>4, <1>5, <1>2
<1> QED
  BY <1>5, <1>6, HoldOrder

LEMMA ReadOrder ==
  ASSUME AnswersTyped, Read, NEW s \in Symbols, AnswerOrder(s)
  PROVE  AnswerOrder(s)'
<1>1. PICK lo \in Nat, hi \in Nat, c \in Seq(Letter) :
        lo = read[s] /\ hi = Sent(s) /\ c = clientBox
  BY DEF AnswersTyped, AnswerOrder
<1>2. PICK h, x : h = Hand /\ x = exchangeBox
  OBVIOUS
<1>3. Staged(s, c, h, x, lo, hi) /\ c # <<>>
  BY <1>1, <1>2 DEF AnswerOrder, Read
<1>4. /\ Head(c).from # s => Staged(s, Tail(c), h, x, lo, hi)
      /\ Head(c).from = s => Staged(s, Tail(c), h, x, lo + 1, hi) /\ Head(c).place = lo + 1
  BY <1>3, StagedRead
<1>5. UNCHANGED <<answering, answered, exchangeBox, Hand>> /\ clientBox' = Tail(c)
  BY <1>1 DEF Read, bookVars, Hand
<1>6. PICK m \in Letter : m = Head(c)
  BY <1>3, HeadTailProperties
<1>7. IF m = Notice THEN read' = read ELSE read' = [read EXCEPT ![m.from] = @ + 1]
  BY <1>1, <1>6 DEF Read
<1>8. CASE m.from # s
  <2>1. read'[s] = read[s]
    <3>1. CASE m = Notice
      BY <1>7, <3>1
    <3>2. CASE m # Notice
      BY <1>7, <1>8, <3>2 DEF AnswersTyped
    <3> QED
      BY <3>1, <3>2
  <2>2. Staged(s, clientBox', Hand', exchangeBox', read[s], Sent(s))
    BY <1>1, <1>4, <1>5, <1>6, <1>8, <1>2
  <2> QED
    BY <1>5, <2>1, <2>2, HoldOrder
<1>9. CASE m.from = s
  <2>1. m # Notice
    BY <1>9, NoticeLetter
  <2>2. read'[s] = lo + 1
    BY <1>1, <1>7, <1>9, <2>1 DEF AnswersTyped
  <2>3. Sent(s)' = hi
    BY <1>1, <1>5 DEF Sent
  <2>4. Staged(s, clientBox, Hand, exchangeBox, read[s], Sent(s))'
    BY <1>1, <1>4, <1>5, <1>6, <1>9, <1>2, <2>2, <2>3 DEF Staged
  <2>5. \A i \in DOMAIN answering'[s] : answering'[s][i].place = Sent(s)' + i
    BY <1>1, <1>5, <2>3 DEF AnswerOrder
  <2> QED
    BY <2>3, <2>4, <2>5 DEF AnswerOrder
<1> QED
  BY <1>8, <1>9

LEMMA AnswersOrderedKept ==
  ASSUME AnswersTyped, AnswersOrdered,
         \/ AnswerHold
         \/ \E s \in Symbols : TakeReply(s) \/ BookSend(s)
         \/ ForwardTake \/ ForwardSend \/ NotifyClients \/ Read \/ DropReceiver
  PROVE  AnswersOrdered'
<1> SUFFICES ASSUME receiver' # Nobody, NEW s \in Symbols PROVE AnswerOrder(s)'
  BY DEF AnswersOrdered
<1>1. receiver # Nobody /\ ~DropReceiver
  BY DEF AnswerHold, TakeReply, BookSend, ForwardTake, ForwardSend, NotifyClients, Read,
         DropReceiver, clientVars
<1>2. AnswerOrder(s)
  BY <1>1 DEF AnswersOrdered
<1>3. CASE AnswerHold
  <2>1. UNCHANGED <<answering, answered, read, clientBox, Hand, exchangeBox>>
    BY <1>3 DEF AnswerHold, clientVars, Hand
  <2>2. Staged(s, clientBox', Hand', exchangeBox', read[s], Sent(s))
    BY <1>2, <2>1 DEF AnswerOrder
  <2> QED
    BY <1>2, <2>1, <2>2, HoldOrder
<1> QED
  BY <1>1, <1>2, <1>3, TakeReplyOrder, BookSendOrder, ForwardTakeOrder, ForwardSendOrder,
     NoticeOrder, ReadOrder

LEMMA HandTyped ==
  ASSUME AnswersTyped
  PROVE  Hand \in Seq(Letter)
<1>1. CASE forwarding = NoMessage
  <2>1. <<>> \in Seq(Letter)
    OBVIOUS
  <2> QED
    BY <1>1, <2>1 DEF Hand
<1>2. CASE forwarding # NoMessage
  <2>1. forwarding \in Letter
    BY <1>2, AnswerLetter DEF AnswersTyped
  <2>2. <<forwarding>> \in Seq(Letter)
    BY <2>1
  <2> QED
    BY <1>2, <2>2 DEF Hand
<1> QED
  BY <1>1, <1>2

LEMMA OrderedInOrder ==
  ASSUME AnswersTyped, AnswersOrdered
  PROVE  AnsweredInOrder
<1> SUFFICES ASSUME receiver # Nobody, NEW s \in Symbols
             PROVE  /\ read[s] <= Sent(s)
                    /\ {Line[i].place : i \in From(s)} = (read[s] + 1)..Sent(s)
                    /\ \A i, j \in From(s) : i < j => Line[i].place < Line[j].place
                    /\ \A i \in DOMAIN answering[s] : answering[s][i].place = Sent(s) + i
  BY DEF AnsweredInOrder, Sent
<1>1. AnswerOrder(s)
  BY DEF AnswersOrdered
<1>2. Hand \in Seq(Letter)
  BY HandTyped
<1>3. PICK lo \in Nat, hi \in Nat, c \in Seq(Letter), h \in Seq(Letter), x \in Seq(Letter) :
        lo = read[s] /\ hi = Sent(s) /\ c = clientBox /\ h = Hand /\ x = exchangeBox
  BY <1>1, <1>2, AnswerLetter DEF AnswersTyped, AnswerOrder
<1>4. Staged(s, c, h, x, lo, hi)
  BY <1>1, <1>3 DEF AnswerOrder
<1>5. lo <= hi /\ InOrder(c \o h \o x, s, lo, hi)
  BY <1>4, StagedInOrder
<1>6. Line = c \o h \o x
  BY <1>3 DEF Line, Hand
<1>7. From(s) = Of(Line, s)
  BY DEF From, Of
<1>8. /\ {Line[i].place : i \in From(s)} = (lo + 1)..hi
      /\ \A i, j \in From(s) : i < j => Line[i].place < Line[j].place
  BY <1>5, <1>6, <1>7 DEF InOrder
<1> QED
  BY <1>1, <1>3, <1>5, <1>8 DEF AnswerOrder

-----------------------------------------------------------------------------
(*                     Orders on the way to the books                      *)

(* The messages that wait for the channel to the router, those that are in *)
(* a channel or in the router's hands, and the orders among them.          *)
Waits == {sending[c] : c \in Senders} \ {NoMessage}
OnTheWay ==
  Range(routerBox) \cup ({routing} \ {NoMessage}) \cup UNION {Range(bookBox[s]) : s \in Symbols}
Pending == {m.id : m \in {n \in Waits \cup OnTheWay : n.kind = "SubmitOrder"}}

SameOrder(m, n) == m.kind = "SubmitOrder" /\ n.kind = "SubmitOrder" /\ m.id = n.id

(* Every order is on its way once, to the book of its symbol.              *)
OrdersApart ==
  /\ submitted \in Nat
  /\ \A m \in Waits \cup OnTheWay :
       m.kind = "SubmitOrder" => m.id \in 1..submitted /\ m.symbol = SymbolOf[m.id]
  /\ \A s \in Symbols : \A m \in Range(bookBox[s]) : s \in Range(Route(m))
  /\ Range(togo) \subseteq Range(Route(routing))
  /\ \A m, n \in OnTheWay : SameOrder(m, n) => m = n
  /\ \A c, d \in Senders :
       sending[c] # NoMessage /\ sending[d] # NoMessage /\ SameOrder(sending[c], sending[d]) => c = d
  /\ \A c \in Senders : \A m \in OnTheWay :
       sending[c] # NoMessage => ~SameOrder(sending[c], m)

LEMMA AppendRange ==
  ASSUME NEW S, NEW q \in Seq(S), NEW x \in S
  PROVE  Range(Append(q, x)) = Range(q) \cup {x}
<1>1. PICK n \in Nat : n = Len(q)
  OBVIOUS
<1>2. PICK t : t = Append(q, x)
  OBVIOUS
<1>3. DOMAIN q = 1..n /\ DOMAIN t = 1..n + 1 /\ (\A i \in 1..n : t[i] = q[i]) /\ t[n + 1] = x
  BY <1>1, <1>2
<1>4. ASSUME NEW y \in Range(t) PROVE y \in Range(q) \cup {x}
  BY <1>3, <1>4 DEF Range
<1>5. ASSUME NEW y \in Range(q) PROVE y \in Range(t)
  BY <1>3, <1>5 DEF Range
<1>6. x \in Range(t)
  BY <1>3 DEF Range
<1> QED
  BY <1>2, <1>4, <1>5, <1>6

LEMMA TailRange ==
  ASSUME NEW S, NEW q \in Seq(S), q # <<>>
  PROVE  Range(Tail(q)) \subseteq Range(q) /\ Head(q) \in Range(q)
<1>1. PICK n \in Nat \ {0} : n = Len(q)
  OBVIOUS
<1>2. /\ DOMAIN q = 1..n /\ DOMAIN Tail(q) = 1..n - 1 /\ Head(q) = q[1]
      /\ \A i \in 1..n - 1 : Tail(q)[i] = q[i + 1]
  BY <1>1
<1> QED
  BY <1>2 DEF Range

LEMMA PlacedOrder ==
  ASSUME NEW m \in RouterMessage, NEW p \in Place
  PROVE  LET n == [m EXCEPT !.place = p]
         IN  /\ n \in RouterMessage /\ n.kind = m.kind
             /\ m.kind = "SubmitOrder" => n.id = m.id /\ n.symbol = m.symbol
<1>1. CASE m \in [kind : {"SubmitOrder"}, id : Orders, symbol : Range(SymbolOf), place : Place]
  BY <1>1 DEF RouterMessage
<1>2. CASE m \in [kind : {"CancelOrder"}, id : Orders, place : Place]
  BY <1>2 DEF RouterMessage
<1>3. CASE m \in [kind : {"Heartbeat"}, place : Place]
  BY <1>3 DEF RouterMessage
<1> QED
  BY <1>1, <1>2, <1>3 DEF RouterMessage

(* The channel to the router accepts a message.                            *)
LEMMA EnterWay ==
  ASSUME LineTyped, NEW m \in RouterMessage, Enter(m)
  PROVE  /\ UNCHANGED <<bookBox, routing, togo>>
         /\ \E n \in RouterMessage :
              /\ OnTheWay' = OnTheWay \cup {n} /\ n.kind = m.kind
              /\ m.kind = "SubmitOrder" => n.id = m.id /\ n.symbol = m.symbol
<1>1. PICK p : p = entered'
  OBVIOUS
<1>2. p = [s \in Symbols |-> IF s \in Range(Route(m)) THEN entered[s] + 1 ELSE entered[s]]
  BY <1>1 DEF Enter
<1>3. p \in Place
  BY <1>2 DEF LineTyped, Place
<1>4. PICK n : n = [m EXCEPT !.place = p]
  OBVIOUS
<1>5. n \in RouterMessage /\ n.kind = m.kind
      /\ (m.kind = "SubmitOrder" => n.id = m.id /\ n.symbol = m.symbol)
  BY <1>3, <1>4, PlacedOrder
<1>6. routerBox' = Append(routerBox, n) /\ UNCHANGED <<bookBox, routing, togo>>
  BY <1>1, <1>4 DEF Enter
<1>7. Range(routerBox') = Range(routerBox) \cup {n}
  BY <1>5, <1>6, AppendRange DEF LineTyped
<1>8. OnTheWay' = OnTheWay \cup {n}
  BY <1>6, <1>7 DEF OnTheWay
<1> QED
  BY <1>5, <1>6, <1>8

(* A call: its message waits, or is accepted at once.                      *)
LEMMA BeginOrders ==
  ASSUME LineTyped, OrdersApart, NEW c \in Senders, NEW m \in RouterMessage, Begin(c, m),
         submitted' \in Nat, submitted <= submitted',
         m.kind = "SubmitOrder" =>
           m.id = submitted' /\ submitted < submitted' /\ m.symbol = SymbolOf[m.id]
  PROVE  OrdersApart' /\ Pending' \subseteq Pending \cup (IF m.kind = "SubmitOrder" THEN {m.id} ELSE {})
<1>1. \A n \in Waits \cup OnTheWay : n.kind = "SubmitOrder" => n.id \in 1..submitted
  BY DEF OrdersApart
<1>2. submitted \in Nat
  BY DEF OrdersApart
<1>3. \A n \in Waits \cup OnTheWay : ~SameOrder(m, n) /\ ~SameOrder(n, m)
  BY <1>1, <1>2 DEF SameOrder
<1>4. \A n \in Waits \cup OnTheWay : n.kind = "SubmitOrder" => n.id \in 1..submitted'
  BY <1>1, <1>2
<1>5. m.kind = "SubmitOrder" => m.id \in 1..submitted'
  BY <1>2
<1>6. \A d \in Senders : sending[d] # NoMessage => sending[d] \in Waits
  BY DEF Waits
<1>7. sending[c] = NoMessage
  BY DEF Begin
<1>8. CASE Enter(m) /\ UNCHANGED sending
  <2>1. PICK n \in RouterMessage :
          /\ OnTheWay' = OnTheWay \cup {n} /\ n.kind = m.kind
          /\ m.kind = "SubmitOrder" => n.id = m.id /\ n.symbol = m.symbol
    BY <1>8, EnterWay
  <2>2. UNCHANGED <<bookBox, routing, togo>> /\ Waits' = Waits
    BY <1>8 DEF Enter, Waits
  <2>3. \A k \in Waits \cup OnTheWay : ~SameOrder(n, k) /\ ~SameOrder(k, n)
    BY <1>3, <2>1 DEF SameOrder
  <2>4. \A k \in (Waits \cup OnTheWay)' :
          k.kind = "SubmitOrder" => k.id \in 1..submitted' /\ k.symbol = SymbolOf[k.id]
    BY <1>4, <1>5, <2>1, <2>2 DEF OrdersApart
  <2>5. \A k, l \in OnTheWay' : SameOrder(k, l) => k = l
    BY <2>1, <2>3 DEF OrdersApart
  <2>6. \A d \in Senders : \A k \in OnTheWay' : sending'[d] # NoMessage => ~SameOrder(sending'[d], k)
    BY <1>6, <1>8, <2>1, <2>3 DEF OrdersApart
  <2>7. OrdersApart'
    BY <1>8, <2>2, <2>4, <2>5, <2>6 DEF OrdersApart
  <2>8. Pending' \subseteq Pending \cup (IF m.kind = "SubmitOrder" THEN {m.id} ELSE {})
    BY <2>1, <2>2 DEF Pending
  <2> QED
    BY <2>7, <2>8
<1>9. CASE sending' = [sending EXCEPT ![c] = m] /\ UNCHANGED <<routerVars, entered>>
  <2>1. UNCHANGED <<OnTheWay, bookBox, routing, togo>>
    BY <1>9 DEF OnTheWay, routerVars
  <2>2. \A d \in Senders : sending'[d] = IF d = c THEN m ELSE sending[d]
    BY <1>9 DEF LineTyped
  <2>3. Waits' \subseteq Waits \cup {m}
    BY <1>9, <2>2 DEF Waits
  <2>4. \A k \in (Waits \cup OnTheWay)' :
          k.kind = "SubmitOrder" => k.id \in 1..submitted' /\ k.symbol = SymbolOf[k.id]
    BY <1>4, <1>5, <2>1, <2>3 DEF OrdersApart
  <2>5. \A d, e \in Senders :
          sending'[d] # NoMessage /\ sending'[e] # NoMessage /\ SameOrder(sending'[d], sending'[e])
            => d = e
    BY <1>3, <1>6, <2>2 DEF OrdersApart
  <2>6. \A d \in Senders : \A k \in OnTheWay' : sending'[d] # NoMessage => ~SameOrder(sending'[d], k)
    BY <1>3, <2>1, <2>2 DEF OrdersApart
  <2>7. OrdersApart'
    BY <2>1, <2>4, <2>5, <2>6 DEF OrdersApart
  <2>8. Pending' \subseteq Pending \cup (IF m.kind = "SubmitOrder" THEN {m.id} ELSE {})
    BY <2>1, <2>3 DEF Pending
  <2> QED
    BY <2>7, <2>8
<1> QED
  BY <1>8, <1>9 DEF Begin

LEMMA AcceptOrders ==
  ASSUME LineTyped, OrdersApart, NEW c \in Senders, Accept(c)
  PROVE  OrdersApart' /\ Pending' \subseteq Pending
<1>1. PICK m \in RouterMessage : m = sending[c]
  BY DEF LineTyped, Accept
<1>2. m # NoMessage /\ Enter(m) /\ sending' = [sending EXCEPT ![c] = NoMessage] /\ UNCHANGED submitted
  BY <1>1 DEF Accept, inputVars
<1>3. PICK n \in RouterMessage :
        /\ OnTheWay' = OnTheWay \cup {n} /\ n.kind = m.kind
        /\ m.kind = "SubmitOrder" => n.id = m.id /\ n.symbol = m.symbol
  BY <1>2, EnterWay
<1>4. UNCHANGED <<bookBox, routing, togo>>
  BY <1>2 DEF Enter
<1>5. \A d \in Senders : sending'[d] = IF d = c THEN NoMessage ELSE sending[d]
  BY <1>2 DEF LineTyped
<1>6. m \in Waits
  BY <1>1, <1>2 DEF Waits
<1>7. Waits' \subseteq Waits
  BY <1>2, <1>5 DEF Waits
<1>8. \A k \in OnTheWay : ~SameOrder(n, k) /\ ~SameOrder(k, n)
  BY <1>1, <1>2, <1>3 DEF OrdersApart, SameOrder
<1>9. \A k, l \in OnTheWay' : SameOrder(k, l) => k = l
  BY <1>3, <1>8 DEF OrdersApart
<1>10. ASSUME NEW d \in Senders, NEW k \in OnTheWay', sending'[d] # NoMessage
       PROVE  ~SameOrder(sending'[d], k)
  <2>1. d # c /\ sending'[d] = sending[d]
    BY <1>5, <1>10
  <2>2. ~SameOrder(sending[d], m)
    BY <1>1, <1>2, <1>10, <2>1 DEF OrdersApart
  <2>3. ~SameOrder(sending[d], n)
    BY <1>3, <2>2 DEF SameOrder
  <2> QED
    BY <1>3, <1>10, <2>1, <2>3 DEF OrdersApart
<1>11. \A k \in (Waits \cup OnTheWay)' :
         k.kind = "SubmitOrder" => k.id \in 1..submitted' /\ k.symbol = SymbolOf[k.id]
  BY <1>2, <1>3, <1>6, <1>7 DEF OrdersApart
<1>12. \A d, e \in Senders :
         sending'[d] # NoMessage /\ sending'[e] # NoMessage /\ SameOrder(sending'[d], sending'[e])
           => d = e
  BY <1>5 DEF OrdersApart
<1>13. OrdersApart'
  BY <1>2, <1>4, <1>9, <1>10, <1>11, <1>12 DEF OrdersApart
<1>14. Pending' \subseteq Pending
  BY <1>3, <1>6, <1>7 DEF Pending
<1> QED
  BY <1>13, <1>14

(* Messages that only go on, or leave the way.                             *)
LEMMA OnlyOnward ==
  ASSUME OrdersApart, UNCHANGED <<sending, submitted>>, OnTheWay' \subseteq OnTheWay,
         \A s \in Symbols : \A m \in Range(bookBox'[s]) : s \in Range(Route(m)),
         Range(togo') \subseteq Range(Route(routing'))
  PROVE  OrdersApart' /\ Pending' \subseteq Pending
<1>1. Waits' = Waits
  BY DEF Waits
<1>2. OrdersApart'
  BY <1>1 DEF OrdersApart
<1> QED
  BY <1>1, <1>2 DEF Pending

LEMMA RouterOrders ==
  ASSUME LineTyped, OrdersApart, RouterStep
  PROVE  OrdersApart' /\ Pending' \subseteq Pending
<1>1. UNCHANGED <<sending, submitted>>
  BY DEF RouterStep, inputVars
<1>2. CASE RouterTake
  <2>1. routerBox \in Seq(RouterMessage) /\ routerBox # <<>> /\ UNCHANGED bookBox
    BY <1>2 DEF LineTyped, RouterTake
  <2>2. PICK m \in RouterMessage : m = Head(routerBox)
    BY <2>1, HeadTailProperties
  <2>3. routerBox' = Tail(routerBox) /\ togo' = Route(m)
        /\ routing' = IF togo' = <<>> THEN NoMessage ELSE m
    BY <1>2, <2>2 DEF RouterTake
  <2>4. Range(routerBox') \subseteq Range(routerBox) /\ m \in Range(routerBox)
    BY <2>1, <2>2, <2>3, TailRange
  <2>5. OnTheWay' \subseteq OnTheWay
    BY <2>1, <2>3, <2>4 DEF OnTheWay
  <2>6. Range(togo') \subseteq Range(Route(routing'))
    <3>1. CASE togo' = <<>>
      BY <3>1 DEF Range
    <3>2. CASE togo' # <<>>
      BY <2>3, <3>2
    <3> QED
      BY <3>1, <3>2
  <2>7. \A s \in Symbols : \A k \in Range(bookBox'[s]) : s \in Range(Route(k))
    BY <2>1 DEF OrdersApart
  <2> QED
    BY <1>1, <2>5, <2>6, <2>7, OnlyOnward
<1>3. CASE RouterSend
  <2>1. togo # <<>> /\ routing # NoMessage /\ UNCHANGED routerBox
    BY <1>3 DEF LineTyped, RouterSend
  <2>2. PICK b : b = Head(togo)
    OBVIOUS
  <2>3. PICK m : m = routing
    OBVIOUS
  <2>4. m \in RouterMessage /\ m # NoMessage
    BY <2>1, <2>3 DEF LineTyped
  <2>5. /\ b \in Symbols /\ b \in Range(togo)
        /\ Range(Tail(togo)) = Range(togo) \ {b}
    BY <2>1, <2>2, TailOfInjective DEF LineTyped
  <2>6. /\ bookBox' = [bookBox EXCEPT ![b] = Append(@, m)]
        /\ togo' = Tail(togo) /\ routing' = IF togo' = <<>> THEN NoMessage ELSE m
    BY <1>3, <2>2, <2>3 DEF RouterSend
  <2>7. Range(bookBox'[b]) = Range(bookBox[b]) \cup {m}
    <3>1. bookBox[b] \in Seq(RouterMessage) /\ bookBox'[b] = Append(bookBox[b], m)
      BY <2>5, <2>6 DEF LineTyped
    <3> QED
      BY <2>4, <3>1, AppendRange
  <2>8. \A s \in Symbols \ {b} : bookBox'[s] = bookBox[s]
    BY <2>6 DEF LineTyped
  <2>9. OnTheWay' \subseteq OnTheWay
    <3>1. m \in OnTheWay
      BY <2>3, <2>4 DEF OnTheWay
    <3>2. \A s \in Symbols : Range(bookBox'[s]) \subseteq Range(bookBox[s]) \cup {m}
      BY <2>7, <2>8
    <3>3. {routing'} \ {NoMessage} \subseteq {m}
      BY <2>6
    <3> QED
      BY <2>1, <3>1, <3>2, <3>3 DEF OnTheWay
  <2>10. \A s \in Symbols : \A k \in Range(bookBox'[s]) : s \in Range(Route(k))
    <3>1. b \in Range(Route(m))
      BY <2>3, <2>5 DEF OrdersApart
    <3>2. \A k \in Range(bookBox'[b]) : b \in Range(Route(k))
      BY <2>5, <2>7, <3>1 DEF OrdersApart
    <3>3. \A s \in Symbols \ {b} : \A k \in Range(bookBox'[s]) : s \in Range(Route(k))
      BY <2>8 DEF OrdersApart
    <3> QED
      BY <3>2, <3>3
  <2>11. Range(togo') \subseteq Range(Route(routing'))
    <3>1. CASE togo' = <<>>
      BY <3>1 DEF Range
    <3>2. CASE togo' # <<>>
      <4>1. routing' = m
        BY <2>6, <3>2
      <4>2. Range(togo') \subseteq Range(togo)
        BY <2>5, <2>6
      <4> QED
        BY <2>3, <4>1, <4>2 DEF OrdersApart
    <3> QED
      BY <3>1, <3>2
  <2> QED
    BY <1>1, <2>9, <2>10, <2>11, OnlyOnward
<1> QED
  BY <1>2, <1>3 DEF RouterStep, RouterNext

LEMMA TakeOrders ==
  ASSUME LineTyped, OrdersApart, NEW s \in Symbols, NEW kind, Take(s, kind)
  PROVE  OrdersApart' /\ Pending' \subseteq Pending /\ OnTheWay' \subseteq OnTheWay
<1>1. /\ UNCHANGED <<routerBox, routing, togo, sending, submitted>>
      /\ bookBox' = [bookBox EXCEPT ![s] = Tail(@)] /\ bookBox[s] # <<>>
  BY DEF Take, inputVars
<1>2. Range(bookBox'[s]) \subseteq Range(bookBox[s])
  <2>1. bookBox[s] \in Seq(RouterMessage) /\ bookBox'[s] = Tail(bookBox[s])
    BY <1>1 DEF LineTyped
  <2> QED
    BY <1>1, <2>1, TailRange
<1>3. \A u \in Symbols : Range(bookBox'[u]) \subseteq Range(bookBox[u])
  <2>1. \A u \in Symbols \ {s} : bookBox'[u] = bookBox[u]
    BY <1>1 DEF LineTyped
  <2> QED
    BY <1>2, <2>1
<1>4. OnTheWay' \subseteq OnTheWay
  BY <1>1, <1>3 DEF OnTheWay
<1>5. \A u \in Symbols : \A k \in Range(bookBox'[u]) : u \in Range(Route(k))
  BY <1>3 DEF OrdersApart
<1>6. Range(togo') \subseteq Range(Route(routing'))
  BY <1>1 DEF OrdersApart
<1> QED
  BY <1>1, <1>4, <1>5, <1>6, OnlyOnward

-----------------------------------------------------------------------------
(*                    A book takes an order for good                       *)

LEMMA SubmissionRoute ==
  ASSUME NEW m, m.kind = "SubmitOrder"
  PROVE  Range(Route(m)) \subseteq {m.symbol}
<1>1. CASE m.symbol \in Symbols
  <2>1. Route(m) = <<m.symbol>>
    BY <1>1 DEF Route
  <2> QED
    BY <2>1 DEF Range
<1>2. CASE m.symbol \notin Symbols
  <2>1. Route(m) = <<>>
    BY <1>2 DEF Route
  <2> QED
    BY <2>1 DEF Range
<1> QED
  BY <1>1, <1>2

(* What is in the channel to the router comes after all that has left it.  *)
LEMMA BehindPassed ==
  ASSUME LineInv, NEW s \in Symbols, NEW i \in DOMAIN routerBox
  PROVE  AcceptedBefore(s, i) \in Nat /\ Passed(s) <= AcceptedBefore(s, i)
<1>1. PICK p \in Nat : p = Passed(s)
  BY PassedType DEF LineInv
<1>2. PICK k \in Nat : k = Len(routerBox) /\ DOMAIN routerBox = 1..k
  BY DEF LineInv, LineTyped
<1> DEFINE G == {n \in Nat : n + 1 \in 1..k => AcceptedBefore(s, n + 1) \in Nat /\ p <= AcceptedBefore(s, n + 1)}
<1>3. 0 \in G
  BY <1>1 DEF AcceptedBefore
<1>4. ASSUME NEW n \in G PROVE n + 1 \in G
  <2>1. SUFFICES ASSUME n + 2 \in 1..k
                 PROVE  AcceptedBefore(s, n + 2) \in Nat /\ p <= AcceptedBefore(s, n + 2)
    <3>1. n + 1 \in Nat /\ n + 1 + 1 = n + 2
      OBVIOUS
    <3> QED
      BY <2>1, <3>1
  <2>2. n + 1 \in 1..k /\ n \in Nat /\ n + 2 # 1 /\ n + 2 - 1 = n + 1
    BY <2>1
  <2>3. PICK a \in Nat : a = AcceptedBefore(s, n + 1) /\ p <= a
    BY <1>4, <2>2
  <2>4. routerBox[n + 1].place[s] =
          a + (IF s \in Range(Route(routerBox[n + 1])) THEN 1 ELSE 0)
    BY <1>2, <2>2, <2>3 DEF LineInv, DeliveredInOrder
  <2>5. AcceptedBefore(s, n + 2) = routerBox[n + 1].place[s]
    BY <2>2 DEF AcceptedBefore
  <2> QED
    BY <1>1, <2>3, <2>4, <2>5
<1> HIDE DEF G
<1>5. G \in SUBSET Nat
  BY DEF G
<1>6. G = Nat
  BY <1>3, <1>4, <1>5, NatSetInduction
<1>7. i - 1 \in Nat /\ i - 1 + 1 = i /\ i \in 1..k
  BY <1>2
<1>8. i - 1 \in G
  BY <1>6, <1>7
<1> QED
  BY <1>1, <1>7, <1>8 DEF G

(* The order a book takes is nowhere on its way any more.                  *)
LEMMA OrderGone ==
  ASSUME LineInv, OrdersApart, NEW s \in Symbols, Take(s, "SubmitOrder")
  PROVE  Head(bookBox[s]).id \notin Pending'
<1>1. LineTyped
  BY DEF LineInv
<1>2. PICK q \in Seq(RouterMessage) : q = bookBox[s] /\ q # <<>>
  BY <1>1 DEF LineTyped, Take
<1>3. PICK n \in Nat \ {0} : n = Len(q)
  BY <1>2
<1>4. PICK m : m = Head(q)
  OBVIOUS
<1>5. /\ m \in RouterMessage /\ m.kind = "SubmitOrder" /\ m = q[1] /\ DOMAIN q = 1..n
      /\ bookBox' = [bookBox EXCEPT ![s] = Tail(q)]
      /\ UNCHANGED <<routerBox, routing, togo, sending>>
  BY <1>1, <1>2, <1>3, <1>4 DEF Take
<1>6. m \in Range(bookBox[s]) /\ m \in OnTheWay
  BY <1>2, <1>4, TailRange DEF OnTheWay
<1>7. s = m.symbol /\ Range(Route(m)) = {s}
  BY <1>5, <1>6, SubmissionRoute DEF OrdersApart
<1>8. PICK h \in Nat : h = handled[s]
  BY <1>1 DEF LineTyped
<1>9. \A i \in 1..n : q[i].place[s] = h + i
  BY <1>2, <1>5, <1>8 DEF LineInv, DeliveredInOrder
<1>10. m.place[s] = h + 1
  BY <1>5, <1>9
<1>11. Passed(s) \in Nat /\ h + 1 <= Passed(s)
  BY <1>1, <1>2, <1>3, <1>8, PassedType DEF Passed
<1>12. m \notin Range(routerBox)
  <2>1. SUFFICES ASSUME NEW i \in DOMAIN routerBox, routerBox[i] = m PROVE FALSE
    BY DEF Range
  <2>2. PICK a \in Nat : a = AcceptedBefore(s, i) /\ Passed(s) <= a
    BY BehindPassed
  <2>3. m.place[s] = a + 1
    BY <1>7, <2>1, <2>2 DEF LineInv, DeliveredInOrder
  <2> QED
    BY <1>10, <1>11, <2>2, <2>3
<1>13. m # routing \/ routing = NoMessage
  <2>1. SUFFICES ASSUME m = routing, routing # NoMessage PROVE FALSE
    OBVIOUS
  <2>2. togo # <<>> /\ Range(togo) \subseteq {s}
    BY <1>1, <1>7, <2>1 DEF LineTyped, OrdersApart
  <2>3. s \in Range(togo)
    BY <1>1, <2>2, TailOfInjective DEF LineTyped
  <2>4. m.place[s] = Passed(s)
    BY <2>1, <2>3 DEF LineInv, DeliveredInOrder
  <2>5. Passed(s) = h + n + 1
    BY <1>2, <1>3, <1>8, <2>3 DEF Passed
  <2> QED
    BY <1>10, <2>4, <2>5
<1>14. ASSUME NEW u \in Symbols PROVE m \notin Range(bookBox'[u])
  <2>1. CASE u # s
    <3>1. bookBox'[u] = bookBox[u]
      BY <1>1, <1>5, <2>1 DEF LineTyped
    <3> QED
      BY <1>7, <2>1, <3>1 DEF OrdersApart
  <2>2. CASE u = s
    <3>1. bookBox'[u] = Tail(q) /\ DOMAIN Tail(q) = 1..n - 1
          /\ \A i \in 1..n - 1 : Tail(q)[i] = q[i + 1]
      BY <1>1, <1>2, <1>3, <1>5, <2>2 DEF LineTyped
    <3>2. SUFFICES ASSUME NEW i \in 1..n - 1, q[i + 1] = m PROVE FALSE
      BY <3>1 DEF Range
    <3>3. i + 1 \in 1..n
      OBVIOUS
    <3>4. m.place[s] = h + (i + 1)
      BY <1>9, <3>2, <3>3
    <3> QED
      BY <1>10, <3>4
  <2> QED
    BY <2>1, <2>2
<1>15. m \notin OnTheWay'
  BY <1>5, <1>12, <1>13, <1>14 DEF OnTheWay
<1>16. OnTheWay' \subseteq OnTheWay /\ Waits' = Waits
  BY <1>1, <1>5, TakeOrders DEF Waits
<1>17. ASSUME NEW k \in (Waits \cup OnTheWay)', SameOrder(k, m) PROVE FALSE
  <2>1. CASE k \in OnTheWay'
    BY <1>6, <1>15, <1>16, <1>17, <2>1 DEF OrdersApart
  <2>2. CASE k \in Waits'
    <3>1. PICK c \in Senders : k = sending[c] /\ sending[c] # NoMessage
      BY <1>16, <2>2 DEF Waits
    <3>2. ~SameOrder(sending[c], m)
      BY <1>6, <3>1 DEF OrdersApart
    <3> QED
      BY <1>17, <3>1, <3>2
  <2> QED
    BY <1>17, <2>1, <2>2
<1> QED
  BY <1>2, <1>4, <1>5, <1>17 DEF Pending, SameOrder

-----------------------------------------------------------------------------
(*                     Reports of a cancellation                           *)

(* The answers of book s that the client has not read.                     *)
Pool(s) ==
  Letters(clientBox, s) \cup Letters(Hand, s) \cup Letters(exchangeBox, s) \cup Range(answering[s])

CancelsInPool == \A s \in Symbols : Cancels(s) = {m \in Pool(s) : m.status = "Canceled"}

LEMMA PoolCancels ==
  AnswersTyped => CancelsInPool
<1> SUFFICES ASSUME AnswersTyped, NEW s \in Symbols
             PROVE  Cancels(s) = {m \in Pool(s) : m.status = "Canceled"}
  BY DEF CancelsInPool
<1>1. PICK c \in Seq(Letter), h \in Seq(Letter), x \in Seq(Letter) :
        c = clientBox /\ h = Hand /\ x = exchangeBox
  BY HandTyped, AnswerLetter DEF AnswersTyped
<1>2. PICK q \in Seq(Letter) : q = c \o h
  BY ConcatProperties
<1>3. Letters(q, s) = Letters(c, s) \cup Letters(h, s)
  BY <1>2, ConcatLetters
<1>4. Letters(q \o x, s) = Letters(q, s) \cup Letters(x, s)
  BY ConcatLetters
<1>5. Line = q \o x
  BY <1>1, <1>2 DEF Line, Hand
<1>6. {Line[i] : i \in From(s)} = Letters(Line, s)
  BY DEF From, Letters, Of
<1> QED
  BY <1>1, <1>3, <1>4, <1>5, <1>6 DEF Cancels, Pool

LEMMA PoolCancelsNext ==
  AnswersTyped' => CancelsInPool'
  BY PoolCancels, PTL

(* Nothing that is not an answer of a book to its message gets there.      *)
LEMMA PoolShrinks ==
  ASSUME AnswersTyped, AnswersTyped', NEW s \in Symbols,
         \/ AnswerHold
         \/ \E u \in Symbols : BookSend(u)
         \/ ForwardTake \/ ForwardSend \/ NotifyClients \/ Read \/ DropReceiver
  PROVE  Pool(s)' \subseteq Pool(s)
<1>1. clientBox \in Seq(Letter) /\ exchangeBox \in Seq(Letter) /\ answering[s] \in Seq(AnswerMessage)
  BY AnswerLetter DEF AnswersTyped
<1>2. CASE AnswerHold
  BY <1>2 DEF AnswerHold, clientVars, Pool, Hand
<1>3. ASSUME NEW u \in Symbols, BookSend(u) PROVE Pool(s)' \subseteq Pool(s)
  <2>1. PICK q \in Seq(AnswerMessage) : q = answering[u] /\ q # <<>>
    BY <1>3 DEF AnswersTyped, BookSend
  <2>2. PICK m : m = Head(q)
    OBVIOUS
  <2>3. /\ m \in AnswerMessage /\ m \in Letter /\ m \in Range(q) /\ m.from = u
        /\ Range(Tail(q)) \subseteq Range(q)
    BY <2>1, <2>2, TailRange, AnswerLetter, SMTT(30) DEF AnswersTyped
  <2>4. /\ exchangeBox' = Append(exchangeBox, m)
        /\ answering' = [answering EXCEPT ![u] = Tail(q)]
        /\ UNCHANGED <<clientBox, Hand>>
    BY <1>3, <2>1, <2>2 DEF BookSend, clientVars, Hand
  <2>5. Letters(exchangeBox', s) = Letters(exchangeBox, s) \cup (IF m.from = s THEN {m} ELSE {})
    BY <1>1, <2>3, <2>4, AppendLetters
  <2>6. CASE s = u
    <3>1. answering'[s] = Tail(q)
      BY <2>4, <2>6 DEF AnswersTyped
    <3> QED
      BY <2>1, <2>3, <2>4, <2>5, <2>6, <3>1 DEF Pool
  <2>7. CASE s # u
    <3>1. answering'[s] = answering[s]
      BY <2>4, <2>7 DEF AnswersTyped
    <3> QED
      BY <2>3, <2>4, <2>5, <2>7, <3>1 DEF Pool
  <2> QED
    BY <2>6, <2>7
<1>4. CASE ForwardTake
  <2>1. exchangeBox # <<>> /\ exchangeBox' = Tail(exchangeBox) /\ UNCHANGED answering
        /\ forwarding = NoMessage
    BY <1>4 DEF ForwardTake, bookVars
  <2>2. PICK m : m = Head(exchangeBox)
    OBVIOUS
  <2>3. m \in Letter
    BY <1>1, <2>1, <2>2, HeadTailProperties
  <2>4. Letters(exchangeBox, s) = Letters(exchangeBox', s) \cup (IF m.from = s THEN {m} ELSE {})
    BY <1>1, <2>1, <2>2, TailLetters
  <2>5. Letters(clientBox', s) \cup Letters(Hand', s)
          \subseteq Letters(clientBox, s) \cup (IF m.from = s THEN {m} ELSE {})
    <3>1. Letters(<<>>, s) = {} /\ Letters(<<m>>, s) = IF m.from = s THEN {m} ELSE {}
      BY OneLetter
    <3>2. Hand' = <<>> \/ Hand' = <<forwarding'>>
      BY DEF Hand
    <3>3. CASE clientBox' = Append(clientBox, m) /\ UNCHANGED forwarding
      <4>1. Hand' = <<>>
        BY <2>1, <3>3 DEF Hand
      <4>2. Letters(clientBox', s) = Letters(clientBox, s) \cup (IF m.from = s THEN {m} ELSE {})
        BY <1>1, <2>3, <3>3, AppendLetters
      <4> QED
        BY <3>1, <4>1, <4>2
    <3>4. CASE UNCHANGED <<clientBox, forwarding>>
      <4>1. Hand' = <<>>
        BY <2>1, <3>4 DEF Hand
      <4> QED
        BY <3>1, <3>4, <4>1
    <3>5. CASE forwarding' = m /\ UNCHANGED clientBox
      <4>1. Hand' = <<>> \/ Hand' = <<m>>
        BY <3>2, <3>5
      <4> QED
        BY <3>1, <3>5, <4>1
    <3> QED
      BY <1>4, <2>2, <3>3, <3>4, <3>5 DEF ForwardTake, Deliver
  <2> QED
    BY <2>1, <2>4, <2>5 DEF Pool
<1>5. CASE ForwardSend
  <2>1. PICK m \in Letter : m = forwarding /\ m # NoMessage
    BY <1>5, AnswerLetter DEF ForwardSend, AnswersTyped
  <2>2. Hand = <<m>> /\ Hand' = <<>> /\ UNCHANGED <<answering, exchangeBox>>
    BY <1>5, <2>1 DEF ForwardSend, Hand, bookVars
  <2>3. Letters(<<>>, s) = {} /\ Letters(<<m>>, s) = IF m.from = s THEN {m} ELSE {}
    BY OneLetter
  <2>4. CASE clientBox' = Append(clientBox, m)
    <3>1. Letters(clientBox', s) = Letters(clientBox, s) \cup (IF m.from = s THEN {m} ELSE {})
      BY <1>1, <2>4, AppendLetters
    <3> QED
      BY <2>2, <2>3, <3>1 DEF Pool
  <2>5. CASE UNCHANGED clientBox
    BY <2>2, <2>3, <2>5 DEF Pool
  <2> QED
    BY <1>5, <2>1, <2>4, <2>5 DEF ForwardSend, Deliver
<1>6. CASE NotifyClients
  <2>1. clientBox' = Append(clientBox, Notice) /\ UNCHANGED <<Hand, answering, exchangeBox>>
    BY <1>6 DEF NotifyClients, Hand, bookVars
  <2>2. Letters(clientBox', s) = Letters(clientBox, s)
    <3>1. PICK m \in Letter : m = Notice /\ m.from # s
      BY NoticeLetter
    <3>2. Letters(Append(clientBox, m), s)
            = Letters(clientBox, s) \cup (IF m.from = s THEN {m} ELSE {})
      BY <1>1, AppendLetters
    <3> QED
      BY <2>1, <3>1, <3>2
  <2> QED
    BY <2>1, <2>2 DEF Pool
<1>7. CASE Read
  <2>1. clientBox # <<>> /\ clientBox' = Tail(clientBox) /\ UNCHANGED <<Hand, answering, exchangeBox>>
    BY <1>7 DEF Read, Hand, bookVars
  <2>2. Letters(clientBox', s) \subseteq Letters(clientBox, s)
    BY <1>1, <2>1, TailLetters
  <2> QED
    BY <2>1, <2>2 DEF Pool
<1>8. CASE DropReceiver
  <2>1. clientBox' = <<>> /\ UNCHANGED <<Hand, answering, exchangeBox>>
    BY <1>8 DEF DropReceiver, Hand, bookVars
  <2>2. Letters(clientBox', s) = {}
    BY <2>1, OneLetter
  <2> QED
    BY <2>1, <2>2 DEF Pool
<1> QED
  BY <1>2, <1>3, <1>4, <1>5, <1>6, <1>7, <1>8

(* The pool after a book has taken a message.                              *)
LEMMA TakePool ==
  ASSUME AnswersTyped, NEW u \in Symbols, NEW updates \in Seq(Update), Reply(u, updates),
         answering[u] = <<>>, UNCHANGED <<exchangeBox, clientVars>>, NEW s \in Symbols, NEW m \in Pool(s)'
  PROVE  \/ m \in Pool(s)
         \/ /\ s = u
            /\ \E i \in DOMAIN updates :
                 m = Answer(s, updates[i][1], updates[i][2], answered[s] + i)
<1>1. UNCHANGED <<clientBox, Hand, exchangeBox>>
  BY DEF clientVars, Hand
<1>2. m \in Pool(s) \/ m \in Range(answering'[s])
  BY <1>1 DEF Pool
<1>3. CASE s # u
  <2>1. answering'[s] = answering[s]
    BY <1>3, ReplyFacts
  <2> QED
    BY <1>1, <2>1 DEF Pool
<1>4. CASE s = u /\ m \in Range(answering'[s])
  <2>1. /\ DOMAIN answering'[s] = DOMAIN updates
        /\ \A i \in DOMAIN updates :
             answering'[s][i] = Answer(s, updates[i][1], updates[i][2], answered[s] + i)
    BY <1>4, ReplyFacts
  <2>2. PICK i \in DOMAIN updates : m = answering'[s][i]
    BY <1>4, <2>1 DEF Range
  <2> QED
    BY <1>4, <2>1, <2>2
<1> QED
  BY <1>2, <1>3, <1>4

-----------------------------------------------------------------------------
(*                 Orders that rest, are out, or were reported             *)

(* An order that a book has heard of, as far as a report may depend on it. *)
Touched(o) ==
  \/ o \in canceled
  \/ \E s \in Symbols : o \in resting[s] \/ \E a \in Cancels(s) : a.id = o

OrdersTracked ==
  /\ RestingTyped
  /\ \A s \in Symbols : \A o \in resting[s] : o \notin canceled
  /\ CanceledOnce
  /\ \A o : Touched(o) => o \in 1..submitted /\ o \notin Pending

(* A step after which no book has more to tell.                            *)
LEMMA HoldTracked ==
  ASSUME OrdersTracked, UNCHANGED <<resting, canceled>>,
         \A s \in Symbols : Cancels(s)' \subseteq Cancels(s),
         submitted' \in Nat, submitted <= submitted',
         \A o \in Pending' : o \in Pending \/ (o = submitted' /\ submitted < submitted')
  PROVE  OrdersTracked'
<1>1. submitted \in Nat /\ 1..submitted \subseteq 1..submitted'
  BY DEF OrdersTracked, RestingTyped
<1>2. RestingTyped'
  BY <1>1 DEF OrdersTracked, RestingTyped
<1>3. CanceledOnce'
  BY DEF OrdersTracked, CanceledOnce
<1>4. \A o : Touched(o)' => Touched(o)
  BY DEF Touched
<1>5. ASSUME NEW o, Touched(o)' PROVE o \in 1..submitted' /\ o \notin Pending'
  <2>1. o \in 1..submitted /\ o \notin Pending
    BY <1>4, <1>5 DEF OrdersTracked
  <2> QED
    BY <1>1, <2>1
<1> QED
  BY <1>2, <1>3, <1>5 DEF OrdersTracked

(***************************************************************************)
(* What a book may answer and let rest when it takes a message: it reports *)
(* no order Canceled twice, and none that rests or was reported before.    *)
(***************************************************************************)
SoundReply(s, updates, rest) ==
  /\ rest \in SUBSET Orders /\ rest \subseteq 1..submitted
  /\ \A o \in rest : SymbolOf[o] = s /\ o \notin canceled /\ o \notin Pending'
  /\ \A b \in Cancels(s) : b.id \notin rest
  /\ \A i \in DOMAIN updates : updates[i][2] = "Canceled" =>
       /\ updates[i][1] \in 1..submitted /\ SymbolOf[updates[i][1]] = s
       /\ updates[i][1] \notin rest \cup canceled /\ updates[i][1] \notin Pending'
       /\ \A b \in Cancels(s) : b.id # updates[i][1]
  /\ \A i, j \in DOMAIN updates :
       updates[i][2] = "Canceled" /\ updates[j][2] = "Canceled" /\ updates[i][1] = updates[j][1]
         => i = j

LEMMA TakeTracked ==
  ASSUME OrdersTracked, AnswersTyped, CancelsInPool, CancelsInPool',
         NEW s \in Symbols, NEW updates \in Seq(Update), Reply(s, updates), answering[s] = <<>>,
         NEW rest, resting' = [resting EXCEPT ![s] = rest], SoundReply(s, updates, rest),
         UNCHANGED <<exchangeBox, clientVars, submitted>>, Pending' \subseteq Pending
  PROVE  OrdersTracked'
<1>1. UNCHANGED canceled
  BY DEF clientVars
<1>2. \A u \in Symbols : resting'[u] = IF u = s THEN rest ELSE resting[u]
  BY DEF OrdersTracked, RestingTyped
<1>3. RestingTyped'
  BY <1>2 DEF OrdersTracked, RestingTyped, SoundReply
<1>4. ASSUME NEW u \in Symbols, NEW o \in resting'[u] PROVE o \notin canceled'
  <2>1. CASE u = s
    BY <1>1, <1>2, <1>4, <2>1 DEF SoundReply
  <2>2. CASE u # s
    BY <1>1, <1>2, <1>4, <2>2 DEF OrdersTracked
  <2> QED
    BY <2>1, <2>2
<1> DEFINE New(a) == \E i \in DOMAIN updates :
                       /\ updates[i][2] = "Canceled"
                       /\ a = Answer(s, updates[i][1], updates[i][2], answered[s] + i)
<1>5. ASSUME NEW u \in Symbols, NEW a \in Cancels(u)'
      PROVE  a \in Cancels(u) \/ (u = s /\ New(a))
  <2>1. a \in Pool(u)' /\ a.status = "Canceled"
    BY <1>5 DEF CancelsInPool
  <2>2. CASE a \in Pool(u)
    BY <2>1, <2>2 DEF CancelsInPool
  <2>3. CASE u = s /\ \E i \in DOMAIN updates :
                        a = Answer(u, updates[i][1], updates[i][2], answered[u] + i)
    BY <2>1, <2>3 DEF Answer
  <2> QED
    BY <2>1, <2>2, <2>3, TakePool
<1>6. ASSUME NEW a, New(a)
      PROVE  /\ a.id \in 1..submitted /\ SymbolOf[a.id] = s
             /\ a.id \notin rest \cup canceled /\ a.id \notin Pending'
             /\ \A b \in Cancels(s) : b.id # a.id
  <2>1. PICK i \in DOMAIN updates :
          /\ updates[i][2] = "Canceled"
          /\ a = Answer(s, updates[i][1], updates[i][2], answered[s] + i)
    BY <1>6
  <2>2. a.id = updates[i][1]
    BY <2>1 DEF Answer
  <2> QED
    BY <2>1, <2>2 DEF SoundReply
<1>7. ASSUME NEW a, New(a), NEW b, New(b), a.id = b.id PROVE a = b
  <2>1. PICK i \in DOMAIN updates :
          /\ updates[i][2] = "Canceled"
          /\ a = Answer(s, updates[i][1], updates[i][2], answered[s] + i)
    BY <1>7
  <2>2. PICK j \in DOMAIN updates :
          /\ updates[j][2] = "Canceled"
          /\ b = Answer(s, updates[j][1], updates[j][2], answered[s] + j)
    BY <1>7
  <2>3. a.id = updates[i][1] /\ b.id = updates[j][1]
    BY <2>1, <2>2 DEF Answer
  <2>4. i = j
    BY <1>7, <2>1, <2>2, <2>3 DEF SoundReply
  <2> QED
    BY <2>1, <2>2, <2>4
<1> HIDE DEF New
<1>8. ASSUME NEW u \in Symbols, NEW a \in Cancels(u)'
      PROVE  /\ a.id \notin resting'[u] \cup canceled'
             /\ SymbolOf[a.id] = u /\ a.id \in 1..submitted /\ a.id \notin Pending'
  <2>1. CASE a \in Cancels(u)
    <3>1. a.id \notin resting[u] \cup canceled /\ SymbolOf[a.id] = u
      BY <2>1 DEF OrdersTracked, CanceledOnce
    <3>2. Touched(a.id)
      BY <2>1 DEF Touched
    <3>3. a.id \in 1..submitted /\ a.id \notin Pending'
      BY <3>2 DEF OrdersTracked
    <3>4. a.id \notin resting'[u]
      BY <1>2, <2>1, <3>1 DEF SoundReply
    <3> QED
      BY <1>1, <3>1, <3>3, <3>4
  <2>2. CASE u = s /\ New(a)
    BY <1>1, <1>2, <1>6, <2>2
  <2> QED
    BY <1>5, <1>8, <2>1, <2>2
<1>9. ASSUME NEW u \in Symbols, NEW a \in Cancels(u)', NEW v \in Symbols, NEW b \in Cancels(v)',
             a.id = b.id
      PROVE  a = b
  <2>1. u = v
    BY <1>8, <1>9
  <2>2. CASE a \in Cancels(u) /\ b \in Cancels(v)
    BY <1>9, <2>2 DEF OrdersTracked, CanceledOnce
  <2>3. CASE New(a) /\ New(b)
    BY <1>7, <1>9, <2>3
  <2>4. CASE u = s /\ New(a) /\ b \in Cancels(v)
    BY <1>6, <1>9, <2>1, <2>4
  <2>5. CASE v = s /\ New(b) /\ a \in Cancels(u)
    BY <1>6, <1>9, <2>1, <2>5
  <2> QED
    BY <1>5, <1>9, <2>2, <2>3, <2>4, <2>5
<1>10. CanceledOnce'
  BY <1>8, <1>9 DEF CanceledOnce
<1>11. ASSUME NEW o, Touched(o)' PROVE o \in 1..submitted' /\ o \notin Pending'
  <2>1. CASE Touched(o)
    BY <2>1 DEF OrdersTracked
  <2>2. CASE o \in rest
    BY <2>2 DEF SoundReply
  <2>3. CASE \E u \in Symbols : \E a \in Cancels(u)' : o = a.id
    BY <1>8, <2>3
  <2>4. Touched(o) \/ o \in rest \/ \E u \in Symbols : \E a \in Cancels(u)' : o = a.id
    BY <1>1, <1>2, <1>11 DEF Touched
  <2> QED
    BY <2>1, <2>2, <2>3, <2>4
<1> QED
  BY <1>3, <1>4, <1>10, <1>11 DEF OrdersTracked

(* The order at the head of a book's channel is one the book has not heard *)
(* of, and will not hear of again.                                         *)
LEMMA OrderTaken ==
  ASSUME LineInv, OrdersApart, OrdersTracked, NEW s \in Symbols, Take(s, "SubmitOrder"),
         NEW o, o = Head(bookBox[s]).id
  PROVE  /\ o \in Orders /\ o \in 1..submitted /\ SymbolOf[o] = s
         /\ ~Touched(o) /\ o \notin Pending'
<1>1. LineTyped
  BY DEF LineInv
<1>2. PICK m \in RouterMessage : m = Head(bookBox[s])
  BY <1>1, HeadOfBookBox
<1>3. m.kind = "SubmitOrder" /\ o \in Orders /\ o = m.id
  BY <1>1, <1>2, HeadOfBookBox
<1>4. m \in Range(bookBox[s])
  BY <1>1, <1>2, TailRange DEF LineTyped, Take
<1>5. m \in OnTheWay
  BY <1>4 DEF OnTheWay
<1>6. m.id \in 1..submitted /\ m.symbol = SymbolOf[m.id]
  BY <1>3, <1>5 DEF OrdersApart
<1>7. s \in Range(Route(m))
  BY <1>4 DEF OrdersApart
<1>8. SymbolOf[o] = s
  BY <1>3, <1>6, <1>7, SubmissionRoute
<1>9. o \in Pending
  BY <1>3, <1>5 DEF Pending
<1>10. ~Touched(o)
  BY <1>9 DEF OrdersTracked
<1>11. o \notin Pending'
  BY OrderGone
<1> QED
  BY <1>3, <1>6, <1>8, <1>10, <1>11

LEMMA RestingTouched ==
  ASSUME OrdersTracked, NEW s \in Symbols, NEW o \in resting[s]
  PROVE  /\ o \in Orders /\ o \in 1..submitted /\ SymbolOf[o] = s
         /\ o \notin canceled /\ o \notin Pending
         /\ \A b \in Cancels(s) : b.id # o
<1>1. Touched(o)
  BY DEF Touched
<1>2. o \in 1..submitted /\ o \notin Pending
  BY <1>1 DEF OrdersTracked
<1>3. o \in Orders /\ SymbolOf[o] = s /\ o \notin canceled
  BY DEF OrdersTracked, RestingTyped
<1>4. \A b \in Cancels(s) : b.id # o
  BY DEF OrdersTracked, CanceledOnce
<1> QED
  BY <1>2, <1>3, <1>4

(* process_order: what is reported Canceled is the order itself, once, and *)
(* it does not rest then.                                                  *)
LEMMA TakeOrderSound ==
  ASSUME LineInv, OrdersApart, OrdersTracked, NEW s \in Symbols, Take(s, "SubmitOrder"),
         NEW o, o = Head(bookBox[s]).id, NEW updates, NEW rest, OrderReply(s, o, updates, rest)
  PROVE  SoundReply(s, updates, rest)
<1>0. /\ rest \subseteq resting[s] \cup {o}
      /\ \A i \in DOMAIN updates :
           updates[i][2] = "Canceled" => updates[i][1] = o /\ rest \subseteq resting[s]
      /\ \A i, j \in DOMAIN updates :
           updates[i][2] = "Canceled" /\ updates[j][2] = "Canceled" => i = j
  BY DEF OrderReply
<1>1. /\ o \in Orders /\ o \in 1..submitted /\ SymbolOf[o] = s
      /\ ~Touched(o) /\ o \notin Pending'
  BY OrderTaken
<1>2. o \notin canceled /\ o \notin resting[s] /\ \A b \in Cancels(s) : b.id # o
  BY <1>1 DEF Touched
<1>3. Pending' \subseteq Pending
  BY TakeOrders DEF LineInv
<1>4. ASSUME NEW p \in rest
      PROVE  /\ p \in Orders /\ p \in 1..submitted /\ SymbolOf[p] = s
             /\ p \notin canceled /\ p \notin Pending'
             /\ \A b \in Cancels(s) : b.id # p
  <2>1. CASE p = o
    BY <1>1, <1>2, <2>1
  <2>2. CASE p \in resting[s]
    BY <1>3, <2>2, RestingTouched
  <2> QED
    BY <1>0, <1>4, <2>1, <2>2
<1>5. ASSUME NEW i \in DOMAIN updates, updates[i][2] = "Canceled"
      PROVE  /\ updates[i][1] \in 1..submitted /\ SymbolOf[updates[i][1]] = s
             /\ updates[i][1] \notin rest \cup canceled /\ updates[i][1] \notin Pending'
             /\ \A b \in Cancels(s) : b.id # updates[i][1]
  <2>1. updates[i][1] = o /\ o \notin rest
    BY <1>0, <1>2, <1>5
  <2> QED
    BY <1>1, <1>2, <2>1
<1> QED
  BY <1>0, <1>4, <1>5 DEF SoundReply

(* cancel_order and check_expired_orders: what is reported Canceled rested *)
(* until then.                                                             *)
LEMMA WithdrawalSound ==
  ASSUME OrdersTracked, NEW s \in Symbols, Pending' \subseteq Pending,
         NEW updates, NEW rest, rest \subseteq resting[s],
         \A i \in DOMAIN updates :
           updates[i][2] = "Canceled" => updates[i][1] \in resting[s] \ rest,
         \A i, j \in DOMAIN updates :
           updates[i][2] = "Canceled" /\ updates[j][2] = "Canceled" /\ updates[i][1] = updates[j][1]
             => i = j
  PROVE  SoundReply(s, updates, rest)
<1>1. ASSUME NEW p \in resting[s]
      PROVE  /\ p \in Orders /\ p \in 1..submitted /\ SymbolOf[p] = s
             /\ p \notin canceled /\ p \notin Pending'
             /\ \A b \in Cancels(s) : b.id # p
  BY RestingTouched
<1>2. ASSUME NEW i \in DOMAIN updates, updates[i][2] = "Canceled"
      PROVE  /\ updates[i][1] \in 1..submitted /\ SymbolOf[updates[i][1]] = s
             /\ updates[i][1] \notin rest \cup canceled /\ updates[i][1] \notin Pending'
             /\ \A b \in Cancels(s) : b.id # updates[i][1]
  BY <1>1, <1>2
<1> QED
  BY <1>1, <1>2 DEF SoundReply

LEMMA BookTakeTracked ==
  ASSUME LineInv, OrdersApart, OrdersTracked, AnswersTyped, CancelsInPool, CancelsInPool',
         NEW s \in Symbols, BookTake(s)
  PROVE  OrdersTracked'
<1>1. LineTyped /\ RestingTyped
  BY DEF LineInv, OrdersTracked
<1>2. PICK o : o = Head(bookBox[s]).id
  OBVIOUS
<1>3. ASSUME NEW kind, Take(s, kind), NEW updates \in Seq(Update), Reply(s, updates),
             NEW rest, resting' = [resting EXCEPT ![s] = rest], SoundReply(s, updates, rest)
      PROVE  OrdersTracked'
  <2>1. answering[s] = <<>> /\ UNCHANGED <<exchangeBox, clientVars, submitted>>
    BY <1>3 DEF Take, inputVars
  <2>2. Pending' \subseteq Pending
    BY <1>1, <1>3, TakeOrders
  <2> QED
    BY <1>3, <2>1, <2>2, TakeTracked
<1>4. ASSUME TakeOrder(s) PROVE OrdersTracked'
  <2>1. Take(s, "SubmitOrder")
    BY <1>4 DEF TakeOrder
  <2>2. PICK updates \in Seq(Update) : \E rest :
          /\ Reply(s, updates) /\ resting' = [resting EXCEPT ![s] = rest]
          /\ OrderReply(s, o, updates, rest)
    BY <1>1, <1>2, <1>4, TakeOrderReply
  <2>3. PICK rest :
          /\ Reply(s, updates) /\ resting' = [resting EXCEPT ![s] = rest]
          /\ OrderReply(s, o, updates, rest)
    BY <2>2
  <2>4. SoundReply(s, updates, rest)
    BY <1>2, <2>1, <2>3, TakeOrderSound
  <2> QED
    BY <1>3, <2>1, <2>3, <2>4
<1>5. ASSUME TakeCancel(s) PROVE OrdersTracked'
  <2>1. Take(s, "CancelOrder") /\ Pending' \subseteq Pending
    BY <1>1, <1>5, TakeOrders DEF TakeCancel
  <2>2. o \in Orders
    BY <1>1, <1>2, <2>1, HeadOfBookBox
  <2>3. PICK status : status = IF o \in resting[s] THEN "Canceled" ELSE "Rejected"
    OBVIOUS
  <2>4. PICK updates : updates = <<<<o, status>>>>
    OBVIOUS
  <2>5. <<o, status>> \in Update
    BY <2>2, <2>3 DEF Update, OrderStatus
  <2>6. updates \in Seq(Update)
    BY <2>4, <2>5, OneUpdate
  <2>7. DOMAIN updates = {1} /\ updates[1][1] = o /\ updates[1][2] = status
    BY <2>4
  <2>8. PICK rest : rest = resting[s] \ {o}
    OBVIOUS
  <2>9. resting' = [resting EXCEPT ![s] = rest] /\ Reply(s, updates)
    BY <1>2, <1>5, <2>3, <2>4, <2>8 DEF TakeCancel
  <2>10. \A i \in DOMAIN updates : updates[i][2] = "Canceled" => updates[i][1] \in resting[s] \ rest
    BY <2>3, <2>7, <2>8
  <2>11. \A i, j \in DOMAIN updates : i = j
    BY <2>7
  <2>12. SoundReply(s, updates, rest)
    BY <2>1, <2>8, <2>10, <2>11, WithdrawalSound
  <2> QED
    BY <1>3, <2>1, <2>6, <2>9, <2>12
<1>6. ASSUME TakeHeartbeat(s) PROVE OrdersTracked'
  <2>1. Take(s, "Heartbeat") /\ Pending' \subseteq Pending
    BY <1>1, <1>6, TakeOrders DEF TakeHeartbeat
  <2>2. PICK expired \in SUBSET resting[s] :
          /\ resting' = [resting EXCEPT ![s] = @ \ expired]
          /\ \E q \in Bijection(1..Cardinality(expired), expired) :
               Reply(s, [i \in DOMAIN q |-> <<q[i], "Canceled">>])
    BY <1>6 DEF TakeHeartbeat
  <2>3. PICK q \in Bijection(1..Cardinality(expired), expired) :
          Reply(s, [i \in DOMAIN q |-> <<q[i], "Canceled">>])
    BY <2>2
  <2>4. PICK updates : updates = [i \in DOMAIN q |-> <<q[i], "Canceled">>]
    OBVIOUS
  <2>5. /\ updates \in Seq(Update)
        /\ \A i \in DOMAIN q : q[i] \in expired
        /\ \A i, j \in DOMAIN q : q[i] = q[j] => i = j
    BY <1>1, <2>4, ExpiredUpdates
  <2>6. DOMAIN updates = DOMAIN q /\ \A i \in DOMAIN q : updates[i][1] = q[i]
    BY <2>4
  <2>7. PICK rest : rest = resting[s] \ expired
    OBVIOUS
  <2>8. resting' = [resting EXCEPT ![s] = rest] /\ Reply(s, updates)
    BY <2>2, <2>3, <2>4, <2>7
  <2>9. \A i \in DOMAIN updates : updates[i][1] \in resting[s] \ rest
    BY <2>5, <2>6, <2>7
  <2>10. \A i, j \in DOMAIN updates : updates[i][1] = updates[j][1] => i = j
    BY <2>5, <2>6
  <2>11. SoundReply(s, updates, rest)
    BY <2>1, <2>7, <2>9, <2>10, WithdrawalSound
  <2> QED
    BY <1>3, <2>1, <2>5, <2>8, <2>11
<1> QED
  BY <1>4, <1>5, <1>6 DEF BookTake

LEMMA StagedPlaces ==
  ASSUME NEW s \in Symbols, NEW c, NEW h, NEW x, NEW lo \in Nat, NEW hi \in Nat,
         Staged(s, c, h, x, lo, hi)
  PROVE  /\ lo <= hi
         /\ \A a \in Letters(c, s) \cup Letters(h, s) \cup Letters(x, s) : lo < a.place
<1>1. PICK m \in Nat, n \in Nat :
        /\ lo <= m /\ m <= n /\ n <= hi
        /\ InOrder(c, s, lo, m) /\ InOrder(h, s, m, n) /\ InOrder(x, s, n, hi)
  BY DEF Staged
<1>2. ASSUME NEW q, NEW l \in Nat, NEW k \in Nat, lo <= l, InOrder(q, s, l, k), NEW a \in Letters(q, s)
      PROVE  lo < a.place
  <2>1. a.place \in (l + 1)..k
    BY <1>2 DEF InOrder, Letters
  <2> QED
    BY <1>2, <2>1
<1>3. lo <= n /\ lo <= lo /\ lo <= hi
  BY <1>1
<1> QED
  BY <1>1, <1>2, <1>3

(* What the client has read is nowhere on its way any more.                *)
LEMMA ReadGone ==
  ASSUME AnswersTyped, AnswersOrdered, Read, NEW s \in Symbols, Head(clientBox).from = s
  PROVE  Head(clientBox) \in Letters(clientBox, s) /\ Head(clientBox) \notin Pool(s)'
<1>1. clientBox # <<>> /\ receiver # Nobody /\ UNCHANGED <<answering, answered>>
  BY DEF AnswersTyped, Read, bookVars
<1>2. AnswerOrder(s) /\ AnswerOrder(s)'
  BY <1>1, ReadOrder DEF AnswersOrdered
<1>3. PICK lo \in Nat, hi \in Nat, c \in Seq(Letter) :
        lo = read[s] /\ hi = Sent(s) /\ c = clientBox
  BY <1>2 DEF AnswersTyped, AnswerOrder
<1>4. PICK m \in Letter : m = Head(c)
  BY <1>1, <1>3, HeadTailProperties
<1>5. m.from = s /\ m # Notice
  BY <1>3, <1>4, NoticeLetter
<1>6. read'[s] = lo + 1
  BY <1>3, <1>4, <1>5 DEF Read, AnswersTyped
<1>7. m.place = lo + 1
  <2>1. PICK h, x : h = Hand /\ x = exchangeBox
    OBVIOUS
  <2>2. Staged(s, c, h, x, lo, hi)
    BY <1>2, <1>3, <2>1 DEF AnswerOrder
  <2> QED
    BY <1>1, <1>3, <1>4, <1>5, <2>2, StagedRead
<1>8. Sent(s)' = hi
  BY <1>1, <1>3 DEF Sent
<1>9. PICK d, h, x : d = clientBox' /\ h = Hand' /\ x = exchangeBox'
  OBVIOUS
<1>10. Staged(s, d, h, x, lo + 1, hi)
  BY <1>2, <1>6, <1>8, <1>9 DEF AnswerOrder
<1>11. /\ lo + 1 <= hi
       /\ \A a \in Letters(d, s) \cup Letters(h, s) \cup Letters(x, s) : lo + 1 < a.place
  <2>1. lo + 1 \in Nat
    OBVIOUS
  <2> QED
    BY <1>10, <2>1, StagedPlaces
<1>12. ASSUME NEW a \in Range(answering'[s]) PROVE lo + 1 < a.place
  <2>1. PICK q : q = answering[s]
    OBVIOUS
  <2>2. q \in Seq(AnswerMessage) /\ \A i \in DOMAIN q : q[i].place = hi + i
    BY <1>2, <1>3, <2>1 DEF AnswersTyped, AnswerOrder
  <2>3. PICK i \in DOMAIN q : a = q[i]
    BY <1>1, <1>12, <2>1 DEF Range
  <2>4. i \in Nat \ {0} /\ a.place = hi + i
    BY <2>2, <2>3
  <2> QED
    BY <1>11, <2>4
<1>13. \A a \in Pool(s)' : lo + 1 < a.place
  BY <1>9, <1>11, <1>12 DEF Pool
<1>14. m \notin Pool(s)'
  BY <1>7, <1>13
<1>15. m \in Letters(c, s)
  BY <1>1, <1>3, <1>4, <1>5, TailLetters
<1> QED
  BY <1>3, <1>4, <1>14, <1>15

LEMMA ReadTracked ==
  ASSUME OrdersTracked, AnswersTyped, AnswersTyped', AnswersOrdered, CancelsInPool, CancelsInPool',
         Read, Pending' \subseteq Pending
  PROVE  OrdersTracked'
<1>1. UNCHANGED <<resting, submitted>> /\ clientBox # <<>>
  BY DEF Read, bookVars, inputVars
<1>2. submitted \in Nat /\ submitted <= submitted
  BY DEF OrdersTracked, RestingTyped
<1>3. \A s \in Symbols : Cancels(s)' \subseteq Cancels(s)
  BY PoolShrinks DEF CancelsInPool
<1>4. PICK m \in Letter : m = Head(clientBox)
  BY <1>1, HeadTailProperties DEF AnswersTyped
<1>5. CASE UNCHANGED canceled
  BY <1>1, <1>2, <1>3, <1>5, HoldTracked
<1>6. CASE m # Notice /\ m.status = "Canceled" /\ canceled' = canceled \cup {m.id}
  <2>1. PICK s \in Symbols : s = m.from
    BY <1>6 DEF Letter, AnswerMessage
  <2>2. m \in Letters(clientBox, s) /\ m \notin Pool(s)'
    BY <1>4, <2>1, ReadGone
  <2>3. m \in Cancels(s) /\ m \notin Cancels(s)'
    BY <1>6, <2>2 DEF CancelsInPool, Pool
  <2>4. SymbolOf[m.id] = s /\ m.id \notin resting[s]
    BY <2>3 DEF OrdersTracked, CanceledOnce
  <2>5. ASSUME NEW u \in Symbols, NEW a \in Cancels(u)' PROVE a.id # m.id
    <3>1. a \in Cancels(u)
      BY <1>3, <2>5
    <3>2. SymbolOf[a.id] = u /\ (a.id = m.id => a = m)
      BY <2>3, <3>1 DEF OrdersTracked, CanceledOnce
    <3>3. SUFFICES ASSUME a.id = m.id PROVE FALSE
      OBVIOUS
    <3>4. a = m /\ u = s
      BY <2>4, <3>2, <3>3
    <3> QED
      BY <2>3, <2>5, <3>4
  <2>6. \A u \in Symbols : m.id \notin resting[u]
    BY <2>4 DEF OrdersTracked, RestingTyped
  <2>7. CanceledOnce'
    BY <1>1, <1>3, <1>6, <2>5 DEF OrdersTracked, CanceledOnce
  <2>8. Touched(m.id)
    BY <2>3 DEF Touched
  <2>9. \A o : Touched(o)' => Touched(o)
    BY <1>1, <1>3, <1>6, <2>8 DEF Touched
  <2>10. \A o : Touched(o)' => o \in 1..submitted' /\ o \notin Pending'
    BY <1>1, <2>9 DEF OrdersTracked
  <2>11. RestingTyped' /\ \A u \in Symbols : \A o \in resting'[u] : o \notin canceled'
    BY <1>1, <1>6, <2>6 DEF OrdersTracked, RestingTyped
  <2> QED
    BY <2>7, <2>10, <2>11 DEF OrdersTracked
<1> QED
  BY <1>4, <1>5, <1>6 DEF Read

-----------------------------------------------------------------------------
(*                            The invariant                                *)

AnswerInv == LineInv /\ OrdersApart /\ AnswersTyped /\ AnswersOrdered /\ OrdersTracked

(* The steps of the way back at which no book takes a message.             *)
PassOn ==
  \/ \E s \in Symbols : BookSend(s)
  \/ ForwardTake \/ ForwardSend \/ NotifyClients \/ DropReceiver

LEMMA CalmTracked ==
  ASSUME AnswerInv, AnswersTyped', AnswerHold \/ PassOn, UNCHANGED <<resting, canceled>>,
         submitted' \in Nat, submitted <= submitted',
         \A o \in Pending' : o \in Pending \/ (o = submitted' /\ submitted < submitted')
  PROVE  OrdersTracked'
<1>1. CancelsInPool /\ CancelsInPool'
  BY PoolCancels, PoolCancelsNext DEF AnswerInv
<1>2. \A s \in Symbols : Pool(s)' \subseteq Pool(s)
  BY PoolShrinks DEF AnswerInv, PassOn
<1>3. \A s \in Symbols : Cancels(s)' \subseteq Cancels(s)
  BY <1>1, <1>2 DEF CancelsInPool
<1> QED
  BY <1>3, HoldTracked DEF AnswerInv

(* A call of a client or the heartbeat.                                    *)
LEMMA CallKeeps ==
  ASSUME AnswerInv, AnswersTyped', NEW c \in Senders, NEW m \in RouterMessage, Begin(c, m),
         submitted' \in Nat, submitted <= submitted',
         m.kind = "SubmitOrder" =>
           m.id = submitted' /\ submitted < submitted' /\ m.symbol = SymbolOf[m.id]
  PROVE  OrdersApart' /\ OrdersTracked'
<1>1. /\ OrdersApart'
      /\ Pending' \subseteq Pending \cup (IF m.kind = "SubmitOrder" THEN {m.id} ELSE {})
  BY BeginOrders DEF AnswerInv, LineInv
<1>2. AnswerHold /\ UNCHANGED <<resting, canceled>>
  BY DEF Begin, AnswerHold, bookVars, clientVars
<1>3. \A o \in Pending' : o \in Pending \/ (o = submitted' /\ submitted < submitted')
  BY <1>1
<1> QED
  BY <1>1, <1>2, <1>3, CalmTracked

LEMMA SubmitKeeps ==
  ASSUME AnswerInv, AnswersTyped', NEW c \in Callers, NEW o \in Orders, SubmitOrder(c, o)
  PROVE  OrdersApart' /\ OrdersTracked'
<1>1. o = submitted + 1 /\ submitted' = o
  BY DEF SubmitOrder
<1>2. submitted \in Nat /\ submitted' \in Nat /\ submitted < submitted' /\ submitted <= submitted'
  BY <1>1 DEF AnswerInv, OrdersApart
<1>3. CASE Begin(c, Submission(o))
  <2>1. PICK m \in RouterMessage : m = Submission(o)
    BY SubmissionTyped
  <2>2. m.id = o /\ m.symbol = SymbolOf[o]
    BY <2>1 DEF Submission
  <2> QED
    BY <1>1, <1>2, <1>3, <2>1, <2>2, CallKeeps DEF Senders
<1>4. CASE UNCHANGED <<routerVars, sending, entered, bookVars, exchangeBox, clientVars, notices>>
  <2>1. UNCHANGED <<Waits, OnTheWay, Pending>>
    BY <1>4 DEF Waits, OnTheWay, Pending, routerVars
  <2>2. 1..submitted \subseteq 1..submitted'
    BY <1>2
  <2>3. OrdersApart'
    BY <1>2, <1>4, <2>1, <2>2 DEF AnswerInv, OrdersApart, routerVars
  <2>4. AnswerHold /\ UNCHANGED <<resting, canceled>>
    BY <1>4 DEF AnswerHold, bookVars, clientVars
  <2> QED
    BY <1>2, <2>1, <2>3, <2>4, CalmTracked
<1> QED
  BY <1>3, <1>4 DEF SubmitOrder

(* Every other step does not change what was submitted.                    *)
LEMMA OtherCallKeeps ==
  ASSUME AnswerInv, AnswersTyped', NEW c \in Senders, NEW m \in RouterMessage, Begin(c, m),
         m.kind # "SubmitOrder", UNCHANGED submitted
  PROVE  OrdersApart' /\ OrdersTracked'
<1>1. submitted' \in Nat /\ submitted <= submitted'
  BY DEF AnswerInv, OrdersApart
<1> QED
  BY <1>1, CallKeeps

LEMMA OrdersKept ==
  ASSUME AnswerInv, AnswersTyped', [Next]_vars
  PROVE  OrdersApart' /\ OrdersTracked'
<1>1. LineTyped /\ OrdersApart /\ AnswersTyped /\ AnswersOrdered /\ OrdersTracked /\ LineInv
  BY DEF AnswerInv, LineInv
<1>2. CancelsInPool /\ CancelsInPool'
  BY <1>1, PoolCancels, PoolCancelsNext
<1>3. submitted \in Nat /\ submitted <= submitted
  BY <1>1 DEF OrdersApart
<1>4. ASSUME AnswerHold \/ PassOn, UNCHANGED <<resting, canceled, submitted>>, OrdersApart',
             Pending' \subseteq Pending
      PROVE  OrdersApart' /\ OrdersTracked'
  BY <1>3, <1>4, CalmTracked
<1>5. ASSUME UNCHANGED <<routerVars, sending, submitted>>
      PROVE  OrdersApart' /\ Pending' \subseteq Pending
  <2>1. OnTheWay' \subseteq OnTheWay
    BY <1>5 DEF OnTheWay, routerVars
  <2>2. /\ \A s \in Symbols : \A m \in Range(bookBox'[s]) : s \in Range(Route(m))
        /\ Range(togo') \subseteq Range(Route(routing'))
    BY <1>1, <1>5 DEF OrdersApart, routerVars
  <2> QED
    BY <1>1, <1>5, <2>1, <2>2, OnlyOnward
<1>6. ASSUME NEW c \in Callers, NEW o \in Orders, SubmitOrder(c, o)
      PROVE  OrdersApart' /\ OrdersTracked'
  BY <1>6, SubmitKeeps
<1>7. ASSUME NEW c \in Callers, NEW o \in Orders, CancelOrder(c, o)
      PROVE  OrdersApart' /\ OrdersTracked'
  <2>1. PICK m \in RouterMessage : m = Cancellation(o)
    BY CancellationTyped
  <2>2. m.kind # "SubmitOrder" /\ Begin(c, m) /\ UNCHANGED submitted
    BY <1>7, <2>1 DEF Cancellation, CancelOrder
  <2> QED
    BY <2>2, OtherCallKeeps DEF Senders
<1>8. ASSUME Beat PROVE OrdersApart' /\ OrdersTracked'
  <2>1. PICK m \in RouterMessage : m = Heartbeat
    BY HeartbeatTyped
  <2>2. m.kind # "SubmitOrder" /\ Begin(Heart, m) /\ UNCHANGED submitted
    BY <1>8, <2>1 DEF Heartbeat, Beat
  <2> QED
    BY <2>2, OtherCallKeeps DEF Senders
<1>9. ASSUME NEW c \in Senders, Accept(c) PROVE OrdersApart' /\ OrdersTracked'
  <2>1. OrdersApart' /\ Pending' \subseteq Pending
    BY <1>1, <1>9, AcceptOrders
  <2>2. AnswerHold /\ UNCHANGED <<resting, canceled, submitted>>
    BY <1>9 DEF Accept, AnswerHold, bookVars, clientVars, inputVars
  <2> QED
    BY <1>4, <2>1, <2>2
<1>10. ASSUME RouterStep PROVE OrdersApart' /\ OrdersTracked'
  <2>1. OrdersApart' /\ Pending' \subseteq Pending
    BY <1>1, <1>10, RouterOrders
  <2>2. AnswerHold /\ UNCHANGED <<resting, canceled, submitted>>
    BY <1>10 DEF RouterStep, AnswerHold, bookVars, clientVars, inputVars
  <2> QED
    BY <1>4, <2>1, <2>2
<1>11. ASSUME NEW s \in Symbols, BookTake(s) PROVE OrdersApart' /\ OrdersTracked'
  <2>1. PICK kind : Take(s, kind)
    BY <1>11 DEF BookTake, TakeOrder, TakeCancel, TakeHeartbeat
  <2>2. OrdersApart'
    BY <1>1, <2>1, TakeOrders
  <2> QED
    BY <1>1, <1>2, <1>11, <2>2, BookTakeTracked
<1>12. ASSUME PassOn PROVE OrdersApart' /\ OrdersTracked'
  <2>1. UNCHANGED <<routerVars, sending, submitted, resting, canceled>>
    BY <1>12 DEF PassOn, BookSend, ForwardTake, ForwardSend, NotifyClients, DropReceiver,
                 bookVars, clientVars, inputVars
  <2> QED
    BY <1>4, <1>5, <1>12, <2>1
<1>13. ASSUME Read PROVE OrdersApart' /\ OrdersTracked'
  <2>1. UNCHANGED <<routerVars, sending, submitted>>
    BY <1>13 DEF Read, inputVars
  <2> QED
    BY <1>1, <1>2, <1>5, <1>13, <2>1, ReadTracked
<1>14. ASSUME UNCHANGED vars PROVE OrdersApart' /\ OrdersTracked'
  <2>1. AnswerHold /\ UNCHANGED <<routerVars, sending, submitted, resting, canceled>>
    BY <1>14 DEF vars, AnswerHold, bookVars, clientVars, inputVars
  <2> QED
    BY <1>4, <1>5, <2>1
<1> QED
  BY <1>6, <1>7, <1>8, <1>9, <1>10, <1>11, <1>12, <1>13, <1>14 DEF Next, Work, PassOn

LEMMA AnswerInit ==
  ASSUME Init
  PROVE  AnswerInv
<1>1. LineInv
  BY LineInit
<1>2. /\ routerBox = <<>> /\ bookBox = [s \in Symbols |-> <<>>]
      /\ routing = NoMessage /\ togo = <<>>
      /\ sending = [c \in Senders |-> NoMessage]
      /\ resting = [s \in Symbols |-> {}] /\ answering = [s \in Symbols |-> <<>>]
      /\ exchangeBox = <<>> /\ forwarding = NoMessage /\ clientBox = <<>>
      /\ receiver \in Callers \cup {Reader} /\ submitted = 0 /\ canceled = {}
      /\ answered = [s \in Symbols |-> 0] /\ read = [s \in Symbols |-> 0]
  BY DEF Init, RouterInit
<1>3. AnswersTyped
  BY <1>2 DEF AnswersTyped
<1>4. Waits = {} /\ OnTheWay = {} /\ Pending = {}
  <2>1. Waits = {}
    BY <1>2 DEF Waits
  <2>2. OnTheWay = {}
    BY <1>2 DEF OnTheWay, Range
  <2> QED
    BY <2>1, <2>2 DEF Pending
<1>5. OrdersApart
  BY <1>2, <1>4 DEF OrdersApart, Range
<1>6. AnswersOrdered
  <2>1. SUFFICES ASSUME NEW s \in Symbols PROVE AnswerOrder(s)
    BY DEF AnswersOrdered
  <2>2. Hand = <<>> /\ read[s] = 0 /\ Sent(s) = 0 /\ answering[s] = <<>>
    BY <1>2 DEF Hand, Sent
  <2>3. InOrder(<<>>, s, 0, 0)
    BY NothingInOrder
  <2>4. Staged(s, <<>>, <<>>, <<>>, 0, 0)
    BY <2>3 DEF Staged
  <2> QED
    BY <1>2, <2>2, <2>4 DEF AnswerOrder
<1>7. \A s \in Symbols : Cancels(s) = {}
  <2>1. SUFFICES ASSUME NEW s \in Symbols PROVE Pool(s) = {}
    BY <1>3, PoolCancels DEF CancelsInPool
  <2>2. Hand = <<>> /\ Range(answering[s]) = {}
    BY <1>2 DEF Hand, Range
  <2>3. Letters(<<>>, s) = {}
    BY OneLetter
  <2> QED
    BY <1>2, <2>2, <2>3 DEF Pool
<1>8. CanceledOnce /\ \A o : ~Touched(o)
  BY <1>2, <1>7 DEF CanceledOnce, Touched
<1>9. OrdersTracked
  BY <1>2, <1>8 DEF OrdersTracked, RestingTyped
<1> QED
  BY <1>1, <1>3, <1>5, <1>6, <1>9 DEF AnswerInv

LEMMA AnswerNext ==
  ASSUME AnswerInv, [Next]_vars
  PROVE  AnswerInv'
<1>1. LineInv' /\ LineTyped /\ RestingTyped /\ AnswersTyped /\ AnswersOrdered
  BY LineNext DEF AnswerInv, LineInv, OrdersTracked
<1>2. \/ AnswerHold
      \/ \E s \in Symbols : TakeReply(s) \/ BookSend(s)
      \/ ForwardTake \/ ForwardSend \/ NotifyClients \/ Read \/ DropReceiver
  BY <1>1, AnswerKinds
<1>3. AnswersTyped' /\ AnswersOrdered'
  BY <1>1, <1>2, AnswersTypedKept, AnswersOrderedKept
<1>4. OrdersApart' /\ OrdersTracked'
  BY <1>3, OrdersKept
<1> QED
  BY <1>1, <1>3, <1>4 DEF AnswerInv

(***************************************************************************)
(* The client reads the answers of each book (order_book.rs, exchange.rs)  *)
(* once each and in the order in which the book produced them, for any     *)
(* number of books that share the way back, any capacity of its channels   *)
(* and any notices that overtake the answers, until it drops its receiver. *)
(***************************************************************************)
THEOREM Answers == Spec => []AnsweredInOrder
<1>1. Init => AnswerInv
  BY AnswerInit
<1>2. AnswerInv /\ [Next]_vars => AnswerInv'
  BY AnswerNext
<1>3. AnswerInv => AnsweredInOrder
  BY OrderedInOrder DEF AnswerInv
<1> QED
  BY <1>1, <1>2, <1>3, PTL DEF Spec

(***************************************************************************)
(* Cancellations go to every book and race with expiry and fills; still no *)
(* order is reported Canceled twice, or by a book of another symbol, or    *)
(* while it rests, for any number of books, clients and cancellations.     *)
(***************************************************************************)
THEOREM Cancellations == Spec => []CanceledOnce
<1>1. Init => AnswerInv
  BY AnswerInit
<1>2. AnswerInv /\ [Next]_vars => AnswerInv'
  BY AnswerNext
<1>3. AnswerInv => CanceledOnce
  BY DEF AnswerInv, OrdersTracked
<1> QED
  BY <1>1, <1>2, <1>3, PTL DEF Spec

-----------------------------------------------------------------------------
(*                        The bounds of the channels                       *)

RouterBounds ==
  /\ Len(routerBox) <= Capacity
  /\ \A s \in Symbols : Len(bookBox[s]) <= Capacity

AnswerBounds ==
  /\ Len(exchangeBox) <= Capacity
  /\ Len(clientBox) <= ClientCapacity

LEMMA BoxBound ==
  ASSUME NEW S, NEW q \in Seq(S), NEW capacity \in Nat, Len(q) <= capacity
  PROVE  /\ Len(<<>>) <= capacity
         /\ q # <<>> => Len(Tail(q)) <= capacity
         /\ \A x \in S : HasRoom(q, capacity) => Len(Append(q, x)) <= capacity
<1>1. Len(q) \in Nat
  OBVIOUS
<1>2. q # <<>> => Len(Tail(q)) = Len(q) - 1
  OBVIOUS
<1>3. \A x \in S : Len(Append(q, x)) = Len(q) + 1
  OBVIOUS
<1>4. Len(<<>>) = 0
  OBVIOUS
<1>5. HasRoom(q, capacity) => Len(q) + 1 <= capacity
  BY <1>1 DEF HasRoom
<1> QED
  BY <1>1, <1>2, <1>3, <1>4, <1>5

LEMMA RouterBoundsKept ==
  ASSUME LineTyped, RouterBounds, [Next]_vars
  PROVE  RouterBounds'
<1>1. Capacity \in Nat /\ routerBox \in Seq(RouterMessage) /\ Len(routerBox) <= Capacity
  BY RouterAssumption DEF LineTyped, RouterBounds
<1>2. CASE HoldStep
  BY <1>2 DEF HoldStep, routerVars, RouterBounds
<1>3. ASSUME NEW m \in RouterMessage, EnterStep(m) PROVE RouterBounds'
  <2>1. /\ HasRoom(routerBox, Capacity) /\ UNCHANGED bookBox
        /\ routerBox' = Append(routerBox, [m EXCEPT !.place = entered'])
    BY <1>3 DEF EnterStep, Enter
  <2>2. PICK n \in RouterMessage : routerBox' = Append(routerBox, n)
    <3>1. PICK p : p = entered'
      OBVIOUS
    <3>2. p = [s \in Symbols |-> IF s \in Range(Route(m)) THEN entered[s] + 1 ELSE entered[s]]
      BY <1>3, <3>1 DEF EnterStep, Enter
    <3>3. p \in Place
      BY <3>2 DEF LineTyped, Place
    <3> QED
      BY <2>1, <3>1, <3>3, PlacedMessage
  <2>3. Len(routerBox') <= Capacity
    BY <1>1, <2>1, <2>2, BoxBound
  <2> QED
    BY <2>1, <2>3 DEF RouterBounds
<1>4. CASE RouterTakeStep
  <2>1. routerBox # <<>> /\ routerBox' = Tail(routerBox) /\ UNCHANGED bookBox
    BY <1>4 DEF RouterTakeStep, RouterTake
  <2>2. Len(routerBox') <= Capacity
    BY <1>1, <2>1, BoxBound
  <2> QED
    BY <2>1, <2>2 DEF RouterBounds
<1>5. CASE RouterSendStep
  <2>1. PICK b \in Symbols : b = Head(togo)
    BY <1>5, TailOfInjective DEF RouterSendStep, RouterSend, LineTyped
  <2>2. PICK m \in RouterMessage : m = routing
    BY <1>5 DEF RouterSendStep, RouterSend, LineTyped
  <2>3. /\ HasRoom(bookBox[b], Capacity) /\ UNCHANGED routerBox
        /\ bookBox' = [bookBox EXCEPT ![b] = Append(@, m)]
    BY <1>5, <2>1, <2>2 DEF RouterSendStep, RouterSend
  <2>4. bookBox[b] \in Seq(RouterMessage) /\ Len(bookBox[b]) <= Capacity
    BY DEF LineTyped, RouterBounds
  <2>5. Len(Append(bookBox[b], m)) <= Capacity
    BY <1>1, <2>3, <2>4, BoxBound
  <2>6. \A s \in Symbols : bookBox'[s] = IF s = b THEN Append(bookBox[b], m) ELSE bookBox[s]
    BY <2>3 DEF LineTyped
  <2> QED
    BY <2>3, <2>5, <2>6 DEF RouterBounds
<1>6. ASSUME NEW s \in Symbols, TakeStep(s) PROVE RouterBounds'
  <2>1. /\ bookBox[s] # <<>> /\ UNCHANGED routerBox
        /\ bookBox' = [bookBox EXCEPT ![s] = Tail(@)]
    BY <1>6 DEF TakeStep, Take
  <2>2. bookBox[s] \in Seq(RouterMessage) /\ Len(bookBox[s]) <= Capacity
    BY DEF LineTyped, RouterBounds
  <2>3. Len(Tail(bookBox[s])) <= Capacity
    BY <1>1, <2>1, <2>2, BoxBound
  <2>4. \A u \in Symbols : bookBox'[u] = IF u = s THEN Tail(bookBox[s]) ELSE bookBox[u]
    BY <2>1 DEF LineTyped
  <2> QED
    BY <2>1, <2>3, <2>4 DEF RouterBounds
<1> QED
  BY <1>2, <1>3, <1>4, <1>5, <1>6, StepKinds

LEMMA DeliverBound ==
  ASSUME AnswersTyped, AnswerBounds, NEW m \in Letter, Deliver(m)
  PROVE  Len(clientBox') <= ClientCapacity
<1>1. ClientCapacity \in Nat /\ clientBox \in Seq(Letter) /\ Len(clientBox) <= ClientCapacity
  BY ExchangeAssumption DEF AnswersTyped, AnswerBounds
<1> QED
  BY <1>1, BoxBound DEF Deliver

LEMMA AnswerBoundsKept ==
  ASSUME AnswersTyped, AnswerBounds,
         \/ AnswerHold
         \/ \E s \in Symbols : TakeReply(s) \/ BookSend(s)
         \/ ForwardTake \/ ForwardSend \/ NotifyClients \/ Read \/ DropReceiver
  PROVE  AnswerBounds'
<1>1. Capacity \in Nat /\ exchangeBox \in Seq(AnswerMessage) /\ Len(exchangeBox) <= Capacity
  BY RouterAssumption DEF AnswersTyped, AnswerBounds
<1>2. ClientCapacity \in Nat /\ clientBox \in Seq(Letter) /\ Len(clientBox) <= ClientCapacity
  BY ExchangeAssumption DEF AnswersTyped, AnswerBounds
<1>3. CASE AnswerHold \/ \E s \in Symbols : TakeReply(s)
  BY <1>3 DEF AnswerHold, TakeReply, clientVars, AnswerBounds
<1>4. ASSUME NEW s \in Symbols, BookSend(s) PROVE AnswerBounds'
  <2>1. /\ HasRoom(exchangeBox, Capacity) /\ UNCHANGED clientBox
        /\ exchangeBox' = Append(exchangeBox, Head(answering[s]))
    BY <1>4 DEF BookSend, clientVars
  <2>2. PICK m \in AnswerMessage : m = Head(answering[s])
    BY <1>4, HeadTailProperties DEF AnswersTyped, BookSend
  <2>3. Len(exchangeBox') <= Capacity
    BY <1>1, <2>1, <2>2, BoxBound
  <2> QED
    BY <1>2, <2>1, <2>3 DEF AnswerBounds
<1>5. CASE ForwardTake
  <2>1. exchangeBox # <<>> /\ exchangeBox' = Tail(exchangeBox)
    BY <1>5 DEF ForwardTake
  <2>2. Len(exchangeBox') <= Capacity
    BY <1>1, <2>1, BoxBound
  <2>3. PICK m \in Letter : m = Head(exchangeBox)
    BY <1>1, <2>1, HeadTailProperties, AnswerLetter
  <2>4. Deliver(m) \/ UNCHANGED clientBox
    BY <1>5, <2>3 DEF ForwardTake
  <2>5. Len(clientBox') <= ClientCapacity
    BY <1>2, <2>4, DeliverBound
  <2> QED
    BY <2>2, <2>5 DEF AnswerBounds
<1>6. CASE ForwardSend
  <2>1. PICK m \in Letter : m = forwarding
    BY <1>6, AnswerLetter DEF ForwardSend, AnswersTyped
  <2>2. Deliver(m) /\ UNCHANGED exchangeBox
    BY <1>6, <2>1 DEF ForwardSend
  <2> QED
    BY <1>1, <2>2, DeliverBound DEF AnswerBounds
<1>7. CASE NotifyClients
  <2>1. /\ HasRoom(clientBox, ClientCapacity) /\ UNCHANGED exchangeBox
        /\ clientBox' = Append(clientBox, Notice)
    BY <1>7 DEF NotifyClients
  <2>2. Len(clientBox') <= ClientCapacity
    BY <1>2, <2>1, NoticeLetter, BoxBound
  <2> QED
    BY <1>1, <2>1, <2>2 DEF AnswerBounds
<1>8. CASE Read
  <2>1. clientBox # <<>> /\ clientBox' = Tail(clientBox) /\ UNCHANGED exchangeBox
    BY <1>8 DEF Read
  <2>2. Len(clientBox') <= ClientCapacity
    BY <1>2, <2>1, BoxBound
  <2> QED
    BY <1>1, <2>1, <2>2 DEF AnswerBounds
<1>9. CASE DropReceiver
  <2>1. clientBox' = <<>> /\ UNCHANGED exchangeBox
    BY <1>9 DEF DropReceiver
  <2>2. Len(clientBox') <= ClientCapacity
    BY <1>2, <2>1, BoxBound
  <2> QED
    BY <1>1, <2>1, <2>2 DEF AnswerBounds
<1> QED
  BY <1>3, <1>4, <1>5, <1>6, <1>7, <1>8, <1>9

(***************************************************************************)
(* No channel of the exchange (exchange.rs, router.rs, order_book.rs)      *)
(* holds more than its capacity, the router has a message in its hands     *)
(* exactly while it has books to go to, and only submitted orders rest.    *)
(***************************************************************************)
THEOREM Types == Spec => []TypeOK
<1>1. Init => AnswerInv /\ RouterBounds /\ AnswerBounds
  <2>1. SUFFICES ASSUME Init PROVE RouterBounds /\ AnswerBounds
    BY AnswerInit
  <2>2. /\ routerBox = <<>> /\ bookBox = [s \in Symbols |-> <<>>]
        /\ exchangeBox = <<>> /\ clientBox = <<>>
    BY <2>1 DEF Init, RouterInit
  <2>3. Capacity \in Nat /\ ClientCapacity \in Nat /\ Len(<<>>) = 0
    BY RouterAssumption, ExchangeAssumption
  <2> QED
    BY <2>2, <2>3 DEF RouterBounds, AnswerBounds
<1>2. AnswerInv /\ RouterBounds /\ AnswerBounds /\ [Next]_vars
        => (AnswerInv /\ RouterBounds /\ AnswerBounds)'
  <2>1. SUFFICES ASSUME AnswerInv, RouterBounds, AnswerBounds, [Next]_vars
                 PROVE  RouterBounds' /\ AnswerBounds'
    BY AnswerNext
  <2>2. LineTyped /\ RestingTyped /\ AnswersTyped
    BY <2>1 DEF AnswerInv, LineInv, OrdersTracked
  <2> QED
    BY <2>1, <2>2, AnswerKinds, RouterBoundsKept, AnswerBoundsKept
<1>3. AnswerInv /\ RouterBounds /\ AnswerBounds => TypeOK
  BY DEF AnswerInv, LineInv, LineTyped, AnswersTyped, OrdersTracked, RestingTyped, RouterBounds,
         AnswerBounds, TypeOK
<1> QED
  BY <1>1, <1>2, <1>3, PTL DEF Spec

-----------------------------------------------------------------------------
(*                    Where the pipeline can stop                          *)

LEMMA FullOrEmpty ==
  ASSUME NEW capacity \in Nat \ {0}
  PROVE  /\ HasRoom(<<>>, capacity)
         /\ \A q : ~HasRoom(q, capacity) => q # <<>>
<1>1. HasRoom(<<>>, capacity)
  <2>1. Len(<<>>) = 0
    OBVIOUS
  <2> QED
    BY <2>1 DEF HasRoom
<1> QED
  BY <1>1

(* With nothing left to forward, the tasks are idle one after the other,   *)
(* from the way out back to the calls.                                     *)
LEMMA NothingLeft ==
  ASSUME AnswerInv, ~CanWork, forwarding = NoMessage
  PROVE  Quiet
<1>1. /\ exchangeBox = <<>>
      /\ \A s \in Symbols : answering[s] = <<>> \/ ~HasRoom(exchangeBox, Capacity)
      /\ \A s \in Symbols : answering[s] = <<>> => bookBox[s] = <<>>
      /\ receiver = Reader => clientBox = <<>>
  BY DEF CanWork
<1>2. /\ togo # <<>> => ~HasRoom(bookBox[Head(togo)], Capacity)
      /\ routing = NoMessage => routerBox = <<>>
      /\ Waiting => ~HasRoom(routerBox, Capacity)
  BY DEF CanWork
<1>3. HasRoom(<<>>, Capacity)
  BY RouterAssumption, FullOrEmpty
<1>4. \A s \in Symbols : answering[s] = <<>> /\ bookBox[s] = <<>>
  BY <1>1, <1>3
<1>5. LineTyped /\ DeliveredInOrder
  BY DEF AnswerInv, LineInv
<1>6. togo = <<>>
  <2>1. SUFFICES ASSUME togo # <<>> PROVE FALSE
    OBVIOUS
  <2>2. Head(togo) \in Symbols
    BY <1>5, <2>1, HeadTailProperties DEF LineTyped
  <2> QED
    BY <1>2, <1>3, <1>4, <2>1, <2>2
<1>7. routerBox = <<>> /\ ~Waiting
  BY <1>2, <1>3, <1>5, <1>6 DEF LineTyped
<1>8. ASSUME NEW s \in Symbols PROVE handled[s] = entered[s]
  <2>1. Len(routerBox) + 1 = 1 /\ Len(bookBox[s]) = 0 /\ s \notin Range(togo)
    BY <1>4, <1>6, <1>7 DEF Range
  <2>2. entered[s] = AcceptedBefore(s, 1)
    BY <1>5, <2>1 DEF DeliveredInOrder
  <2>3. AcceptedBefore(s, 1) = handled[s] + 0 + 0
    BY <2>1 DEF AcceptedBefore, Passed
  <2>4. handled[s] \in Nat
    BY <1>5 DEF LineTyped
  <2> QED
    BY <2>2, <2>3, <2>4
<1>9. handled = entered
  BY <1>5, <1>8 DEF LineTyped
<1> QED
  BY <1>1, <1>4, <1>7, <1>9 DEF Quiet

(* With a message that cannot be forwarded, it is the client's channel     *)
(* that is full, and if a call waits, all channels on its way are.         *)
LEMMA ClientInTheWay ==
  ASSUME AnswerInv, ~CanWork, forwarding # NoMessage
  PROVE  /\ receiver \in Callers /\ ~HasRoom(clientBox, ClientCapacity)
         /\ Waiting => Jammed
<1>1. receiver # Nobody /\ ~HasRoom(clientBox, ClientCapacity)
  BY DEF CanWork, CanDeliver
<1>2. receiver \in Callers
  <2>1. clientBox # <<>>
    BY <1>1, ExchangeAssumption, FullOrEmpty
  <2>2. receiver # Reader
    BY <2>1 DEF CanWork
  <2> QED
    BY <1>1, <2>2 DEF AnswerInv, AnswersTyped
<1>3. ASSUME Waiting PROVE Jammed
  <2>1. \A q : ~HasRoom(q, Capacity) => q # <<>>
    BY RouterAssumption, FullOrEmpty
  <2>2. ~HasRoom(routerBox, Capacity)
    BY <1>3 DEF CanWork
  <2>3. routing # NoMessage
    BY <2>1, <2>2 DEF CanWork
  <2>4. togo # <<>> /\ togo \in Seq(Symbols)
    BY <2>3 DEF AnswerInv, LineInv, LineTyped
  <2>5. PICK s \in Symbols : s = Head(togo)
    BY <2>4, HeadTailProperties
  <2>6. ~HasRoom(bookBox[s], Capacity)
    BY <2>4, <2>5 DEF CanWork
  <2>7. answering[s] # <<>>
    BY <2>1, <2>6 DEF CanWork
  <2>8. ~HasRoom(exchangeBox, Capacity)
    BY <2>7 DEF CanWork
  <2> QED
    BY <1>1, <2>2, <2>4, <2>5, <2>6, <2>8 DEF Jammed
<1> QED
  BY <1>1, <1>2, <1>3

(***************************************************************************)
(* No deadlock among the tasks of the exchange (router.rs, order_book.rs,  *)
(* exchange.rs), whose channels are all bounded: when none of them has     *)
(* what it waits for, all that was accepted is handled and answered, or a  *)
(* client has left its channel full while it calls, for any number of      *)
(* books and callers and any capacity.                                     *)
(***************************************************************************)
THEOREM Stops == Spec => []StopsDoneOrUnread
<1>1. Init => AnswerInv
  BY AnswerInit
<1>2. AnswerInv /\ [Next]_vars => AnswerInv'
  BY AnswerNext
<1>3. AnswerInv => StopsDoneOrUnread
  BY NothingLeft, ClientInTheWay DEF StopsDoneOrUnread
<1> QED
  BY <1>1, <1>2, <1>3, PTL DEF Spec

-----------------------------------------------------------------------------
(***************************************************************************)
(* Effort.  It is the sum of what there is to do between the callers and   *)
(* the books, and of what there is to do from there on.                    *)
(***************************************************************************)
Busy == {c \in Senders : sending[c] # NoMessage}
Books == Cardinality(Symbols)

Load(s) ==
  25 * (entered[s] - handled[s]) + 8 * Cardinality(resting[s]) + 4 * Len(answering[s])
Loads == [s \in Symbols |-> Load(s)]

ToBooks == (27 * Books + 2) * Cardinality(Busy) + (Books + 1) * Len(routerBox) + Len(togo)
Waiter == IF forwarding = NoMessage THEN 0 ELSE 2
FromBooks == SumFunction(Loads) + 3 * Len(exchangeBox) + Waiter + Len(clientBox)

(* All of it can be counted.                                               *)
Countable ==
  /\ IsFiniteSet(Busy) /\ Summable(Loads)
  /\ \A s \in Symbols : /\ entered[s] \in Nat /\ handled[s] \in Nat
                        /\ IsFiniteSet(resting[s]) /\ Len(answering[s]) \in Nat
  /\ Len(routerBox) \in Nat /\ Len(togo) \in Nat
  /\ Len(exchangeBox) \in Nat /\ Len(clientBox) \in Nat

LEMMA RouteLength ==
  /\ IsFiniteSet(Symbols) /\ Books \in Nat
  /\ \A m : Len(Route(m)) \in Nat /\ Len(Route(m)) <= Books
<1>1. IsFiniteSet(Symbols)
  <2>1. PICK n \in Nat : n = Len(Broadcast)
    BY RouterAssumption
  <2>2. Broadcast \in Surjection(1..n, Symbols)
    BY <2>1, RouterAssumption DEF Surjection, Symbols, Range
  <2>3. IsFiniteSet(1..n)
    BY FS_Interval
  <2> QED
    BY <2>2, <2>3, FS_Surjection
<1>2. Books \in Nat
  BY <1>1, FS_CardinalityType DEF Books
<1>3. ASSUME NEW m PROVE Len(Route(m)) \in Nat /\ Len(Route(m)) <= Books
  <2>1. PICK q \in Seq(Symbols) : q = Route(m) /\ IsInjective(q)
    BY RouteType
  <2>2. PICK n \in Nat : n = Len(q)
    OBVIOUS
  <2>3. q \in Injection(1..n, Symbols)
    BY <2>1, <2>2 DEF Injection
  <2>4. Cardinality(1..n) <= Books
    BY <1>1, <2>3, FS_Injection DEF Books
  <2>5. Cardinality(1..n) = n
    BY FS_Interval
  <2> QED
    BY <2>1, <2>2, <2>4, <2>5
<1> QED
  BY <1>1, <1>2, <1>3

LEMMA AllCountable ==
  AnswerInv => Countable
<1> SUFFICES ASSUME AnswerInv PROVE Countable
  OBVIOUS
<1>1. LineTyped /\ AnswersTyped /\ RestingTyped
  BY DEF AnswerInv, LineInv, OrdersTracked
<1>2. IsFiniteSet(Senders)
  BY ExchangeAssumption, FS_AddElement DEF Senders
<1>3. IsFiniteSet(Busy)
  BY <1>2, FS_Subset DEF Busy
<1>4. ASSUME NEW s \in Symbols
      PROVE  /\ entered[s] \in Nat /\ handled[s] \in Nat
             /\ IsFiniteSet(resting[s]) /\ Len(answering[s]) \in Nat
  <2>1. IsFiniteSet(1..submitted)
    BY <1>1, FS_Interval DEF RestingTyped
  <2>2. IsFiniteSet(resting[s])
    BY <1>1, <2>1, FS_Subset DEF RestingTyped
  <2>3. answering[s] \in Seq(AnswerMessage)
    BY <1>1 DEF AnswersTyped
  <2> QED
    BY <1>1, <2>2, <2>3 DEF LineTyped
<1>5. Summable(Loads)
  <2>1. \A s \in Symbols : Cardinality(resting[s]) \in Nat
    BY <1>4, FS_CardinalityType
  <2>2. \A s \in Symbols : Load(s) \in Int
    BY <1>4, <2>1 DEF Load
  <2> QED
    BY <2>2, RouteLength DEF Summable, Loads
<1>6. /\ Len(routerBox) \in Nat /\ Len(togo) \in Nat
      /\ Len(exchangeBox) \in Nat /\ Len(clientBox) \in Nat
  <2>1. /\ routerBox \in Seq(RouterMessage) /\ togo \in Seq(Symbols)
        /\ exchangeBox \in Seq(AnswerMessage) /\ clientBox \in Seq(Letter)
    BY <1>1 DEF LineTyped, AnswersTyped
  <2> QED
    BY <2>1
<1> QED
  BY <1>3, <1>4, <1>5, <1>6 DEF Countable

LEMMA Counts ==
  ASSUME Countable
  PROVE  /\ SumFunction(Loads) \in Int /\ Waiter \in {0, 2}
         /\ Len(exchangeBox) \in Nat /\ Len(clientBox) \in Nat
         /\ \A s \in Symbols : Cardinality(resting[s]) \in Nat
<1>1. SumFunction(Loads) \in Int
  BY SumFunctionType DEF Countable
<1>2. \A s \in Symbols : Cardinality(resting[s]) \in Nat
  BY FS_CardinalityType DEF Countable
<1> QED
  BY <1>1, <1>2 DEF Countable, Waiter

LEMMA EffortParts ==
  Countable => Effort = ToBooks + FromBooks /\ ToBooks \in Int /\ FromBooks \in Int
<1> SUFFICES ASSUME Countable
             PROVE  Effort = ToBooks + FromBooks /\ ToBooks \in Int /\ FromBooks \in Int
  OBVIOUS
<1>1. PICK b \in Nat, w \in Nat, l \in Nat, t \in Nat :
        b = Books /\ w = Cardinality(Busy) /\ l = Len(routerBox) /\ t = Len(togo)
  BY RouteLength, FS_CardinalityType DEF Countable
<1>2. PICK d \in Int, x \in Nat, h \in Int, c \in Nat :
        d = SumFunction(Loads) /\ x = Len(exchangeBox) /\ h = Waiter /\ c = Len(clientBox)
  BY SumFunctionType DEF Countable, Waiter
<1>3. PICK p \in Int, q \in Int : p = (27 * b + 2) * w /\ q = (b + 1) * l
  OBVIOUS
<1>4. Effort = p + q + t + d + 3 * x + h + c
  BY <1>1, <1>2, <1>3 DEF Effort, Books, Busy, Load, Loads, Waiter
<1>5. ToBooks = p + q + t
  BY <1>1, <1>3 DEF ToBooks
<1>6. FromBooks = d + 3 * x + h + c
  BY <1>2 DEF FromBooks
<1> QED
  BY <1>4, <1>5, <1>6

(* Less to do on one side, and no more on the other.                       *)
LEMMA EffortFalls ==
  ASSUME Countable, Countable', ToBooks' + FromBooks' < ToBooks + FromBooks
  PROVE  Effort' < Effort
<1>1. Effort = ToBooks + FromBooks /\ ToBooks \in Int /\ FromBooks \in Int
  BY EffortParts
<1>2. Countable' => (Effort = ToBooks + FromBooks)'
  BY EffortParts, PTL
<1> QED
  BY <1>1, <1>2

LEMMA RouterEffort ==
  ASSUME LineTyped, Countable, Countable', RouterStep
  PROVE  Effort' < Effort
<1>1. UNCHANGED <<Busy, Loads, Waiter, exchangeBox, clientBox>>
  BY DEF RouterStep, Busy, Loads, Load, Waiter, bookVars, clientVars
<1>2. FromBooks' = FromBooks /\ FromBooks \in Int /\ ToBooks \in Int
  BY <1>1, EffortParts DEF FromBooks
<1>3. PICK b \in Nat, w \in Nat, l \in Nat, t \in Nat :
        b = Books /\ w = Cardinality(Busy) /\ l = Len(routerBox) /\ t = Len(togo)
  BY RouteLength, FS_CardinalityType DEF Countable
<1>4. PICK m \in Nat, u \in Nat : m = Len(routerBox') /\ u = Len(togo')
  BY DEF Countable
<1>5. PICK a \in Int : a = (27 * b + 2) * w
  OBVIOUS
<1>6. ToBooks = a + (b + 1) * l + t /\ ToBooks' = a + (b + 1) * m + u
  BY <1>1, <1>3, <1>4, <1>5 DEF ToBooks, Books
<1>7. CASE RouterTake
  <2>1. routing = NoMessage /\ routerBox # <<>> /\ routerBox' = Tail(routerBox)
        /\ togo' = Route(Head(routerBox))
    BY <1>7 DEF RouterTake
  <2>2. t = 0
    BY <1>3, <2>1 DEF LineTyped
  <2>3. m = l - 1
    BY <1>3, <1>4, <2>1 DEF LineTyped
  <2>4. u <= b
    BY <1>3, <1>4, <2>1, RouteLength
  <2>5. (b + 1) * l = (b + 1) * m + b + 1
    BY <2>3
  <2> QED
    BY <1>2, <1>6, <2>2, <2>4, <2>5, EffortFalls
<1>8. CASE RouterSend
  <2>1. togo # <<>> /\ togo' = Tail(togo) /\ UNCHANGED routerBox
    BY <1>8 DEF RouterSend
  <2>2. m = l /\ u = t - 1
    BY <1>3, <1>4, <2>1 DEF LineTyped
  <2>3. (b + 1) * m = (b + 1) * l /\ (b + 1) * l \in Int
    BY <2>2
  <2> QED
    BY <1>2, <1>6, <2>2, <2>3, EffortFalls
<1> QED
  BY <1>7, <1>8 DEF RouterStep, RouterNext

(* A call that returns: its message may cause work in every book.          *)
LEMMA AcceptEffort ==
  ASSUME LineTyped, Countable, Countable', NEW c \in Senders, Accept(c)
  PROVE  Effort' < Effort
<1>1. PICK e : e = sending[c]
  OBVIOUS
<1>2. /\ e # NoMessage /\ Enter(e) /\ sending' = [sending EXCEPT ![c] = NoMessage]
      /\ UNCHANGED <<handled, resting, answering, exchangeBox, clientBox, Waiter, togo>>
  BY <1>1 DEF Accept, Enter, bookVars, clientVars, Waiter
<1>3. PICK b \in Nat, w \in Nat, l \in Nat, t \in Nat :
        b = Books /\ w = Cardinality(Busy) /\ l = Len(routerBox) /\ t = Len(togo)
  BY RouteLength, FS_CardinalityType DEF Countable
<1>4. Cardinality(Busy') = w - 1
  <2>1. c \in Busy /\ Busy' = Busy \ {c}
    BY <1>1, <1>2 DEF Busy, LineTyped
  <2> QED
    BY <1>3, <2>1, FS_RemoveElement DEF Countable
<1>5. Len(routerBox') = l + 1
  <2>1. PICK n : routerBox' = Append(routerBox, n)
    BY <1>2 DEF Enter
  <2>2. Len(Append(routerBox, n)) = Len(routerBox) + 1
    BY DEF LineTyped
  <2> QED
    BY <1>3, <2>1, <2>2
<1>6. ToBooks = (27 * b + 2) * w + (b + 1) * l + t
      /\ ToBooks' = (27 * b + 2) * (w - 1) + (b + 1) * (l + 1) + t
  BY <1>2, <1>3, <1>4, <1>5 DEF ToBooks, Books
<1>7. /\ (27 * b + 2) * (w - 1) = (27 * b + 2) * w - 27 * b - 2
      /\ (b + 1) * (l + 1) = (b + 1) * l + b + 1
      /\ (27 * b + 2) * w \in Int /\ (b + 1) * l \in Int
  OBVIOUS
<1>8. ToBooks' = ToBooks - 26 * b - 1
  BY <1>6, <1>7
<1>9. PICK d \in Int, f \in Int : d = SumFunction(Loads) /\ f = SumFunction(Loads')
  BY SumFunctionType DEF Countable
<1>10. f <= d + 25 * b
  <2>1. \A s \in Symbols : Load(s)' <= Load(s) + 25
    <3>1. SUFFICES ASSUME NEW s \in Symbols PROVE Load(s)' <= Load(s) + 25
      OBVIOUS
    <3>2. PICK n \in Nat, h \in Nat, k \in Nat, a \in Nat :
            n = entered[s] /\ h = handled[s] /\ k = Cardinality(resting[s]) /\ a = Len(answering[s])
      BY FS_CardinalityType DEF Countable
    <3>3. entered'[s] = n + 1 \/ entered'[s] = n
      BY <1>2, <3>2 DEF Enter
    <3>4. Load(s) = 25 * (n - h) + 8 * k + 4 * a
      BY <3>2 DEF Load
    <3>5. Load(s)' = 25 * (entered'[s] - h) + 8 * k + 4 * a
      BY <1>2, <3>2 DEF Load
    <3> QED
      BY <3>3, <3>4, <3>5
  <2>2. DOMAIN Loads = Symbols /\ DOMAIN Loads' = Symbols
        /\ \A s \in Symbols : Loads[s] = Load(s) /\ Loads'[s] = Load(s)'
    BY DEF Loads
  <2>3. \A s \in DOMAIN Loads : Loads'[s] <= Loads[s] + 25
    BY <2>1, <2>2
  <2>4. SumFunction(Loads') <= SumFunction(Loads) + 25 * Cardinality(DOMAIN Loads)
    <3>1. PICK g, h : g = Loads /\ h = Loads'
      OBVIOUS
    <3>2. Summable(g) /\ Summable(h) /\ DOMAIN h = DOMAIN g /\ 25 \in Nat
          /\ \A s \in DOMAIN g : h[s] <= g[s] + 25
      BY <2>2, <2>3, <3>1 DEF Countable
    <3>3. SumFunction(h) <= SumFunction(g) + 25 * Cardinality(DOMAIN g)
      BY <3>2, SumGrowth
    <3> QED
      BY <3>1, <3>3
  <2> QED
    BY <1>3, <1>9, <2>2, <2>4 DEF Books
<1>11. PICK x \in Nat, y \in Int, z \in Nat :
         x = Len(exchangeBox) /\ y = Waiter /\ z = Len(clientBox)
  BY DEF Countable, Waiter
<1>12. FromBooks = d + 3 * x + y + z /\ FromBooks' = f + 3 * x + y + z
  BY <1>2, <1>9, <1>11 DEF FromBooks
<1>13. ToBooks \in Int
  BY EffortParts
<1>14. ToBooks' + FromBooks' < ToBooks + FromBooks
  BY <1>8, <1>10, <1>12, <1>13
<1> QED
  BY <1>14, EffortFalls

-----------------------------------------------------------------------------
(* Steps on the way from the books.                                        *)
LEMMA FromBooksFalls ==
  ASSUME Countable, Countable', UNCHANGED <<routerBox, togo, sending>>, FromBooks' < FromBooks
  PROVE  Effort' < Effort
<1>1. ToBooks' = ToBooks
  BY DEF ToBooks, Books, Busy
<1>2. ToBooks \in Int /\ FromBooks \in Int
  BY EffortParts
<1>3. Countable' => (FromBooks \in Int)'
  BY EffortParts, PTL
<1> QED
  BY <1>1, <1>2, <1>3, EffortFalls

(* A book with less to do.                                                 *)
LEMMA LoadChange ==
  ASSUME Countable, Countable', NEW s \in Symbols,
         \A u \in Symbols \ {s} : Load(u)' = Load(u)
  PROVE  SumFunction(Loads') = SumFunction(Loads) - Load(s) + Load(s)'
<1>1. DOMAIN Loads = Symbols /\ DOMAIN Loads' = Symbols
      /\ \A u \in Symbols : Loads[u] = Load(u) /\ Loads'[u] = Load(u)'
  BY DEF Loads
<1>2. PICK g, h : g = Loads /\ h = Loads'
  OBVIOUS
<1>3. /\ Summable(g) /\ Summable(h) /\ DOMAIN g = Symbols /\ DOMAIN h = Symbols
      /\ g[s] = Load(s) /\ h[s] = Load(s)'
      /\ \A u \in Symbols \ {s} : h[u] = g[u]
  BY <1>1, <1>2 DEF Countable
<1>4. h[s] \in Int
  BY <1>3 DEF Summable
<1>5. SumFunction(h) = SumFunction(g) - g[s] + h[s]
  BY <1>3, <1>4, SumChange
<1> QED
  BY <1>2, <1>3, <1>5

LEMMA LoadFalls ==
  ASSUME Countable, Countable', NEW s \in Symbols,
         \A u \in Symbols \ {s} : Load(u)' = Load(u),
         NEW v \in Int, NEW w \in Int, v = Load(s), w = Load(s)', w < v,
         UNCHANGED <<routerBox, togo, sending, exchangeBox, clientBox, Waiter>>
  PROVE  Effort' < Effort
<1>1. PICK d \in Int, x \in Nat, y \in Int, z \in Nat :
        d = SumFunction(Loads) /\ x = Len(exchangeBox) /\ y = Waiter /\ z = Len(clientBox)
  BY Counts
<1>2. SumFunction(Loads') = d - v + w
  BY <1>1, LoadChange
<1>3. FromBooks = d + 3 * x + y + z
  BY <1>1 DEF FromBooks
<1>4. FromBooks' = d - v + w + 3 * x + y + z
  BY <1>1, <1>2 DEF FromBooks
<1>5. FromBooks' < FromBooks
  BY <1>3, <1>4
<1> QED
  BY <1>5, FromBooksFalls

LEMMA TakeEffort ==
  ASSUME LineTyped, AnswersTyped, RestingTyped, Countable, Countable',
         NEW s \in Symbols, NEW kind, Take(s, kind),
         NEW updates \in Seq(Update), Reply(s, updates),
         NEW rest, resting' = [resting EXCEPT ![s] = rest], NEW k \in Nat, k = Cardinality(rest),
         8 * k + 4 * Len(updates) < 25 + 8 * Cardinality(resting[s])
  PROVE  Effort' < Effort
<1>1. /\ UNCHANGED <<routerBox, togo, sending, entered, exchangeBox, clientBox, Waiter>>
      /\ handled' = [handled EXCEPT ![s] = @ + 1] /\ answering[s] = <<>>
  BY DEF Take, clientVars, Waiter
<1>2. /\ Len(answering'[s]) = Len(updates)
      /\ \A u \in Symbols \ {s} : answering'[u] = answering[u]
  BY ReplyFacts
<1>3. \A u \in Symbols \ {s} : Load(u)' = Load(u)
  BY <1>1, <1>2 DEF Load, LineTyped, RestingTyped
<1>4. PICK n \in Nat, h \in Nat, j \in Nat, a \in Nat :
        n = entered[s] /\ h = handled[s] /\ j = Cardinality(resting[s]) /\ a = Len(updates)
  <2>1. PICK n \in Nat : n = entered[s]
    BY DEF Countable
  <2>2. PICK h \in Nat : h = handled[s]
    BY DEF Countable
  <2>3. PICK j \in Nat : j = Cardinality(resting[s])
    BY Counts
  <2>4. PICK a \in Nat : a = Len(updates)
    OBVIOUS
  <2> QED
    BY <2>1, <2>2, <2>3, <2>4
<1>5. Load(s) = 25 * (n - h) + 8 * j
  <2>1. PICK e \in Nat : e = Len(answering[s]) /\ e = 0
    BY <1>1
  <2>2. Load(s) = 25 * (n - h) + 8 * j + 4 * e
    BY <1>4, <2>1 DEF Load
  <2> QED
    BY <2>1, <2>2
<1>6. Load(s)' = 25 * (n - (h + 1)) + 8 * k + 4 * a
  <2>1. resting'[s] = rest /\ handled'[s] = h + 1 /\ entered'[s] = n
    BY <1>1, <1>4 DEF LineTyped, RestingTyped
  <2> QED
    BY <1>2, <1>4, <2>1 DEF Load
<1>7. PICK v \in Int : v = 25 * (n - h) + 8 * j
  OBVIOUS
<1>8. PICK w \in Int : w = 25 * (n - (h + 1)) + 8 * k + 4 * a
  OBVIOUS
<1>9. v = Load(s) /\ w = Load(s)' /\ w < v
  <2>1. 8 * k + 4 * a < 25 + 8 * j
    BY <1>4
  <2>2. w < v
    BY <1>7, <1>8, <2>1, SMTT(30)
  <2> QED
    BY <1>5, <1>6, <1>7, <1>8, <2>2
<1> QED
  BY <1>1, <1>3, <1>9, LoadFalls

LEMMA BookTakeEffort ==
  ASSUME LineTyped, AnswersTyped, RestingTyped, Countable, Countable',
         NEW s \in Symbols, BookTake(s)
  PROVE  Effort' < Effort
<1>1. PICK old : old = resting[s]
  OBVIOUS
<1>2. IsFiniteSet(old) /\ resting[s] = old
  BY <1>1 DEF Countable
<1>3. PICK j \in Nat : j = Cardinality(old)
  BY <1>2, FS_CardinalityType
<1>4. PICK o : o = Head(bookBox[s]).id
  OBVIOUS
<1>5. ASSUME NEW kind, Take(s, kind), NEW updates \in Seq(Update), Reply(s, updates),
             NEW rest, resting' = [resting EXCEPT ![s] = rest], rest \subseteq old,
             NEW n \in Nat, n = Len(updates), n = 1 \/ Cardinality(rest) = j - n
      PROVE  Effort' < Effort
  <2>1. PICK k \in Nat : k = Cardinality(rest) /\ k <= j
    BY <1>2, <1>3, <1>5, FS_Subset, FS_CardinalityType
  <2>2. k <= j /\ (n = 1 \/ k = j - n)
    BY <1>5, <2>1
  <2>3. 8 * k + 4 * n < 25 + 8 * j
    BY <2>2
  <2> QED
    BY <1>2, <1>3, <1>5, <2>1, <2>3, TakeEffort
<1>6. ASSUME TakeOrder(s) PROVE Effort' < Effort
  <2>1. Take(s, "SubmitOrder")
    BY <1>6 DEF TakeOrder
  <2>2. PICK p \in Orders, updates \in Seq(Update) : \E rest :
          /\ Reply(s, updates) /\ resting' = [resting EXCEPT ![s] = rest]
          /\ OrderReply(s, p, updates, rest)
    BY <1>6, TakeOrderReply
  <2>3. PICK rest :
          /\ Reply(s, updates) /\ resting' = [resting EXCEPT ![s] = rest]
          /\ OrderReply(s, p, updates, rest)
    BY <2>2
  <2>4. rest \subseteq old \cup {p}
        /\ 8 * Cardinality(rest) + 4 * Len(updates) < 25 + 8 * Cardinality(resting[s])
    BY <1>1, <2>3 DEF OrderReply
  <2>5. IsFiniteSet(old \cup {p})
    BY <1>2, FS_AddElement
  <2>6. PICK k \in Nat : k = Cardinality(rest)
    BY <2>4, <2>5, FS_Subset, FS_CardinalityType
  <2>7. 8 * k + 4 * Len(updates) < 25 + 8 * Cardinality(resting[s])
    BY <2>4, <2>6
  <2> QED
    BY <2>1, <2>3, <2>6, <2>7, TakeEffort
<1>7. ASSUME TakeCancel(s) PROVE Effort' < Effort
  <2>1. Take(s, "CancelOrder")
    BY <1>7 DEF TakeCancel
  <2>2. o \in Orders
    BY <1>4, <2>1, HeadOfBookBox
  <2>3. PICK u : u = <<o, IF o \in resting[s] THEN "Canceled" ELSE "Rejected">>
    OBVIOUS
  <2>4. u \in Update
    BY <2>2, <2>3 DEF Update, OrderStatus
  <2>5. PICK updates : updates = <<u>>
    OBVIOUS
  <2>6. updates \in Seq(Update) /\ Len(updates) = 1
    BY <2>4, <2>5, OneUpdate
  <2>7. PICK rest : rest = old \ {o}
    OBVIOUS
  <2>8. resting' = [resting EXCEPT ![s] = rest] /\ Reply(s, updates)
    BY <1>1, <1>4, <1>7, <2>3, <2>5, <2>7 DEF TakeCancel
  <2>9. PICK n \in Nat : n = Len(updates) /\ n = 1
    BY <2>6
  <2>10. rest \subseteq old
    BY <2>7
  <2> QED
    BY <1>5, <2>1, <2>6, <2>8, <2>9, <2>10
<1>8. ASSUME TakeHeartbeat(s) PROVE Effort' < Effort
  <2>1. Take(s, "Heartbeat")
    BY <1>8 DEF TakeHeartbeat
  <2>2. PICK expired \in SUBSET resting[s] :
          /\ resting' = [resting EXCEPT ![s] = @ \ expired]
          /\ \E q \in Bijection(1..Cardinality(expired), expired) :
               Reply(s, [i \in DOMAIN q |-> <<q[i], "Canceled">>])
    BY <1>8 DEF TakeHeartbeat
  <2>3. PICK q \in Bijection(1..Cardinality(expired), expired) :
          Reply(s, [i \in DOMAIN q |-> <<q[i], "Canceled">>])
    BY <2>2
  <2>4. PICK updates : updates = [i \in DOMAIN q |-> <<q[i], "Canceled">>]
    OBVIOUS
  <2>5. updates \in Seq(Update)
    BY <2>4, ExpiredUpdates
  <2>6. PICK n \in Nat : n = Cardinality(expired)
    BY <1>1, <1>2, FS_Subset, FS_CardinalityType
  <2>7. DOMAIN q = 1..n
    BY <2>6 DEF Bijection, Injection
  <2>8. n = Len(updates)
    BY <2>4, <2>5, <2>7
  <2>9. PICK rest : rest = old \ expired
    OBVIOUS
  <2>10. Cardinality(rest) = j - n
    <3>1. old \cap expired = expired
      BY <1>1
    <3>2. Cardinality(rest) = Cardinality(old) - Cardinality(old \cap expired)
      BY <1>2, <2>9, FS_Difference
    <3> QED
      BY <1>3, <2>6, <3>1, <3>2
  <2>11. resting' = [resting EXCEPT ![s] = rest] /\ Reply(s, updates)
    BY <1>1, <2>2, <2>3, <2>4, <2>9
  <2>12. rest \subseteq old
    BY <2>9
  <2> QED
    BY <1>5, <2>1, <2>5, <2>8, <2>10, <2>11, <2>12
<1> QED
  BY <1>6, <1>7, <1>8 DEF BookTake

LEMMA AnswerEffort ==
  ASSUME LineTyped, AnswersTyped, RestingTyped, Countable, Countable',
         (\E s \in Symbols : BookSend(s)) \/ ForwardTake \/ ForwardSend \/ Read
  PROVE  Effort' < Effort
<1>1. UNCHANGED <<routerBox, togo, sending, entered, handled, resting>>
  BY DEF BookSend, ForwardTake, ForwardSend, Read, routerVars, bookVars
<1>2. PICK d \in Int, x \in Nat, y \in Int, z \in Nat :
        /\ d = SumFunction(Loads) /\ x = Len(exchangeBox) /\ y = Waiter /\ z = Len(clientBox)
        /\ FromBooks = d + 3 * x + y + z
  <2>1. PICK d \in Int, x \in Nat, y \in Int, z \in Nat :
          d = SumFunction(Loads) /\ x = Len(exchangeBox) /\ y = Waiter /\ z = Len(clientBox)
    BY Counts
  <2>2. FromBooks = d + 3 * x + y + z
    BY <2>1 DEF FromBooks
  <2> QED
    BY <2>1, <2>2
<1>3. \A q \in Seq(Letter), m \in Letter : Len(Append(q, m)) = Len(q) + 1
  OBVIOUS
<1>4. \A q \in Seq(Letter) : q # <<>> => Len(Tail(q)) = Len(q) - 1
  OBVIOUS
<1>5. exchangeBox \in Seq(Letter) /\ clientBox \in Seq(Letter)
  BY AnswerLetter DEF AnswersTyped
<1>6. ASSUME NEW s \in Symbols, BookSend(s) PROVE FromBooks' < FromBooks
  <2>1. PICK q \in Seq(AnswerMessage) : q = answering[s] /\ q # <<>>
    BY <1>6 DEF AnswersTyped, BookSend
  <2>2. PICK m \in Letter : m = Head(q)
    BY <2>1, HeadTailProperties, AnswerLetter
  <2>3. /\ exchangeBox' = Append(exchangeBox, m)
        /\ answering' = [answering EXCEPT ![s] = Tail(q)]
        /\ UNCHANGED <<clientBox, Waiter>>
    BY <1>6, <2>1, <2>2 DEF BookSend, clientVars, Waiter
  <2>4. Len(exchangeBox') = x + 1
    BY <1>2, <1>3, <1>5, <2>3
  <2>5. \A u \in Symbols \ {s} : Load(u)' = Load(u)
    BY <1>1, <2>3 DEF Load, AnswersTyped
  <2>6. PICK n \in Nat, h \in Nat, j \in Nat, a \in Nat :
          n = entered[s] /\ h = handled[s] /\ j = Cardinality(resting[s]) /\ a = Len(q)
    <3>1. entered[s] \in Nat /\ handled[s] \in Nat /\ Cardinality(resting[s]) \in Nat
      BY Counts DEF Countable
    <3>2. Len(q) \in Nat
      OBVIOUS
    <3> QED
      BY <3>1, <3>2
  <2>7. Len(answering[s]) = a /\ Len(answering'[s]) = a - 1
    BY <2>1, <2>3, <2>6 DEF AnswersTyped
  <2>8. Load(s) = 25 * (n - h) + 8 * j + 4 * a /\ Load(s)' = 25 * (n - h) + 8 * j + 4 * (a - 1)
    BY <1>1, <2>6, <2>7 DEF Load
  <2>9. PICK v \in Int : v = Load(s) /\ Load(s)' = v - 4
    BY <2>6, <2>8
  <2>10. SumFunction(Loads') = d - v + (v - 4)
    BY <1>2, <2>5, <2>9, LoadChange
  <2>11. FromBooks' = d - v + (v - 4) + 3 * (x + 1) + y + z
    BY <1>2, <2>3, <2>4, <2>10 DEF FromBooks
  <2>12. FromBooks = d + 3 * x + y + z
    BY <1>2
  <2>13. d - v + (v - 4) + 3 * (x + 1) + y + z < d + 3 * x + y + z
    OBVIOUS
  <2> QED
    BY <2>11, <2>12, <2>13
<1>7. ASSUME UNCHANGED answering PROVE SumFunction(Loads') = d
  <2>1. Loads' = Loads
    BY <1>1, <1>7 DEF Loads, Load
  <2> QED
    BY <1>2, <2>1
<1>8. ASSUME NEW m \in Letter, Deliver(m) PROVE Len(clientBox') \in {z, z + 1}
  BY <1>2, <1>3, <1>5, <1>8 DEF Deliver
<1>9. ASSUME ForwardTake PROVE FromBooks' < FromBooks
  <2>1. /\ forwarding = NoMessage /\ exchangeBox # <<>> /\ exchangeBox' = Tail(exchangeBox)
        /\ UNCHANGED answering
    BY <1>9 DEF ForwardTake, bookVars
  <2>2. PICK m \in Letter : m = Head(exchangeBox)
    BY <1>5, <2>1, HeadTailProperties
  <2>3. \/ Deliver(m) /\ UNCHANGED forwarding
        \/ UNCHANGED clientBox
    BY <1>9, <2>2 DEF ForwardTake
  <2>4. Len(exchangeBox') = x - 1 /\ y = 0
    BY <1>2, <1>4, <1>5, <2>1 DEF Waiter
  <2>5. \/ Waiter' = 0 /\ Len(clientBox') \in {z, z + 1}
        \/ Waiter' \in {0, 2} /\ Len(clientBox') = z
    BY <1>2, <1>8, <2>1, <2>3 DEF Waiter
  <2>6. FromBooks' = d + 3 * (x - 1) + Waiter' + Len(clientBox')
    BY <1>7, <2>1, <2>4 DEF FromBooks
  <2>7. PICK f \in Int, c \in Int : f = Waiter' /\ c = Len(clientBox')
    BY <2>5
  <2>8. f + c <= z + 2
    BY <2>5, <2>7
  <2>9. FromBooks = d + 3 * x + z
    BY <1>2, <2>4
  <2>10. FromBooks' = d + 3 * (x - 1) + f + c
    BY <2>6, <2>7
  <2> QED
    BY <2>8, <2>9, <2>10
<1>10. ASSUME ForwardSend PROVE FromBooks' < FromBooks
  <2>1. PICK m \in Letter : m = forwarding /\ m # NoMessage
    BY <1>10, AnswerLetter DEF ForwardSend, AnswersTyped
  <2>2. Deliver(m) /\ forwarding' = NoMessage /\ UNCHANGED <<exchangeBox, answering>>
    BY <1>10, <2>1 DEF ForwardSend, bookVars
  <2>3. y = 2 /\ Waiter' = 0 /\ Len(clientBox') \in {z, z + 1}
    BY <1>2, <1>8, <2>1, <2>2 DEF Waiter
  <2>4. FromBooks' = d + 3 * x + Waiter' + Len(clientBox')
    BY <1>2, <1>7, <2>2 DEF FromBooks
  <2> QED
    BY <1>2, <2>3, <2>4, SMTT(30)
<1>11. ASSUME Read PROVE FromBooks' < FromBooks
  <2>1. /\ clientBox # <<>> /\ clientBox' = Tail(clientBox)
        /\ UNCHANGED <<exchangeBox, Waiter, answering>>
    BY <1>11 DEF Read, Waiter, bookVars
  <2>2. Len(clientBox') = z - 1
    BY <1>2, <1>4, <1>5, <2>1
  <2>3. FromBooks' = d + 3 * x + y + (z - 1)
    BY <1>2, <1>7, <2>1, <2>2 DEF FromBooks
  <2> QED
    BY <1>2, <2>3
<1>12. FromBooks' < FromBooks
  BY <1>6, <1>9, <1>10, <1>11
<1> QED
  BY <1>1, <1>12, FromBooksFalls

(* The calls are counted.                                                  *)
CountersTyped == cancels \in Nat /\ beats \in Nat /\ notices \in Nat

LEMMA CountersNext ==
  CountersTyped /\ [Next]_vars => CountersTyped'
<1> SUFFICES ASSUME CountersTyped, [Next]_vars PROVE CountersTyped'
  OBVIOUS
<1> USE DEF CountersTyped
<1>1. CASE Work
  <2>1. UNCHANGED inputVars
    BY <1>1, AnswerKinds DEF Work, Accept, RouterStep, BookSend, ForwardTake, ForwardSend, Read,
                BookTake, TakeOrder, TakeCancel, TakeHeartbeat, Take
  <2> QED
    BY <2>1 DEF inputVars
<1>2. ASSUME NEW c \in Callers, NEW o \in Orders, SubmitOrder(c, o) PROVE CountersTyped'
  BY <1>2 DEF SubmitOrder, Begin
<1>3. ASSUME NEW c \in Callers, NEW o \in Orders, CancelOrder(c, o) PROVE CountersTyped'
  BY <1>3 DEF CancelOrder, Begin
<1>4. CASE Beat
  BY <1>4 DEF Beat, Begin
<1>5. CASE NotifyClients
  BY <1>5 DEF NotifyClients
<1>6. CASE Read \/ DropReceiver
  BY <1>6 DEF Read, DropReceiver, inputVars
<1>7. CASE UNCHANGED vars
  BY <1>7 DEF vars, inputVars
<1> QED
  BY <1>1, <1>2, <1>3, <1>4, <1>5, <1>6, <1>7 DEF Next

LEMMA EffortNext ==
  ASSUME AnswerInv, CountersTyped, [Next]_vars
  PROVE  [UNCHANGED <<inputVars, receiver>> => Effort' < Effort]_vars
<1>1. AnswerInv'
  BY AnswerNext
<1>2. AnswerInv' => Countable'
  BY AllCountable, PTL
<1>3. Countable /\ Countable'
  BY <1>1, <1>2, AllCountable
<1>4. LineTyped /\ AnswersTyped /\ RestingTyped
  BY DEF AnswerInv, LineInv, OrdersTracked
<1>5. SUFFICES ASSUME Next, UNCHANGED <<inputVars, receiver>> PROVE Effort' < Effort
  OBVIOUS
<1>6. UNCHANGED <<submitted, cancels, beats, notices, receiver>>
  BY <1>5 DEF inputVars
<1>7. submitted \in Nat
  BY <1>4 DEF RestingTyped
<1>8. ~NotifyClients /\ ~DropReceiver /\ ~Beat
  BY <1>6 DEF CountersTyped, NotifyClients, DropReceiver, Beat
<1>9. ASSUME NEW c \in Callers, NEW o \in Orders PROVE ~SubmitOrder(c, o) /\ ~CancelOrder(c, o)
  BY <1>6, <1>7 DEF CountersTyped, SubmitOrder, CancelOrder
<1>10. \/ \E c \in Senders : Accept(c)
       \/ RouterStep
       \/ \E s \in Symbols : BookTake(s)
       \/ (\E s \in Symbols : BookSend(s)) \/ ForwardTake \/ ForwardSend \/ Read
  BY <1>5, <1>8, <1>9 DEF Next, Work
<1> QED
  BY <1>3, <1>4, <1>10, AcceptEffort, RouterEffort, BookTakeEffort, AnswerEffort

(***************************************************************************)
(* The tasks of the exchange come to rest between the calls: every step    *)
(* that is not a new call uses up effort, for any number of books, callers *)
(* and messages on their way, and however many orders one order meets.     *)
(***************************************************************************)
THEOREM Rest == Spec => EffortSpent
<1>1. Init => AnswerInv
  BY AnswerInit
<1>2. AnswerInv /\ [Next]_vars => AnswerInv'
  BY AnswerNext
<1>3. Init => CountersTyped
  BY DEF Init, CountersTyped
<1>4. CountersTyped /\ [Next]_vars => CountersTyped'
  BY CountersNext
<1>5. AnswerInv /\ CountersTyped /\ [Next]_vars
        => [UNCHANGED <<inputVars, receiver>> => Effort' < Effort]_vars
  BY EffortNext
<1> QED
  BY <1>1, <1>2, <1>3, <1>4, <1>5, PTL DEF Spec, EffortSpent
=============================================================================
