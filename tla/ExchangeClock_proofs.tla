------------------------ MODULE ExchangeClock_proofs ------------------------
(***************************************************************************)
(* Proofs about the clock, for any number of tasks, any factors and        *)
(* durations, any range of the dates and any amount of real time.          *)
(***************************************************************************)
EXTENDS ExchangeClock, TLAPS

-----------------------------------------------------------------------------
(*                     The arithmetic of the scales                        *)

LEMMA AsI32Facts ==
  ASSUME NEW f \in Factors
  PROVE  /\ AsI32(f) \in Int
         /\ AsI32(f) = 0 <=> f = 0
  BY ClockAssumption DEF AsI32

(* Division of numbers that are not negative.                              *)
LEMMA DivFacts ==
  ASSUME NEW a \in Nat, NEW b \in Nat \ {0}
  PROVE  /\ a \div b \in Nat
         /\ (a \div b) * b <= a
         /\ a < (a \div b) * b + b
  OBVIOUS

LEMMA DivMonotone ==
  ASSUME NEW a \in Nat, NEW c \in Nat, NEW b \in Nat \ {0}, a <= c
  PROVE  a \div b <= c \div b
<1> DEFINE q == a \div b
           p == c \div b
<1>1. q \in Nat /\ p \in Nat /\ q * b <= a /\ c < p * b + b
  BY DivFacts
<1> HIDE DEF p, q
<1>2. q * b < (p + 1) * b
  BY <1>1
<1>3. q < p + 1
  BY <1>1, <1>2
<1> QED
  BY <1>1, <1>3 DEF p, q

LEMMA Products ==
  ASSUME NEW r \in Nat, NEW j \in Nat, NEW k \in Nat, j <= k
  PROVE  r * j \in Nat /\ r * j <= r * k
  OBVIOUS

LEMMA DivShrinks ==
  ASSUME NEW r \in Nat, NEW j \in Nat \ {0}, NEW k \in Nat \ {0}, j <= k
  PROVE  r \div k <= r \div j
<1> DEFINE p == r \div k
           q == r \div j
<1>1. p \in Nat /\ q \in Nat /\ p * k <= r /\ r < q * j + j
  BY DivFacts
<1> HIDE DEF p, q
<1>2. p * j <= p * k /\ q * j + j = (q + 1) * j
  BY <1>1, Products
<1>3. p * j < (q + 1) * j
  BY <1>1, <1>2
<1>4. p < q + 1
  BY <1>1, <1>3
<1> QED
  BY <1>1, <1>4 DEF p, q

(* Two numbers divided one by one give no more than their sum.             *)
LEMMA DivSum ==
  ASSUME NEW a \in Nat, NEW c \in Nat, NEW b \in Nat \ {0}
  PROVE  a \div b + c \div b <= (a + c) \div b
<1> DEFINE p == a \div b
           q == c \div b
           m == (a + c) \div b
<1>1. a + c \in Nat
  OBVIOUS
<1>2. /\ p \in Nat /\ q \in Nat /\ m \in Nat
      /\ p * b <= a /\ q * b <= c /\ a + c < m * b + b
  BY <1>1, DivFacts
<1> HIDE DEF p, q, m
<1>3. (p + q) * b = p * b + q * b /\ (m + 1) * b = m * b + b
  BY <1>2
<1>4. (p + q) * b < (m + 1) * b
  BY <1>2, <1>3
<1>5. p + q < m + 1
  BY <1>2, <1>4
<1> QED
  BY <1>2, <1>5 DEF p, q, m

(* The seconds of a duration that is not negative, and the rest of it.     *)
Whole(a) == (a \div Second) * Second
Rest(a)  == a % Second

LEMMA ModFacts ==
  ASSUME NEW a \in Nat, NEW b \in Nat \ {0}
  PROVE  /\ a % b \in Nat /\ a % b < b
         /\ a % b = a - (a \div b) * b
  OBVIOUS

LEMMA SplitFacts ==
  ASSUME NEW a \in Nat
  PROVE  /\ Whole(a) \in Nat /\ Rest(a) \in Nat
         /\ a = Whole(a) + Rest(a) /\ Rest(a) < Second
<1>1. Second \in Nat \ {0}
  BY ClockAssumption
<1>2. a \div Second \in Nat /\ Whole(a) \in Nat
  BY <1>1, DivFacts DEF Whole
<1>3. Rest(a) \in Nat /\ Rest(a) < Second /\ Rest(a) = a - Whole(a)
  BY <1>1, ModFacts DEF Whole, Rest
<1> QED
  BY <1>2, <1>3

(* Of two durations the longer has as many seconds and as long a rest, or  *)
(* more seconds than the other one could fill.                             *)
LEMMA SplitOrder ==
  ASSUME NEW a \in Nat, NEW c \in Nat, a <= c
  PROVE  \/ Whole(a) = Whole(c) /\ Rest(a) <= Rest(c)
         \/ a <= Whole(c)
<1> DEFINE x == a \div Second
           y == c \div Second
<1>1. Second \in Nat \ {0}
  BY ClockAssumption
<1>2. x \in Nat /\ y \in Nat /\ x <= y
  BY <1>1, DivFacts, DivMonotone
<1>3. Whole(a) = x * Second /\ Whole(c) = y * Second
  BY DEF Whole
<1> HIDE DEF x, y
<1>4. CASE x = y
  <2>1. Whole(a) = Whole(c)
    BY <1>3, <1>4
  <2> QED
    BY <2>1, SplitFacts
<1>5. CASE x + 1 <= y
  <2>1. x * Second + Second = (x + 1) * Second
    BY <1>1, <1>2
  <2>2. (x + 1) * Second <= y * Second
    BY <1>1, <1>2, <1>5
  <2>3. a < Whole(a) + Second
    BY <1>1, SplitFacts
  <2>4. x * Second \in Nat /\ y * Second \in Nat
    BY <1>1, <1>2
  <2> QED
    BY <1>1, <1>3, <2>1, <2>2, <2>3, <2>4
<1> QED
  BY <1>2, <1>4, <1>5

LEMMA TruncatedFacts ==
  ASSUME NEW b \in Int \ {0}
  PROVE  /\ \A a \in Int : Truncated(a, b) \in Int
         /\ b > 0 => \A a \in Nat : Truncated(a, b) = a \div b
         /\ b < 0 => \A a \in Nat : Truncated(a, b) = 0 - (a \div (0 - b))
<1>1. ASSUME NEW a \in Int PROVE Truncated(a, b) \in Int
  BY DivFacts DEF Truncated
<1>2. ASSUME b > 0, NEW a \in Nat PROVE Truncated(a, b) = a \div b
  BY <1>2 DEF Truncated
<1>3. ASSUME b < 0, NEW a \in Nat PROVE Truncated(a, b) = 0 - (a \div (0 - b))
  <2>1. -b = 0 - b /\ 0 - b \in Nat \ {0} /\ ~(a < 0)
    BY <1>3
  <2>2. a \div (0 - b) \in Nat
    BY <2>1, DivFacts
  <2> QED
    BY <1>3, <2>1, <2>2 DEF Truncated
<1> QED
  BY <1>1, <1>2, <1>3

LEMMA QuotientType ==
  ASSUME NEW a \in Int, NEW b \in Int \ {0}
  PROVE  Quotient(a, b) \in Int
<1>1. Second \in Nat \ {0}
  BY ClockAssumption
<1>2. (a \div Second) * Second \in Int /\ a % Second \in Int
  BY <1>1
<1> QED
  BY <1>2, TruncatedFacts DEF Quotient

LEMMA QuotientUp ==
  ASSUME NEW a \in Nat, NEW b \in Nat \ {0}
  PROVE  Quotient(a, b) = Whole(a) \div b + Rest(a) \div b
<1>1. b \in Int \ {0} /\ b > 0
  OBVIOUS
<1> QED
  BY <1>1, SplitFacts, TruncatedFacts DEF Quotient, Whole, Rest

LEMMA QuotientDown ==
  ASSUME NEW a \in Nat, NEW b \in Nat \ {0}
  PROVE  Quotient(a, 0 - b) = 0 - Quotient(a, b)
<1>1. 0 - b \in Int \ {0} /\ 0 - b < 0 /\ 0 - (0 - b) = b
  OBVIOUS
<1>2. PICK w \in Nat, r \in Nat : w = Whole(a) /\ r = Rest(a)
  BY SplitFacts
<1>3. Quotient(a, 0 - b) = (0 - (w \div b)) + (0 - (r \div b))
  BY <1>1, <1>2, TruncatedFacts DEF Quotient, Whole, Rest
<1>4. w \div b \in Nat /\ r \div b \in Nat
  BY DivFacts
<1>5. Quotient(a, b) = w \div b + r \div b
  BY <1>2, QuotientUp
<1> QED
  BY <1>3, <1>4, <1>5

(* What two roundings lose: less than the divisor each.                    *)
LEMMA QuotientFacts ==
  ASSUME NEW a \in Nat, NEW b \in Nat \ {0}
  PROVE  /\ Quotient(a, b) \in Nat
         /\ Quotient(a, b) * b <= a
         /\ a < Quotient(a, b) * b + 2 * b
<1>1. PICK w \in Nat, r \in Nat : w = Whole(a) /\ r = Rest(a) /\ a = w + r
  BY SplitFacts
<1>2. PICK p \in Nat, q \in Nat :
        /\ p = w \div b /\ q = r \div b
        /\ p * b <= w /\ w < p * b + b /\ q * b <= r /\ r < q * b + b
  BY DivFacts
<1>3. Quotient(a, b) = p + q
  BY <1>1, <1>2, QuotientUp
<1>4. (p + q) * b = p * b + q * b /\ p * b \in Nat /\ q * b \in Nat
  OBVIOUS
<1> QED
  BY <1>1, <1>2, <1>3, <1>4

LEMMA QuotientMonotone ==
  ASSUME NEW a \in Nat, NEW c \in Nat, NEW b \in Nat \ {0}, a <= c
  PROVE  Quotient(a, b) <= Quotient(c, b)
<1>1. PICK w \in Nat, r \in Nat : w = Whole(a) /\ r = Rest(a) /\ a = w + r
  BY SplitFacts
<1>2. PICK v \in Nat, q \in Nat : v = Whole(c) /\ q = Rest(c)
  BY SplitFacts
<1>3. Quotient(a, b) = w \div b + r \div b /\ Quotient(c, b) = v \div b + q \div b
  BY <1>1, <1>2, QuotientUp
<1>4. /\ w \div b \in Nat /\ r \div b \in Nat /\ v \div b \in Nat /\ q \div b \in Nat
      /\ (w + r) \div b \in Nat
  <2>1. w + r \in Nat
    OBVIOUS
  <2> QED
    BY <2>1, DivFacts
<1>5. CASE w = v /\ r <= q
  BY <1>3, <1>4, <1>5, DivMonotone
<1>6. CASE a <= v
  <2>1. w + r \in Nat /\ w + r <= v
    BY <1>1, <1>6
  <2>2. w \div b + r \div b <= (w + r) \div b /\ (w + r) \div b <= v \div b
    BY <2>1, DivSum, DivMonotone
  <2> QED
    BY <1>3, <1>4, <2>2
<1> QED
  BY <1>1, <1>2, <1>5, <1>6, SplitOrder

LEMMA QuotientShrinks ==
  ASSUME NEW r \in Nat, NEW j \in Nat \ {0}, NEW k \in Nat \ {0}, j <= k
  PROVE  Quotient(r, k) <= Quotient(r, j)
<1>1. PICK w \in Nat, q \in Nat : w = Whole(r) /\ q = Rest(r)
  BY SplitFacts
<1>2. Quotient(r, k) = w \div k + q \div k /\ Quotient(r, j) = w \div j + q \div j
  BY <1>1, QuotientUp
<1>3. w \div k \in Nat /\ q \div k \in Nat /\ w \div j \in Nat /\ q \div j \in Nat
  BY DivFacts
<1>4. w \div k <= w \div j /\ q \div k <= q \div j
  BY DivShrinks
<1> QED
  BY <1>2, <1>3, <1>4

LEMMA QuotientByOne ==
  ASSUME NEW r \in Nat
  PROVE  Quotient(r, 1) = r
<1>1. PICK w \in Nat, q \in Nat : w = Whole(r) /\ q = Rest(r) /\ r = w + q
  BY SplitFacts
<1>2. w \div 1 = w /\ q \div 1 = q
  OBVIOUS
<1> QED
  BY <1>1, <1>2, QuotientUp

(* A whole multiple of the divisor comes out, but for one that is lost.    *)
LEMMA QuotientOfSum ==
  ASSUME NEW a \in Nat, NEW d \in Nat, NEW b \in Nat \ {0}
  PROVE  Quotient(a, b) + d < Quotient(a + d * b, b) + 2
<1>1. d * b \in Nat /\ a + d * b \in Nat
  OBVIOUS
<1>2. PICK q \in Nat : q = Quotient(a, b) /\ q * b <= a
  BY QuotientFacts
<1>3. PICK p \in Nat : p = Quotient(a + d * b, b) /\ a + d * b < p * b + 2 * b
  BY <1>1, QuotientFacts
<1>4. (q + d) * b = q * b + d * b /\ (p + 2) * b = p * b + 2 * b
  OBVIOUS
<1>5. (q + d) * b < (p + 2) * b
  BY <1>1, <1>2, <1>3, <1>4
<1>6. q + d < p + 2
  BY <1>5
<1> QED
  BY <1>2, <1>3, <1>6

(* The factor of a scale that moves, as it is used.                        *)
LEMMA FactorFacts ==
  ASSUME NEW s \in Scale, s.mode \in {"Fast", "Slow"}
  PROVE  /\ AsI32(s.factor) \in Int
         /\ AsI32(s.factor) = 0 <=> s.factor = 0
         /\ s.mode = "Slow" /\ ~Refused(s) => AsI32(s.factor) # 0
<1>1. s.factor \in Factors
  BY DEF Scale
<1>2. AsI32(s.factor) \in Int /\ (AsI32(s.factor) = 0 <=> s.factor = 0)
  BY <1>1, AsI32Facts
<1> QED
  BY <1>2 DEF Refused

LEMMA ScaleModes ==
  ASSUME NEW s \in Scale
  PROVE  s.mode \in {"Normal", "Fixed", "Fast", "Slow"}
  BY DEF Scale

(* Simulated, without its CASE.                                            *)
LEMMA SimulatedFacts ==
  ASSUME NEW s \in Scale, NEW r
  PROVE  /\ s.mode = "Fast" => Simulated(s, r) = r * AsI32(s.factor)
         /\ s.mode = "Slow" => Simulated(s, r) = Quotient(r, AsI32(s.factor))
         /\ s.mode \notin {"Fast", "Slow"} => Simulated(s, r) = r
<1>1. CASE s.mode = "Fast"
  BY <1>1 DEF Simulated
<1>2. CASE s.mode = "Slow"
  BY <1>2 DEF Simulated
<1>3. CASE s.mode \notin {"Fast", "Slow"}
  BY <1>3 DEF Simulated
<1> QED
  BY <1>1, <1>2, <1>3

(* A scale moves the time one way, from the start of the simulation.       *)
LEMMA SimulatedTrend ==
  ASSUME NEW s \in Scale, ~Refused(s), NEW r \in Nat
  PROVE  /\ Simulated(s, r) \in Int /\ Simulated(s, r + 1) \in Int
         /\ \/ 0 <= Simulated(s, r) /\ Simulated(s, r) <= Simulated(s, r + 1)
            \/ 0 >= Simulated(s, r) /\ Simulated(s, r) >= Simulated(s, r + 1) /\ ~Forward(s)
<1> DEFINE k == AsI32(s.factor)
<1>1. CASE s.mode \notin {"Fast", "Slow"}
  BY <1>1, SimulatedFacts
<1>2. CASE s.mode = "Fast"
  <2>1. k \in Int
    BY <1>2, FactorFacts
  <2>2. Simulated(s, r) = r * k /\ Simulated(s, r + 1) = (r + 1) * k
    BY <1>2, SimulatedFacts
  <2>3. Forward(s) <=> k >= 0
    BY <1>2 DEF Forward, Refused
  <2> HIDE DEF k
  <2>4. (r + 1) * k = r * k + k /\ r * k \in Int
    BY <2>1
  <2>5. k >= 0 => r * k >= 0
    BY <2>1
  <2>6. k < 0 => r * k <= 0
    BY <2>1
  <2> QED
    BY <2>1, <2>2, <2>3, <2>4, <2>5, <2>6
<1>3. CASE s.mode = "Slow"
  <2>1. k \in Int /\ k # 0
    BY <1>3, FactorFacts
  <2>2. Simulated(s, r) = Quotient(r, k) /\ Simulated(s, r + 1) = Quotient(r + 1, k)
    BY <1>3, SimulatedFacts
  <2>3. Forward(s) <=> k >= 0
    BY <1>3 DEF Forward
  <2> HIDE DEF k
  <2>4. CASE k > 0
    <3>1. k \in Nat \ {0} /\ r + 1 \in Nat /\ r <= r + 1
      BY <2>1, <2>4
    <3>2. /\ Quotient(r, k) \in Nat /\ Quotient(r + 1, k) \in Nat
          /\ Quotient(r, k) <= Quotient(r + 1, k)
      BY <3>1, QuotientFacts, QuotientMonotone
    <3> QED
      BY <2>2, <3>2
  <2>5. CASE k < 0
    <3>1. PICK j \in Nat \ {0} : k = 0 - j
      <4>1. -k \in Nat \ {0} /\ k = 0 - (-k)
        BY <2>1, <2>5
      <4> QED
        BY <4>1
    <3>2. r + 1 \in Nat /\ r <= r + 1
      OBVIOUS
    <3>3. PICK q \in Nat, p \in Nat : q = Quotient(r, j) /\ p = Quotient(r + 1, j) /\ q <= p
      BY <3>2, QuotientFacts, QuotientMonotone
    <3>4. Quotient(r, k) = 0 - q /\ Quotient(r + 1, k) = 0 - p
      BY <3>1, <3>2, <3>3, QuotientDown
    <3> QED
      BY <2>1, <2>2, <2>3, <2>5, <3>3, <3>4
  <2> QED
    BY <2>1, <2>4, <2>5
<1> QED
  BY <1>1, <1>2, <1>3, ScaleModes

(* A scale that is no slower is no less far from the start.                *)
LEMMA FasterIsAhead ==
  ASSUME NEW s \in Scale, NEW u \in Scale, NotSlower(s, u), u.mode # "Fixed", NEW r \in Nat
  PROVE  Simulated(s, r) <= Simulated(u, r)
<1> DEFINE j == AsI32(s.factor)
           k == AsI32(u.factor)
<1>1. /\ s.mode \in {"Normal", "Fast", "Slow"} /\ u.mode \in {"Normal", "Fast", "Slow"}
      /\ Ticks(s) * PerReal(u) <= Ticks(u) * PerReal(s)
      /\ Forward(s) /\ Forward(u)
  BY ScaleModes DEF NotSlower
<1>2. /\ s.mode \in {"Fast", "Slow"} => j \in Nat
      /\ s.mode = "Slow" => j # 0
      /\ u.mode \in {"Fast", "Slow"} => k \in Nat
      /\ u.mode = "Slow" => k # 0
  BY <1>1, FactorFacts DEF Forward
<1>3. /\ s.mode = "Normal" => Simulated(s, r) = r /\ Ticks(s) = 1 /\ PerReal(s) = 1
      /\ s.mode = "Fast" => Simulated(s, r) = r * j /\ Ticks(s) = j /\ PerReal(s) = 1
      /\ s.mode = "Slow" => Simulated(s, r) = Quotient(r, j) /\ Ticks(s) = 1 /\ PerReal(s) = j
  BY <1>2, SimulatedFacts DEF Ticks, PerReal
<1>4. /\ u.mode = "Normal" => Simulated(u, r) = r /\ Ticks(u) = 1 /\ PerReal(u) = 1
      /\ u.mode = "Fast" => Simulated(u, r) = r * k /\ Ticks(u) = k /\ PerReal(u) = 1
      /\ u.mode = "Slow" => Simulated(u, r) = Quotient(r, k) /\ Ticks(u) = 1 /\ PerReal(u) = k
  BY <1>2, SimulatedFacts DEF Ticks, PerReal
<1> HIDE DEF j, k
<1>5. Quotient(r, 1) = r /\ r * 1 = r /\ r * 0 = 0
  BY QuotientByOne
<1>6. CASE s.mode = "Normal"
  <2>1. CASE u.mode = "Normal"
    BY <1>3, <1>4, <1>6, <2>1
  <2>2. CASE u.mode = "Fast"
    BY <1>1, <1>2, <1>3, <1>4, <1>5, <1>6, <2>2, Products
  <2>3. CASE u.mode = "Slow"
    <3>1. k = 1
      BY <1>1, <1>2, <1>3, <1>4, <1>6, <2>3
    <3> QED
      BY <1>3, <1>4, <1>5, <1>6, <2>3, <3>1
  <2> QED
    BY <1>1, <2>1, <2>2, <2>3
<1>7. CASE s.mode = "Fast"
  <2>1. CASE u.mode = "Normal"
    BY <1>1, <1>2, <1>3, <1>4, <1>5, <1>7, <2>1, Products
  <2>2. CASE u.mode = "Fast"
    BY <1>1, <1>2, <1>3, <1>4, <1>7, <2>2, Products
  <2>3. CASE u.mode = "Slow"
    <3>1. j * k <= 1 /\ j \in Nat /\ k \in Nat \ {0}
      BY <1>1, <1>2, <1>3, <1>4, <1>7, <2>3
    <3>2. j = 0 \/ (j = 1 /\ k = 1)
      BY <3>1
    <3>3. Quotient(r, k) \in Nat
      BY <3>1, QuotientFacts
    <3> QED
      BY <1>3, <1>4, <1>5, <1>7, <2>3, <3>2, <3>3
  <2> QED
    BY <1>1, <2>1, <2>2, <2>3
<1>8. CASE s.mode = "Slow"
  <2>0. j \in Nat \ {0} /\ Quotient(r, j) \in Nat /\ Quotient(r, j) <= r
    <3>1. j \in Nat \ {0} /\ 1 <= j
      BY <1>2, <1>8
    <3>2. Quotient(r, j) \in Nat
      BY <3>1, QuotientFacts
    <3>3. Quotient(r, j) <= Quotient(r, 1)
      BY <3>1, QuotientShrinks
    <3> QED
      BY <1>5, <3>1, <3>2, <3>3
  <2>1. CASE u.mode = "Normal"
    BY <1>3, <1>4, <1>8, <2>0, <2>1
  <2>2. CASE u.mode = "Fast"
    <3>1. k \in Nat /\ 1 <= k * j
      BY <1>1, <1>2, <1>3, <1>4, <1>8, <2>2
    <3>2. 1 <= k
      BY <2>0, <3>1
    <3>3. r <= r * k /\ r * k \in Nat
      BY <1>5, <3>1, <3>2, Products
    <3> QED
      BY <1>3, <1>4, <1>8, <2>0, <2>2, <3>3
  <2>3. CASE u.mode = "Slow"
    <3>1. k \in Nat \ {0} /\ k <= j
      BY <1>1, <1>2, <1>3, <1>4, <1>8, <2>0, <2>3
    <3> QED
      BY <1>3, <1>4, <1>8, <2>0, <2>3, <3>1, QuotientShrinks
  <2> QED
    BY <1>1, <2>1, <2>2, <2>3
<1> QED
  BY <1>1, <1>6, <1>7, <1>8

-----------------------------------------------------------------------------
(*                     Readings                                            *)

LEMMA Dates ==
  /\ DateTime = Earliest..Latest
  /\ StartSim \in Int /\ Earliest <= StartSim /\ StartSim <= Latest
  /\ Earliest \in DateTime
  BY ClockAssumption DEF DateTime

(* What a clock that can be read says, and where it stands if it does not. *)
LEMMA ReadingFacts ==
  ASSUME TypeOK
  PROVE  /\ scale.mode = "Fixed" => Reading = current /\ Readable
         /\ scale.mode # "Fixed" => Reading = StartSim + Simulated(scale, real)
         /\ Readable => Reading \in DateTime
  BY DEF TypeOK, Reading, Readable, Refused

LEMMA ReadingSame ==
  ASSUME UNCHANGED <<real, scale>>, scale.mode = "Fixed" => UNCHANGED current
  PROVE  UNCHANGED <<Reading, Readable>>
<1>1. Reading' = Reading
  BY DEF Reading
<1> QED
  BY <1>1 DEF Readable

(* A moving clock that goes forward is not before its start.               *)
LEMMA ForwardReading ==
  ASSUME NEW s \in Scale, Forward(s), NEW r \in Nat
  PROVE  /\ ~Refused(s) /\ Simulated(s, r) \in Int /\ 0 <= Simulated(s, r)
         /\ Simulated(s, r) <= Simulated(s, r + 1)
<1>1. ~Refused(s)
  BY DEF Forward, Refused
<1> QED
  BY <1>1, SimulatedTrend

-----------------------------------------------------------------------------
(*                     Types                                               *)

LEMMA GotoType ==
  ASSUME call \in [Tasks -> Call], NEW t \in Tasks, NEW where \in Call, Goto(t, where)
  PROVE  call' \in [Tasks -> Call]
  BY DEF Goto

LEMMA CallKinds ==
  /\ Idle \in Call /\ Dead \in Call
  /\ \A s \in Scale : [at |-> "rescale", scale |-> s] \in Call
  /\ \A d \in Durations : [at |-> "advance", by |-> d] \in Call
  /\ \A u \in Int \cup {Never}, g \in Int, b \in BOOLEAN :
       [at |-> "asleep", until |-> u, goal |-> g, steady |-> b] \in Call
  BY DEF Call

(* The steps that read the clock, or move it.                              *)
LEMMA UpdateType ==
  ASSUME TypeOK, Update
  PROVE  current' \in DateTime /\ low' \in DateTime /\ rewound' \in BOOLEAN
  BY DEF Update, Readable

LEMMA MoveToType ==
  ASSUME TypeOK, NEW time, MoveTo(time)
  PROVE  current' \in DateTime /\ low' \in DateTime /\ rewound' \in BOOLEAN
<1>1. time \in DateTime /\ current' = time
      /\ rewound' = (rewound \/ time < current)
      /\ low' \in {Earliest, low}
  BY DEF MoveTo
<1>2. rewound' \in BOOLEAN
  BY <1>1
<1> QED
  BY <1>1, <1>2, Dates DEF TypeOK

LEMMA EndSetTimeScaleType ==
  ASSUME TypeOK, NEW t \in Tasks, EndSetTimeScale(t)
  PROVE  TypeOK' /\ scale' = call[t].scale /\ scale' \in Scale
<1>1. /\ call[t].at = "rescale" /\ scale' = call[t].scale
      /\ low' \in {Earliest, low} /\ UNCHANGED <<real, current, rewound>>
      /\ call' = [u \in Tasks |->
                    IF u = t THEN Idle
                    ELSE IF call[u].at = "asleep" /\ scale' # scale
                         THEN [call[u] EXCEPT !.steady = FALSE]
                         ELSE call[u]]
  BY DEF EndSetTimeScale
<1>2. call \in [Tasks -> Call] /\ low \in DateTime
  BY DEF TypeOK
<1>3. scale' \in Scale
  BY <1>1, <1>2 DEF Call, Idle, Dead
<1>4. call' \in [Tasks -> Call]
  <2> SUFFICES ASSUME NEW u \in Tasks, call[u].at = "asleep"
               PROVE  [call[u] EXCEPT !.steady = FALSE] \in Call
    BY <1>1, <1>2, CallKinds
  <2>1. call[u] \in [at : {"asleep"}, until : Int \cup {Never}, goal : Int, steady : BOOLEAN]
    BY <1>2 DEF Call, Idle, Dead
  <2> QED
    BY <2>1 DEF Call
<1>5. low' \in DateTime
  BY <1>1, <1>2, Dates
<1> QED
  BY <1>1, <1>3, <1>4, <1>5 DEF TypeOK

LEMMA SleepSimType ==
  ASSUME TypeOK, NEW t \in Tasks, NEW d \in Durations, SleepSim(t, d)
  PROVE  TypeOK'
<1> DEFINE wait == RealTime(scale, d)
           goal == StartSim + Simulated(scale, real) + d
           steady == Fits(wait)
<1>1. /\ scale.mode # "Fixed" /\ ~Refused(scale) /\ ~DividesByZero
      /\ Goto(t, [at |-> "asleep", until |-> Until(wait), goal |-> goal, steady |-> steady])
      /\ UNCHANGED <<real, scale, current, low, rewound>>
  BY DEF SleepSim
<1>2. scale \in Scale /\ real \in Nat /\ d \in Int
  BY ClockAssumption DEF TypeOK
<1>3. wait \in Int
  <2>1. CASE scale.mode = "Fast"
    <3>1. AsI32(scale.factor) \in Int \ {0}
      BY <1>1, <1>2, <2>1, FactorFacts DEF DividesByZero
    <3>2. wait = Quotient(d, AsI32(scale.factor))
      BY <2>1 DEF RealTime
    <3> QED
      BY <1>2, <3>1, <3>2, QuotientType
  <2>2. CASE scale.mode = "Slow"
    <3>1. AsI32(scale.factor) \in Int
      BY <1>2, <2>2, FactorFacts
    <3>2. wait = d * AsI32(scale.factor)
      BY <2>2 DEF RealTime
    <3> QED
      BY <1>2, <3>1, <3>2
  <2>3. CASE scale.mode \notin {"Fast", "Slow"}
    BY <1>2, <2>3 DEF RealTime
  <2> QED
    BY <2>1, <2>2, <2>3
<1>4. goal \in Int
  <2>1. Simulated(scale, real) \in Int
    BY <1>1, <1>2, SimulatedTrend
  <2> QED
    BY <1>2, <2>1, Dates
<1>5. steady \in BOOLEAN
  BY DEF Fits, Within
<1> HIDE DEF wait, goal, steady
<1>6. Until(wait) \in Int \cup {Never}
  BY <1>2, <1>3 DEF Until
<1>7. call' \in [Tasks -> Call]
  <2>1. PICK where : where = [at |-> "asleep", until |-> Until(wait),
                              goal |-> goal, steady |-> steady]
    OBVIOUS
  <2>2. where \in Call
    BY <1>4, <1>5, <1>6, <2>1, CallKinds
  <2> QED
    BY <1>1, <2>1, <2>2, GotoType DEF TypeOK
<1> QED
  BY <1>1, <1>7 DEF TypeOK

-----------------------------------------------------------------------------
(*                     The kinds of steps                                  *)

(* No call comes to stand between the halves of set_time_scale.            *)
NoneBegins ==
  \A u \in Tasks : call'[u].at = "rescale" => call[u].at = "rescale"

CallsKept == call' \in [Tasks -> Call] /\ NoneBegins

(* A task waits, sleeps, or panics.                                        *)
QuietStep == UNCHANGED <<real, scale, current, low, rewound>> /\ CallsKept

(* The time is read, and stored.                                           *)
ReadStep == Update /\ UNCHANGED <<real, scale>> /\ call' \in [Tasks -> Call]

(* The stored time is replaced.                                            *)
MoveStep == (\E time : MoveTo(time)) /\ UNCHANGED <<real, scale>> /\ CallsKept

LEMMA GotoKept ==
  ASSUME TypeOK, NEW t \in Tasks, NEW where \in Call, where.at # "rescale", Goto(t, where)
  PROVE  CallsKept
<1>1. call' \in [Tasks -> Call]
  BY GotoType DEF TypeOK
<1>2. NoneBegins
  BY DEF TypeOK, Goto, NoneBegins
<1> QED
  BY <1>1, <1>2 DEF CallsKept

LEMMA SameCallsKept ==
  ASSUME TypeOK, UNCHANGED call
  PROVE  CallsKept
  BY DEF TypeOK, CallsKept, NoneBegins

LEMMA IdleDead ==
  /\ Idle \in Call /\ Idle.at # "rescale"
  /\ Dead \in Call /\ Dead.at # "rescale"
  BY CallKinds DEF Idle, Dead

LEMMA PanicQuiet ==
  ASSUME TypeOK, NEW t \in Tasks, Panic(t)
  PROVE  QuietStep
<1>1. Goto(t, Dead) /\ UNCHANGED <<real, scale, current, low, rewound>>
  BY DEF Panic
<1> QED
  BY <1>1, IdleDead, GotoKept DEF QuietStep

LEMMA SleepSimQuiet ==
  ASSUME TypeOK, NEW t \in Tasks, NEW d \in Durations, SleepSim(t, d)
  PROVE  QuietStep
<1>1. PICK where : /\ where.at = "asleep"
                   /\ Goto(t, where)
                   /\ UNCHANGED <<real, scale, current, low, rewound>>
  BY DEF SleepSim
<1>2. call' \in [Tasks -> Call]
  BY SleepSimType DEF TypeOK
<1>3. NoneBegins
  BY <1>1 DEF TypeOK, Goto, NoneBegins
<1> QED
  BY <1>1, <1>2, <1>3 DEF QuietStep, CallsKept

LEMMA BeginSleepFixedQuiet ==
  ASSUME TypeOK, NEW t \in Tasks, NEW d \in Durations, BeginSleepFixed(t, d)
  PROVE  QuietStep
<1> DEFINE where == [at |-> "advance", by |-> d]
<1>1. where \in Call /\ where.at # "rescale"
  BY CallKinds
<1>2. Goto(t, where) /\ UNCHANGED <<real, scale, current, low, rewound>>
  BY DEF BeginSleepFixed
<1> HIDE DEF where
<1> QED
  BY <1>1, <1>2, GotoKept DEF QuietStep

LEMMA StepKinds ==
  TypeOK /\ Next => \/ Tick \/ QuietStep \/ ReadStep \/ MoveStep
                    \/ \E t \in Tasks : EndSetTimeScale(t)
<1> DEFINE Kind == \/ Tick \/ QuietStep \/ ReadStep \/ MoveStep
                   \/ \E t \in Tasks : EndSetTimeScale(t)
<1> SUFFICES ASSUME TypeOK, Next PROVE Kind
  OBVIOUS
<1>1. CASE Tick
  BY <1>1
<1>2. ASSUME NEW t \in Tasks, Now(t) PROVE Kind
  BY <1>2, SameCallsKept DEF Now, ReadStep, CallsKept
<1>3. ASSUME NEW t \in Tasks,
             NowPanics(t) \/ (\E d \in Durations : SleepPanics(t, d)) \/ SleepFixedPanics(t)
      PROVE  Kind
  <2>1. Panic(t)
    BY <1>3 DEF NowPanics, SleepPanics, SleepFixedPanics
  <2> QED
    BY <2>1, PanicQuiet
<1>4. ASSUME NEW t \in Tasks, NEW s \in Scale, BeginSetTimeScale(t, s) PROVE Kind
  <2>1. Update /\ Goto(t, [at |-> "rescale", scale |-> s]) /\ UNCHANGED <<real, scale>>
    BY <1>4 DEF BeginSetTimeScale
  <2>2. call' \in [Tasks -> Call]
    BY <2>1, CallKinds, GotoType DEF TypeOK
  <2> QED
    BY <2>1, <2>2 DEF ReadStep
<1>5. ASSUME NEW t \in Tasks, EndSetTimeScale(t) PROVE Kind
  BY <1>5
<1>6. ASSUME NEW t \in Tasks, NEW d \in Durations, AdvanceTime(t, d) PROVE Kind
  BY <1>6, SameCallsKept DEF AdvanceTime, MoveStep
<1>7. ASSUME NEW t \in Tasks, NEW d \in Durations, AdvancePanics(t, d) PROVE Kind
  BY <1>7, PanicQuiet DEF AdvancePanics
<1>8. ASSUME NEW t \in Tasks, NEW time \in Instants, SetTime(t, time) PROVE Kind
  BY <1>8, SameCallsKept DEF SetTime, MoveStep
<1>9. ASSUME NEW t \in Tasks, NEW d \in Durations, SleepSim(t, d) \/ BeginSleepFixed(t, d)
      PROVE  Kind
  BY <1>9, SleepSimQuiet, BeginSleepFixedQuiet
<1>10. ASSUME NEW t \in Tasks, Wake(t) PROVE Kind
  BY <1>10, IdleDead, GotoKept DEF Wake, QuietStep
<1>11. ASSUME NEW t \in Tasks, EndSleepFixed(t) PROVE Kind
  BY <1>11, IdleDead, GotoKept DEF EndSleepFixed, MoveStep
<1> QED
  BY <1>1, <1>2, <1>3, <1>4, <1>5, <1>6, <1>7, <1>8, <1>9, <1>10, <1>11 DEF Next

-----------------------------------------------------------------------------
(*                     The invariant                                       *)

(* Unless it was set back, the stored time is as late as it was read; so   *)
(* Fixed, which goes on from there, does not lose what was read.           *)
StoredForward == ~rewound => low <= current

ClockInv == TypeOK /\ ReadingsForward /\ StoredForward

LEMMA ClockInit == Init => ClockInv
<1> SUFFICES ASSUME Init PROVE ClockInv
  OBVIOUS
<1>1. /\ real = 0 /\ scale = [mode |-> "Normal", factor |-> 1] /\ current = StartSim
      /\ call = [t \in Tasks |-> Idle] /\ low = StartSim /\ rewound = FALSE
  BY DEF Init
<1>2. TypeOK
  <2>1. real \in 0..MaxReal /\ scale \in Scale
    BY <1>1, ClockAssumption DEF Scale
  <2>2. current \in DateTime /\ low \in DateTime
    BY <1>1, ClockAssumption
  <2>3. call \in [Tasks -> Call]
    BY <1>1, CallKinds
  <2>4. rewound \in BOOLEAN
    BY <1>1
  <2> QED
    BY <2>1, <2>2, <2>3, <2>4 DEF TypeOK
<1>3. Reading = StartSim
  BY <1>1, Dates DEF Reading, Simulated
<1> QED
  BY <1>1, <1>2, <1>3, Dates DEF ClockInv, ReadingsForward, StoredForward

LEMMA TickKeeps ==
  ASSUME ClockInv, Tick
  PROVE  ClockInv'
<1>1. /\ real' = real + 1 /\ real < MaxReal
      /\ UNCHANGED <<scale, current, call, low, rewound>>
  BY DEF Tick
<1>2. /\ TypeOK /\ real \in Nat /\ scale \in Scale
      /\ low \in Int /\ current \in Int
  BY ClockAssumption, Dates DEF ClockInv, TypeOK
<1>3. TypeOK'
  BY <1>1, <1>2, ClockAssumption DEF TypeOK
<1>4. ReadingsForward'
  <2> SUFFICES ASSUME Forward(scale) PROVE low <= Reading'
    BY <1>1 DEF ReadingsForward
  <2>1. low <= Reading
    BY DEF ClockInv, ReadingsForward
  <2>2. CASE scale.mode = "Fixed"
    BY <1>1, <2>1, <2>2 DEF Reading
  <2>3. CASE scale.mode # "Fixed"
    <3>1. /\ Reading = StartSim + Simulated(scale, real)
          /\ Reading' = StartSim + Simulated(scale, real + 1)
      BY <1>1, <2>3 DEF Reading
    <3>2. /\ Simulated(scale, real) \in Int /\ Simulated(scale, real + 1) \in Int
          /\ Simulated(scale, real) <= Simulated(scale, real + 1)
      BY <1>2, ForwardReading, SimulatedTrend
    <3> QED
      BY <1>2, <2>1, <3>1, <3>2, Dates
  <2> QED
    BY <2>2, <2>3
<1>5. StoredForward'
  BY <1>1 DEF ClockInv, StoredForward
<1> QED
  BY <1>3, <1>4, <1>5 DEF ClockInv

LEMMA QuietKeeps ==
  ASSUME ClockInv, QuietStep
  PROVE  ClockInv'
<1>1. UNCHANGED <<real, scale, current, low, rewound>> /\ call' \in [Tasks -> Call]
  BY DEF QuietStep, CallsKept
<1>2. TypeOK'
  BY <1>1 DEF ClockInv, TypeOK
<1>3. UNCHANGED Reading
  BY <1>1, ReadingSame
<1>4. ReadingsForward' /\ StoredForward'
  BY <1>1, <1>3 DEF ClockInv, ReadingsForward, StoredForward
<1> QED
  BY <1>2, <1>4 DEF ClockInv

LEMMA ReadKeeps ==
  ASSUME ClockInv, ReadStep
  PROVE  ClockInv'
<1>1. /\ Update /\ UNCHANGED <<real, scale>> /\ call' \in [Tasks -> Call]
      /\ current' = Reading /\ low' = Reading
  BY DEF ReadStep, Update
<1>2. current' \in DateTime /\ low' \in DateTime /\ rewound' \in BOOLEAN
  BY <1>1, UpdateType DEF ClockInv
<1>3. TypeOK'
  BY <1>1, <1>2 DEF ClockInv, TypeOK
<1>4. Reading' = Reading
  BY <1>1 DEF Reading
<1>5. ReadingsForward' /\ StoredForward'
  BY <1>1, <1>2, <1>4, Dates DEF ReadingsForward, StoredForward
<1> QED
  BY <1>3, <1>5 DEF ClockInv

LEMMA MoveKeeps ==
  ASSUME ClockInv, MoveStep
  PROVE  ClockInv'
<1>1. PICK time : MoveTo(time)
  BY DEF MoveStep
<1>2. /\ time \in DateTime /\ current' = time
      /\ rewound' = (rewound \/ time < current)
      /\ low' = IF scale.mode = "Fixed" /\ time < current THEN Earliest ELSE low
      /\ UNCHANGED <<real, scale>> /\ call' \in [Tasks -> Call]
  BY <1>1 DEF MoveTo, MoveStep, CallsKept
<1>3. /\ TypeOK /\ ReadingsForward /\ StoredForward
      /\ time \in Int /\ Earliest <= time /\ current \in Int /\ low \in Int
      /\ Earliest \in Int
  BY <1>2, Dates, ClockAssumption DEF ClockInv, TypeOK
<1>4. TypeOK'
  <2>1. current' \in DateTime /\ low' \in DateTime /\ rewound' \in BOOLEAN
    BY <1>1, <1>3, MoveToType
  <2> QED
    BY <1>2, <1>3, <2>1 DEF TypeOK
<1>5. ReadingsForward'
  <2>1. CASE scale.mode = "Fixed"
    <3>1. Reading' = time /\ Reading = current
      BY <1>2, <2>1 DEF Reading
    <3>2. low <= current
      BY <1>3, <2>1, <3>1 DEF ReadingsForward, Forward
    <3> QED
      BY <1>2, <1>3, <2>1, <3>1, <3>2 DEF ReadingsForward
  <2>2. CASE scale.mode # "Fixed"
    <3>1. Reading' = Reading /\ low' = low
      BY <1>2, <2>2, ReadingSame
    <3> QED
      BY <1>2, <1>3, <3>1 DEF ReadingsForward
  <2> QED
    BY <2>1, <2>2
<1>6. StoredForward'
  <2> SUFFICES ASSUME ~rewound' PROVE low' <= current'
    BY DEF StoredForward
  <2>1. ~rewound /\ ~(time < current)
    BY <1>2
  <2>2. low <= current /\ low' = low
    BY <1>2, <1>3, <2>1 DEF StoredForward
  <2> QED
    BY <1>2, <1>3, <2>1, <2>2
<1> QED
  BY <1>4, <1>5, <1>6 DEF ClockInv

LEMMA EndSetTimeScaleKeeps ==
  ASSUME ClockInv, NEW t \in Tasks, EndSetTimeScale(t)
  PROVE  ClockInv'
<1>0. PICK s : s = call[t].scale
  OBVIOUS
<1>1. /\ scale' = s /\ UNCHANGED <<real, current, rewound>>
      /\ low' = IF NotSlower(scale, s) /\ ~(s.mode = "Fixed" /\ rewound) THEN low ELSE Earliest
  BY <1>0 DEF EndSetTimeScale
<1>2. TypeOK /\ ReadingsForward /\ StoredForward
  BY DEF ClockInv
<1>3. TypeOK' /\ s \in Scale
  BY <1>0, <1>1, <1>2, EndSetTimeScaleType
<1>4. /\ real \in Nat /\ scale \in Scale
      /\ low \in Int /\ current \in Int /\ Earliest \in Int /\ Earliest <= current
  BY <1>2, Dates, ClockAssumption DEF TypeOK
<1>5. ReadingsForward'
  <2> SUFFICES ASSUME Forward(s) PROVE low' <= Reading'
    BY <1>1 DEF ReadingsForward
  <2>1. CASE s.mode = "Fixed"
    <3>1. Reading' = current
      BY <1>1, <2>1 DEF Reading
    <3> QED
      BY <1>1, <1>2, <1>4, <2>1, <3>1 DEF StoredForward
  <2>2. CASE s.mode # "Fixed"
    <3>1. Reading' = StartSim + Simulated(s, real)
      BY <1>1, <2>2 DEF Reading
    <3>2. Simulated(s, real) \in Int /\ 0 <= Simulated(s, real)
      BY <1>3, <1>4, ForwardReading
    <3>3. CASE NotSlower(scale, s)
      <4>1. scale.mode # "Fixed" /\ Forward(scale)
        BY <2>2, <3>3 DEF NotSlower
      <4>2. low <= Reading /\ Reading = StartSim + Simulated(scale, real)
        BY <1>2, <4>1 DEF ReadingsForward, Reading
      <4>3. Simulated(scale, real) <= Simulated(s, real) /\ Simulated(scale, real) \in Int
        BY <1>3, <1>4, <2>2, <3>3, <4>1, FasterIsAhead, ForwardReading
      <4> QED
        BY <1>1, <1>4, <2>2, <3>1, <3>2, <3>3, <4>2, <4>3, Dates
    <3>4. CASE ~NotSlower(scale, s)
      BY <1>1, <1>4, <3>1, <3>2, <3>4, Dates
    <3> QED
      BY <3>3, <3>4
  <2> QED
    BY <2>1, <2>2
<1>6. StoredForward'
  BY <1>1, <1>2, <1>4 DEF StoredForward
<1> QED
  BY <1>3, <1>5, <1>6 DEF ClockInv

LEMMA ClockNext == ClockInv /\ [Next]_vars => ClockInv'
<1> SUFFICES ASSUME ClockInv, [Next]_vars PROVE ClockInv'
  OBVIOUS
<1>1. CASE Next
  <2>1. TypeOK
    BY DEF ClockInv
  <2> QED
    BY <1>1, <2>1, StepKinds, TickKeeps, QuietKeeps, ReadKeeps, MoveKeeps, EndSetTimeScaleKeeps
<1>2. CASE UNCHANGED vars
  <2>1. TypeOK /\ UNCHANGED <<real, scale, current, call, low, rewound>>
    BY <1>2 DEF vars, ClockInv
  <2>2. QuietStep
    BY <2>1, SameCallsKept DEF QuietStep
  <2> QED
    BY <2>2, QuietKeeps
<1> QED
  BY <1>1, <1>2

LEMMA ClockInvariance == Spec => []ClockInv
  BY ClockInit, ClockNext, PTL DEF Spec

(***************************************************************************)
(* The state of the clock and of its callers is well typed; current_time   *)
(* is a date, whatever durations are added to it.                          *)
(***************************************************************************)
THEOREM ClockTyping == Spec => []TypeOK
<1>1. ClockInv => TypeOK
  BY DEF ClockInv
<1> QED
  BY <1>1, ClockInvariance, PTL

(***************************************************************************)
(* update_time and set_time_scale: a clock that runs forward is not read   *)
(* to have gone back, unless it was set back or slowed down, for any       *)
(* number of tasks and any factors.                                        *)
(***************************************************************************)
THEOREM Forwardness == Spec => []ReadingsForward
<1>1. ClockInv => ReadingsForward
  BY DEF ClockInv
<1> QED
  BY <1>1, ClockInvariance, PTL

-----------------------------------------------------------------------------
(*                     No way back                                         *)

(* A clock that left the range of dates moves on in the same direction.    *)
LEMMA TickTrapped ==
  ASSUME TypeOK, ~Readable, Tick
  PROVE  ~Readable'
<1>1. real' = real + 1 /\ UNCHANGED <<scale, current>>
  BY DEF Tick
<1>2. scale \in Scale /\ real \in Nat
  BY ClockAssumption DEF TypeOK
<1>3. CASE Refused(scale)
  BY <1>1, <1>3 DEF Readable
<1>4. CASE ~Refused(scale)
  <2>1. scale.mode # "Fixed" /\ Reading \notin DateTime
    BY <1>4, ReadingFacts DEF Readable
  <2>2. /\ Reading = StartSim + Simulated(scale, real)
        /\ Reading' = StartSim + Simulated(scale, real + 1)
    BY <1>1, <2>1 DEF Reading
  <2>3. /\ Simulated(scale, real) \in Int /\ Simulated(scale, real + 1) \in Int
        /\ \/ 0 <= Simulated(scale, real)
              /\ Simulated(scale, real) <= Simulated(scale, real + 1)
           \/ 0 >= Simulated(scale, real)
              /\ Simulated(scale, real) >= Simulated(scale, real + 1)
    BY <1>2, <1>4, SimulatedTrend
  <2>4. Reading' \notin DateTime
    BY <2>1, <2>2, <2>3, Dates, ClockAssumption
  <2>5. DateTime' = DateTime
    BY DEF DateTime
  <2> QED
    BY <2>4, <2>5 DEF Readable
<1> QED
  BY <1>3, <1>4

LEMMA TrappedNext == TypeOK /\ [Next]_vars => [Trapped => Trapped']_vars
<1> SUFFICES ASSUME TypeOK, Next, Trapped PROVE Trapped'
  OBVIOUS
<1>1. ~Readable /\ \A t \in Tasks : call[t].at # "rescale"
  BY DEF Trapped
<1>2. CASE Tick
  <2>1. ~Readable' /\ UNCHANGED call
    BY <1>1, <1>2, TickTrapped DEF Tick
  <2> QED
    BY <1>1, <2>1 DEF Trapped
<1>3. CASE QuietStep
  <2>1. UNCHANGED Readable /\ NoneBegins
    BY <1>3, ReadingSame DEF QuietStep, CallsKept
  <2> QED
    BY <1>1, <2>1 DEF Trapped, NoneBegins
<1>4. CASE ReadStep
  BY <1>1, <1>4 DEF ReadStep, Update
<1>5. CASE MoveStep
  <2>1. scale.mode # "Fixed" /\ UNCHANGED <<real, scale>> /\ NoneBegins
    BY <1>1, <1>5, ReadingFacts DEF MoveStep, CallsKept
  <2>2. UNCHANGED Readable
    BY <2>1, ReadingSame
  <2> QED
    BY <1>1, <2>1, <2>2 DEF Trapped, NoneBegins
<1>6. ASSUME NEW t \in Tasks, EndSetTimeScale(t) PROVE Trapped'
  BY <1>1, <1>6 DEF EndSetTimeScale
<1> QED
  BY <1>2, <1>3, <1>4, <1>5, <1>6, StepKinds

(***************************************************************************)
(* set_time_scale computes the time before it changes the scale: a clock   *)
(* that cannot be read any more is never repaired.                         *)
(***************************************************************************)
THEOREM Trap == Spec => NoWayBack
<1>1. TypeOK /\ [Next]_vars => [Trapped => Trapped']_vars
  BY TrappedNext
<1> QED
  BY <1>1, ClockTyping, PTL DEF Spec, NoWayBack

-----------------------------------------------------------------------------
(*                     Sleepers                                            *)

(* A scale that runs forward, with its factor.                             *)
LEMMA ForwardKinds ==
  ASSUME NEW s \in Scale, Forward(s)
  PROVE  \/ /\ s.mode \in {"Normal", "Fixed"} /\ Ticks(s) = 1
            /\ \A r \in Nat : Simulated(s, r) = r
            /\ \A d : RealTime(s, d) = d
         \/ \E k \in Nat : /\ s.mode = "Fast" /\ Ticks(s) = k /\ AsI32(s.factor) = k
                           /\ \A r \in Nat : Simulated(s, r) = r * k
                           /\ \A d : RealTime(s, d) = Quotient(d, k)
         \/ \E k \in Nat \ {0} : /\ s.mode = "Slow" /\ Ticks(s) = 1
                                 /\ \A r \in Nat : Simulated(s, r) = Quotient(r, k)
                                 /\ \A d : RealTime(s, d) = d * k
<1> DEFINE k == AsI32(s.factor)
<1>1. CASE s.mode \in {"Normal", "Fixed"}
  BY <1>1, SimulatedFacts DEF Ticks, RealTime
<1>2. CASE s.mode = "Fast"
  <2>1. k \in Nat
    BY <1>2, FactorFacts DEF Forward
  <2>2. Ticks(s) = k /\ (\A r \in Nat : Simulated(s, r) = r * k)
        /\ \A d : RealTime(s, d) = Quotient(d, k)
    BY <1>2, SimulatedFacts DEF Ticks, RealTime
  <2> QED
    BY <1>2, <2>1, <2>2
<1>3. CASE s.mode = "Slow"
  <2>1. k \in Nat \ {0}
    BY <1>3, FactorFacts DEF Forward
  <2>2. Ticks(s) = 1 /\ \A d : RealTime(s, d) = d * k
    BY <1>3 DEF Ticks, RealTime
  <2>3. \A r \in Nat : Simulated(s, r) = Quotient(r, k)
    BY <1>3, SimulatedFacts
  <2> QED
    BY <1>3, <2>1, <2>2, <2>3
<1> QED
  BY <1>1, <1>2, <1>3, ScaleModes

LEMMA ForwardMonotone ==
  ASSUME NEW s \in Scale, Forward(s), NEW r \in Nat, NEW q \in Nat, r <= q
  PROVE  /\ Simulated(s, r) \in Int /\ Simulated(s, q) \in Int /\ Ticks(s) \in Int
         /\ Simulated(s, r) <= Simulated(s, q)
<1>1. CASE Ticks(s) = 1 /\ \A x \in Nat : Simulated(s, x) = x
  BY <1>1
<1>2. ASSUME NEW k \in Nat, Ticks(s) = k, \A x \in Nat : Simulated(s, x) = x * k
      PROVE  /\ Simulated(s, r) \in Int /\ Simulated(s, q) \in Int /\ Ticks(s) \in Int
             /\ Simulated(s, r) <= Simulated(s, q)
  <2>1. r * k \in Int /\ q * k \in Int /\ r * k <= q * k
    OBVIOUS
  <2> QED
    BY <1>2, <2>1
<1>3. ASSUME NEW k \in Nat \ {0}, Ticks(s) = 1, \A x \in Nat : Simulated(s, x) = Quotient(x, k)
      PROVE  /\ Simulated(s, r) \in Int /\ Simulated(s, q) \in Int /\ Ticks(s) \in Int
             /\ Simulated(s, r) <= Simulated(s, q)
  <2>1. Simulated(s, r) = Quotient(r, k) /\ Simulated(s, q) = Quotient(q, k)
    BY <1>3
  <2>2. Quotient(r, k) \in Nat /\ Quotient(q, k) \in Nat
    BY QuotientFacts
  <2>3. Quotient(r, k) <= Quotient(q, k)
    BY QuotientMonotone
  <2> QED
    BY <1>3, <2>1, <2>2, <2>3
<1> QED
  BY <1>1, <1>2, <1>3, ForwardKinds

(* The real time that sleep_sim computes is enough for what it was asked.  *)
LEMMA WaitIsEnough ==
  ASSUME NEW s \in Scale, Forward(s), s.mode = "Fast" => AsI32(s.factor) # 0,
         NEW r \in Nat, NEW d \in Int, RealTime(s, d) >= 0
  PROVE  /\ RealTime(s, d) \in Nat
         /\ Simulated(s, r) + d < Simulated(s, r + RealTime(s, d)) + 2 * Ticks(s)
<1>1. ASSUME Ticks(s) = 1, \A x \in Nat : Simulated(s, x) = x, RealTime(s, d) = d
      PROVE  /\ RealTime(s, d) \in Nat
             /\ Simulated(s, r) + d < Simulated(s, r + RealTime(s, d)) + 2 * Ticks(s)
  <2>1. d \in Nat /\ r + d \in Nat
    BY <1>1
  <2>2. Simulated(s, r) = r /\ Simulated(s, r + d) = r + d
    BY <1>1, <2>1
  <2> QED
    BY <1>1, <2>1, <2>2
<1>2. ASSUME NEW k \in Nat \ {0}, Ticks(s) = k, \A x \in Nat : Simulated(s, x) = x * k,
             RealTime(s, d) = Quotient(d, k)
      PROVE  /\ RealTime(s, d) \in Nat
             /\ Simulated(s, r) + d < Simulated(s, r + RealTime(s, d)) + 2 * Ticks(s)
  <2>1. PICK w \in Nat : w = RealTime(s, d) /\ d < w * k + 2 * k
    <3>1. CASE d >= 0
      <4>1. d \in Nat
        BY <3>1
      <4> QED
        BY <1>2, <4>1, QuotientFacts
    <3>2. CASE d < 0
      <4>1. RealTime(s, d) \in Int
        BY <1>2, QuotientType
      <4>2. PICK w \in Nat : w = RealTime(s, d)
        BY <4>1
      <4>3. w * k \in Nat
        OBVIOUS
      <4> QED
        BY <3>2, <4>2, <4>3
    <3> QED
      BY <3>1, <3>2
  <2>2. r + w \in Nat /\ (r + w) * k = r * k + w * k /\ r * k \in Nat /\ w * k \in Nat
    OBVIOUS
  <2>3. Simulated(s, r) = r * k /\ Simulated(s, r + w) = (r + w) * k
    BY <1>2, <2>2
  <2> QED
    BY <1>2, <2>1, <2>2, <2>3
<1>3. ASSUME NEW k \in Nat \ {0}, Ticks(s) = 1, \A x \in Nat : Simulated(s, x) = Quotient(x, k),
             RealTime(s, d) = d * k
      PROVE  /\ RealTime(s, d) \in Nat
             /\ Simulated(s, r) + d < Simulated(s, r + RealTime(s, d)) + 2 * Ticks(s)
  <2>1. d * k >= 0
    BY <1>3
  <2>2. d \in Nat
    BY <2>1
  <2>3. d * k \in Nat /\ r + d * k \in Nat
    BY <2>2
  <2>4. Simulated(s, r) = Quotient(r, k) /\ Simulated(s, r + d * k) = Quotient(r + d * k, k)
    BY <1>3, <2>3
  <2>5. Quotient(r, k) + d < Quotient(r + d * k, k) + 2
    BY <2>2, QuotientOfSum
  <2> QED
    BY <1>3, <2>3, <2>4, <2>5
<1> QED
  BY <1>1, <1>2, <1>3, ForwardKinds

(***************************************************************************)
(* A sleeper that will be woken, under the scale it began to sleep under,  *)
(* is woken in time for what it was asked: not before the simulated time   *)
(* of its waking has come within two ticks of its goal.                       *)
(***************************************************************************)
SleepsSound ==
  \A t \in Tasks :
    call[t].at = "asleep" /\ call[t].until # Never /\ call[t].steady /\ Forward(scale) =>
      /\ call[t].until \in Nat
      /\ call[t].goal < StartSim + Simulated(scale, call[t].until) + 2 * Ticks(scale)

LEMMA SleepKinds ==
  ASSUME TypeOK, [Next]_vars, NEW u \in Tasks
  PROVE  \/ UNCHANGED scale /\ call'[u] = call[u]
         \/ call'[u].at # "asleep" \/ ~call'[u].steady
         \/ \E d \in Durations : SleepSim(u, d)
<1> DEFINE Kind == \/ UNCHANGED scale /\ call'[u] = call[u]
                   \/ call'[u].at # "asleep" \/ ~call'[u].steady
                   \/ \E d \in Durations : SleepSim(u, d)
<1>1. ASSUME NEW t \in Tasks, NEW where, where.at # "asleep", Goto(t, where), UNCHANGED scale
      PROVE  Kind
  BY <1>1 DEF Goto, TypeOK
<1>2. ASSUME NEW t \in Tasks, Panic(t) PROVE Kind
  BY <1>1, <1>2 DEF Panic, Dead
<1>3. ASSUME UNCHANGED <<scale, call>> PROVE Kind
  BY <1>3
<1>4. ASSUME Tick \/ UNCHANGED vars PROVE Kind
  BY <1>3, <1>4 DEF Tick, vars
<1>5. ASSUME NEW t \in Tasks, Now(t) \/ NowPanics(t) PROVE Kind
  BY <1>2, <1>3, <1>5 DEF Now, NowPanics
<1>6. ASSUME NEW t \in Tasks, NEW s \in Scale, BeginSetTimeScale(t, s) PROVE Kind
  <2>1. PICK where : where = [at |-> "rescale", scale |-> s]
    OBVIOUS
  <2> QED
    BY <1>1, <1>6, <2>1 DEF BeginSetTimeScale
<1>7. ASSUME NEW t \in Tasks, EndSetTimeScale(t) PROVE Kind
  <2>1. call'[u] = IF u = t THEN Idle
                   ELSE IF call[u].at = "asleep" /\ scale' # scale
                        THEN [call[u] EXCEPT !.steady = FALSE]
                        ELSE call[u]
    BY <1>7 DEF EndSetTimeScale
  <2>2. CASE u = t
    BY <2>1, <2>2 DEF Idle
  <2>3. CASE u # t /\ call[u].at = "asleep" /\ scale' # scale
    <3>1. call[u] \in [at : {"asleep"}, until : Int \cup {Never}, goal : Int, steady : BOOLEAN]
      BY <2>3 DEF TypeOK, Call, Idle, Dead
    <3> QED
      BY <2>1, <2>3, <3>1
  <2>4. CASE u # t /\ (call[u].at # "asleep" \/ scale' = scale)
    BY <2>1, <2>4
  <2> QED
    BY <2>2, <2>3, <2>4
<1>8. ASSUME NEW t \in Tasks, NEW d \in Durations, AdvanceTime(t, d) \/ AdvancePanics(t, d)
      PROVE  Kind
  BY <1>2, <1>3, <1>8 DEF AdvanceTime, AdvancePanics
<1>9. ASSUME NEW t \in Tasks, NEW time \in Instants, SetTime(t, time) PROVE Kind
  BY <1>3, <1>9 DEF SetTime
<1>10. ASSUME NEW t \in Tasks, NEW d \in Durations, SleepSim(t, d) PROVE Kind
  <2>1. CASE u = t
    BY <1>10, <2>1
  <2>2. CASE u # t
    BY <1>10, <2>2 DEF SleepSim, Goto, TypeOK
  <2> QED
    BY <2>1, <2>2
<1>11. ASSUME NEW t \in Tasks, NEW d \in Durations, BeginSleepFixed(t, d) PROVE Kind
  <2>1. PICK where : where = [at |-> "advance", by |-> d]
    OBVIOUS
  <2> QED
    BY <1>1, <1>11, <2>1 DEF BeginSleepFixed
<1>12. ASSUME NEW t \in Tasks, (\E d \in Durations : SleepPanics(t, d)) \/ SleepFixedPanics(t)
       PROVE  Kind
  BY <1>2, <1>12 DEF SleepPanics, SleepFixedPanics
<1>13. ASSUME NEW t \in Tasks, Wake(t) \/ EndSleepFixed(t) PROVE Kind
  BY <1>1, <1>13 DEF Wake, EndSleepFixed, Idle
<1> HIDE DEF Kind
<1>14. Kind
  BY <1>4, <1>5, <1>6, <1>7, <1>8, <1>9, <1>10, <1>11, <1>12, <1>13 DEF Next
<1> QED
  BY <1>14 DEF Kind

LEMMA SleepBegins ==
  ASSUME TypeOK, NEW t \in Tasks, NEW d \in Durations, SleepSim(t, d),
         call'[t].until # Never, call'[t].steady, Forward(scale)
  PROVE  /\ call'[t].until \in Nat
         /\ call'[t].goal < StartSim + Simulated(scale, call'[t].until) + 2 * Ticks(scale)
<1>1. PICK wait : wait = RealTime(scale, d)
  OBVIOUS
<1>2. /\ ~DividesByZero
      /\ Goto(t, [at |-> "asleep", until |-> Until(wait),
                  goal |-> StartSim + Simulated(scale, real) + d,
                  steady |-> Fits(wait)])
  BY <1>1 DEF SleepSim
<1>3. /\ call'[t].until = Until(wait) /\ call'[t].steady = Fits(wait)
      /\ call'[t].goal = StartSim + Simulated(scale, real) + d
  BY <1>2 DEF Goto, TypeOK
<1>4. scale \in Scale /\ real \in Nat /\ d \in Int
  BY ClockAssumption DEF TypeOK
<1>5. Fits(wait) /\ ~(wait < 0) /\ Until(wait) = real + wait
  BY <1>3 DEF Until
<1>6. scale.mode = "Fast" => AsI32(scale.factor) # 0
  BY <1>2 DEF DividesByZero
<1>7. wait \in Int
  BY <1>1, <1>4, <1>6, FactorFacts, QuotientType DEF RealTime
<1>8. wait >= 0
  BY <1>5, <1>7
<1>9. /\ wait \in Nat
      /\ Simulated(scale, real) + d < Simulated(scale, real + wait) + 2 * Ticks(scale)
  BY <1>1, <1>4, <1>6, <1>8, WaitIsEnough
<1>10. /\ Simulated(scale, real) \in Int /\ Simulated(scale, real + wait) \in Int
       /\ Ticks(scale) \in Int /\ StartSim \in Int /\ real + wait \in Nat
  <2>1. real + wait \in Nat /\ real <= real + wait
    BY <1>4, <1>9
  <2> QED
    BY <1>4, <2>1, ForwardMonotone, Dates
<1> QED
  BY <1>3, <1>4, <1>5, <1>9, <1>10

LEMMA SleepsNext ==
  ASSUME TypeOK, SleepsSound, [Next]_vars
  PROVE  SleepsSound'
<1> SUFFICES ASSUME NEW u \in Tasks, call'[u].at = "asleep", call'[u].until # Never,
                    call'[u].steady, Forward(scale')
             PROVE  /\ call'[u].until \in Nat
                    /\ call'[u].goal
                         < StartSim + Simulated(scale', call'[u].until) + 2 * Ticks(scale')
  BY DEF SleepsSound
<1>1. CASE UNCHANGED scale /\ call'[u] = call[u]
  BY <1>1 DEF SleepsSound
<1>2. ASSUME NEW d \in Durations, SleepSim(u, d)
      PROVE  /\ call'[u].until \in Nat
             /\ call'[u].goal < StartSim + Simulated(scale', call'[u].until) + 2 * Ticks(scale')
  <2>1. scale' = scale
    BY <1>2 DEF SleepSim
  <2> QED
    BY <1>2, <2>1, SleepBegins
<1> QED
  BY <1>1, <1>2, SleepKinds

LEMMA SleepsSoundEnough ==
  ASSUME TypeOK, SleepsSound
  PROVE  SleepsLongEnough
<1> SUFFICES ASSUME NEW t \in Tasks, call[t].at = "asleep", call[t].until # Never,
                    call[t].until <= real, call[t].steady, Forward(scale)
             PROVE  call[t].goal < StartSim + Simulated(scale, real) + 2 * Ticks(scale)
  BY DEF SleepsLongEnough
<1>1. PICK r \in Nat : r = call[t].until
  BY DEF SleepsSound
<1>2. call[t].goal < StartSim + Simulated(scale, r) + 2 * Ticks(scale)
  BY <1>1 DEF SleepsSound
<1>3. scale \in Scale /\ real \in Nat /\ r <= real
  BY <1>1, ClockAssumption DEF TypeOK
<1>4. /\ Simulated(scale, r) \in Int /\ Simulated(scale, real) \in Int /\ Ticks(scale) \in Int
      /\ Simulated(scale, r) <= Simulated(scale, real)
  BY <1>3, ForwardMonotone
<1>5. call[t].goal \in Int
  <2>1. call[t] \in [at : {"asleep"}, until : Int \cup {Never}, goal : Int, steady : BOOLEAN]
    BY DEF TypeOK, Call, Idle, Dead
  <2> QED
    BY <2>1
<1> QED
  BY <1>2, <1>4, <1>5, Dates

(***************************************************************************)
(* sleep_sim and update_time (time.rs) scale the time by the same factor:  *)
(* as long as the scale stays, a sleeper does not wake before the time it  *)
(* asked for, but for the two parts of a tick that the division loses, for *)
(* any factor, any duration and any number of sleepers.                    *)
(***************************************************************************)
THEOREM Sleepers == Spec => []SleepsLongEnough
<1>1. Init => SleepsSound
  BY DEF Init, SleepsSound, Idle
<1>2. TypeOK /\ SleepsSound /\ [Next]_vars => SleepsSound'
  BY SleepsNext
<1>3. TypeOK /\ SleepsSound => SleepsLongEnough
  BY SleepsSoundEnough
<1> QED
  BY <1>1, <1>2, <1>3, ClockTyping, PTL DEF Spec
=============================================================================
