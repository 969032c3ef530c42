----------------------------- MODULE Sums_proofs -----------------------------
(***************************************************************************)
(* Facts about SumFunction, by which the modules of a book and of the      *)
(* exchange count quantities.  It folds a function over a finite set in an *)
(* order that CHOOSE fixes; the facts are what does not depend on it.      *)
(*                                                                         *)
(* Every induction is an argument about a smallest counterexample, from    *)
(* the well-foundedness of < on Nat and of the inclusion of finite sets.   *)
(***************************************************************************)
EXTENDS Functions, FiniteSets, Integers, FiniteSetTheorems, WellFoundedInduction, TLAPS

-----------------------------------------------------------------------------
(*                         Smallest counterexamples                        *)

LEMMA NatSetInduction ==
  ASSUME NEW G \in SUBSET Nat, 0 \in G, \A n \in G : n + 1 \in G
  PROVE  G = Nat
<1> SUFFICES ASSUME Nat \ G # {} PROVE FALSE
  OBVIOUS
<1>1. IsWellFoundedOn(OpToRel(<, Nat), Nat)
  BY NatLessThanWellFounded
<1>2. PICK n \in Nat \ G : \A m \in Nat \ G : <<m, n>> \notin OpToRel(<, Nat)
  BY <1>1, WFMin
<1>3. \A m \in Nat \ G : ~(m < n)
  BY <1>2 DEF OpToRel
<1>4. n # 0 /\ n - 1 \in Nat /\ n - 1 < n /\ (n - 1) + 1 = n
  OBVIOUS
<1>5. n - 1 \in G
  BY <1>3, <1>4
<1> QED
  BY <1>4, <1>5

(* A family of finite sets has a member that includes no other.            *)
LEMMA MinimalSet ==
  ASSUME NEW S, IsFiniteSet(S), NEW C \in SUBSET SUBSET S, C # {}
  PROVE  \E T \in C : \A U \in C : U \subseteq T => U = T
<1>1. IsWellFoundedOn(StrictSubsetOrdering(S), FiniteSubsetsOf(S))
  BY FS_StrictSubsetOrderingWellFounded
<1>2. C \subseteq FiniteSubsetsOf(S)
  BY FS_Subset DEF FiniteSubsetsOf
<1>3. PICK T \in C : \A U \in C : <<U, T>> \notin StrictSubsetOrdering(S)
  BY <1>1, <1>2, WFMin
<1>4. \A U \in C : U \subseteq T => U = T
  BY <1>3 DEF StrictSubsetOrdering
<1> QED
  BY <1>4

(* What holds of {}, and of a set if it holds without one of its elements, *)
(* holds of a finite set.                                                  *)
LEMMA SetInduction ==
  ASSUME NEW S, IsFiniteSet(S), NEW G \in SUBSET SUBSET S, {} \in G,
         \A T \in SUBSET S : \A x \in T : T \ {x} \in G => T \in G
  PROVE  S \in G
<1> SUFFICES ASSUME S \notin G PROVE FALSE
  OBVIOUS
<1> DEFINE C == (SUBSET S) \ G
<1>1. C \in SUBSET SUBSET S /\ C # {}
  OBVIOUS
<1> HIDE DEF C
<1>2. PICK T \in C : \A U \in C : U \subseteq T => U = T
  BY <1>1, MinimalSet
<1>3. T \in SUBSET S /\ T \notin G
  BY <1>2 DEF C
<1>4. PICK x : x \in T
  <2>1. T # {}
    BY <1>3
  <2> QED
    BY <2>1
<1>5. T \ {x} \notin C
  BY <1>2, <1>4
<1>6. T \ {x} \in G
  BY <1>3, <1>5 DEF C
<1> QED
  BY <1>3, <1>4, <1>6

-----------------------------------------------------------------------------
(*                    The recursion of SumFunctionOnSet                    *)

Pick(T) == CHOOSE x \in T : TRUE

LEMMA PickIn ==
  ASSUME NEW T, T # {}
  PROVE  Pick(T) \in T
  BY DEF Pick

(* What a table of the sums over the sets in D is defined to say.          *)
SumStep(f, g, T) == IF T = {} THEN 0 ELSE f[Pick(T)] + g[T \ {Pick(T)}]
Table(f, D, g) == g = [T \in D |-> SumStep(f, g, T)]

LEMMA SumUnfolded ==
  ASSUME NEW f, NEW S
  PROVE  SumFunctionOnSet(f, S) = (CHOOSE g : Table(f, SUBSET S, g))[S]
  BY Zenon DEF SumFunctionOnSet, FoldFunctionOnSet, MapThenFoldSet, Pick, Table, SumStep

(* There is a table for the sets of at most n elements, for every n.       *)
LEMMA TableExists ==
  ASSUME NEW f, NEW S, IsFiniteSet(S)
  PROVE  \E g : Table(f, SUBSET S, g)
<1> DEFINE Small(n) == {T \in SUBSET S : Cardinality(T) <= n}
           G == {n \in Nat : \E g : Table(f, Small(n), g)}
<1>1. ASSUME NEW T \in SUBSET S
      PROVE  /\ IsFiniteSet(T) /\ Cardinality(T) \in Nat
             /\ T # {} => /\ T \ {Pick(T)} \in SUBSET S
                          /\ Cardinality(T \ {Pick(T)}) = Cardinality(T) - 1
  BY FS_Subset, FS_CardinalityType, FS_RemoveElement, PickIn
<1>0. \A n, T : T \in Small(n) <=> T \in SUBSET S /\ Cardinality(T) <= n
  OBVIOUS
<1> HIDE DEF Small
<1>2. 0 \in G
  <2> DEFINE g == [T \in Small(0) |-> 0]
  <2>1. \A T \in Small(0) : T = {}
    <3> TAKE T \in Small(0)
    <3>1. T \in SUBSET S /\ Cardinality(T) <= 0
      BY <1>0
    <3>2. IsFiniteSet(T) /\ Cardinality(T) = 0
      <4>1. IsFiniteSet(T) /\ Cardinality(T) \in Nat
        BY <1>1, <3>1
      <4> QED
        BY <3>1, <4>1
    <3> QED
      BY <3>2, FS_EmptySet
  <2>2. \A T \in Small(0) : SumStep(f, g, T) = 0
    BY <2>1 DEF SumStep
  <2>3. Table(f, Small(0), g)
    BY <2>2 DEF Table
  <2> QED
    BY <2>3
<1>3. ASSUME NEW n \in G PROVE n + 1 \in G
  <2>1. PICK g : Table(f, Small(n), g)
    OBVIOUS
  <2> DEFINE h == [T \in Small(n + 1) |-> IF T \in Small(n) THEN g[T] ELSE SumStep(f, g, T)]
  <2>2. n \in Nat /\ Small(n) \subseteq Small(n + 1)
    <3>1. \A T \in Small(n) : T \in SUBSET S /\ Cardinality(T) \in Nat /\ Cardinality(T) <= n
      BY <1>0, <1>1
    <3>2. \A T \in Small(n) : Cardinality(T) <= n + 1
      BY <3>1
    <3> QED
      BY <1>0, <3>1, <3>2
  <2>3. \A T \in Small(n + 1) : T # {} => T \ {Pick(T)} \in Small(n)
    <3>1. SUFFICES ASSUME NEW T \in Small(n + 1), T # {} PROVE T \ {Pick(T)} \in Small(n)
      OBVIOUS
    <3>2. T \in SUBSET S /\ Cardinality(T) <= n + 1
      BY <1>0
    <3>3. /\ Cardinality(T) \in Nat /\ T \ {Pick(T)} \in SUBSET S
          /\ Cardinality(T \ {Pick(T)}) = Cardinality(T) - 1
      BY <1>1, <3>1, <3>2
    <3>4. Cardinality(T \ {Pick(T)}) <= n
      BY <2>2, <3>2, <3>3
    <3> QED
      BY <1>0, <3>3, <3>4
  <2>4. \A T \in Small(n) : h[T] = g[T]
    BY <2>2
  <2>5. \A T \in Small(n + 1) : SumStep(f, h, T) = SumStep(f, g, T)
    <3> HIDE DEF h
    <3> QED
      BY <2>3, <2>4 DEF SumStep
  <2>6. \A T \in Small(n) : g[T] = SumStep(f, g, T)
    BY <2>1 DEF Table
  <2>7. \A T \in Small(n + 1) : h[T] = SumStep(f, h, T)
    BY <2>5, <2>6
  <2>8. Table(f, Small(n + 1), h)
    BY <2>7 DEF Table
  <2> HIDE DEF h
  <2> QED
    BY <2>2, <2>8
<1>4. G = Nat
  <2>1. G \in SUBSET Nat
    OBVIOUS
  <2> HIDE DEF G
  <2> QED
    BY <1>2, <1>3, <2>1, NatSetInduction
<1>5. Cardinality(S) \in Nat /\ Small(Cardinality(S)) = SUBSET S
  BY <1>0, FS_Subset, FS_CardinalityType
<1>6. PICK k : k = Cardinality(S)
  OBVIOUS
<1>7. \E g : Table(f, Small(k), g)
  BY <1>4, <1>5, <1>6
<1> QED
  BY <1>5, <1>6, <1>7

(* Two tables agree where both are defined.                                *)
LEMMA TablesAgree ==
  ASSUME NEW f, NEW S, IsFiniteSet(S), NEW R \in SUBSET S,
         NEW g, Table(f, SUBSET S, g), NEW h, Table(f, SUBSET R, h)
  PROVE  h[R] = g[R]
<1> DEFINE G == {T \in SUBSET R : h[T] = g[T]}
<1>1. \A T \in SUBSET R : g[T] = SumStep(f, g, T) /\ h[T] = SumStep(f, h, T)
  BY DEF Table
<1>2. {} \in G
  BY <1>1 DEF SumStep
<1>3. ASSUME NEW T \in SUBSET R, T # {}, T \ {Pick(T)} \in G PROVE T \in G
  BY <1>1, <1>3 DEF SumStep
<1>4. SUFFICES ASSUME R \notin G PROVE FALSE
  OBVIOUS
<1> DEFINE C == (SUBSET R) \ G
<1>5. C \in SUBSET SUBSET R /\ C # {}
  BY <1>4
<1>6. IsFiniteSet(R)
  BY FS_Subset
<1> HIDE DEF C, G
<1>7. PICK T \in C : \A U \in C : U \subseteq T => U = T
  BY <1>5, <1>6, MinimalSet
<1>8. T \in SUBSET R /\ T \notin G /\ T # {}
  BY <1>2, <1>7 DEF C
<1>9. T \ {Pick(T)} \in SUBSET R /\ T \ {Pick(T)} # T
  BY <1>8, PickIn
<1>10. T \ {Pick(T)} \in G
  BY <1>7, <1>9 DEF C
<1> QED
  BY <1>3, <1>8, <1>10

(* The recursion: the sum takes up one element, the one that CHOOSE gives. *)
LEMMA SumOneStep ==
  ASSUME NEW f, NEW S, IsFiniteSet(S)
  PROVE  SumFunctionOnSet(f, S) =
           IF S = {} THEN 0
           ELSE f[Pick(S)] + SumFunctionOnSet(f, S \ {Pick(S)})
<1> DEFINE Sums(T) == CHOOSE g : Table(f, SUBSET T, g)
<1>1. \A T \in SUBSET S : Table(f, SUBSET T, Sums(T))
  <2> TAKE T \in SUBSET S
  <2>1. \E g : Table(f, SUBSET T, g)
    BY FS_Subset, TableExists
  <2> QED
    BY <2>1
<1>2. \A T \in SUBSET S : SumFunctionOnSet(f, T) = Sums(T)[T]
  BY SumUnfolded
<1> HIDE DEF Sums
<1>3. Sums(S)[S] = SumStep(f, Sums(S), S)
  BY <1>1 DEF Table
<1>4. CASE S = {}
  BY <1>2, <1>3, <1>4 DEF SumStep
<1>5. CASE S # {}
  <2> DEFINE R == S \ {Pick(S)}
  <2>1. R \in SUBSET S
    OBVIOUS
  <2> HIDE DEF R
  <2>2. Sums(R)[R] = Sums(S)[R]
    BY <1>1, <2>1, TablesAgree, ZenonT(40)
  <2>3. Sums(S)[S] = f[Pick(S)] + Sums(S)[R]
    BY <1>3, <1>5 DEF SumStep, R
  <2> QED
    BY <1>2, <1>5, <2>1, <2>2, <2>3 DEF R
<1> QED
  BY <1>4, <1>5

-----------------------------------------------------------------------------
(*                    Sums, whatever the order of summation                *)

LEMMA SumOfNothing ==
  ASSUME NEW f
  PROVE  SumFunctionOnSet(f, {}) = 0
  BY SumOneStep, FS_EmptySet

LEMMA SumType ==
  ASSUME NEW f, NEW S, IsFiniteSet(S), \A x \in S : f[x] \in Int
  PROVE  SumFunctionOnSet(f, S) \in Int
<1> DEFINE C == {T \in SUBSET S : SumFunctionOnSet(f, T) \notin Int}
<1> SUFFICES ASSUME C # {} PROVE FALSE
  OBVIOUS
<1>1. C \in SUBSET SUBSET S
  OBVIOUS
<1> HIDE DEF C
<1>2. PICK T \in C : \A U \in C : U \subseteq T => U = T
  BY <1>1, MinimalSet
<1>3. T \in SUBSET S /\ SumFunctionOnSet(f, T) \notin Int /\ IsFiniteSet(T)
  BY <1>2, FS_Subset DEF C
<1>4. T # {}
  BY <1>3, SumOfNothing
<1>5. Pick(T) \in T /\ T \ {Pick(T)} \in SUBSET S /\ T \ {Pick(T)} # T
  BY <1>3, <1>4, PickIn
<1>6. SumFunctionOnSet(f, T \ {Pick(T)}) \in Int
  BY <1>2, <1>5 DEF C
<1>7. SumFunctionOnSet(f, T) = f[Pick(T)] + SumFunctionOnSet(f, T \ {Pick(T)})
  BY <1>3, <1>4, SumOneStep
<1> QED
  BY <1>3, <1>5, <1>6, <1>7

(* Any element can be taken out first.                                     *)
LEMMA SumWithout ==
  ASSUME NEW f, NEW S, IsFiniteSet(S), \A y \in S : f[y] \in Int, NEW x \in S
  PROVE  SumFunctionOnSet(f, S) = f[x] + SumFunctionOnSet(f, S \ {x})
<1> DEFINE Sum(T) == SumFunctionOnSet(f, T)
           C == {T \in SUBSET S : \E y \in T : Sum(T) # f[y] + Sum(T \ {y})}
<1> SUFFICES ASSUME C # {} PROVE FALSE
  OBVIOUS
<1>1. C \in SUBSET SUBSET S
  OBVIOUS
<1>2. \A T \in SUBSET S : IsFiniteSet(T) /\ Sum(T) \in Int
  BY FS_Subset, SumType
<1>3. \A T \in SUBSET S : T # {} => Sum(T) = f[Pick(T)] + Sum(T \ {Pick(T)})
  BY <1>2, SumOneStep
<1>4. \A T \in C : T \in SUBSET S /\ \E y \in T : Sum(T) # f[y] + Sum(T \ {y})
  OBVIOUS
<1>5. \A T \in (SUBSET S) \ C : \A y \in T : Sum(T) = f[y] + Sum(T \ {y})
  OBVIOUS
<1> HIDE DEF C, Sum
<1>6. PICK T \in C : \A U \in C : U \subseteq T => U = T
  BY <1>1, MinimalSet
<1>7. PICK y \in T : Sum(T) # f[y] + Sum(T \ {y})
  BY <1>4
<1>8. PICK p : p = Pick(T)
  OBVIOUS
<1>9. /\ p \in T /\ T \in SUBSET S /\ Sum(T) = f[p] + Sum(T \ {p})
      /\ f[p] \in Int /\ f[y] \in Int
  BY <1>3, <1>4, <1>7, <1>8, PickIn
<1>10. y # p
  BY <1>7, <1>9
<1>11. T \ {p} \in (SUBSET S) \ C /\ T \ {y} \in (SUBSET S) \ C
  BY <1>6, <1>7, <1>9
<1>12. Sum(T \ {p}) = f[y] + Sum((T \ {p}) \ {y})
  BY <1>5, <1>7, <1>10, <1>11
<1>13. Sum(T \ {y}) = f[p] + Sum((T \ {y}) \ {p})
  BY <1>5, <1>9, <1>10, <1>11
<1>14. (T \ {p}) \ {y} = (T \ {y}) \ {p} /\ (T \ {p}) \ {y} \in SUBSET S
  BY <1>9
<1>15. PICK r \in Int : r = Sum((T \ {p}) \ {y})
  BY <1>2, <1>14
<1>16. Sum(T) = f[p] + (f[y] + r) /\ Sum(T \ {y}) = f[p] + r
  BY <1>9, <1>12, <1>13, <1>14, <1>15
<1> QED
  BY <1>7, <1>9, <1>16

(* Functions that agree on a set have the same sum over it.                *)
LEMMA SumAgrees ==
  ASSUME NEW f, NEW h, NEW S, IsFiniteSet(S), \A x \in S : f[x] = h[x]
  PROVE  SumFunctionOnSet(f, S) = SumFunctionOnSet(h, S)
<1> DEFINE G == {T \in SUBSET S : SumFunctionOnSet(f, T) = SumFunctionOnSet(h, T)}
           C == (SUBSET S) \ G
<1> SUFFICES ASSUME C # {} PROVE FALSE
  OBVIOUS
<1>1. C \in SUBSET SUBSET S
  OBVIOUS
<1> HIDE DEF C
<1>2. PICK T \in C : \A U \in C : U \subseteq T => U = T
  BY <1>1, MinimalSet
<1>3. /\ T \in SUBSET S /\ SumFunctionOnSet(f, T) # SumFunctionOnSet(h, T)
      /\ IsFiniteSet(T)
  BY <1>2, FS_Subset DEF C
<1>4. T # {}
  BY <1>3, SumOfNothing
<1>5. Pick(T) \in T /\ T \ {Pick(T)} \in SUBSET S /\ T \ {Pick(T)} # T
  BY <1>3, <1>4, PickIn
<1>6. SumFunctionOnSet(f, T \ {Pick(T)}) = SumFunctionOnSet(h, T \ {Pick(T)})
  BY <1>2, <1>5 DEF C
<1>7. /\ SumFunctionOnSet(f, T) = f[Pick(T)] + SumFunctionOnSet(f, T \ {Pick(T)})
      /\ SumFunctionOnSet(h, T) = h[Pick(T)] + SumFunctionOnSet(h, T \ {Pick(T)})
  BY <1>3, <1>4, SumOneStep
<1> QED
  BY <1>3, <1>5, <1>6, <1>7

-----------------------------------------------------------------------------
(*                    Sums of functions that differ in one place           *)

(* The values of f are integers, on a finite set.                          *)
Summable(f) == IsFiniteSet(DOMAIN f) /\ \A x \in DOMAIN f : f[x] \in Int

LEMMA SumFunctionType ==
  ASSUME NEW f, Summable(f)
  PROVE  SumFunction(f) \in Int
  BY SumType DEF Summable, SumFunction

LEMMA SumFunctionEmpty ==
  ASSUME NEW f, DOMAIN f = {}
  PROVE  SumFunction(f) = 0
  BY SumOfNothing DEF SumFunction

LEMMA SumSame ==
  ASSUME NEW f, NEW h, Summable(f), DOMAIN h = DOMAIN f,
         \A x \in DOMAIN f : h[x] = f[x]
  PROVE  Summable(h) /\ SumFunction(h) = SumFunction(f)
  BY SumAgrees DEF Summable, SumFunction

(* h has the place x, and is f elsewhere.                                  *)
LEMMA SumPlus ==
  ASSUME NEW f, NEW h, Summable(f), NEW x, x \notin DOMAIN f,
         DOMAIN h = DOMAIN f \cup {x}, h[x] \in Int,
         \A y \in DOMAIN f : h[y] = f[y]
  PROVE  Summable(h) /\ SumFunction(h) = SumFunction(f) + h[x]
<1>1. IsFiniteSet(DOMAIN f) /\ IsFiniteSet(DOMAIN h) /\ \A y \in DOMAIN h : h[y] \in Int
  BY FS_AddElement DEF Summable
<1>2. SumFunctionOnSet(h, DOMAIN h) = h[x] + SumFunctionOnSet(h, DOMAIN h \ {x})
  BY <1>1, SumWithout
<1>3. DOMAIN h \ {x} = DOMAIN f
  OBVIOUS
<1>4. SumFunctionOnSet(h, DOMAIN f) = SumFunctionOnSet(f, DOMAIN f)
  BY <1>1, SumAgrees
<1>5. SumFunctionOnSet(f, DOMAIN f) \in Int
  BY <1>1, SumType DEF Summable
<1> QED
  BY <1>1, <1>2, <1>3, <1>4, <1>5 DEF Summable, SumFunction

LEMMA SumMinus ==
  ASSUME NEW f, NEW h, Summable(f), NEW x \in DOMAIN f,
         DOMAIN h = DOMAIN f \ {x},
         \A y \in DOMAIN h : h[y] = f[y]
  PROVE  Summable(h) /\ SumFunction(h) = SumFunction(f) - f[x]
<1>1. Summable(h)
  BY FS_RemoveElement DEF Summable
<1>2. /\ x \notin DOMAIN h /\ DOMAIN f = DOMAIN h \cup {x} /\ f[x] \in Int
      /\ \A y \in DOMAIN h : f[y] = h[y]
  BY DEF Summable
<1>3. SumFunction(f) = SumFunction(h) + f[x]
  BY <1>1, <1>2, SumPlus
<1>4. SumFunction(h) \in Int
  BY <1>1, SumFunctionType
<1> QED
  BY <1>1, <1>2, <1>3, <1>4

LEMMA SumChange ==
  ASSUME NEW f, NEW h, Summable(f), NEW x \in DOMAIN f,
         DOMAIN h = DOMAIN f, h[x] \in Int,
         \A y \in DOMAIN f \ {x} : h[y] = f[y]
  PROVE  Summable(h) /\ SumFunction(h) = SumFunction(f) - f[x] + h[x]
<1> DEFINE g == [y \in DOMAIN f \ {x} |-> f[y]]
<1>1. DOMAIN g = DOMAIN f \ {x} /\ \A y \in DOMAIN g : g[y] = f[y] /\ g[y] = h[y]
  OBVIOUS
<1> HIDE DEF g
<1>2. Summable(g) /\ SumFunction(g) = SumFunction(f) - f[x]
  BY <1>1, SumMinus
<1>3. x \notin DOMAIN g /\ DOMAIN h = DOMAIN g \cup {x} /\ \A y \in DOMAIN g : h[y] = g[y]
  BY <1>1
<1>4. Summable(h) /\ SumFunction(h) = SumFunction(g) + h[x]
  BY <1>2, <1>3, SumPlus
<1> QED
  BY <1>2, <1>4

(* Values that are not negative have such a sum, which is no less than any.*)
LEMMA SumNat ==
  ASSUME NEW f, IsFiniteSet(DOMAIN f), \A x \in DOMAIN f : f[x] \in Nat
  PROVE  /\ SumFunction(f) \in Nat
         /\ \A x \in DOMAIN f : f[x] <= SumFunction(f)
<1> DEFINE S == DOMAIN f
           C == {T \in SUBSET S : SumFunctionOnSet(f, T) \notin Nat}
<1>1. C = {}
  <2> SUFFICES ASSUME C # {} PROVE FALSE
    OBVIOUS
  <2>1. C \in SUBSET SUBSET S
    OBVIOUS
  <2> HIDE DEF C
  <2>2. PICK T \in C : \A U \in C : U \subseteq T => U = T
    BY <2>1, MinimalSet
  <2>3. T \in SUBSET S /\ SumFunctionOnSet(f, T) \notin Nat /\ IsFiniteSet(T)
    BY <2>2, FS_Subset DEF C
  <2>4. T # {}
    BY <2>3, SumOfNothing
  <2>5. Pick(T) \in T /\ T \ {Pick(T)} \in SUBSET S /\ T \ {Pick(T)} # T
    BY <2>3, <2>4, PickIn
  <2>6. SumFunctionOnSet(f, T \ {Pick(T)}) \in Nat
    BY <2>2, <2>5 DEF C
  <2>7. SumFunctionOnSet(f, T) = f[Pick(T)] + SumFunctionOnSet(f, T \ {Pick(T)})
    BY <2>3, <2>4, SumOneStep
  <2> QED
    BY <2>3, <2>5, <2>6, <2>7
<1>2. \A T \in SUBSET S : SumFunctionOnSet(f, T) \in Nat
  BY <1>1
<1>3. ASSUME NEW x \in S PROVE f[x] <= SumFunctionOnSet(f, S)
  <2>1. SumFunctionOnSet(f, S) = f[x] + SumFunctionOnSet(f, S \ {x})
    BY SumWithout
  <2>2. SumFunctionOnSet(f, S \ {x}) \in Nat
    BY <1>2
  <2> QED
    BY <2>1, <2>2
<1> QED
  BY <1>2, <1>3 DEF SumFunction

(* Where no value grows by more than k, the sum grows by no more than k    *)
(* for each.                                                               *)
LEMMA SumGrowth ==
  ASSUME NEW f, NEW h, Summable(f), Summable(h), DOMAIN h = DOMAIN f, NEW k \in Nat,
         \A x \in DOMAIN f : h[x] <= f[x] + k
  PROVE  SumFunction(h) <= SumFunction(f) + k * Cardinality(DOMAIN f)
<1>1. PICK S : S = DOMAIN f
  OBVIOUS
<1>2. IsFiniteSet(S) /\ \A x \in S : f[x] \in Int /\ h[x] \in Int /\ h[x] <= f[x] + k
  BY <1>1 DEF Summable
<1> DEFINE G == {T \in SUBSET S : SumFunctionOnSet(h, T)
                                    <= SumFunctionOnSet(f, T) + k * Cardinality(T)}
<1>3. {} \in G
  <2>1. SumFunctionOnSet(h, {}) = 0 /\ SumFunctionOnSet(f, {}) = 0 /\ Cardinality({}) = 0
    BY SumOfNothing, FS_EmptySet
  <2> QED
    BY <2>1
<1>4. ASSUME NEW T \in SUBSET S, NEW x \in T, T \ {x} \in G PROVE T \in G
  <2>1. IsFiniteSet(T) /\ IsFiniteSet(T \ {x})
    BY <1>2, FS_Subset, FS_RemoveElement
  <2>2. /\ SumFunctionOnSet(h, T) = h[x] + SumFunctionOnSet(h, T \ {x})
        /\ SumFunctionOnSet(f, T) = f[x] + SumFunctionOnSet(f, T \ {x})
    BY <1>2, <2>1, SumWithout
  <2>3. PICK n \in Nat : n = Cardinality(T \ {x}) /\ Cardinality(T) = n + 1
    <3>1. Cardinality(T \ {x}) = Cardinality(T) - 1 /\ Cardinality(T) \in Nat
          /\ Cardinality(T \ {x}) \in Nat
      BY <2>1, FS_RemoveElement, FS_CardinalityType
    <3> QED
      BY <3>1
  <2>4. PICK a \in Int, b \in Int :
          a = SumFunctionOnSet(h, T \ {x}) /\ b = SumFunctionOnSet(f, T \ {x})
    BY <1>2, <2>1, SumType
  <2>5. a <= b + k * n
    BY <1>4, <2>3, <2>4
  <2>6. k * (n + 1) = k * n + k /\ k * n \in Nat
    OBVIOUS
  <2>7. h[x] + a <= f[x] + b + k * (n + 1)
    BY <1>2, <2>5, <2>6
  <2> QED
    BY <2>2, <2>3, <2>4, <2>7
<1>5. G \in SUBSET SUBSET S
  OBVIOUS
<1> HIDE DEF G
<1>6. S \in G
  BY <1>2, <1>3, <1>4, <1>5, SetInduction
<1> QED
  BY <1>1, <1>6 DEF G, SumFunction
=============================================================================
