----------------------------- MODULE FoldLemmas -----------------------------
(***************************************************************************)
(* Facts about sums over finite sets and about folds, for the modules that *)
(* compute them.  The induction they need is the one of the well-founded   *)
(* orders of numbers and of finite sets.  Both are stated about sets, so   *)
(* that a proof gives the set of all values for which a fact holds.        *)
(***************************************************************************)
EXTENDS Integers, Functions, FiniteSets, FiniteSetTheorems, WellFoundedInduction, TLAPS

\* A set of numbers has a least one.
LEMMA LeastNumber ==
  ASSUME NEW N \in SUBSET Nat, N # {}
  PROVE  \E n \in N : \A k \in N : n <= k
<1>1. PICK n \in N : \A k \in N : <<k, n>> \notin OpToRel(<, Nat)
  BY WFMin, NatLessThanWellFounded, Zenon
<1>2. \A k \in N : ~(k < n)
  BY <1>1, Zenon DEF OpToRel
<1> QED
  BY <1>2

\* A set of numbers with a bound has a greatest one.
LEMMA GreatestNumber ==
  ASSUME NEW n \in Nat, NEW N \in SUBSET (0 .. n), N # {}
  PROVE  \E k \in N : \A j \in N : j <= k
<1> DEFINE below == {n - k : k \in N}
<1>1. below \in SUBSET Nat /\ below # {}
  <2>1. PICK j \in N : TRUE
    OBVIOUS
  <2>2. n - j \in below
    OBVIOUS
  <2>3. \A k \in N : n - k \in Nat
    OBVIOUS
  <2> QED
    BY <2>2, <2>3
<1>2. PICK b \in below : \A c \in below : b <= c
  <2> HIDE DEF below
  <2> QED
    BY <1>1, LeastNumber
<1>3. PICK k \in N : b = n - k
  BY <1>2
<1>4. ASSUME NEW j \in N PROVE j <= k
  <2>1. b <= n - j
    BY <1>2
  <2> QED
    BY <1>3, <2>1
<1> QED
  BY <1>4

\* There are n numbers from 1 to n.
LEMMA IntervalSize ==
  ASSUME NEW n \in Nat
  PROVE  IsFiniteSet(1 .. n) /\ Cardinality(1 .. n) = n
<1>1. IsFiniteSet(1 .. n) /\ Cardinality(1 .. n) = IF 1 > n THEN 0 ELSE n - 1 + 1
  BY FS_Interval
<1> QED
  BY <1>1

\* A set with 0, and with n + 1 for its every n, has all numbers.
LEMMA NumberInduction ==
  ASSUME NEW N, 0 \in N, \A n \in Nat : n \in N => n + 1 \in N
  PROVE  Nat \subseteq N
<1> SUFFICES ASSUME Nat \ N # {} PROVE FALSE
  OBVIOUS
<1>1. PICK n \in Nat \ N : \A k \in Nat \ N : n <= k
  BY LeastNumber
<1>2. n - 1 \in Nat /\ n - 1 \in N
  BY <1>1
<1> QED
  BY <1>1, <1>2

\* A family that has every subset of S whose own strict subsets it has, has all of them.
LEMMA SubsetInduction ==
  ASSUME NEW S, IsFiniteSet(S), NEW F,
         \A T \in SUBSET S : (\A U \in SUBSET T : U # T => U \in F) => T \in F
  PROVE  SUBSET S \subseteq F
<1> SUFFICES ASSUME (SUBSET S) \ F # {} PROVE FALSE
  OBVIOUS
<1>1. IsWellFoundedOn(StrictSubsetOrdering(S), SUBSET S)
  <2>1. FiniteSubsetsOf(S) = SUBSET S
    BY FS_FiniteSubsetsOfFinite
  <2>2. IsWellFoundedOn(StrictSubsetOrdering(S), FiniteSubsetsOf(S))
    BY ONLY FS_StrictSubsetOrderingWellFounded, Zenon
  <2> QED
    BY ONLY <2>1, <2>2, Zenon
<1>2. \E T \in (SUBSET S) \ F :
        \A U \in (SUBSET S) \ F : ~(<<U, T>> \in StrictSubsetOrdering(S))
  <2> DEFINE G == (SUBSET S) \ F
  <2>1. G # {} /\ G \subseteq SUBSET S
    OBVIOUS
  <2> HIDE DEF G
  <2>2. \E T \in G : \A U \in G : ~(<<U, T>> \in StrictSubsetOrdering(S))
    BY ONLY <1>1, <2>1, WFMin, Zenon
  <2> QED
    BY <2>2 DEF G
<1>3. PICK T \in (SUBSET S) \ F :
        \A U \in (SUBSET S) \ F : ~(<<U, T>> \in StrictSubsetOrdering(S))
  BY <1>2
<1>4. ASSUME NEW U \in SUBSET T, U # T PROVE U \in F
  BY <1>3, <1>4, Zenon DEF StrictSubsetOrdering
<1> QED
  BY <1>3, <1>4

\* A family that has the empty set, and every subset of S that it has less one element.
LEMMA ElementInduction ==
  ASSUME NEW S, IsFiniteSet(S), NEW F, {} \in F,
         \A T \in SUBSET S : \A x \in T : T \ {x} \in F => T \in F
  PROVE  S \in F
<1>1. ASSUME NEW T \in SUBSET S, \A U \in SUBSET T : U # T => U \in F PROVE T \in F
  <2>1. CASE T = {}
    BY <2>1
  <2>2. ASSUME NEW x \in T PROVE T \in F
    <3>1. T \ {x} \in SUBSET T /\ T \ {x} # T
      BY <2>2
    <3> QED
      BY <1>1, <3>1
  <2> QED
    BY <2>1, <2>2
<1> QED
  BY <1>1, SubsetInduction

-----------------------------------------------------------------------------
\* The recursion equation of a fold, over the elements of S in the order of pick.
Folds(g, S, pick, base, step) ==
  \A s \in SUBSET S : g[s] = IF s = {} THEN base ELSE step[<<pick[s], g[s \ {pick[s]}]>>]

\* A fold is defined: some function satisfies the equation.
LEMMA FoldExists ==
  ASSUME NEW S, IsFiniteSet(S),
         NEW pick, \A s \in SUBSET S : s # {} => pick[s] \in s,
         NEW V, NEW base \in V, NEW step \in [S \X V -> V]
  PROVE  \E g \in [SUBSET S -> V] : Folds(g, S, pick, base, step)
<1> DEFINE Small(n) == {s \in SUBSET S : Cardinality(s) <= n}
           Upto(g, n) == \A s \in Small(n) :
             g[s] = IF s = {} THEN base ELSE step[<<pick[s], g[s \ {pick[s]}]>>]
           N == {n \in Nat : \E g \in [Small(n) -> V] : Upto(g, n)}
<1>1. \A s \in SUBSET S : IsFiniteSet(s) /\ Cardinality(s) \in Nat
  BY FS_Subset, FS_CardinalityType
<1>2. 0 \in N
  <2> DEFINE g == [s \in Small(0) |-> base]
  <2>1. \A s \in Small(0) : s = {}
    BY <1>1, FS_EmptySet
  <2>2. g \in [Small(0) -> V] /\ Upto(g, 0)
    BY <2>1
  <2> HIDE DEF g, Small, Upto
  <2> QED
    BY <2>2
<1>3. ASSUME NEW n \in Nat, n \in N PROVE n + 1 \in N
  <2>1. PICK h \in [Small(n) -> V] : Upto(h, n)
    BY <1>3
  <2> DEFINE g == [s \in Small(n + 1) |->
                     IF s = {} THEN base ELSE step[<<pick[s], h[s \ {pick[s]}]>>]]
  <2>2. ASSUME NEW s \in Small(n + 1), s # {}
        PROVE  s \ {pick[s]} \in Small(n) /\ s \ {pick[s]} \in Small(n + 1) /\ pick[s] \in S
    <3>1. pick[s] \in s /\ s \in SUBSET S
      BY <2>2
    <3>2. Cardinality(s \ {pick[s]}) = Cardinality(s) - 1 /\ Cardinality(s) \in Nat
      BY <1>1, <3>1, FS_RemoveElement
    <3> QED
      BY <2>2, <3>1, <3>2
  <2>3. g \in [Small(n + 1) -> V]
    BY <2>2
  <2>4. \A s \in Small(n) : s \in Small(n + 1) /\ g[s] = h[s]
    BY <1>1, <2>1
  <2>5. Upto(g, n + 1)
    BY <2>2, <2>4
  <2> HIDE DEF g, Small, Upto
  <2> QED
    BY <2>3, <2>5
<1>4. Cardinality(S) \in N
  <2> HIDE DEF N
  <2> QED
    BY <1>2, <1>3, NumberInduction, FS_CardinalityType
<1>5. Small(Cardinality(S)) = SUBSET S
  BY <1>1, FS_Subset
<1>6. PICK g \in [SUBSET S -> V] : Upto(g, Cardinality(S))
  BY <1>4, <1>5
<1> QED
  BY <1>5, <1>6 DEF Folds

-----------------------------------------------------------------------------
(***************************************************************************)
(* Sums.                                                                   *)
(***************************************************************************)
\* The recursion equation of a sum.
Sums(g, f, S) ==
  g = [s \in SUBSET S |-> IF s = {} THEN 0
                          ELSE f[CHOOSE x \in s : TRUE] + g[s \ {CHOOSE x \in s : TRUE}]]

\* The equation has a solution, and the sum is the value of one.
LEMMA SumDefined ==
  ASSUME NEW S, IsFiniteSet(S), NEW f, \A x \in S : f[x] \in Int
  PROVE  \E g \in [SUBSET S -> Int] : Sums(g, f, S) /\ SumFunctionOnSet(f, S) = g[S]
<1> DEFINE pick == [s \in SUBSET S |-> CHOOSE x \in s : TRUE]
           step == [p \in S \X Int |-> f[p[1]] + p[2]]
<1>1. \A s \in SUBSET S : s # {} => pick[s] \in s
  OBVIOUS
<1>2. 0 \in Int /\ step \in [S \X Int -> Int]
  OBVIOUS
<1>3. \A x \in S, v \in Int : step[<<x, v>>] = f[x] + v
  OBVIOUS
<1>4. \E g \in [SUBSET S -> Int] : Folds(g, S, pick, 0, step)
  <2> HIDE DEF pick, step
  <2> QED
    BY <1>1, <1>2, FoldExists, Zenon
<1>5. PICK h \in [SUBSET S -> Int] : \A s \in SUBSET S :
           h[s] = IF s = {} THEN 0 ELSE step[<<pick[s], h[s \ {pick[s]}]>>]
  BY <1>4 DEF Folds
<1>6. ASSUME NEW s \in SUBSET S, s # {}
      PROVE  h[s] = f[CHOOSE x \in s : TRUE] + h[s \ {CHOOSE x \in s : TRUE}]
  <2>1. pick[s] \in S /\ h[s \ {pick[s]}] \in Int /\ pick[s] = CHOOSE x \in s : TRUE
    BY <1>1, <1>6
  <2> HIDE DEF pick, step
  <2> QED
    BY <1>3, <1>5, <1>6, <2>1
<1>7. Sums(h, f, S)
  BY <1>5, <1>6 DEF Sums
<1> DEFINE iter == CHOOSE g : Sums(g, f, S)
<1>8. Sums(iter, f, S)
  BY <1>7
<1>9. SumFunctionOnSet(f, S) = iter[S]
  BY DEF Sums, SumFunctionOnSet, FoldFunctionOnSet, MapThenFoldSet
<1> HIDE DEF iter
<1> DEFINE F == {s \in SUBSET S : iter[s] \in Int}
<1>10. ASSUME NEW s \in SUBSET S, \A u \in SUBSET s : u # s => u \in F PROVE s \in F
  <2>1. CASE s = {}
    BY <1>8, <2>1 DEF Sums
  <2>2. CASE s # {}
    <3> DEFINE x == CHOOSE x \in s : TRUE
    <3>1. x \in s /\ iter[s \ {x}] \in Int
      BY <1>10, <2>2
    <3>2. iter[s] = f[x] + iter[s \ {x}]
      BY <1>8, <2>2 DEF Sums
    <3> QED
      BY <3>1, <3>2
  <2> QED
    BY <2>1, <2>2
<1>11. SUBSET S \subseteq F
  <2> HIDE DEF F
  <2> QED
    BY <1>10, SubsetInduction
<1>12. iter \in [SUBSET S -> Int]
  BY <1>8, <1>11 DEF Sums
<1> QED
  BY <1>8, <1>9, <1>12

\* The equation determines the sum of a set, whichever set the recursion runs over.
LEMMA SumUnique ==
  ASSUME NEW S, NEW f, NEW g, Sums(g, f, S),
         NEW T \in SUBSET S, IsFiniteSet(T), NEW h, Sums(h, f, T)
  PROVE  g[T] = h[T]
<1> DEFINE F == {s \in SUBSET T : g[s] = h[s]}
<1>1. ASSUME NEW s \in SUBSET T, \A u \in SUBSET s : u # s => u \in F PROVE s \in F
  <2>1. CASE s = {}
    BY <2>1 DEF Sums
  <2>2. CASE s # {}
    <3> DEFINE x == CHOOSE x \in s : TRUE
    <3>1. x \in s /\ g[s \ {x}] = h[s \ {x}]
      BY <1>1, <2>2
    <3>2. g[s] = f[x] + g[s \ {x}] /\ h[s] = f[x] + h[s \ {x}]
      BY <2>2 DEF Sums
    <3> QED
      BY <3>1, <3>2
  <2> QED
    BY <2>1, <2>2
<1>2. SUBSET T \subseteq F
  <2> HIDE DEF F
  <2> QED
    BY <1>1, SubsetInduction
<1> QED
  BY <1>2

\* The sum of a set in terms of that of the set without the element the recursion chooses.
LEMMA SumChosen ==
  ASSUME NEW S, IsFiniteSet(S), NEW f, \A x \in S : f[x] \in Int
  PROVE  /\ SumFunctionOnSet(f, S) \in Int
         /\ S = {} => SumFunctionOnSet(f, S) = 0
         /\ S # {} => \E x \in S : SumFunctionOnSet(f, S) = f[x] + SumFunctionOnSet(f, S \ {x})
<1>1. PICK g \in [SUBSET S -> Int] : Sums(g, f, S) /\ SumFunctionOnSet(f, S) = g[S]
  BY SumDefined
<1>2. S = {} => g[S] = 0
  BY <1>1 DEF Sums
<1>3. ASSUME S # {} PROVE \E x \in S : g[S] = f[x] + SumFunctionOnSet(f, S \ {x})
  <2> DEFINE x == CHOOSE x \in S : TRUE
  <2>1. x \in S /\ S \in SUBSET S /\ S \ {x} \in SUBSET S
    BY <1>3
  <2>2. g[S] = f[x] + g[S \ {x}]
    BY <1>1, <1>3, <2>1 DEF Sums
  <2>3. IsFiniteSet(S \ {x})
    BY FS_RemoveElement
  <2> HIDE DEF x
  <2>4. PICK h \in [SUBSET (S \ {x}) -> Int] :
          Sums(h, f, S \ {x}) /\ SumFunctionOnSet(f, S \ {x}) = h[S \ {x}]
    BY <2>3, SumDefined
  <2>5. g[S \ {x}] = h[S \ {x}]
    BY <1>1, <2>1, <2>3, <2>4, SumUnique
  <2> QED
    BY <2>1, <2>2, <2>4, <2>5
<1> QED
  BY <1>1, <1>2, <1>3

\* A sum may be taken apart at any element: the order does not matter.
LEMMA SumElement ==
  ASSUME NEW S, IsFiniteSet(S), NEW f, \A x \in S : f[x] \in Int
  PROVE  \A x \in S : SumFunctionOnSet(f, S) = f[x] + SumFunctionOnSet(f, S \ {x})
<1> DEFINE Sum(T) == SumFunctionOnSet(f, T)
           F == {T \in SUBSET S : \A x \in T : Sum(T) = f[x] + Sum(T \ {x})}
<1>1. ASSUME NEW T \in SUBSET S, \A U \in SUBSET T : U # T => U \in F PROVE T \in F
  <2> SUFFICES ASSUME NEW x \in T PROVE Sum(T) = f[x] + Sum(T \ {x})
    OBVIOUS
  <2>1. \A U \in SUBSET S : IsFiniteSet(U) /\ \A y \in U : f[y] \in Int
    BY FS_Subset
  <2>2. \A U \in SUBSET S : Sum(U) \in Int
    BY <2>1, SumChosen
  <2>3. PICK c \in T : Sum(T) = f[c] + Sum(T \ {c})
    BY <2>1, SumChosen
  <2>4. CASE c # x
    <3> DEFINE U == T \ {c}
               W == T \ {x}
    <3>1. U \in F /\ W \in F /\ x \in U /\ c \in W
      BY <1>1, <2>4
    <3>2. U \ {x} = W \ {c}
      OBVIOUS
    <3>3. Sum(U) = f[x] + Sum(U \ {x}) /\ Sum(W) = f[c] + Sum(W \ {c})
      BY <3>1
    <3>4. Sum(U \ {x}) \in Int /\ f[x] \in Int /\ f[c] \in Int
      BY <2>1, <2>2
    <3> HIDE DEF Sum, U, W
    <3>5. Sum(U \ {x}) = Sum(W \ {c})
      BY <3>2
    <3>6. Sum(T) = f[c] + Sum(U) /\ Sum(T \ {x}) = Sum(W)
      BY <2>3 DEF U, W
    <3> QED
      BY <3>3, <3>4, <3>5, <3>6
  <2> QED
    BY <2>3, <2>4
<1>2. S \in F
  <2> HIDE DEF F
  <2> QED
    BY <1>1, SubsetInduction
<1> QED
  BY <1>2

\* The two cases of a sum, and its type.
LEMMA SumCases ==
  ASSUME NEW S, IsFiniteSet(S), NEW f, \A x \in S : f[x] \in Int
  PROVE  /\ SumFunctionOnSet(f, {}) = 0
         /\ \A T \in SUBSET S : /\ SumFunctionOnSet(f, T) \in Int
                                /\ \A x \in T : SumFunctionOnSet(f, T)
                                                  = f[x] + SumFunctionOnSet(f, T \ {x})
<1>1. \A T \in SUBSET S : IsFiniteSet(T) /\ \A x \in T : f[x] \in Int
  BY FS_Subset
<1> QED
  BY <1>1, SumChosen, SumElement

\* Larger summands, larger sum.
LEMMA SumMonotone ==
  ASSUME NEW S, IsFiniteSet(S), NEW f, NEW g,
         \A x \in S : f[x] \in Int /\ g[x] \in Int /\ f[x] <= g[x]
  PROVE  SumFunctionOnSet(f, S) <= SumFunctionOnSet(g, S)
<1> DEFINE F == {T \in SUBSET S : SumFunctionOnSet(f, T) <= SumFunctionOnSet(g, T)}
<1>1. {} \in F
  BY SumCases
<1>2. ASSUME NEW T \in SUBSET S, NEW x \in T, T \ {x} \in F PROVE T \in F
  <2>1. /\ SumFunctionOnSet(f, T) = f[x] + SumFunctionOnSet(f, T \ {x})
        /\ SumFunctionOnSet(g, T) = g[x] + SumFunctionOnSet(g, T \ {x})
    BY SumCases
  <2>2. /\ SumFunctionOnSet(f, T \ {x}) \in Int /\ SumFunctionOnSet(g, T \ {x}) \in Int
        /\ f[x] \in Int /\ g[x] \in Int /\ f[x] <= g[x]
    BY SumCases
  <2> QED
    BY <1>2, <2>1, <2>2
<1>3. S \in F
  <2> HIDE DEF F
  <2> QED
    BY <1>1, <1>2, ElementInduction
<1> QED
  BY <1>3

\* A sum whose summands are c times those of another is c times that sum.
LEMMA SumScaled ==
  ASSUME NEW S, IsFiniteSet(S), NEW c \in Int, NEW f, NEW g,
         \A x \in S : f[x] \in Int /\ g[x] = c * f[x]
  PROVE  SumFunctionOnSet(g, S) = c * SumFunctionOnSet(f, S)
<1> DEFINE F == {T \in SUBSET S : SumFunctionOnSet(g, T) = c * SumFunctionOnSet(f, T)}
<1>0. \A x \in S : g[x] \in Int
  OBVIOUS
<1>1. {} \in F
  BY <1>0, SumCases
<1>2. ASSUME NEW T \in SUBSET S, NEW x \in T, T \ {x} \in F PROVE T \in F
  <2>1. /\ SumFunctionOnSet(f, T) = f[x] + SumFunctionOnSet(f, T \ {x})
        /\ SumFunctionOnSet(g, T) = g[x] + SumFunctionOnSet(g, T \ {x})
    BY <1>0, SumCases
  <2>2. SumFunctionOnSet(f, T \ {x}) \in Int /\ f[x] \in Int /\ g[x] = c * f[x]
    BY SumCases
  <2>3. \A a, b \in Int : c * (a + b) = c * a + c * b
    OBVIOUS
  <2> QED
    BY <1>2, <2>1, <2>2, <2>3
<1>3. S \in F
  <2> HIDE DEF F
  <2> QED
    BY <1>1, <1>2, ElementInduction
<1> QED
  BY <1>3

\* The sum of a constant.
LEMMA SumConstant ==
  ASSUME NEW S, IsFiniteSet(S), NEW c \in Int, NEW f, \A x \in S : f[x] = c
  PROVE  SumFunctionOnSet(f, S) = c * Cardinality(S)
<1> DEFINE F == {T \in SUBSET S : SumFunctionOnSet(f, T) = c * Cardinality(T)}
<1>0. \A x \in S : f[x] \in Int
  OBVIOUS
<1>1. {} \in F
  BY <1>0, SumCases, FS_EmptySet
<1>2. ASSUME NEW T \in SUBSET S, NEW x \in T, T \ {x} \in F PROVE T \in F
  <2>1. SumFunctionOnSet(f, T) = c + SumFunctionOnSet(f, T \ {x})
    BY <1>0, SumCases
  <2>2. IsFiniteSet(T) /\ Cardinality(T) \in Nat
    BY FS_Subset, FS_CardinalityType
  <2>3. Cardinality(T \ {x}) = Cardinality(T) - 1
    BY <2>2, FS_RemoveElement
  <2>4. \A n \in Nat : c + c * (n - 1) = c * n
    OBVIOUS
  <2> QED
    BY <1>2, <2>1, <2>2, <2>3, <2>4
<1>3. S \in F
  <2> HIDE DEF F
  <2> QED
    BY <1>1, <1>2, ElementInduction
<1> QED
  BY <1>3

\* Equal summands, equal sums.
LEMMA SumSame ==
  ASSUME NEW S, IsFiniteSet(S), NEW f, NEW g, \A x \in S : f[x] \in Int /\ g[x] = f[x]
  PROVE  SumFunctionOnSet(g, S) = SumFunctionOnSet(f, S)
<1>1. SumFunctionOnSet(f, S) \in Int /\ SumFunctionOnSet(g, S) \in Int
  BY SumChosen
<1>2. \A x \in S : f[x] <= g[x] /\ g[x] <= f[x] /\ g[x] \in Int
  OBVIOUS
<1>3. SumFunctionOnSet(f, S) <= SumFunctionOnSet(g, S)
  BY <1>2, SumMonotone
<1>4. SumFunctionOnSet(g, S) <= SumFunctionOnSet(f, S)
  BY <1>2, SumMonotone
<1> QED
  BY <1>1, <1>3, <1>4

\* A sum of natural numbers is one, and no less than that of a part of them.
LEMMA SumPart ==
  ASSUME NEW S, IsFiniteSet(S), NEW f, \A x \in S : f[x] \in Nat, NEW T \in SUBSET S
  PROVE  /\ SumFunctionOnSet(f, T) \in Nat /\ SumFunctionOnSet(f, S) \in Nat
         /\ SumFunctionOnSet(f, T) <= SumFunctionOnSet(f, S)
<1> DEFINE Sum(U) == SumFunctionOnSet(f, U)
           F == {U \in SUBSET S : /\ Sum(T \cap U) \in Nat /\ Sum(U) \in Nat
                                  /\ Sum(T \cap U) <= Sum(U)}
<1>0. \A x \in S : f[x] \in Int
  OBVIOUS
<1>1. {} \in F
  <2>1. Sum({}) = 0 /\ T \cap {} = {}
    BY <1>0, SumCases
  <2> QED
    BY <2>1
<1>2. ASSUME NEW U \in SUBSET S, NEW x \in U, U \ {x} \in F PROVE U \in F
  <2> DEFINE V == U \ {x}
  <2>1. /\ Sum(T \cap V) \in Nat /\ Sum(V) \in Nat /\ Sum(T \cap V) <= Sum(V)
        /\ f[x] \in Nat
    BY <1>2
  <2>2. Sum(U) = f[x] + Sum(V)
    BY <1>0, SumCases
  <2>3. CASE x \in T
    <3>1. (T \cap U) \ {x} = T \cap V /\ T \cap U \in SUBSET S /\ x \in T \cap U
      BY <2>3
    <3> HIDE DEF V
    <3>2. Sum(T \cap U) = f[x] + Sum((T \cap U) \ {x})
      BY <1>0, <3>1, SumCases
    <3> HIDE DEF Sum
    <3>3. Sum((T \cap U) \ {x}) = Sum(T \cap V)
      BY ONLY <3>1, Zenon
    <3> QED
      BY <2>1, <2>2, <3>2, <3>3
  <2>4. CASE x \notin T
    <3>1. T \cap U = T \cap V
      BY <2>4
    <3> HIDE DEF V, Sum
    <3>2. Sum(T \cap U) = Sum(T \cap V)
      BY ONLY <3>1, Zenon
    <3> QED
      BY <2>1, <2>2, <3>2
  <2> QED
    BY <2>3, <2>4
<1>3. S \in F
  <2> HIDE DEF F
  <2> QED
    BY <1>1, <1>2, ElementInduction
<1>4. T \cap S = T
  OBVIOUS
<1>5. Sum(T \cap S) = Sum(T)
  <2> HIDE DEF Sum
  <2> QED
    BY ONLY <1>4, Zenon
<1> QED
  BY <1>3, <1>5

\* What is left out of the part counts in full.
LEMMA SumLeftOut ==
  ASSUME NEW S, IsFiniteSet(S), NEW f, \A x \in S : f[x] \in Nat,
         NEW T \in SUBSET S, NEW x \in S \ T
  PROVE  SumFunctionOnSet(f, T) + f[x] <= SumFunctionOnSet(f, S)
<1>1. SumFunctionOnSet(f, S) = f[x] + SumFunctionOnSet(f, S \ {x})
  BY SumElement
<1>2. T \in SUBSET (S \ {x}) /\ IsFiniteSet(S \ {x})
  BY FS_RemoveElement
<1>3. /\ SumFunctionOnSet(f, T) \in Nat /\ SumFunctionOnSet(f, S \ {x}) \in Nat
      /\ SumFunctionOnSet(f, T) <= SumFunctionOnSet(f, S \ {x})
  BY <1>2, SumPart
<1> QED
  BY <1>1, <1>3

\* Summands that are zero may be left out.
LEMMA SumOfNonzero ==
  ASSUME NEW S, IsFiniteSet(S), NEW f, \A x \in S : f[x] \in Int,
         NEW T \in SUBSET S, \A x \in S \ T : f[x] = 0
  PROVE  SumFunctionOnSet(f, T) = SumFunctionOnSet(f, S)
<1> DEFINE Sum(U) == SumFunctionOnSet(f, U)
           F == {U \in SUBSET S : Sum(T \cap U) = Sum(U)}
<1>1. {} \in F
  <2>1. T \cap {} = {}
    OBVIOUS
  <2> HIDE DEF Sum
  <2>2. Sum(T \cap {}) = Sum({})
    BY ONLY <2>1, Zenon
  <2> QED
    BY <2>2
<1>2. ASSUME NEW U \in SUBSET S, NEW x \in U, U \ {x} \in F PROVE U \in F
  <2>1. Sum(U) = f[x] + Sum(U \ {x}) /\ Sum(U \ {x}) \in Int
    BY SumCases
  <2>2. Sum(T \cap (U \ {x})) = Sum(U \ {x})
    BY <1>2
  <2>3. CASE x \in T
    <3>1. (T \cap U) \ {x} = T \cap (U \ {x}) /\ T \cap U \in SUBSET S /\ x \in T \cap U
      BY <2>3
    <3>2. Sum(T \cap U) = f[x] + Sum((T \cap U) \ {x})
      BY <3>1, SumCases
    <3> HIDE DEF Sum
    <3>3. Sum((T \cap U) \ {x}) = Sum(T \cap (U \ {x}))
      BY ONLY <3>1, Zenon
    <3>4. Sum(T \cap U) = Sum(U)
      BY ONLY <2>1, <2>2, <3>2, <3>3, Zenon
    <3> QED
      BY <3>4
  <2>4. CASE x \notin T
    <3>1. T \cap U = T \cap (U \ {x})
      BY <2>4
    <3>2. f[x] = 0
      BY <2>4
    <3> HIDE DEF Sum
    <3>3. Sum(T \cap U) = Sum(T \cap (U \ {x}))
      BY ONLY <3>1, Zenon
    <3>4. Sum(U) = Sum(U \ {x})
      BY <2>1, <3>2
    <3>5. Sum(T \cap U) = Sum(U)
      BY ONLY <2>2, <3>3, <3>4, Zenon
    <3> QED
      BY <3>5
  <2> QED
    BY <2>3, <2>4
<1>3. S \in F
  <2> HIDE DEF F
  <2> QED
    BY <1>1, <1>2, ElementInduction
<1>4. T \cap S = T
  OBVIOUS
<1>5. Sum(T \cap S) = Sum(T)
  <2> HIDE DEF Sum
  <2> QED
    BY ONLY <1>4, Zenon
<1>6. Sum(T \cap S) = Sum(S)
  BY <1>3
<1> QED
  BY <1>5, <1>6

\* A sum is within the bounds of its summands, times their number; strictly, if they are.
LEMMA SumBetween ==
  ASSUME NEW S, IsFiniteSet(S), S # {}, NEW f, \A x \in S : f[x] \in Int, NEW b \in Int
  PROVE  /\ SumFunctionOnSet(f, S) \in Int
         /\ (\A x \in S : f[x] >= b) => SumFunctionOnSet(f, S) >= Cardinality(S) * b
         /\ (\A x \in S : f[x] <= b) => SumFunctionOnSet(f, S) <= Cardinality(S) * b
         /\ (\A x \in S : f[x] < b) => SumFunctionOnSet(f, S) < Cardinality(S) * b
         /\ (\A x \in S : f[x] > b) => SumFunctionOnSet(f, S) > Cardinality(S) * b
<1> DEFINE flat(c) == [x \in S |-> c]
           N == Cardinality(S)
<1>1. N \in Nat /\ N > 0 /\ SumFunctionOnSet(f, S) \in Int
  <2>1. Cardinality(S) \in Nat /\ Cardinality(S) # 0
    BY FS_CardinalityType, FS_EmptySet
  <2> QED
    BY <2>1, SumChosen
<1>2. ASSUME NEW c \in Int PROVE SumFunctionOnSet(flat(c), S) = c * N
  <2>1. \A x \in S : flat(c)[x] = c
    OBVIOUS
  <2> HIDE DEF flat
  <2> QED
    BY <2>1, SumConstant
<1>3. ASSUME NEW c \in Int, \A x \in S : f[x] >= c PROVE SumFunctionOnSet(f, S) >= c * N
  <2>1. \A x \in S : flat(c)[x] \in Int /\ flat(c)[x] <= f[x]
    BY <1>3
  <2> HIDE DEF flat
  <2>2. SumFunctionOnSet(flat(c), S) <= SumFunctionOnSet(f, S)
    BY <2>1, SumMonotone
  <2>3. SumFunctionOnSet(flat(c), S) = c * N
    BY <1>2
  <2> QED
    BY <1>1, <2>2, <2>3
<1>4. ASSUME NEW c \in Int, \A x \in S : f[x] <= c PROVE SumFunctionOnSet(f, S) <= c * N
  <2>1. \A x \in S : flat(c)[x] \in Int /\ f[x] <= flat(c)[x]
    BY <1>4
  <2> HIDE DEF flat
  <2>2. SumFunctionOnSet(f, S) <= SumFunctionOnSet(flat(c), S)
    BY <2>1, SumMonotone
  <2>3. SumFunctionOnSet(flat(c), S) = c * N
    BY <1>2
  <2> QED
    BY <1>1, <2>2, <2>3
<1> HIDE DEF N
<1>5. /\ b * N = N * b /\ N * b \in Int
      /\ (b - 1) * N = N * b - N /\ (b + 1) * N = N * b + N
  BY <1>1
<1>6. (\A x \in S : f[x] < b) => SumFunctionOnSet(f, S) < N * b
  <2> SUFFICES ASSUME \A x \in S : f[x] < b PROVE SumFunctionOnSet(f, S) < N * b
    OBVIOUS
  <2>1. b - 1 \in Int /\ \A x \in S : f[x] <= b - 1
    OBVIOUS
  <2>2. SumFunctionOnSet(f, S) <= (b - 1) * N
    BY <1>4, <2>1
  <2> QED
    BY <1>1, <1>5, <2>2
<1>7. (\A x \in S : f[x] > b) => SumFunctionOnSet(f, S) > N * b
  <2> SUFFICES ASSUME \A x \in S : f[x] > b PROVE SumFunctionOnSet(f, S) > N * b
    OBVIOUS
  <2>1. b + 1 \in Int /\ \A x \in S : f[x] >= b + 1
    OBVIOUS
  <2>2. SumFunctionOnSet(f, S) >= (b + 1) * N
    BY <1>3, <2>1
  <2> QED
    BY <1>1, <1>5, <2>2
<1> QED
  BY <1>1, <1>3, <1>4, <1>5, <1>6, <1>7 DEF N
=============================================================================
