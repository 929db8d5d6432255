------------------------- MODULE StrategyHitsProofs -------------------------
(***************************************************************************)
(* Proofs about StrategyHits: what a cell may hold (Types), that windows     *)
(* (Windows) and buckets (Buckets) admit no more than they promise, for any *)
(* rates, costs, number of requests, delays and interleavings.              *)
(*                                                                         *)
(* After lemmas on sums and numbers there is one lemma for each strategy's  *)
(* hit, of what it leaves in the cell.  The invariants over all requests    *)
(* are Inductive, Charged (buckets), Recalled (logs), Tallied (fixed        *)
(* windows) and Kept (all strategies that count per aligned window); the    *)
(* last four relate what the cell holds to the cost of what was admitted.   *)
(***************************************************************************)
EXTENDS StrategyHits, TLAPS, FiniteSetTheorems, SequenceTheorems, WellFoundedInduction

(* Induction.  A set of numbers has a least one, and so a set of finite sets has
   one from which no element can be taken. *)

\* A set of natural numbers that is not empty has a least one.
LEMMA LeastNumber ==
  ASSUME NEW T \in SUBSET Nat, T # {}
  PROVE  \E n \in T : \A m \in T : n <= m
<1> DEFINE R == OpToRel(<, Nat)
<1>1. \E n \in T : \A m \in T : ~ (<<m, n>> \in R)
  <2>1. IsWellFoundedOn(R, Nat)
    BY NatLessThanWellFounded
  <2> HIDE DEF R
  <2> QED
    BY <2>1, WFMin
<1>2. \A m, n \in Nat : <<m, n>> \in R <=> m < n
  BY DEF OpToRel
<1> HIDE DEF R
<1>3. PICK n \in T : \A m \in T : ~ (<<m, n>> \in R)
  BY <1>1
<1>4. \A m \in T : ~ (m < n)
  BY <1>2, <1>3
<1> QED
  BY <1>4

\* Among subsets of a finite set there is one that is minimal by removal of
\* elements.
LEMMA MinimalSet ==
  ASSUME NEW S, IsFiniteSet(S), NEW B \in SUBSET SUBSET S, B # {}
  PROVE  \E T \in B : \A x \in T : T \ {x} \notin B
<1> DEFINE N == {Cardinality(T) : T \in B}
<1>1. \A T \in B : IsFiniteSet(T) /\ Cardinality(T) \in Nat
  BY FS_Subset, FS_CardinalityType
<1>2. N \in SUBSET Nat /\ N # {}
  BY <1>1
<1>3. PICK T \in B : \A U \in B : Cardinality(T) <= Cardinality(U)
  <2>1. PICK n \in N : \A m \in N : n <= m
    BY <1>2, LeastNumber
  <2> QED
    BY <2>1
<1>4. \A x \in T : Cardinality(T \ {x}) = Cardinality(T) - 1
  BY <1>1, FS_RemoveElement
<1> QED
  BY <1>1, <1>3, <1>4

----------------------------------------------------------------------------
(* Total, the sum of a function's values. *)

\* g is the function FoldFunction recurses with, when it sums f over sets of
\* arguments.
Sums(f, g) ==
  g = [s \in SUBSET DOMAIN f |->
         IF s = {} THEN 0 ELSE LET x == CHOOSE y \in s : TRUE IN f[x] + g[s \ {x}]]

\* Total is that function's value at the whole domain.
LEMMA TotalIsSum ==
  ASSUME NEW f
  PROVE  Total(f) = (CHOOSE g : Sums(f, g))[DOMAIN f]
BY DEF Total, FoldFunction, FoldFunctionOnSet, MapThenFoldSet, Sums

\* It exists: the recursion is well founded, as removing an element shrinks a finite
\* set.
LEMMA SumsExist ==
  ASSUME NEW f, IsFiniteSet(DOMAIN f)
  PROVE  \E g : Sums(f, g)
<1> DEFINE D == DOMAIN f
           Upto(g, n) ==
             \A s \in SUBSET D : Cardinality(s) <= n =>
               g[s] = IF s = {} THEN 0 ELSE LET x == CHOOSE y \in s : TRUE IN f[x] + g[s \ {x}]
           Bad == {n \in Nat : ~ \E g : Upto(g, n)}
<1>1. \A s \in SUBSET D : IsFiniteSet(s) /\ Cardinality(s) \in Nat /\ Cardinality(s) <= Cardinality(D)
  BY FS_Subset, FS_CardinalityType
<1>2. \A s \in SUBSET D, x \in D : x \in s => Cardinality(s \ {x}) = Cardinality(s) - 1
  BY <1>1, FS_RemoveElement
<1>3. 0 \notin Bad
  <2> DEFINE g == [s \in SUBSET D |-> 0]
  <2>1. \A s \in SUBSET D : Cardinality(s) <= 0 => s = {}
    BY <1>1, FS_EmptySet
  <2>2. Upto(g, 0)
    BY <2>1
  <2> QED
    BY <2>2
<1>4. ASSUME NEW n \in Nat, NEW g, Upto(g, n)
      PROVE  \E h : Upto(h, n + 1)
  <2> DEFINE h == [s \in SUBSET D |->
                     IF s = {} THEN 0 ELSE LET x == CHOOSE y \in s : TRUE IN f[x] + g[s \ {x}]]
  <2>1. \A s \in SUBSET D : Cardinality(s) <= n => h[s] = g[s]
    BY <1>4
  <2>2. ASSUME NEW s \in SUBSET D, Cardinality(s) <= n + 1, s # {}
        PROVE  h[s] = LET x == CHOOSE y \in s : TRUE IN f[x] + h[s \ {x}]
    <3> DEFINE x == CHOOSE y \in s : TRUE
    <3>1. x \in s
      BY <2>2
    <3> HIDE DEF x
    <3>2. s \ {x} \in SUBSET D
      OBVIOUS
    <3>3. Cardinality(s \ {x}) = Cardinality(s) - 1 /\ Cardinality(s) \in Nat
      BY <1>1, <1>2, <3>1
    <3>4. Cardinality(s \ {x}) <= n
      BY <2>2, <3>3
    <3>5. h[s \ {x}] = g[s \ {x}]
      BY <2>1, <3>2, <3>4
    <3>6. h[s] = f[x] + g[s \ {x}]
      BY <2>2 DEF x
    <3> QED
      BY <3>5, <3>6 DEF x
  <2>3. Upto(h, n + 1)
    BY <2>2
  <2> QED
    BY <2>3
<1>5. Bad = {}
  <2> SUFFICES ASSUME Bad # {} PROVE FALSE
    OBVIOUS
  <2>1. PICK n \in Bad : \A m \in Bad : n <= m
    BY LeastNumber
  <2>2. n - 1 \in Nat /\ n - 1 \notin Bad
    <3> HIDE DEF Upto
    <3>1. n \in Nat /\ n # 0
      BY <1>3
    <3>2. n - 1 \in Nat /\ ~ (n <= n - 1)
      BY <3>1
    <3> QED
      BY <2>1, <3>2
  <2>3. PICK g : Upto(g, n - 1)
    BY <2>2
  <2>4. (n - 1) + 1 = n
    BY <2>1
  <2> HIDE DEF Upto
  <2> QED
    BY <1>4, <2>1, <2>2, <2>3, <2>4
<1>6. Cardinality(D) \in Nat
  BY FS_CardinalityType
<1>7. \E g : Upto(g, Cardinality(D))
  <2> HIDE DEF Upto
  <2> QED
    BY <1>5, <1>6
<1> PICK g : Upto(g, Cardinality(D))
  BY <1>7
<1>8. Sums(f, [s \in SUBSET D |-> g[s]])
  BY <1>1 DEF Sums
<1> QED
  BY <1>8

\* Which element is taken first does not matter.
LEMMA SumsAny ==
  ASSUME NEW S, IsFiniteSet(S), NEW f \in [S -> Int], NEW g, Sums(f, g)
  PROVE  /\ g[{}] = 0
         /\ \A T \in SUBSET S : g[T] \in Int /\ \A x \in T : g[T] = f[x] + g[T \ {x}]
<1>1. g[{}] = 0
  BY DEF Sums
<1>2. ASSUME NEW T \in SUBSET S, T # {}
      PROVE  \E c \in T : g[T] = f[c] + g[T \ {c}]
  <2> DEFINE c == CHOOSE y \in T : TRUE
  <2>1. g[T] = f[c] + g[T \ {c}]
    BY <1>2 DEF Sums
  <2>2. c \in T
    BY <1>2
  <2> QED
    BY <2>1, <2>2
<1>3. \A T \in SUBSET S : g[T] \in Int
  <2> DEFINE Bad == {T \in SUBSET S : g[T] \notin Int}
  <2> SUFFICES ASSUME Bad # {} PROVE FALSE
    OBVIOUS
  <2>1. PICK T \in Bad : \A x \in T : T \ {x} \notin Bad
    BY MinimalSet
  <2>2. T # {}
    BY <1>1
  <2>3. PICK c \in T : g[T] = f[c] + g[T \ {c}]
    BY <1>2, <2>2
  <2>4. g[T \ {c}] \in Int /\ f[c] \in Int
    BY <2>1
  <2> QED
    BY <2>3, <2>4
<1>4. \A T \in SUBSET S : \A x \in T : g[T] = f[x] + g[T \ {x}]
  <2> DEFINE P(T) == \A x \in T : g[T] = f[x] + g[T \ {x}]
             Bad == {T \in SUBSET S : ~ P(T)}
  <2> SUFFICES ASSUME Bad # {} PROVE FALSE
    OBVIOUS
  <2>1. PICK T \in Bad : \A x \in T : T \ {x} \notin Bad
    BY MinimalSet
  <2>2. T \in SUBSET S /\ T # {} /\ ~ P(T)
    OBVIOUS
  <2>3. PICK c \in T : g[T] = f[c] + g[T \ {c}]
    BY <1>2, <2>2
  <2>4. \A x \in T : P(T \ {x})
    BY <2>1, <2>2
  <2>5. ASSUME NEW x \in T, x # c PROVE g[T] = f[x] + g[T \ {x}]
    <3> DEFINE U == (T \ {c}) \ {x}
    <3>1. g[T \ {c}] = f[x] + g[U]
      BY <2>4, <2>5
    <3>2. g[T \ {x}] = f[c] + g[U]
      <4>1. (T \ {x}) \ {c} = U
        OBVIOUS
      <4>2. g[T \ {x}] = f[c] + g[(T \ {x}) \ {c}]
        BY <2>4, <2>5
      <4> QED
        BY <4>1, <4>2
    <3>3. g[U] \in Int /\ f[x] \in Int /\ f[c] \in Int
      BY <1>3, <2>2
    <3> HIDE DEF U
    <3> QED
      BY <2>3, <3>1, <3>2, <3>3
  <2> QED
    BY <2>2, <2>3, <2>5
<1> QED
  BY <1>1, <1>3, <1>4

\* What a sum adds up is all there is to it.
LEMMA SumsAgree ==
  ASSUME NEW f, NEW g, Sums(f, g), NEW h, NEW k, Sums(h, k),
         NEW S, IsFiniteSet(S), S \subseteq DOMAIN f, S \subseteq DOMAIN h, \A x \in S : f[x] = h[x]
  PROVE  g[S] = k[S]
<1> DEFINE Bad == {T \in SUBSET S : g[T] # k[T]}
<1> SUFFICES ASSUME Bad # {} PROVE FALSE
  OBVIOUS
<1>1. PICK T \in Bad : \A x \in T : T \ {x} \notin Bad
  BY MinimalSet
<1>2. T \in SUBSET S /\ T \in SUBSET DOMAIN f /\ T \in SUBSET DOMAIN h
  OBVIOUS
<1>3. T # {}
  BY <1>2 DEF Sums
<1> DEFINE c == CHOOSE y \in T : TRUE
<1>4. g[T] = f[c] + g[T \ {c}] /\ k[T] = h[c] + k[T \ {c}]
  BY <1>2, <1>3 DEF Sums
<1>5. c \in T
  BY <1>3
<1> HIDE DEF c
<1>6. g[T \ {c}] = k[T \ {c}] /\ f[c] = h[c]
  BY <1>1, <1>2, <1>5
<1> QED
  BY <1>4, <1>6

\* So Total(f), which chooses one, is the value of one.
LEMMA TotalSums ==
  ASSUME NEW f, IsFiniteSet(DOMAIN f)
  PROVE  \E g : Sums(f, g) /\ Total(f) = g[DOMAIN f]
BY SumsExist, TotalIsSum

\* An empty sum is 0.
LEMMA TotalEmpty ==
  ASSUME NEW f, DOMAIN f = {}
  PROVE  Total(f) = 0
<1>1. IsFiniteSet(DOMAIN f)
  BY FS_EmptySet
<1>2. PICK g : Sums(f, g) /\ Total(f) = g[DOMAIN f]
  BY <1>1, TotalSums
<1> QED
  BY <1>2 DEF Sums

\* A sum over one more argument is the sum without it and that argument's value.
LEMMA TotalAdd ==
  ASSUME NEW S, IsFiniteSet(S), NEW x, x \notin S, NEW f \in [S \cup {x} -> Int]
  PROVE  /\ Total(f) \in Int
         /\ Total([s \in S |-> f[s]]) \in Int
         /\ Total(f) = f[x] + Total([s \in S |-> f[s]])
<1> DEFINE h == [s \in S |-> f[s]]
           U == S \cup {x}
<1>1. IsFiniteSet(U) /\ DOMAIN f = U /\ DOMAIN h = S /\ h \in [S -> Int]
  BY FS_AddElement
<1>2. PICK g : Sums(f, g) /\ Total(f) = g[U]
  BY <1>1, TotalSums
<1>3. PICK k : Sums(h, k) /\ Total(h) = k[S]
  BY <1>1, TotalSums
<1>4. g[U] \in Int /\ g[U] = f[x] + g[U \ {x}]
  BY <1>1, <1>2, SumsAny
<1>5. k[S] \in Int
  BY <1>1, <1>3, SumsAny
<1>6. U \ {x} = S /\ S \subseteq U
  OBVIOUS
<1>7. \A s \in S : f[s] = h[s]
  OBVIOUS
<1> HIDE DEF h, U
<1>8. g[S] = k[S]
  BY <1>1, <1>2, <1>3, <1>6, <1>7, SumsAgree
<1> QED
  BY <1>2, <1>3, <1>4, <1>5, <1>6, <1>8 DEF h

\* A sum of integers is an integer.
LEMMA TotalType ==
  ASSUME NEW S, IsFiniteSet(S), NEW f \in [S -> Int]
  PROVE  Total(f) \in Int
<1>1. PICK g : Sums(f, g) /\ Total(f) = g[S]
  BY TotalSums
<1> QED
  BY <1>1, SumsAny

\* Every part of a sum is a sum, and the whole is no less.
LEMMA TotalParts ==
  ASSUME NEW S, IsFiniteSet(S), NEW f \in [S -> Nat]
  PROVE  \A T \in SUBSET S :
           /\ Total([s \in T |-> f[s]]) \in Nat
           /\ \A U \in SUBSET T : Total([s \in U |-> f[s]]) <= Total([s \in T |-> f[s]])
<1>1. PICK g : Sums(f, g) /\ Total(f) = g[S]
  BY TotalSums
<1>2. g[{}] = 0 /\ \A T \in SUBSET S : g[T] \in Int /\ \A x \in T : g[T] = f[x] + g[T \ {x}]
  BY <1>1, SumsAny
<1>3. ASSUME NEW T \in SUBSET S PROVE Total([s \in T |-> f[s]]) = g[T]
  <2> DEFINE h == [s \in T |-> f[s]]
  <2>1. IsFiniteSet(T) /\ DOMAIN h = T /\ \A s \in T : h[s] = f[s]
    BY FS_Subset
  <2>2. PICK k : Sums(h, k) /\ Total(h) = k[T]
    BY <2>1, TotalSums
  <2> HIDE DEF h
  <2>3. k[T] = g[T]
    BY <1>1, <2>1, <2>2, SumsAgree
  <2> QED
    BY <2>2, <2>3 DEF h
<1>4. \A T \in SUBSET S : g[T] \in Nat
  <2> DEFINE Bad == {T \in SUBSET S : g[T] \notin Nat}
  <2> SUFFICES ASSUME Bad # {} PROVE FALSE
    OBVIOUS
  <2>1. PICK T \in Bad : \A x \in T : T \ {x} \notin Bad
    BY MinimalSet
  <2>2. T \in SUBSET S /\ g[T] \notin Nat
    OBVIOUS
  <2>3. T # {}
    <3>1. g[{}] \in Nat
      BY <1>2
    <3> QED
      BY <2>2, <3>1
  <2>4. PICK x \in T : TRUE
    BY <2>3
  <2>5. g[T \ {x}] \in Nat /\ f[x] \in Nat
    BY <2>1, <2>2
  <2>6. g[T] = f[x] + g[T \ {x}]
    BY <1>2, <2>2
  <2> HIDE DEF Bad
  <2> QED
    BY <2>2, <2>5, <2>6
<1>5. \A T \in SUBSET S : \A U \in SUBSET T : g[U] <= g[T]
  <2> DEFINE P(T) == \A U \in SUBSET T : g[U] <= g[T]
             Bad == {T \in SUBSET S : ~ P(T)}
  <2> SUFFICES ASSUME Bad # {} PROVE FALSE
    OBVIOUS
  <2>1. PICK T \in Bad : \A x \in T : T \ {x} \notin Bad
    <3>1. Bad \in SUBSET SUBSET S
      OBVIOUS
    <3> HIDE DEF Bad
    <3> QED
      BY <3>1, MinimalSet
  <2>2. PICK U \in SUBSET T : ~ (g[U] <= g[T])
    OBVIOUS
  <2>3. U # T
    BY <1>2, <2>2
  <2>4. PICK x \in T \ U : TRUE
    BY <2>3
  <2>5. U \in SUBSET (T \ {x}) /\ T \ {x} \in SUBSET S
    BY <2>4
  <2>6. g[U] <= g[T \ {x}]
    BY <2>1, <2>4, <2>5
  <2>7. g[T] = f[x] + g[T \ {x}] /\ f[x] \in Nat
    BY <1>2, <2>4
  <2>8. g[U] \in Nat /\ g[T] \in Nat /\ g[T \ {x}] \in Nat
    BY <1>4, <2>5
  <2> QED
    BY <2>2, <2>6, <2>7, <2>8
<1> QED
  BY <1>3, <1>4, <1>5, FS_Subset

\* If no part of it is nothing, a sum is at least the number of its parts.
LEMMA TotalSize ==
  ASSUME NEW S, IsFiniteSet(S), NEW f \in [S -> Nat \ {0}]
  PROVE  Cardinality(S) <= Total(f)
<1>1. PICK g : Sums(f, g) /\ Total(f) = g[S]
  BY TotalSums
<1>2. f \in [S -> Int]
  OBVIOUS
<1>3. g[{}] = 0 /\ \A T \in SUBSET S : g[T] \in Int /\ \A x \in T : g[T] = f[x] + g[T \ {x}]
  BY <1>1, <1>2, SumsAny
<1> DEFINE Bad == {T \in SUBSET S : ~ (Cardinality(T) <= g[T])}
<1>4. Bad = {}
  <2> SUFFICES ASSUME Bad # {} PROVE FALSE
    OBVIOUS
  <2>1. PICK T \in Bad : \A x \in T : T \ {x} \notin Bad
    BY MinimalSet
  <2>2. IsFiniteSet(T) /\ Cardinality(T) \in Nat
    BY FS_Subset, FS_CardinalityType
  <2>3. T # {}
    <3>1. Cardinality({}) = 0
      BY FS_EmptySet
    <3>2. ~ (Cardinality(T) <= g[T])
      OBVIOUS
    <3>3. Cardinality({}) <= g[{}]
      BY <1>3, <3>1
    <3> HIDE DEF Bad
    <3> QED
      BY <3>2, <3>3
  <2>4. PICK x \in T : TRUE
    BY <2>3
  <2>5. Cardinality(T \ {x}) = Cardinality(T) - 1
    BY <2>2, FS_RemoveElement
  <2>6. Cardinality(T \ {x}) <= g[T \ {x}]
    BY <2>1, <2>4
  <2>7. g[T] = f[x] + g[T \ {x}] /\ f[x] \in Nat \ {0} /\ g[T \ {x}] \in Int /\ g[T] \in Int
    BY <1>3
  <2>8. ~ (Cardinality(T) <= g[T])
    OBVIOUS
  <2> QED
    BY <2>2, <2>5, <2>6, <2>7, <2>8
<1> QED
  BY <1>1, <1>4

----------------------------------------------------------------------------
(* Numbers. *)

\* What the rounded quotient leaves over is less than the divisor.
LEMMA DivBounds ==
  ASSUME NEW n \in Int, NEW d \in Nat \ {0}
  PROVE  n \div d \in Int /\ d * (n \div d) <= n /\ n < d * (n \div d) + d
OBVIOUS

\* A remainder is less than the divisor, and makes up for the rounding of the
\* quotient.
LEMMA ModBounds ==
  ASSUME NEW n \in Int, NEW d \in Nat \ {0}
  PROVE  n % d \in 0 .. d - 1 /\ n = d * (n \div d) + (n % d)
OBVIOUS

\* The product of natural numbers is one.
LEMMA ProductIsNat ==
  ASSUME NEW a \in Nat, NEW b \in Nat
  PROVE  a * b \in Nat
OBVIOUS

\* The quotient of natural numbers is one.
LEMMA DivIsNat ==
  ASSUME NEW n \in Nat, NEW d \in Nat \ {0}
  PROVE  n \div d \in Nat
OBVIOUS

\* A product with a natural number is monotonic.
LEMMA ProductGrows ==
  ASSUME NEW l \in Nat, NEW x \in Int, NEW y \in Int, x <= y
  PROVE  l * x \in Int /\ l * y \in Int /\ l * x <= l * y
OBVIOUS

\* Multiplication distributes over sums and differences.
LEMMA ProductSplits ==
  ASSUME NEW l \in Int, NEW x \in Int, NEW y \in Int
  PROVE  l * x \in Int /\ l * y \in Int /\ l * (x + y) = l * x + l * y /\ l * (x - y) = l * x - l * y
OBVIOUS

\* A wait that is rounded up is never 0, the value that would say "allowed".
LEMMA CeilDivPositive ==
  ASSUME NEW n \in Nat \ {0}, NEW d \in Nat \ {0}
  PROVE  CeilDiv(n, d) \in Nat \ {0}
<1> DEFINE q == (n + d - 1) \div d
<1>1. q \in Int /\ n + d - 1 < d * q + d
  BY DivBounds
<1> HIDE DEF q
<1>2. q > 0
  <2> SUFFICES ASSUME q <= 0 PROVE FALSE
    BY <1>1
  <2>1. d * q <= d * 0 /\ d * q \in Int
    BY <1>1, ProductGrows
  <2> QED
    BY <1>1, <2>1
<1> QED
  BY <1>1, <1>2 DEF CeilDiv, q

\* A part of a hundred.
LEMMA Percentage ==
  ASSUME NEW n \in Nat, NEW p \in 0 .. 100
  PROVE  (n * p) \div 100 \in 0 .. n
<1>1. n * p \in Nat /\ n * p <= n * 100
  BY ProductGrows, ProductIsNat
<1> DEFINE m == n * p
<1>2. m \in Nat /\ m <= n * 100
  BY <1>1
<1> HIDE DEF m
<1>3. m \div 100 \in 0 .. n
  BY <1>2
<1> QED
  BY <1>3 DEF m

\* A finite set of integers that is not empty has a greatest one.
LEMMA MaxOfInts ==
  ASSUME NEW S \in SUBSET Int, IsFiniteSet(S), S # {}
  PROVE  Max(S) \in S /\ \A x \in S : x <= Max(S)
<1> DEFINE Has(T) == T # {} => \E m \in T : \A x \in T : x <= m
           Bad == {T \in SUBSET S : ~ Has(T)}
<1>1. Bad = {}
  <2> SUFFICES ASSUME Bad # {} PROVE FALSE
    OBVIOUS
  <2>1. PICK T \in Bad : \A x \in T : T \ {x} \notin Bad
    <3>1. Bad \in SUBSET SUBSET S
      OBVIOUS
    <3> HIDE DEF Bad
    <3> QED
      BY <3>1, MinimalSet
  <2>2. T \in SUBSET S /\ ~ Has(T) /\ T # {}
    OBVIOUS
  <2>3. PICK y \in T : TRUE
    BY <2>2
  <2>4. Has(T \ {y})
    BY <2>1, <2>2
  <2>5. T \ {y} # {}
    <3> SUFFICES ASSUME T \ {y} = {} PROVE FALSE
      OBVIOUS
    <3>1. \A x \in T : x = y
      OBVIOUS
    <3>2. y \in Int
      BY <2>2
    <3> QED
      BY <2>2, <3>1, <3>2
  <2>6. PICK m \in T \ {y} : \A x \in T \ {y} : x <= m
    BY <2>4, <2>5
  <2>7. y \in Int /\ m \in Int /\ T \subseteq Int
    BY <2>2
  <2>8. CASE y <= m
    BY <2>2, <2>6, <2>8
  <2>9. CASE m <= y
    <3>1. \A x \in T : x <= y
      BY <2>6, <2>7, <2>9
    <3> QED
      BY <2>2, <3>1
  <2> QED
    BY <2>7, <2>8, <2>9
<1>2. \E m \in S : \A x \in S : x <= m
  BY <1>1
<1> QED
  BY <1>2 DEF Max

\* A finite set of numbers that is not empty has a greatest one.
LEMMA MaxOfCosts ==
  ASSUME NEW S \in SUBSET Nat, IsFiniteSet(S), S # {}
  PROVE  Max(S) \in S /\ \A x \in S : x <= Max(S)
<1>1. S \in SUBSET Int
  OBVIOUS
<1> QED
  BY <1>1, MaxOfInts

----------------------------------------------------------------------------
(* What the strategies store. *)

\* What the assumption says of a rate.
RateOK(r) ==
  /\ r.limit \in Nat \ {0} /\ r.period \in Nat \ {0} /\ r.capacity \in Nat /\ r.debt \in Nat
  /\ StrategyFields(r)

\* The TTLs the strategies store with.
TTLs(r) == {FixedWindowTTL(r), LogTTL(r), BucketTTL(r)}

\* What is stored is alive when it is stored.
LEMMA TTLsPositive ==
  ASSUME NEW r, RateOK(r)
  PROVE  TTLs(r) \subseteq Nat \ {0}
<1>1. \A n \in Nat : Seconds(n) \in Nat
  BY SecondAssumption, DivIsNat DEF Seconds
<1>2. \A n \in Nat \ {0} : n * Second \in Nat \ {0}
  BY SecondAssumption
<1>3. \A n \in Nat, m \in Nat \ {0} : AtLeast(n, m) \in Nat \ {0}
  BY DEF AtLeast
<1>4. r.period \in Nat /\ 2 * r.period \in Nat
  BY DEF RateOK
<1>5. AtLeast(Seconds(r.period), 2) \in Nat \ {0} /\ AtLeast(Seconds(r.period), 1) \in Nat \ {0}
      /\ AtLeast(Seconds(2 * r.period), 1) \in Nat \ {0}
  BY <1>1, <1>3, <1>4
<1> QED
  BY <1>2, <1>5 DEF TTLs, FixedWindowTTL, LogTTL, BucketTTL

(* Logs. *)

\* What the log strategies store: finitely many entries.
Logs == {L \in SUBSET [ts : Nat, nth : Nat, cost : Costs] : IsFiniteSet(L)}

\* A log's cost is a number, and at least 1 for each entry.
LEMMA LogCostType ==
  ASSUME NEW L \in Logs
  PROVE  LogCost(L) \in Nat /\ Cardinality(L) <= LogCost(L)
<1>1. [e \in L |-> e.cost] \in [L -> Nat \ {0}] /\ IsFiniteSet(L)
  BY ScenariosAssumption DEF Logs
<1>2. [e \in L |-> e.cost] \in [L -> Int]
  BY <1>1
<1>3. LogCost(L) \in Int /\ Cardinality(L) <= LogCost(L)
  BY <1>1, <1>2, TotalSize, TotalType DEF LogCost
<1>4. Cardinality(L) \in Nat
  BY <1>1, FS_CardinalityType
<1> QED
  BY <1>3, <1>4

\* An empty log costs nothing.
LEMMA LogCostEmpty == LogCost({}) = 0
BY TotalEmpty DEF LogCost

\* A part of a log costs no more than the log.
LEMMA LogCostGrows ==
  ASSUME NEW L \in Logs, NEW K \in SUBSET L
  PROVE  K \in Logs /\ LogCost(K) <= LogCost(L)
<1> DEFINE f == [e \in L |-> e.cost]
<1>1. f \in [L -> Nat] /\ IsFiniteSet(L)
  BY ScenariosAssumption DEF Logs
<1>2. Total([e \in K |-> f[e]]) <= Total([e \in L |-> f[e]])
  BY <1>1, TotalParts, L \in SUBSET L
<1>3. [e \in K |-> f[e]] = [e \in K |-> e.cost] /\ [e \in L |-> f[e]] = [e \in L |-> e.cost]
  OBVIOUS
<1>4. K \in Logs
  BY FS_Subset DEF Logs
<1> QED
  BY <1>2, <1>3, <1>4 DEF LogCost

\* A new entry adds its cost.
LEMMA LogCostAdd ==
  ASSUME NEW L \in Logs, NEW e \in [ts : Nat, nth : Nat, cost : Costs], e \notin L
  PROVE  L \cup {e} \in Logs /\ LogCost(L \cup {e}) = LogCost(L) + e.cost
<1> DEFINE f == [d \in L \cup {e} |-> d.cost]
<1>1. IsFiniteSet(L) /\ IsFiniteSet(L \cup {e})
  BY FS_AddElement DEF Logs
<1>2. f \in [L \cup {e} -> Int]
  <2>1. \A d \in L \cup {e} : d \in [ts : Nat, nth : Nat, cost : Costs]
    BY DEF Logs
  <2>2. \A d \in L \cup {e} : d.cost \in Costs
    BY <2>1
  <2>3. Costs \subseteq Int
    BY ScenariosAssumption
  <2> QED
    BY <2>2, <2>3
<1>3. Total(f) = f[e] + Total([d \in L |-> f[d]]) /\ Total(f) \in Int /\ Total([d \in L |-> f[d]]) \in Int
  BY <1>1, <1>2, TotalAdd
<1>4. [d \in L |-> f[d]] = [d \in L |-> d.cost] /\ f[e] = e.cost
  OBVIOUS
<1>5. e.cost \in Int
  <2>1. e.cost \in Costs /\ Costs \subseteq Int
    BY ScenariosAssumption
  <2> QED
    BY <2>1
<1> QED
  BY <1>1, <1>3, <1>4, <1>5 DEF LogCost, Logs

\* A new entry is none of those the log has: it bears another number.
LEMMA LoggedIsNew ==
  ASSUME NEW L \in Logs, NEW now \in Nat, NEW cost \in Costs
  PROVE  \E e \in [ts : {now}, nth : Nat, cost : {cost}] : e \notin L /\ Logged(L, now, cost) = L \cup {e}
<1> DEFINE Same == {d \in L : d.ts = now}
           After == {e.nth + 1 : e \in Same}
           nth == Max({0} \cup After)
           new == [ts |-> now, nth |-> nth, cost |-> cost]
<1>1. IsFiniteSet(Same) /\ \A e \in Same : e.nth \in Nat
  BY FS_Subset DEF Logs
<1>2. IsFiniteSet(After) /\ After \subseteq Nat
  <2> DEFINE F == [e \in Same |-> e.nth + 1]
  <2>1. F \in Surjection(Same, After)
    BY DEF Surjection
  <2> QED
    BY <1>1, <2>1, FS_Surjection
<1>3. IsFiniteSet({0} \cup After) /\ {0} \cup After \subseteq Nat
  BY <1>2, FS_AddElement
<1> HIDE DEF After
<1>4. nth \in Nat /\ \A x \in After : x <= nth
  BY <1>3, MaxOfCosts
<1>5. \A e \in L : e.ts = now => e.nth # nth
  <2> SUFFICES ASSUME NEW e \in Same PROVE e.nth # nth
    OBVIOUS
  <2>1. e.nth \in Nat /\ e.nth + 1 <= nth
    BY <1>1, <1>4 DEF After
  <2> HIDE DEF nth
  <2> QED
    BY <1>4, <2>1
<1>6. Logged(L, now, cost) = L \cup {new}
  BY DEF Logged, After
<1> HIDE DEF nth
<1>7. new \notin L /\ new \in [ts : {now}, nth : Nat, cost : {cost}]
  BY <1>4, <1>5
<1> QED
  BY <1>6, <1>7

(* Values per window. *)

\* What a strategy that counts per window may store, kind by kind.
ValueOK(r, kind, v) ==
  \/ kind = "limit" /\ r.strategy = "adaptive_throttle" /\ v \in r.limit * r.floor .. 100 * r.limit
  \/ kind = "rollover" /\ r.strategy = "quota_with_rollover" /\ v \in 0 .. r.maxRollover
  \/ kind = "count" /\ v \in Int /\ (r.strategy # "sliding_window_counter" => v \in Nat)

\* A cell of such a strategy.
WindowCell(r, c) ==
  /\ c = [k \in DOMAIN c |-> c[k]]
  /\ \A k \in DOMAIN c : c[k] \in [value : Int, exp : Int] /\ ValueOK(r, k[1], c[k].value)

\* All of it are integers.
LEMMA ValueIsInt ==
  ASSUME NEW r, RateOK(r), NEW kind, NEW v, ValueOK(r, kind, v)
  PROVE  v \in Int
<1>1. CASE kind = "limit"
  <2>1. r.strategy = "adaptive_throttle" /\ v \in r.limit * r.floor .. 100 * r.limit
    BY <1>1 DEF ValueOK
  <2>2. r.floor \in Nat /\ r.limit \in Nat
    BY <2>1 DEF RateOK, StrategyFields
  <2> QED
    BY <2>1, <2>2, ProductIsNat
<1>2. CASE kind = "rollover"
  BY <1>2 DEF ValueOK
<1>3. CASE kind = "count"
  BY <1>3 DEF ValueOK
<1> QED
  BY <1>1, <1>2, <1>3 DEF ValueOK

\* set stores the value, and leaves the values under the other keys as they are.
LEMMA PutShape ==
  ASSUME NEW r, RateOK(r), NEW c, WindowCell(r, c), NEW key, NEW v, ValueOK(r, key[1], v),
         NEW exp \in Int, NEW at \in Int
  PROVE  /\ WindowCell(r, Put(c, key, v, exp, at))
         /\ key \in DOMAIN Put(c, key, v, exp, at)
         /\ Put(c, key, v, exp, at)[key] = [value |-> v, exp |-> exp]
         /\ \A k : k # key => Stored(Put(c, key, v, exp, at), k, at) = Stored(c, k, at)
<1> DEFINE p == Put(c, key, v, exp, at)
           D == {l \in DOMAIN c : Live(c[l], at)} \cup {key}
<1>1. p = [k \in D |-> IF k = key THEN [value |-> v, exp |-> exp] ELSE c[k]]
  BY DEF Put
<1>2. v \in Int
  BY ValueIsInt
<1> HIDE DEF p
<1>3. DOMAIN p = D /\ key \in D /\ p[key] = [value |-> v, exp |-> exp]
  BY <1>1
<1>4. \A k \in D : p[k] \in [value : Int, exp : Int] /\ ValueOK(r, k[1], p[k].value)
  BY <1>1, <1>2 DEF WindowCell
<1>5. p = [k \in DOMAIN p |-> p[k]]
  BY <1>1
<1>6. \A k : k # key => Stored(p, k, at) = Stored(c, k, at)
  BY <1>1, <1>3 DEF Stored
<1> QED
  BY <1>3, <1>4, <1>5, <1>6 DEF p, WindowCell

\* get returns what was stored, or nothing.
LEMMA StoredShape ==
  ASSUME NEW r, RateOK(r), NEW c, WindowCell(r, c), NEW kind, NEW w, NEW at
  PROVE  LET v == Stored(c, <<kind, w>>, at)
         IN  v = None \/ (v = c[<<kind, w>>].value /\ <<kind, w>> \in DOMAIN c /\ ValueOK(r, kind, v) /\ v \in Int)
<1>1. <<kind, w>>[1] = kind
  OBVIOUS
<1> QED
  BY <1>1, ValueIsInt DEF Stored, WindowCell

\* increment_with_ttl counts, and changes nothing else.
LEMMA AddedShape ==
  ASSUME NEW r, RateOK(r), NEW c, WindowCell(r, c), NEW w, NEW amount \in Int, NEW at \in Nat,
         r.strategy # "sliding_window_counter" => amount \in Nat
  PROVE  LET key == <<"count", w>>
             a   == Added(r, c, key, amount, at)
             old == Stored(c, key, at)
         IN  /\ WindowCell(r, a) /\ key \in DOMAIN a
             /\ a[key] = [value |-> IF old = None THEN amount ELSE old + amount,
                          exp   |-> IF old = None THEN TwiceTTL(r, at) ELSE c[key].exp]
             /\ \A k : k # key => Stored(a, k, at) = Stored(c, k, at)
<1> DEFINE key == <<"count", w>>
           old == Stored(c, key, at)
           new == IF old = None THEN amount ELSE old + amount
           exp == IF old = None THEN TwiceTTL(r, at) ELSE c[key].exp
<1>1. Added(r, c, key, amount, at) = Put(c, key, new, exp, at)
  BY DEF Added
<1>2. key[1] = "count"
  OBVIOUS
<1>3. old = None \/ (ValueOK(r, "count", old) /\ old \in Int /\ key \in DOMAIN c)
  BY StoredShape
<1>4. ValueOK(r, key[1], new)
  BY <1>2, <1>3 DEF ValueOK
<1>5. exp \in Int
  BY <1>3, TTLsPositive DEF TwiceTTL, TTLs, WindowCell
<1> HIDE DEF new, exp, key
<1>6. at \in Int
  OBVIOUS
<1>7. /\ WindowCell(r, Put(c, key, new, exp, at)) /\ key \in DOMAIN Put(c, key, new, exp, at)
      /\ Put(c, key, new, exp, at)[key] = [value |-> new, exp |-> exp]
      /\ \A k : k # key => Stored(Put(c, key, new, exp, at), k, at) = Stored(c, k, at)
  BY <1>4, <1>5, <1>6, PutShape
<1> QED
  BY <1>1, <1>7 DEF new, exp, key

(* Buckets.  Each lemma says of one hit what it leaves in the bucket and what it
   costs it; nothing, if it is refused. *)

\* What an outcome takes from a bucket: the cost, if the request is admitted.
Spent(outcome, cost) == IF outcome.wait = 0 THEN cost ELSE 0

\* A token bucket's cell: never fuller than its capacity.
TokenCell(r, c) ==
  \/ c = Absent
  \/ c \in [tokens : Int, last : Nat, exp : Nat] /\ c.tokens <= r.capacity * r.period

\* What was never stored is not read.
LEMMA AbsentIsDead == \A at \in Nat : ~ Live(Absent, at)
BY DEF Live, Absent

\* A token bucket spends what it admits, refills by the time between two refills at
\* the rate, and never goes below its debt.
LEMMA TokenBucketStep ==
  ASSUME NEW r, RateOK(r), NEW c, TokenCell(r, c),
         NEW now \in Nat, NEW at \in Nat, NEW cost \in Nat \ {0}
  PROVE  LET out == TokenBucket(r, c, now, cost, at)
             new == out.cell
             full == r.capacity * r.period
             spent == Spent(out, cost) * r.period
         IN  /\ TokenCell(r, new) /\ new \in [tokens : Int, last : {now}, exp : {at + BucketTTL(r)}]
             /\ new.tokens + spent <= full
             /\ Live(c, at) => new.tokens + spent <= c.tokens + r.limit * (now - c.last)
             /\ out.wait = 0 => new.tokens >= -(r.debt * r.period)
             /\ out.wait # 0 => new.tokens = full \/ (Live(c, at) /\ new.tokens = c.tokens + r.limit * (now - c.last))
<1> DEFINE out == TokenBucket(r, c, now, cost, at)
           full == r.capacity * r.period
           price == cost * r.period
           owed == r.debt * r.period
           gain == r.limit * (now - c.last)
           tokens == Tokens(r, c, now, at)
           shortfall == (cost - r.debt) * r.period - tokens
           exp == at + BucketTTL(r)
<1>1. full \in Nat /\ price \in Nat \ {0} /\ owed \in Nat /\ exp \in Nat /\ r.limit \in Nat \ {0}
  BY ProductIsNat, TTLsPositive DEF RateOK, TTLs
<1>2. (cost - r.debt) * r.period = price - owed
  BY DEF RateOK
<1>3. Live(c, at) => gain \in Int /\ c.tokens \in Int
  BY AbsentIsDead DEF TokenCell, RateOK
<1>4. /\ tokens \in Int /\ tokens <= full
      /\ Live(c, at) => tokens <= c.tokens + gain
      /\ tokens = full \/ (Live(c, at) /\ tokens = c.tokens + gain)
  <2> HIDE DEF gain, full
  <2> QED
    BY <1>1, <1>3 DEF Tokens, AtMost, gain, full
<1> HIDE DEF tokens, gain, full, price, owed, exp
<1>5. shortfall = price - owed - tokens /\ shortfall \in Int
  BY <1>1, <1>2, <1>4
<1> HIDE DEF shortfall
<1>6. CASE shortfall <= 0
  <2>1. out = Outcome(0, [tokens |-> tokens - price, last |-> now, exp |-> exp])
    BY <1>6 DEF TokenBucket, tokens, shortfall, price, exp
  <2>2. out.wait = 0 /\ out.cell = [tokens |-> tokens - price, last |-> now, exp |-> exp]
    BY <2>1 DEF Outcome
  <2>3. Spent(out, cost) * r.period = price
    BY <2>2 DEF Spent, price
  <2> HIDE DEF out
  <2> QED
    BY <1>1, <1>3, <1>4, <1>5, <1>6, <2>2, <2>3 DEF TokenCell, out, exp, owed, gain, full
<1>7. CASE ~ (shortfall <= 0)
  <2>1. out = Outcome(CeilDiv(shortfall, r.limit), [tokens |-> tokens, last |-> now, exp |-> exp])
    BY <1>7 DEF TokenBucket, tokens, shortfall, price, exp
  <2>2. CeilDiv(shortfall, r.limit) # 0
    BY <1>1, <1>5, <1>7, CeilDivPositive
  <2>3. out.wait # 0 /\ out.cell = [tokens |-> tokens, last |-> now, exp |-> exp]
    BY <2>1, <2>2 DEF Outcome
  <2>4. Spent(out, cost) * r.period = 0
    BY <2>3 DEF Spent, RateOK
  <2> HIDE DEF out
  <2> QED
    BY <1>1, <1>3, <1>4, <2>3, <2>4 DEF TokenCell, out, exp, gain, full
<1> QED
  BY <1>6, <1>7

\* A leaky bucket's cell.
LevelCell(r, c) == c = Absent \/ c \in [level : Nat \ {0}, last : Nat, exp : Nat]

\* What a hit of either leaky bucket leaves: it empties later by what was spent,
\* and no sooner than a bucket that only holds that.
Leaked(r, c, now, at, cost, out) ==
  LET new   == out.cell
      spent == Spent(out, cost) * r.period
  IN  /\ new \in [level : Nat \ {0}, last : Nat, exp : {at + BucketTTL(r)}]
      /\ out.wait = 0 => new.level <= r.limit * r.period \/ new.level = cost * r.period
      /\ out.wait # 0 => Live(c, at) /\ new.level = c.level /\ new.last = c.last
      /\ new.last = now \/ (Live(c, at) /\ new.last = c.last)
      /\ Live(c, at) => new.level + r.limit * new.last >= c.level + r.limit * c.last + spent
      /\ out.wait = 0 \/ cost <= r.limit => new.level + r.limit * new.last >= r.limit * now + spent

\* The first drop is admitted, and is the level.
LEMMA FirstDropStep ==
  ASSUME NEW r, RateOK(r), NEW c, NEW now \in Nat, NEW at \in Nat, NEW cost \in Nat \ {0}, ~ Live(c, at)
  PROVE  Leaked(r, c, now, at, cost, FirstDrop(r, now, cost, at))
<1> DEFINE out == FirstDrop(r, now, cost, at)
           price == cost * r.period
           exp == at + BucketTTL(r)
<1>1. price \in Nat \ {0} /\ r.limit * now \in Nat /\ exp \in Nat
  BY ProductIsNat, TTLsPositive DEF RateOK, TTLs
<1>2. out.wait = 0 /\ out.cell = [level |-> price, last |-> now, exp |-> exp]
  BY DEF FirstDrop, Outcome
<1>3. Spent(out, cost) * r.period = price
  BY <1>2 DEF Spent
<1> HIDE DEF out, price
<1>4. out.cell.last = now /\ out.cell.level = price
  BY <1>2
<1> QED
  BY <1>1, <1>2, <1>3, <1>4 DEF Leaked, out, price

\* A leaky bucket's hit is of that form.
LEMMA LeakyBucketStep ==
  ASSUME NEW r, RateOK(r), NEW c, LevelCell(r, c),
         NEW now \in Nat, NEW at \in Nat, NEW cost \in Nat \ {0}
  PROVE  Leaked(r, c, now, at, cost, LeakyBucket(r, c, now, cost, at))
<1> DEFINE out == LeakyBucket(r, c, now, cost, at)
           price == cost * r.period
           top == r.limit * r.period
           exp == at + BucketTTL(r)
           level == Level(r, c, now)
           excess == level + price - top
<1>1. CASE ~ Live(c, at)
  BY <1>1, FirstDropStep DEF LeakyBucket
<1>2. CASE Live(c, at)
  <2>1. c \in [level : Nat \ {0}, last : Nat, exp : Nat]
    BY <1>2, AbsentIsDead DEF LevelCell
  <2> DEFINE was == r.limit * c.last
             is  == r.limit * now
  <2>2. /\ price \in Nat \ {0} /\ top \in Nat \ {0} /\ exp \in Nat /\ was \in Nat /\ is \in Nat
        /\ r.limit \in Nat \ {0}
    BY <2>1, ProductIsNat, TTLsPositive DEF RateOK, TTLs
  <2>3. r.limit * (now - c.last) = is - was
    BY <2>1, ProductSplits DEF RateOK
  <2>4. cost <= r.limit => price <= top
    <3>1. price = r.period * cost /\ top = r.period * r.limit
      BY DEF RateOK
    <3>2. cost <= r.limit => r.period * cost <= r.period * r.limit
      BY ProductGrows DEF RateOK
    <3> QED
      BY <3>1, <3>2
  <2> HIDE DEF was, is, price, top, exp
  <2>5. level \in Nat /\ level >= c.level - (is - was) /\ (level = 0 \/ level = c.level - (is - was))
    BY <2>1, <2>2, <2>3 DEF Level, AtLeast
  <2>6. Excess(r, level, cost) = excess
    BY DEF Excess, price, top
  <2>7. \A x, y, z : (out = Outcome(x, y)) => out.wait = x /\ out.cell = y
    BY DEF Outcome
  <2>8. CASE excess > 0
    <3>1. out = Outcome(CeilDiv(excess, r.limit), [c EXCEPT !.exp = exp])
      BY <1>2, <2>6, <2>8 DEF LeakyBucket, exp
    <3>2. CeilDiv(excess, r.limit) # 0
      BY <2>2, <2>5, <2>8, CeilDivPositive
    <3>3. out.wait # 0 /\ out.cell = [c EXCEPT !.exp = exp]
      BY <2>7, <3>1, <3>2
    <3>4. Spent(out, cost) * r.period = 0
      BY <3>3 DEF Spent, RateOK
    <3> HIDE DEF out
    <3>5. out.cell.level = c.level /\ out.cell.last = c.last
      BY <2>1, <3>3
    <3>6. out.cell \in [level : Nat \ {0}, last : Nat, exp : {exp}]
      BY <2>1, <2>2, <3>3
    <3>7. cost <= r.limit => c.level + was >= is
      BY <2>1, <2>2, <2>4, <2>5, <2>8
    <3>8. c.level + was \in Nat /\ c.level + was + 0 = c.level + was
      BY <2>1, <2>2
    <3> QED
      BY <1>2, <2>2, <3>3, <3>4, <3>5, <3>6, <3>7, <3>8 DEF Leaked, out, exp, was, is
  <2>9. CASE ~ (excess > 0)
    <3> DEFINE new == [level |-> level + price, last |-> now, exp |-> exp]
    <3>1. out = Outcome(0, new)
      BY <1>2, <2>6, <2>9 DEF LeakyBucket, exp, price
    <3>2. out.wait = 0 /\ out.cell = new
      BY <2>7, <3>1
    <3>3. Spent(out, cost) * r.period = price
      BY <3>2 DEF Spent, price
    <3> HIDE DEF out
    <3>4. out.cell.level = level + price /\ out.cell.last = now
      BY <3>2
    <3>5. out.cell \in [level : Nat \ {0}, last : Nat, exp : {exp}]
      BY <2>2, <2>5, <3>2
    <3>6. /\ level + price <= top
          /\ level + price + is >= c.level + was + price
          /\ level + price + is >= is + price
      BY <2>1, <2>2, <2>5, <2>9
    <3> QED
      BY <3>2, <3>3, <3>4, <3>5, <3>6 DEF Leaked, out, exp, was, is, top
  <2> QED
    BY <2>2, <2>5, <2>8, <2>9
<1> QED
  BY <1>1, <1>2

\* So is the hit of one with a queue, which drains its entries from the head.
LEMMA LeakyBucketQueueStep ==
  ASSUME NEW r, RateOK(r), NEW c, LevelCell(r, c),
         NEW now \in Nat, NEW at \in Nat, NEW cost \in Nat \ {0}
  PROVE  Leaked(r, c, now, at, cost, LeakyBucketQueue(r, c, now, cost, at))
<1> DEFINE out == LeakyBucketQueue(r, c, now, cost, at)
           price == cost * r.period
           top == r.limit * r.period
           exp == at + BucketTTL(r)
           drained == Drained(r, c, now)
           level == c.level - drained
           excess == level + price - top
<1>1. CASE ~ Live(c, at)
  BY <1>1, FirstDropStep DEF LeakyBucketQueue
<1>2. CASE Live(c, at)
  <2>1. c \in [level : Nat \ {0}, last : Nat, exp : Nat]
    BY <1>2, AbsentIsDead DEF LevelCell
  <2> DEFINE was == r.limit * c.last
             is  == r.limit * now
  <2>2. /\ price \in Nat \ {0} /\ top \in Nat \ {0} /\ exp \in Nat /\ was \in Nat /\ is \in Nat
        /\ r.limit \in Nat \ {0}
    BY <2>1, ProductIsNat, TTLsPositive DEF RateOK, TTLs
  <2>3. r.limit * (now - c.last) = is - was
    BY <2>1, ProductSplits DEF RateOK
  <2>4. cost <= r.limit => price <= top
    <3>1. price = r.period * cost /\ top = r.period * r.limit
      BY DEF RateOK
    <3>2. cost <= r.limit => r.period * cost <= r.period * r.limit
      BY ProductGrows DEF RateOK
    <3> QED
      BY <3>1, <3>2
  <2> HIDE DEF was, is, price, top, exp
  <2>5. /\ drained \in Nat /\ drained <= c.level
        /\ drained = 0 => is <= was
        /\ drained > 0 => drained <= is - was /\ (drained = c.level \/ drained = is - was)
    BY <2>1, <2>2, <2>3 DEF Drained, AtLeast, AtMost
  <2>6. Excess(r, level, cost) = excess
    BY DEF Excess, price, top
  <2>7. \A x, y, z : (out = Outcome(x, y)) => out.wait = x /\ out.cell = y
    BY DEF Outcome
  <2> HIDE DEF drained
  <2>8. CASE excess > 0
    <3> DEFINE wait == AtLeast(CeilDiv(excess, r.limit), 1)
    <3>1. out = Outcome(wait, [c EXCEPT !.exp = exp])
      BY <1>2, <2>6, <2>8 DEF LeakyBucketQueue, exp, drained
    <3>2. wait # 0
      <4>1. CeilDiv(excess, r.limit) \in Nat \ {0}
        BY <2>1, <2>2, <2>5, <2>8, CeilDivPositive
      <4> QED
        BY <4>1 DEF AtLeast
    <3> HIDE DEF wait
    <3>3. out.wait # 0 /\ out.cell = [c EXCEPT !.exp = exp]
      BY <2>7, <3>1, <3>2
    <3>4. Spent(out, cost) * r.period = 0
      BY <3>3 DEF Spent, RateOK
    <3> HIDE DEF out
    <3>5. out.cell.level = c.level /\ out.cell.last = c.last
      BY <2>1, <3>3
    <3>6. out.cell \in [level : Nat \ {0}, last : Nat, exp : {exp}]
      BY <2>1, <2>2, <3>3
    <3>7. cost <= r.limit => c.level + was >= is
      BY <2>1, <2>2, <2>4, <2>5, <2>8
    <3>8. c.level + was \in Nat /\ c.level + was + 0 = c.level + was
      BY <2>1, <2>2
    <3> QED
      BY <1>2, <2>2, <3>3, <3>4, <3>5, <3>6, <3>7, <3>8 DEF Leaked, out, exp, was, is
  <2>9. CASE ~ (excess > 0)
    <3> DEFINE last == IF drained > 0 THEN now ELSE c.last
               new == [level |-> level + price, last |-> last, exp |-> exp]
               then == r.limit * last
    <3>1. out = Outcome(0, new)
      BY <1>2, <2>6, <2>9 DEF LeakyBucketQueue, exp, price, drained
    <3>2. out.wait = 0 /\ out.cell = new
      BY <2>7, <3>1
    <3>3. Spent(out, cost) * r.period = price
      BY <3>2 DEF Spent, price
    <3>4. (drained > 0 => last = now /\ then = is) /\ (drained = 0 => last = c.last /\ then = was)
      BY DEF is, was
    <3> HIDE DEF out, last, then
    <3>5. out.cell.level = level + price /\ out.cell.last = last
      BY <3>2
    <3>6. out.cell \in [level : Nat \ {0}, last : Nat, exp : {exp}]
      BY <2>1, <2>2, <2>5, <3>2, <3>4
    <3>7. /\ level + price <= top
          /\ level + price + then >= c.level + was + price
          /\ level + price + then >= is + price
      BY <2>1, <2>2, <2>5, <2>9, <3>4
    <3>8. last = now \/ last = c.last
      BY <2>5, <3>4
    <3> QED
      BY <1>2, <3>2, <3>3, <3>5, <3>6, <3>7, <3>8 DEF Leaked, out, exp, was, is, top, then
  <2> QED
    BY <2>1, <2>2, <2>5, <2>8, <2>9
<1> QED
  BY <1>1, <1>2

\* GCRA's cell.
TATCell(c) == c = Absent \/ c \in [tat : Nat, exp : Nat]

\* GCRA moves the arrival time from now or from where it was, whichever is later, by
\* the cost; a request it refuses leaves it alone.
LEMMA GCRAStep ==
  ASSUME NEW r, RateOK(r), r.strategy = "gcra", NEW c, TATCell(c),
         NEW now \in Nat, NEW at \in Nat, NEW cost \in Nat \ {0}
  PROVE  LET out == GCRA(r, c, now, cost, at)
             new == out.cell
             spent == cost * r.period
         IN  /\ out.wait # 0 => new = c /\ Live(c, at)
             /\ out.wait = 0 =>
                  /\ new \in [tat : Nat, exp : {at + BucketTTL(r)}]
                  /\ new.tat >= r.limit * now + spent
                  /\ new.tat <= r.limit * now + r.limit * r.tolerance + spent
                  /\ Live(c, at) => new.tat >= c.tat + spent
<1> DEFINE out == GCRA(r, c, now, cost, at)
           spent == cost * r.period
           is == r.limit * now
           ahead == r.limit * r.tolerance
           tat == Arrival(r, c, now, at)
           exp == at + BucketTTL(r)
<1>1. spent \in Nat \ {0} /\ is \in Nat /\ ahead \in Nat /\ exp \in Nat /\ r.limit \in Nat \ {0}
  <2>1. r.limit \in Nat \ {0} /\ r.period \in Nat \ {0} /\ r.tolerance \in Nat
    BY DEF RateOK, StrategyFields
  <2>2. is \in Nat /\ ahead \in Nat
    BY <2>1, ProductIsNat
  <2>3. spent \in Nat \ {0}
    BY <2>1
  <2>4. exp \in Nat
    BY TTLsPositive DEF TTLs
  <2> QED
    BY <2>1, <2>2, <2>3, <2>4
<1>2. now * r.limit = is /\ r.tolerance * r.limit = ahead /\ r.period * cost = spent
  BY DEF RateOK, StrategyFields
<1>3. tat \in Nat /\ (Live(c, at) => tat = c.tat /\ c.tat \in Nat) /\ (~ Live(c, at) => tat = is)
  BY <1>1, <1>2, AbsentIsDead DEF TATCell, Arrival
<1>4. \A x, y : (out = Outcome(x, y)) => out.wait = x /\ out.cell = y
  BY DEF Outcome
<1> HIDE DEF spent, is, ahead, tat, exp
<1>5. CASE is >= tat - ahead
  <2>1. Conforms(r, tat, now)
    BY <1>2, <1>5 DEF Conforms
  <2>2. out = Outcome(0, [tat |-> Advanced(r, tat, now, cost), exp |-> exp])
    BY <2>1 DEF GCRA, tat, exp, TwiceTTL
  <2>3. out.wait = 0 /\ out.cell = [tat |-> Advanced(r, tat, now, cost), exp |-> exp]
    BY <1>4, <2>2
  <2> HIDE DEF out
  <2>4. Advanced(r, tat, now, cost) = (IF tat < is THEN is ELSE tat) + spent
    BY <1>2 DEF Advanced, AtLeast
  <2> DEFINE new == Advanced(r, tat, now, cost)
  <2>5. new \in Nat /\ new >= is + spent /\ new <= is + ahead + spent /\ new >= tat + spent
    BY <1>1, <1>3, <1>5, <2>4
  <2> HIDE DEF new
  <2>6. out.cell.tat = new /\ out.cell \in [tat : Nat, exp : {exp}]
    BY <2>3, <2>5 DEF new
  <2> QED
    BY <1>3, <2>3, <2>5, <2>6 DEF out, spent, is, ahead, exp
<1>6. CASE ~ (is >= tat - ahead)
  <2>1. ~ Conforms(r, tat, now)
    BY <1>2, <1>6 DEF Conforms
  <2>2. out = Outcome(AtLeast(CeilDiv(tat - is, r.limit), 0), c)
    BY <1>2, <2>1 DEF GCRA, tat
  <2>3. tat - is \in Nat \ {0}
    BY <1>1, <1>3, <1>6
  <2>4. CeilDiv(tat - is, r.limit) \in Nat \ {0}
    BY <1>1, <2>3, CeilDivPositive
  <2>5. AtLeast(CeilDiv(tat - is, r.limit), 0) # 0
    BY <2>4 DEF AtLeast
  <2>6. out.wait # 0 /\ out.cell = c
    BY <1>4, <2>2, <2>5
  <2>7. Live(c, at)
    BY <1>1, <1>3, <1>6
  <2> QED
    BY <2>6, <2>7
<1> QED
  BY <1>5, <1>6

\* The cost based bucket's cell.
CostCell(r, c) ==
  \/ c = Absent
  \/ /\ c \in [tokens : Int, last : Nat, exp : Nat, history : Seq(Costs), historyExp : Nat]
     /\ c.tokens <= Full(r)

\* No request costs less than 1, so that what flows in is at most the rate.
LEMMA InflowBounds ==
  ASSUME NEW r, RateOK(r), r.strategy = "cost_based_token_bucket", NEW history \in Seq(Costs)
  PROVE  /\ Inflow(r, history) \in Nat \ {0} /\ r.limit * Grain \in Nat \ {0}
         /\ r.minRefill <= 100 => Inflow(r, history) <= r.limit * Grain
<1> DEFINE base == r.limit * Grain
           low  == (base * r.minRefill) \div 100
<1>1. base \in Nat \ {0} /\ r.minRefill \in Nat
  BY DEF RateOK, StrategyFields, Grain
<1> HIDE DEF base
<1>2. base * r.minRefill \in Nat
  BY <1>1, ProductIsNat
<1>3. low \in Nat
  BY <1>2, DivIsNat
<1>4. r.minRefill <= 100 => low <= base
  BY <1>1, Percentage
<1> HIDE DEF low
<1>5. Inflow(r, history) =
        IF history = <<>> THEN base
        ELSE AtLeast((base * Len(history)) \div Total(history), AtLeast(low, 1))
  BY DEF Inflow, base, low
<1>6. CASE history = <<>>
  BY <1>1, <1>5, <1>6 DEF base
<1>7. CASE history # <<>>
  <2> DEFINE n == Len(history)
             q == (base * n) \div Total(history)
  <2>1. n \in Nat \ {0} /\ history \in [1 .. n -> Costs]
    BY <1>7
  <2>2. IsFiniteSet(1 .. n) /\ Cardinality(1 .. n) = n
    BY <2>1, FS_Interval
  <2>3. Costs \subseteq Nat \ {0}
    BY ScenariosAssumption
  <2>4. history \in [1 .. n -> Nat \ {0}] /\ history \in [1 .. n -> Int]
    <3> HIDE DEF n
    <3>1. \A i \in 1 .. n : history[i] \in Costs
      BY <2>1
    <3>2. history = [i \in 1 .. n |-> history[i]]
      BY <2>1
    <3>3. \A x \in Costs : x \in Nat \ {0} /\ x \in Int
      BY <2>3
    <3>4. \A i \in 1 .. n : history[i] \in Nat \ {0} /\ history[i] \in Int
      BY <3>1, <3>3
    <3> QED
      BY <3>2, <3>4
  <2>5. Total(history) \in Int /\ n <= Total(history)
    BY <2>2, <2>4, TotalSize, TotalType
  <2> DEFINE t == Total(history)
  <2> HIDE DEF n, t
  <2>6. t \in Nat \ {0} /\ n <= t
    BY <2>1, <2>5 DEF t
  <2>7. base * n \in Nat /\ base * n <= base * t
    BY <1>1, <2>1, <2>6, ProductGrows, ProductIsNat
  <2>8. q \in Nat /\ t * q <= base * n
    BY <2>6, <2>7, DivBounds, DivIsNat DEF t
  <2>9. q <= base
    <3> SUFFICES ASSUME base + 1 <= q PROVE FALSE
      BY <1>1, <2>8
    <3>1. t * (base + 1) <= t * q /\ t * (base + 1) = t * base + t * 1 /\ t * base \in Int
      BY <1>1, <2>6, <2>8, ProductGrows, ProductSplits
    <3>2. t * base = base * t /\ t * 1 = t
      BY <1>1, <2>6
    <3>3. t * q \in Int
      BY <2>6, <2>8
    <3> HIDE DEF q
    <3> QED
      BY <2>6, <2>7, <2>8, <3>1, <3>2, <3>3
  <2>10. Inflow(r, history) = AtLeast(q, AtLeast(low, 1))
    BY <1>5, <1>7 DEF n
  <2> HIDE DEF q
  <2>11. Inflow(r, history) \in Nat \ {0}
    BY <1>3, <2>8, <2>10 DEF AtLeast
  <2>12. r.minRefill <= 100 => Inflow(r, history) <= base
    BY <1>1, <1>3, <1>4, <2>8, <2>9, <2>10 DEF AtLeast
  <2> QED
    BY <1>1, <2>11, <2>12 DEF base
<1> QED
  BY <1>6, <1>7

\* The history of costs stays a sequence of costs.
LEMMA RememberedType ==
  ASSUME NEW r, NEW history \in Seq(Costs), NEW cost \in Costs
  PROVE  Remembered(r, history, cost) \in Seq(Costs)
<1> DEFINE all == Append(history, cost)
<1>1. all \in Seq(Costs) /\ all # <<>>
  BY AppendProperties
<1> HIDE DEF all
<1>2. Tail(all) \in Seq(Costs)
  BY <1>1, HeadTailProperties
<1> QED
  BY <1>1, <1>2 DEF Remembered, all

\* A cost based bucket spends what it admits and refills no faster than the rate,
\* unless its slowest refill is above that.
LEMMA CostBasedTokenBucketStep ==
  ASSUME NEW r, RateOK(r), r.strategy = "cost_based_token_bucket", NEW c, CostCell(r, c),
         NEW now \in Nat, NEW at \in Nat, NEW cost \in Costs
  PROVE  LET out == CostBasedTokenBucket(r, c, now, cost, at)
             new == out.cell
             spent == Spent(out, cost) * r.period * Grain
         IN  /\ CostCell(r, new) /\ new.last = now /\ new.exp = at + BucketTTL(r)
             /\ new \in [tokens : Int, last : Nat, exp : Nat, history : Seq(Costs), historyExp : Nat]
             /\ new.tokens + spent <= Full(r)
             /\ Live(c, at) /\ c.last <= now /\ r.minRefill <= 100 =>
                  new.tokens + spent <= c.tokens + r.limit * Grain * (now - c.last)
             /\ out.wait = 0 => new.tokens >= 0
             /\ Live(c, at) /\ c.last <= now /\ c.tokens >= 0 => new.tokens >= 0
             /\ ~ Live(c, at) => new.tokens >= 0
<1> DEFINE out == CostBasedTokenBucket(r, c, now, cost, at)
           price == cost * r.period * Grain
           full == Full(r)
           history == HistoryAt(c, at)
           flow == Inflow(r, history)
           gain == flow * (now - c.last)
           most == r.limit * Grain * (now - c.last)
           tokens == Balance(r, c, now, at)
           exp == at + BucketTTL(r)
           Keep(t, h, e) == [tokens |-> t, last |-> now, exp |-> exp, history |-> h, historyExp |-> e]
<1>1. price \in Nat \ {0} /\ full \in Nat /\ exp \in Nat
  <2>1. cost \in Nat \ {0} /\ r.period \in Nat \ {0} /\ r.capacity \in Nat
    BY ScenariosAssumption DEF RateOK
  <2>2. cost * r.period \in Nat \ {0} /\ r.capacity * r.period \in Nat
    BY <2>1, ProductIsNat
  <2>3. exp \in Nat
    BY TTLsPositive DEF TTLs
  <2> QED
    BY <2>2, <2>3 DEF Grain, Full
<1>2. Live(c, at) => c \in [tokens : Int, last : Nat, exp : Nat, history : Seq(Costs), historyExp : Nat]
                     /\ c.tokens <= full
  BY AbsentIsDead DEF CostCell
<1>3. history \in Seq(Costs)
  BY <1>2 DEF HistoryAt
<1>4. flow \in Nat \ {0} /\ r.limit * Grain \in Nat \ {0} /\ (r.minRefill <= 100 => flow <= r.limit * Grain)
  BY <1>3, InflowBounds
<1>5. Live(c, at) => gain \in Int /\ most \in Int
  <2>1. Live(c, at) => now - c.last \in Int
    BY <1>2
  <2> DEFINE age == now - c.last
             base == r.limit * Grain
  <2> HIDE DEF age, base
  <2>2. age \in Int => flow * age \in Int /\ base * age \in Int
    BY <1>4 DEF base
  <2> QED
    BY <2>1, <2>2 DEF age, base
<1>6. Live(c, at) /\ c.last <= now => gain >= 0 /\ (r.minRefill <= 100 => gain <= most)
  <2> SUFFICES ASSUME Live(c, at), c.last <= now
               PROVE  gain >= 0 /\ (r.minRefill <= 100 => gain <= most)
    OBVIOUS
  <2> DEFINE age == now - c.last
             base == r.limit * Grain
  <2>1. age \in Nat
    BY <1>2
  <2> HIDE DEF age, base, flow
  <2>2. flow * age \in Nat /\ (flow <= base => flow * age <= base * age)
    <3>1. flow * age = age * flow /\ base * age = age * base
      BY <1>4, <2>1 DEF base
    <3>2. flow <= base => age * flow <= age * base
      BY <1>4, <2>1, ProductGrows DEF base
    <3> QED
      BY <1>4, <2>1, <3>1, <3>2, ProductIsNat
  <2> QED
    BY <1>4, <2>2 DEF age, base
<1>7. /\ tokens \in Int /\ tokens <= full
      /\ Live(c, at) => tokens <= c.tokens + gain /\ (tokens = full \/ tokens = c.tokens + gain)
      /\ ~ Live(c, at) => tokens = full
  <2> HIDE DEF gain, full, price
  <2>1. Live(c, at) => tokens = AtMost(c.tokens + gain, full)
    BY DEF Balance, gain, full
  <2>2. ~ Live(c, at) => tokens = full
    BY DEF Balance, full
  <2> HIDE DEF tokens
  <2> QED
    BY <1>1, <1>2, <1>5, <2>1, <2>2 DEF AtMost
<1>8. /\ Live(c, at) /\ c.last <= now /\ r.minRefill <= 100 => tokens <= c.tokens + most
      /\ Live(c, at) /\ c.last <= now /\ c.tokens >= 0 => tokens >= 0
      /\ ~ Live(c, at) => tokens >= 0
  <2> HIDE DEF gain, full, price, tokens, most, flow
  <2> QED
    BY <1>1, <1>2, <1>5, <1>6, <1>7
<1>9. \A x, y : (out = Outcome(x, y)) => out.wait = x /\ out.cell = y
  BY DEF Outcome
<1>10. \A t \in Int, h \in Seq(Costs), e \in Nat :
         /\ Keep(t, h, e) \in [tokens : Int, last : Nat, exp : Nat, history : Seq(Costs), historyExp : Nat]
         /\ Keep(t, h, e).tokens = t /\ Keep(t, h, e).last = now /\ Keep(t, h, e).exp = exp
  BY <1>1
<1> HIDE DEF price, full, history, flow, gain, most, tokens, exp
<1>11. CASE tokens >= price
  <2> DEFINE h == Remembered(r, history, cost)
  <2>1. out = Outcome(0, Keep(tokens - price, h, exp))
    BY <1>11 DEF CostBasedTokenBucket, tokens, price, history, exp, TwiceTTL
  <2>2. out.wait = 0 /\ out.cell = Keep(tokens - price, h, exp)
    BY <1>9, <2>1
  <2>3. Spent(out, cost) * r.period * Grain = price
    BY <2>2 DEF Spent, price
  <2>4. h \in Seq(Costs)
    BY <1>3, RememberedType
  <2> DEFINE left == tokens - price
  <2>5. left \in Int /\ left >= 0 /\ left + price = tokens /\ left <= full
    BY <1>1, <1>7, <1>11
  <2> HIDE DEF h, left
  <2>6. /\ out.cell \in [tokens : Int, last : Nat, exp : Nat, history : Seq(Costs), historyExp : Nat]
        /\ out.cell.tokens = left /\ out.cell.last = now /\ out.cell.exp = exp
    BY <1>1, <1>10, <2>2, <2>4, <2>5 DEF left
  <2> HIDE DEF out
  <2>7. CostCell(r, out.cell)
    BY <2>5, <2>6 DEF CostCell, full
  <2> QED
    BY <1>7, <1>8, <2>2, <2>3, <2>5, <2>6, <2>7 DEF out, full, most, exp
<1>12. CASE ~ (tokens >= price)
  <2> DEFINE wait == CeilDiv(price - tokens, flow)
             e == IF history = <<>> THEN 0 ELSE c.historyExp
  <2>1. out = Outcome(wait, Keep(tokens, history, e))
    BY <1>12 DEF CostBasedTokenBucket, tokens, price, history, exp, TwiceTTL, flow
  <2>2. wait # 0
    <3>1. price - tokens \in Nat \ {0}
      BY <1>1, <1>7, <1>12
    <3> QED
      BY <1>4, <3>1, CeilDivPositive
  <2>3. out.wait # 0 /\ out.cell = Keep(tokens, history, e)
    BY <1>9, <2>1, <2>2
  <2>4. Spent(out, cost) * r.period * Grain = 0
    BY <2>3 DEF Spent, RateOK, Grain
  <2>5. e \in Nat
    BY <1>2 DEF history, HistoryAt
  <2> HIDE DEF wait, e
  <2>6. /\ out.cell \in [tokens : Int, last : Nat, exp : Nat, history : Seq(Costs), historyExp : Nat]
        /\ out.cell.tokens = tokens /\ out.cell.last = now /\ out.cell.exp = exp
    BY <1>3, <1>7, <1>10, <2>3, <2>5
  <2> HIDE DEF out
  <2>7. CostCell(r, out.cell)
    BY <1>7, <2>6 DEF CostCell, full
  <2>8. tokens + 0 = tokens
    BY <1>7
  <2> QED
    BY <1>7, <1>8, <2>3, <2>4, <2>6, <2>7, <2>8 DEF out, full, most, exp
<1> QED
  BY <1>11, <1>12

(* Counters and logs. *)

\* A fixed window's cell.
CounterCell(c) == c = Absent \/ c \in [start : Int, count : Nat \ {0}, exp : Nat]

\* A time lies in its aligned window.
LEMMA WindowStartBounds ==
  ASSUME NEW r, RateOK(r), NEW now \in Nat
  PROVE  WindowStart(r, now) \in Int /\ WindowStart(r, now) <= now /\ now < WindowStart(r, now) + r.period
<1>1. r.period \in Nat \ {0}
  BY DEF RateOK
<1> DEFINE q == now \div r.period
<1>2. q \in Int /\ r.period * q <= now /\ now < r.period * q + r.period
  <2>1. \A p \in Nat \ {0} : now \div p \in Int /\ p * (now \div p) <= now /\ now < p * (now \div p) + p
    BY DivBounds
  <2> QED
    BY <1>1, <2>1
<1> HIDE DEF q
<1>3. q * r.period = r.period * q /\ q * r.period \in Int
  BY <1>1, <1>2
<1> QED
  BY <1>1, <1>2, <1>3 DEF WindowStart, q

\* A fixed window counts every request, and admits one only while the count is
\* within the limit.
LEMMA FixedWindowStep ==
  ASSUME NEW r, RateOK(r), NEW c, CounterCell(c),
         NEW now \in Nat, NEW at \in Nat, NEW cost \in Costs
  PROVE  LET out == FixedWindow(r, c, now, cost, at)
             new == out.cell
         IN  /\ new \in [start : Int, count : Nat \ {0}, exp : Nat]
             /\ out.wait = 0 => new.count <= r.limit
             /\ InWindow(r, c, now, at) =>
                  /\ c \in [start : Int, count : Nat \ {0}, exp : Nat]
                  /\ new.start = c.start /\ new.exp = c.exp /\ new.count = c.count + cost
             /\ ~ InWindow(r, c, now, at) =>
                  new.start = WindowStart(r, now) /\ new.exp = at + FixedWindowTTL(r) /\ new.count = cost
<1> DEFINE out == FixedWindow(r, c, now, cost, at)
           kept == IF InWindow(r, c, now, at) THEN c ELSE Absent
           new == Counted(r, kept, now, cost, at)
           fresh == [start |-> WindowStart(r, now), count |-> cost, exp |-> at + FixedWindowTTL(r)]
           until == r.period - (now - WindowStart(r, now))
<1>1. out = Outcome(IF new.count > r.limit THEN until ELSE 0, new)
  BY DEF FixedWindow
<1>2. out.cell = new /\ out.wait = IF new.count > r.limit THEN until ELSE 0
  BY <1>1 DEF Outcome
<1>3. until # 0
  BY WindowStartBounds DEF RateOK
<1>4. cost \in Nat \ {0} /\ at + FixedWindowTTL(r) \in Nat /\ WindowStart(r, now) \in Int
  BY ScenariosAssumption, TTLsPositive, WindowStartBounds DEF TTLs
<1>5. fresh \in [start : Int, count : Nat \ {0}, exp : Nat]
  BY <1>4
<1>6. CASE InWindow(r, c, now, at)
  <2>1. Live(c, at) /\ kept = c
    BY <1>6 DEF InWindow
  <2>2. c \in [start : Int, count : Nat \ {0}, exp : Nat]
    BY <2>1, AbsentIsDead DEF CounterCell
  <2>3. new = [c EXCEPT !.count = @ + cost]
    BY <2>1 DEF Counted
  <2>4. c.count + cost \in Nat \ {0}
    BY <1>4, <2>2
  <2>5. new = [start |-> c.start, count |-> c.count + cost, exp |-> c.exp]
    BY <2>2, <2>3
  <2> HIDE DEF out, new, until
  <2>6. /\ new \in [start : Int, count : Nat \ {0}, exp : Nat]
        /\ new.start = c.start /\ new.exp = c.exp /\ new.count = c.count + cost
    BY <2>2, <2>4, <2>5
  <2>7. out.wait = 0 => new.count <= r.limit
    BY <1>2, <1>3, <2>4, <2>6 DEF RateOK
  <2> QED
    BY <1>2, <1>6, <2>2, <2>6, <2>7 DEF out
<1>7. CASE ~ InWindow(r, c, now, at)
  <2>1. ~ Live(kept, at)
    BY <1>7, AbsentIsDead
  <2>2. new = fresh
    BY <2>1 DEF Counted
  <2> HIDE DEF out, new, until
  <2>3. new \in [start : Int, count : Nat \ {0}, exp : Nat]
    BY <1>5, <2>2
  <2>4. new.start = WindowStart(r, now) /\ new.exp = at + FixedWindowTTL(r) /\ new.count = cost
    BY <2>2
  <2>5. out.wait = 0 => new.count <= r.limit
    BY <1>2, <1>3, <1>4, <2>4 DEF RateOK
  <2> QED
    BY <1>2, <1>7, <2>3, <2>4, <2>5 DEF out
<1> QED
  BY <1>6, <1>7

\* A log's cell: the entries are never heavier than the limit.
LogCell(r, c) ==
  c = Absent \/ (c \in [log : Logs, exp : Nat] /\ LogCost(c.log) <= r.limit)

\* So are those that are read.
LEMMA LogAtType ==
  ASSUME NEW r, RateOK(r), NEW c, LogCell(r, c), NEW at \in Nat
  PROVE  LogAt(c, at) \in Logs /\ LogCost(LogAt(c, at)) <= r.limit
<1>1. {} \in Logs
  BY FS_EmptySet DEF Logs
<1>2. CASE Live(c, at)
  BY <1>2, AbsentIsDead DEF LogCell, LogAt
<1>3. CASE ~ Live(c, at)
  BY <1>1, <1>3, LogCostEmpty DEF LogAt, RateOK
<1> QED
  BY <1>2, <1>3

\* And those of them that are within the period.
LEMMA WithinType ==
  ASSUME NEW r, NEW L \in Logs, NEW now
  PROVE  Within(r, L, now) \in Logs /\ Within(r, L, now) \subseteq L /\ LogCost(Within(r, L, now)) <= LogCost(L)
<1>1. Within(r, L, now) \in SUBSET L
  BY DEF Within
<1> QED
  BY <1>1, LogCostGrows

\* A refused request has to wait.
LEMMA OldestLeavesLater ==
  ASSUME NEW r, RateOK(r), NEW L \in Logs, NEW now \in Nat
  PROVE  UntilOldestLeaves(r, Within(r, L, now), now) \in Nat \ {0}
<1> DEFINE valid == Within(r, L, now)
           T == {e.ts : e \in valid}
<1>1. CASE valid = {}
  BY <1>1, SecondAssumption DEF UntilOldestLeaves
<1>2. CASE valid # {}
  <2>1. \A e \in valid : e.ts \in Nat /\ e.ts > now - r.period
    BY DEF Within, Logs
  <2>2. T \in SUBSET Nat /\ T # {} /\ \A t \in T : t > now - r.period
    BY <1>2, <2>1
  <2>3. PICK t \in T : \A u \in T : t <= u
    BY <2>2, LeastNumber
  <2>4. Min(T) \in T
    BY <2>3 DEF Min
  <2>5. UntilOldestLeaves(r, valid, now) = Min(T) + r.period - now
    BY <1>2 DEF UntilOldestLeaves
  <2> HIDE DEF T, valid
  <2>6. Min(T) \in Nat /\ Min(T) > now - r.period
    BY <2>2, <2>4
  <2> QED
    BY <2>5, <2>6 DEF RateOK, valid
<1> QED
  BY <1>1, <1>2

\* What a hit leaves of the log, and the entry of one that is admitted.
Recorded(r, L, now, cost, out) ==
  /\ out.wait = 0 =>
       \E e \in [ts : {now}, nth : Nat, cost : {cost}] :
         /\ e \notin Within(r, L, now) /\ LogCost(Within(r, L, now)) + cost <= r.limit
         /\ out.cell.log \subseteq Within(r, L, now) \cup {e}
         /\ (r.strategy = "priority_queue" => r.queue >= r.limit) =>
              out.cell.log = Within(r, L, now) \cup {e}

\* A log records what it admits, and forgets what is older than the period.
LEMMA SlidingWindowLogStep ==
  ASSUME NEW r, RateOK(r), r.strategy = "sliding_window_log", NEW c, LogCell(r, c),
         NEW now \in Nat, NEW at \in Nat, NEW cost \in Costs
  PROVE  LET out == SlidingWindowLog(r, c, now, cost, at)
         IN  /\ LogCell(r, out.cell) /\ out.cell \in [log : Logs, exp : {at + LogTTL(r)}]
             /\ Recorded(r, LogAt(c, at), now, cost, out)
             /\ out.wait # 0 => out.cell.log = Within(r, LogAt(c, at), now)
<1> DEFINE out == SlidingWindowLog(r, c, now, cost, at)
           old == LogAt(c, at)
           valid == Within(r, old, now)
           exp == at + LogTTL(r)
<1>1. old \in Logs /\ LogCost(old) <= r.limit
  BY LogAtType
<1>2. valid \in Logs /\ LogCost(valid) <= LogCost(old)
  BY <1>1, WithinType
<1>3. LogCost(valid) \in Nat /\ LogCost(old) \in Nat /\ cost \in Nat \ {0} /\ exp \in Nat /\ r.limit \in Nat
  BY <1>1, <1>2, LogCostType, ScenariosAssumption, TTLsPositive DEF TTLs, RateOK
<1>4. \A x, y : (out = Outcome(x, y)) => out.wait = x /\ out.cell = y
  BY DEF Outcome
<1> HIDE DEF valid, exp, old
<1>5. CASE LogCost(valid) + cost > r.limit
  <2>1. out = Outcome(UntilOldestLeaves(r, valid, now), [log |-> valid, exp |-> exp])
    BY <1>5 DEF SlidingWindowLog, valid, exp, old
  <2>2. UntilOldestLeaves(r, valid, now) # 0
    BY <1>1, OldestLeavesLater DEF valid
  <2>3. out.wait # 0 /\ out.cell = [log |-> valid, exp |-> exp]
    BY <1>4, <2>1, <2>2
  <2> HIDE DEF out
  <2>4. out.cell \in [log : Logs, exp : {exp}] /\ out.cell \in [log : Logs, exp : Nat] /\ out.cell.log = valid
    BY <1>2, <1>3, <2>3
  <2>5. LogCell(r, out.cell)
    BY <1>1, <1>2, <1>3, <2>4 DEF LogCell
  <2> QED
    BY <2>3, <2>4, <2>5 DEF out, Recorded, valid, old, exp
<1>6. CASE ~ (LogCost(valid) + cost > r.limit)
  <2> DEFINE log == Logged(valid, now, cost)
  <2>1. out = Outcome(0, [log |-> log, exp |-> exp])
    BY <1>6 DEF SlidingWindowLog, valid, exp, old
  <2>2. out.wait = 0 /\ out.cell = [log |-> log, exp |-> exp]
    BY <1>4, <2>1
  <2>3. PICK e \in [ts : {now}, nth : Nat, cost : {cost}] : e \notin valid /\ log = valid \cup {e}
    BY <1>2, LoggedIsNew
  <2>4. e \in [ts : Nat, nth : Nat, cost : Costs] /\ e.cost = cost
    OBVIOUS
  <2> HIDE DEF out, log
  <2>5. log \in Logs /\ LogCost(log) = LogCost(valid) + cost
    BY <1>2, <2>3, <2>4, LogCostAdd
  <2>6. out.cell \in [log : Logs, exp : {exp}] /\ out.cell \in [log : Logs, exp : Nat] /\ out.cell.log = log
    BY <1>3, <2>2, <2>5
  <2>7. LogCell(r, out.cell)
    BY <1>3, <1>6, <2>5, <2>6 DEF LogCell
  <2>8. LogCost(valid) + cost <= r.limit
    BY <1>3, <1>6
  <2>9. Recorded(r, old, now, cost, out)
    BY <2>3, <2>6, <2>8 DEF Recorded, valid
  <2> QED
    BY <2>2, <2>6, <2>7, <2>9 DEF out, old, exp
<1> QED
  BY <1>5, <1>6

\* A queue with room for as many entries as the limit drops none.
LEMMA TrimmedAll ==
  ASSUME NEW r, RateOK(r), r.strategy = "priority_queue", NEW L \in Logs
  PROVE  /\ Trimmed(r, L) \in SUBSET L
         /\ LogCost(L) <= r.limit /\ r.queue >= r.limit => Trimmed(r, L) = L
<1>1. Trimmed(r, L) \in SUBSET L
  BY DEF Trimmed
<1>2. ASSUME LogCost(L) <= r.limit, r.queue >= r.limit, NEW e \in L
      PROVE  Cardinality({d \in L : Earlier(d, e)}) < r.queue
  <2> DEFINE T == {d \in L : Earlier(d, e)}
  <2>1. IsFiniteSet(L) /\ Cardinality(L) \in Nat /\ Cardinality(L) <= LogCost(L) /\ LogCost(L) \in Nat
    BY LogCostType, FS_CardinalityType DEF Logs
  <2>2. e.ts \in Nat /\ e.nth \in Nat
    BY DEF Logs
  <2>3. ~ Earlier(e, e)
    BY <2>2 DEF Earlier
  <2>4. T \subseteq L \ {e}
    BY <2>3
  <2>5. IsFiniteSet(L \ {e}) /\ Cardinality(L \ {e}) = Cardinality(L) - 1
    BY <2>1, FS_RemoveElement
  <2> HIDE DEF T
  <2>6. IsFiniteSet(T) /\ Cardinality(T) <= Cardinality(L \ {e}) /\ Cardinality(T) \in Nat
    BY <2>4, <2>5, FS_Subset, FS_CardinalityType
  <2>7. Cardinality(T) < r.queue
    BY <1>2, <2>1, <2>5, <2>6 DEF RateOK, StrategyFields
  <2> QED
    BY <2>7 DEF T
<1>3. ASSUME LogCost(L) <= r.limit, r.queue >= r.limit
      PROVE  Trimmed(r, L) = L
  BY <1>2, <1>3 DEF Trimmed
<1> QED
  BY <1>1, <1>3

\* So does a priority queue that may hold as many entries as the limit; a request it
\* refuses leaves it alone.
LEMMA PriorityQueueStep ==
  ASSUME NEW r, RateOK(r), r.strategy = "priority_queue", NEW c, LogCell(r, c),
         NEW now \in Nat, NEW at \in Nat, NEW cost \in Costs
  PROVE  LET out == PriorityQueue(r, c, now, cost, at)
         IN  /\ LogCell(r, out.cell)
             /\ out.wait = 0 => out.cell \in [log : Logs, exp : {at + LogTTL(r)}]
             /\ Recorded(r, LogAt(c, at), now, cost, out)
             /\ out.wait # 0 => out.cell = c
<1> DEFINE out == PriorityQueue(r, c, now, cost, at)
           old == LogAt(c, at)
           valid == Within(r, old, now)
           exp == at + LogTTL(r)
<1>1. old \in Logs /\ LogCost(old) <= r.limit
  BY LogAtType
<1>2. valid \in Logs /\ LogCost(valid) <= LogCost(old)
  BY <1>1, WithinType
<1>3. LogCost(valid) \in Nat /\ LogCost(old) \in Nat /\ cost \in Nat \ {0} /\ exp \in Nat /\ r.limit \in Nat
  BY <1>1, <1>2, LogCostType, ScenariosAssumption, TTLsPositive DEF TTLs, RateOK
<1>4. \A x, y : (out = Outcome(x, y)) => out.wait = x /\ out.cell = y
  BY DEF Outcome
<1> HIDE DEF valid, exp, old
<1>5. CASE LogCost(valid) + cost > r.limit
  <2> DEFINE wait == IF valid = {} THEN r.period ELSE UntilOldestLeaves(r, valid, now)
  <2>1. out = Outcome(wait, c)
    BY <1>5 DEF PriorityQueue, valid, old
  <2>2. wait # 0
    BY <1>1, OldestLeavesLater DEF valid, RateOK
  <2>3. out.wait # 0 /\ out.cell = c
    BY <1>4, <2>1, <2>2
  <2> QED
    BY <2>3 DEF Recorded
<1>6. CASE ~ (LogCost(valid) + cost > r.limit)
  <2> DEFINE all == Logged(valid, now, cost)
             log == Trimmed(r, all)
  <2>1. out = Outcome(0, [log |-> log, exp |-> exp])
    BY <1>6 DEF PriorityQueue, valid, exp, old
  <2>2. out.wait = 0 /\ out.cell = [log |-> log, exp |-> exp]
    BY <1>4, <2>1
  <2>3. PICK e \in [ts : {now}, nth : Nat, cost : {cost}] : e \notin valid /\ all = valid \cup {e}
    BY <1>2, LoggedIsNew
  <2>4. e \in [ts : Nat, nth : Nat, cost : Costs] /\ e.cost = cost
    OBVIOUS
  <2> HIDE DEF out, log, all
  <2>5. all \in Logs /\ LogCost(all) = LogCost(valid) + cost
    BY <1>2, <2>3, <2>4, LogCostAdd
  <2>6. LogCost(all) <= r.limit /\ LogCost(valid) + cost <= r.limit
    BY <1>3, <1>6, <2>5
  <2>7. log \in SUBSET all /\ (r.queue >= r.limit => log = all)
    BY <2>5, <2>6, TrimmedAll DEF log
  <2>8. log \in Logs /\ LogCost(log) <= LogCost(all)
    BY <2>5, <2>7, LogCostGrows
  <2>9. out.cell \in [log : Logs, exp : {exp}] /\ out.cell \in [log : Logs, exp : Nat] /\ out.cell.log = log
    BY <1>3, <2>2, <2>8
  <2>10. LogCell(r, out.cell)
    <3>1. LogCost(log) \in Nat /\ LogCost(all) \in Nat
      BY <2>5, <2>8, LogCostType
    <3> QED
      BY <1>3, <2>6, <2>8, <2>9, <3>1 DEF LogCell
  <2>11. Recorded(r, old, now, cost, out)
    BY <2>3, <2>6, <2>7, <2>9 DEF Recorded, valid
  <2> QED
    BY <2>2, <2>9, <2>10, <2>11 DEF out, old, exp
<1> QED
  BY <1>5, <1>6

(* What is stored per window. *)

\* A tier's hit, and one that follows the hour, stores a count.
LEMMA TieredRateStep ==
  ASSUME NEW r, RateOK(r), r.strategy \in {"tiered_rate", "time_of_day"}, NEW c, WindowCell(r, c),
         NEW now \in Nat, NEW at \in Nat, NEW cost \in Costs
  PROVE  WindowCell(r, TieredRate(r, c, now, cost, at).cell)
<1>1. cost \in Nat /\ cost \in Int
  BY ScenariosAssumption
<1>2. WindowCell(r, Added(r, c, <<"count", Window(r, now)>>, cost, at))
  BY <1>1, AddedShape
<1> QED
  BY <1>2 DEF TieredRate, Outcome

\* Neither the lowered nor the recovered limit leaves the range from the floor to
\* the rate's.
LEMMA LimitInRange ==
  ASSUME NEW r, RateOK(r), r.strategy = "adaptive_throttle",
         NEW v \in Nat, v <= 100 * r.limit
  PROVE  /\ ValueOK(r, "limit", 100 * r.limit)
         /\ ValueOK(r, "limit", Lowered(r, v))
         /\ ValueOK(r, "limit", v) => ValueOK(r, "limit", Recovered(r, v))
<1> DEFINE least == r.limit * r.floor
           most  == 100 * r.limit
           gain  == r.limit * r.recovery
           cut   == (v * r.reduction) \div 100
<1>1. r.limit \in Nat \ {0} /\ r.floor \in 0 .. 100 /\ r.reduction \in 0 .. 100 /\ r.recovery \in 0 .. 100
  BY DEF RateOK, StrategyFields
<1>2. least \in Nat /\ most \in Nat /\ gain \in Nat /\ least <= most
  <2>1. r.limit * r.floor <= r.limit * 100 /\ r.limit * r.floor \in Nat /\ r.limit * r.recovery \in Nat
    BY <1>1, ProductGrows, ProductIsNat
  <2> QED
    BY <1>1, <2>1
<1>3. cut \in 0 .. v
  BY <1>1, Percentage
<1> HIDE DEF least, most, gain, cut
<1>4. v <= most
  BY DEF most
<1>5. \A x \in Int : ValueOK(r, "limit", x) <=> least <= x /\ x <= most
  BY <1>2 DEF ValueOK, least, most
<1>6. ValueOK(r, "limit", most)
  BY <1>2, <1>5
<1>7. Lowered(r, v) = AtLeast(cut, least)
  BY DEF Lowered, cut, least
<1>8. AtLeast(cut, least) \in Int /\ least <= AtLeast(cut, least) /\ AtLeast(cut, least) <= most
  BY <1>2, <1>3, <1>4 DEF AtLeast
<1>9. Recovered(r, v) = AtMost(v + gain, most)
  BY DEF Recovered, gain, most
<1>10. least <= v => AtMost(v + gain, most) \in Int /\ least <= AtMost(v + gain, most) /\ AtMost(v + gain, most) <= most
  BY <1>2, <1>4 DEF AtMost
<1> QED
  BY <1>5, <1>6, <1>7, <1>8, <1>9, <1>10 DEF most

\* So the limit that is read is in the range.
LEMMA StoredLimit ==
  ASSUME NEW r, RateOK(r), r.strategy = "adaptive_throttle", NEW c, WindowCell(r, c), NEW w, NEW at,
         Stored(c, <<"limit", w>>, at) # None
  PROVE  LET v == Stored(c, <<"limit", w>>, at)
         IN  v \in Nat /\ v <= 100 * r.limit /\ ValueOK(r, "limit", v)
<1> DEFINE v == Stored(c, <<"limit", w>>, at)
<1>1. ValueOK(r, "limit", v) /\ v \in Int
  BY StoredShape
<1> HIDE DEF v
<1>2. r.limit * r.floor \in Nat
  <2>1. r.limit \in Nat /\ r.floor \in Nat
    BY DEF RateOK, StrategyFields
  <2> QED
    BY <2>1, ProductIsNat
<1>3. r.limit * r.floor <= v /\ v <= 100 * r.limit
  BY <1>1 DEF ValueOK
<1> QED
  BY <1>1, <1>2, <1>3 DEF v

\* The limit an adaptive throttle goes on with is in the range.
LEMMA LimitStays ==
  ASSUME NEW r, RateOK(r), r.strategy = "adaptive_throttle", NEW c, WindowCell(r, c),
         NEW w, NEW at, NEW count
  PROVE  LET known == Stored(c, <<"limit", w>>, at)
             start == IF known = None THEN InitialLimit(r, c, w, at) ELSE known
         IN  ValueOK(r, "limit", IF TooBusy(r, start, count) THEN Lowered(r, start) ELSE start)
<1> DEFINE known == Stored(c, <<"limit", w>>, at)
           start == IF known = None THEN InitialLimit(r, c, w, at) ELSE known
<1>1. r.limit \in Nat /\ 100 * r.limit \in Nat /\ 100 * r.limit <= 100 * r.limit
  BY DEF RateOK
<1>2. ValueOK(r, "limit", 100 * r.limit)
  BY <1>1, LimitInRange
<1>3. \A x : ValueOK(r, "limit", x) => x \in Nat /\ x <= 100 * r.limit
  <2>1. r.limit * r.floor \in Nat
    <3>1. r.floor \in Nat
      BY DEF RateOK, StrategyFields
    <3> QED
      BY <1>1, <3>1, ProductIsNat
  <2> QED
    BY <2>1 DEF ValueOK
<1>4. ValueOK(r, "limit", InitialLimit(r, c, w, at))
  <2> DEFINE previous == Stored(c, <<"limit", w - 1>>, at)
  <2>1. previous # None => previous \in Nat /\ previous <= 100 * r.limit /\ ValueOK(r, "limit", previous)
    BY StoredLimit
  <2>2. previous # None => ValueOK(r, "limit", Recovered(r, previous))
    BY <2>1, LimitInRange
  <2> HIDE DEF previous
  <2> QED
    BY <1>2, <2>2 DEF InitialLimit, previous
<1>5. known # None => ValueOK(r, "limit", known)
  BY StoredLimit
<1> HIDE DEF known
<1>6. ValueOK(r, "limit", start) /\ start \in Nat /\ start <= 100 * r.limit
  BY <1>3, <1>4, <1>5
<1> HIDE DEF start
<1>7. ValueOK(r, "limit", Lowered(r, start))
  BY <1>6, LimitInRange
<1> QED
  BY <1>6, <1>7 DEF start, known

\* An adaptive throttle's hit stores a count and a limit in the range.
LEMMA AdaptiveThrottleStep ==
  ASSUME NEW r, RateOK(r), r.strategy = "adaptive_throttle", NEW c, WindowCell(r, c),
         NEW now \in Nat, NEW at \in Nat, NEW cost \in Costs
  PROVE  WindowCell(r, AdaptiveThrottle(r, c, now, cost, at).cell)
<1> DEFINE w       == Window(r, now)
           counted == Added(r, c, <<"count", w>>, cost, at)
           count   == counted[<<"count", w>>].value
           known   == Stored(c, <<"limit", w>>, at)
           start   == IF known = None THEN InitialLimit(r, c, w, at) ELSE known
           limit   == IF TooBusy(r, start, count) THEN Lowered(r, start) ELSE start
<1>1. AdaptiveThrottle(r, c, now, cost, at).cell =
        IF known = None \/ TooBusy(r, start, count)
        THEN Put(counted, <<"limit", w>>, limit, TwiceTTL(r, at), at) ELSE counted
  BY DEF AdaptiveThrottle, Outcome
<1>2. WindowCell(r, counted)
  <2>1. cost \in Nat /\ cost \in Int
    BY ScenariosAssumption
  <2> QED
    BY <2>1, AddedShape
<1> HIDE DEF w, counted, count
<1>4. ValueOK(r, "limit", limit)
  BY LimitStays
<1>5. TwiceTTL(r, at) \in Int /\ at \in Int
  BY TTLsPositive DEF TTLs, TwiceTTL
<1> HIDE DEF limit
<1>6. <<"limit", w>>[1] = "limit"
  OBVIOUS
<1>7. WindowCell(r, Put(counted, <<"limit", w>>, limit, TwiceTTL(r, at), at))
  BY <1>2, <1>4, <1>5, <1>6, PutShape
<1> QED
  BY <1>1, <1>2, <1>7

\* What rolls over is at most the cap.
LEMMA RolloverInRange ==
  ASSUME NEW r, RateOK(r), r.strategy = "quota_with_rollover", NEW used, used = None \/ used \in Nat
  PROVE  Rollover(r, used) \in 0 .. r.maxRollover
<1> DEFINE unused == AtLeast(r.limit - used, 0)
           part   == (unused * r.percentage) \div 100
<1>1. r.maxRollover \in Nat /\ r.percentage \in 0 .. 100 /\ r.limit \in Nat
  BY DEF RateOK, StrategyFields
<1>2. used # None => unused \in Nat
  BY <1>1 DEF AtLeast
<1> HIDE DEF unused
<1>3. used # None => part \in 0 .. unused
  BY <1>1, <1>2, Percentage
<1>4. Rollover(r, used) = IF used = None THEN 0 ELSE AtMost(part, r.maxRollover)
  BY DEF Rollover, unused
<1> HIDE DEF part
<1> QED
  BY <1>1, <1>2, <1>3, <1>4 DEF AtMost

\* A quota's hit stores a count and a rollover up to the cap.
LEMMA QuotaWithRolloverStep ==
  ASSUME NEW r, RateOK(r), r.strategy = "quota_with_rollover", NEW c, WindowCell(r, c),
         NEW now \in Nat, NEW at \in Nat, NEW cost \in Costs
  PROVE  WindowCell(r, QuotaWithRollover(r, c, now, cost, at).cell)
<1> DEFINE w      == Window(r, now)
           known  == Stored(c, <<"rollover", w>>, at)
           used   == Stored(c, <<"count", w - 1>>, at)
           over   == IF known = None THEN Rollover(r, used) ELSE known
           opened == IF known = None THEN Put(c, <<"rollover", w>>, over, TwiceTTL(r, at), at) ELSE c
<1>1. \/ QuotaWithRollover(r, c, now, cost, at).cell = opened
      \/ QuotaWithRollover(r, c, now, cost, at).cell = Added(r, opened, <<"count", w>>, cost, at)
  BY DEF QuotaWithRollover, Outcome
<1>2. Rollover(r, used) \in 0 .. r.maxRollover
  <2>1. used = None \/ used \in Nat
    BY StoredShape DEF ValueOK
  <2> QED
    BY <2>1, RolloverInRange
<1>3. known # None => ValueOK(r, "rollover", known)
  BY StoredShape
<1>4. ValueOK(r, "rollover", over)
  BY <1>2, <1>3 DEF ValueOK
<1>5. TwiceTTL(r, at) \in Int /\ at \in Int
  BY TTLsPositive DEF TTLs, TwiceTTL
<1> HIDE DEF over, known
<1>6. <<"rollover", w>>[1] = "rollover"
  OBVIOUS
<1>7. WindowCell(r, opened)
  BY <1>4, <1>5, <1>6, PutShape
<1>8. cost \in Nat /\ cost \in Int
  BY ScenariosAssumption
<1> HIDE DEF opened, w
<1>9. WindowCell(r, Added(r, opened, <<"count", w>>, cost, at))
  BY <1>7, <1>8, AddedShape
<1> QED
  BY <1>1, <1>7, <1>9

(* Whatever the strategy, a hit leaves what the strategy may find. *)

\* The highest level of a leaky bucket: one request's cost above the limit at most,
\* when it was the first.
Ceiling(r) == Max(Costs \cup {r.limit}) * r.period

\* What a cell may hold, strategy by strategy.
CellOK(r, c) ==
  /\ r.strategy = "fixed_window" => CounterCell(c)
  /\ r.strategy \in {"sliding_window_log", "priority_queue"} => LogCell(r, c)
  /\ r.strategy = "token_bucket" => TokenCell(r, c)
  /\ r.strategy \in {"leaky_bucket", "leaky_bucket_queue"} =>
       LevelCell(r, c) /\ (c # Absent => c.level <= Ceiling(r))
  /\ r.strategy = "cost_based_token_bucket" => CostCell(r, c)
  /\ r.strategy = "gcra" => TATCell(c)
  /\ r.strategy \in Windowed => WindowCell(r, c)

\* What is read before anything is stored is fine.
LEMMA EmptyCellOK ==
  ASSUME NEW r, RateOK(r)
  PROVE  CellOK(r, EmptyCell(r))
<1>1. CASE r.strategy \in Windowed
  <2>1. EmptyCell(r) = <<>> /\ DOMAIN <<>> = {}
    BY <1>1 DEF EmptyCell
  <2>2. WindowCell(r, <<>>)
    BY <2>1 DEF WindowCell
  <2> QED
    BY <1>1, <2>1, <2>2 DEF CellOK, Windowed
<1>2. CASE r.strategy \notin Windowed
  BY <1>2 DEF EmptyCell, CellOK, CounterCell, LogCell, TokenCell, LevelCell, CostCell, TATCell
<1> QED
  BY <1>1, <1>2

\* A request and the limit are within the ceiling.
LEMMA CeilingBounds ==
  ASSUME NEW r, RateOK(r), NEW cost \in Costs \cup {r.limit}
  PROVE  Ceiling(r) \in Nat /\ cost * r.period <= Ceiling(r) /\ cost * r.period \in Nat
<1> DEFINE S == Costs \cup {r.limit}
           m == Max(S)
<1>1. S \in SUBSET Nat /\ IsFiniteSet(S) /\ S # {}
  BY ScenariosAssumption, FS_AddElement DEF RateOK
<1>2. m \in S /\ cost <= m
  BY <1>1, MaxOfCosts
<1>3. m \in Nat /\ cost \in Nat /\ r.period \in Nat
  BY <1>1, <1>2 DEF RateOK
<1> HIDE DEF m
<1>4. r.period * cost <= r.period * m /\ r.period * cost = cost * r.period /\ r.period * m = m * r.period
  BY <1>2, <1>3, ProductGrows
<1> QED
  BY <1>3, <1>4, ProductIsNat DEF Ceiling, m

\* A leaky bucket's hit keeps the level under the ceiling.
LEMMA LeakedLevel ==
  ASSUME NEW r, RateOK(r), NEW c, LevelCell(r, c), c # Absent => c.level <= Ceiling(r),
         NEW now \in Nat, NEW at \in Nat, NEW cost \in Costs, NEW out, Leaked(r, c, now, at, cost, out)
  PROVE  LevelCell(r, out.cell) /\ out.cell.level <= Ceiling(r)
<1>1. out.cell \in [level : Nat \ {0}, last : Nat, exp : Nat]
  <2>1. at + BucketTTL(r) \in Nat
    BY TTLsPositive DEF TTLs
  <2> QED
    BY <2>1 DEF Leaked
<1>2. CASE out.wait = 0
  <2> DEFINE top == r.limit * r.period
             price == cost * r.period
  <2>1. top <= Ceiling(r) /\ price <= Ceiling(r) /\ Ceiling(r) \in Nat
    BY CeilingBounds
  <2>2. out.cell.level <= top \/ out.cell.level = price
    BY <1>2 DEF Leaked
  <2>3. top \in Nat
    BY ProductIsNat DEF RateOK
  <2> HIDE DEF top, price
  <2> QED
    BY <1>1, <2>1, <2>2, <2>3 DEF LevelCell
<1>3. CASE out.wait # 0
  <2>1. c # Absent /\ out.cell.level = c.level
    BY <1>3, AbsentIsDead DEF Leaked
  <2> QED
    BY <1>1, <2>1 DEF LevelCell
<1> QED
  BY <1>2, <1>3

\* Each strategy's hit is the function of its name.
LEMMA HitOfIs ==
  ASSUME NEW r, NEW c, NEW now, NEW cost, NEW at
  PROVE  /\ r.strategy = "fixed_window" => HitOf(r, c, now, cost, at) = FixedWindow(r, c, now, cost, at)
         /\ r.strategy = "sliding_window_log" => HitOf(r, c, now, cost, at) = SlidingWindowLog(r, c, now, cost, at)
         /\ r.strategy = "priority_queue" => HitOf(r, c, now, cost, at) = PriorityQueue(r, c, now, cost, at)
         /\ r.strategy = "token_bucket" => HitOf(r, c, now, cost, at) = TokenBucket(r, c, now, cost, at)
         /\ r.strategy = "leaky_bucket" => HitOf(r, c, now, cost, at) = LeakyBucket(r, c, now, cost, at)
         /\ r.strategy = "leaky_bucket_queue" => HitOf(r, c, now, cost, at) = LeakyBucketQueue(r, c, now, cost, at)
         /\ r.strategy = "cost_based_token_bucket" => HitOf(r, c, now, cost, at) = CostBasedTokenBucket(r, c, now, cost, at)
         /\ r.strategy = "gcra" => HitOf(r, c, now, cost, at) = GCRA(r, c, now, cost, at)
         /\ r.strategy = "tiered_rate" => HitOf(r, c, now, cost, at) = TieredRate(r, c, now, cost, at)
         /\ r.strategy = "time_of_day" => HitOf(r, c, now, cost, at) = TieredRate(r, c, now, cost, at)
         /\ r.strategy = "adaptive_throttle" => HitOf(r, c, now, cost, at) = AdaptiveThrottle(r, c, now, cost, at)
         /\ r.strategy = "quota_with_rollover" => HitOf(r, c, now, cost, at) = QuotaWithRollover(r, c, now, cost, at)
BY DEF HitOf, Hit, TimeOfDay

\* Every strategy stores what it may hold.
LEMMA HitKeepsCell ==
  ASSUME NEW r, RateOK(r), r.strategy # "sliding_window_counter", NEW c, CellOK(r, c),
         NEW now \in Nat, NEW at \in Nat, NEW cost \in Costs
  PROVE  CellOK(r, HitOf(r, c, now, cost, at).cell)
<1> DEFINE out == HitOf(r, c, now, cost, at)
<1>0. cost \in Nat \ {0} /\ r.strategy \in Strategy
  BY ScenariosAssumption DEF RateOK, StrategyFields
<1>1. CASE r.strategy = "fixed_window"
  <2>1. CounterCell(out.cell)
    BY <1>1, FixedWindowStep, HitOfIs DEF CellOK, CounterCell
  <2> QED
    BY <1>1, <2>1 DEF CellOK, Windowed
<1>2. CASE r.strategy = "sliding_window_log"
  <2>1. LogCell(r, out.cell)
    BY <1>2, SlidingWindowLogStep, HitOfIs DEF CellOK
  <2> QED
    BY <1>2, <2>1 DEF CellOK, Windowed
<1>3. CASE r.strategy = "priority_queue"
  <2>1. LogCell(r, out.cell)
    BY <1>3, PriorityQueueStep, HitOfIs DEF CellOK
  <2> QED
    BY <1>3, <2>1 DEF CellOK, Windowed
<1>4. CASE r.strategy = "token_bucket"
  <2>1. TokenCell(r, out.cell)
    BY <1>0, <1>4, TokenBucketStep, HitOfIs DEF CellOK
  <2> QED
    BY <1>4, <2>1 DEF CellOK, Windowed
<1>5. CASE r.strategy \in {"leaky_bucket", "leaky_bucket_queue"}
  <2>1. LevelCell(r, c) /\ (c # Absent => c.level <= Ceiling(r))
    BY <1>5 DEF CellOK
  <2>2. Leaked(r, c, now, at, cost, out)
    BY <1>0, <1>5, <2>1, LeakyBucketStep, LeakyBucketQueueStep, HitOfIs
  <2>3. LevelCell(r, out.cell) /\ out.cell.level <= Ceiling(r)
    BY <2>1, <2>2, LeakedLevel
  <2> QED
    BY <1>5, <2>3 DEF CellOK, Windowed
<1>6. CASE r.strategy = "cost_based_token_bucket"
  <2>1. CostCell(r, out.cell)
    BY <1>6, CostBasedTokenBucketStep, HitOfIs DEF CellOK
  <2> QED
    BY <1>6, <2>1 DEF CellOK, Windowed
<1>7. CASE r.strategy = "gcra"
  <2>1. TATCell(c)
    BY <1>7 DEF CellOK
  <2>2. /\ out.wait # 0 => out.cell = c
        /\ out.wait = 0 => out.cell \in [tat : Nat, exp : {at + BucketTTL(r)}]
    BY <1>0, <1>7, <2>1, GCRAStep, HitOfIs
  <2>3. at + BucketTTL(r) \in Nat
    BY TTLsPositive DEF TTLs
  <2>4. TATCell(out.cell)
    BY <2>1, <2>2, <2>3 DEF TATCell
  <2> QED
    BY <1>7, <2>4 DEF CellOK, Windowed
<1>8. CASE r.strategy \in Windowed
  <2>1. WindowCell(r, c)
    BY <1>8 DEF CellOK
  <2>2. r.strategy \in {"tiered_rate", "time_of_day", "adaptive_throttle", "quota_with_rollover"}
    BY <1>8 DEF Windowed
  <2>3. WindowCell(r, out.cell)
    BY <2>1, <2>2, TieredRateStep, AdaptiveThrottleStep, QuotaWithRolloverStep, HitOfIs
  <2> QED
    BY <2>2, <2>3 DEF CellOK
<1> QED
  BY <1>0, <1>1, <1>2, <1>3, <1>4, <1>5, <1>6, <1>7, <1>8 DEF Strategy

----------------------------------------------------------------------------
(* What holds of the requests and of the cell. *)

\* What is kept of a request.
Hits ==
  [pc : {"idle", "refused"}] \cup [pc : {"waiting"}, now : Nat, cost : Costs]
    \cup [pc : {"counting"}, now : Nat, cost : Costs, count : Int, previous : Int,
          todo : SUBSET {"count", "read", "refresh"}]
    \cup [pc : {"admitted"}, cost : Costs, at : Nat]

\* The types.
Shapes ==
  /\ scenario \in Scenarios /\ clock \in 0 .. MaxTime
  /\ hit \in [Requests -> Hits]
  /\ CellOK(rate, cell)

\* No request has read a time that is ahead of the clock, nor one further behind
\* than the delay; none was admitted in the future.
Times ==
  \A q \in Requests :
    /\ Pending(q) \/ Counting(q) => hit[q].now <= clock /\ clock <= hit[q].now + scenario.delay
    /\ Counting(q) => Stepwise
    /\ Admitted(q) => hit[q].at <= clock

\* Without waiting the counter's requests are alone, and what one of them has
\* counted is there until it takes it back.
Counters ==
  Stepwise /\ scenario.delay = 0 =>
    /\ \A k \in DOMAIN cell : cell[k].value \in Nat
    /\ \A p, q \in Requests : Counting(p) /\ Counting(q) => p = q
    /\ \A q \in Requests : Counting(q) =>
         /\ "count" \notin hit[q].todo => Stored(cell, <<"count", Mine(q)>>, clock) >= hit[q].cost
         /\ "refresh" \in hit[q].todo => hit[q].previous \in Nat /\ "read" \notin hit[q].todo

\* The inductive invariant that the types and the other invariants rest on.
Inductive == Shapes /\ Times /\ Counters

\* The rate of the run is one the assumption admits.
LEMMA RateIsOK ==
  ASSUME scenario \in Scenarios
  PROVE  /\ RateOK(rate) /\ scenario.delay \in Nat
         /\ rate.limit \in Nat \ {0} /\ rate.period \in Nat \ {0} /\ rate.capacity \in Nat /\ rate.debt \in Nat
BY ScenariosAssumption DEF RateOK, rate

\* What a request's state says of its fields.
LEMMA HitKinds ==
  ASSUME NEW h \in Hits
  PROVE  /\ h.pc = "waiting" => h = [pc |-> "waiting", now |-> h.now, cost |-> h.cost] /\ h.now \in Nat /\ h.cost \in Costs
         /\ h.pc = "counting" =>
              /\ h \in [pc : {"counting"}, now : Nat, cost : Costs, count : Int, previous : Int,
                        todo : SUBSET {"count", "read", "refresh"}]
              /\ h.now \in Nat /\ h.cost \in Costs /\ h.count \in Int /\ h.previous \in Int
              /\ h.todo \subseteq {"count", "read", "refresh"}
         /\ h.pc = "admitted" => h.cost \in Costs /\ h.at \in Nat
         /\ h.pc \in {"idle", "refused", "waiting", "counting", "admitted"}
BY DEF Hits

\* At the start the invariant holds.
LEMMA InductiveInit == Init => Inductive
<1> SUFFICES ASSUME Init PROVE Inductive
  OBVIOUS
<1> USE DEF Init
<1>1. Shapes
  <2>1. CellOK(rate, cell)
    BY RateIsOK, EmptyCellOK
  <2> QED
    BY <2>1, ScenariosAssumption DEF Shapes, Hits
<1>2. \A q \in Requests : ~ Pending(q) /\ ~ Counting(q) /\ ~ Admitted(q)
  BY DEF Pending, Counting, Admitted
<1>3. Times
  BY <1>2 DEF Times
<1>4. Counters
  <2>1. Stepwise => cell = <<>>
    BY DEF Stepwise, EmptyCell, Windowed
  <2>2. Stepwise => DOMAIN cell = {}
    BY <2>1
  <2> QED
    BY <1>2, <2>2 DEF Counters
<1> QED
  BY <1>1, <1>3, <1>4 DEF Inductive

\* A request that reads the clock keeps it.
LEMMA InductiveBegin ==
  ASSUME Inductive, NEW q \in Requests, Begin(q)
  PROVE  Inductive'
<1>1. PICK cost \in Costs : hit' = [hit EXCEPT ![q] = [pc |-> "waiting", now |-> clock, cost |-> cost]]
  BY DEF Begin
<1>2. scenario' = scenario /\ clock' = clock /\ cell' = cell /\ rate' = rate
  BY DEF Begin, rate
<1>3. hit \in [Requests -> Hits] /\ clock \in Nat /\ scenario.delay \in Nat
  BY RateIsOK DEF Inductive, Shapes
<1> DEFINE h == [pc |-> "waiting", now |-> clock, cost |-> cost]
<1>4. h \in Hits /\ h.pc = "waiting" /\ h.now = clock
  BY <1>3 DEF Hits
<1> HIDE DEF h
<1>5. hit' \in [Requests -> Hits] /\ hit'[q] = h /\ \A p \in Requests : p # q => hit'[p] = hit[p]
  BY <1>1, <1>3, <1>4 DEF h
<1>6. Shapes'
  BY <1>2, <1>5 DEF Inductive, Shapes
<1>7. \A p \in Requests : Counting(p)' => p # q /\ hit'[p] = hit[p] /\ Counting(p)
  BY <1>4, <1>5 DEF Counting
<1>8. Times'
  BY <1>2, <1>3, <1>4, <1>5 DEF Inductive, Times, Pending, Counting, Admitted, Stepwise
<1>9. Counters'
  BY <1>2, <1>7 DEF Inductive, Counters, Stepwise, Mine
<1> QED
  BY <1>6, <1>8, <1>9 DEF Inductive

\* So does the clock: it waits for a request that may wait no longer.
LEMMA InductiveTick ==
  ASSUME Inductive, Tick
  PROVE  Inductive'
<1>1. /\ scenario' = scenario /\ cell' = cell /\ hit' = hit /\ rate' = rate /\ clock' = clock + 1
      /\ clock < MaxTime /\ clock \in Nat /\ scenario.delay \in Nat /\ MaxTime \in Nat
  BY RateIsOK, ScenariosAssumption DEF Inductive, Shapes, Tick, rate
<1>2. Shapes'
  BY <1>1 DEF Inductive, Shapes
<1>3. \A q \in Requests : Pending(q) \/ Counting(q) =>
        hit[q].now \in Nat /\ clock < hit[q].now + scenario.delay /\ hit[q].now <= clock
  BY HitKinds DEF Tick, Inductive, Shapes, Times, Pending, Counting
<1>4. \A q \in Requests : Admitted(q) => hit[q].at \in Nat /\ hit[q].at <= clock
  BY HitKinds DEF Inductive, Shapes, Times, Admitted
<1>5. Times'
  BY <1>1, <1>3, <1>4 DEF Inductive, Times, Pending, Counting, Admitted, Stepwise
<1>6. scenario.delay = 0 => \A q \in Requests : ~ Counting(q)
  BY <1>1, <1>3
<1>7. Counters'
  BY <1>1, <1>6 DEF Inductive, Counters, Stepwise, Counting
<1> QED
  BY <1>2, <1>5, <1>7 DEF Inductive

\* A request that was decided is admitted now, or of no further interest.
LEMMA DecidedHit ==
  ASSUME Inductive, NEW q \in Requests, Pending(q) \/ Counting(q), NEW wait, Decided(q, wait)
  PROVE  /\ hit' \in [Requests -> Hits] /\ \A p \in Requests : p # q => hit'[p] = hit[p]
         /\ hit[q].cost \in Costs /\ hit[q].now \in Nat
         /\ wait = 0 => hit'[q] = [pc |-> "admitted", cost |-> hit[q].cost, at |-> clock]
         /\ wait # 0 => hit'[q] = [pc |-> "refused"]
<1> DEFINE h == IF wait = 0 THEN [pc |-> "admitted", cost |-> hit[q].cost, at |-> clock] ELSE [pc |-> "refused"]
<1>1. hit' = [hit EXCEPT ![q] = h]
  BY DEF Decided
<1>2. hit \in [Requests -> Hits] /\ clock \in Nat
  BY DEF Inductive, Shapes
<1>3. hit[q].cost \in Costs /\ hit[q].now \in Nat
  BY <1>2, HitKinds DEF Pending, Counting
<1>4. h \in Hits
  BY <1>2, <1>3 DEF Hits
<1> HIDE DEF h
<1>5. hit' \in [Requests -> Hits] /\ hit'[q] = h /\ \A p \in Requests : p # q => hit'[p] = hit[p]
  BY <1>1, <1>2, <1>4
<1> QED
  BY <1>3, <1>5 DEF h

\* So does a decision, of which only the time and the cost are kept.
LEMMA InductiveDecided ==
  ASSUME Inductive, NEW q \in Requests, Pending(q) \/ Counting(q), NEW wait, Decided(q, wait),
         scenario' = scenario, clock' = clock, CellOK(rate, cell')
  PROVE  /\ Shapes' /\ Times' /\ ~ Counting(q)'
         /\ \A p \in Requests : Counting(p)' => p # q /\ hit'[p] = hit[p] /\ Counting(p)
<1>1. rate' = rate /\ clock \in Nat
  BY DEF Inductive, Shapes, rate
<1>2. hit' \in [Requests -> Hits] /\ \A p \in Requests : p # q => hit'[p] = hit[p]
  BY DecidedHit
<1>3. \/ hit'[q].pc = "admitted" /\ hit'[q].at = clock
      \/ hit'[q].pc = "refused"
  <2>1. /\ wait = 0 => hit'[q] = [pc |-> "admitted", cost |-> hit[q].cost, at |-> clock]
        /\ wait # 0 => hit'[q] = [pc |-> "refused"]
    BY DecidedHit
  <2> QED
    BY <2>1
<1>4. Shapes'
  BY <1>1, <1>2 DEF Inductive, Shapes
<1>5. Times'
  BY <1>1, <1>2, <1>3 DEF Inductive, Times, Pending, Counting, Admitted, Stepwise
<1>6. ~ Counting(q)'
  BY <1>3 DEF Counting
<1>7. \A p \in Requests : Counting(p)' => p # q /\ hit'[p] = hit[p] /\ Counting(p)
  BY <1>2, <1>6 DEF Counting
<1> QED
  BY <1>4, <1>5, <1>6, <1>7

\* A decision under the lock stores what a cell may hold.
LEMMA InductiveDecide ==
  ASSUME Inductive, NEW q \in Requests, Decide(q)
  PROVE  Inductive'
<1> DEFINE outcome == HitOf(rate, cell, hit[q].now, hit[q].cost, clock)
<1>1. /\ Pending(q) /\ ~ Stepwise /\ cell' = outcome.cell /\ Decided(q, outcome.wait)
      /\ scenario' = scenario /\ clock' = clock
  BY DEF Decide
<1>2. hit[q].now \in Nat /\ hit[q].cost \in Costs /\ clock \in Nat /\ RateOK(rate) /\ CellOK(rate, cell)
  BY <1>1, HitKinds, RateIsOK DEF Inductive, Shapes, Pending
<1>3. CellOK(rate, cell')
  BY <1>1, <1>2, HitKeepsCell DEF Stepwise
<1>4. Shapes' /\ Times'
  BY <1>1, <1>3, InductiveDecided
<1>5. ~ Stepwise'
  BY <1>1 DEF Stepwise, rate
<1> QED
  BY <1>4, <1>5 DEF Inductive, Counters

(* The sliding window counter, step by step. *)

\* What is known of a request that is counting: its window, and that what it stores
\* is alive.
LEMMA CountingFacts ==
  ASSUME Inductive, NEW q \in Requests, Counting(q)
  PROVE  /\ hit[q] \in [pc : {"counting"}, now : Nat, cost : Costs, count : Int, previous : Int,
                        todo : SUBSET {"count", "read", "refresh"}]
         /\ hit[q].now \in Nat /\ hit[q].cost \in Costs /\ hit[q].cost \in Nat \ {0}
         /\ hit[q].count \in Int /\ hit[q].previous \in Int
         /\ hit[q].todo \subseteq {"count", "read", "refresh"}
         /\ Stepwise /\ RateOK(rate) /\ WindowCell(rate, cell) /\ Mine(q) \in Int
         /\ clock \in Nat /\ TwiceTTL(rate, clock) \in Nat /\ clock < TwiceTTL(rate, clock)
<1>1. hit[q] \in Hits /\ clock \in Nat /\ RateOK(rate) /\ CellOK(rate, cell) /\ rate.period \in Nat \ {0}
  BY RateIsOK DEF Inductive, Shapes
<1>2. Stepwise
  BY DEF Inductive, Times
<1>3. WindowCell(rate, cell)
  BY <1>1, <1>2 DEF CellOK, Stepwise, Windowed
<1>4. TwiceTTL(rate, clock) \in Nat /\ clock < TwiceTTL(rate, clock)
  BY <1>1, TTLsPositive DEF TTLs, TwiceTTL
<1>5. /\ hit[q] \in [pc : {"counting"}, now : Nat, cost : Costs, count : Int, previous : Int,
                     todo : SUBSET {"count", "read", "refresh"}]
      /\ hit[q].now \in Nat /\ hit[q].cost \in Costs /\ hit[q].count \in Int /\ hit[q].previous \in Int
      /\ hit[q].todo \subseteq {"count", "read", "refresh"}
  BY <1>1, HitKinds DEF Counting
<1>6. hit[q].cost \in Nat \ {0}
  BY <1>5, ScenariosAssumption
<1>7. Mine(q) \in Int
  <2>1. \A n \in Nat, d \in Nat \ {0} : n \div d \in Int
    BY DivBounds
  <2> QED
    BY <1>1, <1>5, <2>1 DEF Mine, Window
<1> QED
  BY <1>1, <1>2, <1>3, <1>4, <1>5, <1>6, <1>7

\* The lock of a window admits one request of that window.
LEMMA InductiveLock ==
  ASSUME Inductive, NEW q \in Requests, Lock(q)
  PROVE  Inductive'
<1> DEFINE h == [pc |-> "counting", now |-> hit[q].now, cost |-> hit[q].cost,
                 count |-> 0, previous |-> None, todo |-> {"count", "read"}]
<1>1. /\ Pending(q) /\ Stepwise /\ hit' = [hit EXCEPT ![q] = h]
      /\ scenario' = scenario /\ clock' = clock /\ cell' = cell /\ rate' = rate
      /\ \A p \in Requests : Counting(p) => Mine(p) # Mine(q)
  BY DEF Lock, rate
<1>2. hit \in [Requests -> Hits] /\ clock \in Nat /\ scenario.delay \in Nat
  BY RateIsOK DEF Inductive, Shapes
<1>3. hit[q].now \in Nat /\ hit[q].cost \in Costs
  BY <1>1, <1>2, HitKinds DEF Pending
<1>4. h \in Hits /\ h.pc = "counting" /\ h.now = hit[q].now /\ h.todo = {"count", "read"}
  BY <1>3 DEF Hits, None
<1> HIDE DEF h
<1>5. hit' \in [Requests -> Hits] /\ hit'[q] = h /\ \A p \in Requests : p # q => hit'[p] = hit[p]
  BY <1>1, <1>2, <1>4
<1>6. Shapes'
  BY <1>1, <1>5 DEF Inductive, Shapes
<1>7. Times'
  BY <1>1, <1>4, <1>5 DEF Inductive, Times, Pending, Counting, Admitted, Stepwise
<1>8. ASSUME scenario.delay = 0, NEW p \in Requests PROVE ~ Counting(p)
  <2> SUFFICES ASSUME Counting(p) PROVE FALSE
    OBVIOUS
  <2>1. hit[p].now \in Nat
    BY <1>2, HitKinds DEF Counting
  <2>2. hit[p].now = clock /\ hit[q].now = clock
    BY <1>1, <1>2, <1>3, <1>8, <2>1 DEF Inductive, Times
  <2> QED
    BY <1>1, <2>2 DEF Mine
<1>9. Counters'
  <2> SUFFICES ASSUME Stepwise', scenario'.delay = 0
               PROVE  /\ \A k \in DOMAIN cell' : cell'[k].value \in Nat
                      /\ \A x, y \in Requests : Counting(x)' /\ Counting(y)' => x = y
                      /\ \A x \in Requests : Counting(x)' =>
                           /\ "count" \notin hit'[x].todo => Stored(cell', <<"count", Mine(x)'>>, clock') >= hit'[x].cost
                           /\ "refresh" \in hit'[x].todo => hit'[x].previous \in Nat /\ "read" \notin hit'[x].todo
    BY DEF Counters
  <2>1. scenario.delay = 0
    BY <1>1
  <2>2. \A x \in Requests : Counting(x)' => x = q
    BY <1>5, <1>8, <2>1 DEF Counting
  <2>3. \A k \in DOMAIN cell' : cell'[k].value \in Nat
    BY <1>1, <2>1 DEF Inductive, Counters
  <2>4. "count" \in hit'[q].todo /\ "refresh" \notin hit'[q].todo
    BY <1>4, <1>5
  <2> QED
    BY <2>2, <2>3, <2>4
<1> QED
  BY <1>6, <1>7, <1>9 DEF Inductive

\* A step of a counting request that stays one changes only what it has done.
LEMMA InductiveCounting ==
  ASSUME Inductive, NEW q \in Requests, Counting(q),
         NEW h \in [pc : {"counting"}, now : {hit[q].now}, cost : {hit[q].cost}, count : Int, previous : Int,
                    todo : SUBSET {"count", "read", "refresh"}],
         hit' = [hit EXCEPT ![q] = h], scenario' = scenario, clock' = clock, WindowCell(rate, cell')
  PROVE  /\ Shapes' /\ Times' /\ rate' = rate
         /\ hit'[q] = h /\ Mine(q)' = Mine(q)
         /\ \A p \in Requests : p # q => hit'[p] = hit[p] /\ Mine(p)' = Mine(p) /\ (Counting(p)' <=> Counting(p))
<1>1. hit \in [Requests -> Hits] /\ rate' = rate
  BY DEF Inductive, Shapes, rate
<1>2. hit[q].now \in Nat /\ hit[q].cost \in Costs /\ Stepwise
  BY CountingFacts
<1>3. h \in Hits /\ h.pc = "counting" /\ h.now = hit[q].now
  BY <1>2 DEF Hits
<1>4. hit' \in [Requests -> Hits] /\ hit'[q] = h /\ \A p \in Requests : p # q => hit'[p] = hit[p]
  BY <1>1, <1>3
<1>5. CellOK(rate, cell')
  BY <1>2 DEF CellOK, Stepwise, Windowed
<1>6. Shapes'
  BY <1>1, <1>4, <1>5 DEF Inductive, Shapes
<1>7. Times'
  BY <1>1, <1>2, <1>3, <1>4 DEF Inductive, Times, Pending, Counting, Admitted, Stepwise
<1> QED
  BY <1>1, <1>3, <1>4, <1>6, <1>7 DEF Mine, Counting

\* What is left to show of a counting request's step.
LEMMA CountersKept ==
  ASSUME Inductive, NEW q \in Requests, Counting(q), rate' = rate, scenario' = scenario, clock' = clock,
         \A p \in Requests : p # q => (Counting(p)' => Counting(p)),
         scenario.delay = 0 =>
           /\ \A k \in DOMAIN cell' : cell'[k].value \in Nat
           /\ Counting(q)' =>
                /\ "count" \notin hit'[q].todo => Stored(cell', <<"count", Mine(q)'>>, clock) >= hit'[q].cost
                /\ "refresh" \in hit'[q].todo => hit'[q].previous \in Nat /\ "read" \notin hit'[q].todo
  PROVE  Counters'
<1>1. Stepwise
  BY DEF Inductive, Times
<1>2. scenario.delay = 0 => \A p \in Requests : Counting(p)' => p = q
  BY <1>1 DEF Inductive, Counters
<1> QED
  BY <1>2 DEF Counters

\* Counting raises the window's count by the cost.
LEMMA InductiveCount ==
  ASSUME Inductive, NEW q \in Requests, Count(q)
  PROVE  Inductive'
<1> DEFINE key == <<"count", Mine(q)>>
           cost == hit[q].cost
           c == Added(rate, cell, key, cost, clock)
           old == Stored(cell, key, clock)
           n == CountIn(c, Mine(q), clock)
           h == [hit[q] EXCEPT !.todo = @ \ {"count"}, !.count = n]
<1>1. Counting(q) /\ cell' = c /\ scenario' = scenario /\ clock' = clock /\ "count" \in hit[q].todo
  BY DEF Count
<1>2. hit' = [hit EXCEPT ![q] = h]
  BY <1>1 DEF Count
<1>3. /\ hit[q] \in [pc : {"counting"}, now : Nat, cost : Costs, count : Int, previous : Int,
                     todo : SUBSET {"count", "read", "refresh"}]
      /\ cost \in Nat \ {0} /\ cost \in Int /\ Stepwise /\ RateOK(rate) /\ WindowCell(rate, cell) /\ clock \in Nat
      /\ TwiceTTL(rate, clock) \in Nat /\ clock < TwiceTTL(rate, clock)
  BY <1>1, CountingFacts
<1>4. /\ WindowCell(rate, c) /\ key \in DOMAIN c
      /\ c[key] = [value |-> IF old = None THEN cost ELSE old + cost,
                   exp   |-> IF old = None THEN TwiceTTL(rate, clock) ELSE cell[key].exp]
  BY <1>3, AddedShape
<1>5. Stored(c, key, clock) = c[key].value
  <2>1. old # None => Live(cell[key], clock)
    BY DEF Stored
  <2>2. Live(c[key], clock)
    BY <1>3, <1>4, <2>1 DEF Live
  <2> QED
    BY <1>4, <2>2 DEF Stored
<1>6. n \in Int
  <2>1. Stored(c, key, clock) \in Int
    BY <1>4, <1>5 DEF WindowCell
  <2> QED
    BY <2>1 DEF CountIn, AtLeast
<1>7. old \in Int
  BY <1>3, StoredShape DEF None
<1> HIDE DEF c, n, key, cost, old
<1>8. /\ h \in [pc : {"counting"}, now : {hit[q].now}, cost : {hit[q].cost}, count : Int, previous : Int,
                todo : SUBSET {"count", "read", "refresh"}]
      /\ h.todo = hit[q].todo \ {"count"} /\ h.previous = hit[q].previous /\ h.cost = cost
  BY <1>3, <1>6 DEF cost
<1> HIDE DEF h
<1>9. /\ Shapes' /\ Times' /\ rate' = rate /\ hit'[q] = h /\ Mine(q)' = Mine(q)
      /\ \A p \in Requests : p # q => hit'[p] = hit[p] /\ Mine(p)' = Mine(p) /\ (Counting(p)' <=> Counting(p))
  BY <1>1, <1>2, <1>4, <1>8, InductiveCounting
<1>10. ASSUME scenario.delay = 0
       PROVE  /\ \A k \in DOMAIN cell' : cell'[k].value \in Nat
              /\ Stored(cell', <<"count", Mine(q)'>>, clock) >= hit'[q].cost
              /\ "refresh" \in hit'[q].todo => hit'[q].previous \in Nat /\ "read" \notin hit'[q].todo
  <2>1. \A k \in DOMAIN cell : cell[k].value \in Nat
    BY <1>3, <1>10 DEF Inductive, Counters
  <2>2. old = None \/ old \in Nat
    BY <2>1 DEF old, Stored
  <2>3. c[key].value \in Nat /\ c[key].value >= cost
    BY <1>3, <1>4, <2>2
  <2>4. \A k \in DOMAIN c : k # key => k \in DOMAIN cell /\ c[k] = cell[k]
    BY DEF c, Added, Put
  <2>5. \A k \in DOMAIN c : c[k].value \in Nat
    BY <2>1, <2>3, <2>4
  <2>6. "refresh" \in hit[q].todo => hit[q].previous \in Nat /\ "read" \notin hit[q].todo
    BY <1>1, <1>3, <1>10 DEF Inductive, Counters
  <2> QED
    BY <1>1, <1>5, <1>8, <1>9, <2>3, <2>5, <2>6 DEF key
<1>11. Counters'
  BY <1>1, <1>9, <1>10, CountersKept
<1> QED
  BY <1>9, <1>11 DEF Inductive

\* Reading the last window's count leaves the store as it is.
LEMMA InductiveReadPrevious ==
  ASSUME Inductive, NEW q \in Requests, ReadPrevious(q)
  PROVE  Inductive'
<1> DEFINE previous == Stored(cell, <<"count", Mine(q) - 1>>, clock)
           next == IF previous = None THEN {} ELSE {"refresh"}
           h == [hit[q] EXCEPT !.todo = (@ \ {"read"}) \cup next, !.previous = previous]
<1>1. Counting(q) /\ cell' = cell /\ scenario' = scenario /\ clock' = clock
  BY DEF ReadPrevious
<1>2. hit' = [hit EXCEPT ![q] = h]
  BY DEF ReadPrevious
<1>3. /\ hit[q] \in [pc : {"counting"}, now : Nat, cost : Costs, count : Int, previous : Int,
                     todo : SUBSET {"count", "read", "refresh"}]
      /\ Stepwise /\ RateOK(rate) /\ WindowCell(rate, cell)
  BY <1>1, CountingFacts
<1>4. previous \in Int
  BY <1>3, StoredShape DEF None
<1>5. previous # None => <<"count", Mine(q) - 1>> \in DOMAIN cell /\ previous = cell[<<"count", Mine(q) - 1>>].value
  BY DEF Stored
<1>6. next \subseteq {"refresh"} /\ ("refresh" \in next => previous # None)
  OBVIOUS
<1> HIDE DEF previous, next
<1>7. /\ h \in [pc : {"counting"}, now : {hit[q].now}, cost : {hit[q].cost}, count : Int, previous : Int,
                todo : SUBSET {"count", "read", "refresh"}]
      /\ h.todo = (hit[q].todo \ {"read"}) \cup next /\ h.previous = previous /\ h.cost = hit[q].cost
  BY <1>3, <1>4, <1>6
<1> HIDE DEF h
<1>8. /\ Shapes' /\ Times' /\ rate' = rate /\ hit'[q] = h /\ Mine(q)' = Mine(q)
      /\ \A p \in Requests : p # q => hit'[p] = hit[p] /\ Mine(p)' = Mine(p) /\ (Counting(p)' <=> Counting(p))
  BY <1>1, <1>2, <1>3, <1>7, InductiveCounting
<1>9. ASSUME scenario.delay = 0
      PROVE  /\ \A k \in DOMAIN cell' : cell'[k].value \in Nat
             /\ "count" \notin hit'[q].todo => Stored(cell', <<"count", Mine(q)'>>, clock) >= hit'[q].cost
             /\ "refresh" \in hit'[q].todo => hit'[q].previous \in Nat /\ "read" \notin hit'[q].todo
  <2>1. \A k \in DOMAIN cell : cell[k].value \in Nat
    BY <1>3, <1>9 DEF Inductive, Counters
  <2>2. "count" \notin h.todo => "count" \notin hit[q].todo
    BY <1>7
  <2>3. "count" \notin hit[q].todo => Stored(cell, <<"count", Mine(q)>>, clock) >= hit[q].cost
    BY <1>1, <1>3, <1>9 DEF Inductive, Counters
  <2>4. "refresh" \notin hit[q].todo
    <3>1. "read" \in hit[q].todo
      BY DEF ReadPrevious
    <3> QED
      BY <1>1, <1>3, <1>9, <3>1 DEF Inductive, Counters
  <2>5. "refresh" \in h.todo => previous \in Nat /\ "read" \notin h.todo
    BY <1>5, <1>6, <1>7, <2>1, <2>4
  <2> QED
    BY <1>1, <1>7, <1>8, <2>1, <2>2, <2>3, <2>5
<1>10. Counters'
  BY <1>1, <1>8, <1>9, CountersKept
<1> QED
  BY <1>8, <1>10 DEF Inductive

\* Refreshing stores a count that was read.
LEMMA InductiveRefresh ==
  ASSUME Inductive, NEW q \in Requests, Refresh(q)
  PROVE  Inductive'
<1> DEFINE key == <<"count", Mine(q) - 1>>
           mine == <<"count", Mine(q)>>
           c == Put(cell, key, hit[q].previous, TwiceTTL(rate, clock), clock)
           h == [hit[q] EXCEPT !.todo = {}]
<1>1. /\ Counting(q) /\ cell' = c /\ scenario' = scenario /\ clock' = clock /\ hit[q].todo = {"refresh"}
      /\ hit' = [hit EXCEPT ![q] = h]
  BY DEF Refresh, Refreshed
<1>2. /\ hit[q] \in [pc : {"counting"}, now : Nat, cost : Costs, count : Int, previous : Int,
                     todo : SUBSET {"count", "read", "refresh"}]
      /\ hit[q].previous \in Int /\ Mine(q) \in Int
      /\ Stepwise /\ RateOK(rate) /\ WindowCell(rate, cell) /\ clock \in Nat
      /\ TwiceTTL(rate, clock) \in Nat
  BY <1>1, CountingFacts
<1>3. ValueOK(rate, key[1], hit[q].previous) /\ clock \in Int /\ TwiceTTL(rate, clock) \in Int
  <2>1. key[1] = "count"
    OBVIOUS
  <2> HIDE DEF key
  <2> QED
    BY <1>2, <2>1 DEF ValueOK, Stepwise
<1>4. /\ WindowCell(rate, c) /\ c[key] = [value |-> hit[q].previous, exp |-> TwiceTTL(rate, clock)]
      /\ \A k : k # key => Stored(c, k, clock) = Stored(cell, k, clock)
  <2> DEFINE v == hit[q].previous
             exp == TwiceTTL(rate, clock)
  <2>1. v \in Int /\ exp \in Int /\ ValueOK(rate, key[1], v) /\ clock \in Int
    BY <1>2, <1>3
  <2> HIDE DEF v, exp, key, mine
  <2>2. /\ WindowCell(rate, Put(cell, key, v, exp, clock))
        /\ Put(cell, key, v, exp, clock)[key] = [value |-> v, exp |-> exp]
        /\ \A k : k # key => Stored(Put(cell, key, v, exp, clock), k, clock) = Stored(cell, k, clock)
    BY <1>2, <2>1, PutShape
  <2> QED
    BY <2>2 DEF v, exp
<1>5. mine # key
  <2>1. Mine(q) # Mine(q) - 1
    BY <1>2
  <2>2. \A m, n : m # n => <<"count", m>> # <<"count", n>>
    OBVIOUS
  <2> QED
    BY <2>1, <2>2
<1>6. \A k \in DOMAIN c : k # key => k \in DOMAIN cell /\ c[k] = cell[k]
  BY DEF Put
<1> HIDE DEF c, key, mine
<1>7. /\ h \in [pc : {"counting"}, now : {hit[q].now}, cost : {hit[q].cost}, count : Int, previous : Int,
                todo : SUBSET {"count", "read", "refresh"}]
      /\ h.todo = {} /\ h.cost = hit[q].cost
  BY <1>2
<1> HIDE DEF h
<1>8. /\ Shapes' /\ Times' /\ rate' = rate /\ hit'[q] = h /\ Mine(q)' = Mine(q)
      /\ \A p \in Requests : p # q => hit'[p] = hit[p] /\ Mine(p)' = Mine(p) /\ (Counting(p)' <=> Counting(p))
  BY <1>1, <1>4, <1>7, InductiveCounting
<1>9. ASSUME scenario.delay = 0
      PROVE  /\ \A k \in DOMAIN cell' : cell'[k].value \in Nat
             /\ Stored(cell', <<"count", Mine(q)'>>, clock) >= hit'[q].cost
             /\ "refresh" \notin hit'[q].todo
  <2>1. /\ \A k \in DOMAIN cell : cell[k].value \in Nat
        /\ hit[q].previous \in Nat /\ Stored(cell, mine, clock) >= hit[q].cost
    BY <1>1, <1>2, <1>9 DEF Inductive, Counters, mine
  <2>2. Stored(c, mine, clock) = Stored(cell, mine, clock)
    BY <1>4, <1>5
  <2>3. \A k \in DOMAIN c : c[k].value \in Nat
    BY <1>4, <1>6, <2>1
  <2> QED
    BY <1>1, <1>7, <1>8, <2>1, <2>2, <2>3 DEF mine
<1>10. Counters'
  BY <1>1, <1>8, <1>9, CountersKept
<1> QED
  BY <1>8, <1>10 DEF Inductive

\* Taking a count back is taking back one's own.
LEMMA InductiveWeigh ==
  ASSUME Inductive, NEW q \in Requests, Weigh(q)
  PROVE  Inductive'
<1> DEFINE key == <<"count", Mine(q)>>
           cost == hit[q].cost
           c == Added(rate, cell, key, -cost, clock)
           old == Stored(cell, key, clock)
<1>1. /\ Counting(q) /\ scenario' = scenario /\ clock' = clock /\ hit[q].todo = {} /\ rate' = rate
      /\ cell' = cell \/ cell' = c
      /\ \E wait : Decided(q, wait)
  BY DEF Weigh, Uncounted, rate
<1>2. /\ cost \in Nat \ {0} /\ -cost \in Int /\ Stepwise /\ RateOK(rate) /\ WindowCell(rate, cell) /\ clock \in Nat
  BY <1>1, CountingFacts
<1>3. /\ WindowCell(rate, c)
      /\ c[key] = [value |-> IF old = None THEN -cost ELSE old + (-cost),
                   exp   |-> IF old = None THEN TwiceTTL(rate, clock) ELSE cell[key].exp]
  BY <1>2, AddedShape DEF Stepwise
<1>4. \A k \in DOMAIN c : k # key => k \in DOMAIN cell /\ c[k] = cell[k]
  BY DEF Added, Put
<1> HIDE DEF c, key, cost, old
<1>5. CellOK(rate, cell')
  BY <1>1, <1>2, <1>3 DEF CellOK, Stepwise, Windowed
<1>6. /\ Shapes' /\ Times' /\ ~ Counting(q)'
      /\ \A p \in Requests : Counting(p)' => p # q /\ hit'[p] = hit[p] /\ Counting(p)
  BY <1>1, <1>5, InductiveDecided
<1>7. ASSUME scenario.delay = 0 PROVE \A k \in DOMAIN cell' : cell'[k].value \in Nat
  <2>1. (\A k \in DOMAIN cell : cell[k].value \in Nat) /\ old >= cost
    BY <1>1, <1>2, <1>7 DEF Inductive, Counters, key, old, cost
  <2>2. old = None \/ old \in Nat
    BY <2>1 DEF old, Stored
  <2>3. c[key].value \in Nat
    BY <1>2, <1>3, <2>1, <2>2 DEF None
  <2> QED
    BY <1>1, <1>4, <2>1, <2>3
<1>8. Counters'
  BY <1>1, <1>6, <1>7, CountersKept
<1> QED
  BY <1>6, <1>8 DEF Inductive

\* Every step keeps the invariant.
LEMMA InductiveNext == Inductive /\ [Next]_vars => Inductive'
<1> SUFFICES ASSUME Inductive, [Next]_vars PROVE Inductive'
  OBVIOUS
<1>1. ASSUME NEW q \in Requests, Begin(q) PROVE Inductive'
  BY <1>1, InductiveBegin
<1>2. ASSUME NEW q \in Requests, Decide(q) PROVE Inductive'
  BY <1>2, InductiveDecide
<1>3. ASSUME NEW q \in Requests, Lock(q) PROVE Inductive'
  BY <1>3, InductiveLock
<1>4. ASSUME NEW q \in Requests, Count(q) PROVE Inductive'
  BY <1>4, InductiveCount
<1>5. ASSUME NEW q \in Requests, ReadPrevious(q) PROVE Inductive'
  BY <1>5, InductiveReadPrevious
<1>6. ASSUME NEW q \in Requests, Refresh(q) PROVE Inductive'
  BY <1>6, InductiveRefresh
<1>7. ASSUME NEW q \in Requests, Weigh(q) PROVE Inductive'
  BY <1>7, InductiveWeigh
<1>8. CASE Tick
  BY <1>8, InductiveTick
<1>9. CASE UNCHANGED vars
  BY <1>9 DEF vars, Inductive, Shapes, Times, Counters, rate, Pending, Counting, Admitted, Stepwise, Mine
<1> QED
  BY <1>1, <1>2, <1>3, <1>4, <1>5, <1>6, <1>7, <1>8, <1>9 DEF Next

\* So it always holds.
LEMMA InductiveHolds == Spec => []Inductive
BY InductiveInit, InductiveNext, PTL DEF Spec

\* It implies the type invariant.
LEMMA InductiveTypes == Inductive => TypeOK
<1> SUFFICES ASSUME Inductive PROVE TypeOK
  OBVIOUS
<1>1. /\ scenario \in Scenarios /\ clock \in 0 .. MaxTime /\ clock \in Nat /\ CellOK(rate, cell)
      /\ RateOK(rate) /\ scenario.delay \in Nat /\ rate.limit \in Nat
  BY RateIsOK, ScenariosAssumption DEF Inductive, Shapes
<1>2. ASSUME NEW q \in Requests
      PROVE  \/ hit[q].pc \in {"idle", "refused"}
             \/ (Pending(q) \/ Counting(q)) /\ hit[q].now \in 0 .. clock /\ hit[q].cost \in Costs
             \/ Admitted(q) /\ hit[q].at \in 0 .. clock /\ hit[q].cost \in Costs
  <2>1. hit[q] \in Hits
    BY DEF Inductive, Shapes
  <2>2. /\ Pending(q) \/ Counting(q) => hit[q].now <= clock
        /\ Admitted(q) => hit[q].at <= clock
    BY DEF Inductive, Times
  <2>3. hit[q].pc \in {"idle", "refused"} \/ Pending(q) \/ Counting(q) \/ Admitted(q)
    BY <2>1, HitKinds DEF Pending, Counting, Admitted
  <2>4. Pending(q) \/ Counting(q) => hit[q].now \in Nat /\ hit[q].cost \in Costs
    BY <2>1, HitKinds DEF Pending, Counting
  <2>5. Admitted(q) => hit[q].at \in Nat /\ hit[q].cost \in Costs
    BY <2>1, HitKinds DEF Admitted
  <2> QED
    BY <1>1, <2>2, <2>3, <2>4, <2>5
<1>3. ASSUME rate.strategy \in Windowed, NEW key \in DOMAIN cell
      PROVE  InRangeOf(key[1], cell[key].value)
  <2>1. WindowCell(rate, cell)
    BY <1>1, <1>3 DEF CellOK
  <2>2. ValueOK(rate, key[1], cell[key].value)
    BY <2>1 DEF WindowCell
  <2>3. Stepwise /\ scenario.delay = 0 => cell[key].value \in Nat
    BY DEF Inductive, Counters
  <2>4. CASE key[1] = "limit"
    BY <2>2, <2>4 DEF ValueOK, InRangeOf
  <2>5. CASE key[1] = "rollover"
    BY <2>2, <2>5 DEF ValueOK, InRangeOf
  <2>6. CASE key[1] = "count"
    <3>1. scenario.delay = 0 => cell[key].value \in Nat
      BY <2>2, <2>3, <2>6 DEF ValueOK, Stepwise
    <3> QED
      BY <2>6, <3>1 DEF InRangeOf
  <2> QED
    BY <2>2, <2>4, <2>5, <2>6 DEF ValueOK
<1>4. ASSUME rate.strategy \notin Windowed, Live(cell, clock)
      PROVE  InRange
  <2>1. cell # Absent /\ rate.strategy \in Strategy
    BY <1>1, <1>4, AbsentIsDead DEF RateOK, StrategyFields
  <2>2. CASE rate.strategy = "fixed_window"
    BY <1>1, <2>1, <2>2 DEF CellOK, CounterCell, InRange
  <2>3. CASE rate.strategy \in {"sliding_window_log", "priority_queue"}
    <3>1. LogCell(rate, cell)
      BY <1>1, <2>3 DEF CellOK
    <3>2. cell.log \in Logs /\ LogCost(cell.log) <= rate.limit
      BY <2>1, <3>1 DEF LogCell
    <3>3. LogCost(cell.log) \in 0 .. rate.limit
      BY <1>1, <3>2, LogCostType
    <3> QED
      BY <2>3, <3>3 DEF InRange
  <2>4. CASE rate.strategy = "token_bucket"
    BY <1>1, <2>1, <2>4 DEF CellOK, TokenCell, InRange
  <2>5. CASE rate.strategy = "cost_based_token_bucket"
    BY <1>1, <2>1, <2>5 DEF CellOK, CostCell, InRange
  <2>6. CASE rate.strategy = "gcra"
    BY <1>1, <2>1, <2>6 DEF CellOK, TATCell, InRange
  <2>7. CASE rate.strategy \in {"leaky_bucket", "leaky_bucket_queue"}
    <3>1. LevelCell(rate, cell) /\ cell.level <= Ceiling(rate)
      BY <1>1, <2>1, <2>7 DEF CellOK
    <3>2. Ceiling(rate) \in Nat
      BY <1>1, CeilingBounds
    <3>3. cell.level \in 0 .. Ceiling(rate)
      BY <2>1, <3>1, <3>2 DEF LevelCell
    <3> QED
      BY <2>7, <3>3 DEF InRange, Ceiling
  <2> QED
    BY <1>4, <2>1, <2>2, <2>3, <2>4, <2>5, <2>6, <2>7 DEF Strategy
<1> QED
  BY <1>1, <1>2, <1>3, <1>4 DEF TypeOK

\* The stored state has the strategy's shape and stays in its range, whatever the
\* rates, the costs and the order in which the requests decide.
THEOREM Types == Spec => []TypeOK
BY InductiveHolds, InductiveTypes, PTL

----------------------------------------------------------------------------
(* What was admitted, and what it cost. *)

\* What was admitted from one time to another.
In(h, from, to) == {q \in Requests : h[q].pc = "admitted" /\ h[q].at \in from .. to}

\* What was admitted since a time.
From(h, from) == {q \in Requests : h[q].pc = "admitted" /\ h[q].at >= from}

\* What a set of admitted requests cost.
Cost(h, S) == Total([q \in S |-> h[q].cost])

\* The cost of what was admitted since a time.
Since(from) == Cost(hit, From(hit, from))

\* A part of what was admitted costs no more than the whole.
LEMMA CostType ==
  ASSUME NEW h \in [Requests -> Hits], NEW S \in SUBSET {q \in Requests : h[q].pc = "admitted"}
  PROVE  Cost(h, S) \in Nat /\ \A T \in SUBSET S : Cost(h, T) <= Cost(h, S)
<1> DEFINE f == [q \in S |-> h[q].cost]
<1>1. IsFiniteSet(S)
  BY ScenariosAssumption, FS_Subset
<1>2. \A q \in S : h[q].cost \in Nat
  <2>1. \A q \in S : h[q] \in Hits /\ h[q].pc = "admitted"
    OBVIOUS
  <2> QED
    BY <2>1, HitKinds, ScenariosAssumption
<1>3. f \in [S -> Nat]
  BY <1>2
<1>4. \A T \in SUBSET S : [q \in T |-> f[q]] = [q \in T |-> h[q].cost]
  OBVIOUS
<1> HIDE DEF f
<1>5. \A T \in SUBSET S :
        /\ Total([q \in T |-> f[q]]) \in Nat
        /\ \A U \in SUBSET T : Total([q \in U |-> f[q]]) <= Total([q \in T |-> f[q]])
  BY <1>1, <1>3, TotalParts
<1>6. S \in SUBSET S
  OBVIOUS
<1> QED
  BY <1>4, <1>5, <1>6 DEF Cost

\* One more request adds its cost.
LEMMA CostAdd ==
  ASSUME NEW h \in [Requests -> Hits], NEW q \in Requests, h[q].pc = "admitted",
         NEW S \in SUBSET {p \in Requests : h[p].pc = "admitted"}, q \notin S
  PROVE  Cost(h, S \cup {q}) = Cost(h, S) + h[q].cost
<1> DEFINE f == [p \in S \cup {q} |-> h[p].cost]
<1>1. IsFiniteSet(S)
  BY ScenariosAssumption, FS_Subset
<1>2. \A p \in S \cup {q} : h[p].cost \in Int
  <2>1. \A p \in S \cup {q} : h[p] \in Hits /\ h[p].pc = "admitted"
    OBVIOUS
  <2> QED
    BY <2>1, HitKinds, ScenariosAssumption
<1>3. f \in [S \cup {q} -> Int]
  BY <1>2
<1>4. [p \in S |-> f[p]] = [p \in S |-> h[p].cost] /\ f[q] = h[q].cost /\ f[q] \in Int
  BY <1>2
<1> HIDE DEF f
<1>5. Total(f) = f[q] + Total([p \in S |-> f[p]]) /\ Total([p \in S |-> f[p]]) \in Int
  BY <1>1, <1>3, TotalAdd
<1> QED
  BY <1>4, <1>5 DEF Cost, f

\* The model's sum in these terms.
LEMMA AdmittedCostIs == \A from, to : AdmittedCost(from, to) = Cost(hit, In(hit, from, to))
BY DEF AdmittedCost, AdmittedIn, Admitted, Cost, In

\* What was admitted in an interval is part of what was admitted since it began;
\* later beginnings leave less.
LEMMA SumsOrdered ==
  ASSUME hit \in [Requests -> Hits], NEW from \in Int, NEW to \in Int
  PROVE  /\ AdmittedCost(from, to) \in Nat /\ Since(from) \in Nat
         /\ AdmittedCost(from, to) <= Since(from)
         /\ \A later \in Int : from <= later => Since(later) <= Since(from)
         /\ (\A q \in Requests : Admitted(q) => hit[q].at < from) => Since(from) = 0
<1> DEFINE A == {q \in Requests : hit[q].pc = "admitted"}
<1>1. \A q \in A : hit[q].at \in Nat
  BY HitKinds
<1>2. From(hit, from) \in SUBSET A
  BY DEF From
<1>3. In(hit, from, to) \in SUBSET From(hit, from) /\ In(hit, from, to) \in SUBSET A
  BY <1>1 DEF In, From
<1>4. \A later \in Int : from <= later => From(hit, later) \in SUBSET From(hit, from)
  BY <1>1 DEF From
<1>5. Cost(hit, From(hit, from)) \in Nat /\ \A T \in SUBSET From(hit, from) : Cost(hit, T) <= Cost(hit, From(hit, from))
  BY <1>2, CostType
<1>6. Cost(hit, In(hit, from, to)) \in Nat
  BY <1>3, CostType
<1>7. ASSUME \A q \in Requests : Admitted(q) => hit[q].at < from
      PROVE  Since(from) = 0
  <2>1. From(hit, from) = {}
    BY <1>1, <1>7 DEF From, Admitted
  <2> QED
    BY <2>1, TotalEmpty DEF Since, Cost
<1> QED
  BY <1>3, <1>4, <1>5, <1>6, <1>7, AdmittedCostIs DEF Since

\* A step that admits nobody leaves all sums as they are.
LEMMA SumsSame ==
  ASSUME hit \in [Requests -> Hits],
         \A q \in Requests : (hit'[q].pc = "admitted" <=> hit[q].pc = "admitted")
                             /\ (hit[q].pc = "admitted" => hit'[q] = hit[q])
  PROVE  \A from, to : AdmittedCost(from, to)' = AdmittedCost(from, to) /\ Since(from)' = Since(from)
<1> SUFFICES ASSUME NEW from, NEW to
             PROVE  AdmittedCost(from, to)' = AdmittedCost(from, to) /\ Since(from)' = Since(from)
  OBVIOUS
<1>1. In(hit', from, to) = In(hit, from, to) /\ From(hit', from) = From(hit, from)
  BY DEF In, From
<1>2. Cost(hit', In(hit, from, to)) = Cost(hit, In(hit, from, to))
  <2>1. \A q \in In(hit, from, to) : hit'[q].cost = hit[q].cost
    BY DEF In
  <2>2. [q \in In(hit, from, to) |-> hit'[q].cost] = [q \in In(hit, from, to) |-> hit[q].cost]
    BY <2>1
  <2> QED
    BY <2>2 DEF Cost
<1>3. Cost(hit', From(hit, from)) = Cost(hit, From(hit, from))
  <2>1. \A q \in From(hit, from) : hit'[q].cost = hit[q].cost
    BY DEF From
  <2>2. [q \in From(hit, from) |-> hit'[q].cost] = [q \in From(hit, from) |-> hit[q].cost]
    BY <2>1
  <2> QED
    BY <2>2 DEF Cost
<1>4. AdmittedCost(from, to)' = Cost(hit', In(hit', from, to)) /\ Since(from)' = Cost(hit', From(hit', from))
  BY DEF AdmittedCost, AdmittedIn, Admitted, Cost, In, Since, From
<1> QED
  BY <1>1, <1>2, <1>3, <1>4, AdmittedCostIs DEF Since

\* An admission adds its cost to every sum that reaches the time it is decided.
LEMMA SumsGrow ==
  ASSUME hit \in [Requests -> Hits], hit' \in [Requests -> Hits], NEW q \in Requests, ~ Admitted(q),
         NEW cost \in Nat, NEW at \in Nat, hit'[q] = [pc |-> "admitted", cost |-> cost, at |-> at],
         \A p \in Requests : p # q => hit'[p] = hit[p]
  PROVE  /\ \A from \in Int : Since(from)' = Since(from) + (IF from <= at THEN cost ELSE 0)
         /\ \A from, to \in Int :
              AdmittedCost(from, to)' = AdmittedCost(from, to) + (IF from <= at /\ at <= to THEN cost ELSE 0)
<1>1. hit'[q].pc = "admitted" /\ hit'[q].cost = cost /\ hit'[q].at = at
  OBVIOUS
<1>2. ASSUME NEW S \in SUBSET {p \in Requests : hit[p].pc = "admitted"}
      PROVE  /\ q \notin S /\ Cost(hit', S) = Cost(hit, S) /\ Cost(hit', S) \in Nat
             /\ Cost(hit', S \cup {q}) = Cost(hit, S) + cost
  <2>1. q \notin S
    BY DEF Admitted
  <2>2. \A p \in S : hit'[p] = hit[p]
    BY <2>1
  <2>3. [p \in S |-> hit'[p].cost] = [p \in S |-> hit[p].cost]
    BY <2>2
  <2>4. S \in SUBSET {p \in Requests : hit'[p].pc = "admitted"}
    BY <2>2
  <2>5. Cost(hit', S \cup {q}) = Cost(hit', S) + hit'[q].cost /\ Cost(hit', S) \in Nat
    BY <1>1, <2>1, <2>4, CostAdd, CostType
  <2>6. Cost(hit', S) = Cost(hit, S)
    BY <2>3 DEF Cost
  <2> QED
    BY <1>1, <2>1, <2>5, <2>6
<1>3. ASSUME NEW from \in Int
      PROVE  Since(from)' = Since(from) + (IF from <= at THEN cost ELSE 0)
  <2>1. From(hit', from) = IF from <= at THEN From(hit, from) \cup {q} ELSE From(hit, from)
    <3>1. \A p \in Requests : p # q => (p \in From(hit', from) <=> p \in From(hit, from))
      BY DEF From
    <3>2. q \in From(hit', from) <=> from <= at
      BY <1>1 DEF From
    <3>3. q \notin From(hit, from) /\ From(hit, from) \subseteq Requests /\ From(hit', from) \subseteq Requests
      BY DEF From, Admitted
    <3> QED
      BY <3>1, <3>2, <3>3
  <2>2. From(hit, from) \in SUBSET {p \in Requests : hit[p].pc = "admitted"}
    BY DEF From
  <2>3. Since(from)' = Cost(hit', From(hit', from))
    BY DEF Since, Cost, From
  <2> QED
    BY <1>2, <2>1, <2>2, <2>3 DEF Since
<1>4. ASSUME NEW from \in Int, NEW to \in Int
      PROVE  AdmittedCost(from, to)' = AdmittedCost(from, to) + (IF from <= at /\ at <= to THEN cost ELSE 0)
  <2>1. In(hit', from, to) = IF from <= at /\ at <= to THEN In(hit, from, to) \cup {q} ELSE In(hit, from, to)
    <3>1. \A p \in Requests : p # q => (p \in In(hit', from, to) <=> p \in In(hit, from, to))
      BY DEF In
    <3>2. q \in In(hit', from, to) <=> from <= at /\ at <= to
      BY <1>1 DEF In
    <3>3. q \notin In(hit, from, to) /\ In(hit, from, to) \subseteq Requests /\ In(hit', from, to) \subseteq Requests
      BY DEF In, Admitted
    <3> QED
      BY <3>1, <3>2, <3>3
  <2>2. In(hit, from, to) \in SUBSET {p \in Requests : hit[p].pc = "admitted"}
    BY DEF In
  <2>3. AdmittedCost(from, to)' = Cost(hit', In(hit', from, to))
    BY DEF AdmittedCost, AdmittedIn, Admitted, Cost, In
  <2> QED
    BY <1>2, <2>1, <2>2, <2>3, AdmittedCostIs
<1> QED
  BY <1>3, <1>4

\* Decide, seen from the sums.
LEMMA DecideSums ==
  ASSUME Inductive, NEW q \in Requests, Decide(q)
  PROVE  LET out   == HitOf(rate, cell, hit[q].now, hit[q].cost, clock)
             spent == Spent(out, hit[q].cost)
         IN  /\ cell' = out.cell /\ rate' = rate /\ scenario' = scenario /\ clock' = clock /\ ~ Stepwise
             /\ hit[q].now \in Nat /\ hit[q].cost \in Costs /\ hit[q].cost \in Nat \ {0} /\ clock \in Nat
             /\ hit[q].now <= clock /\ clock <= hit[q].now + scenario.delay /\ scenario.delay \in Nat
             /\ spent \in Nat /\ (out.wait # 0 => spent = 0) /\ (out.wait = 0 => spent = hit[q].cost)
             /\ \A from \in Int : Since(from)' = Since(from) + (IF from <= clock THEN spent ELSE 0)
             /\ \A from, to \in Int : AdmittedCost(from, to)' =
                  AdmittedCost(from, to) + (IF from <= clock /\ clock <= to THEN spent ELSE 0)
             /\ \A p \in Requests : Admitted(p)' => (Admitted(p) /\ hit'[p] = hit[p])
                                                    \/ (hit'[p].at = clock /\ out.wait = 0)
<1> DEFINE out   == HitOf(rate, cell, hit[q].now, hit[q].cost, clock)
           cost  == hit[q].cost
           spent == Spent(out, cost)
<1>1. /\ Pending(q) /\ cell' = out.cell /\ Decided(q, out.wait)
      /\ rate' = rate /\ scenario' = scenario /\ clock' = clock /\ ~ Stepwise
  BY DEF Decide, rate
<1>2. /\ hit \in [Requests -> Hits] /\ clock \in Nat /\ hit[q].now \in Nat /\ cost \in Costs /\ cost \in Nat \ {0}
      /\ scenario.delay \in Nat
  BY <1>1, HitKinds, RateIsOK, ScenariosAssumption DEF Inductive, Shapes, Pending
<1>3. hit[q].now <= clock /\ clock <= hit[q].now + scenario.delay
  BY <1>1 DEF Inductive, Times
<1>4. /\ hit' \in [Requests -> Hits] /\ \A p \in Requests : p # q => hit'[p] = hit[p]
      /\ out.wait = 0 => hit'[q] = [pc |-> "admitted", cost |-> cost, at |-> clock]
      /\ out.wait # 0 => hit'[q] = [pc |-> "refused"]
  BY <1>1, DecidedHit
<1>5. spent \in Nat /\ (out.wait # 0 => spent = 0) /\ (out.wait = 0 => spent = cost)
  BY <1>2 DEF Spent
<1>6. ~ Admitted(q)
  BY <1>1 DEF Pending, Admitted
<1> HIDE DEF out, cost, spent
<1>7. CASE out.wait = 0
  <2>1. /\ \A from \in Int : Since(from)' = Since(from) + (IF from <= clock THEN cost ELSE 0)
        /\ \A from, to \in Int :
             AdmittedCost(from, to)' = AdmittedCost(from, to) + (IF from <= clock /\ clock <= to THEN cost ELSE 0)
    BY <1>2, <1>4, <1>6, <1>7, SumsGrow
  <2>2. \A p \in Requests : Admitted(p)' => (Admitted(p) /\ hit'[p] = hit[p]) \/ (hit'[p].at = clock /\ out.wait = 0)
    BY <1>4, <1>7 DEF Admitted
  <2> QED
    BY <1>1, <1>2, <1>3, <1>5, <1>7, <2>1, <2>2 DEF out, cost, spent
<1>8. CASE out.wait # 0
  <2>1. \A p \in Requests : (hit'[p].pc = "admitted" <=> hit[p].pc = "admitted")
                            /\ (hit[p].pc = "admitted" => hit'[p] = hit[p])
    BY <1>4, <1>6, <1>8 DEF Admitted
  <2>2. \A from, to : AdmittedCost(from, to)' = AdmittedCost(from, to) /\ Since(from)' = Since(from)
    BY <1>2, <2>1, SumsSame
  <2>3. \A from, to \in Int : AdmittedCost(from, to) \in Nat /\ Since(from) \in Nat
    BY <1>2, SumsOrdered
  <2>4. \A p \in Requests : Admitted(p)' => Admitted(p) /\ hit'[p] = hit[p]
    BY <2>1 DEF Admitted
  <2>5. spent = 0
    BY <1>5, <1>8
  <2>6. /\ \A from \in Int : Since(from)' = Since(from) + (IF from <= clock THEN spent ELSE 0)
        /\ \A from, to \in Int :
             AdmittedCost(from, to)' = AdmittedCost(from, to) + (IF from <= clock /\ clock <= to THEN spent ELSE 0)
    BY <2>2, <2>3, <2>5
  <2> QED
    BY <1>1, <1>2, <1>3, <1>5, <1>8, <2>4, <2>6 DEF out, cost, spent
<1> QED
  BY <1>7, <1>8

\* What is no decision leaves the sums and the cell alone, unless it is the counter's.
LEMMA OtherSums ==
  ASSUME Inductive, [Next]_vars, \A q \in Requests : ~ Decide(q), ~ Stepwise
  PROVE  /\ rate' = rate /\ scenario' = scenario /\ cell' = cell /\ clock' \in Nat
         /\ clock' = clock \/ clock' = clock + 1
         /\ \A from, to : AdmittedCost(from, to)' = AdmittedCost(from, to) /\ Since(from)' = Since(from)
         /\ \A p \in Requests : Admitted(p)' <=> Admitted(p)
         /\ \A p \in Requests : Admitted(p) => hit'[p] = hit[p]
<1>1. hit \in [Requests -> Hits] /\ clock \in Nat
  BY DEF Inductive, Shapes
<1>2. \/ \E q \in Requests : Begin(q)
      \/ Tick
      \/ UNCHANGED vars
  BY DEF Next, Lock, Count, ReadPrevious, Refresh, Weigh, Inductive, Times
<1>3. /\ rate' = rate /\ scenario' = scenario /\ cell' = cell
      /\ clock' = clock \/ clock' = clock + 1
  BY <1>2 DEF Begin, Tick, vars, rate
<1>4. \A p \in Requests : (hit'[p].pc = "admitted" <=> hit[p].pc = "admitted")
                          /\ (hit[p].pc = "admitted" => hit'[p] = hit[p])
  <2>1. CASE Tick \/ UNCHANGED vars
    BY <2>1 DEF Tick, vars
  <2>2. ASSUME NEW q \in Requests, Begin(q)
        PROVE  \A p \in Requests : (hit'[p].pc = "admitted" <=> hit[p].pc = "admitted")
                                   /\ (hit[p].pc = "admitted" => hit'[p] = hit[p])
    <3>1. PICK cost \in Costs : hit' = [hit EXCEPT ![q] = [pc |-> "waiting", now |-> clock, cost |-> cost]]
      BY <2>2 DEF Begin
    <3>2. hit[q].pc = "idle" /\ hit'[q].pc = "waiting" /\ \A p \in Requests : p # q => hit'[p] = hit[p]
      BY <1>1, <2>2, <3>1 DEF Begin
    <3> QED
      BY <3>2
  <2> QED
    BY <1>2, <2>1, <2>2
<1>5. \A from, to : AdmittedCost(from, to)' = AdmittedCost(from, to) /\ Since(from)' = Since(from)
  BY <1>1, <1>4, SumsSame
<1> QED
  BY <1>1, <1>3, <1>4, <1>5 DEF Admitted

----------------------------------------------------------------------------
(* Buckets.  What a bucket holds less what would have flowed in by the time it was
   last looked at, its potential, falls by all that is spent and never rises.  What
   was admitted since some time is therefore bounded by what the potential has
   fallen since, and the potential is never below what the bucket may owe.  Held is
   what a full bucket holds, and d how much older than the decision a request's
   time may be. *)

\* One decision's arithmetic: with what is spent, what was admitted since any
\* earlier time stays within what was held, what has flowed in since and what is
\* left.
LEMMA ChargedSince ==
  ASSUME NEW Held \in Nat, NEW flow \in Nat, NEW d \in Nat, NEW now \in Nat, NEW at \in Nat, at <= now + d,
         NEW spent \in Nat, NEW phi, NEW left \in Int, left + spent <= Held - flow * now,
         NEW from \in Int, from <= at, NEW a \in Nat,
         \/ a = 0
         \/ phi \in Int /\ left + spent <= phi /\ a <= Held + flow * (d - from) - phi
  PROVE  a + spent <= Held + flow * (d - from) - left
<1>1. flow * now >= flow * (from - d)
  BY ProductGrows
<1> DEFINE x == flow * now
           y == flow * (d - from)
<1>2. flow * (from - d) = -y /\ y \in Int /\ x \in Int
  OBVIOUS
<1> HIDE DEF x, y
<1>3. x >= -y
  BY <1>1, <1>2 DEF x
<1>4. left + spent <= Held - x
  BY DEF x
<1>5. \/ a = 0
      \/ phi \in Int /\ left + spent <= phi /\ a <= Held + y - phi
  BY DEF y
<1>6. a + spent <= Held + y - left
  BY <1>2, <1>3, <1>4, <1>5
<1> QED
  BY <1>6 DEF y

\* The bound for an interval follows, as what is left is not less than what may be
\* owed.
LEMMA ChargedBetween ==
  ASSUME NEW Held \in Nat, NEW Owed \in Nat, NEW flow \in Nat, NEW d \in Nat, NEW at \in Nat,
         NEW left \in Int, left >= -Owed - flow * at,
         NEW from \in Int, NEW to \in Int, from <= at, at <= to,
         NEW a \in Nat, a <= Held + flow * (d - from) - left
  PROVE  a <= Held + Owed + flow * (to - from + d)
<1>1. flow * at <= flow * to
  BY ProductGrows
<1> DEFINE x == flow * at
           y == flow * to
           z == flow * (d - from)
<1>2. flow * (to - from + d) = y + z /\ x \in Int /\ y \in Int /\ z \in Int
  OBVIOUS
<1>3. x <= y
  BY <1>1
<1> HIDE DEF x, y, z
<1>4. left >= -Owed - x /\ a <= Held + z - left
  BY DEF x, z
<1>5. a <= Held + Owed + (y + z)
  BY <1>2, <1>3, <1>4
<1> QED
  BY <1>2, <1>5

\* A bucket that was forgotten held no less than what a new one may.
LEMMA ForgottenIsFull ==
  ASSUME NEW Held \in Nat, NEW Owed \in Nat, NEW flow \in Nat, NEW d \in Nat, NEW now \in Nat, NEW at \in Nat,
         at <= now + d, NEW ttl \in Nat, Held + Owed <= flow * (ttl - d),
         NEW w \in Int, w + ttl <= at, NEW phi \in Int, phi >= -Owed - flow * w
  PROVE  Held - flow * now <= phi
<1>1. flow * (w + (ttl - d)) <= flow * now
  BY ProductGrows
<1> DEFINE x == flow * w
           y == flow * (ttl - d)
           z == flow * now
<1>2. flow * (w + (ttl - d)) = x + y /\ x \in Int /\ y \in Int /\ z \in Int
  BY ProductSplits
<1>3. x + y <= z
  BY <1>1, <1>2
<1> HIDE DEF x, y, z
<1>4. phi >= -Owed - x /\ Held + Owed <= y
  BY DEF x, y
<1>5. Held - z <= phi
  BY <1>2, <1>3, <1>4
<1> QED
  BY <1>5 DEF z

\* The buckets that hold tokens.
Tokened(s) == s \in {"token_bucket", "cost_based_token_bucket"}

\* The buckets that hold a level.
Leaky(s) == s \in {"leaky_bucket", "leaky_bucket_queue"}

\* The buckets the bound is promised for.
Bucket ==
  /\ NothingToRemember /\ Costs # {}
  /\ rate.strategy \in {"token_bucket", "cost_based_token_bucket", "leaky_bucket", "leaky_bucket_queue", "gcra"}
  /\ Leaky(rate.strategy) => \A cost \in Costs : cost <= rate.limit
  /\ rate.strategy = "cost_based_token_bucket" => scenario.delay = 0 /\ rate.minRefill <= 100

\* What a request of cost 1 takes from the bucket.
Unit == IF rate.strategy = "cost_based_token_bucket" THEN rate.period * Grain ELSE rate.period

\* What flows in per tick at the most.
Flow == IF rate.strategy = "cost_based_token_bucket" THEN rate.limit * Grain ELSE rate.limit

\* What a full bucket holds.
Held ==
  IF rate.strategy = "token_bucket" THEN rate.capacity * rate.period
  ELSE IF rate.strategy = "cost_based_token_bucket" THEN Full(rate) ELSE 0

\* What may be owed beyond an empty one.
Owed ==
  IF rate.strategy = "token_bucket" THEN rate.debt * rate.period
  ELSE IF rate.strategy = "cost_based_token_bucket" THEN 0
  ELSE IF rate.strategy = "gcra" THEN Max(Costs) * rate.period + rate.limit * rate.tolerance
  ELSE rate.limit * rate.period

\* What is left, discounted to time 0: it grows only when the cell is forgotten, and
\* not even then under NothingToRemember.
Potential(c) ==
  IF Tokened(rate.strategy) THEN c.tokens - Flow * c.last
  ELSE IF rate.strategy = "gcra" THEN -c.tat
  ELSE -(c.level + Flow * c.last)

\* When the cell was written: all of a bucket's decisions write, or leave it alone.
Written(c) == c.exp - BucketTTL(rate)

\* What else the strategies need of a bucket.
Sound(c, at) ==
  /\ Leaky(rate.strategy) => c.last <= at /\ c.level <= rate.limit * rate.period
  /\ rate.strategy = "cost_based_token_bucket" => c.last <= at /\ c.tokens >= 0

\* What was admitted since any time is paid for: it is at most what a full bucket
\* held then and what has flowed in since, less what is left.
Charged ==
  Bucket =>
    /\ cell = Absent => \A q \in Requests : ~ Admitted(q)
    /\ cell # Absent =>
         /\ Sound(cell, clock)
         /\ Written(cell) <= clock /\ \A q \in Requests : Admitted(q) => hit[q].at <= Written(cell)
         /\ Potential(cell) \in Int /\ Potential(cell) >= -Owed - Flow * Written(cell)
         /\ \A from \in Int : from <= Written(cell) =>
              Since(from) * Unit <= Held + Flow * (scenario.delay - from) - Potential(cell)
    /\ \A from, to \in Int : from <= to =>
         AdmittedCost(from, to) * Unit <= Held + Owed + Flow * (to - from + scenario.delay)

\* The types of the quantities above.
LEMMA BucketTypes ==
  ASSUME Inductive, Bucket
  PROVE  /\ RateOK(rate) /\ scenario.delay \in Nat /\ CellOK(rate, cell) /\ clock \in Nat
         /\ rate.limit \in Nat \ {0} /\ rate.period \in Nat \ {0} /\ BucketTTL(rate) \in Nat \ {0}
         /\ Unit \in Nat \ {0} /\ Flow \in Nat \ {0} /\ Held \in Nat
         /\ Owed \in Nat
<1>1. /\ RateOK(rate) /\ scenario.delay \in Nat /\ CellOK(rate, cell) /\ clock \in Nat
      /\ rate.limit \in Nat \ {0} /\ rate.period \in Nat \ {0} /\ rate.capacity \in Nat /\ rate.debt \in Nat
  BY RateIsOK DEF Inductive, Shapes
<1>2. BucketTTL(rate) \in Nat \ {0}
  BY <1>1, TTLsPositive DEF TTLs
<1>3. Unit \in Nat \ {0} /\ Flow \in Nat \ {0}
  BY <1>1 DEF Unit, Flow, Grain
<1>4. rate.capacity * rate.period \in Nat /\ rate.debt * rate.period \in Nat /\ rate.limit * rate.period \in Nat
  BY <1>1, ProductIsNat
<1>5. Full(rate) \in Nat
  <2> DEFINE n == rate.capacity * rate.period
  <2>1. n \in Nat
    BY <1>4
  <2> HIDE DEF n
  <2>2. n * Grain \in Nat
    BY <2>1 DEF Grain
  <2> QED
    BY <2>2 DEF Full, n
<1>6. Held \in Nat
  BY <1>4, <1>5 DEF Held
<1>7. rate.strategy = "gcra" /\ Costs # {} => Max(Costs) * rate.period + rate.limit * rate.tolerance \in Nat
  <2> SUFFICES ASSUME rate.strategy = "gcra", Costs # {}
               PROVE  Max(Costs) * rate.period + rate.limit * rate.tolerance \in Nat
    OBVIOUS
  <2>1. Costs \in SUBSET Nat /\ IsFiniteSet(Costs)
    BY ScenariosAssumption
  <2>2. Max(Costs) \in Costs
    BY <2>1, MaxOfCosts
  <2>3. Max(Costs) \in Nat /\ rate.tolerance \in Nat
    BY <1>1, <2>1, <2>2 DEF RateOK, StrategyFields
  <2>4. Max(Costs) * rate.period \in Nat /\ rate.limit * rate.tolerance \in Nat
    BY <1>1, <2>3, ProductIsNat
  <2> QED
    BY <2>4
<1>8. Owed \in Nat
  BY <1>4, <1>7 DEF Owed, Bucket
<1> QED
  BY <1>1, <1>2, <1>3, <1>6, <1>8

\* What one decision does to a bucket.
Charging(old, new, now, at, spent) ==
  /\ new # Absent /\ Written(new) = at /\ Potential(new) \in Int /\ Sound(new, at)
  /\ Potential(new) + spent <= Held - Flow * now
  /\ Live(old, at) => Potential(old) \in Int /\ Potential(new) + spent <= Potential(old)
  /\ Potential(new) >= -Owed - Flow * at

\* A cell that is stored now was written now.
LEMMA WrittenNow ==
  ASSUME NEW c, NEW at \in Nat, BucketTTL(rate) \in Nat \ {0}, c.exp = at + BucketTTL(rate)
  PROVE  c # Absent /\ Written(c) = at
BY DEF Absent, Written

\* A token bucket's decision pays for what it admits.
LEMMA TokenBucketCharges ==
  ASSUME Inductive, Bucket, Charged, rate.strategy = "token_bucket",
         NEW now \in Nat, now <= clock, NEW cost \in Costs
  PROVE  LET out == TokenBucket(rate, cell, now, cost, clock)
         IN  Charging(cell, out.cell, now, clock, Spent(out, cost) * Unit)
<1> DEFINE out == TokenBucket(rate, cell, now, cost, clock)
           new == out.cell
           full == rate.capacity * rate.period
           debt == rate.debt * rate.period
           spent == Spent(out, cost) * rate.period
           x == rate.limit * now
           z == rate.limit * clock
<1>1. /\ RateOK(rate) /\ clock \in Nat /\ TokenCell(rate, cell) /\ rate.limit \in Nat \ {0} /\ rate.period \in Nat \ {0}
      /\ BucketTTL(rate) \in Nat \ {0} /\ cost \in Nat \ {0}
      /\ rate.capacity \in Nat /\ rate.debt \in Nat
  BY BucketTypes, ScenariosAssumption DEF CellOK, RateOK
<1>2. Unit = rate.period /\ Flow = rate.limit /\ Held = full /\ Owed = debt
  BY DEF Unit, Flow, Held, Owed
<1>3. \A c : Potential(c) = c.tokens - rate.limit * c.last
  BY <1>2 DEF Potential, Tokened
<1>4. /\ new \in [tokens : Int, last : {now}, exp : {clock + BucketTTL(rate)}]
      /\ new.tokens + spent <= full
      /\ Live(cell, clock) => new.tokens + spent <= cell.tokens + rate.limit * (now - cell.last)
      /\ out.wait = 0 => new.tokens >= -debt
      /\ out.wait # 0 => new.tokens = full \/ (Live(cell, clock) /\ new.tokens = cell.tokens + rate.limit * (now - cell.last))
  <2> DEFINE Step(r, c, n, at, p) ==
        LET o == TokenBucket(r, c, n, p, at)
            m == o.cell
            top == r.capacity * r.period
            taken == Spent(o, p) * r.period
        IN  /\ TokenCell(r, m) /\ m \in [tokens : Int, last : {n}, exp : {at + BucketTTL(r)}]
            /\ m.tokens + taken <= top
            /\ Live(c, at) => m.tokens + taken <= c.tokens + r.limit * (n - c.last)
            /\ o.wait = 0 => m.tokens >= -(r.debt * r.period)
            /\ o.wait # 0 => m.tokens = top \/ (Live(c, at) /\ m.tokens = c.tokens + r.limit * (n - c.last))
  <2>1. ASSUME NEW r, RateOK(r), NEW c, TokenCell(r, c), NEW n \in Nat, NEW at \in Nat, NEW p \in Nat \ {0}
        PROVE  Step(r, c, n, at, p)
    BY <2>1, TokenBucketStep
  <2> HIDE DEF Step
  <2>2. Step(rate, cell, now, clock, cost)
    BY <1>1, <2>1
  <2> QED
    BY <2>2 DEF Step
<1>5. spent \in Nat /\ full \in Nat /\ debt \in Nat /\ x \in Nat /\ z \in Nat /\ x <= z
  <2>1. Spent(out, cost) \in Nat
    BY <1>1 DEF Spent
  <2> HIDE DEF out
  <2> QED
    BY <1>1, <2>1, ProductIsNat, ProductGrows
<1>6. new.tokens \in Int /\ new.last = now /\ new.exp = clock + BucketTTL(rate)
  BY <1>4
<1> DEFINE w == Written(cell)
<1>7. Live(cell, clock) =>
        /\ cell # Absent /\ cell.tokens \in Int /\ cell.last \in Nat /\ w \in Int /\ w <= clock
        /\ Potential(cell) >= -debt - rate.limit * w
  <2>1. Live(cell, clock) => cell # Absent /\ cell.tokens \in Int /\ cell.last \in Nat /\ cell.exp \in Nat
    BY <1>1, AbsentIsDead DEF TokenCell
  <2> QED
    BY <1>1, <1>2, <2>1 DEF Charged, Written
<1>8. Live(cell, clock) =>
        LET y == rate.limit * cell.last
            v == rate.limit * w
        IN  y \in Int /\ v \in Int /\ v <= z /\ rate.limit * (now - cell.last) = x - y
            /\ Potential(cell) = cell.tokens - y /\ Potential(cell) \in Int /\ Potential(cell) >= -debt - v
  <2> SUFFICES ASSUME Live(cell, clock)
               PROVE  LET y == rate.limit * cell.last
                          v == rate.limit * w
                      IN  y \in Int /\ v \in Int /\ v <= z /\ rate.limit * (now - cell.last) = x - y
                          /\ Potential(cell) = cell.tokens - y /\ Potential(cell) \in Int /\ Potential(cell) >= -debt - v
    OBVIOUS
  <2>1. rate.limit * w <= rate.limit * clock /\ rate.limit * w \in Int
    BY <1>1, <1>7, ProductGrows
  <2>2. rate.limit * cell.last \in Int /\ rate.limit * (now - cell.last) = rate.limit * now - rate.limit * cell.last
    BY <1>1, <1>7, ProductSplits
  <2> DEFINE y == rate.limit * cell.last
  <2>3. y \in Int
    BY <2>2
  <2> HIDE DEF w, y
  <2>4. Potential(cell) = cell.tokens - y /\ Potential(cell) \in Int
    BY <1>3, <1>7, <2>3 DEF y
  <2> QED
    BY <1>7, <2>1, <2>2, <2>4 DEF y
<1>9. Potential(new) = new.tokens - x /\ Potential(new) \in Int
  <2> HIDE DEF new
  <2>1. Potential(new) = new.tokens - x
    BY <1>3, <1>6
  <2> HIDE DEF x
  <2> QED
    BY <1>5, <1>6, <2>1
<1>10. new # Absent /\ Written(new) = clock
  <2> HIDE DEF new
  <2> QED
    BY <1>1, <1>6, WrittenNow
<1>11. Sound(new, clock)
  BY DEF Sound, Leaky
<1> HIDE DEF full, debt, spent, x, z, new, out, w
<1>12. Potential(new) + spent <= full - x
  BY <1>4, <1>5, <1>6, <1>9
<1>13. Live(cell, clock) => Potential(cell) \in Int /\ Potential(new) + spent <= Potential(cell)
  <2> DEFINE y == rate.limit * cell.last
             g == rate.limit * (now - cell.last)
  <2>1. Live(cell, clock) => y \in Int /\ g = x - y /\ Potential(cell) = cell.tokens - y
                             /\ new.tokens + spent <= cell.tokens + g /\ cell.tokens \in Int
    BY <1>4, <1>7, <1>8
  <2> HIDE DEF y, g
  <2> QED
    BY <1>5, <1>6, <1>9, <2>1
<1>14. Potential(new) >= -debt - z
  <2>1. CASE out.wait = 0
    BY <1>4, <1>5, <1>6, <1>9, <2>1
  <2>2. CASE out.wait # 0 /\ new.tokens = full
    BY <1>4, <1>5, <1>6, <1>9, <2>2
  <2>3. CASE out.wait # 0 /\ Live(cell, clock) /\ new.tokens = cell.tokens + rate.limit * (now - cell.last)
    <3> DEFINE y == rate.limit * cell.last
               v == rate.limit * w
               g == rate.limit * (now - cell.last)
    <3>1. /\ y \in Int /\ v \in Int /\ v <= z /\ g = x - y /\ Potential(cell) = cell.tokens - y
          /\ Potential(cell) >= -debt - v /\ cell.tokens \in Int /\ new.tokens = cell.tokens + g
      BY <1>7, <1>8, <2>3
    <3> HIDE DEF y, v, g
    <3> QED
      BY <1>5, <1>6, <1>9, <3>1
  <2> QED
    BY <1>4, <2>1, <2>2, <2>3
<1> QED
  BY <1>2, <1>9, <1>10, <1>11, <1>12, <1>13, <1>14 DEF Charging, full, debt, spent, x, z, new, out

\* So does a leaky bucket's.
LEMMA LeakyCharges ==
  ASSUME Inductive, Bucket, Charged, Leaky(rate.strategy),
         NEW now \in Nat, now <= clock, NEW cost \in Costs, NEW out, Leaked(rate, cell, now, clock, cost, out)
  PROVE  Charging(cell, out.cell, now, clock, Spent(out, cost) * Unit)
<1> DEFINE new == out.cell
           top == rate.limit * rate.period
           spent == Spent(out, cost) * rate.period
           price == cost * rate.period
           x == rate.limit * now
           z == rate.limit * clock
           e == rate.limit * new.last
           y == rate.limit * cell.last
<1>1. /\ RateOK(rate) /\ clock \in Nat /\ LevelCell(rate, cell) /\ rate.limit \in Nat \ {0} /\ rate.period \in Nat \ {0}
      /\ BucketTTL(rate) \in Nat \ {0} /\ cost \in Nat \ {0} /\ cost <= rate.limit
  BY BucketTypes, ScenariosAssumption DEF CellOK, Leaky, Bucket
<1>2. Unit = rate.period /\ Flow = rate.limit /\ Held = 0 /\ Owed = top
  BY DEF Unit, Flow, Held, Owed, Leaky
<1>3. \A c : Potential(c) = -(c.level + rate.limit * c.last)
  BY <1>2 DEF Potential, Leaky, Tokened
<1>4. /\ new \in [level : Nat \ {0}, last : Nat, exp : {clock + BucketTTL(rate)}]
      /\ out.wait = 0 => new.level <= top \/ new.level = price
      /\ out.wait # 0 => Live(cell, clock) /\ new.level = cell.level /\ new.last = cell.last
      /\ new.last = now \/ (Live(cell, clock) /\ new.last = cell.last)
      /\ Live(cell, clock) => new.level + e >= cell.level + y + spent
      /\ new.level + e >= x + spent
  BY <1>1 DEF Leaked
<1>5. Live(cell, clock) => /\ cell # Absent /\ cell.level \in Nat /\ cell.last \in Nat
                           /\ cell.last <= clock /\ cell.level <= top
  <2>1. Live(cell, clock) => cell # Absent /\ cell.level \in Nat /\ cell.last \in Nat
    BY <1>1, AbsentIsDead DEF LevelCell
  <2> QED
    BY <2>1 DEF Charged, Sound
<1>6. new.level \in Nat /\ new.last \in Nat /\ new.exp = clock + BucketTTL(rate) /\ new.last <= clock
  BY <1>4, <1>5
<1>7. /\ top \in Nat /\ price \in Nat /\ price <= top /\ x \in Nat /\ z \in Nat /\ e \in Nat /\ e <= z
      /\ Live(cell, clock) => y \in Nat
  <2>1. rate.period * cost <= rate.period * rate.limit /\ rate.period * cost = price /\ rate.period * rate.limit = top
    BY <1>1, ProductGrows
  <2>2. x \in Nat /\ z \in Nat /\ e \in Nat /\ e <= z
    BY <1>1, <1>6, ProductIsNat, ProductGrows
  <2>3. top \in Nat /\ price \in Nat
    BY <1>1, ProductIsNat
  <2>4. Live(cell, clock) => y \in Nat
    BY <1>1, <1>5, ProductIsNat
  <2> QED
    BY <2>1, <2>2, <2>3, <2>4
<1>8. spent \in Nat
  <2>1. Spent(out, cost) \in Nat
    BY <1>1 DEF Spent
  <2> QED
    BY <1>1, <2>1, ProductIsNat
<1>9. new # Absent /\ Written(new) = clock
  <2> HIDE DEF new
  <2> QED
    BY <1>1, <1>6, WrittenNow
<1>10. Potential(new) = -(new.level + e) /\ Potential(cell) = -(cell.level + y)
  BY <1>3
<1> HIDE DEF top, price, spent, x, y, z, e, new
<1>11. new.level <= top
  BY <1>4, <1>5, <1>7
<1>12. Sound(new, clock)
  BY <1>6, <1>11 DEF Sound, Leaky, top
<1>13. Potential(new) \in Int /\ Potential(new) + spent <= 0 - x /\ Potential(new) >= -top - z
  BY <1>4, <1>6, <1>7, <1>8, <1>10, <1>11
<1>14. Live(cell, clock) => Potential(cell) \in Int /\ Potential(new) + spent <= Potential(cell)
  BY <1>4, <1>5, <1>6, <1>7, <1>8, <1>10
<1> QED
  BY <1>2, <1>9, <1>12, <1>13, <1>14 DEF Charging, top, spent, x, z, new

\* And a cost based one's, whose inflow is at most the rate.
LEMMA CostBasedCharges ==
  ASSUME Inductive, Bucket, Charged, rate.strategy = "cost_based_token_bucket", NEW cost \in Costs
  PROVE  LET out == CostBasedTokenBucket(rate, cell, clock, cost, clock)
         IN  Charging(cell, out.cell, clock, clock, Spent(out, cost) * Unit)
<1> DEFINE out == CostBasedTokenBucket(rate, cell, clock, cost, clock)
           new == out.cell
           full == Full(rate)
           spent == Spent(out, cost) * rate.period * Grain
           z == Flow * clock
           y == Flow * cell.last
           g == rate.limit * Grain * (clock - cell.last)
<1>1. /\ RateOK(rate) /\ clock \in Nat /\ CostCell(rate, cell) /\ rate.limit \in Nat \ {0} /\ rate.period \in Nat \ {0}
      /\ BucketTTL(rate) \in Nat \ {0} /\ cost \in Nat \ {0} /\ Flow \in Nat \ {0} /\ Held \in Nat
      /\ rate.minRefill <= 100
  BY BucketTypes, ScenariosAssumption DEF CellOK, Bucket
<1>2. Unit = rate.period * Grain /\ Flow = rate.limit * Grain /\ Held = full /\ Owed = 0
  BY DEF Unit, Flow, Held, Owed
<1>3. \A c : Potential(c) = c.tokens - Flow * c.last
  BY DEF Potential, Tokened
<1>4. Live(cell, clock) => /\ cell # Absent /\ cell.tokens \in Int /\ cell.last \in Nat
                           /\ cell.last <= clock /\ cell.tokens >= 0
  <2>1. Live(cell, clock) => cell # Absent /\ cell.tokens \in Int /\ cell.last \in Nat
    BY <1>1, AbsentIsDead DEF CostCell
  <2> QED
    BY <2>1 DEF Charged, Sound
<1>5. /\ new.last = clock /\ new.exp = clock + BucketTTL(rate) /\ new.tokens \in Int /\ new.tokens + spent <= full
      /\ Live(cell, clock) => new.tokens + spent <= cell.tokens + g
      /\ new.tokens >= 0
  <2> DEFINE Step(r, c, n, at, p) ==
        LET o == CostBasedTokenBucket(r, c, n, p, at)
            m == o.cell
            taken == Spent(o, p) * r.period * Grain
        IN  /\ CostCell(r, m) /\ m.last = n /\ m.exp = at + BucketTTL(r)
            /\ m \in [tokens : Int, last : Nat, exp : Nat, history : Seq(Costs), historyExp : Nat]
            /\ m.tokens + taken <= Full(r)
            /\ Live(c, at) /\ c.last <= n /\ r.minRefill <= 100 =>
                 m.tokens + taken <= c.tokens + r.limit * Grain * (n - c.last)
            /\ o.wait = 0 => m.tokens >= 0
            /\ Live(c, at) /\ c.last <= n /\ c.tokens >= 0 => m.tokens >= 0
            /\ ~ Live(c, at) => m.tokens >= 0
  <2>1. ASSUME NEW r, RateOK(r), r.strategy = "cost_based_token_bucket", NEW c, CostCell(r, c),
               NEW n \in Nat, NEW at \in Nat, NEW p \in Costs
        PROVE  Step(r, c, n, at, p)
    BY <2>1, CostBasedTokenBucketStep
  <2> HIDE DEF Step
  <2>2. Step(rate, cell, clock, clock, cost)
    BY <1>1, <2>1
  <2> QED
    BY <1>1, <1>4, <2>2 DEF Step
<1>6. spent \in Nat /\ spent = Spent(out, cost) * Unit
  <2> DEFINE n == Spent(out, cost)
  <2>1. n \in Nat
    BY <1>1 DEF Spent
  <2> HIDE DEF n
  <2>2. n * rate.period \in Nat
    BY <1>1, <2>1, ProductIsNat
  <2>3. n * rate.period * Grain = n * (rate.period * Grain)
    BY <1>1, <2>1 DEF Grain
  <2>4. n * rate.period * Grain \in Nat
    BY <2>2 DEF Grain
  <2> QED
    BY <1>2, <2>3, <2>4 DEF n
<1>7. z \in Nat /\ (Live(cell, clock) => y \in Nat /\ g = z - y)
  <2>1. z \in Nat
    BY <1>1, ProductIsNat
  <2>2. Live(cell, clock) => y \in Nat
    BY <1>1, <1>4, ProductIsNat
  <2>3. Live(cell, clock) => Flow * (clock - cell.last) = z - y
    BY <1>1, <1>4, ProductSplits
  <2> QED
    BY <1>2, <2>1, <2>2, <2>3
<1>8. Potential(new) = new.tokens - z /\ Potential(cell) = cell.tokens - y
  <2>1. Potential(new) = new.tokens - Flow * new.last /\ new.last = clock
    BY <1>3, <1>5
  <2> HIDE DEF new
  <2> QED
    BY <1>3, <2>1
<1>9. new # Absent /\ Written(new) = clock
  <2> HIDE DEF new
  <2> QED
    BY <1>1, <1>5, WrittenNow
<1> HIDE DEF full, spent, g, y, z, new, out
<1>10. Sound(new, clock)
  BY <1>1, <1>5 DEF Sound, Leaky
<1>11. /\ Potential(new) \in Int /\ Potential(new) >= -0 - z /\ Potential(new) + spent <= full - z
  <2>1. full \in Nat
    BY <1>1, <1>2
  <2> QED
    BY <1>5, <1>6, <1>7, <1>8, <2>1
<1>12. Live(cell, clock) => Potential(cell) \in Int /\ Potential(new) + spent <= Potential(cell)
  BY <1>4, <1>5, <1>6, <1>7, <1>8
<1> QED
  BY <1>2, <1>6, <1>9, <1>10, <1>11, <1>12 DEF Charging, full, z, new, out

\* And GCRA's, whose arrival time is what it owes.
LEMMA GCRACharges ==
  ASSUME Inductive, Bucket, rate.strategy = "gcra",
         NEW now \in Nat, now <= clock, NEW cost \in Costs
  PROVE  LET out == GCRA(rate, cell, now, cost, clock)
         IN  /\ out.wait = 0 => Charging(cell, out.cell, now, clock, Spent(out, cost) * Unit)
             /\ out.wait # 0 => out.cell = cell
<1> DEFINE out == GCRA(rate, cell, now, cost, clock)
           new == out.cell
           spent == cost * rate.period
           ahead == rate.limit * rate.tolerance
           most == Max(Costs) * rate.period
           x == rate.limit * now
           z == rate.limit * clock
<1>1. /\ RateOK(rate) /\ clock \in Nat /\ TATCell(cell) /\ rate.limit \in Nat \ {0} /\ rate.period \in Nat \ {0}
      /\ BucketTTL(rate) \in Nat \ {0} /\ cost \in Nat \ {0} /\ rate.tolerance \in Nat
  BY BucketTypes, ScenariosAssumption DEF CellOK, RateOK, StrategyFields
<1>2. Unit = rate.period /\ Flow = rate.limit /\ Held = 0 /\ Owed = most + ahead
  BY DEF Unit, Flow, Held, Owed
<1>3. \A c : Potential(c) = -c.tat
  BY DEF Potential, Tokened
<1>4. /\ out.wait # 0 => new = cell
      /\ out.wait = 0 =>
           /\ new \in [tat : Nat, exp : {clock + BucketTTL(rate)}]
           /\ new.tat >= x + spent
           /\ new.tat <= x + ahead + spent
           /\ Live(cell, clock) => new.tat >= cell.tat + spent
  <2> DEFINE Step(r, c, n, at, p) ==
        LET o == GCRA(r, c, n, p, at)
            m == o.cell
            taken == p * r.period
        IN  /\ o.wait # 0 => m = c /\ Live(c, at)
            /\ o.wait = 0 =>
                 /\ m \in [tat : Nat, exp : {at + BucketTTL(r)}]
                 /\ m.tat >= r.limit * n + taken
                 /\ m.tat <= r.limit * n + r.limit * r.tolerance + taken
                 /\ Live(c, at) => m.tat >= c.tat + taken
  <2>1. ASSUME NEW r, RateOK(r), r.strategy = "gcra", NEW c, TATCell(c), NEW n \in Nat, NEW at \in Nat, NEW p \in Nat \ {0}
        PROVE  Step(r, c, n, at, p)
    BY <2>1, GCRAStep
  <2> HIDE DEF Step
  <2>2. Step(rate, cell, now, clock, cost)
    BY <1>1, <2>1
  <2> QED
    BY <2>2 DEF Step
<1>5. Live(cell, clock) => cell.tat \in Nat
  BY <1>1, AbsentIsDead DEF TATCell
<1>6. cost <= Max(Costs) /\ Max(Costs) \in Nat
  <2>1. Costs \in SUBSET Nat /\ IsFiniteSet(Costs) /\ Costs # {}
    BY ScenariosAssumption
  <2> QED
    BY <2>1, MaxOfCosts
<1>7. /\ spent \in Nat /\ most \in Nat /\ spent <= most /\ ahead \in Nat
      /\ x \in Nat /\ z \in Nat /\ x <= z
  <2>1. rate.period * cost <= rate.period * Max(Costs) /\ rate.period * cost = spent /\ rate.period * Max(Costs) = most
    BY <1>1, <1>6, ProductGrows
  <2>2. spent \in Nat /\ most \in Nat /\ ahead \in Nat /\ x \in Nat /\ z \in Nat
    BY <1>1, <1>6, ProductIsNat
  <2>3. x <= z
    BY <1>1, ProductGrows
  <2> QED
    BY <2>1, <2>2, <2>3
<1> SUFFICES ASSUME out.wait = 0 PROVE Charging(cell, new, now, clock, Spent(out, cost) * Unit)
  BY <1>4
<1>8. new.tat \in Nat /\ new.exp = clock + BucketTTL(rate) /\ Spent(out, cost) = cost
  BY <1>4 DEF Spent
<1>9. new # Absent /\ Written(new) = clock
  <2> HIDE DEF new
  <2> QED
    BY <1>1, <1>8, WrittenNow
<1>10. Sound(new, clock)
  BY DEF Sound, Leaky
<1>11. Potential(new) = -new.tat /\ Potential(cell) = -cell.tat
  BY <1>3
<1> HIDE DEF spent, ahead, most, x, z, new, out
<1>12. Potential(new) \in Int /\ Potential(new) + spent <= 0 - x /\ Potential(new) >= -(most + ahead) - z
  BY <1>4, <1>7, <1>8, <1>11
<1>13. Live(cell, clock) => Potential(cell) \in Int /\ Potential(new) + spent <= Potential(cell)
  BY <1>4, <1>5, <1>7, <1>8, <1>11
<1> QED
  BY <1>2, <1>8, <1>9, <1>10, <1>12, <1>13 DEF Charging, spent, ahead, most, x, z, new, out

\* What a bucket no longer is told of makes no difference.
LEMMA BucketsRemember ==
  ASSUME Inductive, Bucket
  PROVE  Held + Owed <= Flow * (BucketTTL(rate) - scenario.delay)
<1>1. /\ rate.limit \in Nat \ {0} /\ rate.period \in Nat \ {0} /\ rate.capacity \in Nat /\ rate.debt \in Nat
      /\ BucketTTL(rate) \in Nat \ {0} /\ scenario.delay \in Nat
  BY BucketTypes DEF RateOK
<1> DEFINE kept == BucketTTL(rate) - scenario.delay
           held == rate.capacity * rate.period
           debt == rate.debt * rate.period
           flow == rate.limit * kept
<1>2. kept \in Int /\ KeptFor = kept
  BY <1>1 DEF KeptFor
<1> HIDE DEF kept
<1>3. held \in Nat /\ debt \in Nat /\ flow \in Int
  BY <1>1, <1>2, ProductIsNat
<1>4. CASE rate.strategy = "token_bucket"
  <2>1. (rate.capacity + rate.debt) * rate.period <= flow
    BY <1>2, <1>4 DEF Bucket, NothingToRemember
  <2>2. (rate.capacity + rate.debt) * rate.period = held + debt
    BY <1>1
  <2>3. Held = held /\ Owed = debt /\ Flow = rate.limit
    BY <1>4 DEF Held, Owed, Flow
  <2> QED
    BY <2>1, <2>2, <2>3 DEF kept
<1>5. CASE Leaky(rate.strategy)
  <2>1. rate.period <= kept
    BY <1>2, <1>5 DEF Bucket, NothingToRemember, Leaky
  <2>2. rate.limit * rate.period <= flow
    BY <1>1, <1>2, <2>1, ProductGrows
  <2>3. Held = 0 /\ Owed = rate.limit * rate.period /\ Flow = rate.limit
    BY <1>5 DEF Held, Owed, Flow, Leaky
  <2>4. rate.limit * rate.period \in Nat
    BY <1>1, ProductIsNat
  <2> QED
    BY <2>2, <2>3, <2>4 DEF kept
<1>6. CASE rate.strategy = "cost_based_token_bucket"
  <2>1. held <= flow
    BY <1>2, <1>6 DEF Bucket, NothingToRemember
  <2>2. Held = held * Grain /\ Owed = 0 /\ Flow = rate.limit * Grain
    BY <1>6 DEF Held, Owed, Flow, Full
  <2>3. (rate.limit * Grain) * kept = flow * Grain
    BY <1>1, <1>2 DEF Grain
  <2> HIDE DEF held, flow
  <2>4. held * Grain <= flow * Grain /\ held * Grain \in Nat
    BY <1>3, <2>1 DEF Grain
  <2> QED
    BY <2>2, <2>3, <2>4 DEF kept
<1>7. CASE rate.strategy = "gcra"
  <2>1. Max(Costs) * rate.period + rate.limit * rate.tolerance <= flow
    BY <1>2, <1>7 DEF Bucket, NothingToRemember
  <2>2. Held = 0 /\ Owed = Max(Costs) * rate.period + rate.limit * rate.tolerance /\ Flow = rate.limit
    BY <1>7 DEF Held, Owed, Flow
  <2>3. Owed \in Nat
    BY BucketTypes
  <2> QED
    BY <2>1, <2>2, <2>3 DEF kept
<1> QED
  BY <1>4, <1>5, <1>6, <1>7 DEF Bucket, Leaky

\* A bucket's cell has a TTL.
LEMMA BucketCells ==
  ASSUME Inductive, Bucket, cell # Absent
  PROVE  cell.exp \in Nat
BY BucketTypes DEF Bucket, CellOK, TokenCell, LevelCell, CostCell, TATCell

\* The quantities depend on the scenario, which never changes, and the cell.
LEMMA SameScenario ==
  ASSUME scenario' = scenario
  PROVE  /\ Unit' = Unit /\ Flow' = Flow /\ Held' = Held /\ Owed' = Owed /\ (Bucket' <=> Bucket)
         /\ Potential(cell)' = Potential(cell') /\ Written(cell)' = Written(cell')
         /\ Sound(cell, clock)' <=> Sound(cell', clock')
<1>1. rate' = rate
  BY DEF rate
<1>2. Unit' = Unit /\ Flow' = Flow
  BY <1>1 DEF Unit, Flow
<1>3. Held' = Held /\ Owed' = Owed
  BY <1>1 DEF Held, Owed
<1>4. NothingToRemember' <=> NothingToRemember
  BY <1>1 DEF NothingToRemember, KeptFor
<1>5. Bucket' <=> Bucket
  BY <1>1, <1>4 DEF Bucket
<1>6. Potential(cell)' = Potential(cell')
  BY <1>1, <1>2 DEF Potential
<1>7. Written(cell)' = Written(cell')
  BY <1>1 DEF Written
<1>8. Sound(cell, clock)' <=> Sound(cell', clock')
  BY <1>1 DEF Sound
<1> QED
  BY <1>2, <1>3, <1>5, <1>6, <1>7, <1>8

\* In any stretch of time a bucket may admit nothing.
LEMMA BucketMayAdmitNothing ==
  ASSUME Inductive, Bucket, NEW from \in Int, NEW to \in Int, from <= to
  PROVE  0 <= Held + Owed + Flow * (to - from + scenario.delay)
<1>1. /\ Flow \in Nat /\ Held \in Nat /\ Owed \in Nat /\ scenario.delay \in Nat
  BY BucketTypes
<1>2. Flow * (to - from + scenario.delay) \in Nat
  BY <1>1, ProductIsNat
<1> QED
  BY <1>1, <1>2

\* A step that leaves the cell alone and admits nobody keeps the invariant, as time
\* only lets more flow in.
LEMMA ChargedSame ==
  ASSUME Inductive, Charged, scenario' = scenario, cell' = cell, clock' \in Nat, clock <= clock',
         \A from, to \in Int : AdmittedCost(from, to)' = AdmittedCost(from, to) /\ Since(from)' = Since(from),
         \A p \in Requests : Admitted(p)' => Admitted(p) /\ hit'[p] = hit[p]
  PROVE  Charged'
<1> SUFFICES ASSUME Bucket PROVE Charged'
  BY SameScenario DEF Charged
<1>1. /\ Unit' = Unit /\ Flow' = Flow /\ Held' = Held /\ Owed' = Owed
      /\ Potential(cell)' = Potential(cell) /\ Written(cell)' = Written(cell) /\ (Sound(cell, clock)' <=> Sound(cell, clock'))
  BY SameScenario
<1>2. clock \in Nat
  BY BucketTypes
<1>3. cell = Absent => \A p \in Requests : ~ Admitted(p)'
  BY DEF Charged
<1>4. cell # Absent =>
        /\ Sound(cell, clock) /\ Written(cell) <= clock /\ \A p \in Requests : Admitted(p) => hit[p].at <= Written(cell)
        /\ Potential(cell) \in Int /\ Potential(cell) >= -Owed - Flow * Written(cell)
        /\ \A from \in Int : from <= Written(cell) =>
             Since(from) * Unit <= Held + Flow * (scenario.delay - from) - Potential(cell)
  BY DEF Charged
<1>5. cell # Absent => Written(cell) \in Int /\ (Sound(cell, clock) => Sound(cell, clock'))
  <2>1. cell # Absent => Written(cell) \in Int
    BY BucketCells, BucketTypes DEF Written
  <2>2. Leaky(rate.strategy) /\ cell # Absent => cell.last \in Nat
    BY BucketTypes DEF Leaky, CellOK, LevelCell
  <2>3. rate.strategy = "cost_based_token_bucket" /\ cell # Absent => cell.last \in Nat
    BY BucketTypes DEF CellOK, CostCell
  <2>4. cell # Absent /\ Sound(cell, clock) => Sound(cell, clock')
    BY <1>2, <2>2, <2>3 DEF Sound
  <2> QED
    BY <2>1, <2>4
<1>6. cell # Absent => \A p \in Requests : Admitted(p)' => hit'[p].at <= Written(cell)
  BY <1>4
<1>7. cell # Absent => Written(cell) <= clock'
  BY <1>2, <1>4, <1>5
<1>8. \A from, to \in Int : from <= to =>
        AdmittedCost(from, to)' * Unit <= Held + Owed + Flow * (to - from + scenario.delay)
  BY DEF Charged
<1>9. cell # Absent => \A from \in Int : from <= Written(cell) =>
             Since(from)' * Unit <= Held + Flow * (scenario.delay - from) - Potential(cell)
  BY <1>4
<1>10. cell # Absent => Sound(cell, clock')
  BY <1>4, <1>5
<1> QED
  BY <1>1, <1>3, <1>4, <1>6, <1>7, <1>8, <1>9, <1>10 DEF Charged

\* A decision that pays keeps it.
LEMMA ChargedStep ==
  ASSUME Inductive, Bucket, Charged, NEW q \in Requests, Decide(q),
         Charging(cell, HitOf(rate, cell, hit[q].now, hit[q].cost, clock).cell, hit[q].now, clock,
                  Spent(HitOf(rate, cell, hit[q].now, hit[q].cost, clock), hit[q].cost) * Unit)
  PROVE  Charged'
<1> DEFINE out   == HitOf(rate, cell, hit[q].now, hit[q].cost, clock)
           now   == hit[q].now
           spent == Spent(out, hit[q].cost)
           charge == spent * Unit
           left  == Potential(cell')
           phi   == Potential(cell)
           w     == Written(cell)
           d     == scenario.delay
           ttl   == BucketTTL(rate)
<1>1. /\ cell' = out.cell /\ rate' = rate /\ scenario' = scenario /\ clock' = clock
      /\ now \in Nat /\ clock \in Nat /\ now <= clock /\ clock <= now + d /\ d \in Nat
      /\ spent \in Nat
      /\ \A from \in Int : Since(from)' = Since(from) + (IF from <= clock THEN spent ELSE 0)
      /\ \A from, to \in Int : AdmittedCost(from, to)' =
           AdmittedCost(from, to) + (IF from <= clock /\ clock <= to THEN spent ELSE 0)
      /\ \A p \in Requests : Admitted(p)' => (Admitted(p) /\ hit'[p] = hit[p]) \/ hit'[p].at = clock
  BY DecideSums
<1>2. Charging(cell, cell', now, clock, charge)
  BY <1>1
<1>3. /\ Unit \in Nat \ {0} /\ Flow \in Nat \ {0} /\ Held \in Nat /\ Owed \in Nat /\ ttl \in Nat \ {0}
  BY BucketTypes
<1>4. /\ Unit' = Unit /\ Flow' = Flow /\ Held' = Held /\ Owed' = Owed
      /\ Potential(cell)' = left /\ Written(cell)' = Written(cell') /\ (Sound(cell, clock)' <=> Sound(cell', clock'))
  BY <1>1, SameScenario
<1>5. Held + Owed <= Flow * (ttl - d)
  BY BucketsRemember
<1>6. hit \in [Requests -> Hits]
  BY DEF Inductive, Shapes
<1>7. charge \in Nat
  BY <1>1, <1>3, ProductIsNat
<1> HIDE DEF out, now, spent, charge, left, phi, w, d, ttl
<1>8. /\ cell' # Absent /\ Written(cell') = clock /\ left \in Int /\ Sound(cell', clock)
      /\ left + charge <= Held - Flow * now
      /\ Live(cell, clock) => phi \in Int /\ left + charge <= phi
      /\ left >= -Owed - Flow * clock
  BY <1>2 DEF Charging, left, phi
<1>9. ASSUME NEW from \in Int, from <= clock
      PROVE  LET a == Since(from) * Unit
             IN  /\ a \in Nat
                 /\ \/ a = 0
                    \/ phi \in Int /\ left + charge <= phi /\ a <= Held + Flow * (d - from) - phi
  <2> DEFINE a == Since(from) * Unit
  <2>1. Since(from) \in Nat /\ ((\A p \in Requests : Admitted(p) => hit[p].at < from) => Since(from) = 0)
    BY <1>6, SumsOrdered
  <2>2. a \in Nat /\ (Since(from) = 0 => a = 0)
    BY <1>3, <2>1, ProductIsNat
  <2>3. CASE cell = Absent
    BY <2>1, <2>2, <2>3 DEF Charged
  <2>4. CASE cell # Absent
    <3>1. /\ w <= clock /\ \A p \in Requests : Admitted(p) => hit[p].at <= w
          /\ phi \in Int /\ phi >= -Owed - Flow * w
          /\ from <= w => a <= Held + Flow * (d - from) - phi
      BY <2>4 DEF Charged, w, phi, d
    <3>2. cell.exp \in Nat /\ w = cell.exp - ttl /\ w \in Int
      BY <1>3, <2>4, BucketCells DEF w, ttl, Written
    <3>3. CASE w < from
      <4>1. \A p \in Requests : Admitted(p) => hit[p] \in Hits /\ hit[p].at \in Nat
        BY <1>6, HitKinds DEF Admitted
      <4>2. \A p \in Requests : Admitted(p) => hit[p].at < from
        BY <3>1, <3>2, <3>3, <4>1
      <4> QED
        BY <2>1, <2>2, <4>2
    <3>4. CASE from <= w /\ Live(cell, clock)
      BY <1>8, <2>2, <3>1, <3>4
    <3>5. CASE from <= w /\ ~ Live(cell, clock)
      <4>1. w + ttl <= clock
        BY <1>1, <1>3, <3>2, <3>5 DEF Live
      <4>2. Held - Flow * now <= phi
        BY <1>1, <1>3, <1>5, <3>1, <3>2, <4>1, ForgottenIsFull
      <4> DEFINE x == Flow * now
      <4>3. x \in Nat
        BY <1>1, <1>3, ProductIsNat
      <4>4. left + charge <= Held - x /\ Held - x <= phi
        BY <1>8, <4>2
      <4> HIDE DEF x, a
      <4>5. left + charge <= phi
        BY <1>3, <1>7, <1>8, <3>1, <4>3, <4>4
      <4> QED
        BY <2>2, <3>1, <3>5, <4>5 DEF a
    <3> QED
      BY <3>2, <3>3, <3>4, <3>5
  <2> QED
    BY <2>3, <2>4
<1>10. ASSUME NEW from \in Int, from <= clock
       PROVE  /\ Since(from)' = Since(from) + spent /\ Since(from) \in Nat /\ Since(from) * Unit \in Nat
              /\ Since(from)' * Unit = Since(from) * Unit + charge
              /\ Since(from)' * Unit <= Held + Flow * (d - from) - left
  <2> DEFINE a == Since(from) * Unit
  <2>1. Since(from) \in Nat /\ Since(from)' = Since(from) + spent
    BY <1>1, <1>6, <1>10, SumsOrdered
  <2>2. a \in Nat /\ (\/ a = 0
                      \/ phi \in Int /\ left + charge <= phi /\ a <= Held + Flow * (d - from) - phi)
    BY <1>9, <1>10
  <2>3. Since(from)' * Unit = a + charge
    BY <1>1, <1>3, <2>1 DEF charge
  <2> HIDE DEF a
  <2>4. a + charge <= Held + Flow * (d - from) - left
    BY <1>1, <1>3, <1>7, <1>8, <1>10, <2>2, ChargedSince
  <2> QED
    BY <2>1, <2>2, <2>3, <2>4 DEF a
<1>11. ASSUME NEW from \in Int, NEW to \in Int, from <= to
       PROVE  AdmittedCost(from, to)' * Unit <= Held + Owed + Flow * (to - from + d)
  <2>1. AdmittedCost(from, to) \in Nat /\ AdmittedCost(from, to) <= Since(from) /\ Since(from) \in Nat
    BY <1>6, SumsOrdered
  <2>2. CASE from <= clock /\ clock <= to
    <3> DEFINE a == AdmittedCost(from, to)' * Unit
               b == Since(from)' * Unit
    <3>1. AdmittedCost(from, to)' = AdmittedCost(from, to) + spent /\ Since(from)' = Since(from) + spent
      BY <1>1, <2>2
    <3>2. AdmittedCost(from, to)' \in Nat /\ AdmittedCost(from, to)' <= Since(from)' /\ Since(from)' \in Nat
      BY <1>1, <2>1, <3>1
    <3>3. a \in Nat /\ a <= b
      <4>1. Unit * AdmittedCost(from, to)' <= Unit * Since(from)'
        BY <1>3, <3>2, ProductGrows
      <4>2. Unit * AdmittedCost(from, to)' = a /\ Unit * Since(from)' = b
        BY <1>3, <3>2
      <4> QED
        BY <1>3, <3>2, <4>1, <4>2, ProductIsNat
    <3>4. b <= Held + Flow * (d - from) - left
      BY <1>10, <2>2
    <3> DEFINE z == Flow * (d - from)
    <3>5. z \in Int /\ b \in Int
      <4>1. z \in Int
        BY <1>1, <1>3
      <4> QED
        BY <1>3, <3>2, <4>1, ProductIsNat
    <3> HIDE DEF a, b, z
    <3>6. a <= Held + z - left
      BY <1>3, <1>8, <3>3, <3>4, <3>5 DEF z
    <3>7. a <= Held + Owed + Flow * (to - from + d)
      <4>1. a <= Held + Flow * (d - from) - left
        BY <3>6 DEF z
      <4> QED
        BY <1>1, <1>3, <1>8, <2>2, <3>3, <4>1, ChargedBetween
    <3> QED
      BY <3>7 DEF a
  <2>3. CASE ~ (from <= clock /\ clock <= to)
    <3>1. AdmittedCost(from, to)' = AdmittedCost(from, to)
      BY <1>1, <2>1, <2>3
    <3> QED
      BY <1>11, <3>1 DEF Charged, d
  <2> QED
    BY <2>2, <2>3
<1>12. \A p \in Requests : Admitted(p)' => hit'[p].at <= clock
  <2>1. \A p \in Requests : Admitted(p) => hit[p].at <= clock
    BY DEF Inductive, Times
  <2> QED
    BY <1>1, <2>1
<1>13. scenario.delay' = d
  BY <1>1 DEF d
<1>14. \A from \in Int : from <= Written(cell)' => Since(from)' * Unit' <= Held' + Flow' * (scenario.delay' - from) - Potential(cell)'
  BY <1>4, <1>8, <1>10, <1>13
<1>15. \A from, to \in Int : from <= to =>
         AdmittedCost(from, to)' * Unit' <= Held' + Owed' + Flow' * (to - from + scenario.delay')
  BY <1>4, <1>11, <1>13
<1>16. /\ cell' # Absent /\ Sound(cell, clock)' /\ Written(cell)' <= clock' /\ Potential(cell)' \in Int
       /\ Potential(cell)' >= -Owed' - Flow' * Written(cell)'
       /\ \A p \in Requests : Admitted(p)' => hit'[p].at <= Written(cell)'
  BY <1>1, <1>4, <1>8, <1>12
<1> QED
  BY <1>14, <1>15, <1>16 DEF Charged

\* At the start nobody was admitted.
LEMMA ChargedInit == Init => Charged
<1> SUFFICES ASSUME Init, Bucket PROVE Charged
  BY DEF Charged
<1>1. Inductive
  BY InductiveInit
<1>2. cell = Absent
  BY DEF Init, EmptyCell, Bucket, Windowed
<1>3. \A q \in Requests : ~ Admitted(q)
  BY DEF Init, Admitted
<1>4. hit \in [Requests -> Hits]
  BY <1>1 DEF Inductive, Shapes
<1>5. ASSUME NEW from \in Int, NEW to \in Int, from <= to
      PROVE  AdmittedCost(from, to) * Unit <= Held + Owed + Flow * (to - from + scenario.delay)
  <2>1. AdmittedCost(from, to) = 0
    <3>1. /\ AdmittedCost(from, to) \in Nat /\ Since(from) \in Nat /\ AdmittedCost(from, to) <= Since(from)
          /\ (\A q \in Requests : Admitted(q) => hit[q].at < from) => Since(from) = 0
      BY <1>4, SumsOrdered
    <3>2. Since(from) = 0
      BY <1>3, <3>1
    <3> QED
      BY <3>1, <3>2
  <2>2. Unit \in Nat
    BY <1>1, BucketTypes
  <2> QED
    BY <1>1, <1>5, <2>1, <2>2, BucketMayAdmitNothing
<1> QED
  BY <1>2, <1>3, <1>5 DEF Charged

\* So every strategy's decision keeps it.
LEMMA ChargedDecide ==
  ASSUME Inductive, Charged, NEW q \in Requests, Decide(q)
  PROVE  Charged'
<1> DEFINE out   == HitOf(rate, cell, hit[q].now, hit[q].cost, clock)
           spent == Spent(out, hit[q].cost)
<1>1. /\ cell' = out.cell /\ scenario' = scenario /\ clock' = clock /\ clock \in Nat
      /\ hit[q].now \in Nat /\ hit[q].cost \in Costs /\ hit[q].now <= clock /\ clock <= hit[q].now + scenario.delay
      /\ out.wait # 0 => spent = 0
      /\ \A from \in Int : Since(from)' = Since(from) + (IF from <= clock THEN spent ELSE 0)
      /\ \A from, to \in Int : AdmittedCost(from, to)' =
           AdmittedCost(from, to) + (IF from <= clock /\ clock <= to THEN spent ELSE 0)
      /\ \A p \in Requests : Admitted(p)' => (Admitted(p) /\ hit'[p] = hit[p]) \/ (hit'[p].at = clock /\ out.wait = 0)
  BY DecideSums
<1> SUFFICES ASSUME Bucket PROVE Charged'
  BY <1>1, SameScenario DEF Charged
<1>2. RateOK(rate) /\ CellOK(rate, cell) /\ hit[q].cost \in Nat \ {0}
  BY <1>1, BucketTypes, ScenariosAssumption
<1>3. CASE Charging(cell, out.cell, hit[q].now, clock, spent * Unit)
  BY <1>3, ChargedStep
<1>4. CASE rate.strategy = "token_bucket"
  BY <1>1, <1>3, <1>4, TokenBucketCharges, HitOfIs
<1>5. CASE Leaky(rate.strategy)
  <2>1. LevelCell(rate, cell)
    BY <1>2, <1>5 DEF CellOK, Leaky
  <2>2. Leaked(rate, cell, hit[q].now, clock, hit[q].cost, out)
    BY <1>1, <1>2, <1>5, <2>1, LeakyBucketStep, LeakyBucketQueueStep, HitOfIs DEF Leaky
  <2> QED
    BY <1>1, <1>3, <1>5, <2>2, LeakyCharges
<1>6. CASE rate.strategy = "cost_based_token_bucket"
  <2>1. hit[q].now = clock
    <3>1. scenario.delay = 0
      BY <1>6 DEF Bucket
    <3> QED
      BY <1>1, <3>1
  <2> QED
    BY <1>1, <1>3, <1>6, <2>1, CostBasedCharges, HitOfIs
<1>7. CASE rate.strategy = "gcra"
  <2>1. out = GCRA(rate, cell, hit[q].now, hit[q].cost, clock)
    BY <1>7, HitOfIs
  <2>2. CASE out.wait = 0
    BY <1>1, <1>3, <1>7, <2>1, <2>2, GCRACharges
  <2>3. CASE out.wait # 0
    <3>1. cell' = cell
      BY <1>1, <1>7, <2>1, <2>3, GCRACharges
    <3>2. hit \in [Requests -> Hits]
      BY DEF Inductive, Shapes
    <3>3. ASSUME NEW from \in Int, NEW to \in Int
          PROVE  AdmittedCost(from, to)' = AdmittedCost(from, to) /\ Since(from)' = Since(from)
      <4>1. AdmittedCost(from, to) \in Nat /\ Since(from) \in Nat
        BY <3>2, SumsOrdered
      <4>2. spent = 0
        BY <1>1, <2>3
      <4> HIDE DEF out, spent
      <4>3. /\ Since(from)' = Since(from) + (IF from <= clock THEN spent ELSE 0)
            /\ AdmittedCost(from, to)' = AdmittedCost(from, to) + (IF from <= clock /\ clock <= to THEN spent ELSE 0)
        BY <1>1
      <4> QED
        BY <4>1, <4>2, <4>3
    <3> HIDE DEF out
    <3> QED
      BY <1>1, <2>3, <3>1, <3>3, ChargedSame
  <2> QED
    BY <2>2, <2>3
<1> QED
  BY <1>4, <1>5, <1>6, <1>7 DEF Bucket, Leaky

\* And every step.
LEMMA ChargedNext == Inductive /\ Charged /\ [Next]_vars => Charged'
<1> SUFFICES ASSUME Inductive, Charged, [Next]_vars PROVE Charged'
  OBVIOUS
<1>1. CASE \E q \in Requests : Decide(q)
  BY <1>1, ChargedDecide
<1>2. CASE \A q \in Requests : ~ Decide(q)
  <2>1. CASE Stepwise
    <3>1. scenario' = scenario
      BY DEF Next, Begin, Decide, Lock, Count, ReadPrevious, Refresh, Weigh, Tick, vars
    <3>2. ~ Bucket
      BY <2>1 DEF Stepwise, Bucket
    <3> QED
      BY <3>1, <3>2, SameScenario DEF Charged
  <2>2. CASE ~ Stepwise
    <3>1. clock \in Nat
      BY DEF Inductive, Shapes
    <3>2. /\ scenario' = scenario /\ cell' = cell /\ clock' \in Nat /\ clock <= clock'
          /\ \A from, to : AdmittedCost(from, to)' = AdmittedCost(from, to) /\ Since(from)' = Since(from)
          /\ \A p \in Requests : Admitted(p)' => Admitted(p) /\ hit'[p] = hit[p]
      BY <1>2, <2>2, <3>1, OtherSums
    <3> QED
      BY <3>2, ChargedSame
  <2> QED
    BY <2>1, <2>2
<1> QED
  BY <1>1, <1>2

\* The times of decisions are numbers, and somebody had a cost then.
LEMMA DecisionTimes ==
  ASSUME Inductive, NEW t \in Decisions
  PROVE  t \in Nat /\ Costs # {}
<1>1. PICK q \in Requests : Admitted(q) /\ t = hit[q].at
  BY DEF Decisions
<1>2. hit[q] \in Hits /\ hit[q].pc = "admitted"
  BY <1>1 DEF Inductive, Shapes, Admitted
<1> QED
  BY <1>1, <1>2, HitKinds

\* The invariant implies the bound of every bucket.
LEMMA ChargedBounds == Inductive /\ Charged => BucketBound
<1> SUFFICES ASSUME Inductive, Charged, NothingToRemember,
                    NEW from \in Decisions, NEW to \in Decisions, from <= to
             PROVE  LET flow == rate.limit * (to - from + scenario.delay)
                    IN  /\ rate.strategy = "token_bucket" =>
                             AdmittedCost(from, to) * rate.period <= (rate.capacity + rate.debt) * rate.period + flow
                        /\ rate.strategy \in {"leaky_bucket", "leaky_bucket_queue"}
                             /\ (\A cost \in Costs : cost <= rate.limit) =>
                             AdmittedCost(from, to) * rate.period <= rate.limit * rate.period + flow
                        /\ rate.strategy = "cost_based_token_bucket"
                             /\ scenario.delay = 0 /\ rate.minRefill <= 100 =>
                             AdmittedCost(from, to) * rate.period <= rate.capacity * rate.period + flow
                        /\ rate.strategy = "gcra" =>
                             (AdmittedCost(from, to) - Max(Costs)) * rate.period <= flow + rate.limit * rate.tolerance
  BY DEF BucketBound
<1> DEFINE cost == AdmittedCost(from, to)
           flow == rate.limit * (to - from + scenario.delay)
<1>1. from \in Nat /\ to \in Nat /\ Costs # {}
  BY DecisionTimes
<1>2. cost \in Nat
  BY <1>1, SumsOrdered DEF Inductive, Shapes
<1>3. /\ scenario.delay \in Nat /\ rate.limit \in Nat \ {0} /\ rate.period \in Nat \ {0}
      /\ rate.capacity \in Nat /\ rate.debt \in Nat /\ RateOK(rate)
  BY RateIsOK DEF Inductive, Shapes
<1>4. flow \in Nat
  <2>1. to - from + scenario.delay \in Nat
    BY <1>1, <1>3
  <2> QED
    BY <1>3, <2>1, ProductIsNat
<1>5. Bucket => cost * Unit <= Held + Owed + Flow * (to - from + scenario.delay)
  BY <1>1 DEF Charged
<1>6. ASSUME rate.strategy = "token_bucket"
      PROVE  cost * rate.period <= (rate.capacity + rate.debt) * rate.period + flow
  <2>1. Bucket
    BY <1>1, <1>6 DEF Bucket, Leaky
  <2>2. cost * rate.period <= rate.capacity * rate.period + rate.debt * rate.period + flow
    BY <1>5, <1>6, <2>1 DEF Unit, Held, Owed, Flow
  <2>3. (rate.capacity + rate.debt) * rate.period = rate.capacity * rate.period + rate.debt * rate.period
    BY <1>3
  <2> QED
    BY <2>2, <2>3
<1>7. ASSUME rate.strategy \in {"leaky_bucket", "leaky_bucket_queue"}, \A c \in Costs : c <= rate.limit
      PROVE  cost * rate.period <= rate.limit * rate.period + flow
  <2>1. Bucket
    BY <1>1, <1>7 DEF Bucket, Leaky
  <2> DEFINE top == rate.limit * rate.period
  <2>2. Held = 0 /\ Owed = top /\ Flow = rate.limit /\ Unit = rate.period
    BY <1>7 DEF Unit, Held, Owed, Flow
  <2>3. top \in Nat
    BY <1>3, ProductIsNat
  <2>4. cost * rate.period <= 0 + top + flow
    BY <1>5, <2>1, <2>2
  <2> HIDE DEF top, flow
  <2> QED
    BY <1>4, <2>3, <2>4 DEF top
<1>8. ASSUME rate.strategy = "cost_based_token_bucket", scenario.delay = 0, rate.minRefill <= 100
      PROVE  cost * rate.period <= rate.capacity * rate.period + flow
  <2>1. Bucket
    BY <1>1, <1>8 DEF Bucket, Leaky
  <2> DEFINE charge == cost * rate.period
             full == rate.capacity * rate.period
             time == to - from + scenario.delay
  <2>2. time \in Nat
    BY <1>1, <1>3
  <2>3. Held = full * Grain /\ Owed = 0 /\ Flow = rate.limit * Grain /\ Unit = rate.period * Grain
    BY <1>8 DEF Unit, Held, Owed, Flow, Full
  <2>4. charge \in Nat /\ full \in Nat
    BY <1>2, <1>3, ProductIsNat
  <2> HIDE DEF cost, time
  <2>5. cost * Unit = charge * Grain /\ Flow * time = (rate.limit * time) * Grain
    BY <1>2, <1>3, <2>2, <2>3 DEF Grain
  <2> DEFINE f == rate.limit * time
  <2>6. f \in Nat
    BY <1>3, <2>2, ProductIsNat
  <2>7. cost * Unit <= Held + Owed + Flow * time
    BY <1>5, <2>1 DEF cost, time
  <2> HIDE DEF charge, full, f
  <2>8. charge * Grain <= full * Grain + 0 + f * Grain
    BY <2>3, <2>5, <2>7 DEF f
  <2>9. charge <= full + f
    BY <2>4, <2>6, <2>8 DEF Grain
  <2> QED
    BY <2>9 DEF charge, full, f, time, cost
<1>9. ASSUME rate.strategy = "gcra"
      PROVE  (cost - Max(Costs)) * rate.period <= flow + rate.limit * rate.tolerance
  <2>1. Bucket
    BY <1>1, <1>9 DEF Bucket, Leaky
  <2> DEFINE most == Max(Costs) * rate.period
             ahead == rate.limit * rate.tolerance
             charge == cost * rate.period
  <2>2. Held = 0 /\ Owed = most + ahead /\ Flow = rate.limit /\ Unit = rate.period
    BY <1>9 DEF Unit, Held, Owed, Flow
  <2>3. charge <= 0 + (most + ahead) + flow
    BY <1>5, <2>1, <2>2
  <2>4. Max(Costs) \in Nat /\ rate.tolerance \in Nat
    <3>1. Costs \in SUBSET Nat /\ IsFiniteSet(Costs)
      BY ScenariosAssumption
    <3> QED
      BY <1>1, <1>3, <1>9, <3>1, MaxOfCosts DEF RateOK, StrategyFields
  <2>5. most \in Nat /\ ahead \in Nat /\ charge \in Nat
    BY <1>2, <1>3, <2>4, ProductIsNat
  <2> HIDE DEF cost
  <2>6. (cost - Max(Costs)) * rate.period = charge - most
    BY <1>2, <1>3, <2>4 DEF cost
  <2> HIDE DEF charge, most, ahead, flow
  <2>7. charge - most <= flow + ahead
    BY <1>4, <2>3, <2>5
  <2> QED
    BY <2>6, <2>7 DEF flow, ahead
<1> QED
  BY <1>6, <1>7, <1>8, <1>9

\* In any stretch of time a bucket admits what it holds and may owe and what flows in
\* meanwhile, and no more, whatever the rates and in whatever order the requests that
\* waited for the key's lock come to decide.
THEOREM Buckets == Spec => []BucketBound
<1>1. Init => Inductive /\ Charged
  BY InductiveInit, ChargedInit
<1>2. Inductive /\ Charged /\ [Next]_vars => (Inductive /\ Charged)'
  BY InductiveNext, ChargedNext
<1>3. Inductive /\ Charged => BucketBound
  BY ChargedBounds
<1> QED
  BY <1>1, <1>2, <1>3, PTL DEF Spec

----------------------------------------------------------------------------
(* Windows.  The log knows all that was admitted less than a period and the delay
   before, for no entry leaves it before: neither when it is pruned nor when it
   expires. *)

\* The entries that are no older than n.
Younger(L, n) == {e \in L : e.ts >= n}

\* The logs the bound is promised for.
Logging ==
  /\ rate.strategy \in {"sliding_window_log", "priority_queue"} /\ rate.period <= LogTTL(rate)
  /\ rate.strategy = "priority_queue" => rate.queue >= rate.limit

\* The log remembers what it has to: the requests admitted within the period, each
\* at a time at most the delay after its entry's, so that their cost is within that
\* of the entries still stored.
Recalled ==
  Logging =>
    /\ cell # Absent => \A q \in Requests : Admitted(q) => hit[q].at <= cell.exp - LogTTL(rate)
    /\ \A n \in Int : n > clock - rate.period =>
         Since(n + scenario.delay) <= LogCost(Younger(LogAt(cell, clock), n))
    /\ \A from, to \in Int : to - from + scenario.delay < rate.period => AdmittedCost(from, to) <= rate.limit

\* The entries younger than a time within the period are kept when the older ones
\* are dropped.
LEMMA YoungerParts ==
  ASSUME NEW r, r.period \in Nat, NEW L \in Logs, NEW now \in Nat, NEW n \in Int, n > now - r.period
  PROVE  /\ Younger(L, n) \in SUBSET Within(r, L, now) /\ Younger(Within(r, L, now), n) = Younger(L, n)
         /\ Younger(L, n) \in Logs /\ LogCost(Younger(L, n)) \in Nat
         /\ LogCost(Younger(L, n)) <= LogCost(Within(r, L, now)) /\ LogCost(Within(r, L, now)) \in Nat
<1>1. \A e \in L : e.ts \in Nat
  BY DEF Logs
<1>2. Younger(L, n) \in SUBSET Within(r, L, now) /\ Younger(Within(r, L, now), n) = Younger(L, n)
  BY <1>1 DEF Younger, Within
<1>3. Within(r, L, now) \in Logs
  BY WithinType
<1> QED
  BY <1>2, <1>3, LogCostGrows, LogCostType

\* The types of the quantities above.
LEMMA LogTypes ==
  ASSUME Inductive, Logging
  PROVE  /\ RateOK(rate) /\ scenario.delay \in Nat /\ LogCell(rate, cell) /\ clock \in Nat
         /\ rate.limit \in Nat \ {0} /\ rate.period \in Nat \ {0} /\ LogTTL(rate) \in Nat \ {0}
         /\ hit \in [Requests -> Hits] /\ LogAt(cell, clock) \in Logs
<1>1. /\ RateOK(rate) /\ scenario.delay \in Nat /\ LogCell(rate, cell) /\ clock \in Nat
      /\ rate.limit \in Nat \ {0} /\ rate.period \in Nat \ {0} /\ hit \in [Requests -> Hits]
  BY RateIsOK DEF Inductive, Shapes, Logging, CellOK
<1>2. LogTTL(rate) \in Nat \ {0}
  BY <1>1, TTLsPositive DEF TTLs
<1> QED
  BY <1>1, <1>2, LogAtType

\* The rate never changes.
LEMMA SameLogging ==
  ASSUME scenario' = scenario
  PROVE  rate' = rate /\ (Logging' <=> Logging)
BY DEF Logging, rate

\* At the start nobody was admitted.
LEMMA RecalledInit == Init => Recalled
<1> SUFFICES ASSUME Init, Logging PROVE Recalled
  BY DEF Recalled
<1>1. Inductive
  BY InductiveInit
<1>2. cell = Absent
  BY DEF Init, EmptyCell, Logging, Windowed
<1>3. \A q \in Requests : ~ Admitted(q)
  BY DEF Init, Admitted
<1>4. ASSUME NEW from \in Int, NEW to \in Int
      PROVE  AdmittedCost(from, to) = 0 /\ Since(from) = 0
  <2>1. /\ AdmittedCost(from, to) \in Nat /\ Since(from) \in Nat /\ AdmittedCost(from, to) <= Since(from)
        /\ (\A q \in Requests : Admitted(q) => hit[q].at < from) => Since(from) = 0
    BY <1>1, LogTypes, SumsOrdered
  <2>2. Since(from) = 0
    BY <1>3, <2>1
  <2> QED
    BY <2>1, <2>2
<1>5. ASSUME NEW n \in Int
      PROVE  Since(n + scenario.delay) <= LogCost(Younger(LogAt(cell, clock), n))
  <2>1. n + scenario.delay \in Int
    BY <1>1, LogTypes
  <2>2. Since(n + scenario.delay) = 0
    BY <1>4, <2>1
  <2>3. Younger(LogAt(cell, clock), n) \in SUBSET LogAt(cell, clock)
    BY DEF Younger
  <2>4. LogCost(Younger(LogAt(cell, clock), n)) \in Nat
    BY <1>1, <2>3, LogTypes, LogCostGrows, LogCostType
  <2> QED
    BY <2>2, <2>4
<1>6. rate.limit \in Nat
  BY <1>1, LogTypes
<1> QED
  BY <1>2, <1>4, <1>5, <1>6 DEF Recalled

\* A log that expires has nothing left that is young enough.
LEMMA RecalledOther ==
  ASSUME Inductive, Recalled, [Next]_vars, \A q \in Requests : ~ Decide(q)
  PROVE  Recalled'
<1>0. scenario' = scenario
  BY DEF Next, Begin, Decide, Lock, Count, ReadPrevious, Refresh, Weigh, Tick, vars
<1> SUFFICES ASSUME Logging PROVE Recalled'
  BY <1>0, SameLogging DEF Recalled
<1>1. ~ Stepwise
  BY DEF Stepwise, Logging
<1>2. /\ rate' = rate /\ scenario' = scenario /\ cell' = cell /\ clock' \in Nat
      /\ clock' = clock \/ clock' = clock + 1
      /\ \A from, to : AdmittedCost(from, to)' = AdmittedCost(from, to) /\ Since(from)' = Since(from)
      /\ \A p \in Requests : Admitted(p)' <=> Admitted(p)
      /\ \A p \in Requests : Admitted(p) => hit'[p] = hit[p]
  BY <1>1, OtherSums
<1>3. /\ scenario.delay \in Nat /\ clock \in Nat /\ LogCell(rate, cell) /\ rate.period \in Nat \ {0}
      /\ LogTTL(rate) \in Nat \ {0} /\ hit \in [Requests -> Hits] /\ LogAt(cell, clock) \in Logs
  BY LogTypes
<1>4. rate.period <= LogTTL(rate)
  BY DEF Logging
<1> DEFINE d == scenario.delay
<1>5. ASSUME NEW n \in Int, n > clock' - rate.period
      PROVE  Since(n + d) <= LogCost(Younger(LogAt(cell, clock'), n))
  <2>1. n > clock - rate.period
    BY <1>2, <1>3, <1>5
  <2>2. Since(n + d) <= LogCost(Younger(LogAt(cell, clock), n))
    BY <2>1 DEF Recalled
  <2>3. CASE LogAt(cell, clock') = LogAt(cell, clock)
    BY <2>2, <2>3
  <2>4. CASE LogAt(cell, clock') # LogAt(cell, clock)
    <3>1. cell # Absent /\ cell.exp \in Nat
      BY <1>2, <1>3, <2>4, AbsentIsDead DEF LogAt, LogCell
    <3>2. cell.exp <= clock' /\ LogAt(cell, clock') = {}
      BY <1>2, <1>3, <2>4, <3>1 DEF LogAt, Live
    <3>3. \A q \in Requests : Admitted(q) => hit[q].at \in Nat /\ hit[q].at <= cell.exp - LogTTL(rate)
      BY <1>3, <3>1, HitKinds DEF Recalled, Admitted
    <3>4. \A q \in Requests : Admitted(q) => hit[q].at < n + d
      BY <1>2, <1>3, <1>4, <1>5, <3>1, <3>2, <3>3
    <3>5. Since(n + d) = 0
      <4>1. n + d \in Int
        BY <1>3
      <4>2. (\A q \in Requests : Admitted(q) => hit[q].at < n + d) => Since(n + d) = 0
        BY <1>3, <4>1, SumsOrdered
      <4> QED
        BY <3>4, <4>2
    <3>6. Younger({}, n) = {}
      BY DEF Younger
    <3> QED
      BY <3>2, <3>5, <3>6, LogCostEmpty
  <2> QED
    BY <2>3, <2>4
<1>6. cell # Absent => \A q \in Requests : Admitted(q)' => hit'[q].at <= cell.exp - LogTTL(rate)
  BY <1>2 DEF Recalled
<1>7. \A from, to \in Int : to - from + d < rate.period => AdmittedCost(from, to)' <= rate.limit
  BY <1>2 DEF Recalled
<1>8. \A n \in Int : n > clock' - rate.period => Since(n + d)' <= LogCost(Younger(LogAt(cell, clock'), n))
  BY <1>2, <1>5
<1> QED
  BY <1>2, <1>6, <1>7, <1>8 DEF Recalled

\* A decision records what it admits and drops nothing that is within the period.
LEMMA RecalledDecide ==
  ASSUME Inductive, Recalled, NEW q \in Requests, Decide(q)
  PROVE  Recalled'
<1> DEFINE now   == hit[q].now
           cost  == hit[q].cost
           out   == HitOf(rate, cell, now, cost, clock)
           spent == Spent(out, cost)
           d     == scenario.delay
           log   == LogAt(cell, clock)
           valid == Within(rate, log, now)
<1>1. /\ cell' = out.cell /\ rate' = rate /\ scenario' = scenario /\ clock' = clock /\ clock \in Nat
      /\ now \in Nat /\ cost \in Costs /\ cost \in Nat \ {0} /\ now <= clock /\ clock <= now + d /\ d \in Nat
      /\ (out.wait # 0 => spent = 0) /\ (out.wait = 0 => spent = cost)
      /\ \A from \in Int : Since(from)' = Since(from) + (IF from <= clock THEN spent ELSE 0)
      /\ \A from, to \in Int : AdmittedCost(from, to)' =
           AdmittedCost(from, to) + (IF from <= clock /\ clock <= to THEN spent ELSE 0)
      /\ \A p \in Requests : Admitted(p)' => (Admitted(p) /\ hit'[p] = hit[p]) \/ (hit'[p].at = clock /\ out.wait = 0)
  BY DecideSums
<1> SUFFICES ASSUME Logging PROVE Recalled'
  BY <1>1, SameLogging DEF Recalled
<1>2. /\ RateOK(rate) /\ LogCell(rate, cell) /\ rate.period \in Nat \ {0} /\ rate.limit \in Nat \ {0}
      /\ LogTTL(rate) \in Nat \ {0} /\ hit \in [Requests -> Hits] /\ log \in Logs
  BY LogTypes
<1>3. rate.strategy = "sliding_window_log" \/ (rate.strategy = "priority_queue" /\ rate.queue >= rate.limit)
  BY DEF Logging
<1>4. /\ Recorded(rate, log, now, cost, out)
      /\ (out.cell = cell /\ out.wait # 0) \/ out.cell \in [log : Logs, exp : {clock + LogTTL(rate)}]
      /\ out.wait # 0 => out.cell = cell \/ out.cell.log = valid
  <2> DEFINE Step(r, c, n, at, p) ==
        LET o == HitOf(r, c, n, p, at)
        IN  /\ Recorded(r, LogAt(c, at), n, p, o)
            /\ (o.cell = c /\ o.wait # 0) \/ o.cell \in [log : Logs, exp : {at + LogTTL(r)}]
            /\ o.wait # 0 => o.cell = c \/ o.cell.log = Within(r, LogAt(c, at), n)
  <2>1. ASSUME NEW r, RateOK(r), r.strategy \in {"sliding_window_log", "priority_queue"}, NEW c, LogCell(r, c),
               NEW n \in Nat, NEW at \in Nat, NEW p \in Costs
        PROVE  Step(r, c, n, at, p)
    <3>1. CASE r.strategy = "sliding_window_log"
      <4>1. HitOf(r, c, n, p, at) = SlidingWindowLog(r, c, n, p, at)
        BY <3>1, HitOfIs
      <4> QED
        BY <2>1, <3>1, <4>1, SlidingWindowLogStep
    <3>2. CASE r.strategy = "priority_queue"
      <4>1. HitOf(r, c, n, p, at) = PriorityQueue(r, c, n, p, at)
        BY <3>2, HitOfIs
      <4> DEFINE o == PriorityQueue(r, c, n, p, at)
      <4>2. /\ o.wait = 0 => o.cell \in [log : Logs, exp : {at + LogTTL(r)}]
            /\ Recorded(r, LogAt(c, at), n, p, o)
            /\ o.wait # 0 => o.cell = c
        BY <2>1, <3>2, PriorityQueueStep
      <4> HIDE DEF o
      <4>3. HitOf(r, c, n, p, at) = o
        BY <4>1 DEF o
      <4>4. (o.cell = c /\ o.wait # 0) \/ o.cell \in [log : Logs, exp : {at + LogTTL(r)}]
        BY <4>2
      <4> QED
        BY <4>2, <4>3, <4>4
    <3> QED
      BY <2>1, <3>1, <3>2
  <2> HIDE DEF Step, out, now, cost, log, valid
  <2>2. Step(rate, cell, now, clock, cost)
    BY <1>1, <1>2, <1>3, <2>1
  <2> QED
    BY <2>2 DEF Step, out, log, valid
<1>5. out.wait = 0 => \E e \in [ts : {now}, nth : Nat, cost : {cost}] :
         e \notin valid /\ LogCost(valid) + cost <= rate.limit /\ out.cell.log = valid \cup {e}
  BY <1>3, <1>4 DEF Recorded
<1>6. ASSUME NEW n \in Int, n > clock - rate.period
      PROVE  /\ Since(n + d) <= LogCost(Younger(log, n)) /\ Younger(valid, n) = Younger(log, n)
             /\ Younger(log, n) \in Logs /\ LogCost(Younger(log, n)) <= LogCost(valid)
             /\ LogCost(Younger(log, n)) \in Nat /\ LogCost(valid) \in Nat
  <2>1. n > now - rate.period
    BY <1>1, <1>2, <1>6
  <2>2. Since(n + d) <= LogCost(Younger(log, n))
    BY <1>6 DEF Recalled
  <2> HIDE DEF log, now
  <2> QED
    BY <1>1, <1>2, <2>1, <2>2, YoungerParts
<1>7. \A from \in Int, to \in Int : Since(from) \in Nat /\ AdmittedCost(from, to) \in Nat /\ AdmittedCost(from, to) <= Since(from)
  BY <1>2, SumsOrdered
<1> HIDE DEF out, now, cost, spent, log, valid, d
<1>8. spent \in Nat
  BY <1>1
<1>9. cell' # Absent => \A p \in Requests : Admitted(p)' => hit'[p].at <= cell'.exp - LogTTL(rate)
  <2>1. CASE cell' = cell /\ out.wait # 0
    BY <1>1, <2>1 DEF Recalled
  <2>2. CASE cell' \in [log : Logs, exp : {clock + LogTTL(rate)}]
    <3>1. cell'.exp - LogTTL(rate) = clock
      BY <1>1, <1>2, <2>2
    <3>2. \A p \in Requests : Admitted(p) => hit[p].at <= clock
      BY DEF Inductive, Times
    <3> QED
      BY <1>1, <3>1, <3>2
  <2> QED
    BY <1>1, <1>4, <2>1, <2>2
<1>10. ASSUME NEW n \in Int, n > clock - rate.period, NEW m \in Int, m = n + d
       PROVE  Since(m)' <= LogCost(Younger(LogAt(cell', clock), n))
  <2>1. Since(m) \in Nat
    BY <1>7
  <2>2. Since(m)' = Since(m) + (IF m <= clock THEN spent ELSE 0)
    BY <1>1
  <2>3. Since(m) <= LogCost(Younger(log, n)) /\ Younger(valid, n) = Younger(log, n) /\ Younger(log, n) \in Logs
        /\ LogCost(Younger(log, n)) \in Nat
    BY <1>6, <1>10
  <2>4. CASE out.wait # 0
    <3>1. spent = 0 /\ Since(m)' = Since(m)
      BY <1>1, <2>1, <2>2, <2>4
    <3>2. CASE cell' = cell
      BY <2>3, <3>1, <3>2 DEF log
    <3>3. CASE cell' \in [log : Logs, exp : {clock + LogTTL(rate)}] /\ cell'.log = valid
      <4>1. LogAt(cell', clock) = valid
        BY <1>1, <1>2, <3>3 DEF LogAt, Live
      <4> QED
        BY <2>3, <3>1, <4>1
    <3> QED
      BY <1>1, <1>4, <2>4, <3>2, <3>3
  <2>5. CASE out.wait = 0
    <3>1. PICK e \in [ts : {now}, nth : Nat, cost : {cost}] :
            e \notin valid /\ LogCost(valid) + cost <= rate.limit /\ cell'.log = valid \cup {e}
      BY <1>1, <1>5, <2>5
    <3>2. LogAt(cell', clock) = valid \cup {e}
      <4>1. cell' \in [log : Logs, exp : {clock + LogTTL(rate)}]
        BY <1>1, <1>4, <2>5
      <4> QED
        BY <1>1, <1>2, <3>1, <4>1 DEF LogAt, Live
    <3>3. CASE n <= now
      <4>1. Younger(valid \cup {e}, n) = Younger(log, n) \cup {e}
        BY <2>3, <3>3 DEF Younger
      <4>2. e \in [ts : Nat, nth : Nat, cost : Costs] /\ e.cost = cost /\ e \notin Younger(log, n)
        <5>1. e \notin Younger(valid, n)
          BY <3>1 DEF Younger
        <5> QED
          BY <1>1, <2>3, <5>1
      <4>3. LogCost(Younger(log, n) \cup {e}) = LogCost(Younger(log, n)) + cost
        BY <2>3, <4>2, LogCostAdd
      <4>4. spent = cost
        BY <1>1, <2>5
      <4>5. Since(m)' <= LogCost(Younger(log, n)) + cost
        BY <1>1, <1>10, <2>1, <2>2, <2>3, <4>4
      <4> QED
        BY <3>2, <4>1, <4>3, <4>5
    <3>4. CASE ~ (n <= now)
      <4>1. Younger(valid \cup {e}, n) = Younger(log, n)
        BY <2>3, <3>4 DEF Younger
      <4>2. ~ (m <= clock)
        BY <1>1, <1>10, <3>4
      <4>3. Since(m)' = Since(m)
        BY <2>1, <2>2, <4>2
      <4> QED
        BY <2>3, <3>2, <4>1, <4>3
    <3> QED
      BY <3>3, <3>4
  <2> QED
    BY <2>4, <2>5
<1>11. ASSUME NEW from \in Int, NEW to \in Int, to - from + d < rate.period
       PROVE  AdmittedCost(from, to)' <= rate.limit
  <2>1. AdmittedCost(from, to) \in Nat /\ AdmittedCost(from, to) <= Since(from) /\ Since(from) \in Nat
    BY <1>7
  <2>2. AdmittedCost(from, to)' = AdmittedCost(from, to) + (IF from <= clock /\ clock <= to THEN spent ELSE 0)
    BY <1>1
  <2>3. AdmittedCost(from, to) <= rate.limit
    BY <1>11 DEF Recalled, d
  <2>4. CASE from <= clock /\ clock <= to /\ out.wait = 0
    <3> DEFINE n == from - d
    <3>1. n \in Int /\ n > clock - rate.period /\ n + d = from
      BY <1>1, <1>2, <1>11, <2>4
    <3>2. Since(from) <= LogCost(Younger(log, n)) /\ LogCost(Younger(log, n)) <= LogCost(valid)
          /\ LogCost(Younger(log, n)) \in Nat /\ LogCost(valid) \in Nat
      BY <1>6, <3>1
    <3>3. LogCost(valid) + cost <= rate.limit
      BY <1>5, <2>4
    <3>4. AdmittedCost(from, to)' = AdmittedCost(from, to) + cost
      BY <1>1, <2>2, <2>4
    <3> QED
      BY <1>1, <1>2, <2>1, <3>2, <3>3, <3>4
  <2>5. CASE ~ (from <= clock /\ clock <= to /\ out.wait = 0)
    <3>1. AdmittedCost(from, to)' = AdmittedCost(from, to)
      BY <1>1, <2>1, <2>2, <2>5
    <3> QED
      BY <2>3, <3>1
  <2> QED
    BY <2>4, <2>5
<1>12. scenario.delay' = d
  BY <1>1 DEF d
<1>13. \A n \in Int : n > clock - rate.period => Since(n + scenario.delay)' <= LogCost(Younger(LogAt(cell', clock), n))
  <2> SUFFICES ASSUME NEW n \in Int, n > clock - rate.period
               PROVE  Since(n + scenario.delay)' <= LogCost(Younger(LogAt(cell', clock), n))
    OBVIOUS
  <2> DEFINE m == n + scenario.delay'
  <2>1. m \in Int /\ m = n + d
    BY <1>1, <1>12
  <2> QED
    BY <1>10, <2>1
<1> QED
  BY <1>1, <1>9, <1>11, <1>12, <1>13 DEF Recalled

\* Every step keeps the invariant.
LEMMA RecalledNext == Inductive /\ Recalled /\ [Next]_vars => Recalled'
BY RecalledDecide, RecalledOther

(* A fixed window's counter counts all that is admitted while it is in force, and
   the counter before it all that was admitted in the period before that.  Below
   a second a counter is in force for its aligned window, and otherwise until it expires. *)

\* How long a counter is in force: below a second its window, otherwise its TTL.
WindowLength == IF rate.period < Second THEN rate.period ELSE FixedWindowTTL(rate)

\* When the counter in force was started: the aligned start below a second, else
\* when it was stored.
Opened(c) == IF rate.period < Second THEN c.start ELSE c.exp - FixedWindowTTL(rate)

\* The fixed windows the bound is promised for.
Windowing ==
  /\ rate.strategy = "fixed_window" /\ rate.period <= FixedWindowTTL(rate)
  /\ rate.period < Second => scenario.delay = 0

\* A multiple of the period that is the start of a window.
Aligned(s) == \E t \in Nat : s = WindowStart(rate, t)

\* Since the counter in force was started no more than it counts was admitted; and
\* since less than a period before, at most the limit more.
TalliedFrom(b) ==
  /\ b <= clock /\ cell.exp >= b + WindowLength /\ (rate.period < Second => Aligned(b))
  /\ \A q \in Requests : Admitted(q) => hit[q].at < b + WindowLength
  /\ Since(b) <= rate.limit /\ Since(b) <= cell.count
  /\ \A from \in Int : from > b - rate.period => Since(from) <= rate.limit + Since(b)

\* The counters account for what was admitted: at most two of them in a period, and
\* one in an aligned window.
Tallied ==
  Windowing =>
    /\ cell = Absent => \A q \in Requests : ~ Admitted(q)
    /\ cell # Absent => \A b \in Int : b = Opened(cell) => TalliedFrom(b)
    /\ \A from, to \in Int : to - from < rate.period => AdmittedCost(from, to) <= 2 * rate.limit
    /\ rate.period < Second => \A s, e \in Int : Aligned(s) /\ e < s + rate.period => AdmittedCost(s, e) <= rate.limit

\* The types of the quantities above.
LEMMA WindowTypes ==
  ASSUME Inductive, Windowing
  PROVE  /\ RateOK(rate) /\ scenario.delay \in Nat /\ CounterCell(cell) /\ clock \in Nat
         /\ rate.limit \in Nat \ {0} /\ rate.period \in Nat \ {0} /\ FixedWindowTTL(rate) \in Nat \ {0}
         /\ hit \in [Requests -> Hits] /\ WindowLength \in Nat \ {0} /\ rate.period <= WindowLength
         /\ WindowLength <= FixedWindowTTL(rate)
         /\ cell # Absent => Opened(cell) \in Int /\ cell.exp \in Nat /\ cell.count \in Nat
<1>1. /\ RateOK(rate) /\ scenario.delay \in Nat /\ CounterCell(cell) /\ clock \in Nat
      /\ rate.limit \in Nat \ {0} /\ rate.period \in Nat \ {0} /\ hit \in [Requests -> Hits]
  BY RateIsOK DEF Inductive, Shapes, Windowing, CellOK
<1>2. FixedWindowTTL(rate) \in Nat \ {0} /\ rate.period <= FixedWindowTTL(rate)
  BY <1>1, TTLsPositive DEF TTLs, Windowing
<1>3. cell # Absent => Opened(cell) \in Int /\ cell.exp \in Nat /\ cell.count \in Nat
  BY <1>1, <1>2 DEF CounterCell, Opened
<1> QED
  BY <1>1, <1>2, <1>3 DEF WindowLength

\* The rate never changes.
LEMMA SameWindowing ==
  ASSUME scenario' = scenario
  PROVE  /\ rate' = rate /\ (Windowing' <=> Windowing) /\ WindowLength' = WindowLength
         /\ Opened(cell)' = Opened(cell') /\ (\A s : Aligned(s)' <=> Aligned(s))
<1>1. rate' = rate
  BY DEF rate
<1>2. Windowing' <=> Windowing
  BY <1>1 DEF Windowing
<1>3. WindowLength' = WindowLength /\ Opened(cell)' = Opened(cell')
  BY <1>1 DEF WindowLength, Opened
<1>4. \A s : Aligned(s)' <=> Aligned(s)
  BY <1>1 DEF Aligned
<1> QED
  BY <1>1, <1>2, <1>3, <1>4

\* Two aligned windows are the same or do not overlap.
LEMMA AlignedApart ==
  ASSUME NEW r, RateOK(r), NEW t \in Nat, NEW u \in Nat, WindowStart(r, t) <= u
  PROVE  WindowStart(r, t) = WindowStart(r, u) \/ WindowStart(r, t) + r.period <= WindowStart(r, u)
<1> DEFINE m == t \div r.period
           n == u \div r.period
           p == r.period
<1>1. p \in Nat \ {0}
  BY DEF RateOK
<1>2. m \in Int /\ n \in Int /\ u < p * n + p
  <2>1. \A k \in Nat \ {0} : /\ t \div k \in Int /\ u \div k \in Int /\ u < k * (u \div k) + k
    BY DivBounds
  <2> QED
    BY <1>1, <2>1
<1>3. WindowStart(r, t) = m * p /\ WindowStart(r, u) = n * p
  BY DEF WindowStart
<1> HIDE DEF m, n, p
<1>4. p * m = m * p /\ p * n = n * p /\ m * p \in Int /\ n * p \in Int /\ p * (n + 1) = p * n + p /\ p * (m + 1) = p * m + p
  BY <1>1, <1>2
<1>5. ~ (n < m)
  <2> SUFFICES ASSUME n < m PROVE FALSE
    OBVIOUS
  <2>1. p * (n + 1) <= p * m
    BY <1>1, <1>2, ProductGrows
  <2>2. m * p <= u
    BY <1>3
  <2> QED
    BY <1>1, <1>2, <1>4, <2>1, <2>2
<1>6. m < n => p * (m + 1) <= p * n
  BY <1>1, <1>2, ProductGrows
<1>7. m = n \/ m < n
  BY <1>2, <1>5
<1> QED
  BY <1>1, <1>3, <1>4, <1>6, <1>7 DEF p

\* At the start nobody was admitted.
LEMMA TalliedInit == Init => Tallied
<1> SUFFICES ASSUME Init, Windowing PROVE Tallied
  BY DEF Tallied
<1>1. Inductive
  BY InductiveInit
<1>2. cell = Absent
  BY DEF Init, EmptyCell, Windowing, Windowed
<1>3. \A q \in Requests : ~ Admitted(q)
  BY DEF Init, Admitted
<1>4. rate.limit \in Nat /\ hit \in [Requests -> Hits]
  BY <1>1, WindowTypes
<1>5. ASSUME NEW from \in Int, NEW to \in Int
      PROVE  AdmittedCost(from, to) = 0
  <2>1. /\ AdmittedCost(from, to) \in Nat /\ Since(from) \in Nat /\ AdmittedCost(from, to) <= Since(from)
        /\ (\A q \in Requests : Admitted(q) => hit[q].at < from) => Since(from) = 0
    BY <1>4, SumsOrdered
  <2>2. Since(from) = 0
    BY <1>3, <2>1
  <2> QED
    BY <2>1, <2>2
<1> QED
  BY <1>2, <1>3, <1>4, <1>5 DEF Tallied

\* A step that is no decision admits nobody.
LEMMA TalliedOther ==
  ASSUME Inductive, Tallied, [Next]_vars, \A q \in Requests : ~ Decide(q)
  PROVE  Tallied'
<1>0. scenario' = scenario
  BY DEF Next, Begin, Decide, Lock, Count, ReadPrevious, Refresh, Weigh, Tick, vars
<1> SUFFICES ASSUME Windowing PROVE Tallied'
  BY <1>0, SameWindowing DEF Tallied
<1>1. ~ Stepwise
  BY DEF Stepwise, Windowing
<1>2. /\ rate' = rate /\ scenario' = scenario /\ cell' = cell /\ clock' \in Nat
      /\ clock' = clock \/ clock' = clock + 1
      /\ \A from, to : AdmittedCost(from, to)' = AdmittedCost(from, to) /\ Since(from)' = Since(from)
      /\ \A p \in Requests : Admitted(p)' <=> Admitted(p)
      /\ \A p \in Requests : Admitted(p) => hit'[p] = hit[p]
  BY <1>1, OtherSums
<1>3. clock \in Nat
  BY WindowTypes
<1>4. WindowLength' = WindowLength /\ Opened(cell)' = Opened(cell) /\ (\A s : Aligned(s)' <=> Aligned(s))
  BY <1>0, <1>2, SameWindowing
<1>5. ASSUME NEW b \in Int, TalliedFrom(b)
      PROVE  TalliedFrom(b)'
  BY <1>2, <1>3, <1>4, <1>5 DEF TalliedFrom
<1>6. cell # Absent => \A b \in Int : b = Opened(cell) => TalliedFrom(b)'
  BY <1>5 DEF Tallied
<1> QED
  BY <1>2, <1>4, <1>6 DEF Tallied

\* The counter in force after a decision: the same one, or a new one that came into
\* force when the one before it no longer was.
InForce(b) ==
  /\ b <= clock /\ clock < b + WindowLength /\ cell'.exp >= b + WindowLength /\ (rate.period < Second => Aligned(b))
  /\ \/ cell # Absent /\ b = Opened(cell)
     \/ cell # Absent => Opened(cell) + WindowLength <= b

\* A decision that is counted by the counter in force, or by a new one once the old
\* one has ended, keeps the invariant.
LEMMA TalliedStep ==
  ASSUME Inductive, Tallied, Windowing, NEW q \in Requests, Decide(q),
         NEW cost \in Nat \ {0}, cost = hit[q].cost, NEW out, out = HitOf(rate, cell, hit[q].now, cost, clock),
         cell' # Absent, NEW b \in Int, b = Opened(cell'), InForce(b), NEW n \in Nat, n = cell'.count,
         out.wait = 0 => n <= rate.limit,
         cell # Absent /\ b = Opened(cell) => n = cell.count + cost \/ Opened(cell) + WindowLength <= b,
         n >= cost
  PROVE  Tallied'
<1> DEFINE spent == Spent(out, cost)
           len   == WindowLength
           limit == rate.limit
           p     == rate.period
<1>1. /\ rate' = rate /\ scenario' = scenario /\ clock' = clock /\ clock \in Nat
      /\ spent \in Nat /\ (out.wait # 0 => spent = 0) /\ (out.wait = 0 => spent = cost)
      /\ \A from \in Int : Since(from)' = Since(from) + (IF from <= clock THEN spent ELSE 0)
      /\ \A from, to \in Int : AdmittedCost(from, to)' =
           AdmittedCost(from, to) + (IF from <= clock /\ clock <= to THEN spent ELSE 0)
      /\ \A r \in Requests : Admitted(r)' => (Admitted(r) /\ hit'[r] = hit[r]) \/ (hit'[r].at = clock /\ out.wait = 0)
  BY DecideSums
<1>2. /\ limit \in Nat \ {0} /\ p \in Nat \ {0} /\ hit \in [Requests -> Hits] /\ len \in Nat \ {0} /\ p <= len
      /\ cell # Absent => Opened(cell) \in Int /\ cell.count \in Nat
  BY WindowTypes
<1>3. \A from \in Int, to \in Int :
        /\ Since(from) \in Nat /\ AdmittedCost(from, to) \in Nat /\ AdmittedCost(from, to) <= Since(from)
        /\ \A later \in Int : from <= later => Since(later) <= Since(from)
        /\ (\A r \in Requests : Admitted(r) => hit[r].at < from) => Since(from) = 0
  BY <1>2, SumsOrdered
<1>4. b <= clock /\ clock < b + len /\ cell'.exp >= b + len /\ (rate.period < Second => Aligned(b))
  BY DEF InForce
<1>5. cell # Absent => TalliedFrom(Opened(cell))
  BY <1>2 DEF Tallied
\* Before the decision, too, the counter that will be in force is good for what is still to be said of it.
<1>6. /\ Since(b) + spent <= limit /\ Since(b) + spent <= n
      /\ \A from \in Int : from > b - p => Since(from) <= limit + Since(b)
      /\ \A r \in Requests : Admitted(r) => hit[r].at < b + len
  <2>0. /\ Since(b) \in Nat /\ (out.wait = 0 => cost <= limit)
        /\ \A r \in Requests : Admitted(r) => hit[r].at \in Nat /\ hit[r].at <= clock
    <3>1. Since(b) \in Nat
      BY <1>3
    <3>2. out.wait = 0 => cost <= limit
      BY <1>2
    <3>3. \A r \in Requests : Admitted(r) => hit[r].at \in Nat /\ hit[r].at <= clock
      BY <1>2, HitKinds DEF Inductive, Times, Admitted
    <3> QED
      BY <3>1, <3>2, <3>3
  <2>1. CASE cell = Absent
    <3>1. \A r \in Requests : ~ Admitted(r)
      BY <2>1 DEF Tallied
    <3>2. \A from \in Int : Since(from) = 0
      BY <1>3, <3>1
    <3> HIDE DEF spent, len, limit, p
    <3>3. Since(b) = 0
      BY <3>2
    <3>4. spent <= limit /\ spent <= n
      BY <1>1, <1>2, <2>0
    <3> QED
      BY <1>1, <1>2, <3>1, <3>2, <3>3, <3>4
  <2>2. CASE cell # Absent /\ Opened(cell) + len <= b
    <3> DEFINE was == Opened(cell)
    <3>1. /\ was \in Int /\ Since(was) <= limit /\ \A r \in Requests : Admitted(r) => hit[r].at < was + len
      BY <1>2, <1>5, <2>2 DEF TalliedFrom
    <3> HIDE DEF was, spent, len, limit, p
    <3>2. was + len <= b
      BY <2>2 DEF was
    <3>3. \A r \in Requests : Admitted(r) => hit[r].at < b
      BY <1>2, <2>0, <3>1, <3>2
    <3>4. Since(b) = 0
      BY <1>3, <3>3
    <3>5. spent <= limit /\ spent <= n
      BY <1>1, <1>2, <2>0
    <3>6. \A r \in Requests : Admitted(r) => hit[r].at < b + len
      BY <1>2, <2>0, <3>3
    <3>7. ASSUME NEW from \in Int, from > b - p
          PROVE  Since(from) <= limit + Since(b)
      <4>1. was <= from
        BY <1>2, <3>1, <3>2, <3>7
      <4>2. Since(from) <= Since(was) /\ Since(from) \in Nat /\ Since(was) \in Nat
        BY <1>3, <3>1, <4>1
      <4> QED
        BY <1>2, <3>1, <3>4, <4>2
    <3>8. Since(b) + spent <= limit /\ Since(b) + spent <= n
      BY <1>1, <3>4, <3>5
    <3> QED
      BY <3>6, <3>7, <3>8
  <2>3. CASE cell # Absent /\ b = Opened(cell) /\ n = cell.count + cost
    <3>1. /\ Since(b) <= limit /\ Since(b) <= cell.count
          /\ \A from \in Int : from > b - p => Since(from) <= limit + Since(b)
          /\ \A r \in Requests : Admitted(r) => hit[r].at < b + len
      BY <1>5, <2>3 DEF TalliedFrom
    <3> HIDE DEF spent, len, limit, p
    <3>2. Since(b) + spent <= n
      BY <1>1, <1>2, <2>0, <2>3, <3>1
    <3>3. Since(b) + spent <= limit
      <4>1. out.wait = 0 => n <= limit
        BY DEF limit
      <4> QED
        BY <1>1, <1>2, <2>0, <3>1, <3>2, <4>1
    <3> QED
      BY <3>1, <3>2, <3>3
  <2> QED
    BY <2>1, <2>2, <2>3 DEF InForce
<1> HIDE DEF spent, len, limit, p
<1>7. Since(b)' = Since(b) + spent /\ Since(b) \in Nat
  BY <1>1, <1>3, <1>4
<1>8. ASSUME NEW from \in Int, from > b - p
      PROVE  Since(from)' <= limit + Since(b)' /\ Since(from)' \in Nat
  <2>1. Since(from)' = Since(from) + (IF from <= clock THEN spent ELSE 0) /\ Since(from) \in Nat
    BY <1>1, <1>3
  <2>2. Since(from) <= limit + Since(b)
    BY <1>6, <1>8
  <2> QED
    BY <1>1, <1>2, <1>7, <2>1, <2>2
<1>9. \A r \in Requests : Admitted(r)' => hit'[r].at < b + len
  BY <1>1, <1>4, <1>6
<1>10. ASSUME NEW from \in Int, NEW to \in Int
       PROVE  \/ AdmittedCost(from, to)' = AdmittedCost(from, to)
              \/ from <= clock /\ clock <= to /\ AdmittedCost(from, to)' <= Since(from)' /\ AdmittedCost(from, to)' \in Nat
  <2>1. AdmittedCost(from, to)' = AdmittedCost(from, to) + (IF from <= clock /\ clock <= to THEN spent ELSE 0)
    BY <1>1
  <2>2. Since(from)' = Since(from) + (IF from <= clock THEN spent ELSE 0)
    BY <1>1
  <2>3. Since(from) \in Nat /\ AdmittedCost(from, to) \in Nat /\ AdmittedCost(from, to) <= Since(from)
    BY <1>3
  <2> QED
    BY <1>1, <2>1, <2>2, <2>3
<1>11. ASSUME NEW from \in Int, NEW to \in Int, to - from < p
       PROVE  AdmittedCost(from, to)' <= 2 * limit
  <2>1. CASE AdmittedCost(from, to)' = AdmittedCost(from, to)
    BY <1>11, <2>1 DEF Tallied, p, limit
  <2>2. CASE from <= clock /\ clock <= to /\ AdmittedCost(from, to)' <= Since(from)' /\ AdmittedCost(from, to)' \in Nat
    <3>1. from > b - p
      BY <1>1, <1>2, <1>4, <1>11, <2>2
    <3>2. Since(from)' <= limit + Since(b)' /\ Since(from)' \in Nat
      BY <1>8, <3>1
    <3>3. Since(b)' <= limit /\ Since(b)' \in Nat
      BY <1>1, <1>6, <1>7
    <3> QED
      BY <1>2, <2>2, <3>2, <3>3
  <2> QED
    BY <1>10, <2>1, <2>2
<1>12. ASSUME rate.period < Second, NEW s \in Int, NEW e \in Int, Aligned(s), e < s + p
       PROVE  AdmittedCost(s, e)' <= limit
  <2>1. CASE AdmittedCost(s, e)' = AdmittedCost(s, e)
    BY <1>12, <2>1 DEF Tallied, p, limit
  <2>2. CASE s <= clock /\ clock <= e /\ AdmittedCost(s, e)' <= Since(s)' /\ AdmittedCost(s, e)' \in Nat
    <3>1. PICK t \in Nat : s = WindowStart(rate, t)
      BY <1>12 DEF Aligned
    <3>2. PICK u \in Nat : b = WindowStart(rate, u)
      BY <1>4, <1>12 DEF Aligned
    <3>3. RateOK(rate) /\ len = p
      BY <1>12, WindowTypes DEF WindowLength, len, p
    <3>4. WindowStart(rate, t) <= clock /\ WindowStart(rate, u) <= clock
      BY <1>4, <2>2, <3>1, <3>2
    <3>5. /\ s = WindowStart(rate, clock) \/ s + p <= WindowStart(rate, clock)
          /\ b = WindowStart(rate, clock) \/ b + p <= WindowStart(rate, clock)
      BY <1>1, <3>1, <3>2, <3>3, <3>4, AlignedApart DEF p
    <3>6. WindowStart(rate, clock) \in Int /\ WindowStart(rate, clock) <= clock
      BY <1>1, <3>3, WindowStartBounds
    <3>7. s = b
      BY <1>1, <1>2, <1>4, <1>12, <2>2, <3>3, <3>5, <3>6
    <3>8. Since(b)' <= limit /\ Since(b)' \in Nat
      BY <1>1, <1>6, <1>7
    <3>9. AdmittedCost(s, e)' <= Since(b)'
      BY <2>2, <3>7
    <3> QED
      BY <1>2, <2>2, <3>8, <3>9
  <2> QED
    BY <1>10, <2>1, <2>2
<1>13. /\ (Windowing' <=> Windowing) /\ WindowLength' = len /\ Opened(cell)' = b
       /\ (\A s : Aligned(s)' <=> Aligned(s)) /\ rate.period' = p /\ rate.limit' = limit
  BY <1>1, SameWindowing DEF len, p, limit
<1>14. Since(b)' <= limit /\ Since(b)' <= n /\ b <= clock' /\ cell'.exp >= b + WindowLength'
  BY <1>1, <1>4, <1>6, <1>7, <1>13
<1>15. rate.period' < Second => Aligned(b)'
  BY <1>1, <1>4, <1>13
<1>16. TalliedFrom(b)'
  BY <1>8, <1>9, <1>13, <1>14, <1>15 DEF TalliedFrom
<1>17. /\ \A from, to \in Int : to - from < rate.period' => AdmittedCost(from, to)' <= 2 * rate.limit'
       /\ rate.period' < Second => \A s, e \in Int : Aligned(s)' /\ e < s + rate.period' => AdmittedCost(s, e)' <= rate.limit'
  BY <1>1, <1>11, <1>12, <1>13
<1> QED
  BY <1>13, <1>16, <1>17 DEF Tallied

\* A fixed window's decision is one of those.
LEMMA TalliedDecide ==
  ASSUME Inductive, Tallied, NEW q \in Requests, Decide(q)
  PROVE  Tallied'
<1> DEFINE now   == hit[q].now
           cost  == hit[q].cost
           out   == HitOf(rate, cell, now, cost, clock)
           new   == out.cell
           b     == Opened(new)
           n     == new.count
           ttl   == FixedWindowTTL(rate)
<1>1. /\ cell' = new /\ scenario' = scenario /\ clock' = clock /\ clock \in Nat
      /\ now \in Nat /\ cost \in Costs /\ cost \in Nat \ {0} /\ now <= clock /\ clock <= now + scenario.delay
  BY DecideSums
<1> SUFFICES ASSUME Windowing PROVE Tallied'
  BY <1>1, SameWindowing DEF Tallied
<1>2. /\ RateOK(rate) /\ CounterCell(cell) /\ rate.period \in Nat \ {0} /\ ttl \in Nat \ {0}
      /\ WindowLength \in Nat \ {0} /\ rate.period <= WindowLength /\ WindowLength <= ttl
      /\ cell # Absent => Opened(cell) \in Int /\ cell.exp \in Nat /\ cell.count \in Nat
  BY WindowTypes
<1>3. rate.period < Second => now = clock
  <2>1. rate.period < Second => scenario.delay = 0
    BY DEF Windowing
  <2> HIDE DEF now
  <2> QED
    BY <1>1, <2>1
<1>4. /\ new \in [start : Int, count : Nat \ {0}, exp : Nat]
      /\ out.wait = 0 => n <= rate.limit
      /\ InWindow(rate, cell, now, clock) =>
           new.start = cell.start /\ new.exp = cell.exp /\ n = cell.count + cost
      /\ ~ InWindow(rate, cell, now, clock) =>
           new.start = WindowStart(rate, now) /\ new.exp = clock + ttl /\ n = cost
  <2>1. out = FixedWindow(rate, cell, now, cost, clock)
    BY HitOfIs DEF Windowing
  <2> DEFINE Step(r, c, m, at, p) ==
        LET o == FixedWindow(r, c, m, p, at)
            k == o.cell
        IN  /\ k \in [start : Int, count : Nat \ {0}, exp : Nat]
            /\ o.wait = 0 => k.count <= r.limit
            /\ InWindow(r, c, m, at) =>
                 /\ c \in [start : Int, count : Nat \ {0}, exp : Nat]
                 /\ k.start = c.start /\ k.exp = c.exp /\ k.count = c.count + p
            /\ ~ InWindow(r, c, m, at) =>
                 k.start = WindowStart(r, m) /\ k.exp = at + FixedWindowTTL(r) /\ k.count = p
  <2>2. ASSUME NEW r, RateOK(r), NEW c, CounterCell(c), NEW m \in Nat, NEW at \in Nat, NEW p \in Costs
        PROVE  Step(r, c, m, at, p)
    <3> DEFINE o == FixedWindow(r, c, m, p, at)
               k == o.cell
    <3>1. /\ k \in [start : Int, count : Nat \ {0}, exp : Nat]
          /\ o.wait = 0 => k.count <= r.limit
          /\ InWindow(r, c, m, at) =>
               /\ c \in [start : Int, count : Nat \ {0}, exp : Nat]
               /\ k.start = c.start /\ k.exp = c.exp /\ k.count = c.count + p
          /\ ~ InWindow(r, c, m, at) =>
               k.start = WindowStart(r, m) /\ k.exp = at + FixedWindowTTL(r) /\ k.count = p
      BY <2>2, FixedWindowStep
    <3> QED
      BY <3>1
  <2> HIDE DEF Step, now, cost
  <2>3. Step(rate, cell, now, clock, cost)
    BY <1>1, <1>2, <2>2
  <2> QED
    BY <2>1, <2>3 DEF Step
<1> HIDE DEF now, cost, out, new, ttl
<1>5. new # Absent
  BY <1>4, Absent \notin [start : Int, count : Nat \ {0}, exp : Nat] DEF Absent
<1>6. b \in Int /\ n \in Nat /\ new.exp \in Nat /\ new.start \in Int
  BY <1>2, <1>4 DEF Opened, ttl
<1>7. CASE InWindow(rate, cell, now, clock)
  <2>1. Live(cell, clock) /\ cell # Absent /\ (rate.period < Second => cell.start = WindowStart(rate, clock))
    BY <1>1, <1>3, <1>7, AbsentIsDead DEF InWindow
  <2>2. b = Opened(cell) /\ new.exp = cell.exp /\ n = cell.count + cost /\ n >= cost
    <3>1. b = Opened(cell) /\ new.exp = cell.exp /\ n = cell.count + cost
      BY <1>4, <1>7 DEF Opened, ttl
    <3> HIDE DEF n
    <3> QED
      BY <1>1, <1>2, <2>1, <3>1
  <2>3. TalliedFrom(b)
    BY <1>6, <2>1, <2>2 DEF Tallied
  <2>4. clock < b + WindowLength
    <3>1. CASE rate.period < Second
      <4>1. b = WindowStart(rate, clock) /\ WindowLength = rate.period
        BY <2>1, <2>2, <3>1 DEF Opened, WindowLength
      <4> QED
        BY <1>1, <1>2, <4>1, WindowStartBounds
    <3>2. CASE ~ (rate.period < Second)
      <4>1. b = cell.exp - ttl /\ WindowLength = ttl /\ clock < cell.exp
        BY <2>1, <2>2, <3>2 DEF Opened, WindowLength, ttl, Live
      <4> QED
        BY <1>1, <1>2, <2>1, <4>1
    <3> QED
      BY <3>1, <3>2
  <2>5. InForce(b)
    <3>1. b <= clock /\ cell'.exp >= b + WindowLength /\ (rate.period < Second => Aligned(b))
      BY <1>1, <2>2, <2>3 DEF TalliedFrom
    <3> HIDE DEF b
    <3> QED
      BY <2>1, <2>2, <2>4, <3>1 DEF InForce
  <2> HIDE DEF b, n
  <2> QED
    BY <1>1, <1>4, <1>5, <1>6, <2>2, <2>5, TalliedStep DEF now, cost, out, b, n
<1>8. CASE ~ InWindow(rate, cell, now, clock)
  <2>1. new.exp = clock + ttl /\ n = cost /\ (rate.period < Second => b = WindowStart(rate, clock))
        /\ (~ (rate.period < Second) => b = clock)
    <3>1. new.exp = clock + ttl /\ n = cost /\ new.start = WindowStart(rate, now)
      BY <1>4, <1>8
    <3>2. new.exp - ttl = clock
      BY <1>1, <1>2, <3>1
    <3> QED
      BY <1>3, <3>1, <3>2 DEF Opened, ttl
  <2>2. WindowStart(rate, clock) \in Int /\ WindowStart(rate, clock) <= clock /\ clock < WindowStart(rate, clock) + rate.period
    BY <1>1, <1>2, WindowStartBounds
  <2>3. b <= clock /\ clock < b + WindowLength /\ new.exp >= b + WindowLength
    <3> HIDE DEF b
    <3> QED
      BY <1>1, <1>2, <1>6, <2>1, <2>2
  <2>4. rate.period < Second => Aligned(b)
    BY <1>1, <2>1 DEF Aligned
  <2>5. cell # Absent => Opened(cell) + WindowLength <= b
    <3> SUFFICES ASSUME cell # Absent PROVE Opened(cell) + WindowLength <= b
      OBVIOUS
    <3>1. TalliedFrom(Opened(cell))
      BY <1>2 DEF Tallied
    <3>2. Opened(cell) <= clock /\ cell.exp >= Opened(cell) + WindowLength
      BY <3>1 DEF TalliedFrom
    <3>3. CASE rate.period < Second
      <4>1. PICK t \in Nat : Opened(cell) = WindowStart(rate, t)
        BY <3>1, <3>3 DEF TalliedFrom, Aligned
      <4>2. Opened(cell) = WindowStart(rate, clock) \/ Opened(cell) + rate.period <= WindowStart(rate, clock)
        BY <1>1, <1>2, <3>2, <4>1, AlignedApart
      <4>3. WindowLength = rate.period /\ Opened(cell) = cell.start
        BY <3>3 DEF WindowLength, Opened
      <4>4. Opened(cell) # WindowStart(rate, clock)
        <5>1. ~ Live(cell, clock) \/ cell.start # WindowStart(rate, clock)
          BY <1>3, <1>8, <3>3 DEF InWindow
        <5>2. ~ Live(cell, clock) => cell.exp <= clock
          BY <1>1, <1>2 DEF Live
        <5> QED
          BY <1>1, <1>2, <2>2, <3>2, <4>3, <5>1, <5>2
      <4> QED
        BY <2>1, <3>3, <4>2, <4>3, <4>4
    <3>4. CASE ~ (rate.period < Second)
      <4>1. ~ Live(cell, clock) /\ Opened(cell) = cell.exp - ttl /\ WindowLength = ttl
        BY <1>8, <3>4 DEF InWindow, Opened, WindowLength, ttl
      <4>2. cell.exp <= clock
        BY <1>1, <1>2, <4>1 DEF Live
      <4> QED
        BY <1>1, <1>2, <2>1, <3>4, <4>1, <4>2
    <3> QED
      BY <3>3, <3>4
  <2>6. InForce(b)
    <3> HIDE DEF b
    <3> QED
      BY <1>1, <2>3, <2>4, <2>5 DEF InForce
  <2> HIDE DEF b, n
  <2>7. n >= cost
    BY <1>1, <2>1
  <2> QED
    BY <1>1, <1>4, <1>5, <1>6, <2>1, <2>5, <2>6, <2>7, TalliedStep DEF now, cost, out, b, n
<1> QED
  BY <1>7, <1>8

\* Every step keeps the invariant.
LEMMA TalliedNext == Inductive /\ Tallied /\ [Next]_vars => Tallied'
BY TalliedDecide, TalliedOther

\* The two invariants imply the bound of every window.
LEMMA WindowsBound == Inductive /\ Recalled /\ Tallied => WindowBound
<1> SUFFICES ASSUME Inductive, Recalled, Tallied, NEW from \in Decisions, NEW to \in Decisions
             PROVE  /\ Windowing /\ to - from < rate.period => AdmittedCost(from, to) <= 2 * rate.limit
                    /\ Logging /\ to - from + scenario.delay < rate.period => AdmittedCost(from, to) <= rate.limit
  BY DEF WindowBound, Windowing, Logging
<1>1. from \in Int /\ to \in Int
  BY DecisionTimes
<1> QED
  BY <1>1 DEF Recalled, Tallied

\* A window strategy never admits more than its limit, a fixed window twice that, in any
\* stretch of time shorter than the period, whatever the rates, the costs and the
\* order of the decisions.
THEOREM Windows == Spec => []WindowBound
<1>1. Init => Inductive /\ Recalled /\ Tallied
  BY InductiveInit, RecalledInit, TalliedInit
<1>2. Inductive /\ Recalled /\ Tallied /\ [Next]_vars => (Inductive /\ Recalled /\ Tallied)'
  BY InductiveNext, RecalledNext, TalliedNext
<1>3. Inductive /\ Recalled /\ Tallied => WindowBound
  BY WindowsBound
<1> QED
  BY <1>1, <1>2, <1>3, PTL DEF Spec

----------------------------------------------------------------------------
(* Aligned windows.  What a strategy stores for a window lives until the window is
   over, so that the count of the current window is never lost and covers all that
   is admitted in it. *)

\* Where the window of a number ends.
EndOf(r, w) == (w + 1) * r.period

\* Windows are numbered, and a time lies in the window of its number.
LEMMA WindowNumbers ==
  ASSUME NEW r, RateOK(r), NEW t \in Nat
  PROVE  /\ Window(r, t) \in Nat /\ WindowStart(r, t) = Window(r, t) * r.period
         /\ EndOf(r, Window(r, t)) = WindowStart(r, t) + r.period
         /\ WindowStart(r, t) \in Nat /\ WindowStart(r, t) <= t /\ t < WindowStart(r, t) + r.period
<1>1. r.period \in Nat \ {0}
  BY DEF RateOK
<1>2. Window(r, t) \in Nat
  BY <1>1, DivIsNat DEF Window
<1>3. WindowStart(r, t) = Window(r, t) * r.period
  BY DEF WindowStart, Window
<1> DEFINE w == Window(r, t)
<1> HIDE DEF w
<1>4. w * r.period \in Nat /\ (w + 1) * r.period = w * r.period + r.period
  BY <1>1, <1>2 DEF w
<1> QED
  BY <1>2, <1>3, <1>4, WindowStartBounds DEF w, EndOf

\* It ends a period after its start.
LEMMA WindowEnds ==
  ASSUME NEW r, RateOK(r), NEW t \in Nat
  PROVE  /\ EndOf(r, Window(r, t)) = WindowStart(r, t) + r.period
         /\ EndOf(r, Window(r, t)) \in Nat /\ t < EndOf(r, Window(r, t))
         /\ r.period \in Nat \ {0} /\ Window(r, t) \in Nat /\ WindowStart(r, t) \in Nat /\ WindowStart(r, t) <= t
<1> DEFINE w == Window(r, t)
           s == WindowStart(r, t)
           e == EndOf(r, w)
<1>1. w \in Nat /\ e = s + r.period /\ s \in Nat /\ s <= t /\ t < s + r.period
  BY WindowNumbers
<1>2. r.period \in Nat \ {0}
  BY DEF RateOK
<1> HIDE DEF w, s, e
<1> QED
  BY <1>1, <1>2 DEF w, s, e

\* Numbers grow with the times, and windows do not overlap.
LEMMA WindowsApart ==
  ASSUME NEW r, RateOK(r), NEW t \in Nat, NEW u \in Nat, t <= u
  PROVE  /\ Window(r, t) <= Window(r, u)
         /\ Window(r, t) < Window(r, u) => WindowStart(r, t) + r.period <= WindowStart(r, u)
         /\ u = t + 1 /\ Window(r, t) # Window(r, u) =>
              Window(r, u) = Window(r, t) + 1 /\ WindowStart(r, u) = WindowStart(r, t) + r.period
<1>1. r.period \in Nat \ {0}
  BY DEF RateOK
<1> DEFINE p == r.period
           m == Window(r, t)
           n == Window(r, u)
<1>2. /\ m \in Nat /\ WindowStart(r, t) = m * p /\ (m + 1) * p = m * p + p /\ m * p \in Nat
      /\ m * p <= t /\ t < m * p + p
      /\ n \in Nat /\ WindowStart(r, u) = n * p /\ (n + 1) * p = n * p + p /\ n * p \in Nat
      /\ n * p <= u /\ u < n * p + p
  BY WindowNumbers DEF EndOf
<1>3. p \in Nat \ {0}
  BY <1>1
<1> HIDE DEF m, n, p
<1>4. \A i, j \in Nat : i < j => (i + 1) * p <= j * p
  <2> SUFFICES ASSUME NEW i \in Nat, NEW j \in Nat, i < j PROVE (i + 1) * p <= j * p
    OBVIOUS
  <2>1. p * (i + 1) <= p * j
    BY <1>3, ProductGrows
  <2>2. p * (i + 1) = (i + 1) * p /\ p * j = j * p
    BY <1>3
  <2> QED
    BY <2>1, <2>2
<1>5. ~ (n < m)
  <2> SUFFICES ASSUME n < m PROVE FALSE
    OBVIOUS
  <2>1. (n + 1) * p <= m * p
    BY <1>2, <1>4
  <2> QED
    BY <1>2, <1>3, <2>1
<1>6. m < n => (m + 1) * p <= n * p
  BY <1>2, <1>4
<1>7. u = t + 1 => ~ (m + 1 < n)
  <2> SUFFICES ASSUME u = t + 1, m + 1 < n PROVE FALSE
    OBVIOUS
  <2> DEFINE a == (m + 1) * p
             b == n * p
  <2>1. \A i \in Nat : (i + 1) * p = i * p + p
    BY <1>3
  <2>2. a + p <= b
    <3>1. m + 1 \in Nat
      BY <1>2
    <3>2. ((m + 1) + 1) * p <= n * p
      BY <1>2, <1>4, <3>1
    <3> QED
      BY <2>1, <3>1, <3>2
  <2>3. t < a /\ a \in Nat /\ b <= t + 1 /\ b \in Nat
    BY <1>2, <1>3
  <2> HIDE DEF a, b
  <2> QED
    BY <1>3, <2>2, <2>3
<1>8. u = t + 1 /\ m # n => n = m + 1
  BY <1>2, <1>5, <1>7
<1>9. m <= n
  BY <1>2, <1>5
<1>10. m < n => m * p + p <= n * p
  BY <1>2, <1>6
<1>11. u = t + 1 /\ m # n => n = m + 1 /\ n * p = m * p + p
  BY <1>2, <1>8
<1> QED
  BY <1>2, <1>9, <1>10, <1>11 DEF m, n, p

\* What is stored with twice the period, in whole seconds, lives for a period.
LEMMA TTLCoversPeriod ==
  ASSUME NEW r, RateOK(r)
  PROVE  BucketTTL(r) \in Nat /\ r.period <= BucketTTL(r)
<1> DEFINE p == r.period
           n == Seconds(2 * p)
<1>1. p \in Nat \ {0} /\ Second \in Nat \ {0} /\ 2 * p \in Nat
  BY SecondAssumption DEF RateOK
<1>2. n \in Nat /\ 2 * p < Second * n + Second
  <2>1. \A x \in Nat : x \div Second \in Nat /\ x < Second * (x \div Second) + Second
    BY <1>1, DivBounds, DivIsNat
  <2> QED
    BY <1>1, <2>1 DEF Seconds
<1>3. BucketTTL(r) = AtLeast(n, 1) * Second
  BY DEF BucketTTL
<1> HIDE DEF n, p
<1>4. CASE n = 0
  <2>1. Second * n = 0 /\ AtLeast(n, 1) * Second = Second
    BY <1>1, <1>4 DEF AtLeast
  <2> QED
    BY <1>1, <1>2, <1>3, <2>1 DEF p
<1>5. CASE n # 0
  <2>1. AtLeast(n, 1) = n
    BY <1>2, <1>5 DEF AtLeast
  <2>2. Second * 1 <= Second * n /\ Second * n \in Nat
    BY <1>1, <1>2, <1>5, ProductGrows
  <2>3. n * Second = Second * n /\ Second * 1 = Second
    BY <1>1, <1>2
  <2>4. p <= n * Second
    <3> DEFINE x == Second * n
    <3>1. x \in Nat /\ Second <= x /\ 2 * p < x + Second
      BY <1>1, <1>2, <2>2, <2>3
    <3> HIDE DEF x
    <3>2. p <= x
      BY <1>1, <3>1
    <3> QED
      BY <2>3, <3>2 DEF x
  <2>5. n * Second \in Nat
    BY <2>2, <2>3
  <2> QED
    BY <1>3, <2>1, <2>4, <2>5 DEF p
<1> QED
  BY <1>4, <1>5

\* All that is stored is of this window or an earlier one, and lives to its end.
Dated(r, c, t) ==
  \A k \in DOMAIN c : /\ k[2] \in Int /\ k[2] <= Window(r, t)
                      /\ EndOf(r, k[2]) \in Int /\ EndOf(r, k[2]) <= c[k].exp

\* What is stored for the current window is found.
LEMMA CurrentIsFound ==
  ASSUME NEW r, RateOK(r), NEW c, WindowCell(r, c), NEW t \in Nat, Dated(r, c, t), NEW kind
  PROVE  Stored(c, <<kind, Window(r, t)>>, t) =
           IF <<kind, Window(r, t)>> \in DOMAIN c THEN c[<<kind, Window(r, t)>>].value ELSE None
<1> DEFINE k == <<kind, Window(r, t)>>
           e == EndOf(r, k[2])
<1>1. e \in Nat /\ t < e
  <2>1. k[2] = Window(r, t)
    OBVIOUS
  <2> HIDE DEF k
  <2> QED
    BY <2>1, WindowEnds
<1> HIDE DEF k
<1>2. k \in DOMAIN c => e <= c[k].exp /\ c[k].exp \in Int
  BY DEF Dated, WindowCell
<1> HIDE DEF e
<1>3. k \in DOMAIN c => Live(c[k], t)
  BY <1>1, <1>2 DEF Live
<1> QED
  BY <1>3 DEF Stored, k

\* set keeps that, if it stores for this window or the last.
LEMMA PutDated ==
  ASSUME NEW r, RateOK(r), NEW c, NEW t \in Nat, Dated(r, c, t), NEW kind, NEW w \in Int, NEW v, NEW exp \in Int,
         w <= Window(r, t), EndOf(r, w) \in Int, EndOf(r, w) <= exp
  PROVE  LET p == Put(c, <<kind, w>>, v, exp, t)
         IN  /\ Dated(r, p, t)
             /\ \A k \in DOMAIN p : k = <<kind, w>> \/ (k \in DOMAIN c /\ p[k] = c[k])
<1> DEFINE key == <<kind, w>>
           D == {l \in DOMAIN c : Live(c[l], t)} \cup {key}
           p == Put(c, key, v, exp, t)
<1>1. p = [k \in D |-> IF k = key THEN [value |-> v, exp |-> exp] ELSE c[k]]
  BY DEF Put
<1>2. key[2] = w
  OBVIOUS
<1> HIDE DEF key, p
<1>3. DOMAIN p = D /\ p[key].exp = exp /\ \A k \in D : k # key => k \in DOMAIN c /\ p[k] = c[k]
  BY <1>1
<1>4. \A k \in D : /\ k[2] \in Int /\ k[2] <= Window(r, t)
                   /\ EndOf(r, k[2]) \in Int /\ EndOf(r, k[2]) <= p[k].exp
  <2> SUFFICES ASSUME NEW k \in D
               PROVE  /\ k[2] \in Int /\ k[2] <= Window(r, t)
                      /\ EndOf(r, k[2]) \in Int /\ EndOf(r, k[2]) <= p[k].exp
    OBVIOUS
  <2>1. CASE k = key
    BY <1>2, <1>3, <2>1
  <2>2. CASE k # key
    BY <1>3, <2>2 DEF Dated
  <2> QED
    BY <2>1, <2>2
<1> QED
  BY <1>3, <1>4 DEF Dated, p, key

\* So what is stored now lives to the end of the window.
LEMMA StoredNowCovers ==
  ASSUME NEW r, RateOK(r), NEW t \in Nat
  PROVE  /\ TwiceTTL(r, t) \in Nat /\ t < TwiceTTL(r, t)
         /\ EndOf(r, Window(r, t)) \in Int /\ EndOf(r, Window(r, t)) <= TwiceTTL(r, t)
         /\ EndOf(r, Window(r, t) - 1) \in Int /\ EndOf(r, Window(r, t) - 1) <= TwiceTTL(r, t)
<1>1. r.period \in Nat \ {0}
  BY DEF RateOK
<1>2. BucketTTL(r) \in Nat /\ r.period <= BucketTTL(r)
  BY TTLCoversPeriod
<1>3. /\ Window(r, t) \in Nat /\ WindowStart(r, t) = Window(r, t) * r.period
      /\ EndOf(r, Window(r, t)) = WindowStart(r, t) + r.period
      /\ WindowStart(r, t) \in Nat /\ WindowStart(r, t) <= t
  BY WindowNumbers
<1>4. EndOf(r, Window(r, t) - 1) = Window(r, t) * r.period
  <2>1. (Window(r, t) - 1) + 1 = Window(r, t)
    BY <1>3
  <2> QED
    BY <2>1 DEF EndOf
<1> QED
  BY <1>1, <1>2, <1>3, <1>4 DEF TwiceTTL

\* As time passes, what is stored is still of no later window; the count of the
\* current one lasts, and a new window has none.
LEMMA DatedLater ==
  ASSUME NEW r, RateOK(r), NEW c, WindowCell(r, c), NEW t \in Nat, Dated(r, c, t)
  PROVE  LET w == Window(r, t)
             v == Window(r, t + 1)
         IN  /\ Dated(r, c, t + 1)
             /\ \A k : Stored(c, k, t + 1) = None \/ Stored(c, k, t + 1) = Stored(c, k, t)
             /\ v = w => CountIn(c, w, t + 1) = CountIn(c, w, t)
             /\ v # w => v = w + 1 /\ \A kind : Stored(c, <<kind, v>>, t + 1) = None
<1> DEFINE w == Window(r, t)
           v == Window(r, t + 1)
<1>1. t + 1 \in Nat /\ t <= t + 1 /\ w \in Nat /\ v \in Nat
  BY WindowEnds
<1>2. w <= v /\ (v # w => v = w + 1)
  BY <1>1, WindowsApart
<1>3. Dated(r, c, t + 1)
  BY <1>1, <1>2 DEF Dated
<1>4. \A k : Stored(c, k, t + 1) = None \/ Stored(c, k, t + 1) = Stored(c, k, t)
  BY DEF Stored, Live, WindowCell
<1>5. v = w => Stored(c, <<"count", w>>, t + 1) = Stored(c, <<"count", w>>, t)
  <2>1. Stored(c, <<"count", w>>, t) = IF <<"count", w>> \in DOMAIN c THEN c[<<"count", w>>].value ELSE None
    BY CurrentIsFound
  <2>2. Stored(c, <<"count", v>>, t + 1) = IF <<"count", v>> \in DOMAIN c THEN c[<<"count", v>>].value ELSE None
    BY <1>1, <1>3, CurrentIsFound
  <2> QED
    BY <2>1, <2>2
<1>6. v # w => \A kind : Stored(c, <<kind, v>>, t + 1) = None
  <2> SUFFICES ASSUME NEW kind PROVE v # w => Stored(c, <<kind, v>>, t + 1) = None
    OBVIOUS
  <2> DEFINE k == <<kind, v>>
  <2>1. k[2] = v
    OBVIOUS
  <2> HIDE DEF k
  <2>2. k \in DOMAIN c => k[2] <= w
    BY DEF Dated
  <2>3. v # w => k \notin DOMAIN c
    BY <1>1, <1>2, <2>1, <2>2
  <2> QED
    BY <2>3 DEF Stored, k
<1> QED
  BY <1>2, <1>3, <1>4, <1>5, <1>6 DEF CountIn

\* set leaves what is stored under the other keys.
LEMMA PutElsewhere ==
  ASSUME NEW c, NEW key, NEW v, NEW exp, NEW at, NEW k, k # key
  PROVE  Stored(Put(c, key, v, exp, at), k, at) = Stored(c, k, at)
<1> DEFINE D == {l \in DOMAIN c : Live(c[l], at)} \cup {key}
           p == Put(c, key, v, exp, at)
<1>1. p = [l \in D |-> IF l = key THEN [value |-> v, exp |-> exp] ELSE c[l]]
  BY DEF Put
<1> HIDE DEF p
<1>2. k \in DOMAIN p <=> k \in DOMAIN c /\ Live(c[k], at)
  BY <1>1
<1>3. k \in DOMAIN p => p[k] = c[k]
  BY <1>1
<1> QED
  BY <1>2, <1>3 DEF Stored, p

\* increment_with_ttl stores nothing that ends earlier, and counts.
LEMMA AddedDated ==
  ASSUME NEW r, RateOK(r), NEW c, WindowCell(r, c), NEW t \in Nat, Dated(r, c, t), NEW amount \in Int,
         r.strategy # "sliding_window_counter" => amount \in Nat,
         LET old == Stored(c, <<"count", Window(r, t)>>, t)
         IN  old # None => old \in Nat /\ old + amount \in Nat
  PROVE  LET key == <<"count", Window(r, t)>>
             a   == Added(r, c, key, amount, t)
         IN  /\ Dated(r, a, t) /\ WindowCell(r, a)
             /\ Stored(c, key, t) # None \/ amount \in Nat =>
                  CountIn(a, Window(r, t), t) = CountIn(c, Window(r, t), t) + amount /\ CountIn(a, Window(r, t), t) = a[key].value
             /\ \A k : k # key => Stored(a, k, t) = Stored(c, k, t)
             /\ \A k \in DOMAIN a : k # key => k \in DOMAIN c /\ a[k] = c[k]
<1> DEFINE w   == Window(r, t)
           key == <<"count", w>>
           old == Stored(c, key, t)
           new == IF old = None THEN amount ELSE old + amount
           exp == IF old = None THEN TwiceTTL(r, t) ELSE c[key].exp
           a   == Added(r, c, key, amount, t)
<1>1. a = Put(c, key, new, exp, t)
  BY DEF Added
<1>2. /\ WindowCell(r, a) /\ key \in DOMAIN a /\ a[key] = [value |-> new, exp |-> exp]
      /\ \A k : k # key => Stored(a, k, t) = Stored(c, k, t)
  BY AddedShape
<1>3. w \in Nat
  BY WindowEnds
<1>4. exp \in Int /\ t < exp /\ EndOf(r, w) \in Int /\ EndOf(r, w) <= exp
  <2>1. key[2] = w
    OBVIOUS
  <2>2. old # None => key \in DOMAIN c /\ Live(c[key], t)
    BY DEF Stored
  <2>3. TwiceTTL(r, t) \in Nat /\ t < TwiceTTL(r, t) /\ EndOf(r, w) \in Int /\ EndOf(r, w) <= TwiceTTL(r, t)
    BY StoredNowCovers
  <2> HIDE DEF key, old
  <2>4. old # None => c[key].exp \in Int /\ t < c[key].exp /\ EndOf(r, w) <= c[key].exp
    BY <2>1, <2>2 DEF WindowCell, Dated, Live
  <2> QED
    BY <2>3, <2>4
<1> HIDE DEF new, exp
<1>5. /\ Dated(r, Put(c, key, new, exp, t), t)
      /\ \A k \in DOMAIN Put(c, key, new, exp, t) : k = key \/ (k \in DOMAIN c /\ Put(c, key, new, exp, t)[k] = c[k])
  <2>1. w \in Int /\ w <= Window(r, t)
    BY <1>3
  <2> HIDE DEF w
  <2> QED
    BY <1>4, <2>1, PutDated
<1>6. Stored(a, key, t) = new
  BY <1>2, <1>4 DEF Stored, Live
<1>7. old # None \/ amount \in Nat => AtLeast(new, 0) = AtLeast(old, 0) + amount /\ AtLeast(new, 0) = new
  BY DEF new, AtLeast, None
<1> HIDE DEF a, old
<1> QED
  BY <1>1, <1>2, <1>5, <1>6, <1>7 DEF CountIn, a, old

\* A window has time left.
LEMMA WindowNotOver ==
  ASSUME NEW r, RateOK(r), NEW t \in Nat
  PROVE  TimeInWindow(r, t) \in Nat /\ UntilWindowEnds(r, t) \in Nat /\ UntilWindowEnds(r, t) # 0
<1>1. r.period \in Nat \ {0}
  BY DEF RateOK
<1>2. \A p \in Nat \ {0} : t % p \in 0 .. p - 1
  BY ModBounds
<1>3. t % r.period \in 0 .. r.period - 1
  BY <1>1, <1>2
<1> QED
  BY <1>1, <1>3 DEF UntilWindowEnds, TimeInWindow

\* The limit of a tier, and of an hour, is a number.
LEMMA EffectiveLimitIsInt ==
  ASSUME NEW r, RateOK(r), r.strategy \in {"tiered_rate", "time_of_day"}, NEW t \in Nat
  PROVE  EffectiveLimit(r, t) \in Int
<1>1. r.hours \in Seq(Int) /\ r.hours # <<>> /\ r.limit \in Nat
  BY DEF RateOK, StrategyFields
<1>2. Len(r.hours) \in Nat \ {0} /\ \A i \in 1 .. Len(r.hours) : r.hours[i] \in Int
  BY <1>1
<1>3. \A i \in 1 .. Len(r.hours) : (r.limit * r.hours[i]) \div 100 \in Int
  <2>1. \A m \in Int : m \div 100 \in Int
    BY DivBounds
  <2>2. \A i \in 1 .. Len(r.hours) : r.limit * r.hours[i] \in Int
    BY <1>1, <1>2
  <2> QED
    BY <2>1, <2>2
<1>4. CASE r.strategy = "tiered_rate"
  <2>1. 1 \in 1 .. Len(r.hours)
    BY <1>2
  <2> QED
    BY <1>3, <1>4, <2>1 DEF EffectiveLimit, TieredLimit
<1>5. CASE r.strategy = "time_of_day"
  <2>1. r.hour \in Nat \ {0}
    BY <1>5 DEF RateOK, StrategyFields
  <2>2. t \div r.hour \in Int
    BY <2>1, DivBounds
  <2> DEFINE h == t \div r.hour
             n == Len(r.hours)
  <2>3. h \in Int /\ n \in Nat \ {0}
    BY <1>2, <2>2
  <2> HIDE DEF h, n
  <2>4. h % n \in 0 .. n - 1
    BY <2>3, ModBounds
  <2>5. (h % n) + 1 \in 1 .. n
    BY <2>3, <2>4
  <2>6. HourOfDay(r, t) \in 1 .. Len(r.hours)
    BY <2>5 DEF HourOfDay, h, n
  <2> QED
    BY <1>3, <1>5, <2>6 DEF EffectiveLimit, TimeOfDayLimit
<1> QED
  BY <1>4, <1>5

\* What the window of a strategy that counts every request may reach.
Most(r, t) == IF r.strategy = "adaptive_throttle" THEN r.limit ELSE EffectiveLimit(r, t)

\* Such a strategy counts every request, and admits one only while the count is
\* within the limit.
LEMMA TieredRateCounts ==
  ASSUME NEW r, RateOK(r), r.strategy \in {"tiered_rate", "time_of_day"}, NEW c, WindowCell(r, c),
         NEW t \in Nat, Dated(r, c, t), NEW cost \in Costs
  PROVE  LET out == HitOf(r, c, t, cost, t)
             w   == Window(r, t)
         IN  /\ Dated(r, out.cell, t)
             /\ CountIn(out.cell, w, t) = CountIn(c, w, t) + cost
             /\ out.wait = 0 => CountIn(out.cell, w, t) <= Most(r, t)
<1> DEFINE w   == Window(r, t)
           key == <<"count", w>>
           new == Added(r, c, key, cost, t)
           out == HitOf(r, c, t, cost, t)
<1>1. out = TieredRate(r, c, t, cost, t)
  BY DEF HitOf, TimeOfDay
<1>2. cost \in Nat /\ cost \in Int
  BY ScenariosAssumption
<1>3. /\ out.cell = new
      /\ out.wait = IF new[key].value > EffectiveLimit(r, t) THEN UntilWindowEnds(r, t) ELSE 0
  BY <1>1 DEF TieredRate, Outcome
<1>4. Stored(c, key, t) = None \/ Stored(c, key, t) \in Nat
  BY StoredShape DEF ValueOK
<1>5. /\ Dated(r, new, t) /\ WindowCell(r, new)
      /\ CountIn(new, w, t) = CountIn(c, w, t) + cost /\ CountIn(new, w, t) = new[key].value
  BY <1>2, <1>4, AddedDated
<1>6. EffectiveLimit(r, t) \in Int /\ UntilWindowEnds(r, t) # 0
  BY EffectiveLimitIsInt, WindowNotOver
<1>7. CountIn(c, w, t) \in Int
  BY <1>4 DEF CountIn, AtLeast, None
<1> HIDE DEF new, out
<1>8. out.wait = 0 => ~ (new[key].value > EffectiveLimit(r, t))
  BY <1>3, <1>6
<1>9. new[key].value \in Int
  BY <1>2, <1>5, <1>7
<1> QED
  BY <1>3, <1>5, <1>6, <1>8, <1>9 DEF Most, out

\* So does an adaptive throttle, whose limit is never above the rate's.
LEMMA AdaptiveThrottleCounts ==
  ASSUME NEW r, RateOK(r), r.strategy = "adaptive_throttle", NEW c, WindowCell(r, c),
         NEW t \in Nat, Dated(r, c, t), NEW cost \in Costs
  PROVE  LET out == HitOf(r, c, t, cost, t)
             w   == Window(r, t)
         IN  /\ Dated(r, out.cell, t)
             /\ CountIn(out.cell, w, t) = CountIn(c, w, t) + cost
             /\ out.wait = 0 => CountIn(out.cell, w, t) <= Most(r, t)
<1> DEFINE w       == Window(r, t)
           key     == <<"count", w>>
           lkey    == <<"limit", w>>
           counted == Added(r, c, key, cost, t)
           count   == counted[key].value
           known   == Stored(c, lkey, t)
           start   == IF known = None THEN InitialLimit(r, c, w, t) ELSE known
           limit   == IF TooBusy(r, start, count) THEN Lowered(r, start) ELSE start
           put     == Put(counted, lkey, limit, TwiceTTL(r, t), t)
           out     == HitOf(r, c, t, cost, t)
<1>1. /\ out.cell = IF known = None \/ TooBusy(r, start, count) THEN put ELSE counted
      /\ out.wait = IF 100 * count > limit THEN UntilWindowEnds(r, t) ELSE 0
  BY DEF HitOf, AdaptiveThrottle, Outcome
<1>2. cost \in Nat /\ cost \in Int
  BY ScenariosAssumption
<1>3. Stored(c, key, t) = None \/ Stored(c, key, t) \in Nat
  BY StoredShape DEF ValueOK
<1>4. /\ Dated(r, counted, t) /\ WindowCell(r, counted)
      /\ CountIn(counted, w, t) = CountIn(c, w, t) + cost /\ CountIn(counted, w, t) = count
  BY <1>2, <1>3, AddedDated
<1>5. CountIn(c, w, t) \in Nat
  BY <1>3 DEF CountIn, AtLeast, None
<1>6. ValueOK(r, "limit", limit)
  BY LimitStays
<1>7. /\ w \in Int /\ TwiceTTL(r, t) \in Int
      /\ EndOf(r, w) \in Int /\ EndOf(r, w) <= TwiceTTL(r, t) /\ w <= Window(r, t)
  BY StoredNowCovers, WindowEnds
<1> HIDE DEF counted, limit, count, known, start, out
<1>8. Dated(r, put, t)
  <2> HIDE DEF w
  <2> QED
    BY <1>4, <1>7, PutDated
<1>9. CountIn(put, w, t) = CountIn(counted, w, t)
  <2>1. key # lkey
    OBVIOUS
  <2> HIDE DEF lkey, key
  <2>2. Stored(put, key, t) = Stored(counted, key, t)
    BY <2>1, PutElsewhere
  <2> QED
    BY <2>2 DEF CountIn, key
<1>10. out.wait = 0 => 100 * count <= limit
  <2>1. UntilWindowEnds(r, t) # 0
    BY WindowNotOver
  <2>2. limit \in Int
    BY <1>6, ValueIsInt
  <2>3. count \in Int
    BY <1>2, <1>4, <1>5
  <2> QED
    BY <1>1, <2>1, <2>2, <2>3
<1>11. limit <= 100 * r.limit /\ r.limit \in Nat /\ limit \in Int
  <2>1. r.limit \in Nat
    BY DEF RateOK
  <2>2. limit \in Int
    BY <1>6, ValueIsInt
  <2>3. r.limit * r.floor \in Int
    <3>1. r.floor \in Nat
      BY DEF RateOK, StrategyFields
    <3> QED
      BY <2>1, <3>1, ProductIsNat
  <2> QED
    BY <1>6, <2>1, <2>2, <2>3 DEF ValueOK
<1>12. out.wait = 0 => count <= Most(r, t)
  <2>1. count \in Int
    BY <1>2, <1>4, <1>5
  <2> QED
    BY <1>10, <1>11, <2>1 DEF Most
<1>13. CASE out.cell = put
  BY <1>4, <1>8, <1>9, <1>12, <1>13 DEF out
<1>14. CASE out.cell = counted
  BY <1>4, <1>12, <1>14 DEF out
<1> QED
  BY <1>1, <1>13, <1>14

\* No count is stored before something is counted.
CountsPositive(c) == \A k \in DOMAIN c : k[1] = "count" => c[k].value \in Nat \ {0}

\* What a hit takes for rolled over: what was stored, or what it works out.
RolledOver(r, c, t) ==
  LET w     == Window(r, t)
      known == Stored(c, <<"rollover", w>>, t)
  IN  IF known = None THEN Rollover(r, Stored(c, <<"count", w - 1>>, t)) ELSE known

\* A quota counts what it admits, within the limit and what is rolled over, which it
\* stores.
LEMMA QuotaCounts ==
  ASSUME NEW r, RateOK(r), r.strategy = "quota_with_rollover", NEW c, WindowCell(r, c),
         NEW t \in Nat, Dated(r, c, t), NEW cost \in Costs, CountsPositive(c)
  PROVE  LET out  == HitOf(r, c, t, cost, t)
             w    == Window(r, t)
             over == RolledOver(r, c, t)
         IN  /\ Dated(r, out.cell, t) /\ CountsPositive(out.cell)
             /\ CountIn(out.cell, w, t) = CountIn(c, w, t) + Spent(out, cost)
             /\ out.wait = 0 => CountIn(out.cell, w, t) <= r.limit + over
             /\ Stored(out.cell, <<"count", w - 1>>, t) = Stored(c, <<"count", w - 1>>, t)
             /\ Stored(out.cell, <<"rollover", w>>, t) = over /\ over \in Nat
<1> DEFINE w      == Window(r, t)
           key    == <<"count", w>>
           last   == <<"count", w - 1>>
           rkey   == <<"rollover", w>>
           known  == Stored(c, rkey, t)
           over   == RolledOver(r, c, t)
           exp    == TwiceTTL(r, t)
           put    == Put(c, rkey, over, exp, t)
           opened == IF known = None THEN put ELSE c
           new    == Added(r, opened, key, cost, t)
           out    == HitOf(r, c, t, cost, t)
           much   == CountIn(c, w, t) + cost > r.limit + over
<1>1. out = IF much THEN Outcome(UntilWindowEnds(r, t), opened) ELSE Outcome(0, new)
  BY DEF HitOf, QuotaWithRollover, RolledOver
<1>2. cost \in Nat \ {0} /\ cost \in Nat /\ cost \in Int /\ r.limit \in Nat
  BY ScenariosAssumption DEF RateOK
<1>3. over \in Nat /\ ValueOK(r, "rollover", over)
  <2>1. known # None => ValueOK(r, "rollover", known)
    BY StoredShape
  <2>2. Stored(c, last, t) = None \/ Stored(c, last, t) \in Nat
    BY StoredShape DEF ValueOK
  <2>3. Rollover(r, Stored(c, last, t)) \in 0 .. r.maxRollover
    BY <2>2, RolloverInRange
  <2>4. r.maxRollover \in Nat
    BY DEF RateOK, StrategyFields
  <2> HIDE DEF known
  <2>5. over = IF known = None THEN Rollover(r, Stored(c, last, t)) ELSE known
    BY DEF RolledOver, known
  <2> HIDE DEF over, last
  <2> QED
    BY <2>1, <2>3, <2>4, <2>5 DEF ValueOK
<1>4. /\ w \in Int /\ exp \in Int /\ t < exp /\ t \in Int
      /\ EndOf(r, w) \in Int /\ EndOf(r, w) <= exp
  BY StoredNowCovers, WindowEnds
<1>5. key # rkey /\ last # rkey /\ key # last /\ key[1] = "count" /\ rkey[1] = "rollover"
  <2>1. w # w - 1
    BY <1>4
  <2> HIDE DEF w
  <2> QED
    BY <2>1
<1>6. /\ Dated(r, put, t) /\ WindowCell(r, put) /\ CountsPositive(put)
      /\ Stored(put, key, t) = Stored(c, key, t) /\ Stored(put, last, t) = Stored(c, last, t)
      /\ Stored(put, rkey, t) = over
  <2>1. w <= Window(r, t)
    BY <1>4
  <2> HIDE DEF over, exp
  <2>2. /\ Dated(r, put, t)
        /\ \A k \in DOMAIN put : k = rkey \/ (k \in DOMAIN c /\ put[k] = c[k])
    <3> HIDE DEF w
    <3> QED
      BY <1>4, <2>1, PutDated
  <2>3. /\ WindowCell(r, put) /\ rkey \in DOMAIN put /\ put[rkey] = [value |-> over, exp |-> exp]
        /\ \A k : k # rkey => Stored(put, k, t) = Stored(c, k, t)
    <3>1. ValueOK(r, rkey[1], over) /\ exp \in Int /\ t \in Int
      BY <1>3, <1>4, <1>5
    <3> HIDE DEF rkey, w, key, last, known, opened, new, out, much
    <3> QED
      BY <3>1, PutShape
  <2> HIDE DEF put, key, last, rkey, w
  <2>4. CountsPositive(put)
    BY <1>5, <2>2 DEF CountsPositive
  <2>5. Stored(put, rkey, t) = over
    BY <1>4, <2>3 DEF Stored, Live
  <2> QED
    BY <1>5, <2>2, <2>3, <2>4, <2>5
<1>7. /\ Dated(r, opened, t) /\ WindowCell(r, opened) /\ CountsPositive(opened)
      /\ Stored(opened, key, t) = Stored(c, key, t) /\ Stored(opened, last, t) = Stored(c, last, t)
      /\ Stored(opened, rkey, t) = over
  <2>1. known # None => over = known
    BY DEF RolledOver
  <2> HIDE DEF put, key, last, over
  <2> QED
    BY <1>6, <2>1
<1> HIDE DEF opened, over, known
<1>8. Stored(c, key, t) = None \/ Stored(c, key, t) \in Nat
  BY StoredShape DEF ValueOK
<1>9. CountIn(opened, w, t) = CountIn(c, w, t) /\ CountIn(c, w, t) \in Nat
  BY <1>7, <1>8 DEF CountIn, AtLeast, None
<1>10. /\ Dated(r, new, t) /\ WindowCell(r, new) /\ CountsPositive(new)
       /\ CountIn(new, w, t) = CountIn(c, w, t) + cost
       /\ Stored(new, last, t) = Stored(c, last, t) /\ Stored(new, rkey, t) = over
  <2>1. Stored(opened, key, t) # None => Stored(opened, key, t) \in Nat /\ Stored(opened, key, t) + cost \in Nat
    BY <1>2, <1>7, <1>8
  <2>2. /\ Dated(r, new, t) /\ WindowCell(r, new)
        /\ CountIn(new, w, t) = CountIn(opened, w, t) + cost /\ CountIn(new, w, t) = new[key].value
        /\ \A k : k # key => Stored(new, k, t) = Stored(opened, k, t)
        /\ \A k \in DOMAIN new : k # key => k \in DOMAIN opened /\ new[k] = opened[k]
    BY <1>2, <1>7, <2>1, AddedDated
  <2> HIDE DEF new, key, last, rkey
  <2>3. new[key].value \in Nat \ {0}
    BY <1>2, <1>9, <2>2
  <2>4. CountsPositive(new)
    BY <1>7, <2>2, <2>3 DEF CountsPositive
  <2> QED
    BY <1>5, <1>7, <1>9, <2>2, <2>4
<1>11. UntilWindowEnds(r, t) # 0
  BY WindowNotOver
<1> HIDE DEF new, out
<1>12. CASE much
  <2>1. out.cell = opened /\ out.wait # 0 /\ Spent(out, cost) = 0
    BY <1>1, <1>11, <1>12 DEF Outcome, Spent
  <2> QED
    BY <1>3, <1>7, <1>9, <2>1 DEF out, over
<1>13. CASE ~ much
  <2>1. out.cell = new /\ out.wait = 0 /\ Spent(out, cost) = cost
    BY <1>1, <1>13 DEF Outcome, Spent
  <2>2. CountIn(c, w, t) + cost <= r.limit + over
    BY <1>2, <1>3, <1>9, <1>13
  <2> QED
    BY <1>3, <1>10, <2>1, <2>2 DEF out, over
<1> QED
  BY <1>12, <1>13

\* What was admitted in a window, apart from its free instant, and in the one before.
Used(at) ==
  AdmittedCost(IF FreeInstant(WindowStart(rate, at)) THEN WindowStart(rate, at) + 1 ELSE WindowStart(rate, at),
               WindowStart(rate, at) + rate.period - 1)

Before(at) == AdmittedCost(WindowStart(rate, at) - rate.period, WindowStart(rate, at) - 1)

\* When the windows are aligned.
Keeping == rate.strategy \in Windowed /\ scenario.delay = 0

\* The count of a hit that has counted is the current one.
CountedByOne(t) ==
  \A q \in Requests : Counting(q) /\ "count" \notin hit[q].todo =>
    hit[q].count = CountIn(cell, Window(rate, t), t) /\ Used(t) + hit[q].cost <= hit[q].count

\* A quota counts just what it admits; of the period before it knows that, or nothing.
CountedByQuota(t) ==
  /\ CountsPositive(cell) /\ Used(t) = CountIn(cell, Window(rate, t), t)
  /\ LET used == Stored(cell, <<"count", Window(rate, t) - 1>>, t)
     IN  used = None \/ used = Before(t)
  /\ LET known == Stored(cell, <<"rollover", Window(rate, t)>>, t)
     IN  known # None => rate.limit + known <= Allowance(t)

\* The count of the current window covers what was admitted in it.
KeptAt(t) ==
  /\ Dated(rate, cell, t)
  /\ \A at \in Decisions : Used(at) <= Allowance(at)
  /\ Used(t) <= CountIn(cell, Window(rate, t), t)
  /\ Stepwise => CountedByOne(t)
  /\ rate.strategy = "quota_with_rollover" => CountedByQuota(t)

Kept == Keeping => \A t \in Nat : t = clock => KeptAt(t)

\* The types of the quantities above.
LEMMA KeptTypes ==
  ASSUME Inductive, Keeping
  PROVE  /\ RateOK(rate) /\ clock \in Nat /\ WindowCell(rate, cell) /\ hit \in [Requests -> Hits]
         /\ rate.limit \in Nat \ {0} /\ rate.period \in Nat \ {0}
         /\ \A t \in Nat : Used(t) \in Nat /\ Before(t) \in Nat /\ WindowStart(rate, t) \in Nat
<1>1. /\ RateOK(rate) /\ clock \in Nat /\ WindowCell(rate, cell) /\ hit \in [Requests -> Hits]
      /\ rate.limit \in Nat \ {0} /\ rate.period \in Nat \ {0}
  BY RateIsOK DEF Inductive, Shapes, Keeping, CellOK
<1>2. ASSUME NEW t \in Nat PROVE WindowStart(rate, t) \in Nat /\ Used(t) \in Nat /\ Before(t) \in Nat
  <2> DEFINE s == WindowStart(rate, t)
  <2>1. s \in Nat
    BY <1>1, WindowEnds
  <2> HIDE DEF s
  <2>2. \A from, to \in Int : AdmittedCost(from, to) \in Nat
    BY <1>1, SumsOrdered
  <2>3. s + 1 \in Int /\ s \in Int /\ s + rate.period - 1 \in Int /\ s - rate.period \in Int /\ s - 1 \in Int
    BY <1>1, <2>1
  <2> QED
    BY <2>1, <2>2, <2>3 DEF Used, Before, s
<1> QED
  BY <1>1, <1>2

\* The free instant is the first of a window.
LEMMA FreeInstantStarts ==
  ASSUME Inductive, Keeping, NEW t \in Nat, FreeInstant(t)
  PROVE  t = WindowStart(rate, t)
<1>1. rate.period \in Nat \ {0}
  BY KeptTypes
<1>2. t % rate.period = 0
  BY DEF FreeInstant, TimeInWindow
<1>3. \A d \in Nat \ {0} : t % d = 0 => t = d * (t \div d) /\ t \div d \in Int
  <2> SUFFICES ASSUME NEW d \in Nat \ {0}, t % d = 0 PROVE t = d * (t \div d) /\ t \div d \in Int
    OBVIOUS
  <2>1. t \div d \in Int
    BY DivBounds
  <2>2. t = d * (t \div d) + (t % d)
    BY ModBounds
  <2> DEFINE x == d * (t \div d)
  <2>3. x \in Int
    BY <2>1
  <2> HIDE DEF x
  <2>4. t = x
    BY <2>2, <2>3 DEF x
  <2> QED
    BY <2>1, <2>4 DEF x
<1>4. t = rate.period * (t \div rate.period) /\ t \div rate.period \in Int
  BY <1>1, <1>2, <1>3
<1>5. \A x \in Int, p \in Nat \ {0} : p * x = x * p
  OBVIOUS
<1> QED
  BY <1>1, <1>4, <1>5 DEF WindowStart

\* Times of one window, and of different ones.
LEMMA WindowsOfTimes ==
  ASSUME Inductive, Keeping, NEW at \in Nat, NEW t \in Nat, at <= t
  PROVE  /\ Window(rate, at) = Window(rate, t) =>
              /\ WindowStart(rate, at) = WindowStart(rate, t)
              /\ Used(at) = Used(t) /\ Before(at) = Before(t) /\ Allowance(at) = Allowance(t)
         /\ Window(rate, at) # Window(rate, t) => WindowStart(rate, at) + rate.period <= WindowStart(rate, t)
<1>1. RateOK(rate)
  BY KeptTypes
<1>2. WindowStart(rate, at) = Window(rate, at) * rate.period /\ WindowStart(rate, t) = Window(rate, t) * rate.period
  BY <1>1, WindowNumbers
<1>3. Window(rate, at) \in Nat /\ Window(rate, t) \in Nat
  BY <1>1, WindowEnds
<1>4. /\ Window(rate, at) <= Window(rate, t)
      /\ Window(rate, at) < Window(rate, t) => WindowStart(rate, at) + rate.period <= WindowStart(rate, t)
  BY <1>1, WindowsApart
<1>5. Window(rate, at) = Window(rate, t) => WindowStart(rate, at) = WindowStart(rate, t)
  BY <1>2
<1>6. WindowStart(rate, at) = WindowStart(rate, t) =>
        Used(at) = Used(t) /\ Before(at) = Before(t) /\ Allowance(at) = Allowance(t)
  BY DEF Used, Before, Allowance
<1> QED
  BY <1>3, <1>4, <1>5, <1>6

\* These quantities after a step, in terms of the sums.
LEMMA UsedAfter ==
  ASSUME rate' = rate, NEW at, NEW s, NEW first, NEW p, s = WindowStart(rate, at), p = rate.period,
         first = IF FreeInstant(s) THEN s + 1 ELSE s
  PROVE  /\ Used(at) = AdmittedCost(first, s + p - 1) /\ Used(at)' = AdmittedCost(first, s + p - 1)'
         /\ Before(at) = AdmittedCost(s - p, s - 1) /\ Before(at)' = AdmittedCost(s - p, s - 1)'
         /\ Before(at)' = Before(at) => Allowance(at)' = Allowance(at)
<1>1. \A t : FreeInstant(t)' <=> FreeInstant(t)
  BY DEF FreeInstant, Stepwise
<1>2. Used(at) = AdmittedCost(first, s + p - 1) /\ Used(at)' = AdmittedCost(first, s + p - 1)'
  BY <1>1 DEF Used
<1>3. Before(at) = AdmittedCost(s - p, s - 1) /\ Before(at)' = AdmittedCost(s - p, s - 1)'
  BY DEF Before
<1>4. Allowance(at) =
        LET before == Before(at)
            unused == AtLeast(rate.limit - before, 0)
        IN  CASE rate.strategy \in {"tiered_rate", "time_of_day"} ->
                   Max({EffectiveLimit(rate, t) : t \in s .. s + rate.period - 1})
              [] rate.strategy = "quota_with_rollover" ->
                   rate.limit + IF before = 0 THEN 0
                                ELSE AtMost((unused * rate.percentage) \div 100, rate.maxRollover)
              [] OTHER -> rate.limit
  BY <1>3 DEF Allowance
<1>5. Allowance(at)' =
        LET before == Before(at)'
            unused == AtLeast(rate.limit - before, 0)
        IN  CASE rate.strategy \in {"tiered_rate", "time_of_day"} ->
                   Max({EffectiveLimit(rate, t) : t \in s .. s + rate.period - 1})
              [] rate.strategy = "quota_with_rollover" ->
                   rate.limit + IF before = 0 THEN 0
                                ELSE AtMost((unused * rate.percentage) \div 100, rate.maxRollover)
              [] OTHER -> rate.limit
  BY <1>3 DEF Allowance
<1>6. Before(at)' = Before(at) => Allowance(at)' = Allowance(at)
  BY <1>4, <1>5
<1> QED
  BY <1>2, <1>3, <1>6

\* A step that admits nobody leaves them.
LEMMA UsedSame ==
  ASSUME Inductive, Keeping, rate' = rate,
         \A from, to : AdmittedCost(from, to)' = AdmittedCost(from, to)
  PROVE  \A at : Used(at)' = Used(at) /\ Before(at)' = Before(at) /\ Allowance(at)' = Allowance(at)
<1> SUFFICES ASSUME NEW at
             PROVE  Used(at)' = Used(at) /\ Before(at)' = Before(at) /\ Allowance(at)' = Allowance(at)
  OBVIOUS
<1>1. PICK s : s = WindowStart(rate, at)
  OBVIOUS
<1>2. PICK first : first = IF FreeInstant(s) THEN s + 1 ELSE s
  OBVIOUS
<1>3. PICK p : p = rate.period
  OBVIOUS
<1> QED
  BY <1>1, <1>2, <1>3, UsedAfter

\* An admission adds to the current window only, and to none in its free instant.
LEMMA UsedGrows ==
  ASSUME Inductive, Keeping, rate' = rate, NEW t \in Nat, NEW spent \in Nat,
         \A from, to \in Int :
           AdmittedCost(from, to)' = AdmittedCost(from, to) + (IF from <= t /\ t <= to THEN spent ELSE 0)
  PROVE  /\ Used(t)' = Used(t) + (IF FreeInstant(t) THEN 0 ELSE spent)
         /\ \A at \in Nat : at <= t =>
              /\ Before(at)' = Before(at) /\ Allowance(at)' = Allowance(at)
              /\ Window(rate, at) = Window(rate, t) => Used(at)' = Used(t)'
              /\ Window(rate, at) # Window(rate, t) => Used(at)' = Used(at)
<1>0. /\ RateOK(rate) /\ rate.period \in Nat \ {0} /\ hit \in [Requests -> Hits]
  BY KeptTypes
<1>1. \A from, to \in Int : AdmittedCost(from, to) \in Nat
  BY <1>0, SumsOrdered
<1>2. PICK s : s = WindowStart(rate, t)
  OBVIOUS
<1>3. PICK p : p = rate.period
  OBVIOUS
<1>4. s \in Nat /\ p \in Nat \ {0} /\ s <= t /\ t < s + p
  BY <1>0, <1>2, <1>3, WindowEnds
<1>5. Used(t)' = Used(t) + (IF FreeInstant(t) THEN 0 ELSE spent)
  <2>1. PICK first : first = IF FreeInstant(s) THEN s + 1 ELSE s
    OBVIOUS
  <2>2. Used(t) = AdmittedCost(first, s + p - 1) /\ Used(t)' = AdmittedCost(first, s + p - 1)'
    BY <1>2, <1>3, <2>1, UsedAfter
  <2>3. first \in Int /\ s + p - 1 \in Int /\ t <= s + p - 1
    BY <1>4, <2>1
  <2>4. first <= t <=> ~ FreeInstant(t)
    <3>1. FreeInstant(t) => t = s
      BY <1>2, FreeInstantStarts
    <3>2. t = s => first = IF FreeInstant(t) THEN t + 1 ELSE t
      BY <2>1
    <3>3. t # s => first <= t
      BY <1>4, <2>1
    <3> QED
      BY <3>1, <3>2, <3>3
  <2>5. AdmittedCost(first, s + p - 1)' =
          AdmittedCost(first, s + p - 1) + (IF first <= t /\ t <= s + p - 1 THEN spent ELSE 0)
    BY <2>3
  <2> QED
    BY <2>2, <2>3, <2>4, <2>5
<1>6. ASSUME NEW at \in Nat, at <= t
      PROVE  /\ Before(at)' = Before(at) /\ Allowance(at)' = Allowance(at)
             /\ Window(rate, at) = Window(rate, t) => Used(at)' = Used(t)'
             /\ Window(rate, at) # Window(rate, t) => Used(at)' = Used(at)
  <2>1. PICK b : b = WindowStart(rate, at)
    OBVIOUS
  <2>2. PICK first : first = IF FreeInstant(b) THEN b + 1 ELSE b
    OBVIOUS
  <2>3. /\ Used(at) = AdmittedCost(first, b + p - 1) /\ Used(at)' = AdmittedCost(first, b + p - 1)'
        /\ Before(at) = AdmittedCost(b - p, b - 1) /\ Before(at)' = AdmittedCost(b - p, b - 1)'
        /\ Before(at)' = Before(at) => Allowance(at)' = Allowance(at)
    BY <1>3, <2>1, <2>2, UsedAfter
  <2>4. b \in Nat /\ first \in Int /\ b <= at
    BY <1>0, <2>1, <2>2, WindowEnds
  <2>5. Before(at)' = Before(at)
    <3>1. b - p \in Int /\ b - 1 \in Int /\ ~ (t <= b - 1)
      BY <1>4, <1>6, <2>4
    <3>2. AdmittedCost(b - p, b - 1)' = AdmittedCost(b - p, b - 1) + 0 /\ AdmittedCost(b - p, b - 1) \in Nat
      BY <1>1, <3>1
    <3> QED
      BY <2>3, <3>2
  <2>6. ASSUME Window(rate, at) # Window(rate, t) PROVE Used(at)' = Used(at)
    <3>1. b + p <= s
      BY <1>2, <1>3, <1>6, <2>1, <2>6, WindowsOfTimes
    <3>2. b + p - 1 \in Int /\ ~ (t <= b + p - 1)
      BY <1>4, <2>4, <3>1
    <3>3. AdmittedCost(first, b + p - 1)' = AdmittedCost(first, b + p - 1) + 0 /\ AdmittedCost(first, b + p - 1) \in Nat
      BY <1>1, <2>4, <3>2
    <3> QED
      BY <2>3, <3>3
  <2>7. ASSUME Window(rate, at) = Window(rate, t) PROVE Used(at)' = Used(t)'
    <3>1. b = s
      BY <1>2, <1>6, <2>1, <2>7, WindowsOfTimes
    <3>2. Used(t)' = AdmittedCost(first, b + p - 1)'
      BY <1>2, <1>3, <2>2, <3>1, UsedAfter
    <3> QED
      BY <2>3, <3>2
  <2> QED
    BY <2>3, <2>5, <2>6, <2>7
<1> QED
  BY <1>5, <1>6

\* The greatest limit of a window is reached, and is the greatest.
LEMMA WindowMost ==
  ASSUME Inductive, rate.strategy \in {"tiered_rate", "time_of_day"}, NEW t \in Nat
  PROVE  LET most == Max({EffectiveLimit(rate, u) : u \in WindowStart(rate, t) .. WindowStart(rate, t) + rate.period - 1})
         IN  EffectiveLimit(rate, t) <= most /\ most \in Int
<1> DEFINE s == WindowStart(rate, t)
           T == s .. s + rate.period - 1
           L == {EffectiveLimit(rate, u) : u \in T}
           f == [u \in T |-> EffectiveLimit(rate, u)]
<1>1. RateOK(rate)
  BY RateIsOK DEF Inductive, Shapes
<1>2. s \in Nat /\ rate.period \in Nat \ {0} /\ t \in T
  <2>1. \A x, p \in Nat : x <= t /\ t < x + p => t \in x .. x + p - 1
    OBVIOUS
  <2>2. s \in Nat /\ s <= t /\ t < s + rate.period /\ rate.period \in Nat \ {0}
    BY <1>1, WindowEnds
  <2> QED
    BY <2>1, <2>2
<1>3. T \subseteq Nat
  BY <1>2
<1>4. IsFiniteSet(T)
  <2>1. s \in Int /\ s + rate.period - 1 \in Int
    BY <1>2
  <2> QED
    BY <2>1, FS_Interval
<1> HIDE DEF s, T
<1>5. L \in SUBSET Int /\ L # {}
  BY <1>1, <1>2, <1>3, EffectiveLimitIsInt
<1>6. IsFiniteSet(L)
  <2>1. f \in Surjection(T, L)
    BY DEF Surjection
  <2> QED
    BY <1>4, <2>1, FS_Surjection
<1>7. EffectiveLimit(rate, t) \in L
  BY <1>2
<1> HIDE DEF L
<1>8. EffectiveLimit(rate, t) <= Max(L) /\ Max(L) \in Int
  BY <1>5, <1>6, <1>7, MaxOfInts
<1> QED
  BY <1>8 DEF L, T, s

\* The limit of an instant is within what its window may reach.
LEMMA MostAllowed ==
  ASSUME Inductive, rate.strategy \in {"tiered_rate", "time_of_day", "adaptive_throttle"}, NEW t \in Nat
  PROVE  Most(rate, t) <= Allowance(t)
<1>1. RateOK(rate) /\ rate.limit \in Nat
  BY RateIsOK DEF Inductive, Shapes
<1>2. CASE rate.strategy = "adaptive_throttle"
  BY <1>1, <1>2 DEF Most, Allowance
<1>3. CASE rate.strategy \in {"tiered_rate", "time_of_day"}
  BY <1>3, WindowMost DEF Most, Allowance
<1> QED
  BY <1>2, <1>3

\* What a quota's hit takes for rolled over is within what its period may reach.
LEMMA OverAllowed ==
  ASSUME Inductive, Keeping, rate.strategy = "quota_with_rollover", NEW t \in Nat, CountedByQuota(t)
  PROVE  rate.limit + RolledOver(rate, cell, t) <= Allowance(t)
<1> DEFINE b     == Before(t)
           w     == Window(rate, t)
           used  == Stored(cell, <<"count", w - 1>>, t)
           known == Stored(cell, <<"rollover", w>>, t)
<1>1. RateOK(rate) /\ rate.limit \in Nat /\ b \in Nat
  BY KeptTypes
<1>2. Allowance(t) = rate.limit + IF b = 0 THEN 0 ELSE Rollover(rate, b)
  BY <1>1 DEF Allowance, Before, Rollover, None
<1>3. Rollover(rate, b) \in 0 .. rate.maxRollover /\ rate.maxRollover \in Nat
  BY <1>1, RolloverInRange DEF RateOK, StrategyFields
<1>4. used # None => used = b /\ b # 0
  <2>1. used # None => <<"count", w - 1>> \in DOMAIN cell /\ used = cell[<<"count", w - 1>>].value
    BY DEF Stored
  <2>2. <<"count", w - 1>>[1] = "count"
    OBVIOUS
  <2>3. used # None => used = b
    BY DEF CountedByQuota
  <2> QED
    BY <2>1, <2>2, <2>3 DEF CountedByQuota, CountsPositive
<1>5. known # None => rate.limit + known <= Allowance(t)
  BY DEF CountedByQuota
<1>6. RolledOver(rate, cell, t) = IF known = None THEN Rollover(rate, used) ELSE known
  BY DEF RolledOver
<1>7. Rollover(rate, None) = 0
  BY DEF Rollover
<1> HIDE DEF b, w, used, known
<1>8. used = None => Rollover(rate, used) = 0
  BY <1>7
<1>9. used # None => Rollover(rate, used) = Rollover(rate, b)
  BY <1>4
<1> QED
  BY <1>1, <1>2, <1>3, <1>4, <1>5, <1>6, <1>8, <1>9

\* The bound holds after an admission if it holds for the current window.
LEMMA BoundsKept ==
  ASSUME Inductive, Keeping, rate' = rate, NEW t \in Nat, t = clock, NEW spent \in Nat,
         \A from, to \in Int :
           AdmittedCost(from, to)' = AdmittedCost(from, to) + (IF from <= t /\ t <= to THEN spent ELSE 0),
         \A p \in Requests : Admitted(p)' => (Admitted(p) /\ hit'[p] = hit[p]) \/ (hit'[p].at = t /\ spent # 0),
         \A at \in Decisions : Used(at) <= Allowance(at),
         spent # 0 => Used(t)' <= Allowance(t)
  PROVE  \A at : at \in Decisions' => Used(at)' <= Allowance(at)'
<1> SUFFICES ASSUME NEW at, at \in Decisions' PROVE Used(at)' <= Allowance(at)'
  OBVIOUS
<1>1. PICK p \in Requests : Admitted(p)' /\ at = hit'[p].at
  BY DEF Decisions
<1>2. \A u \in Nat : Used(u) \in Nat
  BY KeptTypes
<1>3. /\ Used(t)' = Used(t) + (IF FreeInstant(t) THEN 0 ELSE spent)
      /\ \A u \in Nat : u <= t =>
           /\ Before(u)' = Before(u) /\ Allowance(u)' = Allowance(u)
           /\ Window(rate, u) = Window(rate, t) => Used(u)' = Used(t)'
           /\ Window(rate, u) # Window(rate, t) => Used(u)' = Used(u)
  BY UsedGrows
<1>4. CASE at = t /\ spent # 0
  BY <1>3, <1>4
<1>5. CASE Admitted(p) /\ hit'[p] = hit[p]
  <2>1. at \in Decisions
    BY <1>1, <1>5 DEF Decisions
  <2>2. at \in Nat /\ at <= t
    <3>1. at \in Nat
      BY <1>1, <1>5, HitKinds DEF Inductive, Shapes, Admitted
    <3> QED
      BY <1>1, <1>5, <3>1 DEF Inductive, Times
  <2>3. Used(at) <= Allowance(at)
    BY <2>1
  <2>4. Window(rate, at) = Window(rate, t) => Used(at) = Used(t) /\ Allowance(at) = Allowance(t)
    BY <2>2, WindowsOfTimes
  <2>5. spent = 0 => Used(t)' = Used(t)
    BY <1>2, <1>3
  <2> QED
    BY <1>3, <2>2, <2>3, <2>4, <2>5
<1> QED
  BY <1>1, <1>4, <1>5

\* These limits are numbers.
LEMMA AllowanceIsInt ==
  ASSUME Inductive, Keeping, NEW t \in Nat
  PROVE  Allowance(t) \in Int
<1>1. RateOK(rate) /\ rate.limit \in Nat /\ Before(t) \in Nat
  BY KeptTypes
<1>2. CASE rate.strategy \in {"tiered_rate", "time_of_day"}
  BY <1>2, WindowMost DEF Allowance
<1>3. CASE rate.strategy = "quota_with_rollover"
  <2>1. Allowance(t) = rate.limit + IF Before(t) = 0 THEN 0 ELSE Rollover(rate, Before(t))
    BY <1>1, <1>3 DEF Allowance, Before, Rollover, None
  <2>2. Rollover(rate, Before(t)) \in 0 .. rate.maxRollover /\ rate.maxRollover \in Nat
    BY <1>1, <1>3, RolloverInRange DEF RateOK, StrategyFields
  <2> QED
    BY <1>1, <2>1, <2>2
<1>4. CASE rate.strategy \notin {"tiered_rate", "time_of_day", "quota_with_rollover"}
  BY <1>1, <1>4 DEF Allowance
<1> QED
  BY <1>2, <1>3, <1>4

\* Deciding keeps the invariant.
LEMMA KeptDecide ==
  ASSUME Inductive, Kept, NEW q \in Requests, Decide(q)
  PROVE  Kept'
<1> SUFFICES ASSUME Keeping', NEW t \in Nat, t = clock' PROVE KeptAt(t)'
  BY DEF Kept
<1> DEFINE cost  == hit[q].cost
           out   == HitOf(rate, cell, t, cost, t)
           spent == Spent(out, cost)
           w     == Window(rate, t)
<1>1. /\ rate' = rate /\ scenario' = scenario /\ clock' = clock /\ t = clock /\ Keeping /\ ~ Stepwise
  BY DecideSums DEF Keeping
<1>2. KeptAt(t)
  BY <1>1 DEF Kept
<1>3. /\ RateOK(rate) /\ clock \in Nat /\ WindowCell(rate, cell) /\ Used(t) \in Nat
  BY <1>1, KeptTypes
<1>4. /\ cell' = out.cell /\ cost \in Costs /\ cost \in Nat \ {0}
      /\ spent \in Nat /\ (out.wait # 0 => spent = 0) /\ (out.wait = 0 => spent = cost)
      /\ \A from, to \in Int :
           AdmittedCost(from, to)' = AdmittedCost(from, to) + (IF from <= t /\ t <= to THEN spent ELSE 0)
      /\ \A p \in Requests : Admitted(p)' => (Admitted(p) /\ hit'[p] = hit[p]) \/ (hit'[p].at = t /\ spent # 0)
  <2>1. hit[q].now = t
    <3>1. /\ hit[q].now \in Nat /\ clock \in Nat /\ hit[q].now <= clock /\ clock <= hit[q].now + scenario.delay
      BY DecideSums
    <3> QED
      BY <1>1, <3>1 DEF Keeping
  <2>2. cost \in Costs /\ cost \in Nat \ {0}
    BY DecideSums
  <2> HIDE DEF cost
  <2>3. LET o == HitOf(rate, cell, hit[q].now, cost, clock)
            s == Spent(o, cost)
        IN  /\ cell' = o.cell
            /\ s \in Nat /\ (o.wait # 0 => s = 0) /\ (o.wait = 0 => s = cost)
            /\ \A from, to \in Int :
                 AdmittedCost(from, to)' = AdmittedCost(from, to) + (IF from <= clock /\ clock <= to THEN s ELSE 0)
            /\ \A p \in Requests : Admitted(p)' => (Admitted(p) /\ hit'[p] = hit[p])
                                                   \/ (hit'[p].at = clock /\ o.wait = 0)
    BY DecideSums DEF cost
  <2> QED
    BY <1>1, <2>1, <2>2, <2>3
<1>5. Used(t)' = Used(t) + spent
  <2>1. Used(t)' = Used(t) + (IF FreeInstant(t) THEN 0 ELSE spent)
    BY <1>1, <1>4, UsedGrows
  <2> QED
    BY <1>1, <2>1 DEF FreeInstant
<1>6. Before(t)' = Before(t) /\ Allowance(t)' = Allowance(t)
  BY <1>1, <1>3, <1>4, UsedGrows
<1> HIDE DEF out, spent, cost
<1>7. ASSUME spent # 0 => Used(t)' <= Allowance(t)
      PROVE  \A at : at \in Decisions' => Used(at)' <= Allowance(at)'
  BY <1>1, <1>2, <1>4, <1>7, BoundsKept DEF KeptAt
<1>8. CASE rate.strategy # "quota_with_rollover"
  <2>1. rate.strategy \in {"tiered_rate", "time_of_day", "adaptive_throttle"}
    BY <1>1, <1>8 DEF Keeping, Windowed, Stepwise
  <2>2. /\ Dated(rate, out.cell, t) /\ CountIn(out.cell, w, t) = CountIn(cell, w, t) + cost
        /\ out.wait = 0 => CountIn(out.cell, w, t) <= Most(rate, t)
    <3>1. Dated(rate, cell, t)
      BY <1>2 DEF KeptAt
    <3> QED
      BY <1>3, <1>4, <2>1, <3>1, TieredRateCounts, AdaptiveThrottleCounts DEF out
  <2>3. CountIn(cell, w, t) \in Int /\ Used(t) <= CountIn(cell, w, t)
    <3>1. Stored(cell, <<"count", w>>, t) \in Int
      BY <1>3, StoredShape DEF None
    <3> QED
      BY <1>2, <3>1 DEF KeptAt, CountIn, AtLeast
  <2>4. Most(rate, t) <= Allowance(t)
    BY <2>1, MostAllowed
  <2>5. Used(t)' <= CountIn(cell', Window(rate', t), t)
    BY <1>1, <1>3, <1>4, <1>5, <2>2, <2>3
  <2>6. spent # 0 => Used(t)' <= Allowance(t)
    <3>1. Most(rate, t) \in Int
      BY <1>3, <2>1, EffectiveLimitIsInt DEF Most, RateOK
    <3>2. Allowance(t) \in Int
      BY <1>1, AllowanceIsInt
    <3> QED
      BY <1>1, <1>3, <1>4, <1>5, <2>2, <2>3, <2>4, <3>1, <3>2
  <2>7. (Stepwise => CountedByOne(t))' /\ (rate.strategy = "quota_with_rollover" => CountedByQuota(t))'
    BY <1>1, <1>8 DEF Stepwise
  <2> QED
    BY <1>1, <1>4, <1>7, <2>2, <2>5, <2>6, <2>7 DEF KeptAt
<1>9. CASE rate.strategy = "quota_with_rollover"
  <2> DEFINE over == RolledOver(rate, cell, t)
  <2>1. Dated(rate, cell, t) /\ CountedByQuota(t)
    BY <1>2, <1>9 DEF KeptAt
  <2>2. /\ Dated(rate, out.cell, t) /\ CountsPositive(out.cell)
        /\ CountIn(out.cell, w, t) = CountIn(cell, w, t) + spent
        /\ out.wait = 0 => CountIn(out.cell, w, t) <= rate.limit + over
        /\ Stored(out.cell, <<"count", w - 1>>, t) = Stored(cell, <<"count", w - 1>>, t)
        /\ Stored(out.cell, <<"rollover", w>>, t) = over /\ over \in Nat
    BY <1>3, <1>4, <1>9, <2>1, QuotaCounts DEF out, spent, CountedByQuota
  <2>3. rate.limit + over <= Allowance(t)
    BY <1>1, <1>9, <2>1, OverAllowed
  <2>4. Used(t) = CountIn(cell, w, t) /\ Used(t)' = CountIn(out.cell, w, t)
    BY <1>5, <2>1, <2>2 DEF CountedByQuota
  <2>5. spent # 0 => Used(t)' <= Allowance(t)
    <3>1. Allowance(t) \in Int /\ rate.limit + over \in Int
      BY <1>1, <1>3, <2>2, AllowanceIsInt DEF RateOK
    <3> QED
      BY <1>3, <1>4, <1>5, <2>2, <2>3, <2>4, <3>1
  <2>6. CountedByQuota(t)'
    <3> HIDE DEF over
    <3>1. Stored(out.cell, <<"count", w - 1>>, t) = None \/ Stored(out.cell, <<"count", w - 1>>, t) = Before(t)
      BY <2>1, <2>2 DEF CountedByQuota
    <3> QED
      BY <1>1, <1>4, <1>6, <2>2, <2>3, <2>4, <3>1 DEF CountedByQuota
  <2>7. Used(t)' <= CountIn(cell', Window(rate', t), t)
    BY <1>1, <1>3, <1>4, <1>5, <2>4
  <2>8. (Stepwise => CountedByOne(t))'
    BY <1>1 DEF Stepwise
  <2> QED
    BY <1>1, <1>4, <1>7, <2>2, <2>5, <2>6, <2>7, <2>8 DEF KeptAt
<1> QED
  BY <1>8, <1>9

\* A step that neither admits nor counts keeps the invariant.
LEMMA KeptOther ==
  ASSUME Inductive, Kept, rate' = rate, scenario' = scenario, clock' = clock,
         \/ cell' = cell
         \/ Stepwise /\ \A t \in Nat : t = clock /\ Keeping =>
              /\ Dated(rate, cell', t)
              /\ CountIn(cell', Window(rate, t), t) = CountIn(cell, Window(rate, t), t),
         \A p \in Requests : (hit'[p].pc = "admitted" <=> hit[p].pc = "admitted")
                             /\ (hit[p].pc = "admitted" => hit'[p] = hit[p]),
         \A p \in Requests : Counting(p)' /\ "count" \notin hit'[p].todo =>
           /\ Counting(p) /\ "count" \notin hit[p].todo
           /\ hit'[p].count = hit[p].count /\ hit'[p].cost = hit[p].cost
  PROVE  Kept'
<1> SUFFICES ASSUME Keeping', NEW t \in Nat, t = clock' PROVE KeptAt(t)'
  BY DEF Kept
<1>1. Keeping /\ t = clock /\ KeptAt(t)
  BY DEF Keeping, Kept
<1>2. \A from, to : AdmittedCost(from, to)' = AdmittedCost(from, to)
  BY SumsSame DEF Inductive, Shapes
<1>3. \A at : Used(at)' = Used(at) /\ Before(at)' = Before(at) /\ Allowance(at)' = Allowance(at)
  BY <1>1, <1>2, UsedSame
<1>4. \A at : at \in Decisions' => at \in Decisions
  BY DEF Decisions, Admitted
<1>5. \A at \in Decisions' : Used(at)' <= Allowance(at)'
  BY <1>1, <1>3, <1>4 DEF KeptAt
<1>6. /\ Dated(rate, cell', t) /\ CountIn(cell', Window(rate, t), t) = CountIn(cell, Window(rate, t), t)
      /\ Stepwise \/ cell' = cell
  BY <1>1 DEF KeptAt
<1>7. (Stepwise => CountedByOne(t))'
  <2>1. Stepwise' <=> Stepwise
    BY DEF Stepwise
  <2> SUFFICES ASSUME Stepwise, NEW p \in Requests, Counting(p)', "count" \notin hit'[p].todo
               PROVE  /\ hit'[p].count = CountIn(cell', Window(rate, t), t)
                      /\ Used(t)' + hit'[p].cost <= hit'[p].count
    BY <2>1 DEF CountedByOne
  <2>2. CountedByOne(t)
    BY <1>1 DEF KeptAt
  <2> QED
    BY <1>3, <1>6, <2>2 DEF CountedByOne
<1>8. (rate.strategy = "quota_with_rollover" => CountedByQuota(t))'
  <2> SUFFICES ASSUME rate.strategy = "quota_with_rollover" PROVE CountedByQuota(t)'
    OBVIOUS
  <2>1. CountedByQuota(t) /\ cell' = cell
    BY <1>1, <1>6 DEF KeptAt, Stepwise
  <2> QED
    BY <1>3, <2>1 DEF CountedByQuota
<1>9. Used(t)' <= CountIn(cell', Window(rate', t), t)
  BY <1>1, <1>3, <1>6 DEF KeptAt
<1> QED
  BY <1>5, <1>6, <1>7, <1>8, <1>9 DEF KeptAt

\* Without waiting, a request that counts does so in the current window.
LEMMA CountingNow ==
  ASSUME Inductive, Keeping, NEW q \in Requests, Counting(q), NEW t \in Nat, t = clock
  PROVE  /\ hit[q].now = t /\ Mine(q) = Window(rate, t) /\ Stepwise
         /\ \A p \in Requests : Counting(p) => p = q
         /\ \A kind : LET v == Stored(cell, <<kind, Window(rate, t)>>, t) IN v = None \/ v \in Nat
<1>1. hit[q].now \in Nat /\ Stepwise
  BY CountingFacts
<1>2. hit[q].now = t
  BY <1>1 DEF Inductive, Times, Keeping
<1>3. \A k \in DOMAIN cell : cell[k].value \in Nat
  BY <1>1 DEF Inductive, Counters, Keeping
<1>4. \A p \in Requests : Counting(p) => p = q
  BY <1>1 DEF Inductive, Counters, Keeping
<1> QED
  BY <1>1, <1>2, <1>3, <1>4 DEF Mine, Stored

\* Counting keeps the invariant.
LEMMA KeptCount ==
  ASSUME Inductive, Kept, NEW q \in Requests, Count(q)
  PROVE  Kept'
<1> SUFFICES ASSUME Keeping', NEW t \in Nat, t = clock' PROVE KeptAt(t)'
  BY DEF Kept
<1> DEFINE w    == Window(rate, t)
           key  == <<"count", w>>
           cost == hit[q].cost
           a    == Added(rate, cell, key, cost, t)
<1>1. /\ Counting(q) /\ scenario' = scenario /\ clock' = clock /\ rate' = rate /\ t = clock
      /\ Keeping /\ KeptAt(t)
  BY DEF Count, Keeping, Kept, rate
<1>2. /\ hit[q].now = t /\ Mine(q) = w /\ Stepwise /\ \A p \in Requests : Counting(p) => p = q
      /\ Stored(cell, key, t) = None \/ Stored(cell, key, t) \in Nat
  BY <1>1, CountingNow
<1>3. /\ RateOK(rate) /\ WindowCell(rate, cell) /\ hit \in [Requests -> Hits] /\ Used(t) \in Nat
      /\ cost \in Nat \ {0} /\ cost \in Nat /\ cost \in Int
      /\ hit[q] \in [pc : {"counting"}, now : Nat, cost : Costs, count : Int, previous : Int,
                     todo : SUBSET {"count", "read", "refresh"}]
  BY <1>1, KeptTypes, CountingFacts
<1>4. cell' = a
  BY <1>1, <1>2 DEF Count
<1>5. hit' = [hit EXCEPT ![q].todo = @ \ {"count"}, ![q].count = CountIn(a, w, t)]
  BY <1>1, <1>2, <1>4 DEF Count
<1>6. /\ Dated(rate, a, t) /\ CountIn(a, w, t) = CountIn(cell, w, t) + cost
  <2>1. Dated(rate, cell, t)
    BY <1>1 DEF KeptAt
  <2>2. Stored(cell, key, t) # None => Stored(cell, key, t) \in Nat /\ Stored(cell, key, t) + cost \in Nat
    BY <1>2, <1>3
  <2> HIDE DEF cost
  <2> QED
    BY <1>3, <2>1, <2>2, AddedDated
<1>7. CountIn(cell, w, t) \in Nat /\ Used(t) <= CountIn(cell, w, t)
  BY <1>1, <1>2 DEF KeptAt, CountIn, AtLeast, None
<1> HIDE DEF a
<1>8. /\ hit'[q].pc = "counting" /\ hit'[q].count = CountIn(a, w, t) /\ hit'[q].cost = cost
      /\ \A p \in Requests : p # q => hit'[p] = hit[p]
  BY <1>3, <1>5
<1>9. \A from, to : AdmittedCost(from, to)' = AdmittedCost(from, to)
  <2>1. hit[q].pc = "counting"
    BY <1>3
  <2>2. \A p \in Requests : (hit'[p].pc = "admitted" <=> hit[p].pc = "admitted")
                            /\ (hit[p].pc = "admitted" => hit'[p] = hit[p])
    BY <1>8, <2>1
  <2> QED
    BY <1>3, <2>2, SumsSame
<1>10. \A at : Used(at)' = Used(at) /\ Before(at)' = Before(at) /\ Allowance(at)' = Allowance(at)
  BY <1>1, <1>9, UsedSame
<1>11. \A at \in Decisions' : Used(at)' <= Allowance(at)'
  <2>1. \A at : at \in Decisions' => at \in Decisions
    BY <1>8 DEF Decisions, Admitted
  <2> QED
    BY <1>1, <1>10, <2>1 DEF KeptAt
<1>12. CountedByOne(t)'
  <2> SUFFICES ASSUME NEW p \in Requests, Counting(p)'
               PROVE  /\ hit'[p].count = CountIn(cell', Window(rate', t), t)
                      /\ Used(t)' + hit'[p].cost <= hit'[p].count
    BY DEF CountedByOne
  <2>1. p = q
    BY <1>2, <1>8 DEF Counting
  <2> QED
    BY <1>1, <1>3, <1>4, <1>6, <1>7, <1>8, <1>10, <2>1
<1>13. Used(t)' <= CountIn(cell', Window(rate', t), t)
  BY <1>1, <1>3, <1>4, <1>6, <1>7, <1>10
<1>14. (rate.strategy = "quota_with_rollover" => CountedByQuota(t))'
  BY <1>1, <1>2 DEF Stepwise
<1> QED
  BY <1>1, <1>4, <1>6, <1>11, <1>12, <1>13, <1>14 DEF KeptAt

\* Storing the last window's count again keeps it.
LEMMA KeptRefresh ==
  ASSUME Inductive, Kept, NEW q \in Requests, Refresh(q)
  PROVE  Kept'
<1>1. /\ Counting(q) /\ scenario' = scenario /\ clock' = clock /\ rate' = rate
      /\ hit' = [hit EXCEPT ![q].todo = {}] /\ hit[q].todo = {"refresh"}
      /\ cell' = Put(cell, <<"count", Mine(q) - 1>>, hit[q].previous, TwiceTTL(rate, clock), clock)
  BY DEF Refresh, Refreshed, rate
<1>2. /\ hit[q] \in [pc : {"counting"}, now : Nat, cost : Costs, count : Int, previous : Int,
                     todo : SUBSET {"count", "read", "refresh"}]
      /\ Stepwise /\ hit \in [Requests -> Hits]
  BY <1>1, CountingFacts DEF Inductive, Shapes
<1>3. ASSUME NEW t \in Nat, t = clock, Keeping
      PROVE  /\ Dated(rate, cell', t)
             /\ CountIn(cell', Window(rate, t), t) = CountIn(cell, Window(rate, t), t)
  <2> DEFINE w   == Window(rate, t)
             key == <<"count", w - 1>>
             exp == TwiceTTL(rate, t)
             v   == hit[q].previous
  <2>1. Mine(q) = w
    BY <1>1, <1>3, CountingNow
  <2>2. RateOK(rate) /\ w \in Nat
    BY <1>3, KeptTypes, WindowEnds
  <2>3. exp \in Int /\ EndOf(rate, w - 1) \in Int /\ EndOf(rate, w - 1) <= exp
    BY <2>2, StoredNowCovers
  <2>4. w - 1 \in Int /\ w - 1 <= Window(rate, t)
    BY <2>2
  <2>5. Dated(rate, cell, t)
    BY <1>3 DEF Kept, KeptAt
  <2>6. cell' = Put(cell, key, v, exp, t)
    BY <1>1, <1>3, <2>1
  <2>7. <<"count", w>> # key
    <3>1. w # w - 1
      BY <2>2
    <3> HIDE DEF w
    <3> QED
      BY <3>1
  <2> HIDE DEF exp, v
  <2>8. Dated(rate, Put(cell, key, v, exp, t), t)
    <3> DEFINE u == w - 1
    <3>1. u \in Int /\ u <= Window(rate, t) /\ EndOf(rate, u) \in Int /\ EndOf(rate, u) <= exp
      BY <2>3, <2>4
    <3> HIDE DEF u
    <3>2. Dated(rate, Put(cell, <<"count", u>>, v, exp, t), t)
      BY <2>2, <2>3, <2>5, <3>1, PutDated
    <3> QED
      BY <3>2 DEF u
  <2>9. Stored(Put(cell, key, v, exp, t), <<"count", w>>, t) = Stored(cell, <<"count", w>>, t)
    BY <2>7, PutElsewhere
  <2> QED
    BY <2>6, <2>8, <2>9 DEF CountIn
<1>4. /\ hit'[q].pc = "counting" /\ hit[q].pc = "counting" /\ hit'[q].count = hit[q].count /\ hit'[q].cost = hit[q].cost
      /\ \A p \in Requests : p # q => hit'[p] = hit[p]
  BY <1>1, <1>2
<1>5. \A p \in Requests : (hit'[p].pc = "admitted" <=> hit[p].pc = "admitted")
                          /\ (hit[p].pc = "admitted" => hit'[p] = hit[p])
  BY <1>4
<1>6. \A p \in Requests : Counting(p)' /\ "count" \notin hit'[p].todo =>
           /\ Counting(p) /\ "count" \notin hit[p].todo
           /\ hit'[p].count = hit[p].count /\ hit'[p].cost = hit[p].cost
  BY <1>1, <1>4 DEF Counting
<1> QED
  BY <1>1, <1>2, <1>3, <1>5, <1>6, KeptOther

\* A hit that weighs no more than the limit has not counted to more.
LEMMA LightCount ==
  ASSUME NEW r, RateOK(r), NEW now \in Nat, NEW count \in Int, NEW previous \in Nat
  PROVE  /\ Overweight(r, now, count, previous) \in Int
         /\ Overweight(r, now, count, previous) <= 0 => count <= r.limit
<1> DEFINE p == r.period
           l == r.limit
           u == UntilWindowEnds(r, now)
<1>1. p \in Nat \ {0} /\ l \in Nat
  BY DEF RateOK
<1>2. u \in Nat
  BY WindowNotOver
<1> HIDE DEF p, l, u
<1>3. Overweight(r, now, count, previous) = (previous * u + count * p) - l * p
  BY DEF Overweight, Weighted, p, l, u
<1>4. previous * u \in Nat /\ count * p \in Int /\ l * p \in Int
  BY <1>1, <1>2
<1>5. count > l => count * p > l * p
  <2> SUFFICES ASSUME count > l PROVE count * p > l * p
    OBVIOUS
  <2>1. p * (l + 1) <= p * count /\ p * (l + 1) \in Int /\ p * count \in Int
    BY <1>1, ProductGrows
  <2>2. p * (l + 1) = p * l + p * 1
    BY <1>1, ProductSplits
  <2>3. p * l = l * p /\ p * count = count * p /\ p * 1 = p
    BY <1>1
  <2> QED
    BY <1>1, <1>4, <2>1, <2>2, <2>3
<1> DEFINE x == previous * u
           y == count * p
           z == l * p
<1>6. x \in Nat /\ y \in Int /\ z \in Int /\ (count > l => y > z)
  BY <1>4, <1>5
<1> HIDE DEF x, y, z
<1>7. (x + y) - z \in Int /\ ((x + y) - z <= 0 => ~ (y > z))
  BY <1>6
<1> QED
  BY <1>1, <1>3, <1>6, <1>7 DEF x, y, z, l

\* One that weighs more is told to wait, except in the window's free instant.
LEMMA HeavyWaits ==
  ASSUME NEW r, RateOK(r), NEW now \in Nat, NEW excess \in Nat \ {0}, NEW previous \in Nat,
         CounterWait(r, now, excess, previous) = 0
  PROVE  TimeInWindow(r, now) = 0
<1> DEFINE p == r.period
           u == TimeInWindow(r, now)
<1>1. p \in Nat \ {0}
  BY DEF RateOK
<1>2. u \in Nat /\ UntilWindowEnds(r, now) # 0
  BY WindowNotOver
<1> HIDE DEF p, u
<1>3. CASE previous > 0
  <2> SUFFICES ASSUME u # 0 PROVE FALSE
    BY DEF u
  <2>1. \A a, b \in Nat \ {0} : a * b \in Nat \ {0}
    OBVIOUS
  <2>2. excess * u \in Nat \ {0} /\ previous * p \in Nat \ {0}
    BY <1>1, <1>2, <1>3, <2>1
  <2>3. CeilDiv(excess * u, previous * p) \in Nat \ {0}
    <3> DEFINE a == excess * u
               b == previous * p
    <3>1. a \in Nat \ {0} /\ b \in Nat \ {0}
      BY <2>2
    <3> HIDE DEF a, b
    <3>2. CeilDiv(a, b) \in Nat \ {0}
      BY <3>1, CeilDivPositive
    <3> QED
      BY <3>2 DEF a, b
  <2> QED
    BY <1>3, <2>3 DEF CounterWait, u, p
<1>4. CASE ~ (previous > 0)
  BY <1>2, <1>4 DEF CounterWait
<1> QED
  BY <1>3, <1>4

\* In its free instant nothing is counted as admitted in a window yet.
LEMMA NothingUsedYet ==
  ASSUME Inductive, Keeping, NEW t \in Nat, t = clock, FreeInstant(t)
  PROVE  Used(t) = 0
<1>1. t = WindowStart(rate, t) /\ rate.period \in Nat /\ hit \in [Requests -> Hits]
  BY FreeInstantStarts, KeptTypes
<1>2. Used(t) = AdmittedCost(t + 1, t + rate.period - 1)
  BY <1>1 DEF Used
<1>3. \A q \in Requests : Admitted(q) => hit[q].at < t + 1
  <2> SUFFICES ASSUME NEW q \in Requests, Admitted(q) PROVE hit[q].at < t + 1
    OBVIOUS
  <2>1. hit[q].at \in Nat
    BY <1>1, HitKinds DEF Admitted
  <2> QED
    BY <2>1 DEF Inductive, Times
<1>4. t + 1 \in Int /\ t + rate.period - 1 \in Int
  BY <1>1
<1>5. /\ AdmittedCost(t + 1, t + rate.period - 1) \in Nat /\ Since(t + 1) = 0
      /\ AdmittedCost(t + 1, t + rate.period - 1) <= Since(t + 1)
  BY <1>1, <1>3, <1>4, SumsOrdered
<1> QED
  BY <1>2, <1>5

\* Weighing keeps the invariant.
LEMMA KeptWeigh ==
  ASSUME Inductive, Kept, NEW q \in Requests, Weigh(q)
  PROVE  Kept'
<1> SUFFICES ASSUME Keeping', NEW t \in Nat, t = clock' PROVE KeptAt(t)'
  BY DEF Kept
<1> DEFINE w        == Window(rate, t)
           key      == <<"count", w>>
           cost     == hit[q].cost
           count    == hit[q].count
           previous == AtLeast(hit[q].previous, 0)
           excess   == Overweight(rate, t, count, previous)
           wait     == IF excess > 0 THEN CounterWait(rate, t, excess, previous) ELSE 0
           spent    == IF wait = 0 THEN cost ELSE 0
           a        == Added(rate, cell, key, -cost, t)
<1>1. /\ Counting(q) /\ scenario' = scenario /\ clock' = clock /\ rate' = rate /\ t = clock
      /\ Keeping /\ KeptAt(t) /\ hit[q].todo = {}
  BY DEF Weigh, Keeping, Kept, rate
<1>2. /\ hit[q].now = t /\ Mine(q) = w /\ Stepwise /\ \A p \in Requests : Counting(p) => p = q
      /\ Stored(cell, key, t) = None \/ Stored(cell, key, t) \in Nat
  BY <1>1, CountingNow
<1>3. /\ RateOK(rate) /\ rate.limit \in Nat /\ WindowCell(rate, cell) /\ hit \in [Requests -> Hits] /\ Used(t) \in Nat
      /\ cost \in Nat \ {0} /\ cost \in Nat /\ -cost \in Int /\ cost \in Costs
      /\ count \in Int /\ hit[q].previous \in Int
  BY <1>1, KeptTypes, CountingFacts
<1>4. previous \in Nat
  BY <1>3 DEF AtLeast
<1>5. /\ Decided(q, wait)
      /\ excess > 0 => cell' = a
      /\ ~ (excess > 0) => cell' = cell
  BY <1>1, <1>2 DEF Weigh, Uncounted
<1>6. /\ count = CountIn(cell, w, t) /\ Used(t) + cost <= count
  BY <1>1, <1>2 DEF KeptAt, CountedByOne
<1>7. Stored(cell, key, t) \in Nat /\ Stored(cell, key, t) - cost \in Nat /\ CountIn(cell, w, t) = Stored(cell, key, t)
  BY <1>2, <1>3, <1>6 DEF CountIn, AtLeast, None
<1>8. Dated(rate, cell, t)
  BY <1>1 DEF KeptAt
<1>9. excess \in Int /\ (excess <= 0 => count <= rate.limit)
  BY <1>3, <1>4, LightCount
<1> HIDE DEF previous
<1>10. excess > 0 /\ wait = 0 => FreeInstant(t)
  BY <1>2, <1>3, <1>4, <1>9, HeavyWaits DEF FreeInstant
<1> HIDE DEF excess, wait
<1>11. /\ Dated(rate, a, t) /\ CountIn(a, w, t) = CountIn(cell, w, t) - cost
  <2> DEFINE m == -cost
  <2>1. m \in Int /\ Stored(cell, key, t) # None /\ Stored(cell, key, t) + m \in Nat
    BY <1>3, <1>7 DEF None
  <2>2. rate.strategy = "sliding_window_counter"
    BY <1>2 DEF Stepwise
  <2> HIDE DEF m
  <2>3. Dated(rate, Added(rate, cell, key, m, t), t) /\ CountIn(Added(rate, cell, key, m, t), w, t) = CountIn(cell, w, t) + m
    BY <1>3, <1>7, <1>8, <2>1, <2>2, AddedDated
  <2>4. CountIn(cell, w, t) + m = CountIn(cell, w, t) - cost
    BY <1>3, <1>7 DEF m
  <2> QED
    BY <2>3, <2>4 DEF m
<1> HIDE DEF a
<1>12. /\ hit' \in [Requests -> Hits] /\ \A p \in Requests : p # q => hit'[p] = hit[p]
       /\ wait = 0 => hit'[q] = [pc |-> "admitted", cost |-> cost, at |-> t]
       /\ wait # 0 => hit'[q] = [pc |-> "refused"]
  BY <1>1, <1>3, <1>5, DecidedHit
<1>13. spent \in Nat /\ (wait # 0 => spent = 0) /\ (wait = 0 => spent = cost)
  BY <1>3
<1> HIDE DEF spent
<1>14. hit[q].pc = "counting"
  BY <1>1 DEF Counting
<1>15. /\ \A from, to \in Int :
            AdmittedCost(from, to)' = AdmittedCost(from, to) + (IF from <= t /\ t <= to THEN spent ELSE 0)
       /\ \A p \in Requests : Admitted(p)' => (Admitted(p) /\ hit'[p] = hit[p]) \/ (hit'[p].at = t /\ spent # 0)
  <2> HIDE DEF cost
  <2>1. CASE wait = 0
    <3>1. \A from, to \in Int :
            AdmittedCost(from, to)' = AdmittedCost(from, to) + (IF from <= t /\ t <= to THEN cost ELSE 0)
      BY <1>3, <1>12, <1>14, <2>1, SumsGrow DEF Admitted
    <3>2. \A p \in Requests : Admitted(p)' => (Admitted(p) /\ hit'[p] = hit[p]) \/ (hit'[p].at = t /\ spent # 0)
      BY <1>3, <1>12, <1>13, <2>1 DEF Admitted
    <3> QED
      BY <1>13, <2>1, <3>1, <3>2
  <2>2. CASE wait # 0
    <3>1. \A p \in Requests : (hit'[p].pc = "admitted" <=> hit[p].pc = "admitted")
                              /\ (hit[p].pc = "admitted" => hit'[p] = hit[p])
      BY <1>12, <1>14, <2>2
    <3>2. \A from, to : AdmittedCost(from, to)' = AdmittedCost(from, to)
      BY <1>3, <3>1, SumsSame
    <3>3. \A from, to \in Int : AdmittedCost(from, to) \in Nat
      BY <1>3, SumsOrdered
    <3>4. \A from, to \in Int :
            AdmittedCost(from, to)' = AdmittedCost(from, to) + (IF from <= t /\ t <= to THEN spent ELSE 0)
      <4> SUFFICES ASSUME NEW from \in Int, NEW to \in Int
                   PROVE  AdmittedCost(from, to)' = AdmittedCost(from, to) + (IF from <= t /\ t <= to THEN spent ELSE 0)
        OBVIOUS
      <4>1. spent = 0 /\ AdmittedCost(from, to) \in Nat
        BY <1>13, <2>2, <3>3
      <4>2. AdmittedCost(from, to)' = AdmittedCost(from, to)
        BY <3>2
      <4> QED
        BY <4>1, <4>2
    <3>5. \A p \in Requests : Admitted(p)' => (Admitted(p) /\ hit'[p] = hit[p]) \/ (hit'[p].at = t /\ spent # 0)
      BY <3>1 DEF Admitted
    <3> QED
      BY <3>4, <3>5
  <2> QED
    BY <2>1, <2>2
<1>16. Used(t)' = Used(t) + (IF FreeInstant(t) THEN 0 ELSE spent)
  BY <1>1, <1>13, <1>15, UsedGrows
<1>17. Allowance(t) = rate.limit
  BY <1>2 DEF Allowance, Stepwise
<1>18. spent # 0 => Used(t)' <= Allowance(t)
  <2>1. FreeInstant(t) => Used(t) = 0
    BY <1>1, NothingUsedYet
  <2>2. spent # 0 /\ ~ FreeInstant(t) => excess <= 0
    BY <1>9, <1>10, <1>13
  <2> QED
    BY <1>3, <1>6, <1>9, <1>13, <1>16, <1>17, <2>1, <2>2
<1>19. \A at : at \in Decisions' => Used(at)' <= Allowance(at)'
  BY <1>1, <1>13, <1>15, <1>18, BoundsKept DEF KeptAt
<1>20. Dated(rate, cell', t) /\ Used(t)' <= CountIn(cell', w, t)
  <2>1. CASE excess > 0
    <3>1. Used(t)' = Used(t)
      BY <1>3, <1>10, <1>13, <1>16, <2>1
    <3> QED
      BY <1>3, <1>5, <1>6, <1>7, <1>11, <2>1, <3>1
  <2>2. CASE ~ (excess > 0)
    BY <1>3, <1>5, <1>6, <1>7, <1>8, <1>13, <1>16, <2>2
  <2> QED
    BY <2>1, <2>2
<1>21. CountedByOne(t)'
  <2>1. \A p \in Requests : ~ Counting(p)'
    BY <1>2, <1>12 DEF Counting
  <2> QED
    BY <2>1 DEF CountedByOne
<1>22. (rate.strategy = "quota_with_rollover" => CountedByQuota(t))'
  BY <1>1, <1>2 DEF Stepwise
<1> QED
  BY <1>1, <1>19, <1>20, <1>21, <1>22 DEF KeptAt

\* Nothing was admitted yet in a window that begins later.
LEMMA NothingUsedLater ==
  ASSUME Inductive, Keeping, NEW u \in Nat, clock < WindowStart(rate, u)
  PROVE  Used(u) = 0
<1>1. PICK s : s = WindowStart(rate, u)
  OBVIOUS
<1>2. PICK first : first = IF FreeInstant(s) THEN s + 1 ELSE s
  OBVIOUS
<1>3. PICK last : last = s + rate.period - 1
  OBVIOUS
<1>4. /\ s \in Nat /\ first \in Nat /\ s <= first /\ last \in Int /\ clock \in Nat /\ clock < s
      /\ hit \in [Requests -> Hits]
  BY <1>1, <1>2, <1>3, KeptTypes
<1>5. Used(u) = AdmittedCost(first, last)
  BY <1>1, <1>2, <1>3 DEF Used
<1>6. \A q \in Requests : Admitted(q) => hit[q].at < first
  <2> SUFFICES ASSUME NEW q \in Requests, Admitted(q) PROVE hit[q].at < first
    OBVIOUS
  <2>1. hit[q].at \in Nat
    BY <1>4, HitKinds DEF Admitted
  <2>2. hit[q].at <= clock
    BY DEF Inductive, Times
  <2> QED
    BY <1>4, <2>1, <2>2
<1>7. /\ AdmittedCost(first, last) \in Nat /\ Since(first) = 0
      /\ AdmittedCost(first, last) <= Since(first)
  <2>1. first \in Int
    BY <1>4
  <2>2. hit \in [Requests -> Hits] /\ last \in Int
    BY <1>4
  <2> QED
    BY <1>6, <2>1, <2>2, SumsOrdered
<1> QED
  BY <1>5, <1>7

\* The clock keeps the invariant: what is stored of the current window stays, and a
\* new window begins with nothing.
LEMMA KeptTick ==
  ASSUME Inductive, Kept, Tick
  PROVE  Kept'
<1> SUFFICES ASSUME Keeping', NEW u \in Nat, u = clock' PROVE KeptAt(u)'
  BY DEF Kept
<1>1. PICK t : t = clock
  OBVIOUS
<1>2. /\ scenario' = scenario /\ cell' = cell /\ hit' = hit /\ rate' = rate /\ clock' = clock + 1
      /\ Keeping /\ scenario.delay = 0
      /\ \A q \in Requests : Counting(q) => clock < hit[q].now + scenario.delay
  BY DEF Tick, Keeping, rate
<1>3. /\ RateOK(rate) /\ t \in Nat /\ WindowCell(rate, cell) /\ hit \in [Requests -> Hits]
      /\ rate.period \in Nat \ {0}
      /\ \A at \in Nat : Used(at) \in Nat /\ Before(at) \in Nat /\ WindowStart(rate, at) \in Nat
  BY <1>1, <1>2, KeptTypes
<1>4. u = t + 1 /\ KeptAt(t) /\ Dated(rate, cell, t)
  BY <1>1, <1>2, <1>3 DEF Kept, KeptAt
<1>5. \A q \in Requests : ~ Counting(q)'
  <2> SUFFICES ASSUME NEW q \in Requests, Counting(q) PROVE FALSE
    BY <1>2 DEF Counting
  <2>1. hit[q].now \in Nat /\ hit[q].now <= clock /\ clock <= hit[q].now + 0
    BY <1>2, CountingFacts DEF Inductive, Times
  <2> QED
    BY <1>1, <1>2, <1>3, <2>1
<1>6. \A at : Used(at)' = Used(at) /\ Before(at)' = Before(at) /\ Allowance(at)' = Allowance(at)
  <2>1. \A from, to : AdmittedCost(from, to)' = AdmittedCost(from, to)
    BY <1>2, <1>3, SumsSame
  <2> QED
    BY <1>2, <2>1, UsedSame
<1>7. \A at : at \in Decisions' => Used(at)' <= Allowance(at)'
  <2>1. \A at : at \in Decisions' => at \in Decisions
    BY <1>2 DEF Decisions, Admitted
  <2> QED
    BY <1>4, <1>6, <2>1 DEF KeptAt
<1>8. PICK w : w = Window(rate, t)
  OBVIOUS
<1>9. PICK v : v = Window(rate, u)
  OBVIOUS
<1>10. /\ w \in Nat /\ v \in Nat /\ Dated(rate, cell, u)
       /\ \A k : Stored(cell, k, u) = None \/ Stored(cell, k, u) = Stored(cell, k, t)
       /\ v = w => CountIn(cell, w, u) = CountIn(cell, w, t)
       /\ v # w => v = w + 1 /\ \A kind : Stored(cell, <<kind, v>>, u) = None
  BY <1>3, <1>4, <1>8, <1>9, DatedLater, WindowEnds
<1>11. Used(t) <= CountIn(cell, w, t) /\ (rate.strategy = "quota_with_rollover" => CountedByQuota(t))
  BY <1>4, <1>8 DEF KeptAt
<1>12. ASSUME v = w
       PROVE  Used(u) <= CountIn(cell, v, u) /\ (rate.strategy = "quota_with_rollover" => CountedByQuota(u))
  <2>1. Used(t) = Used(u) /\ Before(t) = Before(u) /\ Allowance(t) = Allowance(u)
    BY <1>2, <1>3, <1>4, <1>8, <1>9, <1>12, WindowsOfTimes
  <2>2. Used(u) <= CountIn(cell, v, u)
    BY <1>10, <1>11, <1>12, <2>1
  <2>3. ASSUME rate.strategy = "quota_with_rollover" PROVE CountedByQuota(u)
    <3>1. CountedByQuota(t)
      BY <1>11, <2>3
    <3> QED
      BY <1>8, <1>9, <1>10, <1>12, <2>1, <3>1 DEF CountedByQuota
  <2> QED
    BY <2>2, <2>3
<1>13. ASSUME v # w
       PROVE  Used(u) <= CountIn(cell, v, u) /\ (rate.strategy = "quota_with_rollover" => CountedByQuota(u))
  <2>1. WindowStart(rate, u) = WindowStart(rate, t) + rate.period
    <3>1. t \in Nat /\ u \in Nat /\ t <= u /\ u = t + 1 /\ Window(rate, t) # Window(rate, u) /\ RateOK(rate)
      BY <1>3, <1>4, <1>8, <1>9, <1>13
    <3> QED
      BY <3>1, WindowsApart
  <2>2. t < WindowStart(rate, t) + rate.period
    BY <1>3, WindowNumbers
  <2>3. Used(u) = 0
    BY <1>1, <1>2, <2>1, <2>2, NothingUsedLater
  <2>4. CountIn(cell, v, u) = 0
    BY <1>10, <1>13 DEF CountIn, AtLeast, None
  <2>5. ASSUME rate.strategy = "quota_with_rollover" PROVE CountedByQuota(u)
    <3>1. CountedByQuota(t)
      BY <1>11, <2>5
    <3>2. Used(t) = Before(u)
      <4>1. ~ FreeInstant(WindowStart(rate, t))
        BY <2>5 DEF FreeInstant, Stepwise
      <4>2. /\ WindowStart(rate, u) - rate.period = WindowStart(rate, t)
            /\ WindowStart(rate, u) - 1 = WindowStart(rate, t) + rate.period - 1
        <5>1. WindowStart(rate, t) \in Int /\ rate.period \in Int
          BY <1>3
        <5> QED
          BY <2>1, <5>1
      <4> QED
        BY <4>1, <4>2 DEF Used, Before
    <3>3. Stored(cell, <<"count", w>>, u) = None \/ Stored(cell, <<"count", w>>, u) = Used(t)
      <4>1. Used(t) = CountIn(cell, w, t) /\ CountsPositive(cell)
        BY <1>8, <3>1 DEF CountedByQuota
      <4>2. Stored(cell, <<"count", w>>, t) = None \/ Stored(cell, <<"count", w>>, t) \in Nat
        BY <4>1 DEF CountsPositive, Stored
      <4>3. Stored(cell, <<"count", w>>, t) = None \/ Stored(cell, <<"count", w>>, t) = CountIn(cell, w, t)
        BY <4>2 DEF CountIn, AtLeast
      <4> QED
        BY <1>10, <4>1, <4>3
    <3>4. v - 1 = w
      BY <1>10, <1>13
    <3>5. Stored(cell, <<"rollover", v>>, u) = None
      BY <1>10, <1>13
    <3>6. CountsPositive(cell)
      BY <3>1 DEF CountedByQuota
    <3> QED
      BY <1>9, <2>3, <2>4, <3>2, <3>3, <3>4, <3>5, <3>6 DEF CountedByQuota
  <2> QED
    BY <2>3, <2>4, <2>5
<1>14. Used(u) <= CountIn(cell, v, u) /\ (rate.strategy = "quota_with_rollover" => CountedByQuota(u))
  BY <1>12, <1>13
<1>15. CountedByOne(u)'
  BY <1>5 DEF CountedByOne
<1>16. (rate.strategy = "quota_with_rollover" => CountedByQuota(u))'
  BY <1>2, <1>6, <1>14 DEF CountedByQuota
<1>17. Dated(rate', cell', u) /\ Used(u)' <= CountIn(cell', Window(rate', u), u)
  BY <1>2, <1>6, <1>9, <1>10, <1>14
<1> QED
  BY <1>7, <1>15, <1>16, <1>17 DEF KeptAt

\* Before the first request nothing is stored and nothing admitted.
LEMMA KeptInit == Init => Kept
<1> SUFFICES ASSUME Init, Keeping, NEW t \in Nat, t = clock PROVE KeptAt(t)
  BY DEF Kept
<1>1. Inductive
  BY InductiveInit
<1>2. cell = <<>> /\ clock = 0 /\ \A q \in Requests : hit[q].pc = "idle"
  BY DEF Init, EmptyCell, Keeping
<1>3. \A q \in Requests : ~ Admitted(q) /\ ~ Counting(q)
  BY <1>2 DEF Admitted, Counting
<1>4. Decisions = {}
  BY <1>3 DEF Decisions
<1>5. Used(t) = 0
  <2>1. PICK s : s = WindowStart(rate, t)
    OBVIOUS
  <2>2. PICK first : first = IF FreeInstant(s) THEN s + 1 ELSE s
    OBVIOUS
  <2>3. PICK last : last = s + rate.period - 1
    OBVIOUS
  <2>4. s \in Nat /\ rate.period \in Nat /\ hit \in [Requests -> Hits]
    BY <1>1, <2>1, KeptTypes
  <2>5. first \in Int /\ last \in Int
    BY <2>2, <2>3, <2>4
  <2>6. AdmittedCost(first, last) \in Nat /\ Since(first) = 0 /\ AdmittedCost(first, last) <= Since(first)
    BY <1>3, <2>4, <2>5, SumsOrdered
  <2> QED
    BY <2>1, <2>2, <2>3, <2>6 DEF Used
<1>6. \A key : Stored(cell, key, t) = None
  BY <1>2 DEF Stored
<1>7. Dated(rate, cell, t) /\ CountsPositive(cell)
  BY <1>2 DEF Dated, CountsPositive
<1>8. CountIn(cell, Window(rate, t), t) = 0
  BY <1>6 DEF CountIn, AtLeast, None
<1>9. CountedByOne(t) /\ CountedByQuota(t)
  BY <1>3, <1>5, <1>6, <1>7, <1>8 DEF CountedByOne, CountedByQuota
<1> QED
  BY <1>4, <1>5, <1>7, <1>8, <1>9 DEF KeptAt

\* A request that comes, one that takes the counter's lock and one that reads the
\* window before keep it.
LEMMA KeptQuiet ==
  ASSUME Inductive, Kept, NEW q \in Requests, Begin(q) \/ Lock(q) \/ ReadPrevious(q)
  PROVE  Kept'
<1>1. /\ scenario' = scenario /\ clock' = clock /\ cell' = cell /\ rate' = rate
      /\ hit \in [Requests -> Hits]
  BY DEF Begin, Lock, ReadPrevious, rate, Inductive, Shapes
<1>2. /\ hit[q].pc # "admitted" /\ hit'[q].pc # "admitted"
      /\ \A p \in Requests : p # q => hit'[p] = hit[p]
      /\ Counting(q)' /\ "count" \notin hit'[q].todo =>
           /\ Counting(q) /\ "count" \notin hit[q].todo
           /\ hit'[q].count = hit[q].count /\ hit'[q].cost = hit[q].cost
  <2>1. CASE Begin(q)
    BY <1>1, <2>1 DEF Begin, Counting
  <2>2. CASE Lock(q)
    BY <1>1, <2>2 DEF Lock, Counting, Pending
  <2>3. CASE ReadPrevious(q)
    <3>1. Counting(q) /\ hit[q].pc = "counting"
      BY <2>3 DEF ReadPrevious, Counting
    <3>2. hit[q] \in [pc : {"counting"}, now : Nat, cost : Costs, count : Int, previous : Int,
                      todo : SUBSET {"count", "read", "refresh"}]
      BY <3>1, CountingFacts
    <3>3. PICK next \in SUBSET {"refresh"} :
            hit' = [hit EXCEPT ![q].todo = (@ \ {"read"}) \cup next,
                               ![q].previous = Stored(cell, <<"count", Mine(q) - 1>>, clock)]
      BY <2>3 DEF ReadPrevious
    <3>4. /\ hit'[q].pc = "counting" /\ hit'[q].count = hit[q].count /\ hit'[q].cost = hit[q].cost
          /\ hit'[q].todo = (hit[q].todo \ {"read"}) \cup next
          /\ \A p \in Requests : p # q => hit'[p] = hit[p]
      BY <1>1, <3>1, <3>2, <3>3
    <3> QED
      BY <3>1, <3>4
  <2> QED
    BY <2>1, <2>2, <2>3
<1>3. \A p \in Requests : (hit'[p].pc = "admitted" <=> hit[p].pc = "admitted")
                          /\ (hit[p].pc = "admitted" => hit'[p] = hit[p])
  BY <1>2
<1>4. \A p \in Requests : Counting(p)' /\ "count" \notin hit'[p].todo =>
           /\ Counting(p) /\ "count" \notin hit[p].todo
           /\ hit'[p].count = hit[p].count /\ hit'[p].cost = hit[p].cost
  BY <1>2 DEF Counting
<1> QED
  BY <1>1, <1>3, <1>4, KeptOther

\* Every step keeps the invariant.
LEMMA KeptNext == Inductive /\ Kept /\ [Next]_vars => Kept'
<1> SUFFICES ASSUME Inductive, Kept, [Next]_vars PROVE Kept'
  OBVIOUS
<1>1. ASSUME NEW q \in Requests, Begin(q) \/ Lock(q) \/ ReadPrevious(q) PROVE Kept'
  BY <1>1, KeptQuiet
<1>2. ASSUME NEW q \in Requests, Decide(q) PROVE Kept'
  BY <1>2, KeptDecide
<1>3. ASSUME NEW q \in Requests, Count(q) PROVE Kept'
  BY <1>3, KeptCount
<1>4. ASSUME NEW q \in Requests, Refresh(q) PROVE Kept'
  BY <1>4, KeptRefresh
<1>5. ASSUME NEW q \in Requests, Weigh(q) PROVE Kept'
  BY <1>5, KeptWeigh
<1>6. ASSUME Tick PROVE Kept'
  BY <1>6, KeptTick
<1>7. ASSUME UNCHANGED vars PROVE Kept'
  <2>1. /\ rate' = rate /\ scenario' = scenario /\ clock' = clock /\ cell' = cell /\ hit' = hit
    BY <1>7 DEF vars, rate
  <2>2. \A p \in Requests : Counting(p)' => Counting(p)
    BY <2>1 DEF Counting
  <2> QED
    BY <2>1, <2>2, KeptOther
<1> QED
  BY <1>1, <1>2, <1>3, <1>4, <1>5, <1>6, <1>7 DEF Next

\* The two invariants imply the bound of the aligned windows.
LEMMA AlignedBound == Inductive /\ Tallied /\ Kept => AlignedWindowBound
<1> SUFFICES ASSUME Inductive, Tallied, Kept, scenario.delay = 0,
                    rate.strategy \in Windowed \cup {"fixed_window"},
                    rate.strategy = "fixed_window" => rate.period < Second,
                    NEW at \in Decisions
             PROVE  Used(at) <= Allowance(at)
  BY DEF AlignedWindowBound, Used
<1>1. CASE rate.strategy \in Windowed
  <2>1. Keeping /\ clock \in Nat
    BY <1>1, KeptTypes DEF Keeping
  <2> QED
    BY <2>1 DEF Kept, KeptAt
<1>2. CASE rate.strategy = "fixed_window"
  <2>1. at \in Nat
    BY DecisionTimes
  <2>2. RateOK(rate) /\ rate.period \in Nat \ {0} /\ rate.period < Second /\ Second \in Nat
    BY <1>2, RateIsOK, SecondAssumption DEF Inductive, Shapes
  <2>3. Windowing
    <3>1. Seconds(rate.period) = 0
      BY <2>2 DEF Seconds
    <3>2. FixedWindowTTL(rate) = 2 * Second
      BY <3>1 DEF FixedWindowTTL, AtLeast
    <3> QED
      BY <1>2, <2>2, <3>2 DEF Windowing
  <2>4. PICK s : s = WindowStart(rate, at)
    OBVIOUS
  <2>5. PICK e : e = s + rate.period - 1
    OBVIOUS
  <2>6. s \in Nat /\ e \in Int /\ e < s + rate.period /\ Aligned(s)
    BY <2>1, <2>2, <2>4, <2>5, WindowEnds DEF Aligned
  <2>7. AdmittedCost(s, e) <= rate.limit
    BY <2>2, <2>3, <2>6 DEF Tallied
  <2>8. Used(at) = AdmittedCost(s, e) /\ Allowance(at) = rate.limit
    BY <1>2, <2>4, <2>5 DEF Used, FreeInstant, Stepwise, Allowance
  <2> QED
    BY <2>7, <2>8
<1> QED
  BY <1>1, <1>2

\* No aligned window admits more than its limit, and what the window before left
\* unused where it rolls over, if no request waits for the lock.
THEOREM AlignedWindows == Spec => []AlignedWindowBound
<1>1. Init => Inductive /\ Tallied /\ Kept
  BY InductiveInit, TalliedInit, KeptInit
<1>2. Inductive /\ Tallied /\ Kept /\ [Next]_vars => (Inductive /\ Tallied /\ Kept)'
  BY InductiveNext, TalliedNext, KeptNext
<1>3. Inductive /\ Tallied /\ Kept => AlignedWindowBound
  BY AlignedBound
<1> QED
  BY <1>1, <1>2, <1>3, PTL DEF Spec

=============================================================================
