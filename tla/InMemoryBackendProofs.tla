---------------------- MODULE InMemoryBackendProofs -----------------------
(***************************************************************************)
(* Proofs about InMemoryBackend, for any finite set of keys, any tasks, TTLs*)
(* and bounds: its index, the map it promises, its types, the life cycle and*)
(* the nesting of contexts.                                                *)
(*                                                                         *)
(* IndexMatchesShard is not inductive as it stands: that _index_remove moves*)
(* the last key to the place of the one removed, and only that one, needs the*)
(* shard, the list and the positions to be of their types (Indexed).  The  *)
(* refinement needs besides that no entry outlives now + TTL: an increment *)
(* keeps the expiry it finds, and the map allows no later one.             *)
(***************************************************************************)
EXTENDS InMemoryBackend, TLAPS, FiniteSetTheorems, SequenceTheorems, WellFoundedInduction

USE BackendAssumption

----------------------------------------------------------------------------
(* Numbers and lists. *)

\* A set of natural numbers that is not empty has a least one.
LEMMA LeastNumber ==
  ASSUME NEW T \in SUBSET Nat, T # {}
  PROVE  \E n \in T : \A m \in T : n <= m
<1> DEFINE R == OpToRel(<, Nat)
<1>1. \E n \in T : \A m \in T : ~ (<<m, n>> \in R)
  <2>1. IsWellFoundedOn(R, Nat)
    BY NatLessThanWellFounded
  <2> HIDE DEF R
  <2> QED
    BY <2>1, WFMin
<1>2. \A m, n \in Nat : <<m, n>> \in R <=> m < n
  BY DEF OpToRel
<1> HIDE DEF R
<1>3. PICK n \in T : \A m \in T : ~ (<<m, n>> \in R)
  BY <1>1
<1>4. \A m \in T : ~ (m < n)
  BY <1>2, <1>3
<1> QED
  BY <1>4

\* The largest of some of the first n numbers is one of them.
LEMMA LargestNumber ==
  ASSUME NEW n \in Nat, NEW S \in SUBSET (1 .. n), S # {}
  PROVE  Max(S) \in S /\ \A m \in S : Max(S) >= m
<1> DEFINE T == {n - m : m \in S}
<1>1. /\ T \in SUBSET Nat /\ T # {}
      /\ \A k \in S : k \in Nat /\ n - k \in T
  <2>1. \A k \in S : k \in Nat /\ n - k \in Nat
    OBVIOUS
  <2> QED
    BY <2>1
<1>2. PICK t \in T : \A u \in T : t <= u
  <2> HIDE DEF T
  <2> QED
    BY <1>1, LeastNumber
<1>3. PICK m \in S : t = n - m
  OBVIOUS
<1>4. \A k \in S : m >= k
  <2> HIDE DEF T
  <2> QED
    BY <1>1, <1>2, <1>3
<1> QED
  BY <1>4 DEF Max

\* The set of the first n numbers.
LEMMA FirstNumbers ==
  ASSUME NEW n \in Nat
  PROVE  /\ 1 .. 0 = {}
         /\ Max(1 .. n + 1) = n + 1
         /\ (1 .. n + 1) \ {n + 1} = 1 .. n
<1> DEFINE S == 1 .. n + 1
<1>1. n + 1 \in Nat /\ S \in SUBSET (1 .. n + 1) /\ S # {} /\ n + 1 \in S
  OBVIOUS
<1> HIDE DEF S
<1>2. Max(S) \in S /\ Max(S) >= n + 1
  BY <1>1, LargestNumber
<1> USE DEF S
<1> QED
  BY <1>2

\* A finite set is listed without repetition.
LEMMA SetListed ==
  ASSUME NEW S, IsFiniteSet(S)
  PROVE  /\ SetToSeq(S) \in Seq(S)
         /\ \A x \in S : \E i \in DOMAIN SetToSeq(S) : SetToSeq(S)[i] = x
         /\ \A i, j \in DOMAIN SetToSeq(S) : SetToSeq(S)[i] = SetToSeq(S)[j] => i = j
         /\ Len(SetToSeq(S)) = Cardinality(S)
<1>1. Cardinality(S) \in Nat /\ ExistsBijection(1 .. Cardinality(S), S)
  BY FS_CardinalityType
<1>2. PICK f \in Bijection(1 .. Cardinality(S), S) : TRUE
  BY <1>1 DEF ExistsBijection
<1>3. f \in [1 .. Cardinality(S) -> S] /\ IsInjective(f)
  BY <1>2 DEF Bijection, Injection, IsInjective
<1> DEFINE s == SetToSeq(S)
<1>4. s \in [1 .. Cardinality(S) -> S] /\ IsInjective(s)
  BY <1>3 DEF SetToSeq
<1> HIDE DEF s
<1>5. s \in Seq(S) /\ Len(s) = Cardinality(S) /\ DOMAIN s = 1 .. Cardinality(S)
  BY <1>1, <1>4
<1>6. s \in Injection(1 .. Cardinality(S), S)
  BY <1>4 DEF Injection, IsInjective
<1>7. \A x \in S : \E i \in 1 .. Cardinality(S) : s[i] = x
  <2>1. s \in Surjection(1 .. Cardinality(S), S)
    <3>1. IsFiniteSet(1 .. Cardinality(S)) /\ Cardinality(1 .. Cardinality(S)) = Cardinality(S)
      BY <1>1, FS_Interval
    <3> QED
      BY <1>6, <3>1, FS_Injection
  <2> QED
    BY <2>1 DEF Surjection
<1>8. \A i, j \in DOMAIN s : s[i] = s[j] => i = j
  BY <1>4 DEF IsInjective
<1> QED
  BY <1>5, <1>7, <1>8 DEF s

----------------------------------------------------------------------------
(* The index, one key after the other. *)

\* What an entry may hold, whatever the bound on counters.
Stored == [value : Int \cup {Text}, exp : Nat \cup {Forever}]

\* The shard and its index, in order.
Indexed(d) ==
  /\ d \in [shard : [Keys -> Stored \cup {Gone}], list : Seq(Keys), pos : [Keys -> Nat]]
  /\ \A k \in Keys :
       IF d.shard[k] = Gone THEN d.pos[k] = 0
       ELSE d.pos[k] \in 1 .. Len(d.list) /\ d.list[d.pos[k]] = k
  /\ \A i \in 1 .. Len(d.list) : d.pos[d.list[i]] = i

\* No entry is the sign for none.
LEMMA EntriesAreNotGone ==
  \A e \in Stored : e # Gone
<1>1. \A e \in Stored : e \in [value : Int \cup {Text}, exp : Int \cup {Forever}]
  BY DEF Stored
<1> QED
  BY <1>1

\* Each part of such a record may be replaced.
LEMMA Replaced ==
  ASSUME NEW d, NEW X, NEW Y, NEW Z, d \in [shard : X, list : Y, pos : Z], NEW a, NEW b, NEW c
  PROVE  [d EXCEPT !.shard = a, !.list = b, !.pos = c] = [shard |-> a, list |-> b, pos |-> c]
<1> DEFINE f == [d EXCEPT !.shard = a, !.list = b, !.pos = c]
<1>1. f.shard = a /\ f.list = b /\ f.pos = c
  OBVIOUS
<1>2. f \in [shard : {a}, list : {b}, pos : {c}]
  OBVIOUS
<1> HIDE DEF f
<1>3. f = [shard |-> f.shard, list |-> f.list, pos |-> f.pos]
  BY <1>2
<1> QED
  BY <1>1, <1>3 DEF f

\* A key that is inserted is indexed.
LEMMA InsertedIndexed ==
  ASSUME NEW d, Indexed(d), NEW k \in Keys, NEW e \in Stored
  PROVE  Indexed(Inserted(d, k, e)) /\ Inserted(d, k, e).shard = [d.shard EXCEPT ![k] = e]
<1>1. e # Gone
  BY EntriesAreNotGone
<1>2. CASE d.shard[k] # Gone
  <2>1. Inserted(d, k, e) = [d EXCEPT !.shard[k] = e]
    BY <1>2 DEF Inserted
  <2>2. d = [shard |-> d.shard, list |-> d.list, pos |-> d.pos] /\ d.shard \in [Keys -> Stored \cup {Gone}] /\ d.list \in Seq(Keys) /\ d.pos \in [Keys -> Nat]
    BY DEF Indexed
  <2> DEFINE f == Inserted(d, k, e)
  <2>3. f = [shard |-> [d.shard EXCEPT ![k] = e], list |-> d.list, pos |-> d.pos]
    BY <2>1, <2>2
  <2> HIDE DEF f
  <2>4. f \in [shard : [Keys -> Stored \cup {Gone}], list : Seq(Keys), pos : [Keys -> Nat]]
    BY <2>2, <2>3
  <2>5. f.list = d.list /\ f.pos = d.pos /\ f.shard = [d.shard EXCEPT ![k] = e]
    BY <2>3
  <2>6. \A j \in Keys : f.shard[j] = Gone <=> d.shard[j] = Gone
    BY <1>1, <1>2, <2>2, <2>5
  <2> QED
    BY <2>4, <2>5, <2>6 DEF Indexed, f
<1>3. CASE d.shard[k] = Gone
  <2> DEFINE l == Append(d.list, k)
             n == Len(d.list) + 1
             f == Inserted(d, k, e)
  <2>1. f.shard = [d.shard EXCEPT ![k] = e] /\ f.pos = [d.pos EXCEPT ![k] = n] /\ f.list = l
    BY <1>3 DEF Inserted, Indexed
  <2>2. f = [shard |-> f.shard, list |-> f.list, pos |-> f.pos]
    <3>1. d = [shard |-> d.shard, list |-> d.list, pos |-> d.pos]
      BY DEF Indexed
    <3>2. f = [shard |-> [d.shard EXCEPT ![k] = e], list |-> l, pos |-> [d.pos EXCEPT ![k] = n]]
      BY <1>3, <3>1 DEF Inserted
    <3> HIDE DEF f, l, n
    <3> QED
      BY <3>2
  <2>3. d.list \in Seq(Keys) /\ Len(d.list) \in Nat /\ n \in Nat \ {0} /\ d.shard \in [Keys -> Stored \cup {Gone}] /\ d.pos \in [Keys -> Nat]
    BY DEF Indexed
  <2>4. l \in Seq(Keys) /\ Len(l) = n /\ l[n] = k /\ \A i \in 1 .. n - 1 : l[i] = d.list[i]
    BY <2>3, AppendProperties
  <2>5. \A i \in 1 .. n - 1 : d.list[i] # k /\ d.list[i] \in Keys
    BY <1>3, <2>3 DEF Indexed
  <2> HIDE DEF f, l, n
  <2>6. f \in [shard : [Keys -> Stored \cup {Gone}], list : Seq(Keys), pos : [Keys -> Nat]]
    <3>1. f.shard \in [Keys -> Stored \cup {Gone}] /\ f.list \in Seq(Keys) /\ f.pos \in [Keys -> Nat]
      BY <2>1, <2>3, <2>4
    <3> QED
      BY <2>2, <3>1
  <2>7. \A j \in Keys : IF f.shard[j] = Gone THEN f.pos[j] = 0 ELSE f.pos[j] \in 1 .. Len(f.list) /\ f.list[f.pos[j]] = j
    <3> TAKE j \in Keys
    <3>1. CASE j = k
      BY <1>1, <2>1, <2>3, <2>4, <3>1
    <3>2. CASE j # k
      <4>1. f.shard[j] = d.shard[j] /\ f.pos[j] = d.pos[j]
        BY <2>1, <2>3, <3>2
      <4>2. IF d.shard[j] = Gone THEN d.pos[j] = 0 ELSE d.pos[j] \in 1 .. n - 1 /\ d.list[d.pos[j]] = j
        BY <2>3 DEF Indexed, n
      <4>3. \A i \in 1 .. n - 1 : i \in 1 .. Len(f.list) /\ f.list[i] = d.list[i]
        BY <2>1, <2>3, <2>4
      <4> QED
        BY <4>1, <4>2, <4>3
    <3> QED
      BY <3>1, <3>2
  <2>8. \A i \in 1 .. Len(f.list) : f.pos[f.list[i]] = i
    <3> TAKE i \in 1 .. Len(f.list)
    <3>1. CASE i = n
      BY <2>1, <2>3, <2>4, <3>1
    <3>2. CASE i # n
      <4>1. i \in 1 .. n - 1
        BY <2>1, <2>3, <2>4, <3>2
      <4>2. d.pos[d.list[i]] = i
        BY <4>1, <2>3 DEF Indexed, n
      <4> QED
        BY <2>1, <2>3, <2>4, <2>5, <4>1, <4>2
    <3> QED
      BY <3>1, <3>2
  <2> QED
    BY <2>1, <2>6, <2>7, <2>8 DEF Indexed, f
<1> QED
  BY <1>2, <1>3

\* The last key of the list takes the place of one that is removed, and its
\* position goes with it.
LEMMA RemovedIndexed ==
  ASSUME NEW d, Indexed(d), NEW k \in Keys, d.shard[k] # Gone
  PROVE  Indexed(Removed(d, k)) /\ Removed(d, k).shard = [d.shard EXCEPT ![k] = Gone]
<1> DEFINE n == Len(d.list)
           p == d.pos[k]
           moved == d.list[n]
           l == [d.list EXCEPT ![p] = moved]
           f == Removed(d, k)
<1>1. d.list \in Seq(Keys) /\ n \in Nat /\ d.shard \in [Keys -> Stored \cup {Gone}] /\ d.pos \in [Keys -> Nat]
  BY DEF Indexed
<1>2. p \in 1 .. n /\ d.list[p] = k /\ n \in 1 .. n
  BY DEF Indexed
<1>3. moved \in Keys /\ d.pos[moved] = n
  BY <1>1, <1>2 DEF Indexed
<1>4. /\ f.shard = [d.shard EXCEPT ![k] = Gone]
      /\ f.list = SubSeq(l, 1, Len(l) - 1)
      /\ f.pos = [d.pos EXCEPT ![moved] = p, ![k] = 0]
  BY DEF Removed, Indexed, Last, Front
<1>5. f = [shard |-> f.shard, list |-> f.list, pos |-> f.pos]
  <2> DEFINE a == [d.shard EXCEPT ![k] = Gone]
             b == SubSeq(l, 1, Len(l) - 1)
             c == [d.pos EXCEPT ![moved] = p, ![k] = 0]
  <2>1. f = [d EXCEPT !.shard = a, !.list = b, !.pos = c]
    BY DEF Removed, Last, Front
  <2> HIDE DEF f, l, p, moved, n, a, b, c
  <2>2. d \in [shard : [Keys -> Stored \cup {Gone}], list : Seq(Keys), pos : [Keys -> Nat]]
    BY DEF Indexed
  <2>3. f = [shard |-> a, list |-> b, pos |-> c]
    BY <2>1, <2>2, Replaced
  <2> QED
    BY <2>3
<1>6. l \in Seq(Keys) /\ Len(l) = n /\ \A i \in 1 .. n : l[i] = IF i = p THEN moved ELSE d.list[i]
  <2> HIDE DEF p, moved
  <2> QED
    BY <1>1, <1>2, <1>3, ExceptSeq
<1>7. f.list \in Seq(Keys) /\ Len(f.list) = n - 1 /\ \A i \in 1 .. n - 1 : f.list[i] = IF i = p THEN moved ELSE d.list[i]
  <2>1. \A i \in 1 .. n - 1 : l[i] \in Keys
    BY <1>1, <1>6
  <2>2. n - 1 \in Int /\ 1 \in Int /\ (n - 1) - 1 + 1 = n - 1
    BY <1>1
  <2> HIDE DEF l, p, moved, n
  <2>3. SubSeq(l, 1, n - 1) \in Seq(Keys) /\ Len(SubSeq(l, 1, n - 1)) = IF 1 <= n - 1 THEN (n - 1) - 1 + 1 ELSE 0
    BY <2>1, <2>2, SubSeqProperties
  <2>4. \A i \in 1 .. (n - 1) - 1 + 1 : SubSeq(l, 1, n - 1)[i] = l[1 + i - 1]
    BY <2>1, <2>2, SubSeqProperties
  <2> QED
    BY <1>1, <1>2, <1>4, <1>6, <2>3, <2>4, SMTT(30)
<1> HIDE DEF f, l, p, moved, n
<1>8. f \in [shard : [Keys -> Stored \cup {Gone}], list : Seq(Keys), pos : [Keys -> Nat]]
  <2>1. p \in Nat
    BY <1>2
  <2>2. f.shard \in [Keys -> Stored \cup {Gone}]
    BY <1>1, <1>4
  <2>3. f.pos \in [Keys -> Nat]
    <3>1. [d.pos EXCEPT ![moved] = p] \in [Keys -> Nat]
      BY <1>1, <2>1
    <3> QED
      BY <1>4, <3>1
  <2> QED
    BY <1>5, <1>7, <2>2, <2>3
<1>9. \A j \in Keys : IF d.shard[j] = Gone THEN d.pos[j] = 0 ELSE d.pos[j] \in 1 .. n /\ d.list[d.pos[j]] = j
  BY DEF Indexed, n
<1>10. \A i \in 1 .. n : d.list[i] \in Keys /\ d.pos[d.list[i]] = i
  BY <1>1 DEF Indexed, n
<1>11. \A j \in Keys : IF f.shard[j] = Gone THEN f.pos[j] = 0 ELSE f.pos[j] \in 1 .. Len(f.list) /\ f.list[f.pos[j]] = j
  <2> TAKE j \in Keys
  <2>1. CASE j = k
    BY <1>1, <1>4, <2>1
  <2>2. CASE j # k /\ j = moved
    <3>1. f.pos[j] = p /\ f.shard[j] = d.shard[j]
      BY <1>1, <1>4, <2>2
    <3>2. p # n
      BY <1>2, <2>2 DEF moved
    <3>3. p \in 1 .. n - 1 /\ f.list[p] = j
      BY <1>1, <1>2, <1>7, <2>2, <3>2, SMTT(30)
    <3>4. d.shard[j] # Gone
      BY <1>1, <1>2, <1>3, <1>9, <2>2
    <3> QED
      BY <1>7, <3>1, <3>3, <3>4
  <2>3. CASE j # k /\ j # moved
    <3>1. f.pos[j] = d.pos[j] /\ f.shard[j] = d.shard[j]
      BY <1>1, <1>4, <2>3
    <3>2. CASE d.shard[j] # Gone
      <4>1. d.pos[j] \in 1 .. n /\ d.list[d.pos[j]] = j
        BY <1>9, <3>2
      <4>2. d.pos[j] # n /\ d.pos[j] # p
        BY <1>2, <2>3, <4>1 DEF moved
      <4> QED
        BY <1>1, <1>7, <3>1, <3>2, <4>1, <4>2, SMTT(30)
    <3> QED
      BY <1>9, <3>1, <3>2
  <2> QED
    BY <2>1, <2>2, <2>3
<1>12. \A i \in 1 .. Len(f.list) : f.pos[f.list[i]] = i
  <2> TAKE i \in 1 .. Len(f.list)
  <2>1. i \in 1 .. n - 1 /\ i \in 1 .. n /\ i # n
    BY <1>1, <1>7
  <2>2. CASE i = p
    <3>1. f.list[i] = moved
      BY <1>7, <2>1, <2>2
    <3>2. moved # k
      BY <1>2, <1>3, <2>1, <2>2 DEF p
    <3> QED
      BY <1>1, <1>3, <1>4, <2>2, <3>1, <3>2
  <2>3. CASE i # p
    <3>1. f.list[i] = d.list[i] /\ d.list[i] \in Keys /\ d.pos[d.list[i]] = i
      BY <1>7, <1>10, <2>1, <2>3
    <3>2. d.list[i] # k /\ d.list[i] # moved
      BY <1>3, <2>1, <2>3, <3>1 DEF p
    <3> QED
      BY <1>1, <1>4, <3>1, <3>2
  <2> QED
    BY <2>2, <2>3
<1> QED
  BY <1>4, <1>8, <1>11, <1>12 DEF Indexed, f

----------------------------------------------------------------------------
(* Several keys are removed, or inserted, one after the other.  FoldLeft recurses
   over sets of positions in the list of keys; the first positions are such sets. *)

\* g is the function by which FoldLeft removes the keys of the list s from d.
Removals(d, s, g) ==
  g = [S \in SUBSET DOMAIN s |->
         IF S = {} THEN d ELSE LET i == Max(S) IN Removed(g[S \ {i}], s[i])]

\* g is the function by which FoldLeft inserts the keys of the list s into d.
Insertions(d, s, e, g) ==
  g = [S \in SUBSET DOMAIN s |->
         IF S = {} THEN d ELSE LET i == Max(S) IN Inserted(g[S \ {i}], s[i], e)]

\* RemovedAll is that function's value for all positions.
LEMMA RemovedAllFolds ==
  ASSUME NEW d, NEW K
  PROVE  RemovedAll(d, K) = (CHOOSE g : Removals(d, SetToSeq(K), g))[DOMAIN SetToSeq(K)]
BY DEF RemovedAll, FoldLeft, MapThenFoldSet, Removals

\* The recursion is well founded: it removes an element of a finite set.
LEMMA RemovalsExist ==
  ASSUME NEW d, NEW n \in Nat, NEW s, DOMAIN s = 1 .. n
  PROVE  \E g : Removals(d, s, g)
<1> DEFINE D == SUBSET (1 .. n)
           Def(g, S) == IF S = {} THEN d ELSE LET i == Max(S) IN Removed(g[S \ {i}], s[i])
           Upto(g, k) == \A S \in D : Cardinality(S) <= k => g[S] = Def(g, S)
           Bad == {k \in Nat : ~ \E g : Upto(g, k)}
<1>1. \A S \in D : IsFiniteSet(S) /\ Cardinality(S) \in Nat /\ Cardinality(S) <= n
  <2>1. IsFiniteSet(1 .. n) /\ Cardinality(1 .. n) = n
    BY FS_Interval
  <2>2. \A S \in D : IsFiniteSet(S) /\ Cardinality(S) <= Cardinality(1 .. n)
    BY <2>1, FS_Subset
  <2> QED
    BY <2>1, <2>2, FS_CardinalityType
<1>2. \A S \in D : S # {} => Max(S) \in S /\ S \ {Max(S)} \in D /\ Cardinality(S \ {Max(S)}) = Cardinality(S) - 1
  <2>1. ASSUME NEW S \in D, S # {}
        PROVE  Max(S) \in S /\ S \ {Max(S)} \in D /\ Cardinality(S \ {Max(S)}) = Cardinality(S) - 1
    <3>1. Max(S) \in S
      BY <2>1, LargestNumber
    <3> QED
      BY <1>1, <3>1, FS_RemoveElement
  <2> QED
    BY <2>1
<1>3. 0 \notin Bad
  <2> DEFINE g == [S \in D |-> d]
  <2>1. \A S \in D : Cardinality(S) <= 0 => S = {}
    BY <1>1, FS_EmptySet
  <2>2. Upto(g, 0)
    BY <2>1
  <2> QED
    BY <2>2
<1>4. ASSUME NEW k \in Nat, NEW g, Upto(g, k)
      PROVE  \E h : Upto(h, k + 1)
  <2> DEFINE h == [S \in D |-> Def(g, S)]
  <2>1. \A S \in D : Cardinality(S) <= k => h[S] = g[S]
    BY <1>4
  <2>2. ASSUME NEW S \in D, Cardinality(S) <= k + 1, S # {}
        PROVE  h[S] = Def(h, S)
    <3> DEFINE i == Max(S)
    <3>1. S \ {i} \in D /\ Cardinality(S \ {i}) <= k
      BY <1>1, <1>2, <2>2, SMTT(30)
    <3>2. h[S \ {i}] = g[S \ {i}]
      BY <2>1, <3>1
    <3>3. h[S] = Removed(g[S \ {i}], s[i])
      BY <2>2
    <3> QED
      BY <2>2, <3>2, <3>3
  <2>3. Upto(h, k + 1)
    BY <2>2
  <2> QED
    BY <2>3
<1>5. Bad = {}
  <2> SUFFICES ASSUME Bad # {} PROVE FALSE
    OBVIOUS
  <2>1. PICK k \in Bad : \A m \in Bad : k <= m
    BY LeastNumber
  <2>2. k - 1 \in Nat /\ k - 1 \notin Bad
    <3> HIDE DEF Upto
    <3>1. k \in Nat /\ k # 0
      BY <1>3
    <3>2. k - 1 \in Nat /\ ~ (k <= k - 1)
      BY <3>1
    <3> QED
      BY <2>1, <3>2
  <2>3. PICK g : Upto(g, k - 1)
    BY <2>2
  <2>4. (k - 1) + 1 = k
    BY <2>1
  <2> HIDE DEF Upto
  <2> QED
    BY <1>4, <2>1, <2>2, <2>3, <2>4
<1>6. \E g : Upto(g, n)
  <2> HIDE DEF Upto
  <2> QED
    BY <1>5
<1> PICK g : Upto(g, n)
  BY <1>6
<1> DEFINE h == [S \in D |-> g[S]]
<1>7. \A S \in D : h[S] = Def(h, S)
  BY <1>1, <1>2
<1>8. Removals(d, s, h)
  BY <1>7 DEF Removals
<1> QED
  BY <1>8

\* So is that of Insertions.
LEMMA InsertionsExist ==
  ASSUME NEW d, NEW e, NEW n \in Nat, NEW s, DOMAIN s = 1 .. n
  PROVE  \E g : Insertions(d, s, e, g)
<1> DEFINE D == SUBSET (1 .. n)
           Def(g, S) == IF S = {} THEN d ELSE LET i == Max(S) IN Inserted(g[S \ {i}], s[i], e)
           Upto(g, k) == \A S \in D : Cardinality(S) <= k => g[S] = Def(g, S)
           Bad == {k \in Nat : ~ \E g : Upto(g, k)}
<1>1. \A S \in D : IsFiniteSet(S) /\ Cardinality(S) \in Nat /\ Cardinality(S) <= n
  <2>1. IsFiniteSet(1 .. n) /\ Cardinality(1 .. n) = n
    BY FS_Interval
  <2>2. \A S \in D : IsFiniteSet(S) /\ Cardinality(S) <= Cardinality(1 .. n)
    BY <2>1, FS_Subset
  <2> QED
    BY <2>1, <2>2, FS_CardinalityType
<1>2. \A S \in D : S # {} => Max(S) \in S /\ S \ {Max(S)} \in D /\ Cardinality(S \ {Max(S)}) = Cardinality(S) - 1
  <2>1. ASSUME NEW S \in D, S # {}
        PROVE  Max(S) \in S /\ S \ {Max(S)} \in D /\ Cardinality(S \ {Max(S)}) = Cardinality(S) - 1
    <3>1. Max(S) \in S
      BY <2>1, LargestNumber
    <3> QED
      BY <1>1, <3>1, FS_RemoveElement
  <2> QED
    BY <2>1
<1>3. 0 \notin Bad
  <2> DEFINE g == [S \in D |-> d]
  <2>1. \A S \in D : Cardinality(S) <= 0 => S = {}
    BY <1>1, FS_EmptySet
  <2>2. Upto(g, 0)
    BY <2>1
  <2> QED
    BY <2>2
<1>4. ASSUME NEW k \in Nat, NEW g, Upto(g, k)
      PROVE  \E h : Upto(h, k + 1)
  <2> DEFINE h == [S \in D |-> Def(g, S)]
  <2>1. \A S \in D : Cardinality(S) <= k => h[S] = g[S]
    BY <1>4
  <2>2. ASSUME NEW S \in D, Cardinality(S) <= k + 1, S # {}
        PROVE  h[S] = Def(h, S)
    <3> DEFINE i == Max(S)
    <3>1. S \ {i} \in D /\ Cardinality(S \ {i}) <= k
      BY <1>1, <1>2, <2>2, SMTT(30)
    <3>2. h[S \ {i}] = g[S \ {i}]
      BY <2>1, <3>1
    <3>3. h[S] = Inserted(g[S \ {i}], s[i], e)
      BY <2>2
    <3> QED
      BY <2>2, <3>2, <3>3
  <2>3. Upto(h, k + 1)
    BY <2>2
  <2> QED
    BY <2>3
<1>5. Bad = {}
  <2> SUFFICES ASSUME Bad # {} PROVE FALSE
    OBVIOUS
  <2>1. PICK k \in Bad : \A m \in Bad : k <= m
    BY LeastNumber
  <2>2. k - 1 \in Nat /\ k - 1 \notin Bad
    <3> HIDE DEF Upto
    <3>1. k \in Nat /\ k # 0
      BY <1>3
    <3>2. k - 1 \in Nat /\ ~ (k <= k - 1)
      BY <3>1
    <3> QED
      BY <2>1, <3>2
  <2>3. PICK g : Upto(g, k - 1)
    BY <2>2
  <2>4. (k - 1) + 1 = k
    BY <2>1
  <2> HIDE DEF Upto
  <2> QED
    BY <1>4, <2>1, <2>2, <2>3, <2>4
<1>6. \E g : Upto(g, n)
  <2> HIDE DEF Upto
  <2> QED
    BY <1>5
<1> PICK g : Upto(g, n)
  BY <1>6
<1> DEFINE h == [S \in D |-> g[S]]
<1>7. \A S \in D : h[S] = Def(h, S)
  BY <1>1, <1>2
<1>8. Insertions(d, s, e, h)
  BY <1>7 DEF Insertions
<1> QED
  BY <1>8

\* Removing keys that are all there leaves an index, of what is left.
LEMMA RemovedAllIndexed ==
  ASSUME NEW d, Indexed(d), NEW K \in SUBSET Keys, \A k \in K : d.shard[k] # Gone
  PROVE  /\ Indexed(RemovedAll(d, K))
         /\ RemovedAll(d, K).shard = [k \in Keys |-> IF k \in K THEN Gone ELSE d.shard[k]]
<1> DEFINE s == SetToSeq(K)
           n == Len(s)
<1>1. /\ s \in Seq(K) /\ n \in Nat /\ DOMAIN s = 1 .. n
      /\ \A i \in 1 .. n : s[i] \in K
      /\ \A k \in K : \E i \in 1 .. n : s[i] = k
      /\ \A i, j \in 1 .. n : s[i] = s[j] => i = j
  <2>1. IsFiniteSet(K)
    BY FS_Subset
  <2> QED
    BY <2>1, SetListed
<1> HIDE DEF s, n
<1> DEFINE Chosen == CHOOSE g : Removals(d, s, g)
<1>2. Removals(d, s, Chosen)
  BY <1>1, RemovalsExist
<1>3. RemovedAll(d, K) = Chosen[1 .. n]
  BY <1>1, RemovedAllFolds DEF s
<1> HIDE DEF Chosen
<1> DEFINE First(i) == {s[j] : j \in 1 .. i}
           Good(i) == /\ Indexed(Chosen[1 .. i])
                      /\ Chosen[1 .. i].shard = [k \in Keys |-> IF k \in First(i) THEN Gone ELSE d.shard[k]]
           Bad == {i \in 0 .. n : ~ Good(i)}
<1>4. Good(0)
  <2>1. 1 .. 0 = {} /\ {} \in SUBSET DOMAIN s
    BY FirstNumbers
  <2>2. Chosen[1 .. 0] = d
    BY <1>2, <2>1 DEF Removals
  <2>3. d.shard = [k \in Keys |-> d.shard[k]] /\ First(0) = {}
    BY <2>1 DEF Indexed
  <2> HIDE DEF First
  <2>4. d.shard = [k \in Keys |-> IF k \in First(0) THEN Gone ELSE d.shard[k]]
    BY <2>3
  <2> QED
    BY <2>2, <2>4
<1>5. ASSUME NEW i \in 0 .. n - 1, Good(i)
      PROVE  Good(i + 1)
  <2>1. i \in Nat /\ i + 1 \in 1 .. n /\ 1 .. i + 1 \in SUBSET DOMAIN s /\ 1 .. i + 1 # {}
    <3>1. i \in Nat /\ i + 1 \in 1 .. n
      BY <1>1
    <3>2. \A j \in 1 .. i + 1 : j \in 1 .. n
      BY <1>1
    <3>3. i + 1 \in 1 .. i + 1
      BY <3>1
    <3>4. 1 .. i + 1 \subseteq DOMAIN s
      BY <1>1, <3>2
    <3> QED
      BY <3>1, <3>3, <3>4
  <2>2. Max(1 .. i + 1) = i + 1 /\ (1 .. i + 1) \ {i + 1} = 1 .. i
    BY <2>1, FirstNumbers
  <2> DEFINE c == Chosen[1 .. i]
             k == s[i + 1]
  <2>3. Chosen[1 .. i + 1] = Removed(c, k)
    BY <1>2, <2>1, <2>2 DEF Removals
  <2>4. k \in K /\ k \in Keys /\ k \notin First(i)
    BY <1>1, <2>1
  <2>5. Indexed(c) /\ c.shard[k] # Gone
    BY <1>5, <2>4
  <2>6. First(i + 1) = First(i) \cup {k}
    BY <2>1, <2>2
  <2> HIDE DEF c, k, First
  <2>7. Indexed(Removed(c, k)) /\ Removed(c, k).shard = [c.shard EXCEPT ![k] = Gone]
    BY <2>4, <2>5, RemovedIndexed
  <2>8. c.shard = [j \in Keys |-> IF j \in First(i) THEN Gone ELSE d.shard[j]]
    BY <1>5 DEF c
  <2>9. Removed(c, k).shard = [j \in Keys |-> IF j \in First(i + 1) THEN Gone ELSE d.shard[j]]
    BY <2>4, <2>6, <2>7, <2>8
  <2> QED
    BY <2>3, <2>7, <2>9
<1>6. Bad = {}
  <2> HIDE DEF Good
  <2> SUFFICES ASSUME Bad # {} PROVE FALSE
    OBVIOUS
  <2>1. PICK i \in Bad : \A m \in Bad : i <= m
    <3>1. Bad \in SUBSET Nat
      BY <1>1
    <3> QED
      BY <3>1, LeastNumber
  <2>2. i \in 0 .. n /\ ~ Good(i) /\ i # 0
    BY <1>4
  <2>3. i - 1 \in 0 .. n - 1 /\ i - 1 \in 0 .. n /\ ~ (i <= i - 1) /\ (i - 1) + 1 = i
    BY <1>1, <2>2
  <2>4. Good(i - 1)
    BY <2>1, <2>3
  <2> QED
    BY <1>5, <2>2, <2>3, <2>4
<1>7. Good(n)
  <2> HIDE DEF Good
  <2> QED
    BY <1>1, <1>6
<1>8. First(n) = K
  BY <1>1
<1> HIDE DEF First
<1> QED
  BY <1>3, <1>7, <1>8

\* InsertedAll is the value of its function for all positions.
LEMMA InsertedAllFolds ==
  ASSUME NEW d, NEW K, NEW e
  PROVE  InsertedAll(d, K, e) = (CHOOSE g : Insertions(d, SetToSeq(K), e, g))[DOMAIN SetToSeq(K)]
BY DEF InsertedAll, FoldLeft, MapThenFoldSet, Insertions

\* Writing several keys leaves an index, with the same entry for each.
LEMMA InsertedAllIndexed ==
  ASSUME NEW d, Indexed(d), NEW K \in SUBSET Keys, NEW e \in Stored
  PROVE  /\ Indexed(InsertedAll(d, K, e))
         /\ InsertedAll(d, K, e).shard = [k \in Keys |-> IF k \in K THEN e ELSE d.shard[k]]
<1> DEFINE s == SetToSeq(K)
           n == Len(s)
<1>1. /\ s \in Seq(K) /\ n \in Nat /\ DOMAIN s = 1 .. n
      /\ \A i \in 1 .. n : s[i] \in K
      /\ \A k \in K : \E i \in 1 .. n : s[i] = k
      /\ \A i, j \in 1 .. n : s[i] = s[j] => i = j
  <2>1. IsFiniteSet(K)
    BY FS_Subset
  <2> QED
    BY <2>1, SetListed
<1> HIDE DEF s, n
<1> DEFINE Chosen == CHOOSE g : Insertions(d, s, e, g)
<1>2. Insertions(d, s, e, Chosen)
  BY <1>1, InsertionsExist
<1>3. InsertedAll(d, K, e) = Chosen[1 .. n]
  BY <1>1, InsertedAllFolds DEF s
<1> HIDE DEF Chosen
<1> DEFINE First(i) == {s[j] : j \in 1 .. i}
           Good(i) == /\ Indexed(Chosen[1 .. i])
                      /\ Chosen[1 .. i].shard = [k \in Keys |-> IF k \in First(i) THEN e ELSE d.shard[k]]
           Bad == {i \in 0 .. n : ~ Good(i)}
<1>4. Good(0)
  <2>1. 1 .. 0 = {} /\ {} \in SUBSET DOMAIN s
    BY FirstNumbers
  <2>2. Chosen[1 .. 0] = d
    BY <1>2, <2>1 DEF Insertions
  <2>3. d.shard = [k \in Keys |-> d.shard[k]] /\ First(0) = {}
    BY <2>1 DEF Indexed
  <2> HIDE DEF First
  <2>4. d.shard = [k \in Keys |-> IF k \in First(0) THEN e ELSE d.shard[k]]
    BY <2>3
  <2> QED
    BY <2>2, <2>4
<1>5. ASSUME NEW i \in 0 .. n - 1, Good(i)
      PROVE  Good(i + 1)
  <2>1. i \in Nat /\ i + 1 \in 1 .. n /\ 1 .. i + 1 \in SUBSET DOMAIN s /\ 1 .. i + 1 # {}
    <3>1. i \in Nat /\ i + 1 \in 1 .. n
      BY <1>1
    <3>2. \A j \in 1 .. i + 1 : j \in 1 .. n
      BY <1>1
    <3>3. i + 1 \in 1 .. i + 1
      BY <3>1
    <3>4. 1 .. i + 1 \subseteq DOMAIN s
      BY <1>1, <3>2
    <3> QED
      BY <3>1, <3>3, <3>4
  <2>2. Max(1 .. i + 1) = i + 1 /\ (1 .. i + 1) \ {i + 1} = 1 .. i
    BY <2>1, FirstNumbers
  <2> DEFINE c == Chosen[1 .. i]
             k == s[i + 1]
  <2>3. Chosen[1 .. i + 1] = Inserted(c, k, e)
    BY <1>2, <2>1, <2>2 DEF Insertions
  <2>4. k \in K /\ k \in Keys /\ k \notin First(i)
    BY <1>1, <2>1
  <2>5. Indexed(c)
    BY <1>5, <2>4
  <2>6. First(i + 1) = First(i) \cup {k}
    BY <2>1, <2>2
  <2> HIDE DEF c, k, First
  <2>7. Indexed(Inserted(c, k, e)) /\ Inserted(c, k, e).shard = [c.shard EXCEPT ![k] = e]
    BY <2>4, <2>5, InsertedIndexed
  <2>8. c.shard = [j \in Keys |-> IF j \in First(i) THEN e ELSE d.shard[j]]
    BY <1>5 DEF c
  <2>9. Inserted(c, k, e).shard = [j \in Keys |-> IF j \in First(i + 1) THEN e ELSE d.shard[j]]
    BY <2>4, <2>6, <2>7, <2>8
  <2> QED
    BY <2>3, <2>7, <2>9
<1>6. Bad = {}
  <2> HIDE DEF Good
  <2> SUFFICES ASSUME Bad # {} PROVE FALSE
    OBVIOUS
  <2>1. PICK i \in Bad : \A m \in Bad : i <= m
    <3>1. Bad \in SUBSET Nat
      BY <1>1
    <3> QED
      BY <3>1, LeastNumber
  <2>2. i \in 0 .. n /\ ~ Good(i) /\ i # 0
    BY <1>4
  <2>3. i - 1 \in 0 .. n - 1 /\ i - 1 \in 0 .. n /\ ~ (i <= i - 1) /\ (i - 1) + 1 = i
    BY <1>1, <2>2
  <2>4. Good(i - 1)
    BY <2>1, <2>3
  <2> QED
    BY <1>5, <2>2, <2>3, <2>4
<1>7. Good(n)
  <2> HIDE DEF Good
  <2> QED
    BY <1>1, <1>6
<1>8. First(n) = K
  BY <1>1
<1> HIDE DEF First
<1> QED
  BY <1>3, <1>7, <1>8

----------------------------------------------------------------------------
(* The operations. *)

\* The index follows the shard, and no entry outlives what a call can give it.
IndexInv ==
  /\ now \in Nat
  /\ Indexed(Data)
  /\ \A k \in Keys : shard[k] # Gone => shard[k].exp = Forever \/ shard[k].exp <= now + TTL

\* What Become leaves.
LEMMA BecomeIndexed ==
  ASSUME NEW d, Indexed(d), Become(d)
  PROVE  Indexed(Data') /\ shard' = d.shard
<1>1. d = [shard |-> d.shard, list |-> d.list, pos |-> d.pos]
  BY DEF Indexed
<1>2. Data' = d
  BY <1>1 DEF Become, Data
<1> QED
  BY <1>2 DEF Become

\* The three structures that Data puts together.
LEMMA DataParts == Data.shard = shard /\ Data.list = keyList /\ Data.pos = positions
BY DEF Data

\* The types of the data.
LEMMA IndexTypes ==
  ASSUME IndexInv
  PROVE  /\ shard \in [Keys -> Stored \cup {Gone}] /\ keyList \in Seq(Keys) /\ positions \in [Keys -> Nat]
         /\ \A k \in Keys : shard[k] # Gone =>
              /\ shard[k].value \in Int \cup {Text} /\ shard[k].exp \in Nat \cup {Forever}
              /\ shard[k] = Entry(shard[k].value, shard[k].exp)
BY DEF IndexInv, Indexed, Data, Stored, Entry

\* A reader finds what is in the shard, or nothing.
LEMMA VisibleStored ==
  ASSUME IndexInv, NEW k \in Keys, Visible(k) # Gone
  PROVE  Visible(k) = shard[k] /\ shard[k] # Gone /\ Lives(shard[k], now)
BY DEF Visible

\* What an operation does to the shard.

\* Evictions: what has expired goes.
LEMMA Evicts ==
  ASSUME IndexInv, NEW K \in SUBSET Keys, Become(RemovedAll(Data, Expired(K)))
  PROVE  Indexed(Data') /\ shard' = [k \in Keys |-> IF k \in Expired(K) THEN Gone ELSE shard[k]]
<1>1. Expired(K) \in SUBSET Keys /\ \A k \in Expired(K) : Data.shard[k] # Gone
  BY DEF Expired, Data
<1>2. Indexed(Data)
  BY DEF IndexInv
<1> HIDE DEF Expired
<1>3. /\ Indexed(RemovedAll(Data, Expired(K)))
      /\ RemovedAll(Data, Expired(K)).shard = [k \in Keys |-> IF k \in Expired(K) THEN Gone ELSE Data.shard[k]]
  BY <1>1, <1>2, RemovedAllIndexed
<1> QED
  BY <1>3, BecomeIndexed, DataParts

\* set and multi_set write one entry under their keys.
LEMMA SetWrites ==
  ASSUME IndexInv, NEW K \in SUBSET Keys, NEW exp \in {Forever, now + TTL}, Set(K, exp)
  PROVE  /\ Indexed(Data') /\ Entry(Text, exp) \in Stored
         /\ shard' = [k \in Keys |-> IF k \in K THEN Entry(Text, exp) ELSE shard[k]]
<1>1. Indexed(Data) /\ Entry(Text, exp) \in Stored
  BY DEF IndexInv, Entry, Stored
<1>2. /\ Indexed(InsertedAll(Data, K, Entry(Text, exp)))
      /\ InsertedAll(Data, K, Entry(Text, exp)).shard = [k \in Keys |-> IF k \in K THEN Entry(Text, exp) ELSE Data.shard[k]]
  BY <1>1, InsertedAllIndexed
<1>3. Become(InsertedAll(Data, K, Entry(Text, exp)))
  BY DEF Set
<1> QED
  BY <1>1, <1>2, <1>3, BecomeIndexed, DataParts

\* An insertion of one key.
LEMMA InsertWrites ==
  ASSUME IndexInv, NEW k \in Keys, NEW e \in Stored, Become(Inserted(Data, k, e))
  PROVE  Indexed(Data') /\ shard' = [shard EXCEPT ![k] = e]
<1>1. Indexed(Data)
  BY DEF IndexInv
<1>2. Indexed(Inserted(Data, k, e)) /\ Inserted(Data, k, e).shard = [Data.shard EXCEPT ![k] = e]
  BY <1>1, InsertedIndexed
<1> QED
  BY <1>2, BecomeIndexed, DataParts

\* delete takes the entry away.
LEMMA DeleteWrites ==
  ASSUME IndexInv, NEW k \in Keys, Delete(k)
  PROVE  Indexed(Data') /\ shard' = [shard EXCEPT ![k] = Gone]
<1>1. Indexed(Data) /\ Data.shard[k] # Gone
  BY DEF IndexInv, Delete, Data
<1>2. Indexed(Removed(Data, k)) /\ Removed(Data, k).shard = [Data.shard EXCEPT ![k] = Gone]
  BY <1>1, RemovedIndexed
<1>3. Become(Removed(Data, k))
  BY DEF Delete
<1> QED
  BY <1>2, <1>3, BecomeIndexed, DataParts

\* The entry an increment writes.
Incremented(k, amount) ==
  IF Visible(k) = Gone THEN Entry(amount, Forever)
  ELSE Entry(IF Visible(k).value = Text THEN amount ELSE Visible(k).value + amount, Visible(k).exp)

\* The entry an increment with a TTL writes.
IncrementedWithTTL(k, amount) ==
  IF Visible(k) = Gone \/ Visible(k).value = Text THEN Entry(amount, now + TTL)
  ELSE Entry(Visible(k).value + amount, IF Visible(k).exp = Forever THEN now + TTL ELSE Visible(k).exp)

\* Both are entries, and neither outlives what the call can give it.
LEMMA EntryStored ==
  ASSUME IndexInv, NEW k \in Keys, NEW amount \in Amounts
  PROVE  /\ Incremented(k, amount) \in Stored /\ IncrementedWithTTL(k, amount) \in Stored
         /\ Incremented(k, amount).exp = Forever \/ Incremented(k, amount).exp <= now + TTL
         /\ IncrementedWithTTL(k, amount).exp = Forever \/ IncrementedWithTTL(k, amount).exp <= now + TTL
<1>1. now \in Nat /\ now + TTL \in Nat /\ amount \in Int
  BY DEF IndexInv
<1>2. Visible(k) # Gone => /\ Visible(k).value \in Int \cup {Text} /\ Visible(k).exp \in Nat \cup {Forever}
                           /\ Visible(k).exp = Forever \/ Visible(k).exp <= now + TTL
  BY VisibleStored, IndexTypes DEF IndexInv
<1> QED
  BY <1>1, <1>2 DEF Incremented, IncrementedWithTTL, Stored, Entry

\* increment writes it.
LEMMA IncrementWrites ==
  ASSUME IndexInv, NEW k \in Keys, NEW amount \in Amounts, Increment(k, amount)
  PROVE  Indexed(Data') /\ shard' = [shard EXCEPT ![k] = Incremented(k, amount)]
<1>1. Become(Inserted(Data, k, Incremented(k, amount)))
  BY DEF Increment, Incremented
<1>2. Incremented(k, amount) \in Stored
  BY EntryStored
<1> HIDE DEF Incremented
<1> QED
  BY <1>1, <1>2, InsertWrites

\* increment_with_ttl writes it.
LEMMA IncrementWithTTLWrites ==
  ASSUME IndexInv, NEW k \in Keys, NEW amount \in Amounts, IncrementWithTTL(k, amount)
  PROVE  Indexed(Data') /\ shard' = [shard EXCEPT ![k] = IncrementedWithTTL(k, amount)]
<1>1. Become(Inserted(Data, k, IncrementedWithTTL(k, amount)))
  <2>1. Entry(amount, now + TTL).exp = now + TTL
    BY DEF Entry
  <2> QED
    BY <2>1 DEF IncrementWithTTL, IncrementedWithTTL
<1>2. IncrementedWithTTL(k, amount) \in Stored
  BY EntryStored
<1> QED
  BY <1>1, <1>2, InsertWrites

\* expire writes the value again, with its new expiry.
LEMMA ExpireWrites ==
  ASSUME IndexInv, NEW k \in Keys, Expire(k)
  PROVE  /\ Entry(shard[k].value, now + TTL) \in Stored
         /\ Indexed(Data') /\ shard' = [shard EXCEPT ![k] = Entry(shard[k].value, now + TTL)]
<1>1. Entry(shard[k].value, now + TTL) \in Stored
  <2>1. shard[k] # Gone /\ now \in Nat
    BY DEF Expire, IndexInv
  <2> QED
    BY <2>1, IndexTypes DEF Entry, Stored
<1>2. Become(Inserted(Data, k, Entry(shard[k].value, now + TTL)))
  BY DEF Expire
<1> QED
  BY <1>1, <1>2, InsertWrites

\* clear leaves nothing.
LEMMA ClearWrites ==
  ASSUME Become(Cleared)
  PROVE  Indexed(Data') /\ shard' = [k \in Keys |-> Gone]
<1>1. Indexed(Cleared)
  BY DEF Indexed, Cleared
<1> QED
  BY <1>1, BecomeIndexed DEF Cleared

\* The bound on expiries goes with what is written.
LEMMA IndexInvKept ==
  ASSUME IndexInv, Indexed(Data'), now' = now,
         \A k \in Keys : \/ shard'[k] \in {shard[k], Gone}
                         \/ shard'[k].exp = Forever \/ shard'[k].exp <= now + TTL
  PROVE  IndexInv'
BY DEF IndexInv

\* An operation on the data keeps the invariant.
LEMMA OperationKeepsIndex ==
  ASSUME IndexInv, Operation
  PROVE  IndexInv'
<1>0. now' = now /\ now \in Nat /\ shard \in [Keys -> Stored \cup {Gone}]
  BY IndexTypes DEF Operation, Clear, Get, Set, Delete, Expire, Increment, IncrementWithTTL, Use, IndexInv
<1>1. CASE Clear
  BY <1>0, <1>1, ClearWrites, IndexInvKept DEF Clear
<1>2. ASSUME NEW K \in SUBSET Keys, Get(K) PROVE IndexInv'
  BY <1>0, <1>2, Evicts, IndexInvKept DEF Get
<1>3. ASSUME NEW K \in SUBSET Keys, NEW exp \in {Forever, now + TTL}, Set(K, exp) PROVE IndexInv'
  <2>1. Entry(Text, exp).exp = Forever \/ Entry(Text, exp).exp <= now + TTL
    BY <1>0, <1>3 DEF Entry
  <2> QED
    BY <1>0, <1>3, <2>1, SetWrites, IndexInvKept
<1>4. ASSUME NEW k \in Keys, Delete(k) PROVE IndexInv'
  BY <1>0, <1>4, DeleteWrites, IndexInvKept
<1>5. ASSUME NEW k \in Keys, Expire(k) PROVE IndexInv'
  <2>1. Entry(shard[k].value, now + TTL).exp <= now + TTL
    BY <1>0 DEF Entry
  <2> QED
    BY <1>0, <1>5, <2>1, ExpireWrites, IndexInvKept
<1>6. ASSUME NEW k \in Keys, NEW amount \in Amounts, Increment(k, amount) PROVE IndexInv'
  BY <1>0, <1>6, EntryStored, IncrementWrites, IndexInvKept
<1>7. ASSUME NEW k \in Keys, NEW amount \in Amounts, IncrementWithTTL(k, amount) PROVE IndexInv'
  BY <1>0, <1>7, EntryStored, IncrementWithTTLWrites, IndexInvKept
<1> QED
  BY <1>1, <1>2, <1>3, <1>4, <1>5, <1>6, <1>7 DEF Operation

\* The context of the backend that is left may clear the data.
LEMMA ExitKeepsIndex ==
  ASSUME IndexInv, NEW t \in Tasks, Exit(t)
  PROVE  IndexInv'
<1>1. now' = now
  BY DEF Exit
<1>2. CASE Become(Cleared)
  BY <1>1, <1>2, ClearWrites, IndexInvKept
<1>3. CASE UNCHANGED <<shard, keyList, positions>>
  BY <1>1, <1>3 DEF IndexInv, Indexed, Data
<1> QED
  BY <1>2, <1>3 DEF Exit

\* The index invariant holds at first, and every step keeps it.
LEMMA IndexInvInductive ==
  (Init => IndexInv) /\ (IndexInv /\ [Next]_vars => IndexInv')
<1>1. Init => IndexInv
  <2> SUFFICES ASSUME Init PROVE IndexInv
    OBVIOUS
  <2>1. Data = Cleared
    BY DEF Init, Data, Cleared
  <2>2. Indexed(Cleared)
    BY DEF Indexed, Cleared
  <2> QED
    BY <2>1, <2>2 DEF Init, IndexInv
<1>2. ASSUME IndexInv, [Next]_vars PROVE IndexInv'
  <2>1. CASE Tick
    BY <1>2, <2>1, IndexTypes DEF Tick, dataVars, IndexInv, Data, Indexed
  <2>2. CASE Operation
    BY <1>2, <2>2, OperationKeepsIndex
  <2>3. CASE CleanerWakes
    <3>1. PICK K \in SUBSET ToSet(keyList) : Become(RemovedAll(Data, Expired(K)))
      BY <2>3 DEF CleanerWakes
    <3>2. K \in SUBSET Keys
      BY <1>2, IndexTypes DEF ToSet
    <3>3. now' = now
      BY <2>3 DEF CleanerWakes
    <3> QED
      BY <1>2, <3>1, <3>2, <3>3, Evicts, IndexInvKept, IndexTypes
  <2>4. ASSUME NEW t \in Tasks, LifeCycle(t) PROVE IndexInv'
    <3>1. CASE Exit(t)
      BY <1>2, <3>1, ExitKeepsIndex
    <3>2. CASE UNCHANGED <<dataVars, now>>
      BY <1>2, <3>2 DEF dataVars, IndexInv, Indexed, Data
    <3> QED
      BY <2>4, <3>1, <3>2 DEF LifeCycle, Enter, CloseEnds, CloseTimesOut
  <2>5. CASE UNCHANGED vars
    BY <1>2, <2>5 DEF vars, dataVars, IndexInv, Indexed, Data
  <2> QED
    BY <1>2, <2>1, <2>2, <2>3, <2>4, <2>5 DEF Next
<1> QED
  BY <1>1, <1>2

\* The cleaner's index is that of the shard, each key at its position, after any
\* inserts, evictions, reaps and clears (_index_insert, _index_remove).
THEOREM IndexCorrect == Spec => []IndexMatchesShard
<1>1. IndexInv => IndexMatchesShard
  <2> SUFFICES ASSUME IndexInv PROVE IndexMatchesShard
    OBVIOUS
  <2>1. DOMAIN keyList = 1 .. Len(keyList)
    BY IndexTypes
  <2> QED
    BY <2>1 DEF IndexInv, Indexed, Data, IndexMatchesShard
<1>2. Init /\ [][Next]_vars => []IndexInv
  BY IndexInvInductive, PTL
<1>3. Spec => Init /\ [][Next]_vars
  <2>1. [Next /\ Bounded]_vars => [Next]_vars
    OBVIOUS
  <2> QED
    BY <2>1, PTL DEF Spec
<1> QED
  BY <1>1, <1>2, <1>3, PTL

----------------------------------------------------------------------------
(* The map the backend promises. *)

\* What readers find while no time passes.
LEMMA VisibleThen ==
  ASSUME now' = now, NEW k \in Keys
  PROVE  Visible(k)' = IF shard'[k] # Gone /\ Lives(shard'[k], now) THEN shard'[k] ELSE Gone
BY DEF Visible

\* Evictions show nobody anything.
LEMMA EvictsUnseen ==
  ASSUME IndexInv, NEW K \in SUBSET Keys, Become(RemovedAll(Data, Expired(K))), now' = now
  PROVE  UNCHANGED Map!mapVars
<1>1. \A k \in Keys : Visible(k)' = Visible(k)
  <2> TAKE k \in Keys
  <2>1. shard'[k] = IF k \in Expired(K) THEN Gone ELSE shard[k]
    BY Evicts
  <2>2. k \in Expired(K) => shard[k] # Gone /\ ~ Lives(shard[k], now)
    BY DEF Expired
  <2> QED
    BY <2>1, <2>2, VisibleThen DEF Visible
<1> QED
  BY <1>1 DEF Map!mapVars

\* One key that is written shows what is written, if that has not expired.
LEMMA WriteShows ==
  ASSUME IndexInv, NEW k \in Keys, NEW e \in Stored, Lives(e, now), now' = now,
         shard' = [shard EXCEPT ![k] = e]
  PROVE  Map!Puts(k, e)
<1>1. e # Gone /\ shard \in [Keys -> Stored \cup {Gone}]
  BY EntriesAreNotGone, IndexTypes
<1>2. \A j \in Keys : Visible(j)' = IF j = k THEN e ELSE Visible(j)
  BY <1>1, VisibleThen DEF Visible
<1> QED
  BY <1>2 DEF Map!Puts

\* set and multi_set.
LEMMA SetMaps ==
  ASSUME IndexInv, NEW K \in SUBSET Keys, NEW exp \in {Forever, now + TTL}, Set(K, exp)
  PROVE  Map!Next
<1> DEFINE e == Entry(Text, exp)
<1>1. e \in Stored /\ e # Gone /\ now' = now /\ now \in Nat
  BY SetWrites, EntriesAreNotGone DEF Set, Use, IndexInv
<1>2. Lives(e, now) /\ e = Map!Entry(Text, exp)
  BY <1>1 DEF Lives, Entry, Map!Entry
<1>3. shard' = [k \in Keys |-> IF k \in K THEN e ELSE shard[k]]
  BY SetWrites
<1> HIDE DEF e
<1>4. \A k \in Keys : Visible(k)' \in {Visible(k), e}
  BY <1>1, <1>2, <1>3, VisibleThen DEF Visible
<1>5. Map!Set(Text, exp)
  BY <1>1, <1>2, <1>4 DEF Map!Set
<1>6. exp \in Map!Expiries
  BY <1>1 DEF Map!Expiries
<1>7. Text \in Map!Values \ Counts
  BY DEF Map!Values
<1> QED
  BY <1>5, <1>6, <1>7 DEF Map!Next

\* delete.
LEMMA DeleteMaps ==
  ASSUME IndexInv, NEW k \in Keys, Delete(k)
  PROVE  Map!Next
<1>1. now' = now /\ shard \in [Keys -> Stored \cup {Gone}] /\ shard' = [shard EXCEPT ![k] = Gone]
  BY DeleteWrites, IndexTypes DEF Delete, Use
<1>2. \A j \in Keys : Visible(j)' \in {Visible(j), Gone}
  BY <1>1, VisibleThen DEF Visible
<1> QED
  BY <1>1, <1>2 DEF Map!Next, Map!Remove

\* clear.
LEMMA ClearMaps ==
  ASSUME Become(Cleared), now' = now
  PROVE  Map!Next
<1>1. \A j \in Keys : Visible(j)' \in {Visible(j), Gone}
  BY ClearWrites, VisibleThen
<1> QED
  BY <1>1 DEF Map!Next, Map!Remove

\* increment and decrement.
LEMMA IncrementMaps ==
  ASSUME IndexInv, NEW k \in Keys, NEW amount \in Amounts, Increment(k, amount)
  PROVE  Map!Next
<1> DEFINE e == Incremented(k, amount)
           old == Visible(k)
<1>1. /\ e \in Stored /\ shard' = [shard EXCEPT ![k] = e]
      /\ now' = now /\ now \in Nat /\ amount \in Int
  BY EntryStored, IncrementWrites DEF Increment, Use, IndexInv
<1>2. old # Gone => /\ old.value \in Int \cup {Text} /\ old.exp \in Nat \cup {Forever}
                    /\ Lives(old, now) /\ (old.exp = Forever \/ old.exp <= now + TTL)
  BY VisibleStored, IndexTypes DEF IndexInv
<1>3. Lives(e, now) /\ e.exp \in Map!Expiries
  <2>1. e.exp = IF old = Gone THEN Forever ELSE old.exp
    BY DEF Incremented, Entry
  <2> HIDE DEF e, old
  <2>2. e.exp = Forever \/ (e.exp \in Nat /\ e.exp > now /\ e.exp <= now + TTL)
    BY <1>2, <2>1 DEF Lives
  <2> QED
    BY <1>1, <2>2 DEF Lives, Map!Expiries
<1>4. e = IF old = Gone THEN Map!Entry(amount, e.exp)
          ELSE Map!Entry(Map!Number(old.value) + amount,
                         IF old.exp = Forever \/ old.value = Text THEN e.exp ELSE old.exp)
  <2>1. CASE old = Gone
    BY <2>1 DEF Incremented, Entry, Map!Entry
  <2>2. CASE old # Gone
    <3>1. e = Entry(IF old.value = Text THEN amount ELSE old.value + amount, old.exp)
      BY <2>2 DEF Incremented
    <3>2. e.exp = old.exp
      BY <3>1 DEF Entry
    <3> HIDE DEF e, old
    <3>3. (IF old.value = Text THEN amount ELSE old.value + amount) = Map!Number(old.value) + amount
      BY <1>1, <1>2, <2>2 DEF Map!Number
    <3> QED
      BY <2>2, <3>1, <3>2, <3>3 DEF Entry, Map!Entry
  <2> QED
    BY <2>1, <2>2
<1> HIDE DEF e
<1>5. Map!Puts(k, e)
  BY <1>1, <1>3, WriteShows
<1>6. [j \in Keys |-> Visible(j)][k] = old
  OBVIOUS
<1>7. Map!Increment(k, amount, e.exp)
  BY <1>4, <1>5, <1>6 DEF Map!Increment
<1> QED
  BY <1>3, <1>7 DEF Map!Next

\* increment_with_ttl.
LEMMA IncrementWithTTLMaps ==
  ASSUME IndexInv, NEW k \in Keys, NEW amount \in Amounts, IncrementWithTTL(k, amount)
  PROVE  Map!Next
<1> DEFINE e == IncrementedWithTTL(k, amount)
           old == Visible(k)
           exp == now + TTL
<1>1. /\ e \in Stored /\ shard' = [shard EXCEPT ![k] = e]
      /\ now' = now /\ now \in Nat /\ amount \in Int
  BY EntryStored, IncrementWithTTLWrites DEF IncrementWithTTL, Use, IndexInv
<1>2. old # Gone => /\ old.value \in Int \cup {Text} /\ old.exp \in Nat \cup {Forever}
                    /\ Lives(old, now)
  BY VisibleStored, IndexTypes
<1>3. exp \in Nat /\ exp > now /\ exp \in Map!Expiries
  BY <1>1 DEF Map!Expiries
<1> HIDE DEF exp
<1>4. Lives(e, now)
  <2>1. e.exp = IF old = Gone \/ old.value = Text \/ old.exp = Forever THEN exp ELSE old.exp
    BY DEF IncrementedWithTTL, Entry, exp
  <2> HIDE DEF e, old
  <2> QED
    BY <1>2, <1>3, <2>1 DEF Lives
<1>5. e = IF old = Gone THEN Map!Entry(amount, exp)
          ELSE Map!Entry(Map!Number(old.value) + amount,
                         IF old.exp = Forever \/ old.value = Text THEN exp ELSE old.exp)
  <2>1. CASE old = Gone
    BY <2>1 DEF IncrementedWithTTL, Entry, Map!Entry, exp
  <2>2. CASE old # Gone /\ old.value = Text
    <3>1. e = Entry(amount, exp)
      BY <2>2 DEF IncrementedWithTTL, exp
    <3>2. Map!Number(old.value) + amount = amount
      BY <1>1, <2>2 DEF Map!Number
    <3> HIDE DEF e, old
    <3> QED
      BY <2>2, <3>1, <3>2 DEF Entry, Map!Entry
  <2>3. CASE old # Gone /\ old.value # Text
    <3>1. e = Entry(old.value + amount, IF old.exp = Forever THEN exp ELSE old.exp)
      BY <2>3 DEF IncrementedWithTTL, exp
    <3>2. Map!Number(old.value) + amount = old.value + amount
      BY <2>3 DEF Map!Number
    <3> HIDE DEF e, old
    <3> QED
      BY <2>3, <3>1, <3>2 DEF Entry, Map!Entry
  <2> QED
    BY <2>1, <2>2, <2>3
<1> HIDE DEF e
<1>6. Map!Puts(k, e)
  BY <1>1, <1>4, WriteShows
<1>7. [j \in Keys |-> Visible(j)][k] = old
  OBVIOUS
<1>8. Map!Increment(k, amount, exp)
  BY <1>5, <1>6, <1>7 DEF Map!Increment
<1> QED
  BY <1>3, <1>8 DEF Map!Next

\* expire, unless it revives an entry.
LEMMA ExpireMaps ==
  ASSUME IndexInv, NEW k \in Keys, Expire(k)
  PROVE  revived' \/ Map!Next
<1> SUFFICES ASSUME Visible(k) # Gone PROVE Map!Next
  BY DEF Expire
<1> DEFINE e == Entry(shard[k].value, now + TTL)
<1>1. e \in Stored /\ shard' = [shard EXCEPT ![k] = e] /\ now' = now /\ now \in Nat
  BY ExpireWrites DEF Expire, Use, IndexInv
<1>2. Lives(e, now) /\ now + TTL \in Map!Expiries
  BY <1>1 DEF Lives, Entry, Map!Expiries
<1>3. e = Map!Entry([j \in Keys |-> Visible(j)][k].value, now + TTL)
  BY VisibleStored DEF Entry, Map!Entry
<1>4. Map!Puts(k, e)
  BY <1>1, <1>2, WriteShows
<1> HIDE DEF e
<1>5. Map!Expire(k, now + TTL)
  BY <1>3, <1>4 DEF Map!Expire
<1> QED
  BY <1>2, <1>5 DEF Map!Next

\* With time, entries expire.
LEMMA TickMaps ==
  ASSUME IndexInv, Tick
  PROVE  Map!Next
<1>1. now' = now + 1 /\ shard' = shard /\ now \in Nat
  BY DEF Tick, dataVars, IndexInv
<1>2. ASSUME NEW k \in Keys
      PROVE  Visible(k)' = IF Visible(k) # Gone /\ Map!Lives(Visible(k), now + 1) THEN Visible(k) ELSE Gone
  <2>1. shard[k] # Gone => shard[k].exp \in Nat \cup {Forever}
    BY IndexTypes
  <2> QED
    BY <1>1, <2>1 DEF Visible, Lives, Map!Lives
<1>3. [k \in Keys |-> Visible(k)]' =
        [k \in Keys |-> IF [j \in Keys |-> Visible(j)][k] # Gone /\ Map!Lives([j \in Keys |-> Visible(j)][k], now + 1)
                        THEN [j \in Keys |-> Visible(j)][k] ELSE Gone]
  BY <1>2
<1> QED
  BY <1>1, <1>3 DEF Map!Next, Map!Tick

\* Every step of the backend is one of the map, or shows nothing.
LEMMA StepMaps ==
  ASSUME IndexInv, [Next]_vars
  PROVE  [UNCHANGED <<shard, now>> \/ revived' \/ Map!Next]_Map!mapVars
<1>1. CASE Tick
  BY <1>1, TickMaps
<1>2. CASE Operation
  <2>1. CASE Clear
    BY <2>1, ClearMaps DEF Clear, Use
  <2>2. ASSUME NEW K \in SUBSET Keys, Get(K) PROVE UNCHANGED Map!mapVars
    BY <2>2, EvictsUnseen DEF Get, Use
  <2>3. ASSUME NEW K \in SUBSET Keys, NEW exp \in {Forever, now + TTL}, Set(K, exp) PROVE Map!Next
    BY <2>3, SetMaps
  <2>4. ASSUME NEW k \in Keys, Delete(k) \/ Expire(k) PROVE revived' \/ Map!Next
    BY <2>4, DeleteMaps, ExpireMaps
  <2>5. ASSUME NEW k \in Keys, NEW amount \in Amounts, Increment(k, amount) \/ IncrementWithTTL(k, amount)
        PROVE  Map!Next
    BY <2>5, IncrementMaps, IncrementWithTTLMaps
  <2> QED
    BY <1>2, <2>1, <2>2, <2>3, <2>4, <2>5 DEF Operation
<1>3. CASE CleanerWakes
  <2>1. PICK K \in SUBSET ToSet(keyList) : Become(RemovedAll(Data, Expired(K)))
    BY <1>3 DEF CleanerWakes
  <2>2. K \in SUBSET Keys
    BY IndexTypes DEF ToSet
  <2>3. now' = now
    BY <1>3 DEF CleanerWakes
  <2> QED
    BY <2>1, <2>2, <2>3, EvictsUnseen
<1>4. ASSUME NEW t \in Tasks, LifeCycle(t) PROVE UNCHANGED <<shard, now>> \/ Map!Next
  <2>1. CASE Exit(t)
    <3>1. now' = now
      BY <2>1 DEF Exit
    <3>2. CASE Become(Cleared)
      BY <3>1, <3>2, ClearMaps
    <3>3. CASE UNCHANGED <<shard, keyList, positions>>
      BY <3>1, <3>3
    <3> QED
      BY <2>1, <3>2, <3>3 DEF Exit
  <2>2. CASE UNCHANGED <<dataVars, now>>
    BY <2>2 DEF dataVars
  <2> QED
    BY <1>4, <2>1, <2>2 DEF LifeCycle, Enter, CloseEnds, CloseTimesOut
<1>5. CASE UNCHANGED vars
  BY <1>5 DEF vars, dataVars
<1> QED
  BY <1>1, <1>2, <1>3, <1>4, <1>5 DEF Next

\* Every step of the backend is a step of the map it promises, or one that readers
\* do not see, until expire() revives an entry that had expired.
THEOREM MapCorrect == Spec => ImplementsMap
<1>1. Init => Map!Init
  BY DEF Init, Map!Init, Visible
<1>2. Init /\ [][Next]_vars => []IndexInv
  BY IndexInvInductive, PTL
<1>3. Spec => Init /\ [][Next]_vars
  <2>1. [Next /\ Bounded]_vars => [Next]_vars
    OBVIOUS
  <2> QED
    BY <2>1, PTL DEF Spec
<1>4. IndexInv /\ [Next]_vars => [UNCHANGED <<shard, now>> \/ revived' \/ Map!Next]_Map!mapVars
  BY StepMaps
<1> QED
  BY <1>1, <1>2, <1>3, <1>4, PTL DEF ImplementsMap

----------------------------------------------------------------------------
(* The types. *)

\* What a context remembers (base.py, _BackendContext).
ContextType ==
  [backend : {"this", "other"}, asked : Arguments, keeps : BOOLEAN, closes : BOOLEAN]

\* The types of what tells of the life of the backend.
LifeTypes ==
  /\ ready \in BOOLEAN /\ pools \in BOOLEAN /\ cleaner \in {"none", "asleep", "ended"}
  /\ stack \in [Tasks -> Seq(ContextType)]
  /\ closing \in [Tasks -> {"no", "cleaner", "done"}]
  /\ raced \in BOOLEAN /\ revived \in BOOLEAN

\* Counters stay in their bound.
CountsInv == \A k \in Keys : shard[k] # Gone => shard[k].value \in Counts \cup {Text}

\* To be told nothing is one of the ways to make a context.
LEMMA DefaultAllowed == Default \in Arguments
  BY ArgumentsAssumption

\* A context is added at the top of the stack, or the topmost one goes.
LEMMA StackTypes ==
  ASSUME NEW s \in Seq(ContextType)
  PROVE  /\ \A b \in {"this", "other"}, a \in Arguments :
              /\ Context(s, b, a) \in ContextType
              /\ Append(s, Context(s, b, a)) \in Seq(ContextType)
              /\ Len(Append(s, Context(s, b, a))) = Len(s) + 1
              /\ \A i \in 1 .. Len(s) : Append(s, Context(s, b, a))[i] = s[i]
              /\ Append(s, Context(s, b, a))[Len(s) + 1] = Context(s, b, a)
         /\ s # <<>> => /\ Front(s) \in Seq(ContextType) /\ Len(Front(s)) = Len(s) - 1 /\ Len(s) \in Nat \ {0}
                        /\ \A i \in 1 .. Len(s) - 1 : Front(s)[i] = s[i]
<1>1. \A b \in {"this", "other"}, a \in Arguments : Context(s, b, a) \in ContextType
  <2> TAKE b \in {"this", "other"}, a \in Arguments
  <2>1. /\ a.persistent # None => a.persistent \in BOOLEAN
        /\ a.close_on_exit # None => a.close_on_exit \in BOOLEAN
        /\ Persistent \in BOOLEAN
    BY ArgumentsAssumption, BackendAssumption
  <2> DEFINE k == IF a.persistent # None THEN a.persistent
                  ELSE IF Innermost(s).backend = b THEN TRUE ELSE Persistent
             c == IF a.close_on_exit # None THEN a.close_on_exit ELSE s = <<>>
  <2>2. k \in BOOLEAN
    BY <2>1, Zenon
  <2>3. c \in BOOLEAN
    BY <2>1, Zenon
  <2> HIDE DEF k, c
  <2>4. [backend |-> b, asked |-> a, keeps |-> k, closes |-> c] \in ContextType
    BY <2>2, <2>3 DEF ContextType
  <2> QED
    BY <2>4, Zenon DEF Context, k, c
<1>2. ASSUME s # <<>> PROVE /\ Front(s) \in Seq(ContextType) /\ Len(Front(s)) = Len(s) - 1 /\ Len(s) \in Nat \ {0}
                            /\ \A i \in 1 .. Len(s) - 1 : Front(s)[i] = s[i]
  <2> DEFINE n == Len(s)
  <2> HIDE DEF ContextType
  <2>1. n \in Nat \ {0} /\ \A i \in 1 .. n : s[i] \in ContextType
    BY <1>2, EmptySeq
  <2> HIDE DEF n
  <2>2. \A i \in 1 .. n - 1 : s[i] \in ContextType
    BY <2>1
  <2>3. /\ SubSeq(s, 1, n - 1) \in Seq(ContextType)
        /\ Len(SubSeq(s, 1, n - 1)) = IF 1 <= n - 1 THEN (n - 1) - 1 + 1 ELSE 0
        /\ \A i \in 1 .. (n - 1) - 1 + 1 : SubSeq(s, 1, n - 1)[i] = s[1 + i - 1]
    <3>1. n - 1 \in Int /\ 1 \in Int
      BY <2>1
    <3> QED
      BY <2>2, <3>1, SubSeqProperties
  <2>4. Len(SubSeq(s, 1, n - 1)) = n - 1
    BY <2>1, <2>3
  <2>5. \A i \in 1 .. n - 1 : i \in 1 .. (n - 1) - 1 + 1 /\ 1 + i - 1 = i
    BY <2>1
  <2>6. \A i \in 1 .. n - 1 : SubSeq(s, 1, n - 1)[i] = s[i]
    BY <2>3, <2>5
  <2> QED
    BY <2>1, <2>3, <2>4, <2>6 DEF Front, n
<1> HIDE DEF ContextType
<1> QED
  BY <1>1, <1>2, AppendProperties

\* One step for the types of the life cycle.
LEMMA LifeTypesInductive ==
  (Init => LifeTypes) /\ (LifeTypes /\ [Next]_vars => LifeTypes')
<1>1. Init => LifeTypes
  BY EmptySeq, ZenonT(40) DEF Init, LifeTypes
<1>2. ASSUME LifeTypes, [Next]_vars PROVE LifeTypes'
  <2>1. CASE Tick
    BY <1>2, <2>1 DEF Tick, dataVars, lifeVars, LifeTypes
  <2>2. CASE Operation
    <3>1. UNCHANGED lifeVars /\ (UNCHANGED revived \/ \E k \in Keys : revived' = (revived \/ Visible(k) = Gone))
      BY <2>2 DEF Operation, Clear, Get, Set, Delete, Expire, Increment, IncrementWithTTL, Use
    <3> QED
      BY <1>2, <3>1 DEF lifeVars, LifeTypes
  <2>3. CASE CleanerWakes
    BY <1>2, <2>3 DEF CleanerWakes, LifeTypes
  <2>4. ASSUME NEW t \in Tasks, LifeCycle(t) PROVE LifeTypes'
    <3>1. ASSUME NEW b \in {"this", "other"}, NEW a \in Arguments, Enter(t, b, a) PROVE LifeTypes'
      <4>1. stack' = [stack EXCEPT ![t] = Append(stack[t], Context(stack[t], b, a))] /\ stack[t] \in Seq(ContextType)
        BY <1>2, <3>1 DEF Enter, LifeTypes
      <4>2. stack' \in [Tasks -> Seq(ContextType)]
        BY <1>2, <4>1, StackTypes DEF LifeTypes
      <4> QED
        BY <1>2, <3>1, <4>2 DEF Enter, Initialize, LifeTypes, dataVars
    <3>2. CASE Exit(t)
      <4>1. stack' = [stack EXCEPT ![t] = Front(stack[t])] /\ stack[t] \in Seq(ContextType) /\ stack[t] # <<>>
        BY <1>2, <3>2 DEF Exit, LifeTypes
      <4>2. stack' \in [Tasks -> Seq(ContextType)]
        BY <1>2, <4>1, StackTypes DEF LifeTypes
      <4> QED
        BY <1>2, <3>2, <4>2 DEF Exit, Close, LifeTypes
    <3>3. CASE CloseEnds(t)
      BY <1>2, <3>3 DEF CloseEnds, LifeTypes, dataVars
    <3>4. CASE CloseTimesOut(t)
      BY <1>2, <3>4 DEF CloseTimesOut, LifeTypes, dataVars
    <3> QED
      BY <2>4, <3>1, <3>2, <3>3, <3>4, DefaultAllowed DEF LifeCycle
  <2>5. CASE UNCHANGED vars
    BY <1>2, <2>5 DEF vars, dataVars, lifeVars, LifeTypes
  <2> QED
    BY <1>2, <2>1, <2>2, <2>3, <2>4, <2>5 DEF Next
<1> QED
  BY <1>1, <1>2

\* The backend's variables keep their types: counters stay within the bound of the
\* runs because no step beyond it is taken.
THEOREM TypeCorrect == Spec => []TypeOK
<1>1. IndexInv /\ CountsInv /\ LifeTypes => TypeOK
  <2> SUFFICES ASSUME IndexInv, CountsInv, LifeTypes PROVE TypeOK
    OBVIOUS
  <2> DEFINE T == [value : Counts \cup {Text}, exp : Nat \cup {Forever}]
  <2>1. \A k \in Keys : shard[k] \in T \cup {Gone}
    <3> TAKE k \in Keys
    <3>1. CASE shard[k] # Gone
      <4>1. shard[k] = Entry(shard[k].value, shard[k].exp) /\ shard[k].exp \in Nat \cup {Forever}
        BY <3>1, IndexTypes
      <4>2. shard[k].value \in Counts \cup {Text}
        BY <3>1 DEF CountsInv
      <4> QED
        BY <4>1, <4>2 DEF Entry
    <3> QED
      BY <3>1
  <2> HIDE DEF T
  <2>2. shard \in [Keys -> T \cup {Gone}]
    BY <2>1, IndexTypes
  <2> QED
    BY <2>2, IndexTypes DEF IndexInv, LifeTypes, TypeOK, T, ContextType
<1>2. Init => CountsInv
  BY DEF Init, CountsInv
<1>3. CountsInv /\ [Next /\ Bounded]_vars => CountsInv'
  BY DEF CountsInv, Bounded, vars, dataVars
<1>4. [Next /\ Bounded]_vars => [Next]_vars
  OBVIOUS
<1>5. Spec => []IndexInv
  BY <1>4, IndexInvInductive, PTL DEF Spec
<1>6. Spec => []LifeTypes
  BY <1>4, LifeTypesInductive, PTL DEF Spec
<1>7. Spec => []CountsInv
  BY <1>2, <1>3, PTL DEF Spec
<1> QED
  BY <1>1, <1>5, <1>6, <1>7, PTL

----------------------------------------------------------------------------
(* The life cycle. *)

\* While nobody raced with a close, at most one task closes, after it took the
\* readiness away, and whoever waits for the cleaner waits for one that is there.
LifeInv ==
  \/ raced
  \/ /\ \A t, u \in Tasks : closing[t] # "no" /\ closing[u] # "no" => t = u
     /\ \A t \in Tasks : closing[t] # "no" => ~ ready
     /\ \A t \in Tasks : closing[t] = "cleaner" => cleaner = "asleep"
     /\ (\A t \in Tasks : closing[t] = "no") => pools = ready /\ cleaner = (IF ready THEN "asleep" ELSE "none")

\* LifeInv holds at first, and every step keeps it.
LEMMA LifeInvInductive ==
  (Init => LifeInv) /\ (LifeTypes /\ LifeInv /\ [Next]_vars => LifeInv')
<1>1. Init => LifeInv
  BY DEF Init, LifeInv
<1>2. ASSUME LifeTypes, LifeInv, [Next]_vars PROVE LifeInv'
  <2>1. CASE UNCHANGED lifeVars
    BY <1>2, <2>1 DEF lifeVars, LifeInv
  <2>2. CASE Operation
    <3>1. UNCHANGED lifeVars
      BY <2>2 DEF Operation, Clear, Get, Set, Delete, Expire, Increment, IncrementWithTTL, Use
    <3> QED
      BY <2>1, <3>1
  <2>3. CASE CleanerWakes
    <3>1. /\ cleaner = "asleep" /\ cleaner' = (IF ready THEN "asleep" ELSE "ended")
          /\ closing' = IF ready THEN closing
                        ELSE [t \in Tasks |-> IF closing[t] = "cleaner" THEN "done" ELSE closing[t]]
          /\ UNCHANGED <<ready, pools, raced>>
      BY <2>3 DEF CleanerWakes
    <3>2. CASE ready
      BY <1>2, <3>1, <3>2 DEF LifeInv, LifeTypes
    <3>3. CASE ~ ready
      <4>1. \A t \in Tasks : /\ closing'[t] # "cleaner" /\ (closing'[t] = "no" <=> closing[t] = "no")
        BY <1>2, <3>1, <3>3 DEF LifeTypes
      <4> QED
        BY <1>2, <3>1, <3>3, <4>1 DEF LifeInv
    <3> QED
      BY <3>2, <3>3
  <2>4. ASSUME NEW t \in Tasks, LifeCycle(t) PROVE LifeInv'
    <3>1. ASSUME NEW b \in {"this", "other"}, NEW a \in Arguments, Enter(t, b, a) PROVE LifeInv'
      BY <1>2, <3>1 DEF Enter, Initialize, LifeInv, LifeTypes
    <3>2. CASE Exit(t)
      <4>1. CASE UNCHANGED <<ready, closing, pools>>
        BY <1>2, <3>2, <4>1 DEF Exit, LifeInv
      <4>2. CASE ready /\ Close(t)
        BY <1>2, <3>2, <4>2, ZenonT(40) DEF Exit, Close, LifeInv, LifeTypes
      <4> QED
        BY <3>2, <4>1, <4>2 DEF Exit
    <3>3. CASE CloseEnds(t)
      BY <1>2, <3>3, ZenonT(40) DEF CloseEnds, LifeInv, LifeTypes
    <3>4. CASE CloseTimesOut(t)
      BY <1>2, <3>4 DEF CloseTimesOut, LifeInv, LifeTypes
    <3> QED
      BY <2>4, <3>1, <3>2, <3>3, <3>4, DefaultAllowed DEF LifeCycle
  <2>5. CASE Tick \/ UNCHANGED vars
    BY <2>1, <2>5 DEF Tick, vars
  <2> QED
    BY <1>2, <2>2, <2>3, <2>4, <2>5 DEF Next
<1> QED
  BY <1>1, <1>2

\* A backend that is ready serves, with its pools and its cleaner, and one that is
\* closed has neither, unless it was initialized while it was being closed.
THEOREM LifeCorrect == Spec => []ReadyMeansServing
<1>1. LifeInv => ReadyMeansServing
  BY DEF LifeInv, ReadyMeansServing
<1>2. [Next /\ Bounded]_vars => [Next]_vars
  OBVIOUS
<1> QED
  BY <1>1, <1>2, LifeTypesInductive, LifeInvInductive, PTL DEF Spec

----------------------------------------------------------------------------
(* Contexts. *)

\* What an inner context may do to the outer one o when it ends.
MayClose(c) == c.asked.close_on_exit = TRUE

MayClear(c, o) ==
  \/ c.asked.persistent = FALSE
  \/ c.asked.persistent = None /\ o.backend # c.backend /\ ~Persistent

\* A context entered inside another one closes and clears only if it may.
StackInv ==
  \A t \in Tasks : \A i \in 2 .. Len(stack[t]) :
    /\ stack[t][i].closes => MayClose(stack[t][i])
    /\ ~ stack[t][i].keeps => MayClear(stack[t][i], stack[t][i - 1])

\* A context that is made inside another one closes and clears only if it may.
LEMMA ContextMay ==
  ASSUME NEW s, s # <<>>, NEW b, NEW a \in Arguments
  PROVE  LET c == Context(s, b, a)
         IN  /\ c.backend = b
             /\ c.closes => MayClose(c)
             /\ ~ c.keeps => MayClear(c, Last(s))
<1> DEFINE k == IF a.persistent # None THEN a.persistent
                ELSE IF Innermost(s).backend = b THEN TRUE ELSE Persistent
           e == IF a.close_on_exit # None THEN a.close_on_exit ELSE s = <<>>
           c == [backend |-> b, asked |-> a, keeps |-> k, closes |-> e]
<1>1. a.persistent \in BOOLEAN \cup {None} /\ a.close_on_exit \in BOOLEAN \cup {None}
  BY ArgumentsAssumption
<1>2. Innermost(s) = Last(s)
  BY DEF Innermost
<1>3. e => a.close_on_exit = TRUE
  BY <1>1, Zenon
<1>4. ~ k => \/ a.persistent = FALSE
             \/ a.persistent = None /\ Last(s).backend # b /\ ~Persistent
  BY <1>1, <1>2, Zenon
<1>5. Context(s, b, a) = c
  BY Zenon DEF Context
<1> HIDE DEF k, e
<1>6. c.backend = b /\ c.asked = a /\ c.keeps = k /\ c.closes = e
  OBVIOUS
<1> HIDE DEF c
<1> QED
  BY <1>3, <1>4, <1>5, <1>6, Zenon DEF MayClose, MayClear

\* StackInv holds at first, and every step keeps it.
LEMMA StackInvInductive ==
  (Init => StackInv) /\ (LifeTypes /\ StackInv /\ [Next]_vars => StackInv')
<1>1. Init => StackInv
  BY DEF Init, StackInv
<1>2. ASSUME LifeTypes, StackInv, [Next]_vars PROVE StackInv'
  <2>1. CASE UNCHANGED stack
    BY <1>2, <2>1 DEF StackInv
  <2>2. ASSUME NEW t \in Tasks, NEW b \in {"this", "other"}, NEW a \in Arguments, Enter(t, b, a)
        PROVE StackInv'
    <3> DEFINE s == stack[t]
    <3>1. stack' = [stack EXCEPT ![t] = Append(s, Context(s, b, a))] /\ s \in Seq(ContextType)
      BY <1>2, <2>2 DEF Enter, LifeTypes
    <3>2. stack'[t] = Append(s, Context(s, b, a)) /\ \A u \in Tasks : u # t => stack'[u] = stack[u]
      BY <1>2, <3>1 DEF LifeTypes
    <3>3. \A i \in 2 .. Len(s) : /\ s[i].closes => MayClose(s[i])
                                 /\ ~ s[i].keeps => MayClear(s[i], s[i - 1])
      BY <1>2 DEF StackInv
    <3> DEFINE n == Append(s, Context(s, b, a))
    <3>4. /\ Len(n) = Len(s) + 1 /\ Len(s) \in Nat
          /\ \A i \in 1 .. Len(s) : n[i] = s[i]
          /\ n[Len(s) + 1] = Context(s, b, a)
      BY <3>1, StackTypes
    <3>5. Len(s) >= 1 => /\ Context(s, b, a).closes => MayClose(Context(s, b, a))
                         /\ ~ Context(s, b, a).keeps => MayClear(Context(s, b, a), s[Len(s)])
      <4> SUFFICES ASSUME Len(s) >= 1
                   PROVE  /\ Context(s, b, a).closes => MayClose(Context(s, b, a))
                          /\ ~ Context(s, b, a).keeps => MayClear(Context(s, b, a), s[Len(s)])
        OBVIOUS
      <4> HIDE DEF s
      <4>1. s # <<>>
        BY EmptySeq
      <4> QED
        BY <4>1, ContextMay DEF Last
    <3> HIDE DEF n, s
    <3>6. \A i \in 2 .. Len(n) : /\ n[i].closes => MayClose(n[i])
                                 /\ ~ n[i].keeps => MayClear(n[i], n[i - 1])
      <4> TAKE i \in 2 .. Len(n)
      <4>1. CASE i = Len(s) + 1
        <5>1. n[i] = Context(s, b, a) /\ n[i - 1] = s[Len(s)] /\ Len(s) >= 1
          BY <3>4, <4>1
        <5> QED
          BY <3>5, <5>1
      <4>2. CASE i # Len(s) + 1
        <5>1. i \in 2 .. Len(s) /\ n[i] = s[i] /\ n[i - 1] = s[i - 1]
          BY <3>4, <4>2
        <5> QED
          BY <3>3, <5>1
      <4> QED
        BY <4>1, <4>2
    <3> QED
      BY <1>2, <3>2, <3>6 DEF StackInv, n
  <2>3. ASSUME NEW t \in Tasks, Exit(t) PROVE StackInv'
    <3>1. stack' = [stack EXCEPT ![t] = Front(stack[t])] /\ stack[t] \in Seq(ContextType) /\ stack[t] # <<>>
      BY <1>2, <2>3 DEF Exit, LifeTypes
    <3>2. stack'[t] = Front(stack[t]) /\ \A u \in Tasks : u # t => stack'[u] = stack[u]
      BY <1>2, <3>1 DEF LifeTypes
    <3>3. \A i \in 2 .. Len(stack'[t]) : /\ i \in 2 .. Len(stack[t]) /\ stack'[t][i] = stack[t][i]
                                         /\ stack'[t][i - 1] = stack[t][i - 1]
      <4> DEFINE s == stack[t]
                 n == Len(s)
      <4>1. Len(Front(s)) = n - 1 /\ n \in Nat \ {0} /\ \A i \in 1 .. n - 1 : Front(s)[i] = s[i]
        BY <3>1, StackTypes
      <4> HIDE DEF n, s
      <4>2. \A i \in 2 .. Len(Front(s)) : i \in 2 .. n /\ Front(s)[i] = s[i] /\ Front(s)[i - 1] = s[i - 1]
        BY <4>1
      <4> QED
        BY <3>2, <4>2 DEF n, s
    <3> QED
      BY <1>2, <3>2, <3>3, SMTT(30) DEF StackInv
  <2>4. CASE Operation
    <3>1. UNCHANGED lifeVars
      BY <2>4 DEF Operation, Clear, Get, Set, Delete, Expire, Increment, IncrementWithTTL, Use
    <3> QED
      BY <2>1, <3>1 DEF lifeVars
  <2> QED
    BY <1>2, <2>1, <2>2, <2>3, <2>4, DefaultAllowed
       DEF Next, Tick, CleanerWakes, LifeCycle, CloseEnds, CloseTimesOut, vars, lifeVars
<1> QED
  BY <1>1, <1>2

\* Only an exit makes a stack shorter, and it closes and clears what the
\* context around it uses only if it may.
LEMMA StepKeepsOuter ==
  ASSUME LifeTypes, StackInv, [Next]_vars, NEW t \in Tasks,
         Len(stack'[t]) < Len(stack[t]), stack'[t] # <<>>
  PROVE  LET inner == Last(stack[t])
             outer == Last(stack'[t])
         IN  /\ ready' # ready => inner.backend = "this" /\ inner.asked.close_on_exit = TRUE
             /\ shard' # shard =>
                  /\ inner.backend = "this"
                  /\ \/ inner.asked.persistent = FALSE
                     \/ /\ inner.asked.persistent = None
                        /\ outer.backend # "this" /\ ~Persistent
<1>1. stack[t] \in Seq(ContextType) /\ Len(stack[t]) \in Nat
  BY DEF LifeTypes
<1>2. stack' # stack
  BY <1>1
<1>3. PICK u \in Tasks : Exit(u) \/ \E b \in {"this", "other"}, a \in Arguments : Enter(u, b, a)
  <2>1. ~ Operation
    BY <1>2 DEF Operation, Clear, Get, Set, Delete, Expire, Increment, IncrementWithTTL, Use, lifeVars
  <2> QED
    BY <1>2, <2>1, DefaultAllowed DEF Next, Tick, CleanerWakes, LifeCycle, CloseEnds, CloseTimesOut, vars, lifeVars
<1>4. ASSUME NEW b \in {"this", "other"}, NEW a \in Arguments, Enter(u, b, a) PROVE FALSE
  <2>1. stack'[t] = stack[t] \/ stack'[t] = Append(stack[t], Context(stack[t], b, a))
    BY <1>4 DEF Enter, LifeTypes
  <2>2. Len(Append(stack[t], Context(stack[t], b, a))) = Len(stack[t]) + 1
    BY <1>1, StackTypes
  <2> QED
    BY <1>1, <2>1, <2>2
<1>5. Exit(u) /\ u = t
  <2>1. Exit(u)
    BY <1>3, <1>4
  <2>2. u # t => stack'[t] = stack[t]
    BY <2>1 DEF Exit, LifeTypes
  <2> QED
    BY <1>1, <2>1, <2>2
<1> DEFINE s == stack[t]
           n == Len(s)
<1>6. stack'[t] = Front(s) /\ s # <<>>
  BY <1>5 DEF Exit, LifeTypes
<1>7. n \in Nat /\ n >= 2 /\ Len(Front(s)) = n - 1 /\ Front(s)[n - 1] = s[n - 1]
  <2>1. /\ Front(s) \in Seq(ContextType) /\ Len(Front(s)) = n - 1 /\ n \in Nat \ {0}
        /\ \A i \in 1 .. n - 1 : Front(s)[i] = s[i]
    BY <1>1, <1>6, StackTypes
  <2>2. Front(s) # <<>>
    BY <1>6
  <2> HIDE DEF s, n
  <2>3. Len(Front(s)) # 0
    BY <2>1, <2>2, EmptySeq
  <2> QED
    BY <2>1, <2>3
<1>8. Last(s) = s[n] /\ Last(Front(s)) = s[n - 1]
  BY <1>6, <1>7 DEF Last
<1>9. /\ s[n].closes => MayClose(s[n])
      /\ ~ s[n].keeps => MayClear(s[n], s[n - 1])
  <2>1. n \in 2 .. n
    BY <1>7
  <2> QED
    BY <2>1 DEF StackInv
<1>10. /\ ready' # ready => s[n].backend = "this" /\ s[n].closes
       /\ shard' # shard => s[n].backend = "this" /\ ~ s[n].keeps
  BY <1>5, <1>8 DEF Exit
<1> HIDE DEF s, n
<1> QED
  BY <1>6, <1>8, <1>9, <1>10 DEF MayClose, MayClear, s

\* Leaving an inner context closes or clears what the outer ones use only if it was
\* told to, or told nothing inside another backend's context.
THEOREM ContextsNest == Spec => InnerKeepsOuter
<1>1. LifeTypes /\ StackInv /\ [Next]_vars =>
        [\A t \in Tasks :
           Len(stack'[t]) < Len(stack[t]) /\ stack'[t] # <<>> =>
         LET inner == Last(stack[t])
             outer == Last(stack'[t])
         IN  /\ ready' # ready => inner.backend = "this" /\ inner.asked.close_on_exit = TRUE
             /\ shard' # shard =>
                  /\ inner.backend = "this"
                  /\ \/ inner.asked.persistent = FALSE
                     \/ /\ inner.asked.persistent = None
                        /\ outer.backend # "this" /\ ~Persistent]_vars
  BY StepKeepsOuter
<1>2. [Next /\ Bounded]_vars => [Next]_vars
  OBVIOUS
<1> QED
  BY <1>1, <1>2, LifeTypesInductive, StackInvInductive, PTL DEF Spec, InnerKeepsOuter
=============================================================================
