------------------------ MODULE SharedTableProofs -------------------------
(***************************************************************************)
(* Proofs about SharedTable, for any finite set of keys, any table size,   *)
(* workers, generations and thresholds: the slots, the probes, the absence *)
(* of a standstill, the keys without data, what writes touch, and that the *)
(* shard is the map that a backend promises.                               *)
(*                                                                         *)
(* SlotsPartitioned is not inductive: what a key's bucket says of its slot *)
(* must survive a rebuild of the table, which finds every key only because *)
(* every probe ends, at a bucket that was never used.  The invariant (Kept)*)
(* therefore counts: keys and tombs leave a bucket empty.  The semaphores  *)
(* add who may be writing (SemaphoresHeld), and the parity of a generation *)
(* whether the slot is some key's (Turned).                                *)
(*                                                                         *)
(* What a write touches (OwnInv) rests on the references of the calls: as  *)
(* long as a reference is current, its slot is its key's, and a free slot  *)
(* with data is one that a clear has yet to wipe.  A reference that was    *)
(* given before the generations came round could be current again, so the  *)
(* last two theorems take it that they do not (NeverWraps).                *)
(***************************************************************************)
EXTENDS SharedTable, TLAPS, FiniteSetTheorems, SequenceTheorems, WellFoundedInduction

----------------------------------------------------------------------------
(* Numbers. *)

\* A set of natural numbers that is not empty has a least one.
LEMMA LeastNumber ==
  ASSUME NEW T \in SUBSET Nat, T # {}
  PROVE  \E n \in T : \A m \in T : n <= m
<1> DEFINE R == OpToRel(<, Nat)
<1>1. \E n \in T : \A m \in T : ~ (<<m, n>> \in R)
  <2>1. IsWellFoundedOn(R, Nat)
    BY NatLessThanWellFounded
  <2> HIDE DEF R
  <2> QED
    BY <2>1, WFMin
<1>2. \A m, n \in Nat : <<m, n>> \in R <=> m < n
  BY DEF OpToRel
<1> HIDE DEF R
<1>3. PICK n \in T : \A m \in T : ~ (<<m, n>> \in R)
  BY <1>1
<1>4. \A m \in T : ~ (m < n)
  BY <1>2, <1>3
<1> QED
  BY <1>4

\* The largest of some of the first n numbers is one of them.
LEMMA LargestNumber ==
  ASSUME NEW n \in Nat, NEW S \in SUBSET (1 .. n), S # {}
  PROVE  Max(S) \in S /\ \A m \in S : Max(S) >= m
<1> DEFINE T == {n - m : m \in S}
<1>1. /\ T \in SUBSET Nat /\ T # {}
      /\ \A k \in S : k \in Nat /\ n - k \in T
  <2>1. \A k \in S : k \in Nat /\ n - k \in Nat
    OBVIOUS
  <2> QED
    BY <2>1
<1>2. PICK t \in T : \A u \in T : t <= u
  <2> HIDE DEF T
  <2> QED
    BY <1>1, LeastNumber
<1>3. PICK m \in S : t = n - m
  OBVIOUS
<1>4. \A k \in S : m >= k
  <2> HIDE DEF T
  <2> QED
    BY <1>1, <1>2, <1>3
<1> QED
  BY <1>4 DEF Max

\* The set of the first n numbers.
LEMMA FirstNumbers ==
  ASSUME NEW n \in Nat
  PROVE  /\ 1 .. 0 = {}
         /\ Max(1 .. n + 1) = n + 1
         /\ (1 .. n + 1) \ {n + 1} = 1 .. n
<1> DEFINE S == 1 .. n + 1
<1>1. n + 1 \in Nat /\ S \in SUBSET (1 .. n + 1) /\ S # {} /\ n + 1 \in S
  OBVIOUS
<1> HIDE DEF S
<1>2. Max(S) \in S /\ Max(S) >= n + 1
  BY <1>1, LargestNumber
<1> USE DEF S
<1> QED
  BY <1>2

\* A finite set is listed without repetition.
LEMMA SetListed ==
  ASSUME NEW S, IsFiniteSet(S)
  PROVE  /\ SetToSeq(S) \in Seq(S)
         /\ \A x \in S : \E i \in DOMAIN SetToSeq(S) : SetToSeq(S)[i] = x
         /\ \A i, j \in DOMAIN SetToSeq(S) : SetToSeq(S)[i] = SetToSeq(S)[j] => i = j
         /\ Len(SetToSeq(S)) = Cardinality(S)
<1>1. Cardinality(S) \in Nat /\ ExistsBijection(1 .. Cardinality(S), S)
  BY FS_CardinalityType
<1>2. PICK f \in Bijection(1 .. Cardinality(S), S) : TRUE
  BY <1>1 DEF ExistsBijection
<1>3. f \in [1 .. Cardinality(S) -> S] /\ IsInjective(f)
  BY <1>2 DEF Bijection, Injection, IsInjective
<1> DEFINE s == SetToSeq(S)
<1>4. s \in [1 .. Cardinality(S) -> S] /\ IsInjective(s)
  BY <1>3 DEF SetToSeq
<1> HIDE DEF s
<1>5. s \in Seq(S) /\ Len(s) = Cardinality(S) /\ DOMAIN s = 1 .. Cardinality(S)
  BY <1>1, <1>4
<1>6. s \in Injection(1 .. Cardinality(S), S)
  BY <1>4 DEF Injection, IsInjective
<1>7. \A x \in S : \E i \in 1 .. Cardinality(S) : s[i] = x
  <2>1. s \in Surjection(1 .. Cardinality(S), S)
    <3>1. IsFiniteSet(1 .. Cardinality(S)) /\ Cardinality(1 .. Cardinality(S)) = Cardinality(S)
      BY <1>1, FS_Interval
    <3> QED
      BY <1>6, <3>1, FS_Injection
  <2> QED
    BY <2>1 DEF Surjection
<1>8. \A i, j \in DOMAIN s : s[i] = s[j] => i = j
  BY <1>4 DEF IsInjective
<1> QED
  BY <1>5, <1>7, <1>8 DEF s

----------------------------------------------------------------------------
(* Folds.  FoldLeft recurses over sets of positions in a list; the first positions
   are such sets. *)

\* What the model's folds do with one element of their lists.
Change(v, x) ==
  IF x.does = "upsert" THEN Upsert(v, x.key, x.slot)
  ELSE IF x.does = "assign" THEN IF Has(v.table, x.key) \/ v.free = <<>> THEN v ELSE Allocated(v, x.key)
  ELSE IF x.does = "free" THEN Freed(v, x.key)
  ELSE IF x.does = "list" THEN Append(v, x.key)
  ELSE v

\* g is the function by which FoldLeft makes the changes of the list s to d.
Changes(d, s, g) ==
  g = [S \in SUBSET DOMAIN s |->
         IF S = {} THEN d ELSE LET i == Max(S) IN Change(g[S \ {i}], s[i])]

\* There is such a function: its recursion removes an element of a finite set.
LEMMA ChangesExist ==
  ASSUME NEW d, NEW n \in Nat, NEW s, DOMAIN s = 1 .. n
  PROVE  \E g : Changes(d, s, g)
<1> DEFINE D == SUBSET (1 .. n)
           Def(g, S) == IF S = {} THEN d ELSE LET i == Max(S) IN Change(g[S \ {i}], s[i])
           Upto(g, k) == \A S \in D : Cardinality(S) <= k => g[S] = Def(g, S)
           Bad == {k \in Nat : ~ \E g : Upto(g, k)}
<1>1. \A S \in D : IsFiniteSet(S) /\ Cardinality(S) \in Nat /\ Cardinality(S) <= n
  <2>1. IsFiniteSet(1 .. n) /\ Cardinality(1 .. n) = n
    BY FS_Interval
  <2>2. \A S \in D : IsFiniteSet(S) /\ Cardinality(S) <= Cardinality(1 .. n)
    BY <2>1, FS_Subset
  <2> QED
    BY <2>1, <2>2, FS_CardinalityType
<1>2. \A S \in D : S # {} => Max(S) \in S /\ S \ {Max(S)} \in D /\ Cardinality(S \ {Max(S)}) = Cardinality(S) - 1
  <2>1. ASSUME NEW S \in D, S # {}
        PROVE  Max(S) \in S /\ S \ {Max(S)} \in D /\ Cardinality(S \ {Max(S)}) = Cardinality(S) - 1
    <3>1. Max(S) \in S
      BY <2>1, LargestNumber
    <3> QED
      BY <1>1, <3>1, FS_RemoveElement
  <2> QED
    BY <2>1
<1>3. 0 \notin Bad
  <2> DEFINE g == [S \in D |-> d]
  <2>1. \A S \in D : Cardinality(S) <= 0 => S = {}
    BY <1>1, FS_EmptySet
  <2>2. Upto(g, 0)
    BY <2>1
  <2> QED
    BY <2>2
<1>4. ASSUME NEW k \in Nat, NEW g, Upto(g, k)
      PROVE  \E h : Upto(h, k + 1)
  <2> DEFINE h == [S \in D |-> Def(g, S)]
  <2>1. \A S \in D : Cardinality(S) <= k => h[S] = g[S]
    BY <1>4
  <2>2. ASSUME NEW S \in D, Cardinality(S) <= k + 1, S # {}
        PROVE  h[S] = Def(h, S)
    <3> DEFINE i == Max(S)
    <3>1. S \ {i} \in D /\ Cardinality(S \ {i}) <= k
      BY <1>1, <1>2, <2>2
    <3>2. h[S \ {i}] = g[S \ {i}]
      BY <2>1, <3>1
    <3>3. h[S] = Change(g[S \ {i}], s[i])
      BY <2>2
    <3> QED
      BY <2>2, <3>2, <3>3
  <2>3. Upto(h, k + 1)
    BY <2>2
  <2> QED
    BY <2>3
<1>5. Bad = {}
  <2> SUFFICES ASSUME Bad # {} PROVE FALSE
    OBVIOUS
  <2>1. PICK k \in Bad : \A m \in Bad : k <= m
    BY LeastNumber
  <2>2. k - 1 \in Nat /\ k - 1 \notin Bad
    <3> HIDE DEF Upto
    <3>1. k \in Nat /\ k # 0
      BY <1>3
    <3>2. k - 1 \in Nat /\ ~ (k <= k - 1)
      BY <3>1
    <3> QED
      BY <2>1, <3>2
  <2>3. PICK g : Upto(g, k - 1)
    BY <2>2
  <2>4. (k - 1) + 1 = k
    BY <2>1
  <2> HIDE DEF Upto
  <2> QED
    BY <1>4, <2>1, <2>2, <2>3, <2>4
<1>6. \E g : Upto(g, n)
  <2> HIDE DEF Upto
  <2> QED
    BY <1>5
<1> PICK g : Upto(g, n)
  BY <1>6
<1> DEFINE h == [S \in D |-> g[S]]
<1>7. \A S \in D : h[S] = Def(h, S)
  BY <1>1, <1>2
<1>8. Changes(d, s, h)
  BY <1>7 DEF Changes
<1> QED
  BY <1>8

\* g makes the first n changes of s to d one after the other.
InOrder(d, s, n, g) ==
  /\ g[1 .. 0] = d
  /\ \A i \in 0 .. n - 1 : g[1 .. i + 1] = Change(g[1 .. i], s[i + 1])

\* The function does.
LEMMA ChangesInOrder ==
  ASSUME NEW d, NEW n \in Nat, NEW s, DOMAIN s = 1 .. n, NEW g, Changes(d, s, g)
  PROVE  InOrder(d, s, n, g)
<1>1. \A S \in SUBSET (1 .. n) : g[S] = IF S = {} THEN d ELSE LET i == Max(S) IN Change(g[S \ {i}], s[i])
  BY DEF Changes
<1>2. g[1 .. 0] = d
  <2>1. 1 .. 0 = {} /\ {} \in SUBSET (1 .. n)
    OBVIOUS
  <2>2. g[{}] = d
    BY <1>1, <2>1
  <2> QED
    BY <2>1, <2>2
<1>3. ASSUME NEW i \in 0 .. n - 1 PROVE g[1 .. i + 1] = Change(g[1 .. i], s[i + 1])
  <2>1. i \in Nat /\ 1 .. i + 1 \in SUBSET (1 .. n) /\ 1 .. i + 1 # {}
    OBVIOUS
  <2>2. Max(1 .. i + 1) = i + 1 /\ (1 .. i + 1) \ {i + 1} = 1 .. i
    BY <2>1, FirstNumbers
  <2>3. g[1 .. i + 1] = Change(g[(1 .. i + 1) \ {Max(1 .. i + 1)}], s[Max(1 .. i + 1)])
    BY <1>1, <2>1
  <2> QED
    BY <2>2, <2>3
<1> QED
  BY <1>2, <1>3 DEF InOrder

USE TableAssumption

----------------------------------------------------------------------------
(* Probing. *)

\* A probe is a bucket, no two probes of a key are the same, and every bucket is
\* one of them.
LEMMA ProbesAreBuckets ==
  ASSUME NEW k \in Keys
  PROVE  /\ \A i \in Buckets : Probe(k, i) \in Buckets
         /\ \A i, j \in Buckets : Probe(k, i) = Probe(k, j) => i = j
         /\ \A b \in Buckets : \E i \in Buckets : Probe(k, i) = b
<1> DEFINE h == Hash[k]
<1>1. h \in 0 .. Capacity - 1 /\ Capacity \in Nat \ {0}
  OBVIOUS
<1> HIDE DEF h
<1>2. ASSUME NEW i \in Buckets
      PROVE  (h + i) % Capacity = IF h + i < Capacity THEN h + i ELSE h + i - Capacity
  <2>1. i \in Nat /\ i < Capacity
    BY DEF Buckets
  <2>2. CASE h + i < Capacity
    BY <1>1, <2>1, <2>2
  <2>3. CASE ~ (h + i < Capacity)
    <3> DEFINE a == h + i - Capacity
    <3>1. a \in 0 .. Capacity - 1 /\ a + Capacity = h + i
      BY <1>1, <2>1, <2>3
    <3> HIDE DEF a
    <3>2. (a + Capacity) % Capacity = a
      BY <1>1, <3>1
    <3> USE DEF a
    <3> QED
      BY <2>3, <3>1, <3>2
  <2> QED
    BY <2>2, <2>3
<1>3. \A i \in Buckets : Probe(k, i) = IF h + i < Capacity THEN h + i ELSE h + i - Capacity
  BY <1>2 DEF Probe, h
<1>4. ASSUME NEW b \in Buckets PROVE \E i \in Buckets : Probe(k, i) = b
  <2> DEFINE i == IF b >= h THEN b - h ELSE b - h + Capacity
  <2>1. i \in Buckets /\ (IF h + i < Capacity THEN h + i ELSE h + i - Capacity) = b
    BY <1>1 DEF Buckets
  <2> QED
    BY <1>3, <2>1
<1>5. \A i \in Buckets : Probe(k, i) \in Buckets
  BY <1>1, <1>3 DEF Buckets
<1>6. \A i, j \in Buckets : Probe(k, i) = Probe(k, j) => i = j
  BY <1>1, <1>3 DEF Buckets
<1> QED
  BY <1>4, <1>5, <1>6

\* What First finds, if there is anything to be found.
LEMMA FirstFinds ==
  ASSUME NEW k \in Keys, NEW t, NEW held, NEW b \in Buckets, t[b].key \in held
  PROVE  \E i \in Buckets : /\ First(t, k, held) = Probe(k, i)
                            /\ t[Probe(k, i)].key \in held
                            /\ \A j \in 0 .. i - 1 : t[Probe(k, j)].key \notin held
<1> DEFINE T == {i \in Buckets : t[Probe(k, i)].key \in held}
<1>1. T \in SUBSET Nat /\ T # {}
  BY ProbesAreBuckets DEF Buckets
<1>2. PICK i \in T : \A j \in T : i <= j
  BY <1>1, LeastNumber
<1>3. \A j \in 0 .. i - 1 : t[Probe(k, j)].key \notin held
  <2> SUFFICES ASSUME NEW j \in 0 .. i - 1, t[Probe(k, j)].key \in held PROVE FALSE
    OBVIOUS
  <2>1. j \in Buckets /\ ~ (i <= j)
    BY DEF Buckets
  <2> QED
    BY <1>2, <2>1
<1>4. \E n \in Buckets : t[Probe(k, n)].key \in held /\ \A j \in 0 .. n - 1 : t[Probe(k, j)].key \notin held
  BY <1>3
<1> DEFINE n == CHOOSE n \in Buckets : t[Probe(k, n)].key \in held /\ \A j \in 0 .. n - 1 : t[Probe(k, j)].key \notin held
<1>5. n \in Buckets /\ t[Probe(k, n)].key \in held /\ \A j \in 0 .. n - 1 : t[Probe(k, j)].key \notin held
  BY <1>4
<1>6. First(t, k, held) = Probe(k, n)
  BY DEF First
<1> HIDE DEF n
<1> QED
  BY <1>5, <1>6

----------------------------------------------------------------------------
(* Tables. *)

\* The tables, what they hold aside.
Tables == [Buckets -> [key : Keys \cup {Empty, Tombstone}, slot : Slots \cup {0}]]

\* The buckets of a table that have a key, and those that had one.
Keyed(t) == {b \in Buckets : t[b].key \in Keys}

\* The buckets whose key was deleted.
Tombs(t) == {b \in Buckets : t[b].key = Tombstone}

\* On the way to a key there is no empty bucket, and not the key itself.
Findable(t) ==
  \A k \in Keys, i \in Buckets :
    t[Probe(k, i)].key = k => \A j \in 0 .. i - 1 : t[Probe(k, j)].key \notin {k, Empty}

\* A table in which keys can be looked for, and without leftovers in empty buckets.
Sound(t) ==
  /\ t \in Tables /\ Findable(t)
  /\ \A b \in Buckets : t[b].key = Empty => t[b].slot = 0

\* Some bucket was never used: a probe ends there at the latest.
HasRoom(t) == \E b \in Buckets : t[b].key = Empty

\* The search for a key that is there ends where it is.
LEMMA KeyIsFound ==
  ASSUME NEW t, Sound(t), NEW k \in Keys, NEW b \in Buckets, t[b].key = k
  PROVE  Has(t, k) /\ Lookup(t, k) = b
<1>1. PICK i \in Buckets : Probe(k, i) = b
  BY ProbesAreBuckets
<1>2. PICK n \in Buckets : /\ First(t, k, {k, Empty}) = Probe(k, n)
                           /\ t[Probe(k, n)].key \in {k, Empty}
                           /\ \A j \in 0 .. n - 1 : t[Probe(k, j)].key \notin {k, Empty}
  BY FirstFinds
<1>3. \A j \in 0 .. i - 1 : t[Probe(k, j)].key \notin {k, Empty}
  BY <1>1 DEF Sound, Findable
<1>4. i = n
  <2>1. i \in Nat /\ n \in Nat
    BY DEF Buckets
  <2>2. CASE i < n
    <3>1. i \in 0 .. n - 1
      BY <2>1, <2>2
    <3> QED
      BY <1>1, <1>2, <3>1
  <2>3. CASE n < i
    <3>1. n \in 0 .. i - 1
      BY <2>1, <2>3
    <3> QED
      BY <1>2, <1>3, <3>1
  <2> QED
    BY <2>1, <2>2, <2>3
<1> QED
  BY <1>1, <1>2, <1>4 DEF Has, Lookup

\* A key is in one bucket only.
LEMMA KeyedOnce ==
  ASSUME NEW t, Sound(t), NEW b \in Keyed(t), NEW c \in Keyed(t), t[b].key = t[c].key
  PROVE  b = c
BY KeyIsFound DEF Keyed

\* The search for a key that is not there ends at a bucket where it can be put.
LEMMA KeyIsMissed ==
  ASSUME NEW t, Sound(t), HasRoom(t), NEW k \in Keys, \A b \in Buckets : t[b].key # k
  PROVE  /\ ~ Has(t, k)
         /\ \E i \in Buckets : /\ Lookup(t, k) = Probe(k, i)
                               /\ t[Probe(k, i)].key \in {Tombstone, Empty}
                               /\ \A j \in 0 .. i - 1 : t[Probe(k, j)].key \notin {Tombstone, Empty}
<1>1. PICK e \in Buckets : t[e].key = Empty
  BY DEF HasRoom
<1>2. PICK n \in Buckets : First(t, k, {k, Empty}) = Probe(k, n) /\ t[Probe(k, n)].key \in {k, Empty}
  BY <1>1, FirstFinds
<1>3. ~ Has(t, k)
  BY <1>2, ProbesAreBuckets DEF Has
<1>4. \E i \in Buckets : /\ First(t, k, {Tombstone, Empty}) = Probe(k, i)
                         /\ t[Probe(k, i)].key \in {Tombstone, Empty}
                         /\ \A j \in 0 .. i - 1 : t[Probe(k, j)].key \notin {Tombstone, Empty}
  BY <1>1, FirstFinds
<1> QED
  BY <1>3, <1>4 DEF Lookup

\* So a table has a key if some bucket does.
LEMMA HasMeans ==
  ASSUME NEW t, Sound(t), HasRoom(t), NEW k \in Keys
  PROVE  Has(t, k) <=> \E b \in Buckets : t[b].key = k
BY KeyIsFound, KeyIsMissed

\* With fewer keys and tombstones than buckets, some bucket is empty.
LEMMA RoomLeft ==
  ASSUME NEW t \in Tables, Cardinality(Keyed(t)) + Cardinality(Tombs(t)) < Capacity
  PROVE  HasRoom(t)
<1>1. IsFiniteSet(Buckets) /\ Cardinality(Buckets) = Capacity
  BY FS_Interval DEF Buckets
<1>2. IsFiniteSet(Keyed(t)) /\ IsFiniteSet(Tombs(t)) /\ Keyed(t) \cap Tombs(t) = {}
  BY <1>1, FS_Subset DEF Keyed, Tombs
<1>3. Cardinality(Keyed(t) \cup Tombs(t)) = Cardinality(Keyed(t)) + Cardinality(Tombs(t))
  <2>1. Cardinality(Keyed(t) \cup Tombs(t)) = Cardinality(Keyed(t)) + Cardinality(Tombs(t)) - Cardinality(Keyed(t) \cap Tombs(t))
    BY <1>2, FS_Union
  <2>2. Cardinality(Keyed(t) \cap Tombs(t)) = 0 /\ Cardinality(Keyed(t)) \in Nat /\ Cardinality(Tombs(t)) \in Nat
    BY <1>2, FS_EmptySet, FS_CardinalityType
  <2> QED
    BY <2>1, <2>2
<1>4. Keyed(t) \cup Tombs(t) # Buckets
  <2> DEFINE B == Keyed(t) \cup Tombs(t)
  <2>1. Cardinality(B) = Cardinality(Keyed(t)) + Cardinality(Tombs(t))
    BY <1>3
  <2> HIDE DEF B
  <2>2. B # Buckets
    BY <1>1, <2>1
  <2> QED
    BY <2>2 DEF B
<1>5. PICK b \in Buckets : b \notin Keyed(t) /\ b \notin Tombs(t)
  BY <1>4 DEF Keyed, Tombs
<1> QED
  BY <1>5 DEF Keyed, Tombs, HasRoom, Tables

\* A new key is put where its search ends, and no other key gets lost by that.
LEMMA Upserted ==
  ASSUME NEW t, Sound(t), HasRoom(t), NEW k \in Keys, NEW s \in Slots \cup {0}, ~ Has(t, k)
  PROVE  /\ Sound(Upsert(t, k, s))
         /\ \E b \in Buckets \ Keyed(t) :
              /\ Upsert(t, k, s) = [t EXCEPT ![b] = Bucket(k, s)]
              /\ Keyed(Upsert(t, k, s)) = Keyed(t) \cup {b}
              /\ Tombs(Upsert(t, k, s)) \subseteq Tombs(t)
<1>1. \A b \in Buckets : t[b].key # k
  BY HasMeans
<1>2. PICK i \in Buckets : /\ Lookup(t, k) = Probe(k, i)
                           /\ t[Probe(k, i)].key \in {Tombstone, Empty}
                           /\ \A j \in 0 .. i - 1 : t[Probe(k, j)].key \notin {Tombstone, Empty}
  BY <1>1, KeyIsMissed
<1> DEFINE b == Probe(k, i)
           u == Upsert(t, k, s)
<1>3. b \in Buckets /\ b \notin Keyed(t) /\ u = [t EXCEPT ![b] = Bucket(k, s)]
  BY <1>2, ProbesAreBuckets DEF Upsert, Keyed
<1>4. Bucket(k, s) \in [key : Keys \cup {Empty, Tombstone}, slot : Slots \cup {0}] /\ Bucket(k, s).key = k
  BY DEF Bucket
<1>5. t \in Tables
  BY DEF Sound
<1>6. u \in Tables /\ u[b].key = k /\ \A c \in Buckets : c # b => u[c] = t[c]
  <2> HIDE DEF b
  <2> QED
    BY <1>3, <1>4, <1>5 DEF Tables
<1> HIDE DEF u
<1>7. Findable(u)
  <2> SUFFICES ASSUME NEW q \in Keys, NEW n \in Buckets, u[Probe(q, n)].key = q, NEW j \in 0 .. n - 1
               PROVE  u[Probe(q, j)].key \notin {q, Empty}
    BY DEF Findable
  <2>1. j \in Buckets /\ j # n /\ Probe(q, n) \in Buckets /\ Probe(q, j) \in Buckets /\ Probe(q, j) # Probe(q, n)
    <3>1. j \in Buckets /\ j # n
      BY DEF Buckets
    <3> QED
      BY <3>1, ProbesAreBuckets
  <2>2. CASE q = k
    <3>1. Probe(k, n) = b
      BY <1>1, <1>6, <2>1, <2>2
    <3>2. n = i
      BY <3>1, ProbesAreBuckets
    <3>3. t[Probe(k, j)].key \notin {k, Empty}
      BY <1>1, <1>2, <2>1, <2>2, <3>2
    <3> QED
      BY <1>6, <2>1, <2>2, <3>1, <3>3
  <2>3. CASE q # k
    <3>1. t[Probe(q, n)].key = q
      BY <1>6, <2>1, <2>3
    <3>2. t[Probe(q, j)].key \notin {q, Empty}
      BY <3>1 DEF Sound, Findable
    <3> QED
      BY <1>6, <2>1, <2>3, <3>2
  <2> QED
    BY <2>2, <2>3
<1>8. Sound(u)
  BY <1>6, <1>7 DEF Sound
<1>9. Keyed(u) = Keyed(t) \cup {b} /\ Tombs(u) \subseteq Tombs(t)
  BY <1>3, <1>6 DEF Keyed, Tombs
<1> QED
  BY <1>3, <1>8, <1>9 DEF u

\* A deleted key leaves a tombstone, and no other key gets lost by that.
LEMMA Buried ==
  ASSUME NEW t, Sound(t), NEW b \in Keyed(t)
  PROVE  LET u == [t EXCEPT ![b].key = Tombstone]
         IN  /\ Sound(u)
             /\ Keyed(u) = Keyed(t) \ {b}
             /\ Tombs(u) = Tombs(t) \cup {b}
             /\ \A c \in Buckets : c # b => u[c] = t[c]
<1> DEFINE u == [t EXCEPT ![b].key = Tombstone]
<1>1. t \in Tables /\ b \in Buckets /\ t[b].key \in Keys
  BY DEF Sound, Keyed
<1>2. u \in Tables /\ u[b].key = Tombstone /\ \A c \in Buckets : c # b => u[c] = t[c]
  BY <1>1 DEF Tables
<1> HIDE DEF u
<1>3. Findable(u)
  <2> SUFFICES ASSUME NEW q \in Keys, NEW n \in Buckets, u[Probe(q, n)].key = q, NEW j \in 0 .. n - 1
               PROVE  u[Probe(q, j)].key \notin {q, Empty}
    BY DEF Findable
  <2>1. Probe(q, n) \in Buckets /\ Probe(q, j) \in Buckets
    <3>1. j \in Buckets
      BY DEF Buckets
    <3> QED
      BY <3>1, ProbesAreBuckets
  <2>2. t[Probe(q, n)].key = q
    BY <1>2, <2>1
  <2>3. t[Probe(q, j)].key \notin {q, Empty}
    BY <2>2 DEF Sound, Findable
  <2> QED
    BY <1>2, <2>1, <2>3
<1>4. Sound(u)
  BY <1>1, <1>2, <1>3 DEF Sound
<1>5. Keyed(u) = Keyed(t) \ {b} /\ Tombs(u) = Tombs(t) \cup {b}
  BY <1>1, <1>2 DEF Keyed, Tombs
<1> QED
  BY <1>2, <1>4, <1>5 DEF u

----------------------------------------------------------------------------
(* The rebuilt table. *)

\* g is the function by which FoldLeft rebuilds the table t.
Rebuilds(t, g) ==
  g = [S \in SUBSET DOMAIN BucketList |->
         IF S = {} THEN EmptyTable
         ELSE LET i == Max(S)
              IN  IF t[BucketList[i]].key \in Keys
                  THEN Upsert(g[S \ {i}], t[BucketList[i]].key, t[BucketList[i]].slot)
                  ELSE g[S \ {i}]]

\* The changes a rebuild makes to an empty table, one for each bucket with a key.
RebuildTasks(t) ==
  [i \in 1 .. Capacity |->
     [does |-> IF t[i - 1].key \in Keys THEN "upsert" ELSE "skip", key |-> t[i - 1].key, slot |-> t[i - 1].slot]]

\* A rebuild puts the keys of the old table into the new one, bucket after bucket.
LEMMA RebuiltInOrder ==
  ASSUME NEW t
  PROVE  \E h : /\ h[0] = EmptyTable
                /\ \A i \in Buckets :
                     h[i + 1] = IF t[i].key \in Keys THEN Upsert(h[i], t[i].key, t[i].slot) ELSE h[i]
                /\ Rebuilt(t) = h[Capacity]
<1> DEFINE s == RebuildTasks(t)
<1>1. Rebuilt(t) = (CHOOSE g : Rebuilds(t, g))[DOMAIN BucketList]
  BY DEF Rebuilt, FoldLeft, MapThenFoldSet, Rebuilds
<1>2. DOMAIN BucketList = 1 .. Capacity /\ DOMAIN s = 1 .. Capacity /\ Capacity \in Nat
  BY DEF BucketList, RebuildTasks
<1>3. ASSUME NEW v, NEW i \in 1 .. Capacity
      PROVE  Change(v, s[i]) = IF t[BucketList[i]].key \in Keys
                               THEN Upsert(v, t[BucketList[i]].key, t[BucketList[i]].slot) ELSE v
  BY DEF Change, RebuildTasks, BucketList
<1>4. \A S \in SUBSET (1 .. Capacity) : S # {} => Max(S) \in 1 .. Capacity
  BY <1>2, LargestNumber
<1> HIDE DEF s
<1>5. \A g : Rebuilds(t, g) <=> Changes(EmptyTable, s, g)
  <2> TAKE g
  <2> DEFINE A == [S \in SUBSET (1 .. Capacity) |->
                     IF S = {} THEN EmptyTable
                     ELSE LET i == Max(S)
                          IN  IF t[BucketList[i]].key \in Keys
                              THEN Upsert(g[S \ {i}], t[BucketList[i]].key, t[BucketList[i]].slot)
                              ELSE g[S \ {i}]]
             B == [S \in SUBSET (1 .. Capacity) |->
                     IF S = {} THEN EmptyTable ELSE LET i == Max(S) IN Change(g[S \ {i}], s[i])]
  <2>1. A = B
    BY <1>3, <1>4
  <2>2. Rebuilds(t, g) <=> g = A
    BY <1>2 DEF Rebuilds
  <2>3. Changes(EmptyTable, s, g) <=> g = B
    BY <1>2 DEF Changes
  <2> HIDE DEF A, B
  <2> QED
    BY <2>1, <2>2, <2>3
<1>6. \E g : Rebuilds(t, g)
  <2>1. \E g : Changes(EmptyTable, s, g)
    BY <1>2, ChangesExist
  <2> QED
    BY <1>5, <2>1
<1>7. PICK g : Rebuilds(t, g) /\ g = CHOOSE f : Rebuilds(t, f)
  BY <1>6
<1>8. /\ g[1 .. 0] = EmptyTable
      /\ \A i \in 0 .. Capacity - 1 : g[1 .. i + 1] = Change(g[1 .. i], s[i + 1])
  <2>1. Changes(EmptyTable, s, g)
    BY <1>5, <1>7
  <2>2. InOrder(EmptyTable, s, Capacity, g)
    BY <1>2, <2>1, ChangesInOrder
  <2> QED
    BY <2>2 DEF InOrder
<1> DEFINE h == [i \in 0 .. Capacity |-> g[1 .. i]]
<1>9. h[0] = EmptyTable /\ Rebuilt(t) = h[Capacity]
  BY <1>1, <1>2, <1>7, <1>8
<1>10. ASSUME NEW i \in Buckets
       PROVE  h[i + 1] = IF t[i].key \in Keys THEN Upsert(h[i], t[i].key, t[i].slot) ELSE h[i]
  <2>1. i \in 0 .. Capacity - 1 /\ i \in 0 .. Capacity /\ i + 1 \in 0 .. Capacity /\ i + 1 \in 1 .. Capacity /\ (i + 1) - 1 = i
    BY DEF Buckets
  <2>2. BucketList[i + 1] = i
    BY <2>1 DEF BucketList
  <2>3. h[i] = g[1 .. i] /\ h[i + 1] = g[1 .. i + 1]
    BY <2>1
  <2> HIDE DEF h
  <2>4. h[i + 1] = Change(h[i], s[i + 1])
    BY <1>8, <2>1, <2>3
  <2> QED
    BY <1>3, <2>1, <2>2, <2>4
<1> HIDE DEF h
<1> QED
  BY <1>9, <1>10

\* What a table says of its keys.
Entries(t) == {t[b] : b \in Keyed(t)}

\* Every key is counted once.
LEMMA EntriesCounted ==
  ASSUME NEW t, Sound(t)
  PROVE  /\ IsFiniteSet(Keyed(t)) /\ IsFiniteSet(Entries(t))
         /\ Cardinality(Entries(t)) = Cardinality(Keyed(t))
<1>1. IsFiniteSet(Keyed(t))
  <2>1. IsFiniteSet(Buckets)
    BY FS_Interval DEF Buckets
  <2> QED
    BY <2>1, FS_Subset DEF Keyed
<1> DEFINE f == [b \in Keyed(t) |-> t[b]]
<1>2. f \in Bijection(Keyed(t), Entries(t))
  <2>1. f \in Surjection(Keyed(t), Entries(t))
    BY DEF Surjection, Entries
  <2>2. \A b, c \in Keyed(t) : f[b] = f[c] => b = c
    BY KeyedOnce
  <2>3. f \in Injection(Keyed(t), Entries(t))
    BY <2>2 DEF Injection, IsInjective, Entries
  <2> QED
    BY <2>1, <2>3 DEF Bijection
<1> HIDE DEF f
<1>3. IsFiniteSet(Entries(t)) /\ Cardinality(Keyed(t)) = Cardinality(Entries(t))
  BY <1>1, <1>2, FS_Bijection DEF ExistsBijection
<1> QED
  BY <1>1, <1>3

\* The table u holds what the first i buckets of t hold.
Copied(t, u, i) ==
  /\ Sound(u) /\ Tombs(u) = {} /\ Cardinality(Keyed(u)) <= i
  /\ \A c \in Keyed(u) : \E b \in Keyed(t) : b < i /\ u[c] = t[b]
  /\ \A b \in Keyed(t) : b < i => \E c \in Keyed(u) : u[c] = t[b]

\* The new table starts empty.
LEMMA NothingCopied ==
  ASSUME NEW t
  PROVE  Copied(t, EmptyTable, 0) /\ HasRoom(EmptyTable)
<1>1. \A b \in Buckets : EmptyTable[b] = [key |-> Empty, slot |-> 0]
  BY DEF EmptyTable, EmptyBucket, Bucket
<1>2. EmptyTable \in Tables
  BY DEF EmptyTable, EmptyBucket, Bucket, Tables
<1>3. Findable(EmptyTable)
  BY <1>1, ProbesAreBuckets DEF Findable
<1>4. Keyed(EmptyTable) = {} /\ Tombs(EmptyTable) = {}
  BY <1>1 DEF Keyed, Tombs
<1>5. Cardinality(Keyed(EmptyTable)) = 0
  BY <1>4, FS_EmptySet
<1>6. Sound(EmptyTable)
  BY <1>1, <1>2, <1>3 DEF Sound
<1>7. \A b \in Keyed(t) : ~ (b < 0)
  BY DEF Keyed, Buckets
<1>8. 0 \in Buckets
  BY DEF Buckets
<1> QED
  BY <1>1, <1>4, <1>5, <1>6, <1>7, <1>8 DEF Copied, HasRoom

\* Another bucket is copied.
LEMMA OneMoreCopied ==
  ASSUME NEW t, Sound(t), NEW i \in Buckets, NEW u, Copied(t, u, i)
  PROVE  Copied(t, IF t[i].key \in Keys THEN Upsert(u, t[i].key, t[i].slot) ELSE u, i + 1)
<1>1. i \in Nat /\ i < Capacity /\ Capacity \in Nat /\ \A b \in Keyed(t) : b \in Nat
  BY DEF Buckets, Keyed
<1>2. Sound(u) /\ Tombs(u) = {} /\ IsFiniteSet(Keyed(u)) /\ Cardinality(Keyed(u)) \in Nat /\ Cardinality(Keyed(u)) <= i
  <2>1. Sound(u) /\ Tombs(u) = {} /\ Cardinality(Keyed(u)) <= i
    BY DEF Copied
  <2>2. IsFiniteSet(Keyed(u))
    BY <2>1, EntriesCounted
  <2> QED
    BY <2>1, <2>2, FS_CardinalityType
<1>3. CASE t[i].key \notin Keys
  <2>1. i \notin Keyed(t)
    BY <1>3 DEF Keyed
  <2>2. \A b \in Keyed(t) : b < i + 1 <=> b < i
    BY <1>1, <2>1
  <2>3. Cardinality(Keyed(u)) <= i + 1
    BY <1>1, <1>2
  <2> QED
    BY <1>3, <2>2, <2>3 DEF Copied
<1>4. CASE t[i].key \in Keys
  <2> DEFINE k == t[i].key
             s == t[i].slot
             v == Upsert(u, k, s)
  <2>1. i \in Keyed(t) /\ k \in Keys /\ s \in Slots \cup {0} /\ t[i] = Bucket(k, s)
    BY <1>4 DEF Keyed, Sound, Tables, Bucket
  <2>2. HasRoom(u)
    <3>1. Cardinality(Tombs(u)) = 0
      BY <1>2, FS_EmptySet
    <3>2. Cardinality(Keyed(u)) + Cardinality(Tombs(u)) < Capacity
      BY <1>1, <1>2, <3>1
    <3>3. u \in Tables
      BY <1>2 DEF Sound
    <3> QED
      BY <3>2, <3>3, RoomLeft
  <2>3. ~ Has(u, k)
    <3> SUFFICES ASSUME Has(u, k) PROVE FALSE
      OBVIOUS
    <3>1. PICK c \in Buckets : u[c].key = k
      BY <1>2, <2>1, <2>2, HasMeans
    <3>2. c \in Keyed(u)
      BY <2>1, <3>1 DEF Keyed
    <3>3. PICK b \in Keyed(t) : b < i /\ u[c] = t[b]
      BY <3>2 DEF Copied
    <3>4. b = i
      BY <2>1, <3>1, <3>3, KeyedOnce
    <3> QED
      BY <1>1, <3>3, <3>4
  <2>4. Sound(v) /\ \E b \in Buckets \ Keyed(u) :
              /\ v = [u EXCEPT ![b] = Bucket(k, s)]
              /\ Keyed(v) = Keyed(u) \cup {b}
              /\ Tombs(v) \subseteq Tombs(u)
    BY <1>2, <2>1, <2>2, <2>3, Upserted
  <2>5. PICK b \in Buckets \ Keyed(u) :
              /\ v = [u EXCEPT ![b] = Bucket(k, s)]
              /\ Keyed(v) = Keyed(u) \cup {b}
              /\ Tombs(v) \subseteq Tombs(u)
    BY <2>4
  <2>6. v[b] = t[i] /\ \A c \in Keyed(u) : v[c] = u[c]
    BY <1>2, <2>1, <2>5 DEF Sound, Tables, Keyed
  <2> HIDE DEF v
  <2>7. Cardinality(Keyed(v)) <= i + 1
    <3>1. Cardinality(Keyed(u) \cup {b}) = Cardinality(Keyed(u)) + 1
      BY <1>2, <2>5, FS_AddElement
    <3> QED
      <4>1. Cardinality(Keyed(v)) = Cardinality(Keyed(u)) + 1
        BY ONLY <2>5, <3>1
      <4> QED
        BY ONLY <1>1, <1>2, <4>1
  <2>8. ASSUME NEW c \in Keyed(v) PROVE \E a \in Keyed(t) : a < i + 1 /\ v[c] = t[a]
    <3>1. CASE c = b
      BY <1>1, <2>1, <2>6, <3>1
    <3>2. CASE c \in Keyed(u)
      <4>1. PICK a \in Keyed(t) : a < i /\ u[c] = t[a]
        BY <3>2 DEF Copied
      <4> QED
        BY <1>1, <2>6, <3>2, <4>1
    <3> QED
      BY <2>5, <3>1, <3>2
  <2>9. ASSUME NEW a \in Keyed(t), a < i + 1 PROVE \E c \in Keyed(v) : v[c] = t[a]
    <3>1. CASE a = i
      BY <2>5, <2>6, <3>1
    <3>2. CASE a < i
      <4>1. PICK c \in Keyed(u) : u[c] = t[a]
        BY <3>2 DEF Copied
      <4> QED
        BY <2>5, <2>6, <4>1
    <3> QED
      BY <1>1, <2>9, <3>1, <3>2
  <2>10. Tombs(v) = {}
    BY <1>2, <2>5
  <2>11. Copied(t, v, i + 1)
    BY <2>4, <2>7, <2>8, <2>9, <2>10 DEF Copied
  <2> QED
    BY <1>4, <2>11 DEF v
<1> QED
  BY <1>3, <1>4

\* A rebuild keeps what the table says of its keys, and leaves no tombstones.
LEMMA RebuiltSound ==
  ASSUME NEW t, Sound(t)
  PROVE  Sound(Rebuilt(t)) /\ Tombs(Rebuilt(t)) = {} /\ Entries(Rebuilt(t)) = Entries(t)
<1>1. PICK h : /\ h[0] = EmptyTable
               /\ \A i \in Buckets :
                    h[i + 1] = IF t[i].key \in Keys THEN Upsert(h[i], t[i].key, t[i].slot) ELSE h[i]
               /\ Rebuilt(t) = h[Capacity]
  BY RebuiltInOrder
<1> DEFINE Bad == {i \in 0 .. Capacity : ~ Copied(t, h[i], i)}
<1>2. Bad = {}
  <2> SUFFICES ASSUME Bad # {} PROVE FALSE
    OBVIOUS
  <2>1. PICK n \in Bad : \A m \in Bad : n <= m
    <3>1. Bad \in SUBSET Nat
      OBVIOUS
    <3> QED
      BY <3>1, LeastNumber
  <2>2. n # 0 /\ n \in 0 .. Capacity /\ ~ Copied(t, h[n], n)
    BY <1>1, <2>1, NothingCopied
  <2>3. n - 1 \in Buckets /\ n - 1 \in 0 .. Capacity /\ (n - 1) + 1 = n /\ ~ (n <= n - 1)
    BY <2>2 DEF Buckets
  <2>4. Copied(t, h[n - 1], n - 1)
    BY <2>1, <2>3
  <2>5. h[n] = IF t[n - 1].key \in Keys THEN Upsert(h[n - 1], t[n - 1].key, t[n - 1].slot) ELSE h[n - 1]
    BY <1>1, <2>3
  <2> QED
    BY <2>2, <2>3, <2>4, <2>5, OneMoreCopied
<1>3. Copied(t, Rebuilt(t), Capacity)
  <2>1. Capacity \in 0 .. Capacity
    OBVIOUS
  <2> QED
    BY <1>1, <1>2, <2>1
<1> HIDE DEF Bad
<1>4. \A b \in Keyed(t) : b < Capacity
  BY DEF Keyed, Buckets
<1> QED
  BY <1>3, <1>4 DEF Copied, Entries

----------------------------------------------------------------------------
(* What the map's semaphore guards. *)

\* The stack of free slots without its top.
LEMMA FrontOfStack ==
  ASSUME NEW f \in Seq(Slots), f # <<>>, IsInjective(f)
  PROVE  /\ Front(f) \in Seq(Slots) /\ Len(Front(f)) = Len(f) - 1 /\ IsInjective(Front(f))
         /\ Last(f) \in ToSet(f) /\ Last(f) \in Slots
         /\ ToSet(Front(f)) \subseteq ToSet(f) /\ Last(f) \notin ToSet(Front(f))
         /\ \A x \in ToSet(f) : x \in ToSet(Front(f)) \/ x = Last(f)
<1>1. Len(f) \in Nat \ {0} /\ DOMAIN f = 1 .. Len(f)
  BY EmptySeq
<1> DEFINE n == Len(f) - 1
<1>2. n \in Nat /\ n + 1 = Len(f) /\ 1 .. n \subseteq 1 .. Len(f) /\ Len(f) \in 1 .. Len(f)
  BY <1>1
<1>3. \A i \in 1 .. n : f[i] \in Slots
  BY <1>1, <1>2
<1> HIDE DEF n
<1> DEFINE g == SubSeq(f, 1, n)
<1>4. g \in Seq(Slots) /\ Len(g) = n /\ \A i \in 1 .. n : g[i] = f[i]
  <2>1. /\ SubSeq(f, 1, n) \in Seq(Slots)
        /\ Len(SubSeq(f, 1, n)) = IF 1 <= n THEN n - 1 + 1 ELSE 0
        /\ \A i \in 1 .. n - 1 + 1 : SubSeq(f, 1, n)[i] = f[1 + i - 1]
    BY ONLY <1>2, <1>3, SubSeqProperties
  <2>2. 1 .. n - 1 + 1 = 1 .. n /\ (IF 1 <= n THEN n - 1 + 1 ELSE 0) = n /\ \A i \in 1 .. n : 1 + i - 1 = i
    BY <1>2
  <2> QED
    BY <2>1, <2>2
<1> HIDE DEF g
<1>5. DOMAIN g = 1 .. n
  BY <1>4
<1>6. IsInjective(g) /\ ToSet(g) \subseteq ToSet(f) /\ f[Len(f)] \notin ToSet(g)
  <2>1. \A i, j \in 1 .. Len(f) : f[i] = f[j] => i = j
    BY <1>1 DEF IsInjective
  <2>2. IsInjective(g)
    BY <1>2, <1>4, <1>5, <2>1 DEF IsInjective
  <2>3. ToSet(g) \subseteq ToSet(f)
    BY <1>1, <1>2, <1>4, <1>5 DEF ToSet
  <2>4. f[Len(f)] \notin ToSet(g)
    <3> SUFFICES ASSUME NEW i \in 1 .. n, f[Len(f)] = g[i] PROVE FALSE
      BY <1>5 DEF ToSet
    <3>1. i = Len(f)
      BY <1>2, <1>4, <2>1
    <3> QED
      BY <1>2, <3>1
  <2> QED
    BY <2>2, <2>3, <2>4
<1>7. Front(f) = g /\ Last(f) = f[Len(f)]
  BY DEF Front, Last, g, n
<1> QED
  <2>1. f[Len(f)] \in ToSet(f) /\ f[Len(f)] \in Slots
    BY <1>1, <1>2 DEF ToSet
  <2>2. n = Len(f) - 1
    BY DEF n
  <2>3. \A x \in ToSet(f) : x \in ToSet(g) \/ x = f[Len(f)]
    <3> TAKE x \in ToSet(f)
    <3>1. PICK i \in 1 .. Len(f) : f[i] = x
      BY <1>1 DEF ToSet
    <3>2. i \in 1 .. n \/ i = Len(f)
      BY ONLY <1>2, i \in 1 .. Len(f)
    <3> QED
      BY <1>4, <1>5, <3>1, <3>2 DEF ToSet
  <2> QED
    BY <1>4, <1>6, <1>7, <2>1, <2>2, <2>3

\* The stack with a slot that was not on it.
LEMMA SlotPushed ==
  ASSUME NEW f \in Seq(Slots), IsInjective(f), NEW s \in Slots, s \notin ToSet(f)
  PROVE  /\ Append(f, s) \in Seq(Slots) /\ Len(Append(f, s)) = Len(f) + 1
         /\ IsInjective(Append(f, s)) /\ ToSet(Append(f, s)) = ToSet(f) \cup {s}
<1> DEFINE g == Append(f, s)
<1>1. /\ g \in Seq(Slots) /\ Len(g) = Len(f) + 1 /\ Len(f) \in Nat
      /\ \A i \in 1 .. Len(f) : g[i] = f[i]
      /\ g[Len(f) + 1] = s
  BY AppendProperties
<1>2. DOMAIN f = 1 .. Len(f) /\ DOMAIN g = 1 .. Len(f) + 1
  BY <1>1
<1> HIDE DEF g
<1>3. \A i \in 1 .. Len(f) : f[i] # s
  BY <1>2 DEF ToSet
<1>4. IsInjective(g)
  <2> SUFFICES ASSUME NEW i \in 1 .. Len(f) + 1, NEW j \in 1 .. Len(f) + 1, g[i] = g[j] PROVE i = j
    BY <1>2 DEF IsInjective
  <2>1. (i \in 1 .. Len(f) \/ i = Len(f) + 1) /\ (j \in 1 .. Len(f) \/ j = Len(f) + 1)
    BY <1>1
  <2>2. \A a, b \in 1 .. Len(f) : f[a] = f[b] => a = b
    BY <1>2 DEF IsInjective
  <2> QED
    BY <1>1, <1>3, <2>1, <2>2
<1>5. ToSet(g) = ToSet(f) \cup {s}
  <2>1. 1 .. Len(f) + 1 = (1 .. Len(f)) \cup {Len(f) + 1}
    BY <1>1
  <2> QED
    BY <1>1, <1>2, <2>1 DEF ToSet
<1> QED
  BY <1>1, <1>4, <1>5 DEF g

\* The part of the segment that the map's semaphore guards.
Maps == [table : Tables, deleted : Nat, free : Seq(Slots), gen : [Slots -> 0 .. Generations - 1]]

\* The books are kept: what is deleted are the tombstones, and a slot is free or some
\* key's.
Kept(m) ==
  /\ m \in Maps /\ Sound(m.table)
  /\ m.deleted < RebuildAt /\ Cardinality(Tombs(m.table)) <= m.deleted
  /\ IsInjective(m.free)
  /\ \A e, f \in Entries(m.table) : e.slot = f.slot => e = f
  /\ \A e \in Entries(m.table) : e.slot \in Slots /\ e.slot \notin ToSet(m.free)
  /\ Len(m.free) + Cardinality(Entries(m.table)) = MaxKeys

\* The numbers that the books keep.
LEMMA KeptNumbers ==
  ASSUME NEW m, Kept(m)
  PROVE  /\ m.deleted \in Nat /\ m.free \in Seq(Slots) /\ Len(m.free) \in Nat
         /\ IsFiniteSet(Keyed(m.table)) /\ IsFiniteSet(Entries(m.table)) /\ IsFiniteSet(Tombs(m.table))
         /\ Cardinality(Keyed(m.table)) \in Nat /\ Cardinality(Tombs(m.table)) \in Nat
         /\ Cardinality(Entries(m.table)) = Cardinality(Keyed(m.table))
<1>1. m.deleted \in Nat /\ m.free \in Seq(Slots) /\ Len(m.free) \in Nat
  BY DEF Kept, Maps
<1>2. IsFiniteSet(Tombs(m.table))
  <2>1. IsFiniteSet(Buckets)
    BY FS_Interval DEF Buckets
  <2> QED
    BY <2>1, FS_Subset DEF Tombs
<1>3. /\ IsFiniteSet(Keyed(m.table)) /\ IsFiniteSet(Entries(m.table))
      /\ Cardinality(Entries(m.table)) = Cardinality(Keyed(m.table))
  BY EntriesCounted DEF Kept
<1> QED
  BY <1>1, <1>2, <1>3, FS_CardinalityType

\* A table whose books are kept has room.
LEMMA KeptHasRoom ==
  ASSUME NEW m, Kept(m)
  PROVE  HasRoom(m.table)
<1>1. m.table \in Tables /\ Cardinality(Tombs(m.table)) < RebuildAt /\ Len(m.free) + Cardinality(Keyed(m.table)) = MaxKeys
  BY KeptNumbers DEF Kept, Sound
<1>2. Cardinality(Keyed(m.table)) + Cardinality(Tombs(m.table)) < Capacity
  BY <1>1, KeptNumbers
<1> QED
  BY <1>1, <1>2, RoomLeft

\* The generations stay within their range.
LEMMA BumpedInRange ==
  ASSUME NEW gen \in [Slots -> 0 .. Generations - 1], NEW s \in Slots
  PROVE  Bumped(gen, s) \in [Slots -> 0 .. Generations - 1]
<1>1. gen[s] + 1 \in Nat
  OBVIOUS
<1>2. (gen[s] + 1) % Generations \in 0 .. Generations - 1
  BY <1>1
<1> QED
  BY <1>2 DEF Bumped

\* A key gets the slot on top of the stack.
LEMMA AllocatedKept ==
  ASSUME NEW m, Kept(m), NEW k \in Keys, ~ Has(m.table, k), m.free # <<>>
  PROVE  /\ Kept(Allocated(m, k))
         /\ Entries(Allocated(m, k).table) = Entries(m.table) \cup {Bucket(k, Last(m.free))}
         /\ Allocated(m, k).free = Front(m.free) /\ Allocated(m, k).gen = Bumped(m.gen, Last(m.free))
<1> DEFINE s == Last(m.free)
           u == Upsert(m.table, k, s)
           n == Allocated(m, k)
<1>1. /\ Front(m.free) \in Seq(Slots) /\ Len(Front(m.free)) = Len(m.free) - 1 /\ IsInjective(Front(m.free))
      /\ s \in ToSet(m.free) /\ s \in Slots
      /\ ToSet(Front(m.free)) \subseteq ToSet(m.free) /\ s \notin ToSet(Front(m.free))
  BY FrontOfStack DEF Kept, Maps
<1>2. Sound(m.table) /\ HasRoom(m.table) /\ s \in Slots \cup {0}
  BY <1>1, KeptHasRoom DEF Kept
<1>3. Sound(u)
  BY <1>2, Upserted
<1>4. PICK b \in Buckets \ Keyed(m.table) :
        /\ u = [m.table EXCEPT ![b] = Bucket(k, s)]
        /\ Keyed(u) = Keyed(m.table) \cup {b}
        /\ Tombs(u) \subseteq Tombs(m.table)
  BY <1>2, Upserted
<1>5. u[b] = Bucket(k, s) /\ \A c \in Keyed(m.table) : u[c] = m.table[c]
  BY <1>2, <1>4 DEF Sound, Tables, Keyed
<1>6. n.table = u /\ n.deleted = m.deleted /\ n.free = Front(m.free) /\ n.gen = Bumped(m.gen, s) /\ n \in Maps
  <2>1. m \in Maps /\ u \in Tables /\ Bumped(m.gen, s) \in [Slots -> 0 .. Generations - 1]
    <3>1. m \in Maps
      BY DEF Kept
    <3>2. Bumped(m.gen, s) \in [Slots -> 0 .. Generations - 1]
      BY <1>1, <3>1, BumpedInRange DEF Maps
    <3> QED
      BY <1>3, <3>1, <3>2 DEF Sound
  <2>2. n = [m EXCEPT !.free = Front(m.free), !.gen = Bumped(m.gen, s), !.table = u]
    BY DEF Allocated
  <2> HIDE DEF n, u, s
  <2> QED
    BY <1>1, <2>1, <2>2 DEF Maps
<1> HIDE DEF n, u
<1>7. Entries(u) = Entries(m.table) \cup {Bucket(k, s)}
  BY <1>4, <1>5 DEF Entries
<1>8. Bucket(k, s).slot = s
  BY DEF Bucket
<1>9. \A e \in Entries(m.table) : e.slot \in Slots /\ e.slot \notin ToSet(m.free) /\ e.slot # s
  BY <1>1 DEF Kept
<1>10. Len(Front(m.free)) + Cardinality(Entries(u)) = MaxKeys
  <2>1. Bucket(k, s) \notin Entries(m.table)
    BY <1>8, <1>9
  <2>2. Cardinality(Entries(u)) = Cardinality(Entries(m.table)) + 1
    BY <1>7, <2>1, KeptNumbers, FS_AddElement
  <2>3. Len(m.free) + Cardinality(Entries(m.table)) = MaxKeys /\ Cardinality(Entries(m.table)) \in Nat /\ Len(m.free) \in Nat
    BY KeptNumbers DEF Kept
  <2> QED
    BY <1>1, <2>2, <2>3
<1>11. Cardinality(Tombs(u)) <= m.deleted
  <2>1. IsFiniteSet(Tombs(m.table)) /\ Tombs(u) \subseteq Tombs(m.table)
    BY <1>4, KeptNumbers
  <2>2. Cardinality(Tombs(u)) <= Cardinality(Tombs(m.table)) /\ Cardinality(Tombs(u)) \in Nat
    BY <2>1, FS_Subset, FS_CardinalityType
  <2> QED
    BY <2>2, KeptNumbers DEF Kept
<1>12. \A e, f \in Entries(u) : e.slot = f.slot => e = f
  BY <1>7, <1>8, <1>9 DEF Kept
<1>13. \A e \in Entries(u) : e.slot \in Slots /\ e.slot \notin ToSet(Front(m.free))
  BY <1>1, <1>7, <1>8, <1>9
<1>14. Kept(n)
  BY <1>1, <1>3, <1>6, <1>10, <1>11, <1>12, <1>13 DEF Kept
<1> QED
  BY <1>6, <1>7, <1>14 DEF n

\* A key that is deleted gives its slot back.
LEMMA FreedKept ==
  ASSUME NEW m, Kept(m), NEW b \in Keyed(m.table)
  PROVE  /\ Kept(Freed(m, m.table[b].key))
         /\ Entries(Freed(m, m.table[b].key).table) = Entries(m.table) \ {m.table[b]}
         /\ Freed(m, m.table[b].key).free = Append(m.free, m.table[b].slot)
         /\ Freed(m, m.table[b].key).gen = Bumped(m.gen, m.table[b].slot)
<1> DEFINE k == m.table[b].key
           s == m.table[b].slot
           t == [m.table EXCEPT ![b].key = Tombstone]
           u == IF m.deleted + 1 >= RebuildAt THEN Rebuilt(t) ELSE t
           d == IF m.deleted + 1 >= RebuildAt THEN 0 ELSE m.deleted + 1
           n == Freed(m, k)
<1>1. m \in Maps /\ Sound(m.table) /\ k \in Keys /\ b \in Buckets /\ m.table \in Tables
  BY DEF Kept, Sound, Keyed
<1>2. Lookup(m.table, k) = b /\ SlotOf(m.table, k) = s
  BY <1>1, KeyIsFound DEF SlotOf
<1>3. m.table[b] \in Entries(m.table)
  BY DEF Entries
<1>4. s \in Slots /\ s \notin ToSet(m.free)
  BY <1>3 DEF Kept
<1>5. /\ Sound(t)
      /\ Keyed(t) = Keyed(m.table) \ {b}
      /\ Tombs(t) = Tombs(m.table) \cup {b}
      /\ \A c \in Buckets : c # b => t[c] = m.table[c]
  BY <1>1, Buried
<1> HIDE DEF t
<1>6. Entries(t) = Entries(m.table) \ {m.table[b]}
  <2>1. \A c \in Keyed(m.table) : c # b => m.table[c] # m.table[b]
    BY <1>1, KeyedOnce
  <2>2. \A c \in Keyed(t) : t[c] = m.table[c] /\ c \in Keyed(m.table) /\ c # b
    BY <1>5 DEF Keyed
  <2> QED
    BY <1>5, <2>1, <2>2 DEF Entries
<1>7. Sound(u) /\ Entries(u) = Entries(t) /\ d \in Nat /\ d < RebuildAt /\ Cardinality(Tombs(u)) <= d
  <2>1. m.deleted \in Nat /\ Cardinality(Tombs(m.table)) <= m.deleted /\ IsFiniteSet(Tombs(m.table)) /\ Cardinality(Tombs(m.table)) \in Nat
    BY KeptNumbers DEF Kept
  <2>2. CASE m.deleted + 1 >= RebuildAt
    <3>1. Sound(Rebuilt(t)) /\ Tombs(Rebuilt(t)) = {} /\ Entries(Rebuilt(t)) = Entries(t)
      BY <1>5, RebuiltSound
    <3>2. Cardinality({}) = 0
      BY FS_EmptySet
    <3>3. u = Rebuilt(t) /\ d = 0 /\ 0 < RebuildAt
      BY <2>2
    <3>4. 0 <= 0 /\ 0 \in Nat
      OBVIOUS
    <3> HIDE DEF u, d
    <3> QED
      BY ONLY <3>1, <3>2, <3>3, <3>4
  <2>3. CASE ~ (m.deleted + 1 >= RebuildAt)
    <3>1. u = t /\ d = m.deleted + 1 /\ d \in Nat /\ d < RebuildAt
      BY <2>1, <2>3
    <3>2. Cardinality(Tombs(t)) <= m.deleted + 1
      <4>1. Cardinality(Tombs(t)) = Cardinality(Tombs(m.table)) + 1
        <5>1. b \notin Tombs(m.table)
          BY <1>1 DEF Tombs
        <5>2. Cardinality(Tombs(m.table) \cup {b}) = Cardinality(Tombs(m.table)) + 1
          BY <2>1, <5>1, FS_AddElement
        <5> QED
          BY <1>5, <5>2
      <4> QED
        BY <2>1, <4>1
    <3> HIDE DEF u, d
    <3> QED
      BY <1>5, <3>1, <3>2
  <2> QED
    BY <2>2, <2>3
<1>8. n.table = u /\ n.deleted = d /\ n.free = Append(m.free, s) /\ n.gen = Bumped(m.gen, s) /\ n \in Maps
  <2> DEFINE x == Deleted(m, k)
  <2>1. x = [m EXCEPT !.table = u, !.deleted = d]
    <3>1. x = IF m.deleted + 1 >= RebuildAt
              THEN [m EXCEPT !.table = Rebuilt(t), !.deleted = 0] ELSE [m EXCEPT !.table = t, !.deleted = m.deleted + 1]
      BY <1>2 DEF Deleted, t
    <3> HIDE DEF x
    <3>2. CASE m.deleted + 1 >= RebuildAt
      BY <3>1, <3>2
    <3>3. CASE ~ (m.deleted + 1 >= RebuildAt)
      BY <3>1, <3>3
    <3> QED
      BY <3>2, <3>3
  <2>2. n = [x EXCEPT !.free = Append(x.free, s), !.gen = Bumped(x.gen, s)]
    BY <1>2 DEF Freed
  <2> HIDE DEF x, u, d, n, s
  <2>3. x \in Maps /\ x.table = u /\ x.deleted = d /\ x.free = m.free /\ x.gen = m.gen
    <3>1. u \in Tables
      BY <1>7 DEF Sound
    <3> QED
      BY <1>1, <1>7, <2>1, <3>1 DEF Maps
  <2>4. Append(x.free, s) \in Seq(Slots) /\ Bumped(x.gen, s) \in [Slots -> 0 .. Generations - 1]
    BY <1>4, <2>3, BumpedInRange, SMTT(30) DEF Maps
  <2> QED
    BY <2>2, <2>3, <2>4 DEF Maps
<1> HIDE DEF n, u, d
<1>9. /\ Append(m.free, s) \in Seq(Slots) /\ Len(Append(m.free, s)) = Len(m.free) + 1
      /\ IsInjective(Append(m.free, s)) /\ ToSet(Append(m.free, s)) = ToSet(m.free) \cup {s}
  BY <1>4, SlotPushed DEF Kept, Maps
<1>10. Len(Append(m.free, s)) + Cardinality(Entries(u)) = MaxKeys
  <2>1. Cardinality(Entries(u)) = Cardinality(Entries(m.table)) - 1
    <3>1. Cardinality(Entries(m.table) \ {m.table[b]}) = Cardinality(Entries(m.table)) - 1
      <4>1. IsFiniteSet(Entries(m.table))
        BY KeptNumbers
      <4> QED
        BY ONLY <1>3, <4>1, FS_RemoveElement
    <3> QED
      BY <1>6, <1>7, <3>1
  <2>2. Len(m.free) + Cardinality(Entries(m.table)) = MaxKeys /\ Cardinality(Entries(m.table)) \in Nat /\ Len(m.free) \in Nat
    BY KeptNumbers DEF Kept
  <2> QED
    BY <1>9, <2>1, <2>2
<1>11. \A e \in Entries(u) : e \in Entries(m.table) /\ e.slot # s
  BY <1>3, <1>6, <1>7 DEF Kept
<1>12. /\ \A e, f \in Entries(u) : e.slot = f.slot => e = f
       /\ \A e \in Entries(u) : e.slot \in Slots /\ e.slot \notin ToSet(Append(m.free, s))
  BY <1>9, <1>11 DEF Kept
<1>13. Kept(n)
  BY <1>7, <1>8, <1>9, <1>10, <1>12 DEF Kept
<1> QED
  BY <1>6, <1>7, <1>8, <1>13 DEF n

\* A slot's generation is odd exactly while a key has it.
Turned(m) ==
  /\ \A e \in Entries(m.table) : m.gen[e.slot] % 2 = 1
  /\ \A s \in ToSet(m.free) : m.gen[s] % 2 = 0

\* The map n has the keys of m and some more, which took their slots from the free ones;
\* only those slots' generations differ.
Grown(m, n) ==
  /\ Entries(m.table) \subseteq Entries(n.table) /\ ToSet(n.free) \subseteq ToSet(m.free)
  /\ \A e \in Entries(n.table) : e \in Entries(m.table) \/ e.slot \in ToSet(m.free)
  /\ \A s \in ToSet(m.free) : s \in ToSet(n.free) \/ \E e \in Entries(n.table) : e.slot = s
  /\ \A s \in Slots : n.gen[s] = m.gen[s] \/ s \in ToSet(m.free) \ ToSet(n.free)

\* It may grow in several steps.
LEMMA GrownFurther ==
  ASSUME NEW m, NEW n, NEW x, Grown(m, n), Grown(n, x)
  PROVE  Grown(m, x)
<1>1. Entries(m.table) \subseteq Entries(x.table) /\ ToSet(x.free) \subseteq ToSet(m.free)
  BY DEF Grown
<1>2. \A e \in Entries(x.table) : e \in Entries(m.table) \/ e.slot \in ToSet(m.free)
  BY DEF Grown
<1>3. \A s \in Slots : x.gen[s] = m.gen[s] \/ s \in ToSet(m.free) \ ToSet(x.free)
  BY DEF Grown
<1>4. \A s \in ToSet(m.free) : s \in ToSet(x.free) \/ \E e \in Entries(x.table) : e.slot = s
  BY DEF Grown
<1> QED
  BY <1>1, <1>2, <1>3, <1>4 DEF Grown

\* A slot that is taken or given back changes the parity of its generation, and no
\* other slot's.
LEMMA BumpedTurns ==
  ASSUME NEW gen \in [Slots -> 0 .. Generations - 1], NEW s \in Slots
  PROVE  /\ gen[s] % 2 = 0 => Bumped(gen, s)[s] % 2 = 1
         /\ gen[s] % 2 = 1 => Bumped(gen, s)[s] % 2 = 0
         /\ \A x \in Slots : x # s => Bumped(gen, s)[x] = gen[x]
<1> DEFINE g == gen[s]
           n == (g + 1) % Generations
<1>1. g \in 0 .. Generations - 1 /\ Generations \in Nat /\ Generations % 2 = 0
  BY GenerationsAssumption
<1>2. Bumped(gen, s)[s] = n /\ \A x \in Slots : x # s => Bumped(gen, s)[x] = gen[x]
  BY DEF Bumped
<1> HIDE DEF g
<1>3. (g % 2 = 0 => n % 2 = 1) /\ (g % 2 = 1 => n % 2 = 0)
  <2>1. CASE g + 1 < Generations
    <3>1. n = g + 1
      BY <1>1, <2>1
    <3> HIDE DEF n
    <3> QED
      BY <1>1, <3>1
  <2>2. CASE g + 1 = Generations
    <3>1. n = 0 /\ 0 % 2 = 0 /\ (g + 1) % 2 = 0
      BY <1>1, <2>2
    <3> HIDE DEF n
    <3> QED
      BY <1>1, <3>1
  <2> QED
    BY <1>1, <2>1, <2>2
<1> QED
  BY <1>2, <1>3 DEF g

\* What a key that gets a slot changes.
LEMMA AllocatedTurns ==
  ASSUME NEW m, Kept(m), NEW k \in Keys, ~ Has(m.table, k), m.free # <<>>, NEW n, n = Allocated(m, k)
  PROVE  /\ Kept(n) /\ (Turned(m) => Turned(n)) /\ Grown(m, n)
         /\ \A e \in Entries(n.table) : e.key = k \/ (e \in Entries(m.table) /\ n.gen[e.slot] = m.gen[e.slot])
<1> DEFINE s == Last(m.free)
<1>1. /\ s \in ToSet(m.free) /\ s \in Slots
      /\ ToSet(Front(m.free)) \subseteq ToSet(m.free) /\ s \notin ToSet(Front(m.free))
  BY FrontOfStack DEF Kept, Maps
<1>2. /\ Kept(n) /\ Entries(n.table) = Entries(m.table) \cup {Bucket(k, s)}
      /\ n.free = Front(m.free) /\ n.gen = Bumped(m.gen, s)
  BY AllocatedKept
<1>3. \A e \in Entries(m.table) : e.slot \in Slots /\ e.slot # s
  BY <1>1 DEF Kept
<1>4. ToSet(m.free) \subseteq Slots
  BY DEF Kept, Maps, ToSet
<1>5. m.gen \in [Slots -> 0 .. Generations - 1]
  BY DEF Kept, Maps
<1>6. Bucket(k, s).key = k /\ Bucket(k, s).slot = s
  BY DEF Bucket
<1> HIDE DEF s
<1>7. /\ m.gen[s] % 2 = 0 => n.gen[s] % 2 = 1
      /\ \A x \in Slots : x # s => n.gen[x] = m.gen[x]
  BY ONLY <1>1, <1>2, <1>5, BumpedTurns
<1>8. ASSUME Turned(m) PROVE Turned(n)
  BY ONLY <1>1, <1>2, <1>3, <1>4, <1>6, <1>7, <1>8 DEF Turned
<1>9. Grown(m, n)
  <2>1. \A x \in ToSet(m.free) : x \in ToSet(n.free) \/ x = s
    BY <1>2, FrontOfStack DEF Kept, Maps, s
  <2> QED
    BY ONLY <1>1, <1>2, <1>6, <1>7, <2>1 DEF Grown
<1> QED
  BY <1>2, <1>3, <1>6, <1>7, <1>8, <1>9

\* What a key that is deleted changes.
LEMMA FreedTurns ==
  ASSUME NEW m, Kept(m), NEW b \in Keyed(m.table), NEW n, n = Freed(m, m.table[b].key)
  PROVE  /\ Kept(n) /\ (Turned(m) => Turned(n)) /\ Grown(n, m)
         /\ Entries(n.table) = Entries(m.table) \ {m.table[b]}
         /\ \A e \in Entries(n.table) : e.slot # m.table[b].slot /\ n.gen[e.slot] = m.gen[e.slot]
         /\ ToSet(n.free) = ToSet(m.free) \cup {m.table[b].slot}
<1> DEFINE s == m.table[b].slot
<1>1. m.table[b] \in Entries(m.table)
  BY DEF Entries
<1>2. s \in Slots /\ s \notin ToSet(m.free) /\ \A e \in Entries(m.table) : e.slot = s => e = m.table[b]
  BY <1>1 DEF Kept
<1>3. /\ Kept(n) /\ Entries(n.table) = Entries(m.table) \ {m.table[b]}
      /\ n.free = Append(m.free, s) /\ n.gen = Bumped(m.gen, s)
  BY FreedKept
<1>4. ToSet(n.free) = ToSet(m.free) \cup {s}
  <2>1. m.free \in Seq(Slots) /\ IsInjective(m.free)
    BY Zenon DEF Kept, Maps
  <2> HIDE DEF s
  <2>2. ToSet(Append(m.free, s)) = ToSet(m.free) \cup {s}
    BY <1>2, <2>1, SlotPushed, Zenon
  <2> QED
    BY ONLY <1>3, <2>2
<1>5. m.gen \in [Slots -> 0 .. Generations - 1] /\ \A e \in Entries(m.table) : e.slot \in Slots
  BY DEF Kept, Maps
<1>6. ToSet(m.free) \subseteq Slots
  BY DEF Kept, Maps, ToSet
<1> HIDE DEF s
<1>7. /\ m.gen[s] % 2 = 1 => n.gen[s] % 2 = 0
      /\ \A x \in Slots : x # s => n.gen[x] = m.gen[x]
  BY ONLY <1>2, <1>3, <1>5, BumpedTurns
<1>8. \A e \in Entries(n.table) : e \in Entries(m.table) /\ e.slot # s /\ n.gen[e.slot] = m.gen[e.slot]
  <2> TAKE e \in Entries(n.table)
  <2>1. e \in Entries(m.table) /\ e # m.table[b]
    BY ONLY <1>3
  <2>2. e.slot \in Slots /\ e.slot # s
    BY ONLY <1>2, <1>5, <2>1
  <2> QED
    BY ONLY <1>7, <2>1, <2>2
<1>9. ASSUME Turned(m) PROVE Turned(n)
  <2>1. m.gen[s] % 2 = 1
    BY <1>1, <1>9 DEF Turned, s
  <2> QED
    BY ONLY <1>2, <1>4, <1>6, <1>7, <1>8, <1>9, <2>1 DEF Turned
<1>10. Grown(n, m)
  <2>1. \A e \in Entries(m.table) : e \in Entries(n.table) \/ e.slot \in ToSet(n.free)
    BY ONLY <1>3, <1>4 DEF s
  <2> QED
    BY ONLY <1>1, <1>2, <1>3, <1>4, <1>7, <2>1 DEF Grown, s
<1> QED
  BY <1>3, <1>4, <1>8, <1>9, <1>10 DEF s

----------------------------------------------------------------------------
(* The folds over the map. *)

\* g is the function by which FoldLeft assigns slots to the keys of the list ks.
Assigns(m, ks, g) ==
  g = [S \in SUBSET DOMAIN ks |->
         IF S = {} THEN m
         ELSE LET i == Max(S)
              IN  IF Has(g[S \ {i}].table, ks[i]) \/ g[S \ {i}].free = <<>>
                  THEN g[S \ {i}] ELSE Allocated(g[S \ {i}], ks[i])]

\* The changes that give slots to the keys of a batch.
AssignTasks(ks) == [i \in 1 .. Len(ks) |-> [does |-> "assign", key |-> ks[i]]]

\* h are the maps between one key of the list and the next.
AssignSteps(m, ks, h) ==
  /\ h[0] = m
  /\ \A i \in 0 .. Len(ks) - 1 :
       h[i + 1] = IF Has(h[i].table, ks[i + 1]) \/ h[i].free = <<>>
                  THEN h[i] ELSE Allocated(h[i], ks[i + 1])
  /\ Assigned(m, ks) = h[Len(ks)]

\* Assigned gives each key that has none a slot, while there are any, in their order.
LEMMA AssignedInOrder ==
  ASSUME NEW m, NEW ks \in Seq(Keys)
  PROVE  \E h : AssignSteps(m, ks, h)
<1> DEFINE s == AssignTasks(ks)
           n == Len(ks)
<1>1. Assigned(m, ks) = (CHOOSE g : Assigns(m, ks, g))[DOMAIN ks]
  BY DEF Assigned, FoldLeft, MapThenFoldSet, Assigns
<1>2. DOMAIN ks = 1 .. n /\ DOMAIN s = 1 .. n /\ n \in Nat
  BY DEF AssignTasks
<1>3. ASSUME NEW v, NEW i \in 1 .. n
      PROVE  Change(v, s[i]) = IF Has(v.table, ks[i]) \/ v.free = <<>> THEN v ELSE Allocated(v, ks[i])
  BY DEF Change, AssignTasks
<1>4. \A S \in SUBSET (1 .. n) : S # {} => Max(S) \in 1 .. n
  BY <1>2, LargestNumber
<1> HIDE DEF s, n
<1>5. \A g : Assigns(m, ks, g) <=> Changes(m, s, g)
  <2> TAKE g
  <2> DEFINE A == [S \in SUBSET (1 .. n) |->
                     IF S = {} THEN m
                     ELSE LET i == Max(S)
                          IN  IF Has(g[S \ {i}].table, ks[i]) \/ g[S \ {i}].free = <<>>
                              THEN g[S \ {i}] ELSE Allocated(g[S \ {i}], ks[i])]
             B == [S \in SUBSET (1 .. n) |->
                     IF S = {} THEN m ELSE LET i == Max(S) IN Change(g[S \ {i}], s[i])]
  <2>1. A = B
    BY <1>3, <1>4, SMTT(30)
  <2>2. Assigns(m, ks, g) <=> g = A
    BY <1>2 DEF Assigns
  <2>3. Changes(m, s, g) <=> g = B
    BY <1>2 DEF Changes
  <2> HIDE DEF A, B
  <2> QED
    BY <2>1, <2>2, <2>3
<1>6. \E g : Assigns(m, ks, g)
  <2>1. \E g : Changes(m, s, g)
    BY <1>2, ChangesExist
  <2> QED
    BY <1>5, <2>1
<1>7. PICK g : Assigns(m, ks, g) /\ g = CHOOSE f : Assigns(m, ks, f)
  BY <1>6
<1>8. /\ g[1 .. 0] = m
      /\ \A i \in 0 .. n - 1 : g[1 .. i + 1] = Change(g[1 .. i], s[i + 1])
  <2>1. Changes(m, s, g)
    BY <1>5, <1>7
  <2>2. n \in Nat /\ DOMAIN s = 1 .. n
    BY <1>2
  <2>3. InOrder(m, s, n, g)
    BY <2>1, <2>2, ChangesInOrder
  <2> QED
    BY <2>3 DEF InOrder
<1> DEFINE h == [i \in 0 .. n |-> g[1 .. i]]
<1>9. h[0] = m /\ Assigned(m, ks) = h[n]
  BY <1>1, <1>2, <1>7, <1>8
<1>10. ASSUME NEW i \in 0 .. n - 1
       PROVE  h[i + 1] = IF Has(h[i].table, ks[i + 1]) \/ h[i].free = <<>>
                         THEN h[i] ELSE Allocated(h[i], ks[i + 1])
  <2>1. i \in 0 .. n /\ i + 1 \in 0 .. n /\ i + 1 \in 1 .. n
    BY <1>2
  <2>2. h[i] = g[1 .. i] /\ h[i + 1] = g[1 .. i + 1]
    BY <2>1
  <2> HIDE DEF h
  <2>3. h[i + 1] = Change(h[i], s[i + 1])
    BY <1>8, <2>1, <2>2
  <2> QED
    BY <1>3, <2>1, <2>3
<1> HIDE DEF h
<1> QED
  BY <1>9, <1>10 DEF n, AssignSteps

\* g is the function by which FoldLeft frees the slots of the keys of the namespace.
Clears(m, g) ==
  g = [S \in SUBSET DOMAIN BucketList |->
         IF S = {} THEN m
         ELSE LET i == Max(S)
              IN  IF m.table[BucketList[i]].key \in Owned
                  THEN Freed(g[S \ {i}], m.table[BucketList[i]].key) ELSE g[S \ {i}]]

\* The changes with which a clear frees the slots of the keys it finds.
ClearTasks(m) ==
  [i \in 1 .. Capacity |->
     [does |-> IF m.table[i - 1].key \in Owned THEN "free" ELSE "skip", key |-> m.table[i - 1].key]]

\* Cleared frees the keys of the namespace in the order of the buckets they were in.
LEMMA ClearedInOrder ==
  ASSUME NEW m
  PROVE  \E h : /\ h[0] = m
                /\ \A i \in Buckets :
                     h[i + 1] = IF m.table[i].key \in Owned THEN Freed(h[i], m.table[i].key) ELSE h[i]
                /\ Cleared(m) = h[Capacity]
<1> DEFINE s == ClearTasks(m)
           n == Capacity
<1>1. Cleared(m) = (CHOOSE g : Clears(m, g))[DOMAIN BucketList]
  BY DEF Cleared, FoldLeft, MapThenFoldSet, Clears
<1>2. DOMAIN BucketList = 1 .. n /\ DOMAIN s = 1 .. n /\ n \in Nat
  BY DEF ClearTasks, BucketList
<1>3. ASSUME NEW v, NEW i \in 1 .. n
      PROVE  Change(v, s[i]) = IF m.table[BucketList[i]].key \in Owned
                               THEN Freed(v, m.table[BucketList[i]].key) ELSE v
  BY DEF Change, ClearTasks, BucketList
<1>4. \A S \in SUBSET (1 .. n) : S # {} => Max(S) \in 1 .. n
  BY <1>2, LargestNumber
<1> HIDE DEF s, n
<1>5. \A g : Clears(m, g) <=> Changes(m, s, g)
  <2> TAKE g
  <2> DEFINE A == [S \in SUBSET (1 .. n) |->
                     IF S = {} THEN m
                     ELSE LET i == Max(S)
                          IN  IF m.table[BucketList[i]].key \in Owned
                              THEN Freed(g[S \ {i}], m.table[BucketList[i]].key) ELSE g[S \ {i}]]
             B == [S \in SUBSET (1 .. n) |->
                     IF S = {} THEN m ELSE LET i == Max(S) IN Change(g[S \ {i}], s[i])]
  <2>1. A = B
    BY <1>3, <1>4
  <2>2. Clears(m, g) <=> g = A
    BY <1>2 DEF Clears
  <2>3. Changes(m, s, g) <=> g = B
    BY <1>2 DEF Changes
  <2> HIDE DEF A, B
  <2> QED
    BY <2>1, <2>2, <2>3
<1>6. \E g : Clears(m, g)
  <2>1. \E g : Changes(m, s, g)
    BY <1>2, ChangesExist
  <2> QED
    BY <1>5, <2>1
<1>7. PICK g : Clears(m, g) /\ g = CHOOSE f : Clears(m, f)
  BY <1>6
<1>8. /\ g[1 .. 0] = m
      /\ \A i \in 0 .. n - 1 : g[1 .. i + 1] = Change(g[1 .. i], s[i + 1])
  <2>1. Changes(m, s, g)
    BY <1>5, <1>7
  <2>2. n \in Nat /\ DOMAIN s = 1 .. n
    BY <1>2
  <2>3. InOrder(m, s, n, g)
    BY <2>1, <2>2, ChangesInOrder
  <2> QED
    BY <2>3 DEF InOrder
<1> DEFINE h == [i \in 0 .. n |-> g[1 .. i]]
<1>9. h[0] = m /\ Cleared(m) = h[n]
  BY <1>1, <1>2, <1>7, <1>8
<1>10. ASSUME NEW i \in Buckets
       PROVE  h[i + 1] = IF m.table[i].key \in Owned THEN Freed(h[i], m.table[i].key) ELSE h[i]
  <2>1. /\ i \in 0 .. n - 1 /\ i \in 0 .. n /\ i + 1 \in 0 .. n /\ i + 1 \in 1 .. n
        /\ BucketList[i + 1] = i
    BY DEF n, Buckets, BucketList
  <2>2. h[i] = g[1 .. i] /\ h[i + 1] = g[1 .. i + 1]
    BY <2>1
  <2> HIDE DEF h
  <2>3. h[i + 1] = Change(h[i], s[i + 1])
    BY <1>8, <2>1, <2>2
  <2> QED
    BY <1>3, <2>1, <2>3
<1> HIDE DEF h
<1> QED
  BY <1>9, <1>10 DEF n

\* g is the function by which FoldLeft lists the keys of the namespace.
Lists(t, g) ==
  g = [S \in SUBSET DOMAIN BucketList |->
         IF S = {} THEN <<>>
         ELSE LET i == Max(S)
              IN  IF t[BucketList[i]].key \in Owned
                  THEN Append(g[S \ {i}], t[BucketList[i]].key) ELSE g[S \ {i}]]

\* The changes with which a clear lists the keys it finds.
ListTasks(t) ==
  [i \in 1 .. Capacity |->
     [does |-> IF t[i - 1].key \in Owned THEN "list" ELSE "skip", key |-> t[i - 1].key]]

\* OwnKeys lists the keys of the namespace in the order of the buckets they are in.
LEMMA OwnKeysInOrder ==
  ASSUME NEW t
  PROVE  \E h : /\ h[0] = <<>>
                /\ \A i \in Buckets :
                     h[i + 1] = IF t[i].key \in Owned THEN Append(h[i], t[i].key) ELSE h[i]
                /\ OwnKeys(t) = h[Capacity]
<1> DEFINE s == ListTasks(t)
           n == Capacity
<1>1. OwnKeys(t) = (CHOOSE g : Lists(t, g))[DOMAIN BucketList]
  BY DEF OwnKeys, FoldLeft, MapThenFoldSet, Lists
<1>2. DOMAIN BucketList = 1 .. n /\ DOMAIN s = 1 .. n /\ n \in Nat
  BY DEF ListTasks, BucketList
<1>3. ASSUME NEW v, NEW i \in 1 .. n
      PROVE  Change(v, s[i]) = IF t[BucketList[i]].key \in Owned
                               THEN Append(v, t[BucketList[i]].key) ELSE v
  BY DEF Change, ListTasks, BucketList
<1>4. \A S \in SUBSET (1 .. n) : S # {} => Max(S) \in 1 .. n
  BY <1>2, LargestNumber
<1> HIDE DEF s, n
<1>5. \A g : Lists(t, g) <=> Changes(<<>>, s, g)
  <2> TAKE g
  <2> DEFINE A == [S \in SUBSET (1 .. n) |->
                     IF S = {} THEN <<>>
                     ELSE LET i == Max(S)
                          IN  IF t[BucketList[i]].key \in Owned
                              THEN Append(g[S \ {i}], t[BucketList[i]].key) ELSE g[S \ {i}]]
             B == [S \in SUBSET (1 .. n) |->
                     IF S = {} THEN <<>> ELSE LET i == Max(S) IN Change(g[S \ {i}], s[i])]
  <2>1. A = B
    BY <1>3, <1>4
  <2>2. Lists(t, g) <=> g = A
    BY <1>2 DEF Lists
  <2>3. Changes(<<>>, s, g) <=> g = B
    BY <1>2 DEF Changes
  <2> HIDE DEF A, B
  <2> QED
    BY <2>1, <2>2, <2>3
<1>6. \E g : Lists(t, g)
  <2>1. \E g : Changes(<<>>, s, g)
    BY <1>2, ChangesExist
  <2> QED
    BY <1>5, <2>1
<1>7. PICK g : Lists(t, g) /\ g = CHOOSE f : Lists(t, f)
  BY <1>6
<1>8. /\ g[1 .. 0] = <<>>
      /\ \A i \in 0 .. n - 1 : g[1 .. i + 1] = Change(g[1 .. i], s[i + 1])
  <2>1. Changes(<<>>, s, g)
    BY <1>5, <1>7
  <2>2. n \in Nat /\ DOMAIN s = 1 .. n
    BY <1>2
  <2>3. InOrder(<<>>, s, n, g)
    BY <2>1, <2>2, ChangesInOrder
  <2> QED
    BY <2>3 DEF InOrder
<1> DEFINE h == [i \in 0 .. n |-> g[1 .. i]]
<1>9. h[0] = <<>> /\ OwnKeys(t) = h[n]
  BY <1>1, <1>2, <1>7, <1>8
<1>10. ASSUME NEW i \in Buckets
       PROVE  h[i + 1] = IF t[i].key \in Owned THEN Append(h[i], t[i].key) ELSE h[i]
  <2>1. /\ i \in 0 .. n - 1 /\ i \in 0 .. n /\ i + 1 \in 0 .. n /\ i + 1 \in 1 .. n
        /\ BucketList[i + 1] = i
    BY DEF n, Buckets, BucketList
  <2>2. h[i] = g[1 .. i] /\ h[i + 1] = g[1 .. i + 1]
    BY <2>1
  <2> HIDE DEF h
  <2>3. h[i + 1] = Change(h[i], s[i + 1])
    BY <1>8, <2>1, <2>2
  <2> QED
    BY <1>3, <2>1, <2>3
<1> HIDE DEF h
<1> QED
  BY <1>9, <1>10 DEF n

\* The list l has elements of S, and all those of the first n that P chooses.
ListsAll(l, S, n, P, q) ==
  /\ l \in Seq(S)
  /\ \A i \in 0 .. n - 1 : i \in P => \E j \in DOMAIN l : l[j] = q[i]

\* A list to which some of n elements were added one after the other has just those.
LEMMA ListedAll ==
  ASSUME NEW n \in Nat, NEW h, h[0] = <<>>, NEW P, NEW q, NEW S, \A i \in P : q[i] \in S,
         \A i \in 0 .. n - 1 : h[i + 1] = IF i \in P THEN Append(h[i], q[i]) ELSE h[i]
  PROVE  ListsAll(h[n], S, n, P, q)
<1> DEFINE Listed(k) == /\ h[k] \in Seq(S)
                        /\ \A i \in 0 .. k - 1 : i \in P => \E j \in DOMAIN h[k] : h[k][j] = q[i]
           Bad == {k \in 0 .. n : ~ Listed(k)}
<1>1. Listed(0)
  <2>1. 0 .. 0 - 1 = {} /\ <<>> \in Seq(S)
    OBVIOUS
  <2> QED
    BY <2>1
<1>2. ASSUME NEW k \in 0 .. n - 1, Listed(k) PROVE Listed(k + 1)
  <2>1. h[k + 1] = IF k \in P THEN Append(h[k], q[k]) ELSE h[k]
    OBVIOUS
  <2>2. \A i \in 0 .. (k + 1) - 1 : i \in 0 .. k - 1 \/ i = k
    OBVIOUS
  <2>3. CASE k \notin P
    BY <1>2, <2>1, <2>2, <2>3
  <2>4. CASE k \in P
    <3> DEFINE s == h[k]
               a == Append(s, q[k])
    <3>1. s \in Seq(S) /\ q[k] \in S
      BY <1>2, <2>4
    <3> HIDE DEF s
    <3>2. /\ a \in Seq(S) /\ Len(a) = Len(s) + 1 /\ a[Len(s) + 1] = q[k]
          /\ \A i \in 1 .. Len(s) : a[i] = s[i]
      BY <3>1, AppendProperties
    <3> HIDE DEF a
    <3>3. DOMAIN s = 1 .. Len(s) /\ DOMAIN a = 1 .. Len(s) + 1 /\ Len(s) \in Nat
      BY <3>1, <3>2
    <3>4. /\ \A j \in DOMAIN s : j \in DOMAIN a /\ a[j] = s[j]
          /\ Len(s) + 1 \in DOMAIN a /\ a[Len(s) + 1] = q[k]
      BY <3>2, <3>3
    <3>5. h[k + 1] = a
      BY <2>1, <2>4 DEF a, s
    <3>6. ASSUME NEW i \in 0 .. (k + 1) - 1, i \in P PROVE \E j \in DOMAIN a : a[j] = q[i]
      <4>1. CASE i = k
        BY <3>4, <4>1
      <4>2. CASE i \in 0 .. k - 1
        <5>1. PICK j \in DOMAIN s : s[j] = q[i]
          BY <1>2, <3>6, <4>2 DEF s
        <5> QED
          BY <3>4, <5>1
      <4> QED
        BY <2>2, <4>1, <4>2
    <3> QED
      BY <3>2, <3>5, <3>6
  <2> QED
    BY <2>3, <2>4
<1>3. Bad = {}
  <2> HIDE DEF Listed
  <2> SUFFICES ASSUME Bad # {} PROVE FALSE
    OBVIOUS
  <2>1. PICK k \in Bad : \A i \in Bad : k <= i
    <3>1. Bad \in SUBSET Nat
      OBVIOUS
    <3> QED
      BY <3>1, LeastNumber
  <2>2. k # 0 /\ k \in 0 .. n /\ ~ Listed(k)
    BY <1>1, <2>1
  <2>3. k - 1 \in 0 .. n - 1 /\ k - 1 \in 0 .. n /\ (k - 1) + 1 = k /\ ~ (k <= k - 1)
    BY <2>2
  <2>4. Listed(k - 1)
    BY <2>1, <2>3
  <2> QED
    BY <1>2, <2>2, <2>3, <2>4
<1>4. n \in 0 .. n
  OBVIOUS
<1>5. Listed(n)
  <2> HIDE DEF Listed
  <2> QED
    BY <1>3, <1>4
<1> QED
  BY <1>5 DEF ListsAll

\* They are the keys of the namespace that the table has.
LEMMA OwnKeysListed ==
  ASSUME NEW t
  PROVE  /\ OwnKeys(t) \in Seq({t[b].key : b \in {c \in Buckets : t[c].key \in Owned}})
         /\ \A b \in Buckets : t[b].key \in Owned => \E j \in DOMAIN OwnKeys(t) : OwnKeys(t)[j] = t[b].key
<1> DEFINE P == {b \in Buckets : t[b].key \in Owned}
           S == {t[b].key : b \in P}
           q == [b \in Buckets |-> t[b].key]
<1>1. PICK h : /\ h[0] = <<>>
               /\ \A i \in Buckets : h[i + 1] = IF t[i].key \in Owned THEN Append(h[i], t[i].key) ELSE h[i]
               /\ OwnKeys(t) = h[Capacity]
  BY OwnKeysInOrder
<1>2. Capacity \in Nat /\ Buckets = 0 .. Capacity - 1
  BY DEF Buckets
<1>5. \A b \in P : q[b] \in S
  OBVIOUS
<1>6. ASSUME NEW i \in 0 .. Capacity - 1 PROVE h[i + 1] = IF i \in P THEN Append(h[i], q[i]) ELSE h[i]
  BY <1>1, <1>2
<1>7. h[0] = <<>>
  BY <1>1
<1>3. \A b \in Buckets : q[b] = t[b].key /\ (t[b].key \in Owned => b \in P)
  OBVIOUS
<1> HIDE DEF P, S, q
<1>4. ListsAll(h[Capacity], S, Capacity, P, q)
  BY ONLY <1>2, <1>5, <1>6, <1>7, ListedAll
<1> QED
  BY <1>1, <1>2, <1>3, <1>4 DEF ListsAll, S, P

\* g is the function by which FoldLeft lists the keys it finds.
Finds(t, ks, g) ==
  g = [S \in SUBSET DOMAIN ks |->
         IF S = {} THEN <<>>
         ELSE LET i == Max(S)
              IN  IF Has(t, ks[i]) THEN Append(g[S \ {i}], ks[i]) ELSE g[S \ {i}]]

\* The changes with which a call lists the keys it finds.
FindTasks(t, ks) ==
  [i \in 1 .. Len(ks) |-> [does |-> IF Has(t, ks[i]) THEN "list" ELSE "skip", key |-> ks[i]]]

\* What a call finds are those of its keys that the table has.
LEMMA FoundListed ==
  ASSUME NEW t, NEW ks \in Seq(Keys)
  PROVE  Found(t, ks) \in Seq({k \in Keys : Has(t, k)})
<1> DEFINE s == FindTasks(t, ks)
           n == Len(ks)
<1>1. Found(t, ks) = (CHOOSE g : Finds(t, ks, g))[DOMAIN ks]
  BY DEF Found, FoldLeft, MapThenFoldSet, Finds
<1>2. DOMAIN ks = 1 .. n /\ DOMAIN s = 1 .. n /\ n \in Nat /\ \A i \in 1 .. n : ks[i] \in Keys
  BY DEF FindTasks
<1>3. ASSUME NEW v, NEW i \in 1 .. n
      PROVE  Change(v, s[i]) = IF Has(t, ks[i]) THEN Append(v, ks[i]) ELSE v
  BY DEF Change, FindTasks
<1>4. \A S \in SUBSET (1 .. n) : S # {} => Max(S) \in 1 .. n
  BY <1>2, LargestNumber
<1> HIDE DEF s, n
<1>5. \A g : Finds(t, ks, g) <=> Changes(<<>>, s, g)
  <2> TAKE g
  <2> DEFINE A == [S \in SUBSET (1 .. n) |->
                     IF S = {} THEN <<>>
                     ELSE LET i == Max(S)
                          IN  IF Has(t, ks[i]) THEN Append(g[S \ {i}], ks[i]) ELSE g[S \ {i}]]
             B == [S \in SUBSET (1 .. n) |->
                     IF S = {} THEN <<>> ELSE LET i == Max(S) IN Change(g[S \ {i}], s[i])]
  <2>1. A = B
    <3>1. ASSUME NEW S \in SUBSET (1 .. n), S # {}
          PROVE  Change(g[S \ {Max(S)}], s[Max(S)]) =
                   IF Has(t, ks[Max(S)]) THEN Append(g[S \ {Max(S)}], ks[Max(S)]) ELSE g[S \ {Max(S)}]
      BY ONLY <1>3, <1>4, <3>1
    <3> QED
      BY ONLY <3>1
  <2>2. Finds(t, ks, g) <=> g = A
    BY <1>2 DEF Finds
  <2>3. Changes(<<>>, s, g) <=> g = B
    BY <1>2 DEF Changes
  <2> HIDE DEF A, B
  <2> QED
    BY <2>1, <2>2, <2>3
<1>6. \E g : Finds(t, ks, g)
  <2>1. \E g : Changes(<<>>, s, g)
    BY <1>2, ChangesExist
  <2> QED
    BY <1>5, <2>1
<1>7. PICK g : Finds(t, ks, g) /\ g = CHOOSE f : Finds(t, ks, f)
  BY <1>6
<1>8. /\ g[1 .. 0] = <<>>
      /\ \A i \in 0 .. n - 1 : g[1 .. i + 1] = Change(g[1 .. i], s[i + 1])
  <2>1. Changes(<<>>, s, g)
    BY <1>5, <1>7
  <2>2. n \in Nat /\ DOMAIN s = 1 .. n
    BY <1>2
  <2>3. InOrder(<<>>, s, n, g)
    BY <2>1, <2>2, ChangesInOrder
  <2> QED
    BY <2>3 DEF InOrder
<1> DEFINE h == [i \in 0 .. n |-> g[1 .. i]]
           P == {i \in 0 .. n - 1 : Has(t, ks[i + 1])}
           q == [i \in 0 .. n - 1 |-> ks[i + 1]]
           S == {k \in Keys : Has(t, k)}
<1>9. h[0] = <<>> /\ Found(t, ks) = h[n]
  BY <1>1, <1>2, <1>7, <1>8
<1>10. ASSUME NEW i \in 0 .. n - 1
       PROVE  h[i + 1] = IF i \in P THEN Append(h[i], q[i]) ELSE h[i]
  <2>1. i \in 0 .. n /\ i + 1 \in 0 .. n /\ i + 1 \in 1 .. n
    BY <1>2
  <2>2. h[i] = g[1 .. i] /\ h[i + 1] = g[1 .. i + 1]
    BY <2>1
  <2> HIDE DEF h
  <2>3. h[i + 1] = Change(h[i], s[i + 1])
    BY <1>8, <2>1, <2>2
  <2>4. (i \in P <=> Has(t, ks[i + 1])) /\ q[i] = ks[i + 1]
    OBVIOUS
  <2> QED
    BY ONLY <1>3, <2>1, <2>3, <2>4
<1>11. \A i \in P : q[i] \in S
  BY <1>2
<1> HIDE DEF h, P, q, S
<1>12. ListsAll(h[n], S, n, P, q)
  BY ONLY <1>2, <1>9, <1>10, <1>11, ListedAll
<1> QED
  BY <1>9, <1>12 DEF ListsAll, S

\* Some keys of a list may have got slots, and nothing changed for other keys.
Assigning(m, ks, x) ==
  /\ Kept(x) /\ (Turned(m) => Turned(x)) /\ Grown(m, x)
  /\ \A e \in Entries(x.table) :
       e.key \in ToSet(ks) \/ (e \in Entries(m.table) /\ x.gen[e.slot] = m.gen[e.slot])

\* Another key may get a slot.
LEMMA OneMoreAssigned ==
  ASSUME NEW m, NEW ks \in Seq(Keys), NEW x, Assigning(m, ks, x), NEW i \in 1 .. Len(ks)
  PROVE  Assigning(m, ks, IF Has(x.table, ks[i]) \/ x.free = <<>> THEN x ELSE Allocated(x, ks[i]))
<1>1. ks[i] \in Keys /\ ks[i] \in ToSet(ks)
  BY DEF ToSet
<1>2. CASE ~ (Has(x.table, ks[i]) \/ x.free = <<>>)
  <2> DEFINE n == Allocated(x, ks[i])
  <2>1. /\ Kept(n) /\ (Turned(x) => Turned(n)) /\ Grown(x, n)
        /\ \A e \in Entries(n.table) : e.key = ks[i] \/ (e \in Entries(x.table) /\ n.gen[e.slot] = x.gen[e.slot])
    BY <1>1, <1>2, AllocatedTurns DEF Assigning
  <2> HIDE DEF n
  <2>2. Assigning(m, ks, n)
    BY ONLY <1>1, <2>1, Assigning(m, ks, x), GrownFurther DEF Assigning
  <2> QED
    BY <1>2, <2>2 DEF n
<1> QED
  BY <1>2

\* Keys that get slots leave the books kept.
LEMMA AssignedKept ==
  ASSUME NEW m, Kept(m), NEW ks \in Seq(Keys)
  PROVE  Assigning(m, ks, Assigned(m, ks))
<1> DEFINE n == Len(ks)
<1>1. n \in Nat /\ \A i \in 1 .. n : ks[i] \in Keys
  OBVIOUS
<1> PICK h : AssignSteps(m, ks, h)
  BY AssignedInOrder
<1>2. /\ h[0] = m
      /\ \A i \in 0 .. n - 1 :
           h[i + 1] = IF Has(h[i].table, ks[i + 1]) \/ h[i].free = <<>>
                      THEN h[i] ELSE Allocated(h[i], ks[i + 1])
      /\ Assigned(m, ks) = h[n]
  BY DEF AssignSteps
<1> HIDE DEF n
<1> DEFINE Bad == {i \in 0 .. n : ~ Assigning(m, ks, h[i])}
<1>3. Bad = {}
  <2> SUFFICES ASSUME Bad # {} PROVE FALSE
    OBVIOUS
  <2>1. PICK j \in Bad : \A i \in Bad : j <= i
    <3>1. Bad \in SUBSET Nat
      OBVIOUS
    <3> QED
      BY <3>1, LeastNumber
  <2>2. j # 0 /\ j \in 0 .. n /\ ~ Assigning(m, ks, h[j])
    <3>1. Assigning(m, ks, m)
      BY DEF Assigning, Grown
    <3> QED
      BY <1>2, <2>1, <3>1
  <2>3. j - 1 \in 0 .. n - 1 /\ j - 1 \in 0 .. n /\ j \in 1 .. n /\ (j - 1) + 1 = j /\ ~ (j <= j - 1)
    BY <1>1, <2>2
  <2>4. Assigning(m, ks, h[j - 1])
    BY <2>1, <2>3
  <2>5. h[j] = IF Has(h[j - 1].table, ks[j]) \/ h[j - 1].free = <<>>
               THEN h[j - 1] ELSE Allocated(h[j - 1], ks[j])
    BY <1>2, <2>3
  <2>6. j \in 1 .. Len(ks)
    BY <2>3 DEF n
  <2> QED
    BY ONLY <2>2, <2>4, <2>5, <2>6, ks \in Seq(Keys), OneMoreAssigned
<1>4. n \in 0 .. n
  BY <1>1
<1> QED
  BY <1>2, <1>3, <1>4

\* A clear has freed what was its own in the first i buckets, and has not lost the
\* rest.
Clearing(m, x, i) ==
  /\ Kept(x) /\ (Turned(m) => Turned(x)) /\ Grown(x, m)
  /\ \A e \in Entries(m.table) : e.key \notin Owned => e \in Entries(x.table)
  /\ \A b \in Keyed(m.table) :
       /\ b >= i => m.table[b] \in Entries(x.table)
       /\ b < i /\ m.table[b].key \in Owned => m.table[b].slot \in ToSet(x.free)
  /\ \A e \in Entries(x.table) : e \in Entries(m.table) /\ x.gen[e.slot] = m.gen[e.slot]

\* What is in another bucket is freed.
LEMMA OneMoreCleared ==
  ASSUME NEW m, Kept(m), NEW i \in Buckets, NEW x, Clearing(m, x, i)
  PROVE  Clearing(m, IF m.table[i].key \in Owned THEN Freed(x, m.table[i].key) ELSE x, i + 1)
<1>1. Sound(m.table) /\ Sound(x.table) /\ Kept(x) /\ i \in Nat /\ \A b \in Keyed(m.table) : b \in Nat
  BY DEF Kept, Clearing, Buckets, Keyed
<1>2. CASE m.table[i].key \notin Owned
  <2>1. \A b \in Keyed(m.table) : /\ b >= i + 1 => b >= i
                                 /\ b < i + 1 /\ m.table[b].key \in Owned => b < i
    <3> TAKE b \in Keyed(m.table)
    <3>1. m.table[b].key \in Owned => b # i
      BY <1>2
    <3> QED
      BY ONLY <1>1, <3>1
  <2>2. \A b \in Keyed(m.table) :
          /\ b >= i + 1 => m.table[b] \in Entries(x.table)
          /\ b < i + 1 /\ m.table[b].key \in Owned => m.table[b].slot \in ToSet(x.free)
    <3> TAKE b \in Keyed(m.table)
    <3>1. /\ b >= i => m.table[b] \in Entries(x.table)
          /\ b < i /\ m.table[b].key \in Owned => m.table[b].slot \in ToSet(x.free)
      BY DEF Clearing
    <3> QED
      BY ONLY <1>1, <2>1, <3>1
  <2>3. Clearing(m, x, i + 1)
    <3>1. /\ Kept(x) /\ (Turned(m) => Turned(x)) /\ Grown(x, m)
          /\ \A e \in Entries(m.table) : e.key \notin Owned => e \in Entries(x.table)
          /\ \A e \in Entries(x.table) : e \in Entries(m.table) /\ x.gen[e.slot] = m.gen[e.slot]
      BY DEF Clearing
    <3> QED
      BY ONLY <2>2, <3>1 DEF Clearing
  <2> QED
    BY <1>2, <2>3
<1>3. CASE m.table[i].key \in Owned
  <2>1. i \in Keyed(m.table) /\ i >= i
    BY <1>1, <1>3 DEF Keyed
  <2>2. PICK b \in Keyed(x.table) : x.table[b] = m.table[i]
    BY <2>1 DEF Clearing, Entries
  <2> DEFINE y == Freed(x, m.table[i].key)
  <2>3. y = Freed(x, x.table[b].key)
    BY <2>2
  <2> HIDE DEF y
  <2>4. /\ Kept(y) /\ (Turned(x) => Turned(y)) /\ Grown(y, x)
        /\ Entries(y.table) = Entries(x.table) \ {m.table[i]}
        /\ \A e \in Entries(y.table) : y.gen[e.slot] = x.gen[e.slot]
        /\ ToSet(y.free) = ToSet(x.free) \cup {m.table[i].slot}
    <3>1. /\ Kept(y) /\ (Turned(x) => Turned(y)) /\ Grown(y, x)
          /\ Entries(y.table) = Entries(x.table) \ {x.table[b]}
          /\ \A e \in Entries(y.table) : y.gen[e.slot] = x.gen[e.slot]
          /\ ToSet(y.free) = ToSet(x.free) \cup {x.table[b].slot}
      <4>1. Kept(x)
        BY DEF Clearing
      <4>2. PICK n : n = y
        OBVIOUS
      <4>3. n = Freed(x, x.table[b].key)
        BY <2>3, <4>2
      <4>4. /\ Kept(n) /\ (Turned(x) => Turned(n)) /\ Grown(n, x)
            /\ Entries(n.table) = Entries(x.table) \ {x.table[b]}
            /\ \A e \in Entries(n.table) : e.slot # x.table[b].slot /\ n.gen[e.slot] = x.gen[e.slot]
            /\ ToSet(n.free) = ToSet(x.free) \cup {x.table[b].slot}
        <5>1. b \in Keyed(x.table)
          OBVIOUS
        <5> QED
          BY ONLY <4>1, <4>3, <5>1, FreedTurns
      <4> QED
        BY ONLY <4>2, <4>4
    <3> QED
      BY ONLY <2>2, <3>1
  <2>5. ASSUME NEW c \in Keyed(m.table), c >= i + 1 PROVE m.table[c] \in Entries(y.table)
    <3>1. c >= i /\ c # i
      BY ONLY <1>1, <2>5
    <3>2. m.table[c] # m.table[i]
      BY <1>1, <2>1, <3>1, KeyedOnce
    <3> QED
      BY <2>4, <3>1, <3>2 DEF Clearing
  <2>6. ASSUME NEW c \in Keyed(m.table), c < i + 1, m.table[c].key \in Owned PROVE m.table[c].slot \in ToSet(y.free)
    <3>1. c < i \/ c = i
      BY ONLY <1>1, <2>6
    <3> QED
      BY <2>4, <2>6, <3>1 DEF Clearing
  <2>7. Grown(y, m)
    BY <2>4, GrownFurther DEF Clearing
  <2>8. Clearing(m, y, i + 1)
    BY <1>3, <2>4, <2>5, <2>6, <2>7 DEF Clearing
  <2> QED
    BY <1>3, <2>8 DEF y
<1> QED
  BY <1>2, <1>3

\* A clear leaves the books kept.
LEMMA ClearedKept ==
  ASSUME NEW m, Kept(m)
  PROVE  Clearing(m, Cleared(m), Capacity)
<1>1. PICK h : /\ h[0] = m
               /\ \A i \in Buckets :
                    h[i + 1] = IF m.table[i].key \in Owned THEN Freed(h[i], m.table[i].key) ELSE h[i]
               /\ Cleared(m) = h[Capacity]
  BY ClearedInOrder
<1> DEFINE Bad == {i \in 0 .. Capacity : ~ Clearing(m, h[i], i)}
<1>2. Clearing(m, m, 0)
  <2>1. Grown(m, m) /\ \A b \in Keyed(m.table) : b >= 0 /\ ~ (b < 0)
    BY DEF Grown, Keyed, Buckets
  <2>2. \A b \in Keyed(m.table) : m.table[b] \in Entries(m.table)
    BY DEF Entries
  <2> QED
    BY ONLY <2>1, <2>2, Kept(m) DEF Clearing
<1>3. Bad = {}
  <2> SUFFICES ASSUME Bad # {} PROVE FALSE
    OBVIOUS
  <2>1. PICK j \in Bad : \A i \in Bad : j <= i
    <3>1. Bad \in SUBSET Nat
      OBVIOUS
    <3> QED
      BY <3>1, LeastNumber
  <2>2. j # 0 /\ j \in 0 .. Capacity /\ ~ Clearing(m, h[j], j)
    BY <1>1, <1>2, <2>1
  <2>3. j - 1 \in Buckets /\ j - 1 \in 0 .. Capacity /\ (j - 1) + 1 = j /\ ~ (j <= j - 1)
    BY <2>2 DEF Buckets
  <2>4. Clearing(m, h[j - 1], j - 1)
    BY <2>1, <2>3
  <2>5. h[j] = IF m.table[j - 1].key \in Owned THEN Freed(h[j - 1], m.table[j - 1].key) ELSE h[j - 1]
    BY <1>1, <2>3
  <2> QED
    BY <2>2, <2>3, <2>4, <2>5, OneMoreCleared
<1>4. Capacity \in 0 .. Capacity
  OBVIOUS
<1> QED
  BY <1>1, <1>3, <1>4

----------------------------------------------------------------------------
(* Calls and semaphores. *)

\* The keys that a call has assigned slots to.
Known(c) == {c.slots[i].key : i \in DOMAIN c.slots}

\* A writer that tries again knows the slots of all the keys it is about.
SlotsKnown(c) ==
  /\ c.slots \in Seq(RefType)
  /\ c.pc \in {"start", "map"} => c.again = <<>>
  /\ c.slots # <<>> => /\ ToSet(c.keys) \subseteq Known(c) /\ ToSet(c.again) \subseteq Known(c)
                       /\ \A i \in DOMAIN c.refs : c.refs[i].key \in Known(c)

\* A call with the keys, references and operation that its place in the program needs.
CallKept(c) ==
  \/ c = Idle
  \/ /\ DOMAIN c = {"pc", "op", "keys", "at", "exp", "refs", "slots", "again", "tries"}
     /\ c.pc \in {"start", "map", "gap", "slot", "write", "both"}
     /\ c.keys \in Seq(Keys) /\ c.again \in Seq(Keys)
     /\ c.op \in {"set", "increment"} /\ c.pc \in {"gap", "slot", "write"}
          => c.refs \in Seq(RefType) /\ c.refs # <<>>
     /\ c.op \in {"set", "increment"} => SlotsKnown(c)
     /\ c.pc \in {"map", "gap", "slot", "write"} => c.op \in MapFirst
     /\ c.pc = "both" => c.op \notin MapFirst
     /\ c.op \notin MapFirst => c.keys # <<>>

\* A semaphore is held by the call that is where it guards, and by no other.
SemaphoresHeld ==
  /\ mapSem \in Workers \cup {Nobody} /\ slotSem \in Workers \cup {Nobody}
  /\ \A w \in Workers : /\ mapSem = w <=> At(w, "map")
                        /\ slotSem = w <=> calls[w].pc \in {"slot", "write", "both"}

\* The inductive invariant: the map is kept, and nobody is where a semaphore guards
\* without holding it.
IInv ==
  /\ Kept(map) /\ SemaphoresHeld
  /\ calls = [w \in Workers |-> calls[w]] /\ \A w \in Workers : CallKept(calls[w])

\* The call of w goes to c, and the semaphores with it.
MovesTo(w, c) ==
  /\ calls' = [calls EXCEPT ![w] = c]
  /\ mapSem' \in Workers \cup {Nobody} /\ slotSem' \in Workers \cup {Nobody}
  /\ \A v \in Workers \ {w} : (mapSem' = v <=> mapSem = v) /\ (slotSem' = v <=> slotSem = v)
  /\ mapSem' = w <=> c.pc = "map"
  /\ slotSem' = w <=> c.pc \in {"slot", "write", "both"}

\* It is enough to look at the call that moves.
LEMMA MoverKeeps ==
  ASSUME IInv, NEW w \in Workers, NEW c, CallKept(c), MovesTo(w, c), Kept(map')
  PROVE  IInv'
<1>1. calls'[w] = c /\ \A v \in Workers : v # w => calls'[v] = calls[v]
  BY DEF IInv, MovesTo
<1>2. calls' = [v \in Workers |-> calls'[v]]
  BY DEF IInv, MovesTo
<1>3. SemaphoresHeld'
  BY <1>1 DEF IInv, MovesTo, SemaphoresHeld, At
<1>4. \A v \in Workers : CallKept(calls'[v])
  BY <1>1 DEF IInv
<1> QED
  BY <1>2, <1>3, <1>4 DEF IInv

\* Taking the map's semaphore.
LEMMA MapTaken ==
  ASSUME IInv, NEW w \in Workers, NEW c, calls' = [calls EXCEPT ![w] = c],
         mapSem = Nobody, mapSem' = w, slotSem' = slotSem, c.pc = "map", calls[w].pc \in {"idle", "start"}
  PROVE  MovesTo(w, c)
BY DEF IInv, SemaphoresHeld, MovesTo, At

\* Giving the map's semaphore back.
LEMMA MapGiven ==
  ASSUME IInv, NEW w \in Workers, NEW c, calls' = [calls EXCEPT ![w] = c],
         At(w, "map"), mapSem' = Nobody, slotSem' = slotSem, c.pc \in {"idle", "gap"}
  PROVE  MovesTo(w, c)
BY DEF IInv, SemaphoresHeld, MovesTo, At

\* Taking the slots' semaphore.
LEMMA SlotTaken ==
  ASSUME IInv, NEW w \in Workers, NEW c, calls' = [calls EXCEPT ![w] = c],
         slotSem = Nobody \/ calls[w].pc \in {"slot", "write"}, ~ At(w, "map"),
         mapSem' = mapSem, slotSem' = w, c.pc \in {"slot", "write", "both"}
  PROVE  MovesTo(w, c)
BY DEF IInv, SemaphoresHeld, MovesTo, At

\* Giving it back.
LEMMA SlotGiven ==
  ASSUME IInv, NEW w \in Workers, NEW c, calls' = [calls EXCEPT ![w] = c],
         slotSem = Nobody \/ calls[w].pc \in {"slot", "write", "both"}, ~ At(w, "map"),
         mapSem' = mapSem, slotSem' = Nobody, c.pc \in {"idle", "start"}
  PROVE  MovesTo(w, c)
BY DEF IInv, SemaphoresHeld, MovesTo, At

\* A call that begins.
LEMMA BegunKept ==
  ASSUME NEW pc, NEW op, NEW ks \in Seq(Keys), NEW at, NEW exp,
         \/ pc = "map" /\ op \in MapFirst
         \/ pc \in {"start", "both"} /\ op \notin MapFirst /\ ks # <<>>
  PROVE  CallKept(Begun(pc, op, ks, at, exp)) /\ Begun(pc, op, ks, at, exp).pc = pc
<1> DEFINE c == Begun(pc, op, ks, at, exp)
<1>1. <<>> \in Seq(Keys) /\ <<>> \in Seq(RefType)
  OBVIOUS
<1>2. c.slots = <<>> /\ c.again = <<>>
  BY DEF Begun
<1>3. SlotsKnown(c)
  BY <1>1, <1>2 DEF SlotsKnown
<1> QED
  BY <1>1, <1>3 DEF CallKept, Begun

\* Calls begin.
LEMMA BeginKeeps ==
  ASSUME IInv, NEW w \in Workers, Begin(w)
  PROVE  IInv'
<1>1. At(w, "idle") /\ mapSem = Nobody /\ mapSem' = w /\ map' = map /\ slotSem' = slotSem
  BY DEF Begin
<1>2. \E op \in MapFirst, at \in 0 .. now, ks \in Seq(Keys) : \E exp :
        calls' = [calls EXCEPT ![w] = Begun("map", op, ks, at, exp)]
  <2>1. PICK op \in Ops \cap MapFirst, at \in 0 .. now, timed \in BOOLEAN :
          LET Call(ks) == Begun("map", op, ks, at, IF timed THEN at + TTL ELSE Forever)
          IN  \/ /\ op = "get" /\ ~timed
                 /\ \E K \in Batches : calls' = [calls EXCEPT ![w] = Call(SetToSeq(K))]
              \/ /\ op = "set"
                 /\ \E K \in Batches : calls' = [calls EXCEPT ![w] = Call(SetToSeq(K))]
              \/ /\ op = "increment" \/ (op = "expire" /\ timed)
                 /\ \E k \in Keys : calls' = [calls EXCEPT ![w] = Call(<<k>>)]
              \/ /\ op = "clear" /\ ~timed
                 /\ calls' = [calls EXCEPT ![w] = Call(<<>>)]
    BY DEF Begin
  <2>2. \A K \in Batches : SetToSeq(K) \in Seq(Keys)
    <3> TAKE K \in Batches
    <3>1. SetToSeq(K) \in Seq(K) /\ K \subseteq Keys
      BY SetListed
    <3> QED
      BY <3>1
  <2>3. <<>> \in Seq(Keys) /\ \A k \in Keys : <<k>> \in Seq(Keys)
    OBVIOUS
  <2>4. \E ks \in Seq(Keys) : calls' = [calls EXCEPT ![w] = Begun("map", op, ks, at, IF timed THEN at + TTL ELSE Forever)]
    BY <2>1, <2>2, <2>3
  <2> QED
    BY <2>4
<1>3. PICK op \in MapFirst, at \in 0 .. now, ks \in Seq(Keys) : \E exp :
        calls' = [calls EXCEPT ![w] = Begun("map", op, ks, at, exp)]
  BY <1>2
<1> PICK exp : calls' = [calls EXCEPT ![w] = Begun("map", op, ks, at, exp)]
  BY <1>3
<1> DEFINE c == Begun("map", op, ks, at, exp)
<1>4. CallKept(c) /\ c.pc = "map" /\ calls' = [calls EXCEPT ![w] = c]
  BY BegunKept
<1> HIDE DEF c
<1>5. MovesTo(w, c)
  BY <1>1, <1>4, MapTaken DEF At
<1>6. Kept(map')
  BY <1>1 DEF IInv
<1> QED
  BY <1>4, <1>5, <1>6, MoverKeeps

\* A call that is under way: what its record has.
LEMMA CallUnderWay ==
  ASSUME IInv, NEW w \in Workers, ~ At(w, "idle")
  PROVE  /\ DOMAIN calls[w] = {"pc", "op", "keys", "at", "exp", "refs", "slots", "again", "tries"}
         /\ calls[w].pc \in {"start", "map", "gap", "slot", "write", "both"}
         /\ calls[w].keys \in Seq(Keys) /\ calls[w].again \in Seq(Keys)
         /\ calls[w].op \in {"set", "increment"} /\ calls[w].pc \in {"gap", "slot", "write"}
              => calls[w].refs \in Seq(RefType) /\ calls[w].refs # <<>>
         /\ calls[w].op \in {"set", "increment"} => SlotsKnown(calls[w])
         /\ calls[w].pc \in {"map", "gap", "slot", "write"} => calls[w].op \in MapFirst
         /\ calls[w].pc = "both" => calls[w].op \notin MapFirst
         /\ calls[w].op \notin MapFirst => calls[w].keys # <<>>
<1>1. calls[w] # Idle
  BY DEF At, Idle
<1> QED
  BY <1>1 DEF IInv, CallKept

\* A writer that only goes on remembers what it did.
LEMMA SlotsStayKnown ==
  ASSUME NEW c, NEW d, SlotsKnown(c), d.slots = c.slots, d.keys = c.keys, d.again = c.again, d.refs = c.refs,
         d.pc \in {"start", "map"} => c.pc \in {"start", "map"}
  PROVE  SlotsKnown(d)
<1>1. Known(d) = Known(c)
  BY DEF Known
<1> QED
  BY <1>1 DEF SlotsKnown

\* A call that gives the map's semaphore back.
LEMMA LeaveMapKeeps ==
  ASSUME IInv, NEW w \in Workers, At(w, "map"), NEW refs, LeaveMap(w, refs), Kept(map'),
         calls[w].op \in {"set", "increment"} /\ refs # <<>> =>
           refs \in Seq(RefType) /\ \A k \in ToSet(calls[w].keys) : \E i \in DOMAIN refs : refs[i].key = k
  PROVE  IInv'
<1> DEFINE c == IF refs = <<>> THEN Idle ELSE [calls[w] EXCEPT !.pc = "gap", !.refs = refs, !.slots = refs]
<1>1. calls' = [calls EXCEPT ![w] = c] /\ mapSem' = Nobody /\ slotSem' = slotSem
  BY DEF LeaveMap
<1>2. ~ At(w, "idle")
  BY DEF At
<1>3. CallKept(c) /\ c.pc \in {"idle", "gap"}
  <2>1. CASE refs = <<>>
    BY <2>1 DEF CallKept, Idle
  <2>2. CASE refs # <<>>
    <3>1. c = [calls[w] EXCEPT !.pc = "gap", !.refs = refs, !.slots = refs]
      BY <2>2
    <3> HIDE DEF c
    <3>2. /\ DOMAIN c = {"pc", "op", "keys", "at", "exp", "refs", "slots", "again", "tries"}
          /\ c.pc = "gap" /\ c.refs = refs /\ c.slots = refs
          /\ c.op = calls[w].op /\ c.keys = calls[w].keys /\ c.again = calls[w].again
      BY <1>2, <3>1, CallUnderWay
    <3>3. c.op \in MapFirst
      BY <1>2, <3>2, CallUnderWay DEF At
    <3>4. ASSUME c.op \in {"set", "increment"} PROVE SlotsKnown(c)
      <4>1. c.again = <<>> /\ ToSet(<<>>) = {}
        BY <1>2, <3>2, <3>4, CallUnderWay DEF At, SlotsKnown, ToSet
      <4>2. \A k \in ToSet(c.keys) : k \in Known(c)
        BY <2>2, <3>2, <3>4 DEF Known
      <4>3. \A i \in DOMAIN c.refs : c.refs[i].key \in Known(c)
        BY <3>2 DEF Known
      <4> QED
        BY <2>2, <3>2, <3>4, <4>1, <4>2, <4>3 DEF SlotsKnown
    <3> QED
      BY <1>2, <2>2, <3>2, <3>3, <3>4, CallUnderWay DEF CallKept
  <2> QED
    BY <2>1, <2>2
<1> HIDE DEF c
<1>4. MovesTo(w, c)
  BY <1>1, <1>3, MapGiven
<1> QED
  BY <1>3, <1>4, MoverKeeps

\* What a call remembers of a key that is there.
LEMMA RefOfKey ==
  ASSUME NEW m, Kept(m), NEW k \in Keys, Has(m.table, k)
  PROVE  /\ Ref(m, k) \in RefType
         /\ Lookup(m.table, k) \in Keyed(m.table) /\ m.table[Lookup(m.table, k)].key = k
<1>1. Sound(m.table) /\ HasRoom(m.table) /\ m \in Maps
  BY KeptHasRoom DEF Kept
<1>2. PICK b \in Buckets : m.table[b].key = k
  BY <1>1, HasMeans
<1>3. Lookup(m.table, k) = b /\ b \in Keyed(m.table)
  BY <1>1, <1>2, KeyIsFound DEF Keyed
<1>4. m.table[b].slot \in Slots
  BY <1>3 DEF Kept, Entries
<1>5. m.gen[m.table[b].slot] \in 0 .. Generations - 1
  BY <1>1, <1>4 DEF Maps
<1> QED
  BY <1>2, <1>3, <1>4, <1>5 DEF Ref, RefType, SlotOf

\* A list made from a list.
LEMMA ListFromList ==
  ASSUME NEW S, NEW T, NEW s \in Seq(S), NEW t \in [DOMAIN s -> T]
  PROVE  t \in Seq(T)
<1>1. DOMAIN s = 1 .. Len(s) /\ Len(s) \in Nat
  OBVIOUS
<1>2. t \in [1 .. Len(s) -> T]
  BY <1>1
<1> QED
  BY <1>1, <1>2

\* What a writer remembers once all the keys it looked for have slots: of these the slots
\* they have, and of the others what it knew.
LEMMA SlottedKeys ==
  ASSUME NEW c, c.keys \in Seq(Keys), SlotsKnown(c), NEW m, Kept(m), \A k \in ToSet(c.keys) : Has(m.table, k)
  PROVE  /\ Slotted(m, c) \in Seq(RefType)
         /\ \A k \in ToSet(c.keys) : \E i \in DOMAIN Slotted(m, c) : Slotted(m, c)[i] = Ref(m, k)
         /\ \A i \in DOMAIN Slotted(m, c) :
              \/ \E k \in ToSet(c.keys) : Slotted(m, c)[i] = Ref(m, k)
              \/ i \in DOMAIN c.slots /\ Slotted(m, c)[i] = c.slots[i]
<1>1. \A k \in ToSet(c.keys) : Ref(m, k) \in RefType
  <2> TAKE k \in ToSet(c.keys)
  <2>1. k \in Keys
    BY DEF ToSet
  <2> QED
    BY <2>1, RefOfKey
<1>2. CASE c.slots = <<>>
  <2>1. PICK s : s = [i \in DOMAIN c.keys |-> Ref(m, c.keys[i])] /\ s = Slotted(m, c)
    BY <1>2 DEF Slotted
  <2>2. DOMAIN c.keys = 1 .. Len(c.keys) /\ Len(c.keys) \in Nat /\ DOMAIN s = DOMAIN c.keys
    BY <2>1
  <2>3. \A i \in DOMAIN c.keys : s[i] = Ref(m, c.keys[i]) /\ c.keys[i] \in ToSet(c.keys)
    BY <2>1 DEF ToSet
  <2>4. \A i \in 1 .. Len(c.keys) : s[i] \in RefType
    BY <1>1, <2>2, <2>3
  <2>5. s \in Seq(RefType)
    <3>1. s \in [DOMAIN c.keys -> RefType]
      BY <2>1, <2>2, <2>4
    <3> QED
      BY <3>1, ListFromList
  <2>6. \A k \in ToSet(c.keys) : \E i \in DOMAIN s : s[i] = Ref(m, k)
    BY <2>2, <2>3 DEF ToSet
  <2> QED
    BY <2>1, <2>2, <2>3, <2>5, <2>6
<1>3. CASE c.slots # <<>>
  <2>1. PICK s : /\ s = Slotted(m, c)
                 /\ s = [i \in DOMAIN c.slots |-> IF c.slots[i].key \in ToSet(c.keys)
                                                  THEN Ref(m, c.slots[i].key) ELSE c.slots[i]]
    BY <1>3 DEF Slotted
  <2>2. /\ DOMAIN c.slots = 1 .. Len(c.slots) /\ Len(c.slots) \in Nat /\ DOMAIN s = DOMAIN c.slots
        /\ \A i \in DOMAIN c.slots : c.slots[i] \in RefType
    BY <2>1 DEF SlotsKnown
  <2>3. \A i \in DOMAIN c.slots, k \in ToSet(c.keys) : c.slots[i].key = k => s[i] = Ref(m, k)
    BY <2>1
  <2>7. \A i \in DOMAIN c.slots : c.slots[i].key \notin ToSet(c.keys) => s[i] = c.slots[i]
    BY <2>1
  <2>4. \A i \in DOMAIN c.slots : s[i] \in RefType
    <3> TAKE i \in DOMAIN c.slots
    <3>1. CASE c.slots[i].key \in ToSet(c.keys)
      BY <1>1, <2>3, <3>1
    <3>2. CASE c.slots[i].key \notin ToSet(c.keys)
      BY <2>2, <2>7, <3>2
    <3> QED
      BY <3>1, <3>2
  <2>5. s \in Seq(RefType)
    <3>1. s \in [DOMAIN c.slots -> RefType]
      BY <2>1, <2>4
    <3>2. c.slots \in Seq(RefType)
      BY DEF SlotsKnown
    <3> QED
      BY <3>1, <3>2, ListFromList
  <2>6. \A k \in ToSet(c.keys) : \E i \in DOMAIN s : s[i] = Ref(m, k)
    <3> TAKE k \in ToSet(c.keys)
    <3>1. PICK i \in DOMAIN c.slots : c.slots[i].key = k
      BY <1>3 DEF SlotsKnown, Known
    <3>2. s[i] = Ref(m, k)
      BY <2>3, <3>1
    <3> QED
      BY <2>2, <3>2
  <2> QED
    BY <2>1, <2>2, <2>3, <2>5, <2>6, <2>7
<1> QED
  BY <1>2, <1>3

\* The part of a call under the map's semaphore.
LEMMA MapPartKeeps ==
  ASSUME IInv, NEW w \in Workers, Find(w) \/ Assign(w) \/ ClearMap(w)
  PROVE  IInv'
<1>1. At(w, "map") /\ ~ At(w, "idle")
  BY DEF Find, Assign, ClearMap, At
<1>2. CASE Find(w)
  <2>1. PICK refs : LeaveMap(w, refs)
    BY <1>2 DEF Find
  <2>2. calls[w].op \notin {"set", "increment"} /\ map' = map
    BY <1>2 DEF Find
  <2> QED
    BY <1>1, <2>1, <2>2, LeaveMapKeeps DEF IInv
<1>3. CASE Assign(w)
  <2> DEFINE c == calls[w]
             ks == c.keys
             m  == Assigned(map, ks)
             full == \E k \in ToSet(ks) : ~Has(m.table, k)
             refs == IF full THEN <<>> ELSE Slotted(m, c)
  <2>1. map' = m /\ LeaveMap(w, refs) /\ c.op \in {"set", "increment"}
    BY <1>3 DEF Assign
  <2>2. ks \in Seq(Keys) /\ SlotsKnown(c)
    BY <1>1, <2>1, CallUnderWay
  <2>3. Kept(m)
    BY <2>2, AssignedKept DEF IInv, Assigning
  <2> HIDE DEF m
  <2>4. refs # <<>> => refs \in Seq(RefType) /\ \A k \in ToSet(ks) : \E i \in DOMAIN refs : refs[i].key = k
    <3>1. CASE full
      BY <3>1
    <3>2. CASE ~ full
      <4>1. refs = Slotted(m, c)
        BY <3>2
      <4>2. refs \in Seq(RefType) /\ \A k \in ToSet(ks) : \E i \in DOMAIN refs : refs[i] = Ref(m, k)
        <5> HIDE DEF refs, c
        <5> QED
          BY <2>2, <2>3, <3>2, <4>1, SlottedKeys
      <4> HIDE DEF refs, c
      <4> QED
        BY <4>2 DEF Ref
    <3> QED
      BY <3>1, <3>2
  <2> HIDE DEF refs
  <2> QED
    BY <1>1, <2>1, <2>3, <2>4, LeaveMapKeeps
<1>4. CASE ClearMap(w)
  <2>1. PICK refs : LeaveMap(w, refs)
    BY <1>4 DEF ClearMap
  <2>2. calls[w].op \notin {"set", "increment"} /\ map' = Cleared(map)
    BY <1>4 DEF ClearMap
  <2>3. Kept(map')
    BY <2>2, ClearedKept DEF IInv, Clearing
  <2> QED
    BY <1>1, <2>1, <2>2, <2>3, LeaveMapKeeps
<1> QED
  BY <1>2, <1>3, <1>4

\* A call that takes a semaphore, or keeps the one it has.
LEMMA EnterKeeps ==
  ASSUME IInv, NEW w \in Workers, EnterMap(w) \/ EnterSlots(w) \/ Fresh(w)
  PROVE  IInv'
<1>1. ~ At(w, "idle") /\ ~ At(w, "map") /\ map' = map /\ Kept(map)
  BY DEF EnterMap, EnterSlots, Fresh, InSlots, At, IInv
<1> DEFINE c(pc) == [calls[w] EXCEPT !.pc = pc]
<1>2. \A pc : /\ DOMAIN c(pc) = DOMAIN calls[w] /\ c(pc).pc = pc /\ c(pc).refs = calls[w].refs
              /\ c(pc).op = calls[w].op /\ c(pc).keys = calls[w].keys /\ c(pc).again = calls[w].again
              /\ c(pc).slots = calls[w].slots
  BY <1>1, CallUnderWay
<1>3. CASE EnterMap(w)
  <2>1. calls[w].op \in MapFirst /\ calls' = [calls EXCEPT ![w] = c("map")]
    BY <1>3 DEF EnterMap
  <2> HIDE DEF c
  <2>2. CallKept(c("map"))
    <3>1. calls[w].op \in {"set", "increment"} => SlotsKnown(c("map"))
      BY <1>1, <1>2, <1>3, CallUnderWay, SlotsStayKnown DEF EnterMap, At
    <3> QED
      BY <1>1, <1>2, <2>1, <3>1, CallUnderWay DEF CallKept
  <2>3. MovesTo(w, c("map"))
    BY <1>2, <1>3, <2>1, MapTaken DEF EnterMap, At
  <2> QED
    BY <1>1, <2>2, <2>3, MoverKeeps
<1>4. CASE EnterSlots(w)
  <2>1. calls[w].op = "reap" /\ calls' = [calls EXCEPT ![w] = c("both")] /\ "reap" \notin MapFirst
    BY <1>4 DEF EnterSlots, MapFirst
  <2> HIDE DEF c
  <2>2. CallKept(c("both"))
    <3>1. /\ DOMAIN c("both") = DOMAIN calls[w] /\ c("both").pc = "both"
          /\ c("both").op = "reap" /\ c("both").op \notin {"set", "increment"} /\ c("both").keys = calls[w].keys /\ c("both").again = calls[w].again
      BY <1>2, <2>1
    <3>2. calls[w].keys # <<>>
      BY <1>1, <2>1, CallUnderWay
    <3> QED
      BY <1>1, <2>1, <3>1, <3>2, CallUnderWay DEF CallKept
  <2>3. MovesTo(w, c("both"))
    BY <1>1, <1>2, <1>4, <2>1, SlotTaken DEF EnterSlots
  <2> QED
    BY <1>1, <2>2, <2>3, MoverKeeps
<1>5. CASE Fresh(w)
  <2>1. calls[w].pc \in {"gap", "slot"} /\ calls' = [calls EXCEPT ![w] = c("write")]
    BY <1>5 DEF Fresh, InSlots, At
  <2> HIDE DEF c
  <2>2. CallKept(c("write"))
    <3>1. calls[w].op \in {"set", "increment"} => SlotsKnown(c("write"))
      BY <1>1, <1>2, CallUnderWay, SlotsStayKnown
    <3>2. /\ DOMAIN c("write") = DOMAIN calls[w] /\ c("write").pc = "write" /\ c("write").op = calls[w].op
          /\ c("write").keys = calls[w].keys /\ c("write").again = calls[w].again /\ c("write").refs = calls[w].refs
      BY <1>2
    <3> DEFINE d == c("write")
    <3> HIDE DEF d
    <3> QED
      BY <1>1, <2>1, <3>1, <3>2, CallUnderWay DEF CallKept, d
  <2>3. MovesTo(w, c("write"))
    <3>1. /\ slotSem = Nobody \/ calls[w].pc \in {"slot", "write"}
          /\ ~ At(w, "map") /\ mapSem' = mapSem /\ slotSem' = w
      BY <1>5, <2>1, Zenon DEF Fresh, InSlots, At
    <3>2. c("write").pc \in {"slot", "write", "both"}
      BY <1>2
    <3> QED
      BY <1>1, <2>1, <3>1, <3>2, SlotTaken, Zenon
  <2> QED
    BY <1>1, <2>2, <2>3, MoverKeeps
<1> QED
  BY <1>3, <1>4, <1>5

\* What is left of a list of more than one.
LEMMA TailOfLonger ==
  ASSUME NEW S, NEW s \in Seq(S), Len(s) > 1
  PROVE  Tail(s) \in Seq(S) /\ Tail(s) # <<>>
<1> DEFINE t == Tail(s)
<1>1. t \in Seq(S) /\ Len(t) = Len(s) - 1 /\ Len(s) \in Nat
  OBVIOUS
<1> HIDE DEF t
<1>2. Len(t) # 0
  <2>1. \A m, n \in Nat : n > 1 /\ m = n - 1 => m # 0
    OBVIOUS
  <2>2. Len(t) \in Nat
    BY ONLY <1>1
  <2> QED
    BY <1>1, <2>1, <2>2, Zenon
<1>3. t # <<>>
  BY <1>1, <1>2, EmptySeq
<1> QED
  BY <1>1, <1>3 DEF t

\* Its elements.
LEMMA TailEntries ==
  ASSUME NEW S, NEW s \in Seq(S), Len(s) > 1
  PROVE  \A j \in DOMAIN Tail(s) : j + 1 \in DOMAIN s /\ Tail(s)[j] = s[j + 1]
<1>1. Len(s) \in Nat /\ DOMAIN s = 1 .. Len(s) /\ Len(Tail(s)) = Len(s) - 1
  OBVIOUS
<1>2. DOMAIN Tail(s) = 1 .. Len(s) - 1
  BY <1>1, TailOfLonger
<1> QED
  BY <1>1, <1>2

\* A call that is done with a slot.
LEMMA ProceedKeeps ==
  ASSUME IInv, NEW w \in Workers, NEW again \in Seq(Keys), Proceed(w, again),
         InSlots(w) \/ At(w, "write"), map' = map, mapSem' = mapSem,
         calls[w].op \in {"set", "increment"} /\ calls[w].slots # <<>> => ToSet(again) \subseteq Known(calls[w])
  PROVE  IInv'
<1>1. /\ ~ At(w, "idle") /\ ~ At(w, "map") /\ Kept(map') /\ calls[w].pc \in {"gap", "slot", "write"} /\ calls[w].op \in MapFirst
      /\ (slotSem = Nobody \/ calls[w].pc \in {"slot", "write", "both"})
  <2>1. ~ At(w, "idle") /\ calls[w].pc \in {"gap", "slot", "write"} /\ (slotSem = Nobody \/ calls[w].pc \in {"slot", "write", "both"})
    BY DEF InSlots, At
  <2> QED
    BY <2>1, CallUnderWay DEF At, IInv
<1> DEFINE r == calls[w].refs
<1>2. CASE Len(r) > 1
  <2> DEFINE c == [calls[w] EXCEPT !.pc = "slot", !.refs = Tail(r), !.again = again]
  <2>1. calls' = [calls EXCEPT ![w] = c] /\ slotSem' = w
    BY <1>2 DEF Proceed
  <2>2. /\ DOMAIN c = DOMAIN calls[w] /\ c.pc = "slot" /\ c.refs = Tail(r)
        /\ c.op = calls[w].op /\ c.keys = calls[w].keys /\ c.again = again /\ c.slots = calls[w].slots
    BY <1>1, CallUnderWay
  <2> HIDE DEF c
  <2>3. ASSUME calls[w].op \in {"set", "increment"} PROVE Tail(r) \in Seq(RefType) /\ Tail(r) # <<>>
    <3>1. r \in Seq(RefType)
      BY <1>1, <2>3, CallUnderWay
    <3> QED
      BY <1>2, <3>1, TailOfLonger
  <2>4. ASSUME c.op \in {"set", "increment"} PROVE SlotsKnown(c)
    <3>1. SlotsKnown(calls[w]) /\ Known(c) = Known(calls[w]) /\ r \in Seq(RefType)
      BY <1>1, <2>2, <2>4, CallUnderWay DEF Known
    <3>2. \A i \in DOMAIN Tail(r) : i + 1 \in DOMAIN r /\ Tail(r)[i] = r[i + 1]
      BY <1>2, <3>1, TailEntries
    <3> QED
      BY <2>2, <2>4, <3>1, <3>2 DEF SlotsKnown
  <2>6. CallKept(c)
    BY <1>1, <2>2, <2>3, <2>4, CallUnderWay DEF CallKept
  <2>5. MovesTo(w, c)
    <3>1. slotSem = Nobody \/ calls[w].pc \in {"slot", "write"}
      BY <1>1
    <3> QED
      BY <1>1, <2>1, <2>2, <3>1, SlotTaken
  <2> QED
    BY <1>1, <2>5, <2>6, MoverKeeps
<1>3. CASE ~ (Len(r) > 1)
  <2> DEFINE d == [calls[w] EXCEPT !.pc = "start", !.refs = <<>>, !.keys = again, !.again = <<>>, !.tries = @ - 1]
             c == IF again # <<>> /\ calls[w].tries > 1 THEN d ELSE Idle
  <2>1. calls' = [calls EXCEPT ![w] = c] /\ slotSem' = Nobody
    BY <1>3 DEF Proceed
  <2>2. /\ DOMAIN d = DOMAIN calls[w] /\ d.pc = "start" /\ d.refs = <<>>
        /\ d.op = calls[w].op /\ d.keys = again /\ d.again = <<>> /\ d.slots = calls[w].slots
    BY <1>1, CallUnderWay
  <2> HIDE DEF d
  <2>3. CallKept(d)
    <3>1. <<>> \in Seq(Keys) /\ ToSet(<<>>) = {} /\ DOMAIN <<>> = {}
      BY DEF ToSet
    <3>2. d.op \in {"set", "increment"} => SlotsKnown(d)
      <4>1. Known(d) = Known(calls[w])
        BY <2>2 DEF Known
      <4> QED
        BY <1>1, <2>2, <3>1, <4>1, CallUnderWay DEF SlotsKnown
    <3> QED
      BY <1>1, <2>2, <3>1, <3>2, CallUnderWay DEF CallKept
  <2>4. CallKept(c) /\ c.pc \in {"idle", "start"}
    BY <2>2, <2>3 DEF CallKept, Idle
  <2> HIDE DEF c
  <2>5. MovesTo(w, c)
    BY <1>1, <2>1, <2>4, SlotGiven
  <2> QED
    BY <1>1, <2>4, <2>5, MoverKeeps
<1> QED
  BY <1>2, <1>3

\* A call that finds its slot in other hands, or accesses it.
LEMMA SlotPartKeeps ==
  ASSUME IInv, NEW w \in Workers,
         Stale(w) \/ Get(w) \/ Set(w) \/ Increment(w) \/ Expire(w) \/ Wipe(w)
  PROVE  IInv'
<1>1. CASE Stale(w)
  <2> DEFINE c == calls[w]
             again == IF c.op \in {"set", "increment"} THEN Append(c.again, Head(c.refs).key) ELSE c.again
  <2>1. Proceed(w, again) /\ InSlots(w) /\ map' = map /\ mapSem' = mapSem
    BY <1>1 DEF Stale
  <2>2. ~ At(w, "idle") /\ c.pc \in {"gap", "slot"} /\ c.again \in Seq(Keys)
    <3>1. ~ At(w, "idle") /\ c.pc \in {"gap", "slot"}
      BY <2>1 DEF InSlots, At
    <3> QED
      BY <3>1, CallUnderWay
  <2>3. again \in Seq(Keys)
    <3>1. CASE c.op \in {"set", "increment"}
      <4>1. c.refs \in Seq(RefType) /\ c.refs # <<>>
        BY <2>2, <3>1, CallUnderWay
      <4>2. Head(c.refs) \in RefType
        BY <4>1
      <4>3. Head(c.refs).key \in Keys
        BY <4>2 DEF RefType
      <4> QED
        BY <2>2, <3>1, <4>3, AppendProperties
    <3>2. CASE c.op \notin {"set", "increment"}
      BY <2>2, <3>2
    <3> QED
      BY <3>1, <3>2
  <2>4. ASSUME c.op \in {"set", "increment"}, c.slots # <<>> PROVE ToSet(again) \subseteq Known(c)
    <3>1. ToSet(c.again) \subseteq Known(c) /\ c.refs \in Seq(RefType) /\ c.refs # <<>>
      BY <2>2, <2>4, CallUnderWay DEF SlotsKnown
    <3>2. Head(c.refs).key \in Known(c)
      <4>1. 1 \in DOMAIN c.refs /\ Head(c.refs) = c.refs[1]
        BY <3>1
      <4> QED
        BY <2>2, <2>4, <4>1, CallUnderWay DEF SlotsKnown
    <3>3. again = Append(c.again, Head(c.refs).key)
      BY <2>4
    <3> HIDE DEF again
    <3>4. \A i \in DOMAIN again : again[i] \in ToSet(c.again) \/ again[i] = Head(c.refs).key
      BY <2>2, <3>3 DEF ToSet
    <3> QED
      BY <3>1, <3>2, <3>4 DEF ToSet
  <2> HIDE DEF again, c
  <2> QED
    BY <2>1, <2>3, <2>4, ProceedKeeps DEF c
<1>2. CASE Get(w) \/ Set(w) \/ Increment(w) \/ Expire(w) \/ Wipe(w)
  <2>1. At(w, "write") /\ Proceed(w, calls[w].again) /\ map' = map /\ mapSem' = mapSem
    BY <1>2, Zenon DEF Get, Set, Increment, Expire, Wipe, Access, Done
  <2>2. /\ calls[w].again \in Seq(Keys)
        /\ calls[w].op \in {"set", "increment"} /\ calls[w].slots # <<>> => ToSet(calls[w].again) \subseteq Known(calls[w])
    <3>1. ~ At(w, "idle")
      BY <2>1 DEF At
    <3> QED
      BY <3>1, CallUnderWay DEF SlotsKnown
  <2> QED
    BY <2>1, <2>2, ProceedKeeps
<1> QED
  BY <1>1, <1>2

\* A call that ends at once.
LEMMA EndKeeps ==
  ASSUME IInv, NEW w \in Workers, calls[w].pc \in {"write", "both"}, calls' = [calls EXCEPT ![w] = Idle],
         slotSem' = Nobody, mapSem' = mapSem, Kept(map')
  PROVE  IInv'
<1>1. CallKept(Idle) /\ Idle.pc = "idle" /\ ~ At(w, "map")
  BY DEF CallKept, Idle, At
<1>2. MovesTo(w, Idle)
  BY <1>1, SlotGiven
<1> QED
  BY <1>1, <1>2, MoverKeeps

\* A delete or the cleaner takes a key out of the table, or does not.
LEMMA UnlinkKeeps ==
  ASSUME IInv, NEW w \in Workers, NEW k \in Keys, NEW does, Unlink(w, k, does), does => Has(map.table, k)
  PROVE  IInv'
<1>1. /\ calls[w].pc = "both" /\ calls' = [calls EXCEPT ![w] = Idle]
      /\ slotSem' = Nobody /\ mapSem' = mapSem
      /\ map' = IF does THEN Freed(map, k) ELSE map
  BY DEF Unlink, At
<1>2. ASSUME Has(map.table, k) PROVE Kept(Freed(map, k))
  <2>1. Lookup(map.table, k) \in Keyed(map.table) /\ map.table[Lookup(map.table, k)].key = k
    BY <1>2, RefOfKey DEF IInv
  <2> QED
    BY <2>1, FreedKept DEF IInv
<1>3. Kept(map')
  BY <1>1, <1>2 DEF IInv
<1> QED
  BY <1>1, <1>3, EndKeeps

\* Deletes, the cleaner, and a value that is too large.
LEMMA BothPartKeeps ==
  ASSUME IInv, NEW w \in Workers, Delete(w) \/ Reap(w) \/ SetTooLarge(w)
  PROVE  IInv'
<1>1. CASE Delete(w) \/ Reap(w)
  <2> DEFINE k == Head(calls[w].keys)
             x == Head(calls[w].refs).slot
             fits == Has(map.table, k) /\ SlotOf(map.table, k) = x /\ data[x].occupied /\ ~Alive(x, calls[w].at)
  <2>1. Unlink(w, k, Has(map.table, k)) \/ Unlink(w, k, fits)
    BY <1>1 DEF Delete, Reap
  <2>2. At(w, "both") /\ ~ At(w, "idle")
    BY <1>1 DEF Delete, Reap, At
  <2>3. calls[w].keys \in Seq(Keys) /\ calls[w].keys # <<>>
    BY <2>2, CallUnderWay DEF At
  <2>4. k \in Keys
    BY <2>3
  <2>5. fits => Has(map.table, k)
    OBVIOUS
  <2> HIDE DEF fits, k
  <2> QED
    BY <2>1, <2>4, <2>5, UnlinkKeeps
<1>2. CASE SetTooLarge(w)
  <2>1. /\ calls[w].pc = "write" /\ calls' = [calls EXCEPT ![w] = Idle]
        /\ slotSem' = Nobody /\ mapSem' = mapSem /\ map' = map
    BY <1>2 DEF SetTooLarge, Access, At
  <2> QED
    BY <2>1, EndKeeps DEF IInv
<1> QED
  BY <1>1, <1>2

\* A delete begins, or the cleaner takes a sample.
LEMMA BeginBothKeeps ==
  ASSUME IInv, NEW w \in Workers, BeginDelete(w) \/ Sample(w)
  PROVE  IInv'
<1>1. At(w, "idle") /\ map' = map /\ mapSem' = mapSem /\ Kept(map')
  BY DEF BeginDelete, Sample, IInv
<1>2. ~ ("delete" \in MapFirst) /\ ~ ("reap" \in MapFirst)
  BY DEF MapFirst
<1>3. \A k \in Keys : <<k>> \in Seq(Keys) /\ <<k>> # <<>>
  OBVIOUS
<1>4. CASE BeginDelete(w)
  <2>1. PICK k \in Keys : calls' = [calls EXCEPT ![w] = Begun("both", "delete", <<k>>, now, Forever)]
    BY <1>4 DEF BeginDelete
  <2> DEFINE c == Begun("both", "delete", <<k>>, now, Forever)
  <2>2. CallKept(c) /\ c.pc = "both"
    <3> DEFINE ks == <<k>>
    <3>1. ks \in Seq(Keys) /\ ks # <<>> /\ "delete" \notin MapFirst
      BY <1>2, <1>3
    <3> HIDE DEF ks
    <3>2. CallKept(Begun("both", "delete", ks, now, Forever)) /\ Begun("both", "delete", ks, now, Forever).pc = "both"
      BY <3>1, BegunKept
    <3> QED
      BY <3>2 DEF ks
  <2>3. calls' = [calls EXCEPT ![w] = c] /\ slotSem = Nobody /\ slotSem' = w
    BY <1>4, <2>1 DEF BeginDelete
  <2> HIDE DEF c
  <2>4. MovesTo(w, c)
    BY <1>1, <2>2, <2>3, SlotTaken DEF At
  <2> QED
    BY <1>1, <2>2, <2>4, MoverKeeps
<1>5. CASE Sample(w)
  <2>1. PICK k \in Keys : calls' = [calls EXCEPT ![w] =
            [Begun("start", "reap", <<k>>, now, Forever) EXCEPT !.refs = <<Ref(map, k)>>]]
    BY <1>5 DEF Sample
  <2> DEFINE d == Begun("start", "reap", <<k>>, now, Forever)
             c == [d EXCEPT !.refs = <<Ref(map, k)>>]
  <2>2. CallKept(d) /\ d.pc = "start" /\ d.op = "reap" /\ d # Idle
    <3>1. CallKept(d) /\ d.pc = "start"
      <4> DEFINE ks == <<k>>
      <4>1. ks \in Seq(Keys) /\ ks # <<>> /\ "reap" \notin MapFirst
        BY <1>2, <1>3
      <4> HIDE DEF ks
      <4>2. CallKept(Begun("start", "reap", ks, now, Forever)) /\ Begun("start", "reap", ks, now, Forever).pc = "start"
        BY <4>1, BegunKept
      <4> QED
        BY <4>2 DEF ks
    <3>2. d.op = "reap"
      BY DEF Begun
    <3> QED
      BY <3>1, <3>2 DEF Idle
  <2> HIDE DEF d
  <2>3. CallKept(c) /\ c.pc = "start"
    <3>1. DOMAIN d = {"pc", "op", "keys", "at", "exp", "refs", "slots", "again", "tries"}
      BY <2>2 DEF CallKept
    <3>2. DOMAIN c = DOMAIN d /\ c.pc = d.pc /\ c.op = d.op /\ c.keys = d.keys /\ c.again = d.again
      BY <3>1
    <3> HIDE DEF c
    <3> QED
      BY <2>2, <3>1, <3>2 DEF CallKept
  <2>4. calls' = [calls EXCEPT ![w] = c] /\ slotSem' = slotSem
    BY <1>5, <2>1 DEF Sample, d
  <2> HIDE DEF c
  <2>5. MovesTo(w, c)
    BY <1>1, <2>3, <2>4 DEF IInv, SemaphoresHeld, MovesTo, At
  <2> QED
    BY <1>1, <2>3, <2>5, MoverKeeps
<1> QED
  BY <1>4, <1>5

\* The invariant holds at first, and every step keeps it.
LEMMA IInvInductive ==
  (Init => IInv) /\ (IInv /\ [Next]_vars => IInv')
<1>1. Init => IInv
  <2> SUFFICES ASSUME Init PROVE IInv
    OBVIOUS
  <2> DEFINE f == [i \in Slots |-> MaxKeys + 1 - i]
  <2>1. /\ map.table = EmptyTable /\ map.deleted = 0 /\ map.free = f
        /\ map = [table |-> EmptyTable, deleted |-> 0, free |-> f, gen |-> [s \in Slots |-> 0]]
    BY DEF Init
  <2>2. f \in Seq(Slots) /\ Len(f) = MaxKeys /\ IsInjective(f)
    <3>1. \A i \in 1 .. MaxKeys : MaxKeys + 1 - i \in 1 .. MaxKeys
      OBVIOUS
    <3>2. f \in Seq(Slots) /\ Len(f) = MaxKeys
      BY <3>1 DEF Slots
    <3>3. \A i, j \in 1 .. MaxKeys : MaxKeys + 1 - i = MaxKeys + 1 - j => i = j
      OBVIOUS
    <3> QED
      BY <3>2, <3>3 DEF IsInjective, Slots
  <2>3. Copied(EmptyTable, EmptyTable, 0)
    BY NothingCopied
  <2>4. Sound(EmptyTable) /\ Tombs(EmptyTable) = {} /\ Keyed(EmptyTable) = {}
    BY <2>3, ProbesAreBuckets DEF Copied, Keyed, EmptyTable, EmptyBucket, Bucket
  <2>5. Entries(EmptyTable) = {} /\ Cardinality({}) = 0
    BY <2>4, FS_EmptySet DEF Entries
  <2>6. map \in Maps
    <3>1. [s \in Slots |-> 0] \in [Slots -> 0 .. Generations - 1]
      OBVIOUS
    <3> QED
      BY <2>1, <2>2, <2>4, <3>1 DEF Maps, Sound
  <2> HIDE DEF f
  <2>7. Kept(map)
    BY <2>1, <2>2, <2>4, <2>5, <2>6 DEF Kept
  <2>8. calls = [w \in Workers |-> calls[w]] /\ \A w \in Workers : calls[w] = Idle /\ calls[w].pc = "idle"
    BY DEF Init, Idle
  <2>9. SemaphoresHeld
    BY <2>8 DEF Init, SemaphoresHeld, At
  <2> QED
    BY <2>7, <2>8, <2>9 DEF IInv, CallKept
<1>2. ASSUME IInv, [Next]_vars PROVE IInv'
  <2>1. CASE Tick \/ UNCHANGED vars
    BY <1>2, <2>1 DEF Tick, vars, IInv, SemaphoresHeld, At
  <2>2. ASSUME NEW w \in Workers, Step(w) PROVE IInv'
    BY <1>2, <2>2, MapPartKeeps, EnterKeeps, SlotPartKeeps, BothPartKeeps DEF Step
  <2>3. ASSUME NEW w \in Workers, Begin(w) \/ BeginDelete(w) \/ Sample(w) PROVE IInv'
    BY <1>2, <2>3, BeginKeeps, BeginBothKeeps
  <2> QED
    BY <1>2, <2>1, <2>2, <2>3 DEF Next
<1> QED
  BY <1>1, <1>2

----------------------------------------------------------------------------
(* Keys without data. *)

\* A call is going to write to the slot of a key: it has not got to the slots yet, or
\* its reference to that slot is current, or it will look for the key again.
Will(c, e, g) ==
  /\ c.pc \in {"start", "map", "gap", "slot", "write"} /\ c.op \in {"set", "increment"}
  /\ e.key \in ToSet(c.keys)
  /\ c.pc \in {"gap", "slot", "write"} =>
       \/ e.key \in ToSet(c.again)
       \/ \E i \in DOMAIN c.refs : c.refs[i] = [key |-> e.key, slot |-> e.slot, gen |-> g]

\* A clear is about to wipe a slot.
Wiping(c, s) == c.pc = "write" /\ c.op = "clear" /\ Head(c.refs).slot = s

\* The slot of a key has data, and they stay; or somebody will write them.
Safe(e) ==
  \/ data[e.slot].occupied /\ \A w \in Workers : ~ Wiping(calls[w], e.slot)
  \/ \E w \in Workers : Will(calls[w], e, map.gen[e.slot])

\* A clear's references to slots, which it remembers as free ones.
FreedRef == {r \in RefType : r.gen % 2 = 0}

ClearKept(c) ==
  c.pc \in {"gap", "slot", "write"} /\ c.op = "clear" => c.refs \in Seq(FreedRef) /\ c.refs # <<>>

DataKept == data = [s \in Slots |-> data[s]] /\ \A s \in Slots : "occupied" \in DOMAIN data[s]

\* The invariant for GhostsComeFromFailures.
GhostInv ==
  /\ Turned(map) /\ DataKept /\ failed \in BOOLEAN
  /\ \A w \in Workers : ClearKept(calls[w])
  /\ ~ failed => \A e \in Entries(map.table) : Safe(e)

\* Only w moves.
OthersStay(w) == \A v \in Workers : v # w => calls'[v] = calls[v]

\* It is enough to look at the call that moves.
LEMMA GhostsMoved ==
  ASSUME GhostInv, NEW w \in Workers, OthersStay(w), Turned(map'), DataKept', failed' \in BOOLEAN,
         ClearKept(calls'[w]), ~ failed' => \A e \in Entries(map'.table) : Safe(e)'
  PROVE  GhostInv'
<1>1. \A v \in Workers : ClearKept(calls'[v])
  BY DEF GhostInv, OthersStay
<1>2. Turned(map)'
  BY DEF Turned, Entries, Keyed
<1> QED
  BY <1>1, <1>2 DEF GhostInv, Entries, Keyed

\* A key's slot stays safe if it keeps its data, or w was wiping them anyway, and w still
\* writes if it was to.
LEMMA SafeMoved ==
  ASSUME NEW w \in Workers, OthersStay(w), NEW e, Safe(e), map'.gen[e.slot] = map.gen[e.slot],
         data[e.slot].occupied => data'[e.slot].occupied \/ Wiping(calls[w], e.slot),
         ~ Wiping(calls'[w], e.slot),
         Will(calls[w], e, map.gen[e.slot]) => Will(calls'[w], e, map.gen[e.slot])
  PROVE  Safe(e)'
<1>1. CASE data[e.slot].occupied /\ \A v \in Workers : ~ Wiping(calls[v], e.slot)
  <2>1. data'[e.slot].occupied
    BY <1>1
  <2>2. \A v \in Workers : ~ Wiping(calls'[v], e.slot)
    BY <1>1 DEF OthersStay
  <2> QED
    BY <2>1, <2>2 DEF Safe
<1>2. CASE \E v \in Workers : Will(calls[v], e, map.gen[e.slot])
  <2>1. PICK v \in Workers : Will(calls[v], e, map.gen[e.slot])
    BY <1>2
  <2>2. Will(calls'[v], e, map'.gen[e.slot])
    BY <2>1 DEF OthersStay
  <2> QED
    BY <2>2 DEF Safe
<1> QED
  BY <1>1, <1>2 DEF Safe

\* A step that touches neither the map nor the data.
LEMMA CallMoved ==
  ASSUME GhostInv, NEW w \in Workers, OthersStay(w), map' = map, data' = data, failed' \in BOOLEAN, failed => failed',
         ClearKept(calls'[w]),
         ~ failed' => \A e \in Entries(map.table) : /\ ~ Wiping(calls'[w], e.slot)
                                                    /\ Will(calls[w], e, map.gen[e.slot]) => Will(calls'[w], e, map.gen[e.slot])
  PROVE  GhostInv'
<1>1. ~ failed' => \A e \in Entries(map'.table) : Safe(e)'
  <2> SUFFICES ASSUME ~ failed', NEW e \in Entries(map.table) PROVE Safe(e)'
    OBVIOUS
  <2>1. Safe(e)
    BY DEF GhostInv
  <2> QED
    BY <2>1, SafeMoved
<1>2. Turned(map') /\ DataKept'
  BY DEF GhostInv, DataKept
<1> QED
  BY <1>1, <1>2, GhostsMoved

\* A call begins.
LEMMA BeginGhosts ==
  ASSUME IInv, GhostInv, NEW w \in Workers, Begin(w) \/ BeginDelete(w) \/ Sample(w)
  PROVE  GhostInv'
<1>1. At(w, "idle") /\ map' = map /\ data' = data /\ failed' = failed
  BY DEF Begin, BeginDelete, Sample
<1>2. OthersStay(w) /\ calls'[w].pc \in {"map", "both", "start"}
  <2>1. CASE Begin(w)
    BY <2>1 DEF IInv, Begin, Begun, OthersStay
  <2>2. CASE BeginDelete(w)
    BY <2>2 DEF IInv, BeginDelete, Begun, OthersStay
  <2>3. CASE Sample(w)
    BY <2>3 DEF IInv, Sample, Begun, OthersStay
  <2> QED
    BY <2>1, <2>2, <2>3
<1>3. \A e, g : ~ Will(calls[w], e, g)
  BY <1>1 DEF At, Will
<1>4. ClearKept(calls'[w]) /\ \A x : ~ Wiping(calls'[w], x)
  BY <1>2 DEF ClearKept, Wiping
<1>5. failed' \in BOOLEAN
  BY <1>1 DEF GhostInv
<1> QED
  BY <1>1, <1>2, <1>3, <1>4, <1>5, CallMoved

\* A call takes a semaphore, or finds its slot in its hands.
LEMMA EnterGhosts ==
  ASSUME IInv, GhostInv, NEW w \in Workers, EnterMap(w) \/ EnterSlots(w) \/ Fresh(w)
  PROVE  GhostInv'
<1>1. ~ At(w, "idle") /\ map' = map /\ data' = data /\ failed' = failed /\ failed' \in BOOLEAN
  BY DEF EnterMap, EnterSlots, Fresh, InSlots, At, GhostInv
<1>2. \A pc : calls' = [calls EXCEPT ![w].pc = pc] =>
        /\ OthersStay(w) /\ calls'[w].pc = pc /\ calls'[w].refs = calls[w].refs
        /\ calls'[w].op = calls[w].op /\ calls'[w].keys = calls[w].keys /\ calls'[w].again = calls[w].again
  BY <1>1, CallUnderWay DEF OthersStay, IInv
<1>3. CASE EnterMap(w)
  <2>1. /\ OthersStay(w) /\ At(w, "start") /\ calls'[w].pc = "map"
        /\ calls'[w].op = calls[w].op /\ calls'[w].keys = calls[w].keys
    BY <1>2, <1>3 DEF EnterMap
  <2>2. \A e, g : Will(calls[w], e, g) => Will(calls'[w], e, g)
    BY <2>1 DEF At, Will
  <2>3. ClearKept(calls'[w]) /\ \A x : ~ Wiping(calls'[w], x)
    BY <2>1 DEF ClearKept, Wiping
  <2> QED
    BY <1>1, <2>1, <2>2, <2>3, CallMoved
<1>4. CASE EnterSlots(w)
  <2>1. OthersStay(w) /\ calls[w].op = "reap" /\ calls'[w].pc = "both"
    BY <1>2, <1>4 DEF EnterSlots
  <2>2. \A e, g : ~ Will(calls[w], e, g)
    BY <2>1 DEF Will
  <2>3. ClearKept(calls'[w]) /\ \A x : ~ Wiping(calls'[w], x)
    BY <2>1 DEF ClearKept, Wiping
  <2> QED
    BY <1>1, <2>1, <2>2, <2>3, CallMoved
<1>5. CASE Fresh(w)
  <2>1. /\ OthersStay(w) /\ calls[w].pc \in {"gap", "slot"} /\ calls'[w].pc = "write" /\ calls'[w].refs = calls[w].refs
        /\ calls'[w].op = calls[w].op /\ calls'[w].keys = calls[w].keys /\ calls'[w].again = calls[w].again
        /\ Current(Head(calls[w].refs))
    BY <1>2, <1>5 DEF Fresh, InSlots, At
  <2>2. \A e, g : Will(calls[w], e, g) => Will(calls'[w], e, g)
    BY <2>1 DEF Will
  <2>3. ClearKept(calls'[w])
    BY <2>1 DEF ClearKept, GhostInv
  <2>4. ASSUME NEW e \in Entries(map.table), Wiping(calls'[w], e.slot) PROVE FALSE
    <3> DEFINE r == Head(calls[w].refs)
    <3>1. calls[w].refs \in Seq(FreedRef) /\ calls[w].refs # <<>> /\ r.slot = e.slot
      BY <2>1, <2>4 DEF Wiping, GhostInv, ClearKept
    <3>2. r \in FreedRef
      BY <3>1
    <3>3. map.gen[e.slot] = r.gen
      BY <2>1, <3>1 DEF Current
    <3>4. map.gen[e.slot] % 2 = 1
      BY DEF GhostInv, Turned
    <3> HIDE DEF r
    <3> QED
      BY <3>2, <3>3, <3>4 DEF FreedRef
  <2> QED
    BY <1>1, <2>1, <2>2, <2>3, <2>4, CallMoved
<1> QED
  BY <1>3, <1>4, <1>5

\* What is left of a list.
LEMMA TailKeeps ==
  ASSUME NEW S, NEW s \in Seq(S), s # <<>>, NEW i \in DOMAIN s, s[i] # Head(s)
  PROVE  Len(s) > 1 /\ \E j \in DOMAIN Tail(s) : Tail(s)[j] = s[i]
<1>1. DOMAIN s = 1 .. Len(s) /\ Len(s) \in Nat /\ Head(s) = s[1] /\ i # 1
  OBVIOUS
<1>2. Len(s) > 1 /\ i - 1 \in 1 .. Len(s) - 1 /\ (i - 1) + 1 = i
  BY <1>1
<1> DEFINE t == Tail(s)
<1>3. DOMAIN t = 1 .. Len(s) - 1 /\ \A j \in 1 .. Len(s) - 1 : t[j] = s[j + 1]
  <2>1. Tail(s) \in Seq(S) /\ Len(Tail(s)) = Len(s) - 1 /\ \A j \in 1 .. Len(Tail(s)) : Tail(s)[j] = s[j + 1]
    BY HeadTailProperties
  <2> QED
    BY <2>1
<1> HIDE DEF t
<1>4. t[i - 1] = s[i]
  BY <1>2, <1>3
<1> QED
  BY <1>2, <1>3, <1>4 DEF t

\* A call that is done with a slot, which is not the one a key is waiting for, or has put
\* that key aside, will still write it.
LEMMA ProceedWill ==
  ASSUME IInv, NEW w \in Workers, NEW again \in Seq(Keys), Proceed(w, again), calls[w].pc \in {"gap", "slot", "write"},
         NEW e, NEW g, Will(calls[w], e, g), ~ failed',
         ToSet(calls[w].again) \subseteq ToSet(again),
         Head(calls[w].refs) = [key |-> e.key, slot |-> e.slot, gen |-> g] => e.key \in ToSet(again)
  PROVE  Will(calls'[w], e, g)
<1> DEFINE c == calls[w]
           r == [key |-> e.key, slot |-> e.slot, gen |-> g]
<1>1. /\ c.op \in {"set", "increment"} /\ e.key \in ToSet(c.keys)
      /\ e.key \in ToSet(again) \/ (Head(c.refs) # r /\ \E i \in DOMAIN c.refs : c.refs[i] = r)
  BY DEF Will
<1>2. DOMAIN c = {"pc", "op", "keys", "at", "exp", "refs", "slots", "again", "tries"} /\ c.refs \in Seq(RefType) /\ c.refs # <<>>
  <2>1. ~ At(w, "idle")
    BY DEF At
  <2> QED
    BY <1>1, <2>1, CallUnderWay
<1>3. e.key \in ToSet(again) \/ (Len(c.refs) > 1 /\ \E j \in DOMAIN Tail(c.refs) : Tail(c.refs)[j] = r)
  <2> DEFINE s == c.refs
  <2>1. s \in Seq(RefType) /\ s # <<>>
    BY <1>2
  <2>2. ASSUME NEW i \in DOMAIN s, s[i] # Head(s) PROVE Len(s) > 1 /\ \E j \in DOMAIN Tail(s) : Tail(s)[j] = s[i]
    <3> HIDE DEF s
    <3> QED
      BY ONLY <2>1, <2>2, TailKeeps
  <2> HIDE DEF s
  <2>3. e.key \in ToSet(again) \/ (Head(s) # r /\ \E i \in DOMAIN s : s[i] = r)
    BY <1>1 DEF s
  <2> HIDE DEF r, c
  <2>4. e.key \in ToSet(again) \/ (Len(s) > 1 /\ \E j \in DOMAIN Tail(s) : Tail(s)[j] = r)
    BY ONLY <2>2, <2>3
  <2> QED
    BY <2>4 DEF s
<1>4. CASE Len(c.refs) > 1
  <2>1. calls'[w] = [c EXCEPT !.pc = "slot", !.refs = Tail(c.refs), !.again = again]
    BY <1>4 DEF Proceed, IInv
  <2> HIDE DEF c, r
  <2>2. /\ calls'[w].pc = "slot" /\ calls'[w].refs = Tail(c.refs) /\ calls'[w].again = again
        /\ calls'[w].op = c.op /\ calls'[w].keys = c.keys
    BY <1>2, <2>1
  <2> QED
    BY <1>1, <1>3, <2>2 DEF Will, r
<1>5. CASE ~ (Len(c.refs) > 1)
  <2>1. e.key \in ToSet(again) /\ again # <<>>
    <3>1. e.key \in ToSet(again)
      BY ONLY <1>3, <1>5
    <3>2. ToSet(<<>>) = {}
      BY DEF ToSet
    <3> QED
      BY ONLY <3>1, <3>2
  <2>2. calls'[w] = [c EXCEPT !.pc = "start", !.refs = <<>>, !.keys = again, !.again = <<>>, !.tries = c.tries - 1]
    <3>1. calls' = [calls EXCEPT ![w] =
                      [c EXCEPT !.pc = "start", !.refs = <<>>, !.keys = again, !.again = <<>>, !.tries = c.tries - 1]]
      BY <1>5, <2>1, Zenon DEF Proceed
    <3>2. calls = [v \in Workers |-> calls[v]]
      BY DEF IInv
    <3> QED
      BY ONLY <3>1, <3>2
  <2> HIDE DEF c, r
  <2>3. calls'[w].pc = "start" /\ calls'[w].op = c.op /\ calls'[w].keys = again
    BY <1>2, <2>2
  <2> QED
    BY <1>1, <2>1, <2>3 DEF Will
<1> QED
  BY <1>4, <1>5

\* It is not about to write, and keeps what it was to wipe.
LEMMA ProceedMoves ==
  ASSUME IInv, GhostInv, NEW w \in Workers, NEW again, Proceed(w, again), calls[w].pc \in {"gap", "slot", "write"}
  PROVE  /\ OthersStay(w) /\ ClearKept(calls'[w]) /\ \A x : ~ Wiping(calls'[w], x)
         /\ failed' \in BOOLEAN /\ (failed => failed')
<1>1. OthersStay(w) /\ failed' \in BOOLEAN /\ (failed => failed')
  <2>1. OthersStay(w)
    BY DEF Proceed, IInv, OthersStay
  <2> DEFINE p == again # <<>> /\ ~ (again # <<>> /\ calls[w].tries > 1)
  <2>2. failed' = failed \/ failed' = (failed \/ p)
    BY DEF Proceed
  <2>3. failed \in BOOLEAN /\ p \in BOOLEAN
    BY DEF GhostInv
  <2> HIDE DEF p
  <2>4. CASE failed' = failed
    BY <2>1, <2>3, <2>4
  <2>5. CASE failed' = (failed \/ p)
    BY <2>1, <2>3, <2>5, Zenon
  <2> QED
    BY <2>1, <2>2, <2>4, <2>5
<1> DEFINE c == calls[w]
<1>2. DOMAIN c = {"pc", "op", "keys", "at", "exp", "refs", "slots", "again", "tries"}
  <2>1. ~ At(w, "idle")
    BY DEF At
  <2> QED
    BY <2>1, CallUnderWay
<1>3. ClearKept(c) /\ c.pc \in {"gap", "slot", "write"}
  BY DEF GhostInv
<1>4. CASE Len(c.refs) > 1
  <2>1. calls'[w] = [c EXCEPT !.pc = "slot", !.refs = Tail(c.refs), !.again = again]
    BY <1>4 DEF Proceed, IInv
  <2> HIDE DEF c
  <2>2. calls'[w].pc = "slot" /\ calls'[w].refs = Tail(c.refs) /\ calls'[w].op = c.op
    BY <1>2, <2>1
  <2>3. c.op = "clear" => Tail(c.refs) \in Seq(FreedRef) /\ Tail(c.refs) # <<>>
    BY <1>3, <1>4, TailOfLonger DEF ClearKept
  <2> QED
    BY <1>1, <2>2, <2>3 DEF ClearKept, Wiping
<1>5. CASE ~ (Len(c.refs) > 1)
  <2> DEFINE d == [c EXCEPT !.pc = "start", !.refs = <<>>, !.keys = again, !.again = <<>>, !.tries = c.tries - 1]
  <2>1. calls'[w] = d \/ calls'[w] = Idle
    BY <1>5 DEF Proceed, IInv
  <2>2. d.pc = "start" /\ Idle.pc = "idle"
    BY <1>2 DEF Idle
  <2> HIDE DEF d
  <2>3. calls'[w].pc \in {"start", "idle"}
    BY <2>1, <2>2
  <2> QED
    BY <1>1, <2>3 DEF ClearKept, Wiping
<1> QED
  BY <1>4, <1>5

\* A call finds its slot in other hands, or reads it.
LEMMA StaleGhosts ==
  ASSUME IInv, GhostInv, NEW w \in Workers, Stale(w) \/ Get(w)
  PROVE  GhostInv'
<1>1. CASE Stale(w)
  <2> DEFINE c == calls[w]
             again == IF c.op \in {"set", "increment"} THEN Append(c.again, Head(c.refs).key) ELSE c.again
  <2>1. /\ Proceed(w, again) /\ c.pc \in {"gap", "slot"} /\ ~ At(w, "idle")
        /\ ~ Current(Head(c.refs)) /\ map' = map /\ data' = data
    BY <1>1 DEF Stale, InSlots, At
  <2>2. OthersStay(w) /\ ClearKept(c') /\ (\A x : ~ Wiping(c', x)) /\ failed' \in BOOLEAN /\ (failed => failed')
    <3> HIDE DEF again
    <3> QED
      BY <2>1, ProceedMoves
  <2>3. ASSUME ~ failed', NEW e \in Entries(map.table), Will(c, e, map.gen[e.slot])
        PROVE  Will(c', e, map.gen[e.slot])
    <3>1. c.op \in {"set", "increment"}
      BY <2>3 DEF Will
    <3>2. c.refs \in Seq(RefType) /\ c.refs # <<>> /\ c.again \in Seq(Keys)
      BY <2>1, <3>1, CallUnderWay
    <3>3. Head(c.refs).key \in Keys /\ again = Append(c.again, Head(c.refs).key)
      <4>1. Head(c.refs) \in RefType
        BY <3>2
      <4> QED
        BY <3>1, <4>1 DEF RefType
    <3>4. again \in Seq(Keys) /\ ToSet(c.again) \subseteq ToSet(again)
      <4> DEFINE k == Head(c.refs).key
                 a == Append(c.again, k)
      <4>1. a \in Seq(Keys) /\ Len(a) = Len(c.again) + 1 /\ \A i \in 1 .. Len(c.again) : a[i] = c.again[i]
        BY <3>2, <3>3, AppendProperties
      <4>2. DOMAIN c.again = 1 .. Len(c.again) /\ DOMAIN a = 1 .. Len(c.again) + 1 /\ Len(c.again) \in Nat
        BY <3>2, <4>1
      <4> HIDE DEF a
      <4>3. ToSet(c.again) \subseteq ToSet(a)
        BY <4>1, <4>2 DEF ToSet
      <4> QED
        BY <3>3, <4>1, <4>3 DEF a
    <3>5. ~ (Head(c.refs) = [key |-> e.key, slot |-> e.slot, gen |-> map.gen[e.slot]])
      BY <2>1 DEF Current
    <3> HIDE DEF again
    <3> QED
      BY <2>1, <2>3, <3>4, <3>5, ProceedWill
  <2> HIDE DEF again
  <2> QED
    BY <2>1, <2>2, <2>3, CallMoved
<1>2. CASE Get(w)
  <2>1. /\ Proceed(w, calls[w].again) /\ calls[w].pc = "write" /\ calls[w].op = "get" /\ map' = map /\ data' = data
    BY <1>2 DEF Get, Access, Done, At
  <2>2. /\ OthersStay(w) /\ ClearKept(calls'[w]) /\ \A x : ~ Wiping(calls'[w], x)
        /\ failed' \in BOOLEAN /\ (failed => failed')
    BY <2>1, ProceedMoves
  <2>3. \A e, g : ~ Will(calls[w], e, g)
    BY <2>1 DEF Will
  <2> QED
    BY <2>1, <2>2, <2>3, CallMoved
<1> QED
  BY <1>1, <1>2

\* One call at a time is at a slot's data.
LEMMA OneWrites ==
  ASSUME IInv, NEW w \in Workers, calls[w].pc = "write", NEW v \in Workers, v # w
  PROVE  calls[v].pc # "write"
<1>1. slotSem = w /\ (slotSem = v <=> calls[v].pc \in {"slot", "write", "both"})
  BY DEF IInv, SemaphoresHeld
<1> QED
  BY <1>1

\* A write puts data into a slot.
LEMMA WriteGhosts ==
  ASSUME IInv, GhostInv, NEW w \in Workers, Set(w) \/ Increment(w)
  PROVE  GhostInv'
<1> DEFINE c == calls[w]
           r == Head(c.refs)
           s == r.slot
<1>1. /\ Proceed(w, c.again) /\ c.pc = "write" /\ c.op \in {"set", "increment"} /\ map' = map /\ ~ At(w, "idle")
      /\ \E d : data' = [data EXCEPT ![s] = d] /\ d.occupied = TRUE /\ "occupied" \in DOMAIN d
  <2>1. CASE Set(w)
    <3> DEFINE d == [occupied |-> TRUE, value |-> Text, exp |-> c.exp]
    <3>1. data' = [data EXCEPT ![s] = d] /\ d.occupied = TRUE /\ "occupied" \in DOMAIN d
      BY <2>1 DEF Set
    <3> QED
      BY <2>1, <3>1, Zenon DEF Set, Access, Done, At
  <2>2. CASE Increment(w)
    <3> DEFINE a == [occupied |-> TRUE, value |-> Number(data[s].value) + 1,
                     exp |-> IF data[s].exp = Forever THEN c.exp ELSE data[s].exp]
               b == [occupied |-> TRUE, value |-> 1, exp |-> c.exp]
               d == IF Alive(s, c.at) THEN a ELSE b
    <3>1. data' = [data EXCEPT ![s] = d]
      BY <2>2 DEF Increment
    <3>2. a.occupied = TRUE /\ "occupied" \in DOMAIN a /\ b.occupied = TRUE /\ "occupied" \in DOMAIN b
      OBVIOUS
    <3>3. d.occupied = TRUE /\ "occupied" \in DOMAIN d
      <4> HIDE DEF a, b
      <4> QED
        BY <3>2
    <3> HIDE DEF d
    <3> QED
      BY <2>2, <3>1, <3>3 DEF Increment, Access, Done, At
  <2> QED
    BY <2>1, <2>2
<1>2. /\ OthersStay(w) /\ ClearKept(calls'[w]) /\ (\A x : ~ Wiping(calls'[w], x))
      /\ failed' \in BOOLEAN /\ (failed => failed')
  BY <1>1, ProceedMoves
<1>3. PICK d : data' = [data EXCEPT ![s] = d] /\ d.occupied = TRUE /\ "occupied" \in DOMAIN d
  BY <1>1
<1>4. DataKept' /\ (s \in Slots => data'[s].occupied) /\ \A x \in Slots : x # s => data'[x] = data[x]
  <2> HIDE DEF s
  <2> QED
    BY <1>3 DEF GhostInv, DataKept
<1>5. Turned(map')
  BY <1>1 DEF GhostInv
<1>6. ~ failed' => \A e \in Entries(map'.table) : Safe(e)'
  <2> SUFFICES ASSUME ~ failed', NEW e \in Entries(map.table) PROVE Safe(e)'
    BY <1>1
  <2>1. e.slot \in Slots
    BY DEF IInv, Kept
  <2>2. CASE e.slot = s
    <3>1. data'[e.slot].occupied
      BY <1>4, <2>1, <2>2
    <3>2. \A v \in Workers : ~ Wiping(calls'[v], e.slot)
      <4> TAKE v \in Workers
      <4>1. CASE v = w
        BY <1>2, <4>1
      <4>2. CASE v # w
        <5>1. calls'[v] = calls[v] /\ calls[v].pc # "write"
          BY <1>1, <1>2, <4>2, OneWrites DEF OthersStay
        <5> QED
          BY <5>1 DEF Wiping
      <4> QED
        BY <4>1, <4>2
    <3> QED
      BY <3>1, <3>2 DEF Safe
  <2>3. CASE e.slot # s
    <3>1. Safe(e)
      BY <1>2 DEF GhostInv
    <3>2. data'[e.slot] = data[e.slot]
      BY <1>4, <2>1, <2>3
    <3>3. Will(c, e, map.gen[e.slot]) => Will(calls'[w], e, map.gen[e.slot])
      <4>1. r # [key |-> e.key, slot |-> e.slot, gen |-> map.gen[e.slot]]
        BY <2>3
      <4>2. c.again \in Seq(Keys)
        BY <1>1, CallUnderWay
      <4> HIDE DEF s
      <4> QED
        BY <1>1, <1>2, <4>1, <4>2, ProceedWill
    <3> HIDE DEF s
    <3> QED
      BY <1>1, <1>2, <3>1, <3>2, <3>3, SafeMoved
  <2> QED
    BY <2>2, <2>3
<1> QED
  BY <1>2, <1>4, <1>5, <1>6, GhostsMoved

\* An expiry leaves the data of a slot, and a clear wipes a slot that no key has.
LEMMA WipeGhosts ==
  ASSUME IInv, GhostInv, NEW w \in Workers, Expire(w) \/ Wipe(w)
  PROVE  GhostInv'
<1> DEFINE c == calls[w]
           s == Head(c.refs).slot
<1>1. /\ Proceed(w, c.again) /\ c.pc = "write" /\ c.op \in {"expire", "clear"} /\ map' = map
      /\ \E d : /\ data' = [data EXCEPT ![s] = d]
                /\ s \in Slots => "occupied" \in DOMAIN d
                /\ s \in Slots => Wiping(c, s) \/ d.occupied = data[s].occupied
  <2>1. CASE Expire(w)
    <3> DEFINE x == IF Alive(s, c.at) THEN c.exp ELSE data[s].exp
               d == [data[s] EXCEPT !.exp = x]
    <3>1. data' = [data EXCEPT ![s] = d]
      BY <2>1 DEF Expire
    <3> HIDE DEF x, s
    <3>2. s \in Slots => "occupied" \in DOMAIN d /\ d.occupied = data[s].occupied
      BY DEF GhostInv, DataKept
    <3> HIDE DEF d
    <3> QED
      BY <2>1, <3>1, <3>2, Zenon DEF Expire, Access, Done, At
  <2>2. CASE Wipe(w)
    <3>1. data' = [data EXCEPT ![s] = NoData] /\ "occupied" \in DOMAIN NoData
      BY <2>2 DEF Wipe, NoData
    <3>2. Wiping(c, s)
      BY <2>2 DEF Wipe, Access, At, Wiping
    <3> QED
      BY <2>2, <3>1, <3>2 DEF Wipe, Access, Done, At
  <2> QED
    BY <2>1, <2>2, Zenon
<1>2. /\ OthersStay(w) /\ ClearKept(calls'[w]) /\ (\A x : ~ Wiping(calls'[w], x))
      /\ failed' \in BOOLEAN /\ (failed => failed')
  BY <1>1, ProceedMoves
<1>3. PICK d : /\ data' = [data EXCEPT ![s] = d]
               /\ s \in Slots => "occupied" \in DOMAIN d
               /\ s \in Slots => Wiping(c, s) \/ d.occupied = data[s].occupied
  BY <1>1
<1>4. /\ DataKept'
      /\ \A x \in Slots : data[x].occupied => data'[x].occupied \/ Wiping(c, x)
  <2> HIDE DEF s, c
  <2> QED
    BY <1>3 DEF GhostInv, DataKept
<1>5. Turned(map')
  BY <1>1 DEF GhostInv
<1>6. ~ failed' => \A e \in Entries(map'.table) : Safe(e)'
  <2> SUFFICES ASSUME ~ failed', NEW e \in Entries(map.table) PROVE Safe(e)'
    BY <1>1
  <2>1. e.slot \in Slots /\ Safe(e)
    BY <1>2 DEF IInv, Kept, GhostInv
  <2>2. ~ Will(c, e, map.gen[e.slot])
    BY <1>1 DEF Will
  <2> QED
    BY <1>1, <1>2, <1>4, <2>1, <2>2, SafeMoved
<1> QED
  BY <1>2, <1>4, <1>5, <1>6, GhostsMoved

\* A value that is too large: the call fails.
LEMMA TooLargeGhosts ==
  ASSUME IInv, GhostInv, NEW w \in Workers, SetTooLarge(w)
  PROVE  GhostInv'
<1>1. /\ map' = map /\ data' = data /\ failed' = TRUE /\ OthersStay(w) /\ calls'[w] = Idle
  BY DEF SetTooLarge, IInv, OthersStay
<1>2. ClearKept(calls'[w])
  BY <1>1 DEF ClearKept, Idle
<1>3. Turned(map') /\ DataKept'
  BY <1>1 DEF GhostInv, DataKept
<1> QED
  BY <1>1, <1>2, <1>3, GhostsMoved

\* A call gives the map's semaphore back.
LEMMA LeaveMapMoves ==
  ASSUME IInv, NEW w \in Workers, At(w, "map"), NEW refs, LeaveMap(w, refs)
  PROVE  /\ OthersStay(w) /\ data' = data
         /\ refs = <<>> => calls'[w] = Idle
         /\ refs # <<>> => /\ calls'[w].pc = "gap" /\ calls'[w].refs = refs
                           /\ calls'[w].op = calls[w].op /\ calls'[w].keys = calls[w].keys
         /\ \A x : ~ Wiping(calls'[w], x)
<1>1. DOMAIN calls[w] = {"pc", "op", "keys", "at", "exp", "refs", "slots", "again", "tries"}
  <2>1. ~ At(w, "idle")
    BY DEF At
  <2> QED
    BY <2>1, CallUnderWay
<1>2. /\ OthersStay(w) /\ data' = data
      /\ calls'[w] = IF refs = <<>> THEN Idle ELSE [calls[w] EXCEPT !.pc = "gap", !.refs = refs, !.slots = refs]
  BY DEF LeaveMap, IInv, OthersStay
<1>3. /\ refs = <<>> => calls'[w] = Idle
      /\ refs # <<>> => /\ calls'[w].pc = "gap" /\ calls'[w].refs = refs
                        /\ calls'[w].op = calls[w].op /\ calls'[w].keys = calls[w].keys
  BY <1>1, <1>2
<1>4. Idle.pc = "idle"
  BY DEF Idle
<1> QED
  BY <1>2, <1>3, <1>4 DEF Wiping

\* Reads and expiries look their slots up.
LEMMA FindGhosts ==
  ASSUME IInv, GhostInv, NEW w \in Workers, Find(w)
  PROVE  GhostInv'
<1>1. /\ At(w, "map") /\ calls[w].op \in {"get", "expire"} /\ map' = map /\ failed' = failed /\ failed \in BOOLEAN
      /\ \E refs : LeaveMap(w, refs)
  BY DEF Find, GhostInv
<1>2. PICK refs : LeaveMap(w, refs)
  BY <1>1
<1>3. /\ OthersStay(w) /\ data' = data /\ \A x : ~ Wiping(calls'[w], x)
      /\ calls'[w] = Idle \/ calls'[w].op \in {"get", "expire"}
  BY <1>1, <1>2, LeaveMapMoves
<1>4. ClearKept(calls'[w])
  BY <1>3 DEF ClearKept, Idle
<1>5. \A e, g : ~ Will(calls[w], e, g)
  BY <1>1 DEF Will
<1> QED
  BY <1>1, <1>3, <1>4, <1>5, CallMoved

\* Keys get slots, which their call has yet to fill.
LEMMA AssignGhosts ==
  ASSUME IInv, GhostInv, NEW w \in Workers, Assign(w)
  PROVE  GhostInv'
<1> DEFINE ks == calls[w].keys
           m  == Assigned(map, ks)
           full == \E k \in ToSet(ks) : ~Has(m.table, k)
           refs == IF full THEN <<>> ELSE Slotted(m, calls[w])
<1>1. /\ At(w, "map") /\ calls[w].op \in {"set", "increment"} /\ map' = m /\ LeaveMap(w, refs)
      /\ failed' = (failed \/ full) /\ failed \in BOOLEAN
  BY DEF Assign, GhostInv
<1>2. ks \in Seq(Keys) /\ SlotsKnown(calls[w])
  <2>1. ~ At(w, "idle")
    BY <1>1 DEF At
  <2> QED
    BY <1>1, <2>1, CallUnderWay
<1>3. Assigning(map, ks, m)
  BY <1>2, AssignedKept DEF IInv
<1>4. Turned(map') /\ Kept(m)
  BY <1>1, <1>3 DEF GhostInv, Assigning
<1>5. failed' \in BOOLEAN /\ (~ failed' => ~ failed /\ ~ full)
  <2>1. full \in BOOLEAN
    OBVIOUS
  <2> HIDE DEF full
  <2> QED
    BY <1>1, <2>1, Zenon
<1> HIDE DEF m
<1>6. /\ OthersStay(w) /\ data' = data /\ \A x : ~ Wiping(calls'[w], x)
      /\ refs = <<>> => calls'[w] = Idle
      /\ refs # <<>> => /\ calls'[w].pc = "gap" /\ calls'[w].refs = refs
                        /\ calls'[w].op = calls[w].op /\ calls'[w].keys = ks
  <2> HIDE DEF refs
  <2> QED
    BY <1>1, LeaveMapMoves
<1>7. ClearKept(calls'[w]) /\ DataKept'
  <2> HIDE DEF refs
  <2> QED
    BY <1>1, <1>6 DEF ClearKept, Idle, GhostInv, DataKept
<1>8. ASSUME ~ failed', NEW e \in Entries(m.table) PROVE Safe(e)'
  <2>1. CASE e.key \in ToSet(ks)
    <3>2. refs = Slotted(m, calls[w]) /\ \A k \in ToSet(ks) : Has(m.table, k)
      BY <1>5, <1>8
    <3>3. PICK b \in Keyed(m.table) : e = m.table[b]
      BY DEF Entries
    <3>4. Lookup(m.table, e.key) = b
      <4>1. Sound(m.table) /\ b \in Buckets /\ e.key \in Keys /\ m.table[b].key = e.key
        BY <1>4, <3>3 DEF Kept, Keyed
      <4> QED
        BY <4>1, KeyIsFound
    <3>5. Ref(m, e.key) = [key |-> e.key, slot |-> e.slot, gen |-> m.gen[e.slot]]
      BY <3>3, <3>4 DEF Ref, SlotOf
    <3>6. PICK i \in DOMAIN refs : refs[i] = [key |-> e.key, slot |-> e.slot, gen |-> m.gen[e.slot]]
      <4> HIDE DEF refs, full
      <4> QED
        BY <1>2, <1>4, <2>1, <3>2, <3>5, SlottedKeys
    <3>7. refs # <<>>
      <4> HIDE DEF refs
      <4> QED
        BY <3>6
    <3> HIDE DEF refs, ks
    <3>8. Will(calls'[w], e, m.gen[e.slot])
      BY <1>1, <1>6, <2>1, <3>6, <3>7 DEF Will
    <3> QED
      BY <1>1, <3>8 DEF Safe
  <2>2. CASE e.key \notin ToSet(ks)
    <3>1. e \in Entries(map.table) /\ m.gen[e.slot] = map.gen[e.slot]
      BY <1>3, <2>2 DEF Assigning
    <3>2. Safe(e)
      BY <1>5, <1>8, <3>1 DEF GhostInv
    <3>3. ~ Will(calls[w], e, map.gen[e.slot])
      BY <2>2 DEF Will
    <3> HIDE DEF refs, ks
    <3> QED
      BY <1>1, <1>6, <3>1, <3>2, <3>3, SafeMoved
  <2> QED
    BY <2>1, <2>2
<1> HIDE DEF refs, ks, full
<1> QED
  BY <1>1, <1>4, <1>5, <1>6, <1>7, <1>8, GhostsMoved

\* A clear frees slots, and remembers them as free.
LEMMA ClearGhosts ==
  ASSUME IInv, GhostInv, NEW w \in Workers, ClearMap(w)
  PROVE  GhostInv'
<1> DEFINE mine  == OwnKeys(map.table)
           m     == Cleared(map)
           freed == [i \in DOMAIN mine |-> SlotOf(map.table, mine[i])]
           refs  == [i \in DOMAIN mine |-> [key |-> mine[i], slot |-> freed[i], gen |-> m.gen[freed[i]]]]
<1>1. /\ At(w, "map") /\ calls[w].op = "clear" /\ map' = m /\ LeaveMap(w, refs)
      /\ failed' = failed /\ failed \in BOOLEAN
  BY DEF ClearMap, GhostInv
<1>2. Clearing(map, m, Capacity) /\ Kept(map)
  BY ClearedKept DEF IInv
<1>3. Turned(map') /\ Turned(m) /\ Kept(m)
  BY <1>1, <1>2 DEF GhostInv, Clearing
<1>4. ASSUME NEW k \in {map.table[b].key : b \in {c \in Buckets : map.table[c].key \in Owned}}
      PROVE  [key |-> k, slot |-> SlotOf(map.table, k), gen |-> m.gen[SlotOf(map.table, k)]] \in FreedRef
  <2>1. PICK b \in Buckets : map.table[b].key = k /\ k \in Owned
    BY <1>4
  <2>2. b \in Keyed(map.table) /\ k \in Keys /\ Sound(map.table)
    BY <1>2, <2>1 DEF Keyed, Kept
  <2>3. SlotOf(map.table, k) = map.table[b].slot
    BY <2>1, <2>2, KeyIsFound DEF SlotOf
  <2> DEFINE s == map.table[b].slot
  <2>4. s \in Slots /\ s \in ToSet(m.free)
    <3>1. map.table[b] \in Entries(map.table) /\ b < Capacity
      BY <2>2 DEF Entries, Keyed, Buckets
    <3> QED
      BY <1>2, <2>1, <2>2, <3>1 DEF Kept, Clearing
  <2>5. m.gen[s] \in 0 .. Generations - 1 /\ m.gen[s] % 2 = 0
    BY <1>3, <2>4 DEF Kept, Maps, Turned
  <2> HIDE DEF s, m
  <2> QED
    BY <2>2, <2>3, <2>4, <2>5 DEF FreedRef, RefType, s
<1>5. refs \in Seq(FreedRef)
  <2> DEFINE K == {map.table[b].key : b \in {c \in Buckets : map.table[c].key \in Owned}}
  <2>1. mine \in Seq(K)
    BY OwnKeysListed
  <2> HIDE DEF mine, m, K
  <2>2. DOMAIN mine = 1 .. Len(mine) /\ Len(mine) \in Nat /\ \A i \in 1 .. Len(mine) : mine[i] \in K
    BY <2>1
  <2>3. \A i \in 1 .. Len(mine) : refs[i] \in FreedRef
    BY <1>4, <2>2 DEF K
  <2>4. refs \in [1 .. Len(mine) -> FreedRef]
    BY <2>2, <2>3
  <2> HIDE DEF refs
  <2> QED
    BY <2>2, <2>4
<1> HIDE DEF m, refs
<1>6. /\ OthersStay(w) /\ data' = data /\ \A x : ~ Wiping(calls'[w], x)
      /\ refs = <<>> => calls'[w] = Idle
      /\ refs # <<>> => calls'[w].pc = "gap" /\ calls'[w].refs = refs
  BY <1>1, LeaveMapMoves
<1>7. ClearKept(calls'[w]) /\ DataKept'
  BY <1>5, <1>6 DEF ClearKept, Idle, GhostInv, DataKept
<1>8. ASSUME ~ failed', NEW e \in Entries(m.table) PROVE Safe(e)'
  <2>1. e \in Entries(map.table) /\ m.gen[e.slot] = map.gen[e.slot]
    BY <1>2 DEF Clearing
  <2>2. Safe(e)
    BY <1>1, <1>8, <2>1 DEF GhostInv
  <2>3. ~ Will(calls[w], e, map.gen[e.slot])
    BY <1>1 DEF Will
  <2> QED
    BY <1>1, <1>6, <2>1, <2>2, <2>3, SafeMoved
<1> QED
  BY <1>1, <1>3, <1>6, <1>7, <1>8, GhostsMoved

\* A delete or the cleaner takes a key out of the table with its data.
LEMMA UnlinkGhosts ==
  ASSUME IInv, GhostInv, NEW w \in Workers, NEW k \in Keys, NEW does \in BOOLEAN, Unlink(w, k, does), does => Has(map.table, k)
  PROVE  GhostInv'
<1>1. /\ calls[w].pc = "both" /\ calls'[w] = Idle /\ OthersStay(w) /\ failed' = failed /\ failed \in BOOLEAN
      /\ map' = IF does THEN Freed(map, k) ELSE map
      /\ data' = IF does THEN [data EXCEPT ![SlotOf(map.table, k)] = NoData] ELSE data
  BY DEF Unlink, At, IInv, OthersStay, GhostInv
<1>2. ClearKept(calls'[w]) /\ (\A x : ~ Wiping(calls'[w], x)) /\ \A e, g : ~ Will(calls[w], e, g)
  BY <1>1 DEF ClearKept, Wiping, Will, Idle
<1>3. CASE ~ does
  BY <1>1, <1>2, <1>3, CallMoved
<1>4. CASE does
  <2> DEFINE b == Lookup(map.table, k)
             s == map.table[b].slot
             n == Freed(map, k)
  <2>1. b \in Keyed(map.table) /\ map.table[b].key = k /\ Kept(map)
    BY <1>4, RefOfKey DEF IInv
  <2>2. map' = n /\ data' = [data EXCEPT ![s] = NoData]
    BY <1>1, <1>4 DEF SlotOf
  <2>3. n = Freed(map, map.table[b].key)
    BY <2>1
  <2> HIDE DEF n, b
  <2>4. /\ Turned(map) => Turned(n)
        /\ Entries(n.table) = Entries(map.table) \ {map.table[b]}
        /\ \A e \in Entries(n.table) : e.slot # s /\ n.gen[e.slot] = map.gen[e.slot]
    BY <2>1, <2>3, FreedTurns
  <2>5. Turned(map')
    BY <2>2, <2>4 DEF GhostInv
  <2> HIDE DEF s
  <2>6. DataKept' /\ \A x \in Slots : x # s => data'[x] = data[x]
    <3>1. "occupied" \in DOMAIN NoData
      BY DEF NoData
    <3> QED
      BY <2>2, <3>1 DEF GhostInv, DataKept
  <2>7. ASSUME ~ failed', NEW e \in Entries(n.table) PROVE Safe(e)'
    <3>1. e \in Entries(map.table) /\ e.slot # s /\ n.gen[e.slot] = map.gen[e.slot]
      BY <2>4
    <3>2. Safe(e) /\ e.slot \in Slots
      BY <1>1, <2>7, <3>1 DEF GhostInv, IInv, Kept
    <3>3. data'[e.slot] = data[e.slot]
      BY <2>6, <3>1, <3>2
    <3> QED
      BY <1>1, <1>2, <2>2, <3>1, <3>2, <3>3, SafeMoved
  <2> QED
    BY <1>1, <1>2, <2>2, <2>5, <2>6, <2>7, GhostsMoved
<1> QED
  BY <1>3, <1>4

\* Deletes and the cleaner.
LEMMA BothGhosts ==
  ASSUME IInv, GhostInv, NEW w \in Workers, Delete(w) \/ Reap(w)
  PROVE  GhostInv'
<1> DEFINE k == Head(calls[w].keys)
           x == Head(calls[w].refs).slot
           has == Has(map.table, k)
           fits == has /\ SlotOf(map.table, k) = x /\ data[x].occupied /\ ~Alive(x, calls[w].at)
<1>1. Unlink(w, k, has) \/ Unlink(w, k, fits)
  BY DEF Delete, Reap
<1>2. At(w, "both") /\ ~ At(w, "idle")
  BY DEF Delete, Reap, At
<1>3. calls[w].keys \in Seq(Keys) /\ calls[w].keys # <<>>
  BY <1>2, CallUnderWay DEF At
<1>4. k \in Keys
  BY <1>3
<1>5. has \in BOOLEAN /\ fits \in BOOLEAN /\ (fits => has)
  BY DEF Has
<1> HIDE DEF fits, k
<1> QED
  BY <1>1, <1>4, <1>5, UnlinkGhosts

\* The invariant about ghosts holds at first, and every step keeps it.
LEMMA GhostsInductive ==
  /\ Init => GhostInv
  /\ IInv /\ GhostInv /\ [Next]_vars => GhostInv'
<1>1. ASSUME Init PROVE GhostInv
  <2> DEFINE f == [i \in Slots |-> MaxKeys + 1 - i]
             g == [s \in Slots |-> 0]
  <2>1. /\ map.table = EmptyTable /\ map.free = f /\ map.gen = g
        /\ data = [s \in Slots |-> NoData] /\ failed = FALSE /\ \A w \in Workers : calls[w] = Idle
    BY <1>1 DEF Init
  <2>2. Entries(map.table) = {}
    BY <2>1 DEF Entries, Keyed, EmptyTable, EmptyBucket, Bucket
  <2>3. ToSet(map.free) \subseteq Slots
    <3>1. \A i \in Slots : f[i] \in Slots
      BY DEF Slots
    <3> QED
      BY <2>1, <3>1 DEF ToSet
  <2>4. Turned(map)
    <3>1. \A s \in Slots : map.gen[s] = 0
      BY <2>1
    <3>2. 0 % 2 = 0
      OBVIOUS
    <3> QED
      BY <2>2, <2>3, <3>1, <3>2 DEF Turned
  <2>5. DataKept
    BY <2>1 DEF DataKept, NoData
  <2>6. \A w \in Workers : ClearKept(calls[w])
    BY <2>1 DEF ClearKept, Idle
  <2> QED
    BY <2>1, <2>2, <2>4, <2>5, <2>6 DEF GhostInv
<1>2. ASSUME IInv, GhostInv, [Next]_vars PROVE GhostInv'
  <2>1. CASE Tick \/ UNCHANGED vars
    <3>1. map' = map /\ data' = data /\ calls' = calls /\ failed' = failed
      BY <2>1 DEF Tick, vars
    <3> QED
      BY <1>2, <3>1 DEF GhostInv, DataKept, Safe
  <2>2. ASSUME NEW w \in Workers, Step(w) PROVE GhostInv'
    <3>1. CASE EnterMap(w) \/ EnterSlots(w) \/ Fresh(w)
      BY <1>2, <3>1, EnterGhosts
    <3>2. CASE Find(w)
      BY <1>2, <3>2, FindGhosts
    <3>3. CASE Assign(w)
      BY <1>2, <3>3, AssignGhosts
    <3>4. CASE ClearMap(w)
      BY <1>2, <3>4, ClearGhosts
    <3>5. CASE Stale(w) \/ Get(w)
      BY <1>2, <3>5, StaleGhosts
    <3>6. CASE Set(w) \/ Increment(w)
      BY <1>2, <3>6, WriteGhosts
    <3>7. CASE Expire(w) \/ Wipe(w)
      BY <1>2, <3>7, WipeGhosts
    <3>8. CASE SetTooLarge(w)
      BY <1>2, <3>8, TooLargeGhosts
    <3>9. CASE Delete(w) \/ Reap(w)
      BY <1>2, <3>9, BothGhosts
    <3> QED
      BY <2>2, <3>1, <3>2, <3>3, <3>4, <3>5, <3>6, <3>7, <3>8, <3>9 DEF Step
  <2>3. ASSUME NEW w \in Workers, Begin(w) \/ BeginDelete(w) \/ Sample(w) PROVE GhostInv'
    BY <1>2, <2>3, BeginGhosts
  <2> QED
    BY <1>2, <2>1, <2>2, <2>3 DEF Next
<1> QED
  BY <1>1, <1>2

\* No slot of the shard is lost, and none is given to two keys (_free_stack_pop,
\* _free_stack_push, _hash_table_delete, _rebuild_hash_table).
THEOREM SlotsCorrect == Spec => []SlotsPartitioned
<1>1. IInv => SlotsPartitioned
  <2> SUFFICES ASSUME IInv PROVE SlotsPartitioned
    OBVIOUS
  <2>1. Kept(map) /\ Mapped = Keyed(map.table)
    BY DEF IInv, Mapped, Keyed
  <2>2. \A b, c \in Mapped : map.table[b].slot = map.table[c].slot => b = c
    <3>1. \A b \in Mapped : map.table[b] \in Entries(map.table)
      BY <2>1 DEF Entries
    <3>2. Sound(map.table)
      BY <2>1 DEF Kept
    <3> QED
      BY <2>1, <3>1, <3>2, KeyedOnce DEF Kept
  <2>3. ToSet(map.free) \cap {map.table[b].slot : b \in Mapped} = {}
    BY <2>1 DEF Kept, Entries
  <2>4. Len(map.free) + Cardinality(Mapped) = MaxKeys
    BY <2>1, KeptNumbers DEF Kept
  <2> QED
    BY <2>1, <2>2, <2>3, <2>4 DEF SlotsPartitioned, Kept
<1> QED
  BY <1>1, IInvInductive, PTL DEF Spec

\* Among tombstones and after rebuilds every key is still found, in one bucket, and
\* the search for an absent one ends (_hash_table_lookup).
THEOREM ProbesCorrect == Spec => []ProbesFind
<1>1. IInv => ProbesFind
  <2> SUFFICES ASSUME IInv PROVE ProbesFind
    OBVIOUS
  <2>1. Kept(map) /\ Sound(map.table) /\ HasRoom(map.table)
    BY KeptHasRoom DEF IInv, Kept
  <2>2. \A b \in Mapped : Lookup(map.table, map.table[b].key) = b
    BY <2>1, KeyIsFound DEF Mapped
  <2>3. PICK b \in Buckets : map.table[b].key = Empty
    BY <2>1 DEF HasRoom
  <2>4. map.table[b] = EmptyBucket
    <3>1. map.table[b] \in [key : Keys \cup {Empty, Tombstone}, slot : Slots \cup {0}] /\ map.table[b].slot = 0
      BY <2>1, <2>3 DEF Sound, Tables
    <3> QED
      BY <2>3, <3>1 DEF EmptyBucket, Bucket
  <2> QED
    BY <2>2, <2>4 DEF ProbesFind
<1> QED
  BY <1>1, IInvInductive, PTL DEF Spec

\* The two orders of the semaphores never bring all calls to a standstill (_delete and
\* _sample_and_reap_shard against all others).
THEOREM NeverStandsStill == Spec => []NoStandstill
<1>1. IInv => NoStandstill
  <2> SUFFICES ASSUME IInv, NEW w \in Workers, Busy(w)
               PROVE  \E v \in Workers : Busy(v) /\ ~Waits(v)
    BY DEF NoStandstill
  <2>1. ASSUME mapSem # Nobody PROVE mapSem \in Workers /\ Busy(mapSem) /\ ~ Waits(mapSem)
    BY <2>1 DEF IInv, SemaphoresHeld, At, Busy, Waits
  <2>2. ASSUME slotSem # Nobody, mapSem = Nobody PROVE slotSem \in Workers /\ Busy(slotSem) /\ ~ Waits(slotSem)
    BY <2>2 DEF IInv, SemaphoresHeld, At, Busy, Waits
  <2>3. ASSUME mapSem = Nobody, slotSem = Nobody PROVE ~ Waits(w)
    BY <2>3 DEF Waits
  <2> QED
    BY <2>1, <2>2, <2>3
<1> QED
  BY <1>1, IInvInductive, PTL DEF Spec

\* No key is left without data but by a call that failed: a clear that comes late wipes
\* no slot that a key got in the meantime, and a write that finds its slot in other
\* hands gets another one (_clear, _set, _multi_set, _increment, _delete).
THEOREM GhostsCorrect == Spec => []GhostsComeFromFailures
<1>1. GhostInv => GhostsComeFromFailures
  <2> SUFFICES ASSUME GhostInv, ~ failed, NEW b \in Mapped
               PROVE  \/ data[map.table[b].slot].occupied
                      \/ \E w \in Workers : calls[w].pc # "idle" /\ map.table[b].key \in ToSet(calls[w].keys)
    BY DEF GhostsComeFromFailures
  <2>1. map.table[b] \in Entries(map.table)
    BY DEF Mapped, Entries, Keyed
  <2>2. Safe(map.table[b])
    BY <2>1 DEF GhostInv
  <2> QED
    BY <2>2 DEF Safe, Will
<1>2. Init => IInv /\ GhostInv
  BY IInvInductive, GhostsInductive
<1>3. IInv /\ GhostInv /\ [Next]_vars => (IInv /\ GhostInv)'
  BY IInvInductive, GhostsInductive
<1> QED
  BY <1>1, <1>2, <1>3, PTL DEF Spec

----------------------------------------------------------------------------
(* What readers find. *)

\* What a reader finds in a slot that is its key's.
Shown(d, at) == IF d.occupied /\ Lives(d.exp, at) THEN [value |-> d.value, exp |-> d.exp] ELSE Gone

\* What a reader finds for a key.
Seen(m, d, at, k) == IF Has(m.table, k) THEN Shown(d[SlotOf(m.table, k)], at) ELSE Gone

\* A key has one entry, and its slot is found.
LEMMA EntryFound ==
  ASSUME NEW m, Kept(m)
  PROVE  /\ \A e \in Entries(m.table) : e.key \in Keys /\ e.slot \in Slots /\ Has(m.table, e.key) /\ SlotOf(m.table, e.key) = e.slot
         /\ \A e, f \in Entries(m.table) : e.key = f.key => e = f
<1>1. Sound(m.table)
  BY DEF Kept
<1>2. ASSUME NEW e \in Entries(m.table)
      PROVE  e.key \in Keys /\ e.slot \in Slots /\ Has(m.table, e.key) /\ SlotOf(m.table, e.key) = e.slot
  <2>1. PICK b \in Keyed(m.table) : e = m.table[b]
    BY DEF Entries
  <2>2. e.key \in Keys /\ b \in Buckets /\ e.slot \in Slots
    BY <2>1 DEF Keyed, Kept
  <2> QED
    BY <1>1, <2>1, <2>2, KeyIsFound DEF SlotOf
<1>3. \A e, f \in Entries(m.table) : e.key = f.key => e = f
  <2>1. \A e, f \in Entries(m.table) : e.key = f.key => e.slot = f.slot
    BY <1>2
  <2> QED
    BY <2>1 DEF Kept
<1> QED
  BY <1>2, <1>3

\* A reader finds what the key's slot shows.
LEMMA SeenInSlot ==
  ASSUME NEW m, Kept(m), NEW d, NEW at
  PROVE  /\ \A e \in Entries(m.table) : Seen(m, d, at, e.key) = Shown(d[e.slot], at)
         /\ \A k \in Keys : (\A e \in Entries(m.table) : e.key # k) => Seen(m, d, at, k) = Gone
<1>1. Sound(m.table) /\ HasRoom(m.table)
  BY KeptHasRoom DEF Kept
<1>2. ASSUME NEW k \in Keys, Has(m.table, k) PROVE \E e \in Entries(m.table) : e.key = k
  <2>1. PICK b \in Buckets : m.table[b].key = k
    BY <1>1, <1>2, HasMeans
  <2> QED
    BY <2>1 DEF Entries, Keyed
<1> QED
  BY <1>2, EntryFound DEF Seen

\* A key with its slot is an entry.
LEMMA EntryIsBucket ==
  ASSUME NEW m, Kept(m), NEW e \in Entries(m.table)
  PROVE  e = Bucket(e.key, e.slot)
<1>1. PICK b \in Keyed(m.table) : e = m.table[b]
  BY DEF Entries
<1>2. e \in [key : Keys \cup {Empty, Tombstone}, slot : Slots \cup {0}]
  BY <1>1 DEF Keyed, Kept, Sound, Tables
<1> QED
  BY <1>2 DEF Bucket

\* Visible says the same.
LEMMA VisibleSeen ==
  ASSUME NEW k
  PROVE  Visible(k) = Seen(map, data, now, k) /\ Visible(k)' = Seen(map', data', now', k)
<1>1. Visible(k) = Seen(map, data, now, k)
  BY DEF Visible, Seen, Shown, Alive
<1>2. Visible(k)' = Seen(map', data', now', k)
  BY DEF Visible, Seen, Shown, Alive
<1> QED
  BY <1>1, <1>2

----------------------------------------------------------------------------
(* References to slots. *)

\* No step makes a generation smaller: none has come round.
GenerationsRise(m, n) == \A s \in Slots : m.gen[s] <= n.gen[s]

\* A call holds references to slots, which it found under the map's semaphore.
Holds(c) == c.pc \in {"gap", "slot", "write"}

\* A reference to a slot that was its key's, and is as long as it is current.
RefHolds(m, r) ==
  /\ r.gen <= m.gen[r.slot]
  /\ r.gen = m.gen[r.slot] => Bucket(r.key, r.slot) \in Entries(m.table)

\* A current reference to a slot that is free.
FreeRef(m, r) == r.slot \in ToSet(m.free) /\ r.gen = m.gen[r.slot]

\* The map n may come after m.
Follows(m, n) ==
  /\ Kept(m) /\ Turned(m) /\ Kept(n) /\ Turned(n)
  /\ Grown(m, n) \/ Grown(n, m)
  /\ GenerationsRise(m, n)

\* A reference to a slot of its key becomes outdated when the slot is freed, and is so for
\* good.
LEMMA RefStays ==
  ASSUME NEW m, NEW n, Follows(m, n), NEW r \in RefType, RefHolds(m, r)
  PROVE  /\ RefHolds(n, r)
         /\ r.gen = m.gen[r.slot] => r.gen = n.gen[r.slot] \/ (r.slot \in ToSet(n.free) /\ Grown(n, m))
<1> DEFINE s == r.slot
           e == Bucket(r.key, s)
<1>1. s \in Slots /\ r.gen \in Nat /\ m.gen[s] \in Nat /\ n.gen[s] \in Nat /\ e.slot = s
  BY DEF RefType, Follows, Kept, Maps, Bucket
<1>2. m.gen[s] <= n.gen[s] /\ r.gen <= m.gen[s] /\ (r.gen = m.gen[s] => e \in Entries(m.table))
  BY <1>1 DEF Follows, GenerationsRise, RefHolds
<1>3. e \in Entries(m.table) => s \notin ToSet(m.free) /\ m.gen[s] % 2 = 1
  BY <1>1 DEF Follows, Kept, Turned
<1>4. e \in Entries(n.table) => s \notin ToSet(n.free)
  BY <1>1 DEF Follows, Kept
<1>5. s \in ToSet(n.free) => n.gen[s] % 2 = 0
  BY DEF Follows, Turned
<1> HIDE DEF s, e
<1>6. CASE Grown(m, n)
  <2>1. (e \in Entries(m.table) => e \in Entries(n.table)) /\ (n.gen[s] = m.gen[s] \/ s \in ToSet(m.free))
    BY <1>1, <1>6 DEF Grown
  <2> QED
    BY <1>1, <1>2, <1>3, <2>1 DEF RefHolds, s, e
<1>7. CASE Grown(n, m)
  <2>1. (e \in Entries(m.table) => e \in Entries(n.table) \/ s \in ToSet(n.free)) /\ (n.gen[s] = m.gen[s] \/ s \in ToSet(n.free))
    BY <1>1, <1>7 DEF Grown
  <2>2. r.gen = n.gen[s] => e \in Entries(n.table)
    <3> SUFFICES ASSUME r.gen = n.gen[s] PROVE e \in Entries(n.table)
      OBVIOUS
    <3>1. r.gen = m.gen[s]
      BY <1>1, <1>2
    <3>2. e \in Entries(m.table) /\ m.gen[s] % 2 = 1 /\ n.gen[s] % 2 # 0
      BY <1>2, <1>3, <3>1
    <3> QED
      BY <1>5, <2>1, <3>2
  <2>3. r.gen <= n.gen[s]
    BY <1>1, <1>2
  <2> QED
    BY <1>2, <1>7, <2>1, <2>2, <2>3 DEF RefHolds, s, e
<1> QED
  BY <1>6, <1>7 DEF Follows

\* A slot that stays free keeps its generation.
LEMMA FreeRefStays ==
  ASSUME NEW m, NEW n, Follows(m, n), NEW r, FreeRef(m, r), r.slot \in Slots, r.slot \in ToSet(n.free)
  PROVE  FreeRef(n, r)
<1>1. n.gen[r.slot] = m.gen[r.slot]
  BY DEF Follows, Grown, FreeRef
<1> QED
  BY <1>1 DEF FreeRef

----------------------------------------------------------------------------
(* Whose slot is written. *)

\* A clear holds a reference to the slot, and is going to wipe it.
ToWipe(s) ==
  \E w \in Workers : /\ Holds(calls[w]) /\ calls[w].op = "clear"
                     /\ \E i \in DOMAIN calls[w].refs : calls[w].refs[i].slot = s

\* A writer, which may come back to any slot it has assigned.
Recalls(c) == c.pc # "idle" /\ c.op \in {"set", "increment"}

\* A clear's references are to free slots, and the others' to slots of their keys.
RefsKept(m, c) ==
  /\ Holds(c) => \A i \in DOMAIN c.refs :
                   IF c.op = "clear" THEN FreeRef(m, c.refs[i]) ELSE RefHolds(m, c.refs[i])
  /\ Recalls(c) => \A i \in DOMAIN c.slots : RefHolds(m, c.slots[i])

\* Who is about to write has a current reference, or writes where a clear will wipe.
WriteKept(c) ==
  c.pc = "write" /\ c.op # "clear" => Current(Head(c.refs)) \/ ToWipe(Head(c.refs).slot)

\* A free slot has no data that no clear will wipe.
Ordered ==
  /\ \A w \in Workers : RefsKept(map, calls[w]) /\ WriteKept(calls[w])
  /\ \A s \in ToSet(map.free) : data[s].occupied => ToWipe(s)

\* No expiry lies further ahead than the longest time to live.
Timely(exp, at) == exp = Forever \/ (exp \in Nat /\ exp <= at + TTL)

\* What a call holds and gives.
CallTyped(c, at) ==
  /\ c.pc # "idle" => c.at \in Nat /\ c.at <= at /\ Timely(c.exp, at)
  /\ Holds(c) => c.refs \in Seq(RefType) /\ c.refs # <<>>

\* What a slot holds.
StoredType == [occupied : BOOLEAN, value : Nat \cup {Text}, exp : Nat \cup {Forever}]

\* The types that the data and the references have.
TypedInv ==
  /\ now \in Nat /\ reused \in BOOLEAN
  /\ data \in [Slots -> StoredType] /\ \A s \in Slots : Timely(data[s].exp, now)
  /\ \A w \in Workers : CallTyped(calls[w], now)

\* The invariant for what calls write.
OwnInv == TypedInv /\ (~ reused => Ordered)

\* While a call is at the slots, nobody else writes.
LEMMA AloneInSlots ==
  ASSUME IInv, NEW w \in Workers, InSlots(w) \/ calls[w].pc \in {"write", "both"}, NEW v \in Workers, v # w
  PROVE  calls[v].pc # "write"
<1>1. slotSem = Nobody \/ slotSem = w
  BY DEF IInv, SemaphoresHeld, InSlots, At
<1> QED
  BY <1>1 DEF IInv, SemaphoresHeld

\* What is to be wiped still is, unless the one call that moves has wiped it.
LEMMA ToWipeStays ==
  ASSUME NEW w \in Workers, OthersStay(w), NEW s, ToWipe(s),
         Holds(calls[w]) /\ calls[w].op = "clear" =>
           \A i \in DOMAIN calls[w].refs : calls[w].refs[i].slot = s =>
             /\ Holds(calls'[w]) /\ calls'[w].op = "clear"
             /\ \E j \in DOMAIN calls'[w].refs : calls'[w].refs[j].slot = s
  PROVE  ToWipe(s)'
<1>1. PICK v \in Workers : /\ Holds(calls[v]) /\ calls[v].op = "clear"
                           /\ \E i \in DOMAIN calls[v].refs : calls[v].refs[i].slot = s
  BY DEF ToWipe
<1>2. CASE v = w
  BY <1>1, <1>2 DEF ToWipe
<1>3. CASE v # w
  <2>1. calls'[v] = calls[v]
    BY <1>3 DEF OthersStay
  <2> QED
    BY <1>1, <2>1, Zenon DEF ToWipe
<1> QED
  BY <1>2, <1>3

\* A step at the slots.
LEMMA OrderedAtSlots ==
  ASSUME IInv, Ordered, NEW w \in Workers, OthersStay(w), map' = map,
         InSlots(w) \/ calls[w].pc \in {"write", "both"},
         RefsKept(map, calls'[w]),
         calls'[w].pc = "write" /\ calls'[w].op # "clear" => Current(Head(calls'[w].refs)),
         \A s \in ToSet(map.free) : data'[s].occupied => ToWipe(s)'
  PROVE  Ordered'
<1>1. ASSUME NEW v \in Workers PROVE RefsKept(map', calls'[v]) /\ WriteKept(calls[v])'
  <2>1. CASE v = w
    BY <2>1 DEF WriteKept, Current
  <2>2. CASE v # w
    <3>1. calls'[v] = calls[v] /\ calls[v].pc # "write"
      BY <2>2, AloneInSlots, Zenon DEF OthersStay
    <3> QED
      BY <3>1 DEF Ordered, WriteKept
  <2> QED
    BY <2>1, <2>2
<1> QED
  BY <1>1 DEF Ordered, RefsKept, Recalls, FreeRef, RefHolds, Entries, Keyed

\* A step that is not at the slots, and may change the map.
LEMMA OrderedAtMap ==
  ASSUME IInv, TypedInv, Ordered, NEW w \in Workers, OthersStay(w), Follows(map, map'),
         ~ Holds(calls[w]), RefsKept(map', calls'[w]), calls'[w].pc # "write",
         \A s \in ToSet(map.free) : ToWipe(s) => s \in ToSet(map'.free),
         \A s \in ToSet(map.free) : data'[s].occupied => data[s].occupied,
         \A s \in ToSet(map'.free) : \/ s \in ToSet(map.free)
                                     \/ ToWipe(s)'
                                     \/ ~ data'[s].occupied /\ calls[w].pc = "both"
  PROVE  Ordered'
<1>1. \A s : ToWipe(s) => ToWipe(s)'
  BY ToWipeStays
<1>2. \A s : ToWipe(s) => s \in ToSet(map.free)
  <2> TAKE s
  <2> SUFFICES ASSUME ToWipe(s) PROVE s \in ToSet(map.free)
    OBVIOUS
  <2>1. PICK v \in Workers : /\ Holds(calls[v]) /\ calls[v].op = "clear"
                             /\ \E i \in DOMAIN calls[v].refs : calls[v].refs[i].slot = s
    BY DEF ToWipe
  <2> QED
    BY <2>1 DEF Ordered, RefsKept, FreeRef
<1>3. ASSUME NEW v \in Workers, v # w PROVE RefsKept(map', calls'[v]) /\ WriteKept(calls[v])'
  <2> DEFINE c == calls[v]
  <2>1. calls'[v] = c /\ RefsKept(map, c) /\ WriteKept(c) /\ (Holds(c) => c.refs \in Seq(RefType) /\ c.refs # <<>>)
    BY <1>3 DEF OthersStay, Ordered, TypedInv, CallTyped
  <2>2. RefsKept(map', c)
    <3>1. ASSUME Holds(c), NEW i \in DOMAIN c.refs
          PROVE  IF c.op = "clear" THEN FreeRef(map', c.refs[i]) ELSE RefHolds(map', c.refs[i])
      <4>1. c.refs[i] \in RefType /\ c.refs[i].slot \in Slots
        <5>1. c.refs[i] \in RefType
          BY <2>1, <3>1
        <5> QED
          BY <5>1 DEF RefType
      <4>2. CASE c.op = "clear"
        <5>1. FreeRef(map, c.refs[i]) /\ ToWipe(c.refs[i].slot)
          BY <2>1, <3>1, <4>2 DEF RefsKept, ToWipe
        <5>2. c.refs[i].slot \in ToSet(map'.free)
          BY <5>1 DEF FreeRef
        <5> HIDE DEF c
        <5> QED
          BY <4>1, <4>2, <5>1, <5>2, FreeRefStays
      <4>3. CASE c.op # "clear"
        <5>1. RefHolds(map, c.refs[i])
          BY <2>1, <3>1, <4>3 DEF RefsKept
        <5> HIDE DEF c
        <5> QED
          BY <4>1, <4>3, <5>1, RefStays
      <4> QED
        BY <4>2, <4>3
    <3>2. ASSUME Recalls(c), NEW i \in DOMAIN c.slots PROVE RefHolds(map', c.slots[i])
      <4>1. c.slots \in Seq(RefType)
        BY <3>2, CallUnderWay DEF Recalls, At, SlotsKnown
      <4>2. c.slots[i] \in RefType /\ RefHolds(map, c.slots[i])
        BY <2>1, <3>2, <4>1 DEF RefsKept
      <4> HIDE DEF c
      <4> QED
        BY <4>2, RefStays
    <3> HIDE DEF c
    <3> QED
      BY <3>1, <3>2 DEF RefsKept
  <2>3. WriteKept(calls[v])'
    <3> SUFFICES ASSUME c.pc = "write", c.op # "clear" PROVE WriteKept(calls[v])'
      BY <2>1 DEF WriteKept
    <3>1. PICK r \in RefType : r = Head(c.refs) /\ c.refs[1] = r /\ 1 \in DOMAIN c.refs /\ Holds(c)
      BY <2>1 DEF Holds
    <3>2. ToWipe(r.slot) => ToWipe(r.slot)'
      BY <1>1
    <3>3. ASSUME Current(r) PROVE Current(r)' \/ ToWipe(r.slot)'
      <4>1. RefHolds(map, r) /\ r.gen = map.gen[r.slot]
        BY <2>1, <3>1, <3>3 DEF RefsKept, Current
      <4>2. r.gen = map'.gen[r.slot] \/ r.slot \in ToSet(map'.free)
        BY <4>1, RefStays
      <4>3. r.slot \notin ToSet(map.free)
        <5>1. Bucket(r.key, r.slot) \in Entries(map.table) /\ Bucket(r.key, r.slot).slot = r.slot
          BY <4>1 DEF RefHolds, Bucket
        <5> QED
          BY <5>1 DEF IInv, Kept
      <4>4. calls[w].pc # "both"
        BY <1>3, AloneInSlots
      <4> QED
        BY <4>2, <4>3, <4>4 DEF Current
    <3>4. Current(r)' \/ ToWipe(r.slot)'
      BY <2>1, <3>1, <3>2, <3>3 DEF WriteKept
    <3> QED
      BY <2>1, <3>1, <3>4 DEF WriteKept
  <2> QED
    BY <2>1, <2>2, <2>3 DEF WriteKept
<1>4. RefsKept(map', calls'[w]) /\ WriteKept(calls[w])'
  BY DEF WriteKept
<1>5. \A s \in ToSet(map'.free) : data'[s].occupied => ToWipe(s)'
  BY <1>1 DEF Ordered
<1>6. \A v \in Workers : RefsKept(map', calls'[v]) /\ WriteKept(calls[v])'
  BY <1>3, <1>4
<1> QED
  BY <1>5, <1>6 DEF Ordered, RefsKept, Recalls, FreeRef, RefHolds, Entries, Keyed

----------------------------------------------------------------------------
(* Who moves. *)

\* The call goes on with what it knew.
Kin(c, d) == d.op = c.op /\ d.at = c.at /\ d.exp = c.exp /\ d.slots = c.slots

\* A step that keeps the types.
LEMMA TypedMoved ==
  ASSUME TypedInv, NEW w \in Workers, OthersStay(w), now' = now, reused' \in BOOLEAN,
         data' \in [Slots -> StoredType], \A s \in Slots : Timely(data'[s].exp, now), CallTyped(calls'[w], now)
  PROVE  TypedInv'
<1>1. \A v \in Workers : CallTyped(calls'[v], now)
  BY DEF OthersStay, TypedInv
<1> QED
  BY <1>1 DEF TypedInv, CallTyped, Timely, Holds

\* The map may stay.
LEMMA FollowsItself ==
  ASSUME IInv, GhostInv
  PROVE  Follows(map, map)
<1>1. map.gen \in [Slots -> 0 .. Generations - 1]
  BY DEF IInv, Kept, Maps
<1>2. GenerationsRise(map, map)
  BY <1>1 DEF GenerationsRise
<1> QED
  BY <1>2 DEF Follows, IInv, GhostInv, Grown

\* A call begins, or takes a semaphore before it has references.
LEMMA BeginOwn ==
  ASSUME IInv, GhostInv, OwnInv, NEW w \in Workers, Begin(w) \/ BeginDelete(w) \/ Sample(w) \/ EnterMap(w) \/ EnterSlots(w)
  PROVE  OwnInv' /\ map' = map /\ data' = data
<1>1. map' = map /\ data' = data /\ now' = now /\ reused' = reused /\ now \in Nat /\ reused \in BOOLEAN
  BY DEF Begin, BeginDelete, Sample, EnterMap, EnterSlots, OwnInv, TypedInv
<1>2. calls[w].pc \in {"idle", "start"} /\ OthersStay(w)
  <2>1. calls[w].pc \in {"idle", "start"}
    BY Zenon DEF Begin, BeginDelete, Sample, EnterMap, EnterSlots, At
  <2>2. \E c : calls' = [calls EXCEPT ![w] = c]
    <3>1. CASE Begin(w)
      BY <3>1, Zenon DEF Begin
    <3>2. CASE BeginDelete(w) \/ Sample(w)
      BY <3>2, Zenon DEF BeginDelete, Sample
    <3>3. CASE EnterMap(w) \/ EnterSlots(w)
      BY <3>3, Zenon DEF EnterMap, EnterSlots
    <3> QED
      BY <3>1, <3>2, <3>3
  <2> QED
    BY <2>1, <2>2 DEF OthersStay, IInv
<1>3. /\ calls'[w].pc \in {"map", "both", "start"}
      /\ calls'[w].at \in Nat /\ calls'[w].at <= now /\ Timely(calls'[w].exp, now)
      /\ \/ calls'[w].slots = <<>>
         \/ calls'[w].slots = calls[w].slots /\ calls'[w].op = calls[w].op /\ calls[w].pc # "idle"
  <2>1. \A pc, op, ks, at, exp : /\ Begun(pc, op, ks, at, exp).pc = pc
                                 /\ Begun(pc, op, ks, at, exp).at = at /\ Begun(pc, op, ks, at, exp).exp = exp
                                 /\ Begun(pc, op, ks, at, exp).slots = <<>>
    BY DEF Begun
  <2>2. CASE Begin(w)
    <3>1. PICK op \in Ops \cap MapFirst, at \in 0 .. now, timed \in BOOLEAN :
            LET Call(ks) == Begun("map", op, ks, at, IF timed THEN at + TTL ELSE Forever)
            IN  \/ \E K \in Batches : calls' = [calls EXCEPT ![w] = Call(SetToSeq(K))]
                \/ \E k \in Keys : calls' = [calls EXCEPT ![w] = Call(<<k>>)]
                \/ calls' = [calls EXCEPT ![w] = Call(<<>>)]
      BY <2>2, ZenonT(40) DEF Begin
    <3>2. \E ks : calls' = [calls EXCEPT ![w] = Begun("map", op, ks, at, IF timed THEN at + TTL ELSE Forever)]
      BY <3>1, Zenon
    <3>3. PICK ks : calls' = [calls EXCEPT ![w] = Begun("map", op, ks, at, IF timed THEN at + TTL ELSE Forever)]
      BY <3>2
    <3> DEFINE exp == IF timed THEN at + TTL ELSE Forever
    <3>4. calls'[w] = Begun("map", op, ks, at, exp)
      BY <3>3 DEF IInv
    <3>5. at \in Nat /\ at <= now /\ at + TTL \in Nat /\ at + TTL <= now + TTL
      BY <1>1
    <3>6. Timely(exp, now)
      BY <3>5, Zenon DEF Timely
    <3> HIDE DEF exp
    <3> QED
      BY <2>1, <3>4, <3>5, <3>6
  <2>3. CASE BeginDelete(w)
    <3>1. PICK k \in Keys : calls'[w] = Begun("both", "delete", <<k>>, now, Forever)
      BY <2>3 DEF BeginDelete, IInv
    <3> QED
      BY <1>1, <2>1, <3>1 DEF Timely
  <2>4. CASE Sample(w)
    <3>1. PICK k \in Keys : calls'[w] = [Begun("start", "reap", <<k>>, now, Forever) EXCEPT !.refs = <<Ref(map, k)>>]
      BY <2>4 DEF Sample, IInv
    <3>2. calls'[w].pc = "start" /\ calls'[w].at = now /\ calls'[w].exp = Forever /\ calls'[w].slots = <<>>
      BY <3>1 DEF Begun
    <3> QED
      BY <1>1, <3>2 DEF Timely
  <2>5. CASE EnterMap(w) \/ EnterSlots(w)
    <3>1. PICK pc \in {"map", "both"} : calls'[w] = [calls[w] EXCEPT !.pc = pc]
      BY <2>5 DEF EnterMap, EnterSlots, IInv
    <3>2. ~ At(w, "idle")
      BY <2>5 DEF EnterMap, EnterSlots, At
    <3>3. /\ calls'[w].pc = pc /\ calls'[w].at = calls[w].at /\ calls'[w].exp = calls[w].exp
          /\ calls'[w].slots = calls[w].slots /\ calls'[w].op = calls[w].op
      BY <3>1, <3>2, CallUnderWay
    <3> QED
      BY <3>2, <3>3 DEF OwnInv, TypedInv, CallTyped, At
  <2> QED
    BY <2>2, <2>3, <2>4, <2>5
<1>4. TypedInv'
  <2>1. CallTyped(calls'[w], now)
    BY <1>3 DEF CallTyped, Holds
  <2> QED
    BY <1>1, <1>2, <2>1, TypedMoved DEF OwnInv, TypedInv
<1>5. ASSUME ~ reused' PROVE Ordered'
  <2>1. ~ Holds(calls[w]) /\ ~ Holds(calls'[w]) /\ calls'[w].pc # "write"
    BY <1>2, <1>3 DEF Holds
  <2>2. Follows(map, map') /\ Ordered
    BY <1>1, <1>5, FollowsItself DEF OwnInv
  <2>3. RefsKept(map', calls'[w])
    <3>1. RefsKept(map, calls[w]) /\ DOMAIN <<>> = {}
      BY <2>2 DEF Ordered
    <3> QED
      BY <1>1, <1>3, <2>1, <3>1 DEF RefsKept, Recalls
  <2> QED
    BY <1>1, <1>2, <2>1, <2>2, <2>3, OrderedAtMap DEF OwnInv
<1> QED
  BY <1>1, <1>4, <1>5 DEF OwnInv

\* A call is done with its first slot.
LEMMA ProceedOwn ==
  ASSUME IInv, TypedInv, NEW w \in Workers, NEW again, Proceed(w, again), calls[w].pc \in {"gap", "slot", "write"}
  PROVE  /\ OthersStay(w) /\ CallTyped(calls'[w], now) /\ calls'[w].pc # "write"
         /\ \A m : RefsKept(m, calls[w]) => RefsKept(m, calls'[w])
         /\ calls[w].op = "clear" =>
              \A i \in DOMAIN calls[w].refs : calls[w].refs[i].slot # Head(calls[w].refs).slot =>
                /\ Holds(calls'[w]) /\ calls'[w].op = "clear"
                /\ \E j \in DOMAIN calls'[w].refs : calls'[w].refs[j].slot = calls[w].refs[i].slot
<1> DEFINE c == calls[w]
<1>1. /\ OthersStay(w) /\ Holds(c) /\ c.refs \in Seq(RefType) /\ c.refs # <<>>
      /\ c.at \in Nat /\ c.at <= now /\ Timely(c.exp, now)
  BY DEF Proceed, OthersStay, IInv, TypedInv, CallTyped, Holds
<1>2. DOMAIN c = {"pc", "op", "keys", "at", "exp", "refs", "slots", "again", "tries"}
  <2>1. ~ At(w, "idle")
    BY DEF At
  <2> QED
    BY <2>1, CallUnderWay
<1>3. CASE Len(c.refs) > 1
  <2>1. calls'[w] = [c EXCEPT !.pc = "slot", !.refs = Tail(c.refs), !.again = again]
    BY <1>3 DEF Proceed, IInv
  <2> HIDE DEF c
  <2>2. calls'[w].pc = "slot" /\ calls'[w].refs = Tail(c.refs) /\ Kin(c, calls'[w])
    BY <1>2, <2>1 DEF Kin
  <2>3. Tail(c.refs) \in Seq(RefType) /\ Tail(c.refs) # <<>>
    BY <1>1, <1>3, TailOfLonger
  <2>4. \A j \in DOMAIN Tail(c.refs) : j + 1 \in DOMAIN c.refs /\ Tail(c.refs)[j] = c.refs[j + 1]
    BY <1>1, <1>3, TailEntries
  <2>5. CallTyped(calls'[w], now)
    BY <1>1, <2>2, <2>3 DEF CallTyped, Kin
  <2>6. \A m : RefsKept(m, c) => RefsKept(m, calls'[w])
    BY <1>1, <2>2, <2>4 DEF RefsKept, Recalls, Holds, Kin
  <2>7. ASSUME NEW i \in DOMAIN c.refs, c.refs[i].slot # Head(c.refs).slot
        PROVE  \E j \in DOMAIN calls'[w].refs : calls'[w].refs[j].slot = c.refs[i].slot
    <3>1. c.refs[i] # Head(c.refs)
      BY <2>7
    <3> QED
      BY <1>1, <2>2, <3>1, TailKeeps
  <2> QED
    BY <1>1, <2>2, <2>5, <2>6, <2>7 DEF c, Holds, Kin
<1>4. CASE ~ (Len(c.refs) > 1)
  <2> DEFINE d == [c EXCEPT !.pc = "start", !.refs = <<>>, !.keys = again, !.again = <<>>, !.tries = c.tries - 1]
  <2>1. calls'[w] = d \/ calls'[w] = Idle
    BY <1>4 DEF Proceed, IInv
  <2>2. d.pc = "start" /\ Kin(c, d) /\ Idle.pc = "idle"
    BY <1>2 DEF Idle, Kin
  <2> HIDE DEF d, c
  <2>3. CallTyped(calls'[w], now) /\ calls'[w].pc \in {"start", "idle"}
    BY <1>1, <2>1, <2>2 DEF CallTyped, Holds, Kin
  <2>5. \A m : RefsKept(m, c) => RefsKept(m, calls'[w])
    BY <1>1, <2>1, <2>2 DEF RefsKept, Recalls, Holds, Kin
  <2>4. \A i \in DOMAIN c.refs : c.refs[i] = Head(c.refs)
    <3> TAKE i \in DOMAIN c.refs
    <3> SUFFICES ASSUME c.refs[i] # Head(c.refs) PROVE FALSE
      OBVIOUS
    <3> QED
      BY <1>1, <1>4, TailKeeps
  <2> QED
    BY <1>1, <2>3, <2>4, <2>5 DEF Holds, c
<1> QED
  BY <1>3, <1>4

\* A call gives the map's semaphore back.
LEMMA LeaveOwn ==
  ASSUME IInv, TypedInv, NEW w \in Workers, At(w, "map"), NEW refs \in Seq(RefType), LeaveMap(w, refs)
  PROVE  /\ OthersStay(w) /\ data' = data /\ now' = now /\ ~ Holds(calls[w]) /\ calls'[w].pc # "write"
         /\ CallTyped(calls'[w], now)
         /\ refs = <<>> => calls'[w] = Idle
         /\ refs # <<>> => Holds(calls'[w]) /\ calls'[w].op = calls[w].op /\ calls'[w].refs = refs
                           /\ calls'[w].slots = refs
<1> DEFINE c == calls[w]
<1>1. /\ OthersStay(w) /\ data' = data /\ now' = now /\ ~ Holds(c)
      /\ c.at \in Nat /\ c.at <= now /\ Timely(c.exp, now)
      /\ calls'[w] = IF refs = <<>> THEN Idle ELSE [c EXCEPT !.pc = "gap", !.refs = refs, !.slots = refs]
  BY DEF LeaveMap, OthersStay, IInv, TypedInv, CallTyped, Holds, At
<1>2. DOMAIN c = {"pc", "op", "keys", "at", "exp", "refs", "slots", "again", "tries"}
  BY CallUnderWay DEF At
<1> HIDE DEF c
<1>3. CASE refs = <<>>
  BY <1>1, <1>3 DEF Idle, CallTyped, Holds, c
<1>4. CASE refs # <<>>
  <2>1. /\ calls'[w].pc = "gap" /\ calls'[w].refs = refs /\ calls'[w].slots = refs
        /\ calls'[w].op = c.op /\ calls'[w].at = c.at /\ calls'[w].exp = c.exp
    BY <1>1, <1>2, <1>4
  <2> QED
    BY <1>1, <1>4, <2>1 DEF CallTyped, Holds, c
<1> QED
  BY <1>3, <1>4

\* What a call remembers of a key holds.
LEMMA RefIsHeld ==
  ASSUME NEW m, Kept(m), NEW k \in Keys, Has(m.table, k)
  PROVE  Ref(m, k) \in RefType /\ RefHolds(m, Ref(m, k))
<1>1. /\ Ref(m, k) \in RefType
      /\ Lookup(m.table, k) \in Keyed(m.table) /\ m.table[Lookup(m.table, k)].key = k
  BY RefOfKey
<1> DEFINE e == m.table[Lookup(m.table, k)]
<1>2. e \in Entries(m.table) /\ e.key = k /\ SlotOf(m.table, k) = e.slot
  BY <1>1 DEF Entries, SlotOf
<1> HIDE DEF e
<1>3. e = Bucket(k, e.slot)
  BY <1>2, EntryIsBucket
<1>4. Ref(m, k) = [key |-> k, slot |-> e.slot, gen |-> m.gen[e.slot]]
  BY <1>2 DEF Ref
<1>5. m.gen[e.slot] \in Nat
  <2>1. e.slot \in Slots
    BY <1>2 DEF Kept
  <2> QED
    BY <2>1 DEF Kept, Maps
<1> QED
  BY <1>1, <1>2, <1>3, <1>4, <1>5 DEF RefHolds

----------------------------------------------------------------------------
\* Reads and expiries look their slots up.
LEMMA FindOwn ==
  ASSUME IInv, GhostInv, OwnInv, NEW w \in Workers, Find(w)
  PROVE  OwnInv' /\ map' = map /\ data' = data
<1> DEFINE found == Found(map.table, calls[w].keys)
           refs == [i \in DOMAIN found |-> Ref(map, found[i])]
           K == {k \in Keys : Has(map.table, k)}
<1>1. /\ At(w, "map") /\ calls[w].op \in {"get", "expire"} /\ map' = map /\ LeaveMap(w, refs)
      /\ reused' = reused /\ reused \in BOOLEAN /\ TypedInv /\ Kept(map)
  BY DEF Find, OwnInv, TypedInv, IInv
<1>2. found \in Seq(K)
  <2>1. ~ At(w, "idle")
    BY <1>1 DEF At
  <2>2. calls[w].keys \in Seq(Keys)
    BY <2>1, CallUnderWay
  <2> QED
    BY <2>2, FoundListed
<1>3. ASSUME NEW k \in K PROVE Ref(map, k) \in RefType /\ RefHolds(map, Ref(map, k))
  BY <1>1, <1>3, RefIsHeld
<1> HIDE DEF found, K
<1>4. DOMAIN found = 1 .. Len(found) /\ Len(found) \in Nat /\ \A i \in 1 .. Len(found) : found[i] \in K
  BY <1>2
<1>5. refs \in Seq(RefType) /\ \A i \in DOMAIN refs : RefHolds(map, refs[i])
  <2>1. \A i \in 1 .. Len(found) : refs[i] \in RefType /\ RefHolds(map, refs[i])
    BY <1>3, <1>4
  <2>2. refs \in [1 .. Len(found) -> RefType] /\ DOMAIN refs = 1 .. Len(found)
    BY <1>4, <2>1
  <2> HIDE DEF refs
  <2> QED
    BY <1>4, <2>1, <2>2
<1> HIDE DEF refs
<1>6. /\ OthersStay(w) /\ data' = data /\ now' = now /\ ~ Holds(calls[w]) /\ calls'[w].pc # "write"
      /\ CallTyped(calls'[w], now)
      /\ refs = <<>> => calls'[w] = Idle
      /\ refs # <<>> => /\ Holds(calls'[w]) /\ calls'[w].op = calls[w].op
                         /\ calls'[w].refs = refs /\ calls'[w].slots = refs
  BY <1>1, <1>5, LeaveOwn
<1>7. TypedInv'
  BY <1>1, <1>6, TypedMoved DEF TypedInv
<1>8. ASSUME ~ reused' PROVE Ordered'
  <2>1. RefsKept(map', calls'[w])
    BY <1>1, <1>5, <1>6 DEF RefsKept, Recalls, Holds, Idle
  <2>2. Follows(map, map') /\ Ordered
    BY <1>1, <1>8, FollowsItself DEF OwnInv
  <2> QED
    BY <1>1, <1>6, <2>1, <2>2, OrderedAtMap
<1> QED
  BY <1>1, <1>6, <1>7, <1>8 DEF OwnInv

\* Slots that a clear is going to wipe are among those it has freed.
LEMMA ToWipeUnwiped ==
  ASSUME NEW s, ToWipe(s)
  PROVE  s \in Unwiped
<1>1. PICK v \in Workers : /\ Holds(calls[v]) /\ calls[v].op = "clear"
                           /\ \E i \in DOMAIN calls[v].refs : calls[v].refs[i].slot = s
  BY DEF ToWipe
<1>2. v \in {u \in Workers : calls[u].pc # "idle" /\ calls[u].op = "clear"}
  BY <1>1 DEF Holds
<1>3. s \in {r.slot : r \in ToSet(calls[v].refs)}
  BY <1>1 DEF ToSet
<1> QED
  BY <1>2, <1>3 DEF Unwiped

\* Keys get slots, and none that a clear is going to wipe.
LEMMA AssignOwn ==
  ASSUME IInv, GhostInv, OwnInv, NEW w \in Workers, Assign(w), GenerationsRise(map, map')
  PROVE  /\ OwnInv' /\ data' = data
         /\ Assigning(map, calls[w].keys, map') /\ Kept(map')
         /\ ~ reused' => \A s \in ToSet(map.free) : ToWipe(s) => s \in ToSet(map'.free)
<1> DEFINE ks == calls[w].keys
           m  == Assigned(map, ks)
           full == \E k \in ToSet(ks) : ~Has(m.table, k)
           taken == \E s \in Unwiped : s \in ToSet(map.free) \ ToSet(m.free)
           refs == IF full THEN <<>> ELSE Slotted(m, calls[w])
<1>1. /\ At(w, "map") /\ map' = m /\ calls[w].op \in {"set", "increment"} /\ LeaveMap(w, refs)
      /\ reused' = (reused \/ taken) /\ reused \in BOOLEAN /\ TypedInv /\ Kept(map) /\ Turned(map)
  BY DEF Assign, OwnInv, TypedInv, IInv, GhostInv
<1>2. ks \in Seq(Keys) /\ SlotsKnown(calls[w]) /\ Recalls(calls[w])
  <2>1. ~ At(w, "idle")
    BY <1>1 DEF At
  <2> QED
    BY <1>1, <2>1, CallUnderWay DEF At, Recalls
<1>3. Assigning(map, ks, m) /\ Kept(m)
  BY <1>1, <1>2, AssignedKept DEF Assigning
<1>4. reused' \in BOOLEAN /\ (~ reused' => ~ reused /\ ~ taken)
  <2>1. taken \in BOOLEAN
    OBVIOUS
  <2> HIDE DEF taken
  <2> QED
    BY <1>1, <2>1, Zenon
<1> HIDE DEF m
<1>5. Follows(map, map')
  BY <1>1, <1>3 DEF Follows, Assigning
<1>6. /\ refs \in Seq(RefType)
      /\ Ordered => \A i \in DOMAIN refs : RefHolds(m, refs[i])
  <2>1. CASE full
    BY <2>1
  <2>2. CASE ~ full
    <3> DEFINE c == calls[w]
    <3>1. PICK q : q = Slotted(m, c)
      OBVIOUS
    <3>2. refs = q
      BY <2>2, <3>1
    <3>3. /\ q \in Seq(RefType)
          /\ \A i \in DOMAIN q :
               \/ \E k \in ToSet(ks) : q[i] = Ref(m, k)
               \/ i \in DOMAIN c.slots /\ q[i] = c.slots[i]
      <4>1. \A k \in ToSet(ks) : Has(m.table, k)
        BY <2>2
      <4> HIDE DEF refs, full
      <4> QED
        BY <1>2, <1>3, <3>1, <4>1, SlottedKeys
    <3>4. ASSUME Ordered, NEW i \in DOMAIN q PROVE RefHolds(m, q[i])
      <4>1. CASE \E k \in ToSet(ks) : q[i] = Ref(m, k)
        <5>1. PICK k \in ToSet(ks) : q[i] = Ref(m, k)
          BY <4>1
        <5>2. k \in Keys /\ Has(m.table, k)
          BY <1>2, <2>2 DEF ToSet
        <5> QED
          BY <1>3, <5>1, <5>2, RefIsHeld
      <4>2. CASE i \in DOMAIN c.slots /\ q[i] = c.slots[i]
        <5>1. RefHolds(map, c.slots[i]) /\ c.slots[i] \in RefType
          BY <1>2, <3>4, <4>2 DEF Ordered, RefsKept, SlotsKnown
        <5> HIDE DEF c, refs
        <5> QED
          BY <1>1, <1>5, <4>2, <5>1, RefStays
      <4> QED
        BY <3>3, <4>1, <4>2
    <3> QED
      BY <3>2, <3>3, <3>4
  <2> QED
    BY <2>1, <2>2
<1>7. ~ reused' => \A s \in ToSet(map.free) : ToWipe(s) => s \in ToSet(map'.free)
  BY <1>1, <1>4, ToWipeUnwiped
<1> HIDE DEF refs, full, taken
<1>8. /\ OthersStay(w) /\ data' = data /\ now' = now /\ ~ Holds(calls[w]) /\ calls'[w].pc # "write"
      /\ CallTyped(calls'[w], now)
      /\ refs = <<>> => calls'[w] = Idle
      /\ refs # <<>> => /\ Holds(calls'[w]) /\ calls'[w].op = calls[w].op
                         /\ calls'[w].refs = refs /\ calls'[w].slots = refs
  BY <1>1, <1>6, LeaveOwn
<1>9. TypedInv'
  BY <1>1, <1>4, <1>8, TypedMoved DEF TypedInv
<1>10. ASSUME ~ reused' PROVE Ordered'
  <2>1. RefsKept(map', calls'[w])
    BY <1>1, <1>4, <1>6, <1>8, <1>10 DEF RefsKept, Recalls, Holds, Idle, OwnInv
  <2>2. Ordered /\ \A s \in ToSet(map.free) : ToWipe(s) => s \in ToSet(map'.free)
    BY <1>4, <1>7, <1>10 DEF OwnInv
  <2>3. \A s \in ToSet(map'.free) : s \in ToSet(map.free)
    BY <1>1, <1>3 DEF Assigning, Grown
  <2> QED
    BY <1>1, <1>5, <1>8, <2>1, <2>2, <2>3, OrderedAtMap
<1> QED
  BY <1>1, <1>3, <1>7, <1>8, <1>9, <1>10 DEF OwnInv

\* A clear is going to wipe the slots that it frees.
LEMMA ClearOwn ==
  ASSUME IInv, GhostInv, OwnInv, NEW w \in Workers, ClearMap(w), GenerationsRise(map, map')
  PROVE  /\ OwnInv' /\ data' = data
         /\ At(w, "map") /\ calls[w].op = "clear" /\ Clearing(map, map', Capacity)
<1> DEFINE mine  == OwnKeys(map.table)
           m     == Cleared(map)
           freed == [i \in DOMAIN mine |-> SlotOf(map.table, mine[i])]
           refs  == [i \in DOMAIN mine |-> [key |-> mine[i], slot |-> freed[i], gen |-> m.gen[freed[i]]]]
           K     == {map.table[b].key : b \in {c \in Buckets : map.table[c].key \in Owned}}
<1>1. /\ At(w, "map") /\ calls[w].op = "clear" /\ map' = m /\ LeaveMap(w, refs)
      /\ reused' = reused /\ reused \in BOOLEAN /\ TypedInv /\ Turned(map)
  BY DEF ClearMap, OwnInv, TypedInv, GhostInv
<1>2. Clearing(map, m, Capacity) /\ Kept(map) /\ Sound(map.table)
  BY ClearedKept DEF IInv, Kept
<1>3. Turned(m) /\ Kept(m) /\ Grown(m, map)
  BY <1>1, <1>2 DEF Clearing
<1>4. Follows(map, map')
  BY <1>1, <1>2, <1>3 DEF Follows
<1>5. ASSUME NEW k \in K
      PROVE  LET r == [key |-> k, slot |-> SlotOf(map.table, k), gen |-> m.gen[SlotOf(map.table, k)]]
             IN  r \in RefType /\ FreeRef(m, r)
  <2>1. PICK b \in Buckets : map.table[b].key = k /\ k \in Owned
    BY <1>5
  <2>2. b \in Keyed(map.table) /\ k \in Keys
    BY <2>1 DEF Keyed
  <2>3. SlotOf(map.table, k) = map.table[b].slot
    BY <1>2, <2>1, <2>2, KeyIsFound DEF SlotOf
  <2> DEFINE s == map.table[b].slot
  <2>4. s \in Slots /\ s \in ToSet(m.free)
    <3>1. map.table[b] \in Entries(map.table) /\ b < Capacity
      BY <2>2 DEF Entries, Keyed, Buckets
    <3> QED
      BY <1>2, <2>1, <2>2, <3>1 DEF Kept, Clearing
  <2>5. m.gen[s] \in 0 .. Generations - 1
    BY <1>3, <2>4 DEF Kept, Maps
  <2> HIDE DEF s, m
  <2> QED
    BY <2>2, <2>3, <2>4, <2>5 DEF RefType, FreeRef, s
<1>6. mine \in Seq(K) /\ \A b \in Buckets : map.table[b].key \in Owned => \E j \in DOMAIN mine : mine[j] = map.table[b].key
  BY OwnKeysListed
<1> HIDE DEF mine, m, K
<1>7. DOMAIN mine = 1 .. Len(mine) /\ Len(mine) \in Nat /\ \A i \in 1 .. Len(mine) : mine[i] \in K
  BY <1>6
<1>8. refs \in Seq(RefType) /\ \A i \in DOMAIN refs : FreeRef(m, refs[i])
  <2>1. \A i \in 1 .. Len(mine) : refs[i] \in RefType /\ FreeRef(m, refs[i])
    BY <1>5, <1>7
  <2>2. refs \in [1 .. Len(mine) -> RefType] /\ DOMAIN refs = 1 .. Len(mine)
    BY <1>7, <2>1
  <2> HIDE DEF refs
  <2> QED
    BY <1>7, <2>1, <2>2
<1>9. ASSUME NEW s \in ToSet(m.free), s \notin ToSet(map.free)
      PROVE  \E i \in DOMAIN refs : refs[i].slot = s
  <2>1. PICK e \in Entries(map.table) : e.slot = s
    BY <1>3, <1>9 DEF Grown
  <2>2. e.key \in Owned
    <3> SUFFICES ASSUME e.key \notin Owned PROVE FALSE
      OBVIOUS
    <3>1. e \in Entries(m.table)
      BY <1>2 DEF Clearing
    <3> QED
      BY <1>3, <1>9, <2>1, <3>1 DEF Kept
  <2>3. PICK b \in Keyed(map.table) : e = map.table[b]
    BY DEF Entries
  <2>4. PICK j \in DOMAIN mine : mine[j] = e.key
    BY <1>6, <2>2, <2>3 DEF Keyed
  <2>5. SlotOf(map.table, e.key) = s
    BY <1>2, <2>1, <2>3, KeyIsFound DEF SlotOf, Keyed
  <2> QED
    BY <2>4, <2>5
<1> HIDE DEF refs
<1>10. /\ OthersStay(w) /\ data' = data /\ now' = now /\ ~ Holds(calls[w]) /\ calls'[w].pc # "write"
       /\ CallTyped(calls'[w], now)
       /\ refs = <<>> => calls'[w] = Idle
       /\ refs # <<>> => /\ Holds(calls'[w]) /\ calls'[w].op = calls[w].op
                         /\ calls'[w].refs = refs /\ calls'[w].slots = refs
  BY <1>1, <1>8, LeaveOwn
<1>11. TypedInv'
  BY <1>1, <1>10, TypedMoved DEF TypedInv
<1>12. ASSUME ~ reused' PROVE Ordered'
  <2>1. RefsKept(map', calls'[w])
    BY <1>1, <1>8, <1>10 DEF RefsKept, Recalls, Holds, Idle
  <2>2. Ordered /\ \A s \in ToSet(map.free) : s \in ToSet(map'.free)
    BY <1>1, <1>3, <1>12 DEF OwnInv, Grown
  <2>3. \A s \in ToSet(map'.free) : s \in ToSet(map.free) \/ ToWipe(s)'
    <3> TAKE s \in ToSet(map'.free)
    <3> SUFFICES ASSUME s \notin ToSet(map.free) PROVE ToWipe(s)'
      OBVIOUS
    <3>1. PICK i \in DOMAIN refs : refs[i].slot = s
      BY <1>1, <1>9
    <3>2. refs # <<>>
      BY <3>1
    <3>3. Holds(calls'[w]) /\ calls'[w].op = "clear" /\ i \in DOMAIN calls'[w].refs /\ calls'[w].refs[i].slot = s
      BY <1>1, <1>10, <3>1, <3>2
    <3> QED
      BY <3>3 DEF ToWipe
  <2> QED
    BY <1>1, <1>4, <1>10, <2>1, <2>2, <2>3, OrderedAtMap
<1> QED
  BY <1>1, <1>2, <1>10, <1>11, <1>12 DEF OwnInv

\* A key was taken out of the table, and its slot wiped.
Unlinked(k) ==
  \E e \in Entries(map.table) :
    /\ e.key = k /\ Entries(map'.table) = Entries(map.table) \ {e}
    /\ data' = [data EXCEPT ![e.slot] = NoData]

\* A delete or the cleaner takes a key out of the table with its data.
LEMMA UnlinkOwn ==
  ASSUME IInv, GhostInv, OwnInv, NEW w \in Workers, NEW k \in Keys, NEW does \in BOOLEAN, Unlink(w, k, does),
         does => Has(map.table, k), GenerationsRise(map, map')
  PROVE  /\ OwnInv' /\ Kept(map')
         /\ does => Unlinked(k)
         /\ ~ does => map' = map /\ data' = data
<1>1. /\ calls[w].pc = "both" /\ calls'[w] = Idle /\ OthersStay(w) /\ reused' = reused /\ reused \in BOOLEAN
      /\ now' = now /\ TypedInv /\ Kept(map) /\ Turned(map)
      /\ map' = IF does THEN Freed(map, k) ELSE map
      /\ data' = IF does THEN [data EXCEPT ![SlotOf(map.table, k)] = NoData] ELSE data
  BY DEF Unlink, At, IInv, OthersStay, GhostInv, OwnInv, TypedInv
<1>2. /\ CallTyped(calls'[w], now) /\ calls'[w].pc # "write" /\ ~ Holds(calls[w])
      /\ \A m : RefsKept(m, calls'[w])
  BY <1>1 DEF CallTyped, RefsKept, Recalls, Holds, Idle
<1>3. CASE ~ does
  <2>1. map' = map /\ data' = data
    BY <1>1, <1>3
  <2>2. TypedInv'
    BY <1>1, <1>2, <2>1, TypedMoved, Zenon DEF TypedInv
  <2>3. ASSUME ~ reused' PROVE Ordered'
    <3>1. Follows(map, map') /\ Ordered
      BY <1>1, <2>1, <2>3, FollowsItself DEF OwnInv
    <3> QED
      BY <1>1, <1>2, <2>1, <3>1, OrderedAtMap
  <2> QED
    BY <1>1, <1>3, <2>1, <2>2, <2>3 DEF OwnInv
<1>4. CASE does
  <2>1. PICK b \in Keyed(map.table) : b = Lookup(map.table, k) /\ map.table[b].key = k
    BY <1>1, <1>4, RefOfKey
  <2>2. PICK s : s = map.table[b].slot
    OBVIOUS
  <2>3. data' = [data EXCEPT ![s] = NoData] /\ map' = Freed(map, map.table[b].key)
    BY <1>1, <1>4, <2>1, <2>2 DEF SlotOf
  <2>4. /\ Kept(map') /\ (Turned(map) => Turned(map')) /\ Grown(map', map)
        /\ Entries(map'.table) = Entries(map.table) \ {map.table[b]}
        /\ ToSet(map'.free) = ToSet(map.free) \cup {s}
    <3>1. PICK n : n = map' /\ n = Freed(map, map.table[b].key)
      BY <2>3
    <3>2. /\ Kept(n) /\ (Turned(map) => Turned(n)) /\ Grown(n, map)
          /\ Entries(n.table) = Entries(map.table) \ {map.table[b]}
          /\ ToSet(n.free) = ToSet(map.free) \cup {s}
      <4>1. Kept(map) /\ b \in Keyed(map.table)
        BY <1>1
      <4>2. n = Freed(map, map.table[b].key)
        BY <3>1
      <4>3. /\ Kept(n) /\ (Turned(map) => Turned(n)) /\ Grown(n, map)
            /\ Entries(n.table) = Entries(map.table) \ {map.table[b]}
            /\ \A e \in Entries(n.table) : e.slot # map.table[b].slot /\ n.gen[e.slot] = map.gen[e.slot]
            /\ ToSet(n.free) = ToSet(map.free) \cup {map.table[b].slot}
        BY ONLY <4>1, <4>2, FreedTurns
      <4> QED
        BY ONLY <2>2, <4>3
    <3> QED
      BY <3>1, <3>2
  <2>5. Follows(map, map')
    BY <1>1, <2>4 DEF Follows
  <2>6. map.table[b] \in Entries(map.table)
    BY DEF Entries
  <2>7. Unlinked(k)
    BY <2>1, <2>2, <2>3, <2>4, <2>6 DEF Unlinked
  <2>8. s \in Slots
    BY <1>1, <2>2, <2>6 DEF Kept
  <2>9. NoData \in StoredType /\ Timely(NoData.exp, now) /\ ~ NoData.occupied
    BY DEF NoData, StoredType, Timely
  <2>10. /\ data' \in [Slots -> StoredType] /\ data'[s] = NoData
         /\ \A x \in Slots : x # s => data'[x] = data[x]
    <3>1. data \in [Slots -> StoredType]
      BY <1>1 DEF TypedInv
    <3> QED
      BY ONLY <2>3, <2>8, <2>9, <3>1
  <2>11. TypedInv'
    <3>1. \A x \in Slots : Timely(data'[x].exp, now)
      BY <1>1, <2>9, <2>10 DEF TypedInv
    <3> QED
      BY <1>1, <1>2, <2>10, <3>1, TypedMoved
  <2>12. ASSUME ~ reused' PROVE Ordered'
    <3>1. Ordered /\ \A x \in ToSet(map.free) : x \in ToSet(map'.free)
      BY <1>1, <2>4, <2>12 DEF OwnInv
    <3>2. \A x \in ToSet(map.free) : x \in Slots
      BY <1>1 DEF Kept, Maps, ToSet
    <3>3. \A x \in ToSet(map.free) : data'[x].occupied => data[x].occupied
      BY <2>9, <2>10, <3>2
    <3>4. \A x \in ToSet(map'.free) : x \in ToSet(map.free) \/ ToWipe(x)'
                                        \/ (~ data'[x].occupied /\ calls[w].pc = "both")
      BY <1>1, <2>4, <2>9, <2>10
    <3> QED
      BY <1>1, <1>2, <2>5, <3>1, <3>3, <3>4, OrderedAtMap
  <2> QED
    BY <1>1, <1>4, <2>4, <2>7, <2>11, <2>12 DEF OwnInv
<1> QED
  BY <1>3, <1>4

----------------------------------------------------------------------------
(* Steps at the slots. *)

\* The slot that comes next.
LEMMA HeadOfRefs ==
  ASSUME TypedInv, NEW w \in Workers, Holds(calls[w])
  PROVE  LET r == Head(calls[w].refs)
         IN  /\ r \in RefType /\ r.slot \in Slots /\ r.key \in Keys
             /\ 1 \in DOMAIN calls[w].refs /\ calls[w].refs[1] = r
<1>1. calls[w].refs \in Seq(RefType) /\ calls[w].refs # <<>>
  BY DEF TypedInv, CallTyped
<1>2. PICK r \in RefType : r = Head(calls[w].refs) /\ 1 \in DOMAIN calls[w].refs /\ calls[w].refs[1] = r
  BY <1>1
<1>3. r.slot \in Slots /\ r.key \in Keys
  BY DEF RefType
<1> QED
  BY <1>2, <1>3

\* A step that leaves the data alone.
LEMMA ReadOwn ==
  ASSUME IInv, OwnInv, NEW w \in Workers, OthersStay(w), map' = map, data' = data, now' = now, reused' = reused,
         InSlots(w) \/ calls[w].pc = "write", CallTyped(calls'[w], now),
         RefsKept(map, calls[w]) => RefsKept(map, calls'[w]),
         calls'[w].pc = "write" => Current(Head(calls'[w].refs)),
         Ordered /\ calls[w].op = "clear" =>
           Holds(calls'[w]) /\ calls'[w].op = "clear" /\ calls'[w].refs = calls[w].refs
  PROVE  OwnInv'
<1>1. TypedInv /\ reused' \in BOOLEAN
  BY DEF OwnInv, TypedInv
<1>2. TypedInv'
  BY <1>1, TypedMoved DEF TypedInv
<1>3. ASSUME ~ reused' PROVE Ordered'
  <2>1. Ordered /\ RefsKept(map, calls'[w])
    BY <1>3 DEF OwnInv, Ordered
  <2>2. \A s : ToWipe(s) => ToWipe(s)'
    BY <2>1, ToWipeStays
  <2>3. \A s \in ToSet(map.free) : data'[s].occupied => ToWipe(s)'
    BY <2>1, <2>2 DEF Ordered
  <2> QED
    BY <2>1, <2>3, OrderedAtSlots
<1> QED
  BY <1>2, <1>3 DEF OwnInv

\* A call finds its slot as it left it, or in other hands, or reads it, or cannot write it.
LEMMA LookOwn ==
  ASSUME IInv, OwnInv, NEW w \in Workers, Fresh(w) \/ Stale(w) \/ Get(w) \/ SetTooLarge(w)
  PROVE  OwnInv' /\ map' = map /\ data' = data
<1> DEFINE c == calls[w]
<1>1. /\ map' = map /\ data' = data /\ now' = now /\ reused' = reused /\ TypedInv
      /\ InSlots(w) \/ c.pc = "write"
      /\ Holds(c) /\ c.pc \in {"gap", "slot", "write"} /\ ~ At(w, "idle")
  BY DEF Fresh, Stale, Get, SetTooLarge, Done, Access, InSlots, At, Holds, OwnInv
<1>2. CASE Fresh(w)
  <2>1. calls'[w] = [c EXCEPT !.pc = "write"] /\ OthersStay(w) /\ Current(Head(c.refs))
    BY <1>2 DEF Fresh, IInv, OthersStay
  <2>2. DOMAIN c = {"pc", "op", "keys", "at", "exp", "refs", "slots", "again", "tries"}
    BY <1>1, CallUnderWay
  <2> HIDE DEF c
  <2>3. calls'[w].pc = "write" /\ calls'[w].refs = c.refs /\ Kin(c, calls'[w])
    BY <2>1, <2>2 DEF Kin
  <2>4. CallTyped(c, now)
    BY <1>1 DEF TypedInv, c
  <2>5. CallTyped(calls'[w], now) /\ Holds(calls'[w])
    BY <1>1, <2>3, <2>4 DEF CallTyped, Holds, Kin
  <2>6. RefsKept(map, c) => RefsKept(map, calls'[w])
    BY <1>1, <2>3 DEF RefsKept, Recalls, Holds, Kin
  <2> QED
    BY <1>1, <2>1, <2>3, <2>5, <2>6, ReadOwn DEF c, Kin
<1>3. CASE Stale(w) \/ Get(w)
  <2>1. PICK again : Proceed(w, again)
    BY <1>3 DEF Stale, Get, Done
  <2>2. /\ OthersStay(w) /\ CallTyped(calls'[w], now) /\ calls'[w].pc # "write"
        /\ RefsKept(map, c) => RefsKept(map, calls'[w])
    BY <1>1, <2>1, ProceedOwn
  <2>3. ~ (Ordered /\ c.op = "clear")
    <3>1. CASE Stale(w)
      <4> SUFFICES ASSUME Ordered, c.op = "clear" PROVE FALSE
        OBVIOUS
      <4>1. 1 \in DOMAIN c.refs /\ c.refs[1] = Head(c.refs)
        BY <1>1, HeadOfRefs
      <4>2. FreeRef(map, Head(c.refs))
        BY <1>1, <4>1 DEF Ordered, RefsKept
      <4> QED
        BY <3>1, <4>2 DEF Stale, Current, FreeRef
    <3>2. CASE Get(w)
      BY <3>2 DEF Get, Access
    <3> QED
      BY <1>3, <3>1, <3>2
  <2> QED
    BY <1>1, <2>2, <2>3, ReadOwn
<1>4. CASE SetTooLarge(w)
  <2>1. calls'[w] = Idle /\ OthersStay(w) /\ c.op # "clear"
    BY <1>4 DEF SetTooLarge, Access, IInv, OthersStay
  <2>2. CallTyped(calls'[w], now) /\ RefsKept(map, calls'[w]) /\ calls'[w].pc # "write"
    BY <2>1 DEF CallTyped, RefsKept, Recalls, Holds, Idle
  <2> QED
    BY <1>1, <2>1, <2>2, ReadOwn
<1> QED
  BY <1>1, <1>2, <1>3, <1>4

\* A call writes to a slot, a clear that it is empty.
LEMMA WriteOwn ==
  ASSUME IInv, OwnInv, NEW w \in Workers, NEW again, Proceed(w, again), calls[w].pc = "write",
         map' = map, now' = now, reused' = reused,
         NEW d \in StoredType, Timely(d.exp, now), data' = [data EXCEPT ![Head(calls[w].refs).slot] = d],
         calls[w].op = "clear" => ~ d.occupied
  PROVE  OwnInv'
<1> DEFINE c == calls[w]
<1>1. TypedInv /\ reused' \in BOOLEAN /\ Holds(c) /\ c.pc \in {"gap", "slot", "write"}
  BY DEF OwnInv, TypedInv, Holds
<1>2. PICK s \in Slots : s = Head(c.refs).slot
  BY <1>1, HeadOfRefs
<1>3. /\ data' \in [Slots -> StoredType] /\ data'[s] = d
      /\ \A x \in Slots : x # s => data'[x] = data[x]
  <2>1. data \in [Slots -> StoredType]
    BY <1>1 DEF TypedInv
  <2> QED
    BY <1>2, <2>1
<1>4. /\ OthersStay(w) /\ CallTyped(calls'[w], now) /\ calls'[w].pc # "write"
      /\ RefsKept(map, c) => RefsKept(map, calls'[w])
      /\ c.op = "clear" =>
           \A i \in DOMAIN c.refs : c.refs[i].slot # s =>
             /\ Holds(calls'[w]) /\ calls'[w].op = "clear"
             /\ \E j \in DOMAIN calls'[w].refs : calls'[w].refs[j].slot = c.refs[i].slot
  BY <1>1, <1>2, ProceedOwn
<1>5. TypedInv'
  <2>1. \A x \in Slots : Timely(data'[x].exp, now)
    BY <1>1, <1>3 DEF TypedInv
  <2> QED
    BY <1>1, <1>3, <1>4, <2>1, TypedMoved
<1>6. ASSUME ~ reused' PROVE Ordered'
  <2>1. Ordered /\ RefsKept(map, c) /\ RefsKept(map, calls'[w]) /\ WriteKept(c)
    BY <1>4, <1>6 DEF OwnInv, Ordered
  <2>2. ASSUME NEW x, ToWipe(x), c.op = "clear" => x # s PROVE ToWipe(x)'
    <3>1. Holds(c) /\ c.op = "clear" =>
            \A i \in DOMAIN c.refs : c.refs[i].slot = x =>
              /\ Holds(calls'[w]) /\ calls'[w].op = "clear"
              /\ \E j \in DOMAIN calls'[w].refs : calls'[w].refs[j].slot = x
      BY <1>4, <2>2
    <3> QED
      BY <1>4, <2>2, <3>1, ToWipeStays
  <2>3. ASSUME NEW x \in ToSet(map.free), data'[x].occupied PROVE ToWipe(x)'
    <3>1. x \in Slots /\ Kept(map)
      BY DEF IInv, Kept, Maps, ToSet
    <3>2. CASE x # s
      <4>1. data'[x] = data[x]
        BY <1>3, <3>1, <3>2
      <4>2. ToWipe(x)
        BY <2>1, <2>3, <4>1 DEF Ordered
      <4> QED
        BY <2>2, <3>2, <4>2
    <3>3. CASE x = s
      <4>1. c.op # "clear"
        BY <1>3, <2>3, <3>3
      <4>2. Current(Head(c.refs)) \/ ToWipe(s)
        BY <1>2, <2>1, <4>1 DEF WriteKept
      <4>3. ~ Current(Head(c.refs))
        <5> SUFFICES ASSUME Current(Head(c.refs)) PROVE FALSE
          OBVIOUS
        <5>1. PICK r \in RefType : r = Head(c.refs) /\ 1 \in DOMAIN c.refs /\ c.refs[1] = r
          BY <1>1, HeadOfRefs
        <5>2. RefHolds(map, r) /\ r.gen = map.gen[r.slot] /\ r.slot = s
          BY <1>1, <1>2, <2>1, <4>1, <5>1 DEF RefsKept, Current
        <5>3. Bucket(r.key, s) \in Entries(map.table) /\ Bucket(r.key, s).slot = s
          BY <5>2 DEF RefHolds, Bucket
        <5> QED
          BY <2>3, <3>1, <3>3, <5>3 DEF Kept
      <4> QED
        BY <2>2, <3>3, <4>1, <4>2, <4>3
    <3> QED
      BY <3>2, <3>3
  <2> QED
    BY <1>4, <2>1, <2>3, OrderedAtSlots
<1> QED
  BY <1>5, <1>6 DEF OwnInv

\* A call writes its slot.
Wrote(w) ==
  /\ At(w, "write") /\ map' = map
  /\ \E d : data' = [data EXCEPT ![Head(calls[w].refs).slot] = d]

\* What may be written.
LEMMA WrittenTyped ==
  ASSUME TypedInv, NEW w \in Workers, calls[w].pc = "write", NEW s \in Slots, NEW n \in Nat,
         NEW exp \in {calls[w].exp, data[s].exp}
  PROVE  LET d == [occupied |-> TRUE, value |-> n, exp |-> exp]
         IN  d \in StoredType /\ Timely(d.exp, now)
<1>1. CallTyped(calls[w], now) /\ data[s] \in StoredType /\ Timely(data[s].exp, now)
  BY DEF TypedInv
<1>2. Timely(exp, now) /\ exp \in Nat \cup {Forever}
  BY <1>1 DEF CallTyped, Timely
<1> QED
  BY <1>2 DEF StoredType

\* Writes and wipes.
LEMMA AccessOwn ==
  ASSUME IInv, OwnInv, NEW w \in Workers, Set(w) \/ Increment(w) \/ Expire(w) \/ Wipe(w)
  PROVE  OwnInv' /\ Wrote(w)
<1> DEFINE c == calls[w]
           s == Head(c.refs).slot
           d == data[s]
<1>1. /\ map' = map /\ now' = now /\ reused' = reused /\ TypedInv /\ c.pc = "write" /\ Holds(c)
      /\ Proceed(w, c.again)
  BY DEF Set, Increment, Expire, Wipe, Done, Access, At, OwnInv, Holds
<1>2. s \in Slots
  BY <1>1, HeadOfRefs
<1>3. d \in StoredType /\ CallTyped(c, now) /\ Timely(d.exp, now)
  BY <1>1, <1>2 DEF TypedInv
<1>4. Timely(c.exp, now) /\ c.exp \in Nat \cup {Forever}
  BY <1>1, <1>3 DEF CallTyped, Timely
<1>5. PICK x \in StoredType : Timely(x.exp, now) /\ data' = [data EXCEPT ![s] = x] /\ (c.op = "clear" => ~ x.occupied)
  <2>1. CASE Set(w)
    <3> DEFINE x == [occupied |-> TRUE, value |-> Text, exp |-> c.exp]
    <3>1. data' = [data EXCEPT ![s] = x] /\ c.op # "clear"
      BY <2>1 DEF Set, Access
    <3>2. x \in StoredType /\ Timely(x.exp, now)
      BY <1>4 DEF StoredType
    <3> QED
      BY <3>1, <3>2
  <2>2. CASE Increment(w)
    <3> DEFINE p == [occupied |-> TRUE, value |-> Number(d.value) + 1,
                     exp |-> IF d.exp = Forever THEN c.exp ELSE d.exp]
               q == [occupied |-> TRUE, value |-> 1, exp |-> c.exp]
    <3>1. c.op # "clear" /\ (data' = [data EXCEPT ![s] = p] \/ data' = [data EXCEPT ![s] = q])
      BY <2>2, Zenon DEF Increment, Access
    <3>2. PICK n \in Nat, exp \in {c.exp, d.exp} :
            n = Number(d.value) + 1 /\ exp = IF d.exp = Forever THEN c.exp ELSE d.exp
      <4>1. d.value \in Nat \cup {Text}
        BY <1>3 DEF StoredType
      <4>2. Number(d.value) + 1 \in Nat
        BY <4>1 DEF Number
      <4> QED
        BY <4>2
    <3>3. p = [occupied |-> TRUE, value |-> n, exp |-> exp]
      BY <3>2
    <3> HIDE DEF p, q, c, d, s
    <3>4. p \in StoredType /\ Timely(p.exp, now)
      BY <1>1, <1>2, <3>2, <3>3, WrittenTyped DEF c, d
    <3>5. q \in StoredType /\ Timely(q.exp, now)
      BY <1>1, <1>2, 1 \in Nat, WrittenTyped DEF q, c, d
    <3> QED
      BY <3>1, <3>4, <3>5
  <2>3. CASE Expire(w)
    <3> DEFINE x == [d EXCEPT !.exp = IF Alive(s, c.at) THEN c.exp ELSE d.exp]
    <3>1. data' = [data EXCEPT ![s] = x] /\ c.op # "clear"
      BY <2>3 DEF Expire, Access
    <3>2. x \in StoredType /\ Timely(x.exp, now)
      <4>1. PICK exp : exp = (IF Alive(s, c.at) THEN c.exp ELSE d.exp)
        OBVIOUS
      <4>2. exp \in Nat \cup {Forever} /\ Timely(exp, now)
        BY <1>3, <1>4, <4>1 DEF StoredType
      <4>3. x = [d EXCEPT !.exp = exp]
        BY <4>1
      <4> HIDE DEF x, d, s, c
      <4> QED
        BY <1>3, <4>2, <4>3 DEF StoredType
    <3> QED
      BY <3>1, <3>2, Zenon
  <2>4. CASE Wipe(w)
    <3>1. data' = [data EXCEPT ![s] = NoData]
      BY <2>4 DEF Wipe
    <3>2. NoData \in StoredType /\ Timely(NoData.exp, now) /\ ~ NoData.occupied
      BY DEF NoData, StoredType, Timely
    <3> QED
      BY <3>1, <3>2
  <2> QED
    BY <2>1, <2>2, <2>3, <2>4
<1>6. OwnInv'
  BY <1>1, <1>5, WriteOwn
<1>7. Wrote(w)
  BY <1>1, <1>5 DEF Wrote, At
<1> QED
  BY <1>6, <1>7, Zenon

\* Deletes and the cleaner, who takes only what has expired.
LEMMA BothOwn ==
  ASSUME IInv, GhostInv, OwnInv, NEW w \in Workers, Delete(w) \/ Reap(w), GenerationsRise(map, map')
  PROVE  /\ OwnInv' /\ Kept(map') /\ At(w, "both") /\ now' = now
         /\ \/ map' = map /\ data' = data
            \/ Unlinked(Head(calls[w].keys)) /\ (calls[w].op = "delete" \/ Seen(map, data, now, Head(calls[w].keys)) = Gone)
<1> DEFINE k == Head(calls[w].keys)
           x == Head(calls[w].refs).slot
           at == calls[w].at
           has == Has(map.table, k)
           fits == has /\ SlotOf(map.table, k) = x /\ data[x].occupied /\ ~Alive(x, at)
<1>1. (Unlink(w, k, has) /\ calls[w].op = "delete") \/ Unlink(w, k, fits)
  BY DEF Delete, Reap
<1>2. At(w, "both") /\ ~ At(w, "idle") /\ now' = now
  BY DEF Delete, Reap, Unlink, At
<1>3. calls[w].keys \in Seq(Keys) /\ calls[w].keys # <<>>
  BY <1>2, CallUnderWay DEF At
<1>4. k \in Keys
  BY <1>3
<1>5. has \in BOOLEAN /\ fits \in BOOLEAN /\ (fits => has)
  BY DEF Has
<1>6. ASSUME fits PROVE Seen(map, data, now, k) = Gone
  <2>1. x \in Slots
    <3>1. Kept(map) /\ has
      BY <1>6 DEF IInv
    <3>2. Ref(map, k) \in RefType
      BY <1>4, <3>1, RefOfKey
    <3>3. SlotOf(map.table, k) = x
      BY <1>6
    <3> QED
      BY <3>2, <3>3 DEF Ref, RefType
  <2>2. data[x].exp \in Nat \cup {Forever} /\ now \in Nat
    BY <2>1 DEF OwnInv, TypedInv, StoredType
  <2>3. at \in Nat /\ at <= now
    BY <1>2 DEF OwnInv, TypedInv, CallTyped, At
  <2>4. data[x].occupied /\ ~ Lives(data[x].exp, at)
    BY <1>6 DEF Alive
  <2>5. ~ Lives(data[x].exp, now)
    BY <2>2, <2>3, <2>4 DEF Lives
  <2> QED
    BY <1>6, <2>5 DEF Seen, Shown
<1> HIDE DEF fits, k, has
<1>7. PICK does \in BOOLEAN : /\ Unlink(w, k, does) /\ (does => Has(map.table, k))
                              /\ does => calls[w].op = "delete" \/ Seen(map, data, now, k) = Gone
  BY <1>1, <1>5, <1>6 DEF has
<1>8. OwnInv' /\ Kept(map') /\ (does => Unlinked(k)) /\ (~ does => map' = map /\ data' = data)
  BY <1>4, <1>7, UnlinkOwn
<1> QED
  BY <1>2, <1>7, <1>8 DEF k

----------------------------------------------------------------------------
(* Steps and what readers find. *)

\* A reader finds the same for a key that keeps its slot and what it shows, and for one
\* that has got an empty slot or lost one.
LEMMA SeenEqual ==
  ASSUME NEW m, Kept(m), NEW n, Kept(n), NEW d, NEW x, NEW at, NEW k \in Keys,
         \A e \in Entries(m.table) : e.key = k =>
           \/ e \in Entries(n.table) /\ Shown(x[e.slot], at) = Shown(d[e.slot], at)
           \/ Shown(d[e.slot], at) = Gone /\ \A f \in Entries(n.table) : f.key # k,
         \A e \in Entries(n.table) : e.key = k => e \in Entries(m.table) \/ Shown(x[e.slot], at) = Gone
  PROVE  Seen(n, x, at, k) = Seen(m, d, at, k)
<1>1. /\ \A e \in Entries(m.table) : Seen(m, d, at, e.key) = Shown(d[e.slot], at)
      /\ (\A e \in Entries(m.table) : e.key # k) => Seen(m, d, at, k) = Gone
  BY ONLY Kept(m), k \in Keys, SeenInSlot
<1>2. /\ \A e \in Entries(n.table) : Seen(n, x, at, e.key) = Shown(x[e.slot], at)
      /\ (\A e \in Entries(n.table) : e.key # k) => Seen(n, x, at, k) = Gone
      /\ \A e, f \in Entries(n.table) : e.key = f.key => e = f
  BY ONLY Kept(n), k \in Keys, SeenInSlot, EntryFound
<1>3. CASE \E e \in Entries(m.table) : e.key = k
  <2>1. PICK e \in Entries(m.table) : e.key = k
    BY <1>3
  <2> QED
    BY <1>1, <1>2, <2>1
<1>4. CASE \A e \in Entries(m.table) : e.key # k
  BY <1>1, <1>2, <1>4
<1> QED
  BY <1>3, <1>4

\* Who may change what is visible under a key.
Touches(w, k) ==
  \/ At(w, "write") /\ Head(calls[w].refs).key = k /\ calls[w].op \in {"set", "increment", "expire"}
  \/ At(w, "both") /\ calls[w].op = "delete" /\ Head(calls[w].keys) = k
  \/ At(w, "map") /\ calls[w].op = "clear" /\ k \in Owned

\* What a reader finds stays as it is.
SeenStays(k) == Seen(map', data', now, k) = Seen(map, data, now, k)

\* What a reader finds stays while no time passes.
LEMMA VisibleStays ==
  ASSUME now' = now, NEW k
  PROVE  /\ SeenStays(k) => Visible(k)' = Visible(k)
         /\ Seen(map', data', now, k) = Gone => Visible(k)' = Gone
BY VisibleSeen DEF SeenStays

\* A key that gets a slot finds no data in it.
LEMMA AssignShows ==
  ASSUME IInv, GhostInv, OwnInv, NEW w \in Workers, Assign(w), GenerationsRise(map, map'), ~ reused', NEW k \in Keys
  PROVE  SeenStays(k)
<1>1. /\ data' = data /\ Assigning(map, calls[w].keys, map') /\ Kept(map') /\ Kept(map)
      /\ \A s \in ToSet(map.free) : ToWipe(s) => s \in ToSet(map'.free)
  BY AssignOwn DEF IInv
<1>2. Ordered
  BY DEF Assign, OwnInv
<1>3. Entries(map.table) \subseteq Entries(map'.table) /\ \A e \in Entries(map'.table) : e \in Entries(map.table) \/ e.slot \in ToSet(map.free)
  BY <1>1 DEF Assigning, Grown
<1>4. ASSUME NEW e \in Entries(map'.table), e \notin Entries(map.table) PROVE Shown(data[e.slot], now) = Gone
  <2>1. e.slot \in ToSet(map.free) /\ e.slot \notin ToSet(map'.free)
    BY <1>1, <1>3, <1>4 DEF Kept
  <2>2. ~ data[e.slot].occupied
    BY <1>1, <1>2, <2>1 DEF Ordered
  <2> QED
    BY <2>2 DEF Shown
<1>5. PICK m, n : m = map /\ n = map'
  OBVIOUS
<1>6. Seen(n, data, now, k) = Seen(m, data, now, k)
  <2>1. Kept(m) /\ Kept(n)
    BY <1>1, <1>5
  <2>2. \A e \in Entries(m.table) : e \in Entries(n.table)
    BY <1>3, <1>5
  <2>3. \A e \in Entries(n.table) : e \in Entries(m.table) \/ Shown(data[e.slot], now) = Gone
    BY <1>4, <1>5
  <2> QED
    BY <2>1, <2>2, <2>3, SeenEqual
<1> QED
  BY <1>1, <1>5, <1>6 DEF SeenStays

\* A clear takes its own keys away, and no others.
LEMMA ClearShows ==
  ASSUME IInv, GhostInv, OwnInv, NEW w \in Workers, ClearMap(w), GenerationsRise(map, map'), NEW k \in Keys
  PROVE  SeenStays(k) \/ (k \in Owned /\ Seen(map', data', now, k) = Gone)
<1>1. data' = data /\ Clearing(map, map', Capacity) /\ Kept(map)
  BY ClearOwn DEF IInv
<1>2. PICK m, n : m = map /\ n = map'
  OBVIOUS
<1>3. /\ Kept(m) /\ Kept(n)
      /\ \A e \in Entries(m.table) : e.key \notin Owned => e \in Entries(n.table)
      /\ \A e \in Entries(n.table) : e \in Entries(m.table)
  BY <1>1, <1>2 DEF Clearing
<1>4. CASE \A e \in Entries(m.table) : e.key = k => e \in Entries(n.table)
  <2>1. Seen(n, data, now, k) = Seen(m, data, now, k)
    BY <1>3, <1>4, SeenEqual
  <2> QED
    BY <1>1, <1>2, <2>1 DEF SeenStays
<1>5. CASE \E e \in Entries(m.table) : e.key = k /\ e \notin Entries(n.table)
  <2>1. k \in Owned /\ \A f \in Entries(n.table) : f.key # k
    BY <1>3, <1>5, EntryFound
  <2>2. Seen(n, data, now, k) = Gone
    <3>1. Kept(n)
      BY <1>3
    <3>2. \A j \in Keys : (\A f \in Entries(n.table) : f.key # j) => Seen(n, data, now, j) = Gone
      BY ONLY <3>1, SeenInSlot, Zenon
    <3> QED
      BY <2>1, <3>2
  <2> QED
    BY <1>1, <1>2, <2>1, <2>2
<1> QED
  BY <1>4, <1>5

\* Who takes a key out of the table takes that key away, and no other.
LEMMA UnlinkShows ==
  ASSUME IInv, Kept(map'), TypedInv, NEW j, Unlinked(j), NEW k \in Keys
  PROVE  IF k = j THEN Seen(map', data', now, k) = Gone ELSE SeenStays(k)
<1>1. PICK m, n, d, x : m = map /\ n = map' /\ d = data /\ x = data'
  OBVIOUS
<1>2. Kept(m) /\ Kept(n)
  BY <1>1 DEF IInv
<1>3. PICK e \in Entries(m.table) : e.key = j /\ Entries(n.table) = Entries(m.table) \ {e} /\ x = [d EXCEPT ![e.slot] = NoData]
  BY <1>1 DEF Unlinked
<1>4. CASE k = j
  <2>1. \A f \in Entries(n.table) : f.key # k
    BY <1>2, <1>3, <1>4, EntryFound
  <2>2. Seen(n, x, now, k) = Gone
    BY <1>2, <2>1, SeenInSlot
  <2> QED
    BY <1>1, <1>4, <2>2
<1>5. CASE k # j
  <2>1. \A f \in Entries(n.table) : f \in Entries(m.table) /\ f.slot \in Slots /\ f.slot # e.slot
    BY <1>2, <1>3 DEF Kept
  <2>2. \A s \in Slots : s # e.slot => x[s] = d[s]
    BY <1>1, <1>3 DEF TypedInv
  <2>3. \A f \in Entries(m.table) : f.key = k => f \in Entries(n.table)
    BY <1>3, <1>5
  <2>4. \A f \in Entries(m.table) : f.key = k => f \in Entries(n.table) /\ Shown(x[f.slot], now) = Shown(d[f.slot], now)
    BY <2>1, <2>2, <2>3
  <2>5. Seen(n, x, now, k) = Seen(m, d, now, k)
    BY <1>2, <2>1, <2>4, SeenEqual
  <2> QED
    BY <1>1, <1>5, <2>5 DEF SeenStays
<1> QED
  BY <1>4, <1>5

\* The slot of a key that a call writes to.
Writes(w, k) ==
  /\ At(w, "write") /\ calls[w].op # "clear" /\ Head(calls[w].refs).key = k
  /\ Bucket(k, Head(calls[w].refs).slot) \in Entries(map.table)

\* What a call writes shows under its own key if at all, and what a clear wipes shows
\* nowhere.
LEMMA WriteShows ==
  ASSUME IInv, TypedInv, Ordered, NEW w \in Workers, Wrote(w), NEW k \in Keys
  PROVE  SeenStays(k) \/ Writes(w, k)
<1> DEFINE c == calls[w]
<1>1. Holds(c) /\ c.pc = "write" /\ map' = map /\ Kept(map) /\ RefsKept(map, c) /\ WriteKept(c)
  BY DEF Wrote, Holds, At, IInv, Ordered
<1>2. PICK r \in RefType : r = Head(c.refs) /\ 1 \in DOMAIN c.refs /\ c.refs[1] = r /\ r.slot \in Slots
  BY <1>1, HeadOfRefs
<1>3. PICK d : data' = [data EXCEPT ![r.slot] = d]
  BY <1>2 DEF Wrote
<1>4. \A s \in Slots : s # r.slot => data'[s] = data[s]
  BY <1>3 DEF TypedInv
<1>5. ASSUME ~ Writes(w, k), NEW e \in Entries(map.table), e.key = k PROVE e.slot # r.slot
  <2> SUFFICES ASSUME e.slot = r.slot PROVE FALSE
    OBVIOUS
  <2>1. r.slot \notin ToSet(map.free)
    BY <1>1 DEF Kept
  <2>2. ~ ToWipe(r.slot)
    <3> SUFFICES ASSUME ToWipe(r.slot) PROVE FALSE
      OBVIOUS
    <3>1. PICK v \in Workers : /\ Holds(calls[v]) /\ calls[v].op = "clear"
                               /\ \E i \in DOMAIN calls[v].refs : calls[v].refs[i].slot = r.slot
      BY DEF ToWipe
    <3> QED
      BY <2>1, <3>1 DEF Ordered, RefsKept, FreeRef
  <2>3. c.op # "clear"
    BY <1>1, <1>2, <2>1 DEF RefsKept, FreeRef
  <2>4. Current(r)
    BY <1>1, <1>2, <2>2, <2>3, Zenon DEF WriteKept
  <2>5. Bucket(r.key, r.slot) \in Entries(map.table) /\ Bucket(r.key, r.slot).slot = r.slot /\ Bucket(r.key, r.slot).key = r.key
    BY <1>1, <1>2, <2>3, <2>4 DEF RefsKept, RefHolds, Current, Bucket
  <2>6. e = Bucket(r.key, r.slot)
    BY <1>1, <2>5 DEF Kept
  <2> QED
    BY <1>1, <1>2, <1>5, <2>3, <2>5, <2>6 DEF Writes, At
<1>6. ASSUME ~ Writes(w, k) PROVE SeenStays(k)
  <2>1. PICK m, x, y : m = map /\ x = data /\ y = data'
    OBVIOUS
  <2>2. \A e \in Entries(m.table) : e.key = k => e \in Entries(m.table) /\ Shown(y[e.slot], now) = Shown(x[e.slot], now)
    BY <1>1, <1>4, <1>5, <1>6, <2>1 DEF Kept
  <2>3. Kept(m)
    BY <1>1, <2>1
  <2>4. Seen(m, y, now, k) = Seen(m, x, now, k)
    BY <2>2, <2>3, SeenEqual
  <2> QED
    BY <1>1, <2>1, <2>4 DEF SeenStays
<1> QED
  BY <1>6

\* Every step keeps the invariant, and what it changes for readers it may change.
LEMMA StepOwn ==
  ASSUME IInv, GhostInv, OwnInv, NEW w \in Workers, Begin(w) \/ BeginDelete(w) \/ Sample(w) \/ Step(w),
         GenerationsRise(map, map')
  PROVE  /\ OwnInv'
         /\ ~ reused' => \A k \in Keys : now' = now /\ (SeenStays(k) \/ Touches(w, k))
<1>1. CASE Begin(w) \/ BeginDelete(w) \/ Sample(w) \/ EnterMap(w) \/ EnterSlots(w)
  <2>1. now' = now
    BY <1>1 DEF Begin, BeginDelete, Sample, EnterMap, EnterSlots
  <2>2. OwnInv' /\ map' = map /\ data' = data
    BY <1>1, BeginOwn
  <2> QED
    BY <2>1, <2>2 DEF SeenStays
<1>2. CASE Find(w)
  <2>1. now' = now
    BY <1>2 DEF Find, LeaveMap
  <2>2. OwnInv' /\ map' = map /\ data' = data
    BY <1>2, FindOwn
  <2> QED
    BY <2>1, <2>2 DEF SeenStays
<1>3. CASE Assign(w)
  <2>1. now' = now
    BY <1>3 DEF Assign, LeaveMap
  <2>2. OwnInv'
    BY <1>3, AssignOwn
  <2>3. ~ reused' => \A k \in Keys : SeenStays(k)
    BY <1>3, AssignShows
  <2> QED
    BY <2>1, <2>2, <2>3
<1>4. CASE ClearMap(w)
  <2>1. now' = now /\ At(w, "map") /\ calls[w].op = "clear"
    BY <1>4 DEF ClearMap, LeaveMap
  <2>2. OwnInv'
    BY <1>4, ClearOwn
  <2>3. \A k \in Keys : SeenStays(k) \/ k \in Owned
    BY <1>4, ClearShows
  <2> QED
    BY <2>1, <2>2, <2>3 DEF Touches
<1>5. CASE Fresh(w) \/ Stale(w) \/ Get(w) \/ SetTooLarge(w)
  <2>1. now' = now
    BY <1>5 DEF Fresh, Stale, Get, SetTooLarge, Done
  <2>2. OwnInv' /\ map' = map /\ data' = data
    BY <1>5, LookOwn
  <2> QED
    BY <2>1, <2>2 DEF SeenStays
<1>6. CASE Set(w) \/ Increment(w) \/ Expire(w) \/ Wipe(w)
  <2>1. now' = now /\ reused' = reused /\ (calls[w].op # "clear" => calls[w].op \in {"set", "increment", "expire"})
    BY <1>6 DEF Set, Increment, Expire, Wipe, Done, Access
  <2>2. OwnInv' /\ Wrote(w)
    BY <1>6, AccessOwn
  <2>3. ASSUME ~ reused', NEW k \in Keys PROVE SeenStays(k) \/ Writes(w, k)
    BY <2>1, <2>2, <2>3, WriteShows DEF OwnInv
  <2> QED
    BY <2>1, <2>2, <2>3, Zenon DEF Touches, Writes
<1>7. CASE Delete(w) \/ Reap(w)
  <2> DEFINE j == Head(calls[w].keys)
  <2>1. /\ OwnInv' /\ Kept(map') /\ At(w, "both") /\ now' = now
        /\ \/ map' = map /\ data' = data
           \/ Unlinked(j) /\ (calls[w].op = "delete" \/ Seen(map, data, now, j) = Gone)
    BY <1>7, BothOwn
  <2>2. ASSUME NEW k \in Keys PROVE SeenStays(k) \/ Touches(w, k)
    <3>1. CASE map' = map /\ data' = data
      BY <3>1 DEF SeenStays
    <3>2. CASE Unlinked(j) /\ (calls[w].op = "delete" \/ Seen(map, data, now, j) = Gone)
      <4>1. IF k = j THEN Seen(map', data', now, k) = Gone ELSE SeenStays(k)
        BY <2>1, <3>2, UnlinkShows DEF OwnInv
      <4> QED
        BY <2>1, <3>2, <4>1 DEF SeenStays, Touches
    <3> QED
      BY <2>1, <3>1, <3>2
  <2> QED
    BY <2>1, <2>2
<1> QED
  BY <1>1, <1>2, <1>3, <1>4, <1>5, <1>6, <1>7 DEF Step

\* The invariant holds at first.
LEMMA InitOwn ==
  ASSUME Init, IInv, GhostInv
  PROVE  OwnInv
<1>1. /\ data = [s \in Slots |-> NoData] /\ now = 0 /\ reused = FALSE /\ \A w \in Workers : calls[w] = Idle
  BY DEF Init
<1>2. NoData \in StoredType /\ Timely(NoData.exp, now) /\ ~ NoData.occupied
  BY DEF NoData, StoredType, Timely
<1>3. \A w \in Workers : CallTyped(calls[w], now) /\ RefsKept(map, calls[w]) /\ WriteKept(calls[w])
  BY <1>1 DEF CallTyped, Holds, RefsKept, Recalls, WriteKept, Idle
<1>4. TypedInv
  BY <1>1, <1>2, <1>3 DEF TypedInv
<1>5. \A s \in ToSet(map.free) : s \in Slots
  BY DEF IInv, Kept, Maps, ToSet
<1>6. Ordered
  BY <1>1, <1>2, <1>3, <1>5 DEF Ordered
<1> QED
  BY <1>4, <1>6 DEF OwnInv

\* What calls may write depends on the map, the data and the calls alone.
LEMMA OrderedStill ==
  ASSUME map' = map, data' = data, calls' = calls
  PROVE  Ordered => Ordered'
<1>1. \A w \in Workers : RefsKept(map', calls'[w]) <=> RefsKept(map, calls[w])
  OBVIOUS
<1>2. \A w \in Workers : WriteKept(calls[w])' <=> WriteKept(calls[w])
  BY DEF WriteKept, Current, ToWipe
<1>3. \A s : s \in ToSet(map.free) /\ data[s].occupied => (ToWipe(s)' <=> ToWipe(s))
  BY DEF ToWipe
<1> QED
  BY <1>1, <1>2, <1>3 DEF Ordered

\* Time passes.
LEMMA TickOwn ==
  ASSUME OwnInv, Tick
  PROVE  OwnInv' /\ now' = now + 1
<1>1. map' = map /\ data' = data /\ calls' = calls /\ reused' = reused /\ now' = now + 1 /\ now \in Nat
  BY DEF Tick, OwnInv, TypedInv
<1>2. \A exp : Timely(exp, now) => Timely(exp, now')
  BY <1>1 DEF Timely
<1>3. \A w \in Workers : CallTyped(calls[w], now) => CallTyped(calls[w], now')
  <2> TAKE w \in Workers
  <2> SUFFICES ASSUME CallTyped(calls[w], now) PROVE CallTyped(calls[w], now')
    OBVIOUS
  <2>1. calls[w].at \in Nat /\ calls[w].at <= now => calls[w].at <= now'
    BY <1>1
  <2> QED
    BY <1>2, <2>1 DEF CallTyped
<1>4. TypedInv'
  BY <1>1, <1>2, <1>3 DEF OwnInv, TypedInv
<1>5. Ordered => Ordered'
  BY <1>1, OrderedStill
<1> QED
  BY <1>1, <1>4, <1>5 DEF OwnInv

\* No slot's generation comes round while the shard is in use.
NeverWraps == [][GenerationsRise(map, map')]_vars

\* Every step keeps the invariant for what calls write.
LEMMA OwnInvInductive ==
  ASSUME IInv, GhostInv, OwnInv, [Next]_vars, [GenerationsRise(map, map')]_vars
  PROVE  OwnInv'
<1>1. CASE UNCHANGED vars
  <2>1. map' = map /\ data' = data /\ calls' = calls /\ reused' = reused /\ now' = now
    BY <1>1 DEF vars
  <2> QED
    BY <2>1, OrderedStill DEF OwnInv, TypedInv
<1>2. CASE Tick
  BY <1>2, TickOwn
<1>3. ASSUME NEW w \in Workers, Begin(w) \/ BeginDelete(w) \/ Sample(w) \/ Step(w), ~ UNCHANGED vars
      PROVE  OwnInv'
  <2>1. GenerationsRise(map, map')
    BY <1>3
  <2> QED
    BY <1>3, <2>1, StepOwn
<1> QED
  BY <1>1, <1>2, <1>3, Zenon DEF Next

\* What is visible under a key changes by a call on that key, in the step in which it writes
\* or takes the key away, as long as no generation comes round and no slot is allocated before
\* the clear that freed it has wiped it (_set, _increment, _expire, _clear, _delete).
THEOREM WritesAreOwn == Spec /\ NeverWraps => OnlyOwnWrites
<1> DEFINE Invs == IInv /\ GhostInv /\ OwnInv
           Rises == [GenerationsRise(map, map')]_vars
           Acts == UNCHANGED <<map, data>> \/ reused' \/ now' # now \/ \A k \in Keys :
                     Visible(k)' # Visible(k) =>
                       \E w \in Workers :
                         \/ At(w, "write") /\ Head(calls[w].refs).key = k /\ calls[w].op \in {"set", "increment", "expire"}
                         \/ At(w, "both") /\ calls[w].op = "delete" /\ Head(calls[w].keys) = k
                         \/ At(w, "map") /\ calls[w].op = "clear" /\ k \in Owned
<1>1. Init => Invs
  BY IInvInductive, GhostsInductive, InitOwn
<1>2. Invs /\ [Next]_vars /\ Rises => [Acts]_vars
  <2> SUFFICES ASSUME Invs, [Next]_vars, Rises, ~ UNCHANGED vars PROVE Acts
    OBVIOUS
  <2>1. CASE Tick
    <3>1. now' = now + 1 /\ now \in Nat
      BY <2>1 DEF Tick, OwnInv, TypedInv
    <3> QED
      BY <3>1
  <2>2. ASSUME NEW w \in Workers, Begin(w) \/ BeginDelete(w) \/ Sample(w) \/ Step(w) PROVE Acts
    <3>1. ~ reused' => \A k \in Keys : now' = now /\ (SeenStays(k) \/ Touches(w, k))
      BY <2>2, StepOwn
    <3> SUFFICES ASSUME ~ reused', NEW k \in Keys, Visible(k)' # Visible(k) PROVE Touches(w, k)
      BY DEF Touches
    <3> QED
      BY <3>1, VisibleStays
  <2> QED
    BY <2>1, <2>2 DEF Next
<1>3. Invs /\ [Next]_vars /\ Rises => Invs'
  BY IInvInductive, GhostsInductive, OwnInvInductive
<1> QED
  BY <1>1, <1>2, <1>3, PTL DEF Spec, NeverWraps, OnlyOwnWrites

----------------------------------------------------------------------------
(* The map that the shard promises. *)

\* What a slot shows is an entry, unless it is nothing.
LEMMA ShownIs ==
  ASSUME NEW d \in StoredType, NEW at
  PROVE  /\ Shown(d, at) = Gone <=> ~ (d.occupied /\ Lives(d.exp, at))
         /\ d.occupied /\ Lives(d.exp, at) =>
              /\ Shown(d, at) = Table!Entry(d.value, d.exp)
              /\ Shown(d, at).value = d.value /\ Shown(d, at).exp = d.exp
<1> DEFINE e == [value |-> d.value, exp |-> d.exp]
<1>1. d.value \in Int \cup {Text} /\ d.exp \in Int \cup {Forever}
  BY DEF StoredType
<1>2. e # Gone
  BY <1>1, ValuesAssumption
<1> QED
  BY <1>2 DEF Shown, Table!Entry

\* What a reader finds for a key is what its slot shows.
LEMMA SeenOfEntry ==
  ASSUME NEW m, Kept(m), NEW e \in Entries(m.table), NEW k, e.key = k, NEW d, NEW at
  PROVE  Seen(m, d, at, k) = Shown(d[e.slot], at)
<1>1. Seen(m, d, at, e.key) = Shown(d[e.slot], at)
  BY SeenInSlot
<1> QED
  BY <1>1

\* A step that shows nothing.
LEMMA QuietMaps ==
  ASSUME now' = now, \A k \in Keys : Visible(k)' = Visible(k)
  PROVE  UNCHANGED Table!mapVars
BY DEF Table!mapVars

\* Keys are taken away.
LEMMA RemoveMaps ==
  ASSUME now' = now, \A k \in Keys : Visible(k)' \in {Visible(k), Gone}
  PROVE  Table!Next
BY DEF Table!Next, Table!Remove

\* Time passes.
LEMMA TickMaps ==
  ASSUME IInv, OwnInv, Tick
  PROVE  Table!Next
<1>1. map' = map /\ data' = data /\ now' = now + 1 /\ now \in Nat /\ TypedInv /\ Kept(map)
  BY DEF Tick, OwnInv, TypedInv, IInv
<1>2. ASSUME NEW k \in Keys
      PROVE  Visible(k)' = IF Visible(k) # Gone /\ Table!Lives(Visible(k), now + 1) THEN Visible(k) ELSE Gone
  <2>1. Visible(k) = Seen(map, data, now, k) /\ Visible(k)' = Seen(map, data, now + 1, k)
    BY <1>1, VisibleSeen
  <2>2. CASE \A e \in Entries(map.table) : e.key # k
    <3>1. Seen(map, data, now, k) = Gone /\ Seen(map, data, now + 1, k) = Gone
      BY <1>1, <2>2, SeenInSlot
    <3> QED
      BY <2>1, <3>1
  <2>3. ASSUME NEW e \in Entries(map.table), e.key = k
        PROVE  Visible(k)' = IF Visible(k) # Gone /\ Table!Lives(Visible(k), now + 1) THEN Visible(k) ELSE Gone
    <3>1. PICK d : d = data[e.slot]
      OBVIOUS
    <3>2. d \in StoredType /\ Seen(map, data, now, k) = Shown(d, now) /\ Seen(map, data, now + 1, k) = Shown(d, now + 1)
      <4>1. e.slot \in Slots
        BY <1>1 DEF Kept
      <4>2. d \in StoredType
        BY <1>1, <3>1, <4>1 DEF TypedInv
      <4>3. Seen(map, data, now, k) = Shown(d, now)
        BY <1>1, <2>3, <3>1, SeenOfEntry
      <4>4. Seen(map, data, now + 1, k) = Shown(d, now + 1)
        BY <1>1, <2>3, <3>1, SeenOfEntry
      <4> QED
        BY <4>2, <4>3, <4>4
    <3>3. Lives(d.exp, now + 1) => Lives(d.exp, now)
      <4>1. d.exp \in Nat \cup {Forever}
        BY <3>2 DEF StoredType
      <4> QED
        BY <1>1, <4>1 DEF Lives
    <3>4. d.occupied /\ Lives(d.exp, now) => (Table!Lives(Shown(d, now), now + 1) <=> Lives(d.exp, now + 1))
      BY <3>2, ShownIs DEF Table!Lives, Lives
    <3> QED
      BY <2>1, <3>2, <3>3, <3>4, ShownIs
  <2> QED
    BY <2>2, <2>3
<1>3. [k \in Keys |-> Visible(k)]' =
        [k \in Keys |-> IF [j \in Keys |-> Visible(j)][k] # Gone /\ Table!Lives([j \in Keys |-> Visible(j)][k], now + 1)
                        THEN [j \in Keys |-> Visible(j)][k] ELSE Gone]
  BY <1>2
<1> QED
  BY <1>1, <1>3 DEF Table!Next, Table!Tick

\* A write shows under one key at most.
ShowsOne(k, s) ==
  /\ Visible(k) = Shown(data[s], now) /\ Visible(k)' = Shown(data'[s], now)
  /\ \A j \in Keys : j # k => Visible(j)' = Visible(j)

LEMMA WriteShowsOne ==
  ASSUME IInv, TypedInv, Ordered, NEW w \in Workers, Wrote(w), now' = now, ~ UNCHANGED Table!mapVars
  PROVE  LET s == Head(calls[w].refs).slot
         IN  s \in Slots /\ calls[w].op # "clear" /\ \E k \in Keys : ShowsOne(k, s)
<1> DEFINE s == Head(calls[w].refs).slot
<1>1. s \in Slots /\ map' = map /\ Kept(map)
  BY HeadOfRefs DEF Wrote, At, Holds, IInv
<1>2. PICK k \in Keys : Visible(k)' # Visible(k)
  BY QuietMaps
<1>3. ~ SeenStays(k)
  BY <1>2, VisibleStays
<1>4. Writes(w, k) /\ Bucket(k, s) \in Entries(map.table)
  BY <1>3, WriteShows DEF Writes
<1>5. \A j \in Keys : j # k => Visible(j)' = Visible(j)
  <2> TAKE j \in Keys
  <2> SUFFICES ASSUME j # k PROVE Visible(j)' = Visible(j)
    OBVIOUS
  <2>1. ~ Writes(w, j)
    BY <1>4 DEF Writes
  <2>2. SeenStays(j)
    BY <2>1, WriteShows
  <2> QED
    BY <2>2, VisibleStays
<1>6. Bucket(k, s).key = k /\ Bucket(k, s).slot = s
  BY DEF Bucket
<1>7. Visible(k) = Shown(data[s], now) /\ Visible(k)' = Shown(data'[s], now)
  <2>1. \A d : Seen(map, d, now, k) = Shown(d[s], now)
    <3> TAKE d
    <3>1. PICK e \in Entries(map.table) : e.key = k /\ e.slot = s
      BY <1>4, <1>6
    <3>2. Seen(map, d, now, k) = Shown(d[e.slot], now)
      BY <1>1, <3>1, SeenOfEntry
    <3> QED
      BY <3>1, <3>2
  <2>2. Visible(k) = Seen(map, data, now, k) /\ Visible(k)' = Seen(map', data', now', k)
    BY VisibleSeen
  <2> QED
    BY <1>1, <2>1, <2>2
<1>8. ShowsOne(k, s) /\ calls[w].op # "clear"
  BY <1>4, <1>5, <1>7 DEF ShowsOne, Writes
<1> QED
  BY <1>1, <1>8

\* One key that is written shows what is written, or goes.
LEMMA OnePut ==
  ASSUME NEW k \in Keys, NEW s, ShowsOne(k, s), now' = now, NEW d \in StoredType, data'[s] = d
  PROVE  IF d.occupied /\ Lives(d.exp, now) THEN Table!Puts(k, Table!Entry(d.value, d.exp)) ELSE Table!Next
<1>1. /\ d.occupied /\ Lives(d.exp, now) => Visible(k)' = Table!Entry(d.value, d.exp)
      /\ ~ (d.occupied /\ Lives(d.exp, now)) => Visible(k)' = Gone
  BY ShownIs DEF ShowsOne
<1>2. CASE d.occupied /\ Lives(d.exp, now)
  <2>1. \A j \in Keys : Visible(j)' = IF j = k THEN Table!Entry(d.value, d.exp) ELSE Visible(j)
    BY <1>1, <1>2 DEF ShowsOne
  <2> QED
    BY <1>2, <2>1 DEF Table!Puts
<1>3. CASE ~ (d.occupied /\ Lives(d.exp, now))
  <2>1. \A j \in Keys : Visible(j)' \in {Visible(j), Gone}
    BY <1>1, <1>3 DEF ShowsOne
  <2> QED
    BY <1>3, <2>1, RemoveMaps
<1> QED
  BY <1>2, <1>3

\* What may be written and has not expired has an expiry that the promise knows.
LEMMA ExpiryKnown ==
  ASSUME NEW exp, exp \in Nat \cup {Forever}, Timely(exp, now), Lives(exp, now), now \in Nat
  PROVE  exp \in Table!Expiries
BY DEF Timely, Lives, Table!Expiries

\* Text that is written.
LEMMA SetMaps ==
  ASSUME NEW k \in Keys, NEW s, ShowsOne(k, s), now' = now, now \in Nat,
         NEW exp \in Nat \cup {Forever}, Timely(exp, now), data'[s] = [occupied |-> TRUE, value |-> Text, exp |-> exp]
  PROVE  Table!Next
<1> DEFINE d == [occupied |-> TRUE, value |-> Text, exp |-> exp]
<1>1. d \in StoredType /\ d.occupied /\ d.value = Text /\ d.exp = exp
  BY DEF StoredType
<1> HIDE DEF d
<1>2. IF d.occupied /\ Lives(d.exp, now) THEN Table!Puts(k, Table!Entry(d.value, d.exp)) ELSE Table!Next
  BY <1>1, OnePut DEF d
<1>3. CASE Lives(exp, now)
  <2>1. exp \in Table!Expiries
    BY <1>3, ExpiryKnown
  <2>2. Text \in Table!Values \ (0 .. MaxCalls)
    BY ValuesAssumption DEF Table!Values
  <2>3. Table!Puts(k, Table!Entry(Text, exp))
    BY <1>1, <1>2, <1>3
  <2>4. Table!Set(Text, exp)
    BY <2>3 DEF Table!Puts, Table!Set
  <2> QED
    BY <2>1, <2>2, <2>4 DEF Table!Next
<1> QED
  BY <1>1, <1>2, <1>3

\* An expiry that is given to what has not expired.
LEMMA ExpireMaps ==
  ASSUME NEW k \in Keys, NEW s, ShowsOne(k, s), now' = now, now \in Nat,
         NEW d \in StoredType, data[s] = d, d.occupied, Lives(d.exp, now),
         NEW exp \in Nat \cup {Forever}, Timely(exp, now), data'[s] = [d EXCEPT !.exp = exp]
  PROVE  Table!Next
<1>1. PICK n \in StoredType : n = data'[s] /\ n.occupied /\ n.value = d.value /\ n.exp = exp
  BY DEF StoredType
<1>2. IF n.occupied /\ Lives(n.exp, now) THEN Table!Puts(k, Table!Entry(n.value, n.exp)) ELSE Table!Next
  BY <1>1, OnePut
<1>3. CASE Lives(exp, now)
  <2>1. exp \in Table!Expiries
    BY <1>3, ExpiryKnown
  <2>2. Visible(k) # Gone /\ Visible(k).value = d.value
    BY ShownIs DEF ShowsOne
  <2>3. Table!Puts(k, Table!Entry(d.value, exp))
    BY <1>1, <1>2, <1>3
  <2>4. [j \in Keys |-> Visible(j)][k] = Visible(k)
    OBVIOUS
  <2>5. Table!Expire(k, exp)
    BY <2>2, <2>3, <2>4 DEF Table!Expire
  <2> QED
    BY <2>1, <2>5 DEF Table!Next
<1> QED
  BY <1>1, <1>2, <1>3

\* A counter that is incremented.
LEMMA IncrementMaps ==
  ASSUME NEW k \in Keys, NEW s, ShowsOne(k, s), now' = now, now \in Nat,
         NEW d \in StoredType, data[s] = d, Timely(d.exp, now), NEW at \in Nat, at <= now,
         NEW exp \in Nat \cup {Forever}, Timely(exp, now),
         data'[s] = IF d.occupied /\ Lives(d.exp, at)
                    THEN [occupied |-> TRUE, value |-> Number(d.value) + 1, exp |-> IF d.exp = Forever THEN exp ELSE d.exp]
                    ELSE [occupied |-> TRUE, value |-> 1, exp |-> exp]
  PROVE  Table!Next
<1>1. d.value \in Nat \cup {Text} /\ d.exp \in Nat \cup {Forever} /\ d.occupied \in BOOLEAN
  BY DEF StoredType
<1>2. PICK m \in Nat, x \in Nat \cup {Forever} :
        /\ m = Number(d.value) + 1 /\ m = Table!Number(d.value) + 1
        /\ x = IF d.exp = Forever THEN exp ELSE d.exp
  BY <1>1 DEF Number, Table!Number
<1>3. d.exp # Forever /\ ~ Lives(d.exp, at) => ~ Lives(d.exp, now)
  BY <1>1 DEF Lives
<1>4. CASE d.occupied /\ Lives(d.exp, at)
  <2> DEFINE n == [occupied |-> TRUE, value |-> m, exp |-> x]
  <2>1. data'[s] = n
    BY <1>2, <1>4
  <2>2. n \in StoredType /\ n.occupied /\ n.value = m /\ n.exp = x /\ Timely(x, now)
    BY <1>2 DEF StoredType
  <2> HIDE DEF n
  <2>3. IF n.occupied /\ Lives(n.exp, now) THEN Table!Puts(k, Table!Entry(n.value, n.exp)) ELSE Table!Next
    BY <2>1, <2>2, OnePut
  <2>4. CASE Lives(x, now)
    <3>1. x \in Table!Expiries
      BY <1>2, <2>2, <2>4, ExpiryKnown
    <3>2. Lives(d.exp, now)
      BY <1>2, <2>4 DEF Lives
    <3>3. Visible(k) # Gone /\ Visible(k).value = d.value /\ Visible(k).exp = d.exp
      BY <1>4, <3>2, ShownIs DEF ShowsOne
    <3>4. Table!Puts(k, Table!Entry(Table!Number(d.value) + 1, IF d.exp = Forever \/ d.value = Text THEN x ELSE d.exp))
      BY <1>2, <2>2, <2>3, <2>4
    <3>5. [j \in Keys |-> Visible(j)][k] = Visible(k)
      OBVIOUS
    <3>6. Table!Increment(k, 1, x)
      BY <3>3, <3>4, <3>5 DEF Table!Increment
    <3> QED
      BY <3>1, <3>6 DEF Table!Next
  <2> QED
    BY <2>2, <2>3, <2>4
<1>5. CASE ~ (d.occupied /\ Lives(d.exp, at))
  <2> DEFINE n == [occupied |-> TRUE, value |-> 1, exp |-> exp]
  <2>1. data'[s] = n
    BY <1>5
  <2>2. n \in StoredType /\ n.occupied /\ n.value = 1 /\ n.exp = exp
    BY DEF StoredType
  <2> HIDE DEF n
  <2>3. IF n.occupied /\ Lives(n.exp, now) THEN Table!Puts(k, Table!Entry(n.value, n.exp)) ELSE Table!Next
    BY <2>1, <2>2, OnePut
  <2>4. CASE Lives(exp, now)
    <3>1. exp \in Table!Expiries
      BY <2>4, ExpiryKnown
    <3>2. ~ (d.occupied /\ Lives(d.exp, now))
      BY <1>3, <1>5 DEF Lives
    <3>3. Visible(k) = Gone
      BY <3>2, ShownIs DEF ShowsOne
    <3>4. Table!Puts(k, Table!Entry(1, exp))
      BY <2>2, <2>3, <2>4
    <3>5. [j \in Keys |-> Visible(j)][k] = Visible(k)
      OBVIOUS
    <3>6. Table!Increment(k, 1, exp)
      BY <3>3, <3>4, <3>5 DEF Table!Increment
    <3> QED
      BY <3>1, <3>6 DEF Table!Next
  <2> QED
    BY <2>2, <2>3, <2>4
<1> QED
  BY <1>4, <1>5

\* A write is one of the map, or shows nothing, until it revives an entry.
LEMMA AccessMaps ==
  ASSUME IInv, OwnInv, ~ reused, NEW w \in Workers, Set(w) \/ Increment(w) \/ Expire(w) \/ Wipe(w)
  PROVE  revived' \/ Table!Next \/ UNCHANGED Table!mapVars
<1> DEFINE c == calls[w]
<1>1. Wrote(w) /\ now' = now /\ TypedInv /\ Ordered /\ now \in Nat /\ c.pc = "write"
  <2>1. Wrote(w)
    BY AccessOwn
  <2>2. TypedInv /\ Ordered /\ now \in Nat
    BY DEF OwnInv, TypedInv
  <2>3. now' = now /\ c.pc = "write"
    BY Zenon DEF Set, Increment, Expire, Wipe, Done, Access, At
  <2> QED
    BY <2>1, <2>2, <2>3
<1> SUFFICES ASSUME ~ UNCHANGED Table!mapVars, ~ revived' PROVE Table!Next
  OBVIOUS
<1>2. PICK s \in Slots : s = Head(c.refs).slot /\ c.op # "clear" /\ \E k \in Keys : ShowsOne(k, s)
  BY <1>1, WriteShowsOne
<1>3. PICK k \in Keys : ShowsOne(k, s)
  BY <1>2
<1>4. PICK d \in StoredType : data[s] = d /\ Timely(d.exp, now)
  BY <1>1 DEF TypedInv
<1>5. c.at \in Nat /\ c.at <= now /\ Timely(c.exp, now) /\ c.exp \in Nat \cup {Forever}
  BY <1>1 DEF TypedInv, CallTyped, Timely
<1>6. \A x : data' = [data EXCEPT ![s] = x] => data'[s] = x
  BY <1>1 DEF TypedInv
<1>7. \A at : Alive(s, at) <=> d.occupied /\ Lives(d.exp, at)
  BY <1>4 DEF Alive
<1>8. CASE Set(w)
  <2>1. data'[s] = [occupied |-> TRUE, value |-> Text, exp |-> c.exp]
    <3>1. data' = [data EXCEPT ![s] = [occupied |-> TRUE, value |-> Text, exp |-> c.exp]]
      BY <1>2, <1>8, Zenon DEF Set
    <3> QED
      BY ONLY <1>6, <3>1
  <2> HIDE DEF c
  <2> QED
    BY <1>1, <1>3, <1>5, <2>1, SetMaps
<1>9. CASE Increment(w)
  <2>1. data'[s] = IF Alive(s, c.at)
                   THEN [occupied |-> TRUE, value |-> Number(data[s].value) + 1,
                         exp |-> IF data[s].exp = Forever THEN c.exp ELSE data[s].exp]
                   ELSE [occupied |-> TRUE, value |-> 1, exp |-> c.exp]
    <3>1. data' = [data EXCEPT ![s] =
                     IF Alive(s, c.at)
                     THEN [occupied |-> TRUE, value |-> Number(data[s].value) + 1,
                           exp |-> IF data[s].exp = Forever THEN c.exp ELSE data[s].exp]
                     ELSE [occupied |-> TRUE, value |-> 1, exp |-> c.exp]]
      BY <1>2, <1>9, Zenon DEF Increment
    <3> QED
      BY ONLY <1>6, <3>1
  <2>2. data'[s] = IF d.occupied /\ Lives(d.exp, c.at)
                   THEN [occupied |-> TRUE, value |-> Number(d.value) + 1, exp |-> IF d.exp = Forever THEN c.exp ELSE d.exp]
                   ELSE [occupied |-> TRUE, value |-> 1, exp |-> c.exp]
    BY <1>4, <1>7, <2>1
  <2> HIDE DEF c
  <2> QED
    <3>1. c.at \in Nat /\ c.at <= now /\ Timely(c.exp, now) /\ c.exp \in Nat \cup {Forever}
      BY <1>5
    <3>2. ShowsOne(k, s) /\ now' = now /\ now \in Nat /\ d \in StoredType /\ data[s] = d /\ Timely(d.exp, now)
      BY <1>1, <1>3, <1>4
    <3>3. PICK at, exp : at = c.at /\ exp = c.exp
      OBVIOUS
    <3>4. at \in Nat /\ at <= now /\ Timely(exp, now) /\ exp \in Nat \cup {Forever}
      BY ONLY <3>1, <3>3
    <3>5. data'[s] = IF d.occupied /\ Lives(d.exp, at)
                     THEN [occupied |-> TRUE, value |-> Number(d.value) + 1, exp |-> IF d.exp = Forever THEN exp ELSE d.exp]
                     ELSE [occupied |-> TRUE, value |-> 1, exp |-> exp]
      BY ONLY <2>2, <3>3
    <3> QED
      BY <3>2, <3>4, <3>5, IncrementMaps, Zenon
<1>10. CASE Expire(w)
  <2>1. PICK x : x = IF Alive(s, c.at) THEN c.exp ELSE d.exp
    OBVIOUS
  <2>2. data'[s] = [d EXCEPT !.exp = x]
    <3>1. data' = [data EXCEPT ![s] = [data[s] EXCEPT !.exp = IF Alive(s, c.at) THEN c.exp ELSE data[s].exp]]
      BY <1>2, <1>10, Zenon DEF Expire
    <3>2. data'[s] = [data[s] EXCEPT !.exp = IF Alive(s, c.at) THEN c.exp ELSE data[s].exp]
      BY ONLY <1>6, <3>1
    <3> QED
      BY ONLY <1>4, <2>1, <3>2
  <2>3. CASE Alive(s, c.at)
    <3>1. Alive(s, now)
      <4>1. revived' = (revived \/ (Alive(s, c.at) /\ ~ Alive(s, now)))
        BY <1>2, <1>10, Zenon DEF Expire
      <4> QED
        BY <2>3, <4>1, Zenon
    <3> HIDE DEF c
    <3> QED
      BY <1>1, <1>3, <1>4, <1>5, <1>7, <2>1, <2>2, <2>3, <3>1, ExpireMaps
  <2>4. CASE ~ Alive(s, c.at)
    <3>1. data'[s] = d
      BY <2>1, <2>2, <2>4 DEF StoredType
    <3>2. \A j \in Keys : Visible(j)' = Visible(j)
      BY <1>3, <1>4, <3>1 DEF ShowsOne
    <3> QED
      BY <1>1, <3>2, QuietMaps
  <2> QED
    BY <2>3, <2>4
<1>11. CASE Wipe(w)
  BY <1>2, <1>11 DEF Wipe, Access
<1> QED
  BY <1>8, <1>9, <1>10, <1>11

\* The time only changes with a tick.
LEMMA OnlyTicks ==
  ASSUME NEW w \in Workers, Begin(w) \/ BeginDelete(w) \/ Sample(w) \/ Step(w)
  PROVE  now' = now
<1>1. CASE Begin(w) \/ BeginDelete(w) \/ Sample(w) \/ EnterMap(w) \/ EnterSlots(w)
  BY <1>1, Zenon DEF Begin, BeginDelete, Sample, EnterMap, EnterSlots
<1>2. CASE Find(w) \/ Assign(w) \/ ClearMap(w)
  BY <1>2, Zenon DEF Find, Assign, ClearMap, LeaveMap
<1>3. CASE Fresh(w) \/ Stale(w) \/ Get(w) \/ SetTooLarge(w)
  BY <1>3, Zenon DEF Fresh, Stale, Get, SetTooLarge, Done
<1>4. CASE Set(w) \/ Increment(w) \/ Expire(w) \/ Wipe(w)
  BY <1>4, Zenon DEF Set, Increment, Expire, Wipe, Done
<1>5. CASE Delete(w) \/ Reap(w)
  BY <1>5, Zenon DEF Delete, Reap, Unlink
<1> QED
  BY <1>1, <1>2, <1>3, <1>4, <1>5, Zenon DEF Step

\* Every step is one of the map, or shows nothing, until a slot is allocated too early or an
\* entry is revived.
LEMMA StepMaps ==
  ASSUME IInv, GhostInv, OwnInv, NEW w \in Workers, Begin(w) \/ BeginDelete(w) \/ Sample(w) \/ Step(w),
         GenerationsRise(map, map')
  PROVE  reused' \/ revived' \/ Table!Next \/ UNCHANGED Table!mapVars
<1> SUFFICES ASSUME ~ reused' PROVE revived' \/ Table!Next \/ UNCHANGED Table!mapVars
  OBVIOUS
<1>1. \A k \in Keys : now' = now /\ (SeenStays(k) \/ Touches(w, k))
  BY StepOwn
<1>2. CASE \A k \in Keys : ~ Touches(w, k)
  <2>1. now' = now
    BY OnlyTicks
  <2>2. \A k \in Keys : Visible(k)' = Visible(k)
    BY <1>1, <1>2, <2>1, VisibleStays
  <2> QED
    BY <2>1, <2>2, QuietMaps
<1>3. ASSUME NEW k \in Keys, Touches(w, k) PROVE revived' \/ Table!Next \/ UNCHANGED Table!mapVars
  <2>1. now' = now
    BY <1>1
  <2>2. CASE ClearMap(w)
    <3>1. \A j \in Keys : SeenStays(j) \/ Seen(map', data', now, j) = Gone
      BY <2>2, ClearShows
    <3>2. \A j \in Keys : Visible(j)' \in {Visible(j), Gone}
      BY <2>1, <3>1, VisibleStays
    <3> QED
      BY <2>1, <3>2, RemoveMaps
  <2>3. CASE Delete(w) \/ Reap(w)
    <3>1. Kept(map') /\ ((map' = map /\ data' = data) \/ Unlinked(Head(calls[w].keys)))
      BY <2>3, BothOwn
    <3>2. \A j \in Keys : SeenStays(j) \/ Seen(map', data', now, j) = Gone
      <4>1. CASE map' = map /\ data' = data
        BY <4>1 DEF SeenStays
      <4>2. CASE Unlinked(Head(calls[w].keys))
        BY <3>1, <4>2, UnlinkShows DEF OwnInv
      <4> QED
        BY <3>1, <4>1, <4>2
    <3>3. \A j \in Keys : Visible(j)' \in {Visible(j), Gone}
      BY <2>1, <3>2, VisibleStays
    <3> QED
      BY <2>1, <3>3, RemoveMaps
  <2>4. CASE Set(w) \/ Increment(w) \/ Expire(w) \/ Wipe(w)
    <3>1. ~ reused
      BY <2>4 DEF Set, Increment, Expire, Wipe, Done
    <3> QED
      BY <2>4, <3>1, AccessMaps, Zenon
  <2>5. CASE \/ Begin(w) \/ BeginDelete(w) \/ Sample(w) \/ EnterMap(w) \/ EnterSlots(w)
             \/ Find(w) \/ Fresh(w) \/ Stale(w) \/ Get(w) \/ SetTooLarge(w)
    <3>1. map' = map /\ data' = data
      BY <2>5, BeginOwn, FindOwn, LookOwn
    <3>2. \A j \in Keys : Visible(j)' = Visible(j)
      BY <2>1, <3>1, VisibleStays DEF SeenStays
    <3> QED
      BY <2>1, <3>2, QuietMaps
  <2>6. CASE Assign(w)
    <3>1. \A j \in Keys : Visible(j)' = Visible(j)
      BY <2>1, <2>6, AssignShows, VisibleStays
    <3> QED
      BY <2>1, <3>1, QuietMaps
  <2> QED
    BY <2>2, <2>3, <2>4, <2>5, <2>6 DEF Step
<1> QED
  BY <1>2, <1>3

\* The shard is the map that a backend promises, as long as no generation comes round, no slot
\* is allocated before the clear that freed it has wiped it, and no expiry is given to an entry
\* that has just expired.  Every write of a batch, a repeated one too, is a set of the map.
THEOREM TableCorrect == Spec /\ NeverWraps => ImplementsMap
<1> DEFINE Invs == IInv /\ GhostInv /\ OwnInv
           Rises == [GenerationsRise(map, map')]_vars
           Maps1 == [UNCHANGED <<map, data, now>> \/ reused' \/ revived' \/ Table!Next]_Table!mapVars
<1>1. Init => Invs
  BY IInvInductive, GhostsInductive, InitOwn
<1>2. Init => Table!Init
  <2> SUFFICES ASSUME Init PROVE Table!Init
    OBVIOUS
  <2>1. Kept(map) /\ now = 0 /\ map.table = EmptyTable
    BY <1>1 DEF IInv, Init
  <2>2. Entries(map.table) = {}
    BY <2>1 DEF Entries, Keyed, EmptyTable, EmptyBucket, Bucket
  <2>3. \A k \in Keys : Seen(map, data, now, k) = Gone
    BY <2>1, <2>2, SeenInSlot
  <2>4. \A k \in Keys : Visible(k) = Gone
    BY <2>3, VisibleSeen
  <2> QED
    BY <2>1, <2>4 DEF Table!Init
<1>3. Invs /\ [Next]_vars /\ Rises => Maps1
  <2> SUFFICES ASSUME Invs, [Next]_vars, Rises PROVE Maps1
    OBVIOUS
  <2>1. CASE UNCHANGED vars
    BY <2>1 DEF vars
  <2>2. CASE Tick
    BY <2>2, TickMaps
  <2>3. ASSUME NEW w \in Workers, Begin(w) \/ BeginDelete(w) \/ Sample(w) \/ Step(w), ~ UNCHANGED vars PROVE Maps1
    <3>1. GenerationsRise(map, map')
      BY <2>3
    <3> QED
      BY <2>3, <3>1, StepMaps
  <2> QED
    BY <2>1, <2>2, <2>3 DEF Next
<1>4. Invs /\ [Next]_vars /\ Rises => Invs'
  BY IInvInductive, GhostsInductive, OwnInvInductive
<1> QED
  BY <1>1, <1>2, <1>3, <1>4, PTL DEF Spec, NeverWraps, ImplementsMap
=============================================================================
