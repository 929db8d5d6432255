------------------------- MODULE ThrottlingProofs -------------------------
(***************************************************************************)
(* Proofs about what a request meets: the throttles and their rules        *)
(* (Throttling), and the circuit breaker of the handler that takes over when*)
(* the backend fails (CircuitBreaker).                                     *)
(***************************************************************************)
EXTENDS Throttling, CircuitBreaker, TLAPS, FiniteSetTheorems, SequenceTheorems, WellFoundedInduction

----------------------------------------------------------------------------
(* The throttles, for any requests, finite sets of throttles and rules, and any
   configuration.  A refusal ends a request at the throttle that refused it, and
   what charged it are throttles before it in the chain; that those are not dearer
   rests on the chain being sorted by cost, and every throttle being in it once.
   Rules that let a request off are decided one at a time, so the invariant says of
   each rule due that it holds or is still to be checked. *)

USE ThrottlingAssumption

(* Induction. *)

\* A set of natural numbers that is not empty has a least one.
LEMMA LeastNumber ==
  ASSUME NEW T \in SUBSET Nat, T # {}
  PROVE  \E n \in T : \A m \in T : n <= m
<1> DEFINE R == OpToRel(<, Nat)
<1>1. \E n \in T : \A m \in T : ~ (<<m, n>> \in R)
  <2>1. IsWellFoundedOn(R, Nat)
    BY NatLessThanWellFounded
  <2> HIDE DEF R
  <2> QED
    BY <2>1, WFMin
<1>2. \A m, n \in Nat : <<m, n>> \in R <=> m < n
  BY DEF OpToRel
<1> HIDE DEF R
<1>3. PICK n \in T : \A m \in T : ~ (<<m, n>> \in R)
  BY <1>1
<1>4. \A m \in T : ~ (m < n)
  BY <1>2, <1>3
<1> QED
  BY <1>4

\* Among subsets of a finite set there is one that is minimal by removal of
\* elements.
LEMMA MinimalSet ==
  ASSUME NEW S, IsFiniteSet(S), NEW B \in SUBSET SUBSET S, B # {}
  PROVE  \E T \in B : \A x \in T : T \ {x} \notin B
<1> DEFINE N == {Cardinality(T) : T \in B}
<1>1. \A T \in B : IsFiniteSet(T) /\ Cardinality(T) \in Nat
  BY FS_Subset, FS_CardinalityType
<1>2. N \in SUBSET Nat /\ N # {}
  BY <1>1
<1>3. PICK T \in B : \A U \in B : Cardinality(T) <= Cardinality(U)
  <2>1. PICK n \in N : \A m \in N : n <= m
    BY <1>2, LeastNumber
  <2> QED
    BY <2>1
<1>4. \A x \in T : Cardinality(T \ {x}) = Cardinality(T) - 1
  BY <1>1, FS_RemoveElement
<1> QED
  BY <1>1, <1>3, <1>4

(* Orders. *)

\* s lists a set by the keys of its elements.
Lists(s, T, key) ==
  /\ s \in SetToSeqs(T)
  /\ \A i, j \in DOMAIN s : i < j => key[s[i]] <= key[s[j]]

\* Lists, its sequences spelt out.
LEMMA ListsMeans ==
  ASSUME NEW s, NEW T, IsFiniteSet(T), NEW key
  PROVE  Lists(s, T, key) <=>
           /\ s \in [1 .. Cardinality(T) -> T]
           /\ \A i, j \in 1 .. Cardinality(T) : i # j => s[i] # s[j]
           /\ \A i, j \in 1 .. Cardinality(T) : i < j => key[s[i]] <= key[s[j]]
BY DEF Lists, SetToSeqs

\* Whatever the keys, a finite set can be listed by them.
LEMMA ListExists ==
  ASSUME NEW S, IsFiniteSet(S), NEW key \in [S -> Nat]
  PROVE  \A T \in SUBSET S : \E s : Lists(s, T, key)
<1> DEFINE Bad == {T \in SUBSET S : ~ \E s : Lists(s, T, key)}
<1> SUFFICES ASSUME Bad # {} PROVE FALSE
  OBVIOUS
<1>1. PICK T \in Bad : \A x \in T : T \ {x} \notin Bad
  BY MinimalSet
<1>2. T \in SUBSET S /\ IsFiniteSet(T) /\ Cardinality(T) \in Nat /\ ~ \E s : Lists(s, T, key)
  BY FS_Subset, FS_CardinalityType
<1>3. T # {}
  <2> SUFFICES ASSUME T = {} PROVE FALSE
    OBVIOUS
  <2>1. Cardinality(T) = 0 /\ 1 .. 0 = {}
    BY FS_EmptySet
  <2> DEFINE s == [i \in 1 .. 0 |-> i]
  <2>2. s \in [1 .. 0 -> T]
    BY <2>1
  <2>3. \A i \in 1 .. Cardinality(T) : FALSE
    BY <2>1
  <2>4. s \in [1 .. Cardinality(T) -> T]
    BY <2>1, <2>2
  <2> HIDE DEF s
  <2>5. Lists(s, T, key)
    BY <1>2, <2>3, <2>4, ListsMeans
  <2> QED
    BY <1>2, <2>5
<1>4. PICK x \in T : \A y \in T : key[x] <= key[y]
  <2> DEFINE N == {key[y] : y \in T}
  <2>1. N \in SUBSET Nat /\ N # {}
    BY <1>2, <1>3
  <2>2. PICK n \in N : \A m \in N : n <= m
    BY <2>1, LeastNumber
  <2> QED
    BY <2>2
<1> DEFINE U == T \ {x}
           n == Cardinality(T)
<1>5. IsFiniteSet(U) /\ Cardinality(U) = n - 1 /\ n - 1 \in Nat
  <2>1. IsFiniteSet(U) /\ Cardinality(U) = n - 1
    BY <1>2, <1>4, FS_RemoveElement
  <2>2. Cardinality(U) \in Nat
    BY <2>1, FS_CardinalityType
  <2> QED
    BY <2>1, <2>2
<1>6. PICK g : Lists(g, U, key)
  <2>1. U \in SUBSET S /\ U \notin Bad
    BY <1>1, <1>2, <1>4
  <2> QED
    BY <2>1
<1>7. /\ g \in [1 .. n - 1 -> U]
      /\ \A i, j \in 1 .. n - 1 : i # j => g[i] # g[j]
      /\ \A i, j \in 1 .. n - 1 : i < j => key[g[i]] <= key[g[j]]
  <2> HIDE DEF U, n
  <2> QED
    BY <1>5, <1>6, ListsMeans
<1> DEFINE s == [i \in 1 .. n |-> IF i = 1 THEN x ELSE g[i - 1]]
<1>8. \A i \in 1 .. n : i # 1 => i - 1 \in 1 .. n - 1 /\ s[i] = g[i - 1] /\ s[i] \in U
  BY <1>2, <1>5, <1>7
<1>9. s \in [1 .. n -> T]
  BY <1>4, <1>8
<1>10. \A i, j \in 1 .. n : i # j => s[i] # s[j]
  <2> TAKE i, j \in 1 .. n
  <2>1. CASE i # 1 /\ j # 1
    <3>1. i - 1 \in 1 .. n - 1 /\ j - 1 \in 1 .. n - 1 /\ s[i] = g[i - 1] /\ s[j] = g[j - 1]
      BY <1>8, <2>1
    <3> HIDE DEF s
    <3> QED
      BY <1>7, <3>1
  <2>2. CASE i = 1 \/ j = 1
    BY <1>8, <2>2
  <2> QED
    BY <2>1, <2>2
<1>11. \A i, j \in 1 .. n : i < j => key[s[i]] <= key[s[j]]
  <2> SUFFICES ASSUME NEW i \in 1 .. n, NEW j \in 1 .. n, i < j
               PROVE  key[s[i]] <= key[s[j]]
    OBVIOUS
  <2>1. j # 1 /\ s[j] = g[j - 1] /\ j - 1 \in 1 .. n - 1 /\ s[j] \in T
    BY <1>2, <1>8
  <2>2. CASE i = 1
    BY <1>4, <2>1, <2>2
  <2>3. CASE i # 1
    <3>1. i - 1 \in 1 .. n - 1 /\ s[i] = g[i - 1] /\ i - 1 < j - 1
      BY <1>2, <1>8, <2>3
    <3> HIDE DEF s
    <3> QED
      BY <1>7, <2>1, <3>1
  <2> QED
    BY <2>2, <2>3
<1> HIDE DEF s, U, n
<1>12. Lists(s, T, key)
  BY <1>2, <1>9, <1>10, <1>11, ListsMeans DEF n
<1> QED
  BY <1>2, <1>12

\* So Sorted does list the set: all its elements, each once, by their keys.
LEMMA SortedLists ==
  ASSUME NEW S, IsFiniteSet(S), NEW key \in [S -> Nat], NEW T \in SUBSET S
  PROVE  /\ Sorted(T, key) \in Seq(T)
         /\ ToSet(Sorted(T, key)) = T
         /\ \A i, j \in DOMAIN Sorted(T, key) : i < j => key[Sorted(T, key)[i]] <= key[Sorted(T, key)[j]]
<1> DEFINE s == Sorted(T, key)
           n == Cardinality(T)
<1>1. IsFiniteSet(T) /\ n \in Nat
  BY FS_Subset, FS_CardinalityType
<1>2. Lists(s, T, key)
  <2>1. \E q \in SetToSeqs(T) : \A i, j \in DOMAIN q : i < j => key[q[i]] <= key[q[j]]
    BY ListExists DEF Lists
  <2> QED
    BY <2>1 DEF Sorted, Lists
<1> HIDE DEF s
<1>3. /\ s \in [1 .. n -> T]
      /\ \A i, j \in 1 .. n : i # j => s[i] # s[j]
      /\ \A i, j \in 1 .. n : i < j => key[s[i]] <= key[s[j]]
  BY <1>1, <1>2, ListsMeans
<1>4. \A x \in T : \E i \in 1 .. n : s[i] = x
  <2>1. s \in Injection(1 .. n, T)
    BY <1>3 DEF Injection, IsInjective
  <2>2. IsFiniteSet(1 .. n) /\ Cardinality(1 .. n) = n
    BY <1>1, FS_Interval
  <2>3. s \in Surjection(1 .. n, T)
    BY <1>1, <2>1, <2>2, FS_Injection
  <2> QED
    BY <2>3 DEF Surjection
<1>5. s \in Seq(T) /\ DOMAIN s = 1 .. n
  <2>1. n \in Nat /\ s \in [1 .. n -> T]
    BY <1>1, <1>3
  <2> HIDE DEF n
  <2> QED
    BY <2>1
<1>6. ToSet(s) = T
  BY <1>3, <1>4, <1>5 DEF ToSet
<1> QED
  BY <1>3, <1>5, <1>6 DEF s

\* The throttles, the cheap ones first.
LEMMA ChainSorted ==
  /\ Chain \in Seq(Throttles) /\ Len(Chain) \in Nat
  /\ \A i \in 1 .. Len(Chain) : Chain[i] \in Throttles
  /\ \A i, j \in 1 .. Len(Chain) : i <= j => Cost[Chain[i]] <= Cost[Chain[j]]
<1>1. CheapFirst \in [Throttles -> Nat] /\ CheapFirst = Cost
  BY DEF CheapFirst
<1>2. /\ Chain \in Seq(Throttles)
      /\ \A i, j \in DOMAIN Chain : i < j => CheapFirst[Chain[i]] <= CheapFirst[Chain[j]]
  BY <1>1, SortedLists DEF Chain
<1> HIDE DEF Chain
<1>3. /\ Len(Chain) \in Nat /\ DOMAIN Chain = 1 .. Len(Chain)
      /\ \A i \in 1 .. Len(Chain) : Chain[i] \in Throttles /\ Cost[Chain[i]] \in Nat
  BY <1>2
<1>4. ASSUME NEW i \in 1 .. Len(Chain), NEW j \in 1 .. Len(Chain), i <= j
      PROVE  Cost[Chain[i]] <= Cost[Chain[j]]
  <2>1. CASE i = j
    BY <1>3, <2>1
  <2>2. CASE i # j
    BY <1>1, <1>2, <1>3, <1>4, <2>2, SMTT(30)
  <2> QED
    BY <2>1, <2>2
<1> QED
  BY <1>2, <1>3, <1>4

\* The rules in the order in which they are checked are the rules.
LEMMA PreparedRules ==
  ASSUME NEW T \in SUBSET Rules
  PROVE  Prepared(T) \in Seq(Rules) /\ ToSet(Prepared(T)) = T
<1>1. Rank \in [Rules -> Nat]
  BY DEF Rank
<1>2. Prepared(T) \in Seq(T) /\ ToSet(Prepared(T)) = T
  BY <1>1, SortedLists, SMTT(30) DEF Prepared
<1> QED
  BY <1>2, SeqMonotonic

\* Where a request may be.
Places == {"out", "connect", "confirm", "chain", "hit", "rules", "strategy", "app", "refused", "failed"}

\* The request is at a throttle of the chain.
AtThrottle == {"hit", "rules", "strategy", "refused"}

\* The throttles with the rules they have merged: their own among them, and counted
\* when they were merged.
ThrottlesInv ==
  /\ config \in Configs /\ ready \in BOOLEAN /\ ok \in BOOLEAN /\ updates \in Nat /\ closes \in Nat
  /\ disabled \in [Throttles -> BOOLEAN] /\ limited \in [Throttles -> BOOLEAN]
  /\ attached \in [Throttles -> SUBSET Rules] /\ rules \in [Throttles -> SUBSET Rules]
  /\ count \in [Throttles -> Nat] /\ resolved \in [Throttles -> BOOLEAN]
  /\ \A t \in Throttles : Own[t] \subseteq rules[t] /\ count[t] \in {0, Cardinality(rules[t])}

\* What is known of each request.
RequestTypes ==
  /\ pc \in [Requests -> Places] /\ pos \in [Requests -> 1 .. Len(Chain) + 1]
  /\ todo \in [Requests -> Seq(Rules)] /\ mark \in [Requests -> Nat]
  /\ charged \in [Requests -> SUBSET Throttles] /\ refused \in [Requests -> SUBSET Throttles]
  /\ due \in [Requests -> SUBSET Rules]

\* What charged the request are throttles it has come to; if refusals raise, what
\* refused it is the throttle it is at; and of the rules it had to pass, it passed
\* those that are not still to be checked.
Passed(r) ==
  /\ pc[r] \in AtThrottle => pos[r] <= Len(Chain)
  /\ \A t \in charged[r] : \E i \in 1 .. Len(Chain) : i <= pos[r] /\ t = Chain[i]
  /\ ~ config.skip /\ refused[r] # {} => pc[r] = "refused" /\ refused[r] = {At(r)}
  /\ pc[r] = "rules" => \A rule \in due[r] : Holds(rule, r) \/ rule \in ToSet(todo[r])
  /\ pc[r] = "strategy" => \A rule \in due[r] : Holds(rule, r)

\* The inductive invariant of the throttles.
IInv ==
  /\ ThrottlesInv /\ RequestTypes
  /\ \A r \in Requests : Passed(r)

\* Only one request moves.
Moves(r) ==
  \A q \in Requests : q # r =>
    /\ pc'[q] = pc[q] /\ pos'[q] = pos[q] /\ todo'[q] = todo[q] /\ mark'[q] = mark[q]
    /\ charged'[q] = charged[q] /\ refused'[q] = refused[q] /\ due'[q] = due[q]

\* It is enough to look at the one that moves.
LEMMA MoverDecides ==
  ASSUME IInv, NEW r \in Requests, Moves(r), config' = config, Passed(r)', ThrottlesInv', RequestTypes'
  PROVE  IInv'
<1>1. ASSUME NEW q \in Requests, q # r PROVE Passed(q)'
  <2>1. /\ pc'[q] = pc[q] /\ pos'[q] = pos[q] /\ todo'[q] = todo[q]
        /\ charged'[q] = charged[q] /\ refused'[q] = refused[q] /\ due'[q] = due[q]
    BY <1>1 DEF Moves
  <2>2. At(q)' = At(q) /\ \A rule : Holds(rule, q)' <=> Holds(rule, q)
    BY <2>1 DEF At, Holds, Fails
  <2>3. Passed(q)
    BY DEF IInv
  <2> QED
    BY <2>1, <2>2, <2>3 DEF Passed
<1> QED
  BY <1>1 DEF IInv

\* A request at a throttle is at one of the chain.
LEMMA AtThrottleOfChain ==
  ASSUME IInv, NEW r \in Requests, pc[r] \in AtThrottle
  PROVE  pos[r] \in 1 .. Len(Chain) /\ At(r) \in Throttles /\ pos[r] + 1 \in 1 .. Len(Chain) + 1
<1>1. pos[r] \in 1 .. Len(Chain) + 1 /\ pos[r] <= Len(Chain) /\ Len(Chain) \in Nat
  BY ChainSorted DEF IInv, Passed, RequestTypes
<1>2. pos[r] \in 1 .. Len(Chain) /\ pos[r] + 1 \in 1 .. Len(Chain) + 1
  BY <1>1
<1> QED
  BY <1>2, ChainSorted DEF At

\* What is added to the throttles that charged or refused a request is a throttle.
LEMMA HistoryTypes ==
  ASSUME IInv, NEW r \in Requests, NEW t \in Throttles
  PROVE  /\ {charged, [charged EXCEPT ![r] = charged[r] \cup {t}]} \subseteq [Requests -> SUBSET Throttles]
         /\ {refused, [refused EXCEPT ![r] = refused[r] \cup {t}]} \subseteq [Requests -> SUBSET Throttles]
<1>1. charged[r] \cup {t} \in SUBSET Throttles /\ refused[r] \cup {t} \in SUBSET Throttles
  BY DEF IInv, RequestTypes
<1>2. charged \in [Requests -> SUBSET Throttles] /\ refused \in [Requests -> SUBSET Throttles]
  BY DEF IInv, RequestTypes
<1>3. [charged EXCEPT ![r] = charged[r] \cup {t}] \in [Requests -> SUBSET Throttles]
  BY <1>1, <1>2
<1>4. [refused EXCEPT ![r] = refused[r] \cup {t}] \in [Requests -> SUBSET Throttles]
  BY <1>1, <1>2
<1> QED
  BY <1>2, <1>3, <1>4

\* Steps that leave the throttles, and all of the request but where it is.
LEMMA GoingKeeps ==
  ASSUME IInv, NEW r \in Requests, NEW where \in Places \ {"rules", "strategy"},
         Goto(r, where), UNCHANGED <<config, pos, todo, mark, charged, refused, due>>,
         ThrottlesInv', where \in AtThrottle => pos[r] <= Len(Chain),
         ~ config.skip /\ refused[r] # {} => FALSE
  PROVE  IInv'
<1>1. RequestTypes' /\ Moves(r)
  BY DEF IInv, RequestTypes, Goto, Moves
<1>2. Passed(r)'
  BY DEF IInv, Passed, RequestTypes, Goto, At
<1> QED
  BY <1>1, <1>2, MoverDecides

\* A throttle that lets the request pass, charged or not.
LEMMA PassingByKeeps ==
  ASSUME IInv, NEW r \in Requests, pc[r] \in AtThrottle \ {"refused"}, PassBy(r), ThrottlesInv', config' = config,
         todo' \in [Requests -> Seq(Rules)], mark' \in [Requests -> Nat], due' = due,
         \A q \in Requests : q # r => todo'[q] = todo[q] /\ mark'[q] = mark[q],
         charged' \in {charged, [charged EXCEPT ![r] = @ \cup {At(r)}]},
         refused' \in {refused, [refused EXCEPT ![r] = @ \cup {At(r)}]},
         ~ config.skip => refused' = refused
  PROVE  IInv'
<1>1. /\ At(r) \in Throttles /\ pos[r] \in 1 .. Len(Chain) /\ pos[r] + 1 \in 1 .. Len(Chain) + 1
      /\ At(r) = Chain[pos[r]]
  BY AtThrottleOfChain DEF At
<1>2. /\ pc' = [pc EXCEPT ![r] = "chain"] /\ pos' = [pos EXCEPT ![r] = pos[r] + 1]
  BY DEF PassBy, Goto
<1> HIDE DEF At
<1>3. RequestTypes'
  <2>1. charged' \in [Requests -> SUBSET Throttles] /\ refused' \in [Requests -> SUBSET Throttles]
    <3>1. /\ {charged, [charged EXCEPT ![r] = charged[r] \cup {At(r)}]} \subseteq [Requests -> SUBSET Throttles]
          /\ {refused, [refused EXCEPT ![r] = refused[r] \cup {At(r)}]} \subseteq [Requests -> SUBSET Throttles]
      BY <1>1, HistoryTypes
    <3> QED
      BY <3>1
  <2>2. pc' \in [Requests -> Places] /\ pos' \in [Requests -> 1 .. Len(Chain) + 1] /\ due' \in [Requests -> SUBSET Rules]
    BY <1>1, <1>2 DEF IInv, RequestTypes, Places
  <2> QED
    BY <2>1, <2>2 DEF RequestTypes
<1>4. Moves(r)
  BY <1>2 DEF IInv, RequestTypes, Moves
<1>5. Passed(r)'
  <2>1. pc'[r] = "chain" /\ pos'[r] = pos[r] + 1
    BY <1>2 DEF IInv, RequestTypes
  <2>2. \A t \in charged'[r] : t \in charged[r] \/ t = At(r)
    BY DEF IInv, RequestTypes
  <2>3. \A t \in charged'[r] : \E i \in 1 .. Len(Chain) : i <= pos'[r] /\ t = Chain[i]
    <3> TAKE t \in charged'[r]
    <3>1. CASE t \in charged[r]
      <4>1. PICK i \in 1 .. Len(Chain) : i <= pos[r] /\ t = Chain[i]
        BY <3>1 DEF IInv, Passed
      <4> QED
        BY <1>1, <2>1, <4>1, ChainSorted
    <3>2. CASE t = At(r)
      BY <1>1, <2>1, <3>2
    <3> QED
      BY <2>2, <3>1, <3>2
  <2>4. ~ config'.skip /\ refused'[r] # {} => FALSE
    BY DEF IInv, Passed
  <2> QED
    BY <2>1, <2>3, <2>4 DEF Passed, AtThrottle
<1> QED
  BY <1>3, <1>4, <1>5, MoverDecides

\* Between throttles.
LEMMA MiddlewareKeeps ==
  ASSUME IInv, NEW r \in Requests, Enter(r) \/ Initialize(r) \/ Confirm(r) \/ Filter(r) \/ Leave(r)
  PROVE  IInv'
<1>1. pos[r] \in 1 .. Len(Chain) + 1 /\ Len(Chain) \in Nat
  BY ChainSorted DEF IInv, RequestTypes
<1>2. pc[r] # "refused" => (~ config.skip /\ refused[r] # {} => FALSE)
  BY DEF IInv, Passed
<1>3. CASE Enter(r)
  <2>1. ThrottlesInv'
    BY <1>3 DEF Enter, throttles, cache, backend, IInv, ThrottlesInv
  <2> DEFINE where == IF ok THEN "chain" ELSE "connect"
  <2>2. where \in Places \ {"rules", "strategy"} /\ where \notin AtThrottle /\ Goto(r, where) /\ pc[r] # "refused"
    BY <1>3 DEF Enter, Places, AtThrottle
  <2> HIDE DEF where
  <2> QED
    BY <1>2, <1>3, <2>1, <2>2, GoingKeeps DEF Enter
<1>4. CASE Initialize(r)
  <2>1. ThrottlesInv'
    BY <1>4 DEF Initialize, throttles, cache, backend, IInv, ThrottlesInv
  <2>2. "confirm" \in Places \ {"rules", "strategy"} /\ "confirm" \notin AtThrottle
    BY DEF Places, AtThrottle
  <2> QED
    BY <1>2, <1>4, <2>1, <2>2, GoingKeeps DEF Initialize
<1>5. CASE Confirm(r)
  <2>1. ThrottlesInv'
    BY <1>5 DEF Confirm, throttles, cache, backend, IInv, ThrottlesInv
  <2> DEFINE where == IF ready THEN "chain" ELSE "failed"
  <2>2. where \in Places \ {"rules", "strategy"} /\ where \notin AtThrottle /\ Goto(r, where) /\ pc[r] # "refused"
    BY <1>5 DEF Confirm, Places, AtThrottle
  <2> HIDE DEF where
  <2> QED
    BY <1>2, <1>5, <2>1, <2>2, GoingKeeps DEF Confirm
<1>6. CASE Filter(r)
  <2>1. ThrottlesInv'
    BY <1>6 DEF Filter, throttles, cache, backend, IInv, ThrottlesInv
  <2>2. pc[r] = "chain" /\ UNCHANGED <<config, todo, mark, charged, refused, due>>
    BY <1>6 DEF Filter
  <2>3. CASE pos[r] > Len(Chain) /\ Goto(r, "app") /\ UNCHANGED pos
    <3>1. "app" \in Places \ {"rules", "strategy"} /\ "app" \notin AtThrottle
      BY DEF Places, AtThrottle
    <3> QED
      BY <1>2, <2>1, <2>2, <2>3, <3>1, GoingKeeps
  <2>4. CASE ~ (pos[r] > Len(Chain)) /\ Goto(r, "hit") /\ UNCHANGED pos
    <3>1. "hit" \in Places \ {"rules", "strategy"} /\ pos[r] <= Len(Chain)
      BY <1>1, <2>4 DEF Places
    <3> QED
      BY <1>2, <2>1, <2>2, <2>4, <3>1, GoingKeeps
  <2>5. CASE ~ (pos[r] > Len(Chain)) /\ pos' = [pos EXCEPT ![r] = @ + 1] /\ UNCHANGED pc
    <3>1. pos[r] + 1 \in 1 .. Len(Chain) + 1
      BY <1>1, <2>5
    <3>2. RequestTypes' /\ Moves(r)
      BY <2>2, <2>5, <3>1 DEF IInv, RequestTypes, Moves
    <3>3. pos'[r] = pos[r] + 1
      BY <2>5 DEF IInv, RequestTypes
    <3>4. \A t \in charged[r] : \E i \in 1 .. Len(Chain) : i <= pos'[r] /\ t = Chain[i]
      <4> TAKE t \in charged[r]
      <4>1. PICK i \in 1 .. Len(Chain) : i <= pos[r] /\ t = Chain[i]
        BY DEF IInv, Passed
      <4> QED
        BY <1>1, <3>3, <4>1
    <3>5. Passed(r)'
      BY <2>2, <2>5, <3>4 DEF IInv, Passed, AtThrottle
    <3> QED
      BY <2>1, <2>2, <3>2, <3>5, MoverDecides
  <2> QED
    BY <1>6, <2>3, <2>4, <2>5 DEF Filter
<1>7. CASE Leave(r)
  <2>1. ThrottlesInv' /\ config' = config
    BY <1>7 DEF Leave, throttles, cache, backend, IInv, ThrottlesInv
  <2>2. RequestTypes'
    <3>1. 1 \in 1 .. Len(Chain) + 1 /\ <<>> \in Seq(Rules)
      BY <1>1
    <3> QED
      BY <1>7, <3>1 DEF Leave, Goto, IInv, RequestTypes, Places
  <2>3. Moves(r)
    BY <1>7 DEF Leave, Goto, IInv, RequestTypes, Moves
  <2>4. pc'[r] = "out" /\ charged'[r] = {} /\ refused'[r] = {}
    BY <1>7 DEF Leave, Goto, IInv, RequestTypes
  <2>5. Passed(r)'
    BY <2>4 DEF Passed, AtThrottle
  <2> QED
    BY <2>1, <2>2, <2>3, <2>5, MoverDecides
<1> QED
  BY <1>3, <1>4, <1>5, <1>6, <1>7

\* At a throttle, before its strategy: the rules merged are those it is due to check.
LEMMA BeginKeeps ==
  ASSUME IInv, NEW r \in Requests, Begin(r)
  PROVE  IInv'
<1> DEFINE t == At(r)
           total == Cardinality(rules[t]) + Cardinality(attached[t])
           merge == ~ Settled(t) /\ attached[t] # {} /\ total # count[t]
           merged == IF merge THEN rules[t] \cup attached[t] ELSE rules[t]
           need == Own[t] \cup (IF ~ resolved[t] \/ t \in Dynamic THEN attached[t] ELSE {})
<1>1. /\ pc[r] = "hit" /\ pc[r] \in AtThrottle \ {"refused"}
      /\ UNCHANGED <<config, throttles, backend, mark, charged, refused, updates>>
  BY DEF Begin, AtThrottle
<1>2. t \in Throttles /\ pos[r] \in 1 .. Len(Chain)
  BY <1>1, AtThrottleOfChain
<1>3. CASE PassBy(r) /\ UNCHANGED <<cache, todo, due>>
  <2>1. ThrottlesInv'
    BY <1>1, <1>3 DEF throttles, cache, backend, IInv, ThrottlesInv
  <2>2. todo' \in [Requests -> Seq(Rules)] /\ mark' \in [Requests -> Nat]
    BY <1>1, <1>3 DEF IInv, RequestTypes
  <2> QED
    BY <1>1, <1>3, <2>1, <2>2, PassingByKeeps
<1>4. CASE /\ rules' = [rules EXCEPT ![t] = merged]
           /\ count' = [count EXCEPT ![t] = IF merge THEN Cardinality(merged) ELSE @]
           /\ resolved' = [resolved EXCEPT ![t] = TRUE]
           /\ todo' = [todo EXCEPT ![r] = Prepared(merged)]
           /\ due' = [due EXCEPT ![r] = need]
           /\ Goto(r, "rules")
           /\ UNCHANGED pos
  <2>1. /\ rules[t] \in SUBSET Rules /\ attached[t] \in SUBSET Rules /\ count[t] \in Nat
        /\ Own[t] \subseteq rules[t] /\ count[t] \in {0, Cardinality(rules[t])}
    BY <1>2 DEF IInv, ThrottlesInv
  <2>2. /\ IsFiniteSet(rules[t]) /\ Cardinality(rules[t]) \in Nat
        /\ IsFiniteSet(attached[t]) /\ Cardinality(attached[t]) \in Nat
    BY <2>1, FS_Subset, FS_CardinalityType
  <2>3. attached[t] # {} => Cardinality(attached[t]) # 0
    BY <2>2, FS_EmptySet
  <2>4. need \subseteq merged
    <3>1. CASE ~ Settled(t) /\ attached[t] # {}
      <4>1. total # count[t]
        <5>1. Cardinality(attached[t]) # 0
          BY <2>3, <3>1
        <5> QED
          BY <2>1, <2>2, <5>1
      <4> QED
        BY <2>1, <3>1, <4>1
    <3>2. CASE attached[t] = {}
      BY <2>1, <3>2
    <3>3. CASE Settled(t)
      <4>1. resolved[t] /\ t \notin Dynamic
        BY <3>3 DEF Settled
      <4> QED
        BY <2>1, <3>3, <4>1
    <3> QED
      BY <3>1, <3>2, <3>3
  <2>5. merged \in SUBSET Rules /\ Own[t] \subseteq merged /\ Cardinality(merged) \in Nat
    <3>1. merged \in SUBSET Rules /\ Own[t] \subseteq merged
      BY <2>1
    <3> HIDE DEF merged
    <3> QED
      BY <3>1, FS_Subset, FS_CardinalityType
  <2>6. ~ merge => merged = rules[t]
    OBVIOUS
  <2>7. need \in SUBSET Rules
    BY <2>4, <2>5
  <2> HIDE DEF merged, merge, need, t, total
  <2>8. Prepared(merged) \in Seq(Rules) /\ ToSet(Prepared(merged)) = merged
    BY <2>5, PreparedRules
  <2>9. ThrottlesInv'
    <3>1. rules' \in [Throttles -> SUBSET Rules] /\ count' \in [Throttles -> Nat] /\ resolved' \in [Throttles -> BOOLEAN]
      BY <1>4, <2>5 DEF IInv, ThrottlesInv
    <3>2. \A u \in Throttles : Own[u] \subseteq rules'[u] /\ count'[u] \in {0, Cardinality(rules'[u])}
      <4> TAKE u \in Throttles
      <4>1. CASE u = t
        <5>1. rules'[u] = merged /\ count'[u] = IF merge THEN Cardinality(merged) ELSE count[t]
          BY <1>4, <4>1 DEF IInv, ThrottlesInv
        <5> QED
          BY <2>1, <2>5, <2>6, <4>1, <5>1
      <4>2. CASE u # t
        <5>1. rules'[u] = rules[u] /\ count'[u] = count[u]
          BY <1>4, <4>2 DEF IInv, ThrottlesInv
        <5> QED
          BY <5>1 DEF IInv, ThrottlesInv
      <4> QED
        BY <4>1, <4>2
    <3> QED
      BY <1>1, <3>1, <3>2 DEF IInv, ThrottlesInv, throttles, backend
  <2>10. RequestTypes' /\ Moves(r)
    BY <1>1, <1>4, <2>7, <2>8 DEF IInv, RequestTypes, Moves, Goto, Places
  <2>11. /\ pc'[r] = "rules" /\ due'[r] = need /\ todo'[r] = Prepared(merged)
    BY <1>4 DEF IInv, RequestTypes, Goto
  <2>12. ~ config.skip /\ refused[r] # {} => FALSE
    BY <1>1 DEF IInv, Passed
  <2>13. pos[r] <= Len(Chain)
    BY <1>2, ChainSorted
  <2>14. \A rule \in due'[r] : rule \in ToSet(todo'[r])
    BY <2>4, <2>8, <2>11
  <2>15. Passed(r)'
    BY <1>1, <1>4, <2>11, <2>12, <2>13, <2>14 DEF IInv, Passed
  <2> QED
    BY <1>1, <2>9, <2>10, <2>15, MoverDecides
<1> QED
  BY <1>3, <1>4 DEF Begin

\* A rule that holds has been passed; one that does not ends the hit.
LEMMA CheckRuleKeeps ==
  ASSUME IInv, NEW r \in Requests, CheckRule(r)
  PROVE  IInv'
<1>1. /\ pc[r] = "rules" /\ pc[r] \in AtThrottle \ {"refused"} /\ todo[r] # <<>>
      /\ UNCHANGED <<config, throttles, cache, backend, mark, charged, refused, due, updates>>
      /\ todo[r] \in Seq(Rules)
  BY DEF CheckRule, AtThrottle, IInv, RequestTypes
<1>2. ThrottlesInv'
  BY <1>1 DEF throttles, cache, backend, IInv, ThrottlesInv
<1>3. CASE Holds(Head(todo[r]), r) /\ todo' = [todo EXCEPT ![r] = Tail(@)] /\ UNCHANGED <<pc, pos>>
  <2>1. Tail(todo[r]) \in Seq(Rules)
    BY <1>1
  <2>2. RequestTypes' /\ Moves(r) /\ todo'[r] = Tail(todo[r])
    BY <1>1, <1>3, <2>1 DEF IInv, RequestTypes, Moves
  <2>3. \A rule \in ToSet(todo[r]) : rule = Head(todo[r]) \/ rule \in ToSet(Tail(todo[r]))
    <3> DEFINE s == todo[r]
    <3>1. s \in Seq(Rules) /\ s # <<>>
      BY <1>1
    <3> HIDE DEF s
    <3>2. /\ Len(s) \in Nat \ {0} /\ DOMAIN s = 1 .. Len(s) /\ Head(s) = s[1]
          /\ DOMAIN Tail(s) = 1 .. Len(s) - 1 /\ \A i \in 1 .. Len(s) - 1 : Tail(s)[i] = s[i + 1]
      BY <3>1
    <3>3. ASSUME NEW i \in DOMAIN s PROVE s[i] = Head(s) \/ s[i] \in ToSet(Tail(s))
      <4>1. CASE i = 1
        BY <3>2, <4>1
      <4>2. CASE i # 1
        <5>1. i - 1 \in DOMAIN Tail(s) /\ Tail(s)[i - 1] = s[i]
          BY <3>2, <4>2
        <5> QED
          BY <5>1 DEF ToSet
      <4> QED
        BY <4>1, <4>2
    <3>4. \A rule \in ToSet(s) : \E i \in DOMAIN s : rule = s[i]
      BY DEF ToSet
    <3> QED
      BY <3>3, <3>4 DEF s
  <2>4. \A rule \in due[r] : Holds(rule, r) \/ rule \in ToSet(todo'[r])
    BY <1>1, <1>3, <2>2, <2>3 DEF IInv, Passed
  <2>5. Passed(r)'
    BY <1>1, <1>3, <2>4 DEF IInv, Passed, AtThrottle, At, Holds, Fails
  <2> QED
    BY <1>1, <1>2, <2>2, <2>5, MoverDecides
<1>4. CASE todo' = [todo EXCEPT ![r] = <<>>] /\ PassBy(r)
  <2>1. todo' \in [Requests -> Seq(Rules)] /\ mark' \in [Requests -> Nat] /\ \A q \in Requests : q # r => todo'[q] = todo[q] /\ mark'[q] = mark[q]
    <3>1. <<>> \in Seq(Rules)
      OBVIOUS
    <3> QED
      BY <1>1, <1>4, <3>1 DEF IInv, RequestTypes
  <2> QED
    BY <1>1, <1>2, <1>4, <2>1, PassingByKeeps
<1>5. CASE todo' = [todo EXCEPT ![r] = <<>>] /\ Goto(r, "failed") /\ UNCHANGED pos
  <2>1. RequestTypes' /\ Moves(r) /\ pc'[r] = "failed"
    <3>1. <<>> \in Seq(Rules)
      OBVIOUS
    <3> QED
      BY <1>1, <1>5, <3>1 DEF IInv, RequestTypes, Moves, Goto, Places
  <2>2. Passed(r)'
    BY <1>1, <1>5, <2>1 DEF IInv, Passed, AtThrottle, At
  <2> QED
    BY <1>1, <1>2, <2>1, <2>2, MoverDecides
<1> QED
  BY <1>3, <1>4, <1>5 DEF CheckRule

\* With no rule left to check, the request has passed them all.
LEMMA PrepareKeeps ==
  ASSUME IInv, NEW r \in Requests, Prepare(r)
  PROVE  IInv'
<1>1. /\ pc[r] = "rules" /\ pc[r] \in AtThrottle \ {"refused"} /\ todo[r] = <<>>
      /\ UNCHANGED <<config, throttles, cache, backend, todo, mark, charged, refused, due, updates>>
  BY DEF Prepare, AtThrottle
<1>2. ThrottlesInv'
  BY <1>1 DEF throttles, cache, backend, IInv, ThrottlesInv
<1>3. CASE PassBy(r)
  <2>1. todo' \in [Requests -> Seq(Rules)] /\ mark' \in [Requests -> Nat]
    BY <1>1 DEF IInv, RequestTypes
  <2> QED
    BY <1>1, <1>2, <1>3, <2>1, PassingByKeeps
<1>4. CASE Goto(r, "strategy") /\ UNCHANGED pos
  <2>1. RequestTypes' /\ Moves(r) /\ pc'[r] = "strategy"
    BY <1>1, <1>4 DEF IInv, RequestTypes, Moves, Goto, Places
  <2>2. \A rule \in due[r] : Holds(rule, r)
    <3>1. ToSet(<<>>) = {}
      BY DEF ToSet
    <3> QED
      BY <1>1, <3>1 DEF IInv, Passed
  <2>3. Passed(r)'
    BY <1>1, <1>4, <2>1, <2>2 DEF IInv, Passed, At, Holds, Fails
  <2> QED
    BY <1>1, <1>2, <2>1, <2>3, MoverDecides
<1> QED
  BY <1>3, <1>4 DEF Prepare

\* The hit is concluded, charged or not: the request goes on, or is refused by the
\* throttle it is at.
LEMMA ConcludeKeeps ==
  ASSUME IInv, NEW r \in Requests, pc[r] = "strategy", NEW wait \in Nat, Conclude(r, wait),
         Charge(r) \/ UNCHANGED charged, ThrottlesInv', UNCHANGED <<config, todo, due>>
  PROVE  IInv'
<1>1. /\ pc[r] \in AtThrottle \ {"refused"}
      /\ mark' = [mark EXCEPT ![r] = wait]
      /\ refused' \in {refused, [refused EXCEPT ![r] = @ \cup {At(r)}]}
      /\ charged' \in {charged, [charged EXCEPT ![r] = @ \cup {At(r)}]}
  <2>1. [refused EXCEPT ![r] = refused[r]] = refused
    BY DEF IInv, RequestTypes
  <2> QED
    BY <2>1 DEF Conclude, Charge, AtThrottle
<1>2. At(r) \in Throttles /\ pos[r] \in 1 .. Len(Chain) /\ At(r) = Chain[pos[r]]
  BY <1>1, AtThrottleOfChain DEF At
<1>3. CASE PassBy(r) /\ ~ (wait # 0 /\ ~ config.skip)
  <2>1. /\ todo' \in [Requests -> Seq(Rules)] /\ mark' \in [Requests -> Nat]
        /\ \A q \in Requests : q # r => todo'[q] = todo[q] /\ mark'[q] = mark[q]
    BY <1>1 DEF IInv, RequestTypes
  <2>2. ~ config.skip => refused' = refused
    <3>1. [refused EXCEPT ![r] = refused[r]] = refused
      BY DEF IInv, RequestTypes
    <3> QED
      BY <1>3, <3>1 DEF Conclude
  <2> QED
    BY <1>1, <1>3, <2>1, <2>2, PassingByKeeps
<1>4. CASE wait # 0 /\ ~ config.skip /\ Goto(r, "refused") /\ UNCHANGED pos
  <2>1. refused' = [refused EXCEPT ![r] = refused[r] \cup {At(r)}] /\ refused[r] = {}
    BY <1>4 DEF Conclude, IInv, Passed
  <2>2. pc' = [pc EXCEPT ![r] = "refused"]
    BY <1>4 DEF Goto
  <2> HIDE DEF At
  <2>3. RequestTypes'
    <3>1. charged' \in [Requests -> SUBSET Throttles] /\ refused' \in [Requests -> SUBSET Throttles]
      <4>1. /\ {charged, [charged EXCEPT ![r] = charged[r] \cup {At(r)}]} \subseteq [Requests -> SUBSET Throttles]
            /\ {refused, [refused EXCEPT ![r] = refused[r] \cup {At(r)}]} \subseteq [Requests -> SUBSET Throttles]
        BY <1>2, HistoryTypes
      <4> QED
        BY <1>1, <4>1
    <3>2. pc' \in [Requests -> Places] /\ mark' \in [Requests -> Nat]
      BY <1>1, <2>2 DEF IInv, RequestTypes, Places
    <3> QED
      BY <1>4, <3>1, <3>2 DEF IInv, RequestTypes
  <2>4. Moves(r)
    BY <1>1, <1>4, <2>1, <2>2 DEF IInv, RequestTypes, Moves
  <2>5. pc'[r] = "refused" /\ refused'[r] = {At(r)} /\ pos'[r] = pos[r] /\ pos[r] <= Len(Chain)
    BY <1>2, <1>4, <2>1, <2>2, ChainSorted DEF IInv, RequestTypes
  <2>6. \A t \in charged'[r] : t \in charged[r] \/ t = At(r)
    BY <1>1 DEF IInv, RequestTypes
  <2>7. \A t \in charged'[r] : \E i \in 1 .. Len(Chain) : i <= pos'[r] /\ t = Chain[i]
    <3> TAKE t \in charged'[r]
    <3>1. CASE t \in charged[r]
      BY <2>5, <3>1 DEF IInv, Passed
    <3>2. CASE t = At(r)
      BY <1>2, <2>5, <3>2
    <3> QED
      BY <2>6, <3>1, <3>2
  <2>8. Passed(r)'
    BY <2>5, <2>7 DEF Passed, At
  <2> QED
    BY <2>3, <2>4, <2>8, MoverDecides
<1> QED
  BY <1>3, <1>4 DEF Conclude

\* A wait is a number of at least 0.
LEMMA WaitType ==
  ASSUME IInv
  PROVE  config.minWait \in Nat /\ Larger(1, config.minWait) \in Nat
<1>1. config.minWait \in Nat
  BY DEF IInv, ThrottlesInv
<1> QED
  BY <1>1 DEF Larger

\* The strategy answers.
LEMMA DecideKeeps ==
  ASSUME IInv, NEW r \in Requests, Decide(r)
  PROVE  IInv'
<1>1. pc[r] = "strategy" /\ UNCHANGED <<config, throttles, cache, backend, todo, due, updates>>
  BY DEF Decide
<1>2. ThrottlesInv'
  BY <1>1 DEF throttles, cache, backend, IInv, ThrottlesInv
<1>3. PICK wait \in Nat : Conclude(r, wait) /\ (Charge(r) \/ UNCHANGED charged)
  BY WaitType DEF Decide
<1> QED
  BY <1>1, <1>2, <1>3, ConcludeKeeps

\* The strategy fails.
LEMMA RaiseKeeps ==
  ASSUME IInv, NEW r \in Requests, Raise(r)
  PROVE  IInv'
<1>1. /\ pc[r] = "strategy" /\ pc[r] \in AtThrottle \ {"refused"}
      /\ UNCHANGED <<config, throttles, cache, ready, closes, todo, due, updates>>
      /\ Charge(r) \/ UNCHANGED charged
  BY DEF Raise, AtThrottle
<1>2. ThrottlesInv'
  BY <1>1 DEF Raise, StillOk, throttles, cache, IInv, ThrottlesInv
<1>3. CASE Goto(r, "failed") /\ UNCHANGED <<pos, mark, refused>>
  <2>1. At(r) \in Throttles /\ pos[r] \in 1 .. Len(Chain) /\ At(r) = Chain[pos[r]]
    BY <1>1, AtThrottleOfChain DEF At
  <2>2. charged' \in {charged, [charged EXCEPT ![r] = @ \cup {At(r)}]} /\ pc' = [pc EXCEPT ![r] = "failed"]
    BY <1>1, <1>3 DEF Charge, Goto
  <2> HIDE DEF At
  <2>3. RequestTypes' /\ Moves(r)
    <3>1. charged' \in [Requests -> SUBSET Throttles]
      BY <2>1, <2>2, HistoryTypes DEF IInv, RequestTypes
    <3>2. pc' \in [Requests -> Places]
      BY <2>2 DEF IInv, RequestTypes, Places
    <3>3. RequestTypes'
      BY <1>1, <1>3, <3>1, <3>2 DEF IInv, RequestTypes
    <3>4. Moves(r)
      BY <1>1, <1>3, <2>2 DEF IInv, RequestTypes, Moves
    <3> QED
      BY <3>3, <3>4
  <2>4. pc'[r] = "failed" /\ \A t \in charged'[r] : t \in charged[r] \/ t = At(r)
    BY <2>2 DEF IInv, RequestTypes
  <2>5. \A t \in charged'[r] : \E i \in 1 .. Len(Chain) : i <= pos'[r] /\ t = Chain[i]
    <3> TAKE t \in charged'[r]
    <3>1. CASE t \in charged[r]
      BY <1>3, <3>1 DEF IInv, Passed
    <3>2. CASE t = At(r)
      BY <1>3, <2>1, <3>2, ChainSorted
    <3> QED
      BY <2>4, <3>1, <3>2
  <2>6. ~ config.skip /\ refused[r] # {} => FALSE
    BY <1>1 DEF IInv, Passed
  <2>7. Passed(r)'
    BY <1>1, <1>3, <2>4, <2>5, <2>6 DEF Passed, AtThrottle
  <2> QED
    BY <1>1, <1>2, <2>3, <2>7, MoverDecides
<1>4. ASSUME NEW wait \in Nat, Conclude(r, wait) PROVE IInv'
  BY <1>1, <1>2, <1>4, ConcludeKeeps
<1> QED
  BY <1>3, <1>4, WaitType DEF Raise

\* What happens meanwhile leaves the requests where they are.
LEMMA MeanwhileKeeps ==
  ASSUME IInv, SetDisabled \/ UpdateRate \/ AddRules \/ Close \/ UNCHANGED vars
  PROVE  IInv'
<1>1. UNCHANGED <<config, cache, request>>
  BY DEF SetDisabled, UpdateRate, AddRules, Close, Update, vars
<1>2. ThrottlesInv'
  <2>1. CASE UNCHANGED vars
    BY <1>1, <2>1 DEF vars, throttles, cache, backend, IInv, ThrottlesInv
  <2>2. CASE Close
    <3>1. ready' \in BOOLEAN /\ closes' \in Nat
      <4>1. ready' = FALSE /\ closes' = closes + 1
        BY <2>2 DEF Close
      <4>2. closes \in Nat
        BY DEF IInv, ThrottlesInv
      <4>3. closes' \in Nat
        BY <4>1, <4>2
      <4> QED
        BY <4>1, <4>3
    <3>2. UNCHANGED <<disabled, limited, attached, ok, updates>>
      BY <2>2 DEF Close, throttles
    <3> QED
      BY <1>1, <3>1, <3>2 DEF cache, IInv, ThrottlesInv
  <2>3. ASSUME Update PROVE updates' \in Nat /\ UNCHANGED <<config, ready, ok, closes, rules, count, resolved>>
    BY <2>3 DEF Update, backend, cache, IInv, ThrottlesInv
  <2>4. CASE SetDisabled
    <3>1. PICK t \in Throttles : disabled' = [disabled EXCEPT ![t] = ~ disabled[t]] /\ Update /\ UNCHANGED <<limited, attached>>
      BY <2>4 DEF SetDisabled
    <3>2. disabled' \in [Throttles -> BOOLEAN]
      BY <3>1 DEF IInv, ThrottlesInv
    <3> QED
      BY <2>3, <3>1, <3>2 DEF IInv, ThrottlesInv
  <2>5. CASE UpdateRate
    <3>1. PICK t \in Throttles : limited' = [limited EXCEPT ![t] = ~ limited[t]] /\ Update /\ UNCHANGED <<disabled, attached>>
      BY <2>5 DEF UpdateRate
    <3>2. limited' \in [Throttles -> BOOLEAN]
      BY <3>1 DEF IInv, ThrottlesInv
    <3> QED
      BY <2>3, <3>1, <3>2 DEF IInv, ThrottlesInv
  <2>6. CASE AddRules
    <3>1. PICK t \in Throttles, rule \in Rules :
            attached' = [attached EXCEPT ![t] = attached[t] \cup {rule}] /\ Update /\ UNCHANGED <<disabled, limited>>
      BY <2>6 DEF AddRules
    <3>2. attached' \in [Throttles -> SUBSET Rules]
      <4>1. attached[t] \cup {rule} \in SUBSET Rules
        BY DEF IInv, ThrottlesInv
      <4> QED
        BY <3>1, <4>1 DEF IInv, ThrottlesInv
    <3> QED
      BY <2>3, <3>1, <3>2 DEF IInv, ThrottlesInv
  <2> QED
    BY <2>1, <2>2, <2>4, <2>5, <2>6
<1> QED
  BY <1>1, <1>2 DEF IInv, RequestTypes, Passed, request, At, Holds, Fails

\* The invariant holds at first, and every step keeps it.
LEMMA IInvInductive ==
  (Init => IInv) /\ (IInv /\ [Next]_vars => IInv')
<1>1. Init => IInv
  <2> SUFFICES ASSUME Init PROVE IInv
    OBVIOUS
  <2>1. 1 \in 1 .. Len(Chain) + 1
    BY ChainSorted
  <2>2. ThrottlesInv
    BY DEF Init, ThrottlesInv
  <2>3. RequestTypes
    BY <2>1 DEF Init, RequestTypes, Places
  <2>4. \A r \in Requests : Passed(r)
    BY DEF Init, Passed, AtThrottle
  <2> QED
    BY <2>2, <2>3, <2>4 DEF IInv
<1>2. ASSUME IInv, [Next]_vars PROVE IInv'
  <2>1. ASSUME NEW r \in Requests, Step(r) PROVE IInv'
    BY <1>2, <2>1, MiddlewareKeeps, BeginKeeps, CheckRuleKeeps, PrepareKeeps, DecideKeeps, RaiseKeeps DEF Step
  <2> QED
    BY <1>2, <2>1, MeanwhileKeeps DEF Next
<1> QED
  BY <1>1, <1>2

\* The variables of the middleware, its throttles and its requests keep their types.
THEOREM TypeCorrect == Spec => []TypeOK
<1>1. IInv => TypeOK
  <2> SUFFICES ASSUME IInv PROVE TypeOK
    OBVIOUS
  <2>1. Cardinality(Rules) \in Nat /\ \A T \in SUBSET Rules : Cardinality(T) \in Nat /\ Cardinality(T) <= Cardinality(Rules)
    BY FS_Subset, FS_CardinalityType
  <2>2. count \in [Throttles -> 0 .. Cardinality(Rules)]
    <3>1. \A t \in Throttles : count[t] \in 0 .. Cardinality(Rules)
      BY <2>1 DEF IInv, ThrottlesInv
    <3> QED
      BY <3>1 DEF IInv, ThrottlesInv
  <2> QED
    BY <2>2 DEF IInv, ThrottlesInv, RequestTypes, Places, TypeOK
<1> QED
  BY <1>1, IInvInductive, PTL DEF Spec

\* Where refusals raise, a request that was refused ends at the throttle that refused
\* it: no throttle after it in the chain has charged it.
THEOREM RefusalCorrect == Spec => []RefusalEnds
<1>1. IInv => RefusalEnds
  <2> SUFFICES ASSUME IInv, ~ config.skip, NEW r \in Requests, refused[r] # {}
               PROVE  pc[r] = "refused" /\ \A t \in charged[r], u \in refused[r] : Cost[t] <= Cost[u]
    BY DEF RefusalEnds
  <2>1. pc[r] = "refused" /\ refused[r] = {At(r)}
    BY DEF IInv, Passed
  <2>2. pos[r] \in 1 .. Len(Chain) /\ At(r) = Chain[pos[r]]
    BY <2>1, AtThrottleOfChain DEF AtThrottle, At
  <2>3. ASSUME NEW t \in charged[r] PROVE Cost[t] <= Cost[At(r)]
    <3>1. PICK i \in 1 .. Len(Chain) : i <= pos[r] /\ t = Chain[i]
      BY DEF IInv, Passed
    <3> QED
      BY <2>2, <3>1, ChainSorted
  <2> QED
    BY <2>1, <2>3
<1> QED
  BY <1>1, IInvInductive, PTL DEF Spec

\* A request reaches a throttle's strategy only if every rule that had to be checked,
\* those that came from the registry while it was checked among them, holds for it.
THEOREM RulesCorrect == Spec => []RulesDecide
<1>1. IInv => RulesDecide
  BY DEF IInv, Passed, RulesDecide
<1> QED
  BY <1>1, IInvInductive, PTL DEF Spec

----------------------------------------------------------------------------
(* One probe at a time, for any number of calls, thresholds and retries.
   SingleProbe with CircuitTypeOK is inductive: outside HALF_OPEN the flag is down,
   so, until something strays, no probe is running, and a probe that reports
   to a half-open circuit is the only one. *)


CircuitIInv == CircuitTypeOK /\ SingleProbe

USE ThresholdAssumption, RetriesAssumption

\* What a call's step does to the set of probes.
LEMMA ProbesAfter ==
  ASSUME CircuitTypeOK, NEW c \in Calls, NEW r, call' = [call EXCEPT ![c] = r]
  PROVE  Probes' = IF r.pc \in {"primary", "backoff"} /\ r.probe
                   THEN Probes \cup {c} ELSE Probes \ {c}
BY DEF CircuitTypeOK, Probes, Trying

\* The breaker starts closed, with no call under way.
LEMMA CircuitInitIInv == CircuitInit => CircuitIInv
<1> SUFFICES ASSUME CircuitInit PROVE CircuitIInv
  OBVIOUS
<1>1. CircuitTypeOK
  <2>1. 0 \in 0 .. FailureThreshold - 1 /\ 0 \in 0 .. SuccessThreshold - 1
    OBVIOUS
  <2>2. call \in [Calls -> CallType]
    BY DEF CircuitInit, CallType
  <2> QED
    BY <2>1, <2>2 DEF CircuitInit, CircuitTypeOK
<1>2. Probes = {}
  BY DEF CircuitInit, Probes, Trying, Idle
<1> QED
  BY <1>1, <1>2 DEF CircuitInit, CircuitIInv, SingleProbe

BreakerTypeOK == /\ state \in {"CLOSED", "OPEN", "HALF_OPEN"}
                 /\ failures \in 0 .. FailureThreshold - 1
                 /\ successes \in 0 .. SuccessThreshold - 1
                 /\ cooled \in BOOLEAN /\ probing \in BOOLEAN

\* A report keeps the counters below their thresholds and takes the flag down.
LEMMA ReportStep ==
  ASSUME CircuitIInv, RecordSuccess \/ RecordFailure
  PROVE  BreakerTypeOK' /\ probing' = FALSE
<1>1. BreakerTypeOK /\ (probing => state = "HALF_OPEN")
  BY DEF CircuitIInv, CircuitTypeOK, SingleProbe, BreakerTypeOK
<1>2. 0 \in 0 .. FailureThreshold - 1 /\ 0 \in 0 .. SuccessThreshold - 1
  OBVIOUS
<1>3. CASE Opened \/ Closed
  BY <1>2, <1>3 DEF BreakerTypeOK, Opened, Closed
<1>4. CASE UNCHANGED breaker /\ state = "OPEN"
  BY <1>1, <1>4 DEF BreakerTypeOK, breaker
<1>5. CASE state = "CLOSED" /\ failures' = 0 /\ UNCHANGED <<state, successes, cooled, probing>>
  BY <1>1, <1>2, <1>5 DEF BreakerTypeOK
<1>6. CASE /\ state = "CLOSED" /\ failures + 1 < FailureThreshold
           /\ failures' = failures + 1
           /\ UNCHANGED <<state, successes, cooled, probing>>
  <2>1. failures' \in 0 .. FailureThreshold - 1
    BY <1>1, <1>6 DEF BreakerTypeOK
  <2> QED
    BY <1>1, <1>6, <2>1 DEF BreakerTypeOK
<1>7. CASE /\ state = "HALF_OPEN" /\ successes + 1 < SuccessThreshold
           /\ successes' = successes + 1 /\ probing' = FALSE
           /\ UNCHANGED <<state, failures, cooled>>
  <2>1. successes' \in 0 .. SuccessThreshold - 1
    BY <1>1, <1>7 DEF BreakerTypeOK
  <2> QED
    BY <1>1, <1>7, <2>1 DEF BreakerTypeOK
<1> QED
  BY <1>3, <1>4, <1>5, <1>6, <1>7 DEF RecordSuccess, RecordFailure

\* A call is let through: as a probe only if none is running.
LEMMA AllowStep ==
  ASSUME CircuitIInv, NEW c \in Calls, Allow(c)
  PROVE  CircuitIInv'
<1>1. CASE AllowClosed(c)
  <2>1. Probes' = Probes \ {c} /\ c \notin Probes
    <3>1. call' = [call EXCEPT ![c] = [pc |-> "primary", attempt |-> 1, probe |-> FALSE]]
      BY <1>1 DEF AllowClosed, Admit
    <3> QED
      BY <1>1, <3>1, ProbesAfter DEF CircuitIInv, AllowClosed, Probes, Trying, Idle
  <2>2. CircuitTypeOK'
    BY <1>1 DEF CircuitIInv, CircuitTypeOK, AllowClosed, Admit, CallType, breaker
  <2> QED
    BY <1>1, <2>1, <2>2 DEF CircuitIInv, SingleProbe, AllowClosed, breaker
<1>2. CASE AllowCooled(c) \/ AllowProbe(c)
  <2>1. Probes' = Probes \cup {c} /\ probing' = TRUE /\ state' = "HALF_OPEN"
    <3>1. call' = [call EXCEPT ![c] = [pc |-> "primary", attempt |-> 1, probe |-> TRUE]]
      BY <1>2 DEF AllowCooled, AllowProbe, Admit
    <3> QED
      BY <1>2, <3>1, ProbesAfter DEF CircuitIInv, AllowCooled, AllowProbe
  <2>2. CircuitTypeOK'
    <3>1. call' \in [Calls -> CallType]
      <4>1. 1 \in 1 .. MaxRetries
        OBVIOUS
      <4>2. [pc |-> "primary", attempt |-> 1, probe |-> TRUE] \in CallType
        BY <4>1 DEF CallType
      <4>3. call' = [call EXCEPT ![c] = [pc |-> "primary", attempt |-> 1, probe |-> TRUE]]
        BY <1>2 DEF AllowCooled, AllowProbe, Admit
      <4> QED
        BY <4>2, <4>3 DEF CircuitIInv, CircuitTypeOK
    <3>2. successes' \in 0 .. SuccessThreshold - 1
      <4>1. CASE AllowCooled(c)
        <5>1. successes' = 0
          BY <4>1 DEF AllowCooled
        <5> QED
          BY <5>1
      <4>2. CASE AllowProbe(c)
        BY <4>2 DEF CircuitIInv, CircuitTypeOK, AllowProbe
      <4> QED
        BY <1>2, <4>1, <4>2
    <3> QED
      BY <1>2, <2>1, <3>1, <3>2 DEF CircuitIInv, CircuitTypeOK, AllowCooled, AllowProbe
  <2>3. strayed \/ abandoned \/ Probes = {}
    BY <1>2 DEF CircuitIInv, SingleProbe, AllowCooled, AllowProbe
  <2>4. strayed' = strayed /\ abandoned' = abandoned
    BY <1>2 DEF AllowCooled, AllowProbe
  <2> QED
    BY <2>1, <2>2, <2>3, <2>4 DEF CircuitIInv, SingleProbe
<1>3. CASE Refuse(c)
  <2>1. Probes' = Probes \ {c} /\ c \notin Probes
    BY <1>3, ProbesAfter DEF CircuitIInv, Refuse, Refused, Probes, Trying, Idle
  <2>2. CircuitTypeOK'
    BY <1>3 DEF CircuitIInv, CircuitTypeOK, Refuse, CallType, breaker
  <2> QED
    BY <1>3, <2>1, <2>2 DEF CircuitIInv, SingleProbe, Refuse, breaker
<1> QED
  BY <1>1, <1>2, <1>3 DEF Allow

\* A call that reports is gone; unless it strayed it was the only probe, or there
\* was none.
LEMMA ReportsStep ==
  ASSUME CircuitIInv, NEW c \in Calls, Succeeds(c) \/ FailsForGood(c)
  PROVE  CircuitIInv'
<1>1. BreakerTypeOK' /\ probing' = FALSE
  BY ReportStep DEF Succeeds, FailsForGood
<1>2. Probes' = Probes \ {c} /\ call' \in [Calls -> CallType]
  <2>1. call' = [call EXCEPT ![c] = Idle] \/ call' = [call EXCEPT ![c] = Refused]
    BY DEF Succeeds, FailsForGood
  <2>2. CircuitTypeOK
    BY DEF CircuitIInv
  <2>3. Probes' = Probes \ {c}
    BY ZenonT(60), <2>1, <2>2, ProbesAfter DEF Idle, Refused
  <2> QED
    BY <2>1, <2>2, <2>3 DEF CircuitTypeOK, CallType
<1>3. /\ strayed' = (strayed \/ (state = "HALF_OPEN" /\ ~call[c].probe))
      /\ abandoned' = abandoned
      /\ call[c].pc = "primary"
  BY DEF Succeeds, FailsForGood, Reports
<1>4. CircuitTypeOK'
  BY <1>1, <1>2, <1>3 DEF BreakerTypeOK, CircuitTypeOK, CircuitIInv
<1>5. strayed' \/ abandoned' \/ Probes' = {}
  <2>1. CASE c \in Probes
    BY <1>2, <1>3, <2>1 DEF CircuitIInv, SingleProbe
  <2>2. CASE c \notin Probes
    <3>1. state # "HALF_OPEN" \/ strayed'
      BY <1>3, <2>2 DEF Probes, Trying
    <3> QED
      BY <1>2, <1>3, <3>1 DEF CircuitIInv, SingleProbe
  <2> QED
    BY <2>1, <2>2
<1>6. SingleProbe'
  BY <1>1, <1>5 DEF SingleProbe
<1> QED
  BY <1>4, <1>6 DEF CircuitIInv

\* The steps of a call that report nothing.
LEMMA SilentStep ==
  ASSUME CircuitIInv, NEW c \in Calls,
         FailsAndRetries(c) \/ Retry(c) \/ Abandon(c) \/ UseFallback(c)
  PROVE  CircuitIInv'
<1> USE DEF CircuitIInv
<1>1. CASE FailsAndRetries(c) \/ Retry(c)
  <2>1. call[c] \in [pc : {"primary", "backoff"}, attempt : 1 .. MaxRetries, probe : BOOLEAN]
    BY <1>1 DEF FailsAndRetries, Retry, CircuitTypeOK, CallType, Idle, Refused
  <2>2. PICK r \in [pc : {"primary", "backoff"}, attempt : 1 .. MaxRetries, probe : BOOLEAN] :
          call' = [call EXCEPT ![c] = r] /\ r.probe = call[c].probe
    <3>1. CASE FailsAndRetries(c)
      <4>1. call[c].attempt + 1 \in 1 .. MaxRetries
        BY <2>1, <3>1 DEF FailsAndRetries
      <4> DEFINE r == [call[c] EXCEPT !.pc = "backoff", !.attempt = call[c].attempt + 1]
      <4>2. r \in [pc : {"primary", "backoff"}, attempt : 1 .. MaxRetries, probe : BOOLEAN]
        BY <2>1, <4>1
      <4>3. call' = [call EXCEPT ![c] = r] /\ r.probe = call[c].probe
        BY <2>1, <3>1 DEF FailsAndRetries, CircuitTypeOK
      <4> QED
        BY <4>2, <4>3
    <3>2. CASE Retry(c)
      <4> DEFINE r == [call[c] EXCEPT !.pc = "primary"]
      <4>1. r \in [pc : {"primary", "backoff"}, attempt : 1 .. MaxRetries, probe : BOOLEAN]
        BY <2>1
      <4>2. call' = [call EXCEPT ![c] = r] /\ r.probe = call[c].probe
        BY <2>1, <3>2 DEF Retry, CircuitTypeOK
      <4> QED
        BY <4>1, <4>2
    <3> QED
      BY <1>1, <3>1, <3>2
  <2>3. Probes' = Probes
    BY <2>1, <2>2, ProbesAfter DEF Probes, Trying
  <2>4. CircuitTypeOK'
    BY <1>1, <2>2 DEF CircuitTypeOK, CallType, FailsAndRetries, Retry, breaker
  <2> QED
    BY <1>1, <2>3, <2>4 DEF SingleProbe, FailsAndRetries, Retry, breaker
<1>2. CASE Abandon(c)
  <2>1. Probes' = Probes \ {c}
    BY <1>2, ProbesAfter DEF Abandon, Idle
  <2>2. CircuitTypeOK'
    BY <1>2 DEF CircuitTypeOK, CallType, Abandon, breaker, Trying, Idle, Refused
  <2>3. abandoned' \/ c \notin Probes
    BY <1>2 DEF Abandon, Probes
  <2> QED
    BY <1>2, <2>1, <2>2, <2>3 DEF SingleProbe, Abandon, breaker
<1>3. CASE UseFallback(c)
  <2>1. Probes' = Probes \ {c} /\ c \notin Probes
    BY <1>3, ProbesAfter DEF UseFallback, Idle, Refused, Probes, Trying
  <2>2. CircuitTypeOK'
    BY <1>3 DEF CircuitTypeOK, CallType, UseFallback, breaker
  <2> QED
    BY <1>3, <2>1, <2>2 DEF SingleProbe, UseFallback, breaker
<1> QED
  BY <1>1, <1>2, <1>3

\* Time and operators: neither starts nor ends a call.
LEMMA OutsideStep ==
  ASSUME CircuitIInv, Cool \/ ForceOpen \/ ForceClose
  PROVE  CircuitIInv'
<1>1. Probes' = Probes
  BY DEF Cool, ForceOpen, ForceClose, Probes, Trying
<1>2. CASE Cool
  BY <1>1, <1>2 DEF CircuitIInv, CircuitTypeOK, SingleProbe, Cool
<1>3. CASE ForceOpen \/ ForceClose
  <2>1. /\ state' \in {"OPEN", "CLOSED"} /\ failures' = 0 /\ successes' = 0
        /\ cooled' = FALSE /\ probing' = FALSE
        /\ strayed' = (strayed \/ Probes # {})
        /\ call' = call /\ abandoned' = abandoned
    BY <1>3 DEF ForceOpen, ForceClose, Opened, Closed
  <2>2. 0 \in 0 .. FailureThreshold - 1 /\ 0 \in 0 .. SuccessThreshold - 1
    OBVIOUS
  <2>3. CircuitTypeOK'
    BY <2>1, <2>2 DEF CircuitIInv, CircuitTypeOK
  <2>4. SingleProbe'
    BY <1>1, <2>1 DEF SingleProbe
  <2> QED
    BY <2>3, <2>4 DEF CircuitIInv
<1> QED
  BY <1>2, <1>3

\* Every step keeps the invariant.
LEMMA CircuitNextIInv == CircuitIInv /\ [CircuitNext]_circuitVars => CircuitIInv'
<1> SUFFICES ASSUME CircuitIInv, [CircuitNext]_circuitVars PROVE CircuitIInv'
  OBVIOUS
<1>1. ASSUME NEW c \in Calls, Allow(c) \/ Attempt(c) \/ Abandon(c) \/ UseFallback(c)
      PROVE  CircuitIInv'
  BY <1>1, AllowStep, ReportsStep, SilentStep DEF Attempt
<1>2. CASE Cool \/ ForceOpen \/ ForceClose
  BY <1>2, OutsideStep
<1>3. CASE UNCHANGED circuitVars
  BY <1>3 DEF circuitVars, breaker, CircuitIInv, CircuitTypeOK, SingleProbe, Probes, Trying
<1> QED
  BY <1>1, <1>2, <1>3 DEF CircuitNext

\* The invariant of the breaker and its calls.
THEOREM BreakerInvariance == CircuitSpec => []CircuitIInv
BY CircuitInitIInv, CircuitNextIInv, PTL DEF CircuitSpec

\* The breaker's counters stay below their thresholds, its calls within their retries.
THEOREM BreakerTypeCorrect == CircuitSpec => []CircuitTypeOK
<1>1. CircuitIInv => CircuitTypeOK
  BY DEF CircuitIInv
<1> QED
  BY <1>1, BreakerInvariance, PTL

\* Until a late report or a cancellation interferes, at most one probe runs and the
\* flag that shuts out the others is up exactly while it does.
THEOREM SingleProbeHolds == CircuitSpec => []SingleProbe
<1>1. CircuitIInv => SingleProbe
  BY DEF CircuitIInv
<1> QED
  BY <1>1, BreakerInvariance, PTL

\* No call is let through while the circuit is open and has not cooled down.
THEOREM OpenLetsNobodyThroughHolds == CircuitSpec => OpenLetsNobodyThrough
<1>1. ASSUME CircuitTypeOK, [CircuitNext]_circuitVars
      PROVE  [state = "OPEN" /\ ~cooled => \A c \in Calls : Trying(c)' => Trying(c)]_circuitVars
  <2> SUFFICES ASSUME CircuitNext, state = "OPEN", ~cooled, NEW c \in Calls, Trying(c)'
               PROVE  Trying(c)
    BY <1>1 DEF circuitVars
  <2>1. ASSUME NEW d \in Calls, Allow(d) PROVE Trying(c)
    <3>1. Refuse(d)
      BY <2>1 DEF Allow, AllowClosed, AllowCooled, AllowProbe
    <3> QED
      BY <1>1, <3>1 DEF CircuitTypeOK, Refuse, Trying, Refused
  <2>2. ASSUME NEW d \in Calls, Attempt(d) PROVE Trying(c)
    BY <1>1, <2>2 DEF CircuitTypeOK, Attempt, Succeeds, FailsAndRetries, Retry, FailsForGood,
                      Trying, Refused, Idle
  <2>3. ASSUME NEW d \in Calls, Abandon(d) \/ UseFallback(d) PROVE Trying(c)
    BY <1>1, <2>3 DEF CircuitTypeOK, Abandon, UseFallback, Trying, Idle
  <2>4. CASE Cool \/ ForceOpen \/ ForceClose
    BY <2>4 DEF Cool, ForceOpen, ForceClose, Trying
  <2> QED
    BY <2>1, <2>2, <2>3, <2>4 DEF CircuitNext
<1> QED
  BY <1>1, BreakerTypeCorrect, PTL DEF CircuitSpec, OpenLetsNobodyThrough
=============================================================================
