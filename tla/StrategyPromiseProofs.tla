----------------------- MODULE StrategyPromiseProofs -----------------------
EXTENDS StrategyHitsProofs

(***************************************************************************)
(* What the strategies promise whom they turn away, and whom they answer:  *)
(* a request that comes back after the wait it was told is admitted        *)
(* (HonestWaits), and get_stat reports what a hit finds (StatsForetell).   *)
(*                                                                         *)
(* The invariant, Told, says that nothing is stored with a time that is    *)
(* yet to come and that the count of the current window is not negative.   *)
(* Each strategy has a lemma on the wait it tells (Enough) and one on      *)
(* what get_stat says of it (Foretold); the counter, which takes several   *)
(* steps for a hit, has one for each step.                                 *)
(***************************************************************************)

----------------------------------------------------------------------------
(* What a request is told.  WaitHonest and StatPredictsHit are about every cell a
   strategy may find; each strategy has a lemma for either. *)

\* get_stat reports what a hit at that instant would find.
Foretold(r, c, t, cost) ==
  HitOf(r, c, t, cost, t).wait = 0 <=> cost * r.period <= StatOf(r, c, t).remaining

WaitForetold(r, c, t) == StatOf(r, c, t).wait = 0 <=> HitOf(r, c, t, 1, t).wait = 0

\* A request that comes back after the wait it was told is admitted.
Enough(r, c, now, cost, at) ==
  LET first == HitOf(r, c, now, cost, at)
      back  == at + first.wait
  IN  first.wait \in Nat /\ (first.wait > 0 => HitOf(r, first.cell, back, cost, back).wait = 0)

\* A wait that is rounded up covers what is missing.
LEMMA CeilDivCovers ==
  ASSUME NEW n \in Nat \ {0}, NEW d \in Nat \ {0}
  PROVE  CeilDiv(n, d) \in Nat \ {0} /\ n <= d * CeilDiv(n, d)
<1> DEFINE q == (n + d - 1) \div d
<1>1. q \in Int /\ n + d - 1 < d * q + d
  BY DivBounds
<1>2. d * q \in Int
  BY <1>1
<1> HIDE DEF q
<1> DEFINE x == d * q
<1>3. x \in Int /\ n + d - 1 < x + d
  BY <1>1, <1>2
<1> HIDE DEF x
<1>4. n <= x
  BY <1>3
<1> QED
  BY <1>4, CeilDivPositive DEF CeilDiv, q, x

\* Multiples compare as their factors do.
LEMMA MultiplesCompare ==
  ASSUME NEW p \in Nat \ {0}, NEW x \in Int, NEW y \in Int
  PROVE  x * p \in Int /\ y * p \in Int /\ (x * p <= y * p <=> x <= y)
<1>1. x * p = p * x /\ y * p = p * y /\ p * x \in Int /\ p * y \in Int
  OBVIOUS
<1>2. x <= y => p * x <= p * y
  BY ProductGrows
<1>3. y + 1 <= x => p * (y + 1) <= p * x /\ p * (y + 1) = p * y + p
  <2>1. y + 1 <= x => p * (y + 1) <= p * x
    BY ProductGrows
  <2>2. p * (y + 1) = p * y + p * 1
    BY ProductSplits
  <2> QED
    BY <2>1, <2>2
<1> DEFINE px == p * x
           py == p * y
<1> HIDE DEF px, py
<1>4. px \in Int /\ py \in Int /\ (x <= y => px <= py) /\ (y + 1 <= x => py + p <= px)
  BY <1>1, <1>2, <1>3 DEF px, py
<1>5. px <= py <=> x <= y
  BY <1>4
<1> QED
  BY <1>1, <1>5 DEF px, py

\* What is left of a limit: none, if it is exceeded.
LEMMA LeftOver ==
  ASSUME NEW p \in Nat \ {0}, NEW x \in Int, NEW cost \in Nat \ {0}
  PROVE  cost * p <= AtLeast(x, 0) * p <=> cost <= x
<1>1. AtLeast(x, 0) \in Int
  BY DEF AtLeast
<1>2. cost * p <= AtLeast(x, 0) * p <=> cost <= AtLeast(x, 0)
  BY <1>1, MultiplesCompare
<1>3. cost <= AtLeast(x, 0) <=> cost <= x
  BY DEF AtLeast
<1> QED
  BY <1>2, <1>3

\* Each strategy's get_stat is the function of its name.
LEMMA StatOfIs ==
  ASSUME NEW r, NEW c, NEW now
  PROVE  /\ r.strategy = "fixed_window" => StatOf(r, c, now) = FixedWindowStat(r, c, now)
         /\ r.strategy = "sliding_window_log" => StatOf(r, c, now) = SlidingWindowLogStat(r, c, now)
         /\ r.strategy = "priority_queue" => StatOf(r, c, now) = PriorityQueueStat(r, c, now)
         /\ r.strategy = "token_bucket" => StatOf(r, c, now) = TokenBucketStat(r, c, now)
         /\ r.strategy = "leaky_bucket" => StatOf(r, c, now) = LeakyBucketStat(r, c, now)
         /\ r.strategy = "leaky_bucket_queue" => StatOf(r, c, now) = LeakyBucketQueueStat(r, c, now)
         /\ r.strategy = "cost_based_token_bucket" => StatOf(r, c, now) = CostBasedTokenBucketStat(r, c, now)
         /\ r.strategy = "gcra" => StatOf(r, c, now) = GCRAStat(r, c, now)
         /\ r.strategy = "tiered_rate" => StatOf(r, c, now) = TieredRateStat(r, c, now)
         /\ r.strategy = "time_of_day" => StatOf(r, c, now) = TieredRateStat(r, c, now)
         /\ r.strategy = "quota_with_rollover" => StatOf(r, c, now) = QuotaWithRolloverStat(r, c, now)
         /\ r.strategy = "sliding_window_counter" => StatOf(r, c, now) = SlidingWindowCounterStat(r, c, now)
BY DEF StatOf, Stat, TimeOfDayStat

(* Fixed window. *)

\* What the counter of a fixed window holds, and how long the window lasts.
HeldIn(r, c, now, at) == IF InWindow(r, c, now, at) THEN c.count ELSE 0

LeftOf(r, now) == r.period - (now - WindowStart(r, now))

FixedWindowSays(r, c, now, cost, at) ==
  /\ HeldIn(r, c, now, at) \in Nat /\ LeftOf(r, now) \in Nat \ {0}
  /\ FixedWindow(r, c, now, cost, at).wait =
       IF HeldIn(r, c, now, at) + cost > r.limit THEN LeftOf(r, now) ELSE 0
  /\ r.period < Second => FixedWindow(r, c, now, cost, at).cell.start = WindowStart(r, now)

\* A fixed window admits what fits on top of its count.
LEMMA FixedWindowAdmits ==
  ASSUME NEW r, RateOK(r), NEW c, CounterCell(c), NEW now \in Nat, NEW at \in Nat, NEW cost \in Nat \ {0}
  PROVE  FixedWindowSays(r, c, now, cost, at)
<1> DEFINE held  == HeldIn(r, c, now, at)
           until == LeftOf(r, now)
           out   == FixedWindow(r, c, now, cost, at)
           new   == Counted(r, IF InWindow(r, c, now, at) THEN c ELSE Absent, now, cost, at)
<1>1. until \in Nat \ {0}
  BY WindowStartBounds DEF RateOK, LeftOf
<1>2. out.cell = new /\ out.wait = IF new.count > r.limit THEN until ELSE 0
  BY DEF FixedWindow, Outcome, LeftOf
<1>3. CASE InWindow(r, c, now, at)
  <2>1. Live(c, at) /\ c \in [start : Int, count : Nat \ {0}, exp : Nat]
    BY <1>3, AbsentIsDead DEF InWindow, CounterCell
  <2>2. new = [c EXCEPT !.count = @ + cost]
    BY <1>3, <2>1 DEF Counted
  <2>3. new.count = held + cost /\ new.start = c.start /\ held \in Nat
    BY <1>3, <2>1, <2>2 DEF HeldIn
  <2> QED
    BY <1>1, <1>2, <1>3, <2>3 DEF InWindow, FixedWindowSays
<1>4. CASE ~ InWindow(r, c, now, at)
  <2>1. ~ Live(Absent, at)
    BY AbsentIsDead
  <2>2. new = [start |-> WindowStart(r, now), count |-> cost, exp |-> at + FixedWindowTTL(r)]
    BY <1>4, <2>1 DEF Counted
  <2>3. new.count = held + cost /\ new.start = WindowStart(r, now) /\ held \in Nat
    BY <1>4, <2>2 DEF HeldIn
  <2> QED
    BY <1>1, <1>2, <2>3 DEF FixedWindowSays
<1> QED
  BY <1>3, <1>4 DEF FixedWindowSays

\* get_stat of the fixed window looks at the same counter as its hit.
LEMMA FixedWindowForetold ==
  ASSUME NEW r, RateOK(r), r.strategy = "fixed_window", NEW c, CounterCell(c), NEW t \in Nat, NEW cost \in Nat \ {0}
  PROVE  Foretold(r, c, t, cost) /\ WaitForetold(r, c, t)
<1> DEFINE held  == HeldIn(r, c, t, t)
           until == LeftOf(r, t)
<1>1. held \in Nat /\ until \in Nat \ {0}
  BY FixedWindowAdmits DEF FixedWindowSays
<1>2. \A n \in Nat \ {0} : HitOf(r, c, t, n, t).wait = IF held + n > r.limit THEN until ELSE 0
  <2> SUFFICES ASSUME NEW n \in Nat \ {0}
               PROVE  HitOf(r, c, t, n, t).wait = IF held + n > r.limit THEN until ELSE 0
    OBVIOUS
  <2>1. FixedWindowSays(r, c, t, n, t)
    BY FixedWindowAdmits
  <2> QED
    BY <2>1, HitOfIs DEF FixedWindowSays
<1>3. StatOf(r, c, t) = [remaining |-> AtLeast(r.limit - held, 0) * r.period,
                         wait |-> IF held >= r.limit THEN until ELSE 0]
  BY StatOfIs DEF FixedWindowStat, HeldIn, LeftOf
<1> HIDE DEF held, until
<1>4. r.limit \in Nat /\ r.period \in Nat \ {0} /\ r.limit - held \in Int
  BY <1>1 DEF RateOK
<1>5. cost * r.period <= AtLeast(r.limit - held, 0) * r.period <=> cost <= r.limit - held
  BY <1>4, LeftOver
<1>6. HitOf(r, c, t, cost, t).wait = 0 <=> cost <= r.limit - held
  BY <1>1, <1>2, <1>4
<1>7. HitOf(r, c, t, 1, t).wait = 0 <=> ~ (held >= r.limit)
  BY <1>1, <1>2, <1>4
<1>8. StatOf(r, c, t).wait = 0 <=> ~ (held >= r.limit)
  BY <1>1, <1>3
<1> QED
  BY <1>3, <1>5, <1>6, <1>7, <1>8 DEF Foretold, WaitForetold

\* The wait to the end of a fixed window leads into one with an empty counter.
LEMMA FixedWindowEnough ==
  ASSUME NEW r, RateOK(r), r.strategy = "fixed_window", r.period < Second, NEW c, CounterCell(c),
         NEW now \in Nat, NEW at \in Nat, now <= at, NEW cost \in Costs, cost <= r.limit
  PROVE  Enough(r, c, now, cost, at)
<1> DEFINE first == HitOf(r, c, now, cost, at)
           back  == at + first.wait
<1>1. cost \in Nat \ {0} /\ r.limit \in Nat /\ r.period \in Nat \ {0}
  BY ScenariosAssumption DEF RateOK
<1>2. /\ LeftOf(r, now) \in Nat \ {0} /\ first.wait \in {0, LeftOf(r, now)}
      /\ first.cell.start = WindowStart(r, now)
  <2>1. first = FixedWindow(r, c, now, cost, at)
    BY HitOfIs
  <2> HIDE DEF first
  <2>2. FixedWindowSays(r, c, now, cost, at)
    BY <1>1, FixedWindowAdmits
  <2> QED
    BY <2>1, <2>2 DEF FixedWindowSays
<1>3. CounterCell(first.cell)
  BY FixedWindowStep, HitOfIs DEF CounterCell
<1> HIDE DEF first
<1>4. first.wait \in Nat /\ back \in Nat
  BY <1>2
<1>5. ASSUME first.wait > 0 PROVE HitOf(r, first.cell, back, cost, back).wait = 0
  <2>1. WindowStart(r, now) \in Int /\ first.wait = r.period - (now - WindowStart(r, now))
    BY <1>2, <1>5, WindowStartBounds DEF LeftOf
  <2>2. back >= WindowStart(r, now) + r.period
    BY <1>1, <2>1
  <2>3. WindowStart(r, back) \in Int /\ back < WindowStart(r, back) + r.period
    BY <1>4, WindowStartBounds
  <2>4. WindowStart(r, back) # WindowStart(r, now)
    BY <1>1, <1>4, <2>1, <2>2, <2>3
  <2>5. ~ InWindow(r, first.cell, back, back)
    BY <1>2, <2>4 DEF InWindow
  <2> HIDE DEF back
  <2>6. HeldIn(r, first.cell, back, back) = 0
    BY <2>5 DEF HeldIn
  <2>7. FixedWindow(r, first.cell, back, cost, back).wait = 0
    <3>1. FixedWindowSays(r, first.cell, back, cost, back)
      BY <1>1, <1>3, <1>4, FixedWindowAdmits
    <3> QED
      BY <1>1, <2>6, <3>1 DEF FixedWindowSays
  <2> QED
    BY <2>7, HitOfIs
<1> QED
  BY <1>4, <1>5 DEF Enough, first

(* Logs. *)

\* A log admits what fits on top of the entries within the period.
LEMMA LogForetold ==
  ASSUME NEW r, RateOK(r), r.strategy \in {"sliding_window_log", "priority_queue"}, NEW c, LogCell(r, c),
         NEW t \in Nat, NEW cost \in Nat \ {0}
  PROVE  Foretold(r, c, t, cost) /\ WaitForetold(r, c, t)
<1> DEFINE valid == Within(r, LogAt(c, t), t)
           sum   == LogCost(valid)
           wait  == UntilOldestLeaves(r, valid, t)
<1>1. LogAt(c, t) \in Logs
  BY LogAtType
<1>2. sum \in Nat /\ wait \in Nat \ {0}
  BY <1>1, WithinType, LogCostType, OldestLeavesLater
<1>3. r.limit \in Nat \ {0} /\ r.period \in Nat \ {0}
  BY DEF RateOK
<1>4. valid = {} => sum = 0
  BY LogCostEmpty
<1>5. \A n \in Nat \ {0} : HitOf(r, c, t, n, t).wait = 0 <=> ~ (sum + n > r.limit)
  <2> SUFFICES ASSUME NEW n \in Nat \ {0} PROVE HitOf(r, c, t, n, t).wait = 0 <=> ~ (sum + n > r.limit)
    OBVIOUS
  <2>1. CASE r.strategy = "sliding_window_log"
    <3>1. HitOf(r, c, t, n, t).wait = IF sum + n > r.limit THEN wait ELSE 0
      BY <2>1, HitOfIs DEF SlidingWindowLog, Outcome
    <3> HIDE DEF wait, sum
    <3> QED
      BY <1>2, <3>1
  <2>2. CASE r.strategy = "priority_queue"
    <3>1. HitOf(r, c, t, n, t).wait =
            IF sum + n > r.limit THEN IF valid = {} THEN r.period ELSE wait ELSE 0
      BY <2>2, HitOfIs DEF PriorityQueue, Outcome
    <3> HIDE DEF wait, sum
    <3> QED
      BY <1>2, <1>3, <3>1
  <2> QED
    BY <2>1, <2>2
<1>6. StatOf(r, c, t).wait = 0 <=> ~ (sum >= r.limit)
  <2>1. CASE r.strategy = "sliding_window_log"
    <3>1. StatOf(r, c, t).wait = IF sum >= r.limit /\ valid # {} THEN wait ELSE 0
      BY <2>1, StatOfIs DEF SlidingWindowLogStat
    <3> HIDE DEF wait, sum, valid
    <3> QED
      BY <1>2, <1>3, <1>4, <3>1
  <2>2. CASE r.strategy = "priority_queue"
    <3>1. StatOf(r, c, t).wait = IF sum < r.limit THEN 0 ELSE IF valid = {} THEN r.period ELSE wait
      BY <2>2, StatOfIs DEF PriorityQueueStat
    <3> HIDE DEF wait, sum, valid
    <3> QED
      BY <1>2, <1>3, <1>4, <3>1
  <2> QED
    BY <2>1, <2>2
<1>7. StatOf(r, c, t).remaining = AtLeast(r.limit - sum, 0) * r.period
  BY StatOfIs DEF SlidingWindowLogStat, PriorityQueueStat
<1> HIDE DEF sum, wait, valid
<1>8. cost * r.period <= AtLeast(r.limit - sum, 0) * r.period <=> cost <= r.limit - sum
  <2>1. r.limit - sum \in Int
    BY <1>2, <1>3
  <2> QED
    BY <1>3, <2>1, LeftOver
<1>9. HitOf(r, c, t, cost, t).wait = 0 <=> cost <= r.limit - sum
  BY <1>2, <1>3, <1>5
<1>10. HitOf(r, c, t, 1, t).wait = 0 <=> ~ (sum >= r.limit)
  BY <1>2, <1>3, <1>5
<1> QED
  BY <1>6, <1>7, <1>8, <1>9, <1>10 DEF Foretold, WaitForetold

\* Once the oldest entry has left there is room for one of cost 1.
LEMMA OldestLeft ==
  ASSUME NEW r, RateOK(r), NEW L \in Logs, LogCost(L) <= r.limit, NEW now \in Nat, NEW back \in Nat,
         Within(r, L, now) # {}, back >= now + UntilOldestLeaves(r, Within(r, L, now), now)
  PROVE  LogCost(Within(r, L, back)) + 1 <= r.limit
<1> DEFINE valid == Within(r, L, now)
           later == Within(r, L, back)
           T == {e.ts : e \in valid}
<1>1. r.period \in Nat \ {0} /\ r.limit \in Nat
  BY DEF RateOK
<1>2. \A e \in L : e \in [ts : Nat, nth : Nat, cost : Costs]
  BY DEF Logs
<1>3. T \in SUBSET Nat /\ T # {}
  BY <1>2 DEF Within
<1>4. PICK t \in T : \A u \in T : t <= u
  BY <1>3, LeastNumber
<1>5. Min(T) \in T
  BY <1>4 DEF Min
<1>6. PICK e \in valid : e.ts = Min(T)
  BY <1>5
<1>7. e \in L /\ e.ts \in Nat
  BY <1>2 DEF Within
<1>8. UntilOldestLeaves(r, valid, now) = e.ts + r.period - now
  BY <1>6 DEF UntilOldestLeaves
<1>9. e.ts <= back - r.period
  <2> HIDE DEF valid
  <2> QED
    BY <1>1, <1>7, <1>8 DEF valid
<1>10. later \subseteq L /\ later \in Logs /\ e \notin later
  <2>1. later \subseteq L /\ later \in Logs
    BY WithinType
  <2>2. ~ (e.ts > back - r.period)
    BY <1>1, <1>7, <1>9
  <2>3. e \notin later
    BY <2>2 DEF Within
  <2> QED
    BY <2>1, <2>3
<1>11. later \cup {e} \in SUBSET L
  BY <1>7, <1>10
<1>12. LogCost(later \cup {e}) = LogCost(later) + e.cost /\ LogCost(later \cup {e}) <= LogCost(L)
  BY <1>2, <1>7, <1>10, <1>11, LogCostAdd, LogCostGrows
<1>13. e.cost \in Nat \ {0}
  BY <1>2, <1>7, ScenariosAssumption
<1>14. LogCost(later) \in Nat /\ LogCost(L) \in Nat
  BY <1>10, LogCostType
<1> HIDE DEF later
<1> QED
  BY <1>1, <1>12, <1>13, <1>14 DEF later

\* The wait until a log's oldest entry leaves makes room for one more.
LEMMA LogEnough ==
  ASSUME NEW r, RateOK(r), r.strategy \in {"sliding_window_log", "priority_queue"}, NEW c, LogCell(r, c),
         NEW now \in Nat, NEW at \in Nat, now <= at, NEW cost \in Costs, cost = 1
  PROVE  Enough(r, c, now, cost, at)
<1> DEFINE L     == LogAt(c, at)
           valid == Within(r, L, now)
           wait  == UntilOldestLeaves(r, valid, now)
           first == HitOf(r, c, now, cost, at)
           back  == at + first.wait
<1>1. L \in Logs /\ LogCost(L) <= r.limit
  BY LogAtType
<1>2. valid \in Logs /\ LogCost(valid) <= r.limit /\ LogCost(valid) \in Nat /\ wait \in Nat \ {0}
  <2>1. valid \in Logs /\ LogCost(valid) <= LogCost(L)
    BY <1>1, WithinType
  <2>2. LogCost(L) \in Nat /\ LogCost(valid) \in Nat
    BY <1>1, <2>1, LogCostType
  <2>3. wait \in Nat \ {0}
    BY <1>1, OldestLeavesLater
  <2> HIDE DEF L, valid, wait
  <2> QED
    BY <1>1, <2>1, <2>2, <2>3 DEF RateOK
<1>3. r.limit \in Nat \ {0} /\ r.period \in Nat \ {0}
  BY DEF RateOK
<1>4. valid = {} => ~ (LogCost(valid) + cost > r.limit)
  BY <1>3, LogCostEmpty
<1>5. first = IF LogCost(valid) + cost > r.limit
              THEN Outcome(wait, IF r.strategy = "sliding_window_log"
                                 THEN [log |-> valid, exp |-> at + LogTTL(r)] ELSE c)
              ELSE Outcome(0, first.cell)
  <2>1. CASE r.strategy = "sliding_window_log"
    BY <2>1, HitOfIs DEF SlidingWindowLog, Outcome
  <2>2. CASE r.strategy = "priority_queue"
    <3>1. first = PriorityQueue(r, c, now, cost, at)
      BY <2>2, HitOfIs
    <3>2. r.strategy # "sliding_window_log"
      BY <2>2
    <3>3. LogCost(valid) + cost > r.limit => valid # {}
      BY <1>4
    <3> HIDE DEF first
    <3> QED
      BY <3>1, <3>2, <3>3 DEF PriorityQueue, Outcome
  <2> QED
    BY <2>1, <2>2
<1> HIDE DEF first
<1>6. first.wait \in Nat
  BY <1>2, <1>5 DEF Outcome
<1>7. ASSUME first.wait > 0 PROVE HitOf(r, first.cell, back, cost, back).wait = 0
  <2>1. LogCost(valid) + cost > r.limit
    BY <1>5, <1>7 DEF Outcome
  <2>2. /\ first.wait = wait
        /\ first.cell = IF r.strategy = "sliding_window_log" THEN [log |-> valid, exp |-> at + LogTTL(r)] ELSE c
    BY <1>5, <2>1 DEF Outcome
  <2>3. valid # {}
    BY <1>4, <2>1
  <2>4. back \in Nat /\ back >= now + wait /\ back >= at
    BY <1>2, <2>2
  <2> DEFINE K == LogAt(first.cell, back)
  <2>5. K \subseteq L
    <3>1. CASE r.strategy = "sliding_window_log"
      <4>1. first.cell.log = valid
        BY <2>2, <3>1
      <4> QED
        BY <4>1 DEF LogAt, Within
    <3>2. CASE r.strategy # "sliding_window_log"
      <4>1. first.cell = c
        BY <2>2, <3>2
      <4>2. Live(c, back) => Live(c, at)
        <5>1. c.exp \in Int
          BY DEF LogCell, Absent
        <5> HIDE DEF back
        <5> QED
          BY <2>4, <5>1 DEF Live
      <4> QED
        BY <4>1, <4>2 DEF LogAt
    <3> QED
      BY <3>1, <3>2
  <2> HIDE DEF K, back, wait
  <2>6. LogCost(Within(r, L, back)) + 1 <= r.limit
    BY <1>1, <2>3, <2>4, OldestLeft DEF wait
  <2>7. Within(r, K, back) \in SUBSET Within(r, L, back) /\ Within(r, L, back) \in Logs
    BY <1>1, <2>5, WithinType DEF Within
  <2> DEFINE now2 == LogCost(Within(r, K, back))
  <2>8. now2 \in Nat /\ now2 <= LogCost(Within(r, L, back)) /\ LogCost(Within(r, L, back)) \in Nat
    BY <2>7, LogCostGrows, LogCostType
  <2> HIDE DEF now2
  <2>9. ~ (now2 + cost > r.limit)
    BY <1>3, <2>6, <2>8
  <2>10. CASE r.strategy = "sliding_window_log"
    BY <2>9, <2>10, HitOfIs DEF SlidingWindowLog, Outcome, now2, K
  <2>11. CASE r.strategy = "priority_queue"
    BY <2>9, <2>11, HitOfIs DEF PriorityQueue, Outcome, now2, K
  <2> QED
    BY <2>10, <2>11
<1> QED
  BY <1>6, <1>7 DEF Enough, first

(* Buckets. *)

\* What a token bucket lacks for a hit.
Lacking(r, c, now, cost, at) == (cost - r.debt) * r.period - Tokens(r, c, now, at)

TokenBucketSays(r, c, now, cost, at) ==
  /\ Tokens(r, c, now, at) \in Int /\ Tokens(r, c, now, at) <= r.capacity * r.period
  /\ Lacking(r, c, now, cost, at) \in Int
  /\ Lacking(r, c, now, cost, at) = cost * r.period - r.debt * r.period - Tokens(r, c, now, at)
  /\ cost * r.period \in Int /\ r.debt * r.period \in Int
  /\ Lacking(r, c, now, cost, at) <= 0 => TokenBucket(r, c, now, cost, at).wait = 0
  /\ Lacking(r, c, now, cost, at) > 0 =>
       /\ TokenBucket(r, c, now, cost, at).wait = CeilDiv(Lacking(r, c, now, cost, at), r.limit)
       /\ TokenBucket(r, c, now, cost, at).wait \in Nat \ {0}
       /\ Lacking(r, c, now, cost, at) <= r.limit * TokenBucket(r, c, now, cost, at).wait
       /\ TokenBucket(r, c, now, cost, at).cell =
            [tokens |-> Tokens(r, c, now, at), last |-> now, exp |-> at + BucketTTL(r)]

\* A token bucket admits what it holds and may owe.
LEMMA TokenBucketAdmits ==
  ASSUME NEW r, RateOK(r), NEW c, TokenCell(r, c), NEW now \in Nat, NEW at \in Nat, NEW cost \in Nat \ {0}
  PROVE  TokenBucketSays(r, c, now, cost, at)
<1> DEFINE tokens == Tokens(r, c, now, at)
           short  == (cost - r.debt) * r.period - tokens
           out    == TokenBucket(r, c, now, cost, at)
           full   == r.capacity * r.period
<1>1. r.limit \in Nat \ {0} /\ r.period \in Nat \ {0} /\ r.capacity \in Nat /\ r.debt \in Nat
  BY DEF RateOK
<1>2. full \in Int
  BY <1>1
<1>3. tokens \in Int /\ tokens <= full
  <2>1. CASE Live(c, at)
    <3>1. c.tokens \in Int /\ c.last \in Nat
      BY <2>1, AbsentIsDead DEF TokenCell
    <3> DEFINE gain == r.limit * (now - c.last)
    <3>2. gain \in Int
      BY <1>1, <3>1
    <3>3. tokens = AtMost(c.tokens + gain, full)
      BY <2>1 DEF Tokens
    <3> HIDE DEF gain, full
    <3> QED
      BY <1>2, <3>1, <3>2, <3>3 DEF AtMost
  <2>2. CASE ~ Live(c, at)
    BY <1>2, <2>2 DEF Tokens
  <2> QED
    BY <2>1, <2>2
<1> HIDE DEF tokens
<1>4. /\ cost * r.period \in Int /\ r.debt * r.period \in Int
      /\ (cost - r.debt) * r.period = cost * r.period - r.debt * r.period
  <2>1. cost \in Int /\ r.debt \in Int /\ cost - r.debt \in Int
    BY <1>1
  <2>2. r.period * (cost - r.debt) = r.period * cost - r.period * r.debt
    BY <1>1, <2>1, ProductSplits
  <2>3. \A x \in Int : x * r.period = r.period * x /\ x * r.period \in Int
    BY <1>1
  <2> QED
    BY <2>1, <2>2, <2>3
<1>5. short \in Int /\ short = cost * r.period - r.debt * r.period - tokens
  BY <1>3, <1>4
<1>6. out = IF short <= 0
            THEN Outcome(0, [tokens |-> tokens - cost * r.period, last |-> now, exp |-> at + BucketTTL(r)])
            ELSE Outcome(CeilDiv(short, r.limit), [tokens |-> tokens, last |-> now, exp |-> at + BucketTTL(r)])
  BY DEF TokenBucket, tokens
<1> HIDE DEF short, out
<1>7. short > 0 => CeilDiv(short, r.limit) \in Nat \ {0} /\ short <= r.limit * CeilDiv(short, r.limit)
  BY <1>1, <1>5, CeilDivCovers
<1>8. short <= 0 => out.wait = 0
  BY <1>6 DEF Outcome
<1>9. short > 0 => /\ out.wait = CeilDiv(short, r.limit)
                   /\ out.cell = [tokens |-> tokens, last |-> now, exp |-> at + BucketTTL(r)]
  BY <1>5, <1>6 DEF Outcome
<1> QED
  BY <1>3, <1>4, <1>5, <1>7, <1>8, <1>9 DEF tokens, short, out, full, Lacking, TokenBucketSays

\* get_stat of the token bucket refills as its hit does.
LEMMA TokenBucketForetold ==
  ASSUME NEW r, RateOK(r), r.strategy = "token_bucket", NEW c, TokenCell(r, c), NEW t \in Nat, NEW cost \in Nat \ {0}
  PROVE  Foretold(r, c, t, cost) /\ WaitForetold(r, c, t)
<1> DEFINE tokens == Tokens(r, c, t, t)
           owed   == r.debt * r.period
           spend  == tokens + owed
<1>1. r.limit \in Nat \ {0} /\ r.period \in Nat \ {0}
  BY DEF RateOK
<1>2. tokens \in Int /\ owed \in Int
  BY TokenBucketAdmits DEF TokenBucketSays
<1>3. \A n \in Nat \ {0} : n * r.period \in Int /\ (HitOf(r, c, t, n, t).wait = 0 <=> n * r.period <= spend)
  <2> SUFFICES ASSUME NEW n \in Nat \ {0}
               PROVE  n * r.period \in Int /\ (HitOf(r, c, t, n, t).wait = 0 <=> n * r.period <= spend)
    OBVIOUS
  <2> DEFINE price == n * r.period
             short == Lacking(r, c, t, n, t)
             wait  == TokenBucket(r, c, t, n, t).wait
  <2>1. /\ short \in Int /\ short = price - owed - tokens /\ price \in Int
        /\ short <= 0 => wait = 0
        /\ short > 0 => wait \in Nat \ {0}
    <3>1. TokenBucketSays(r, c, t, n, t)
      BY TokenBucketAdmits
    <3> QED
      BY <3>1 DEF TokenBucketSays
  <2>2. HitOf(r, c, t, n, t).wait = wait
    BY HitOfIs
  <2> HIDE DEF price, short, tokens, owed, wait
  <2> QED
    BY <1>2, <2>1, <2>2 DEF price
<1>4. StatOf(r, c, t) = [remaining |-> AtLeast(spend, 0),
                         wait |-> IF spend < r.period THEN CeilDiv(r.period - spend, r.limit) ELSE 0]
  BY StatOfIs DEF TokenBucketStat
<1> HIDE DEF spend
<1>5. spend \in Int
  BY <1>2 DEF spend
<1>6. spend < r.period => CeilDiv(r.period - spend, r.limit) \in Nat \ {0}
  BY <1>1, <1>5, CeilDivPositive
<1>7. StatOf(r, c, t).wait = 0 <=> r.period <= spend
  BY <1>1, <1>4, <1>5, <1>6
<1>8. HitOf(r, c, t, 1, t).wait = 0 <=> r.period <= spend
  <2>1. 1 * r.period = r.period /\ 1 \in Nat \ {0}
    BY <1>1
  <2> QED
    BY <1>3, <2>1
<1>9. cost * r.period <= AtLeast(spend, 0) <=> cost * r.period <= spend
  <2>1. cost * r.period >= 0 /\ cost * r.period # 0
    <3>1. 1 * r.period <= cost * r.period
      BY <1>1, MultiplesCompare
    <3> QED
      BY <1>1, <1>3, <3>1
  <2> DEFINE price == cost * r.period
  <2>2. price \in Int /\ price >= 0 /\ price # 0
    BY <1>3, <2>1
  <2> HIDE DEF price
  <2>3. price <= AtLeast(spend, 0) <=> price <= spend
    BY <1>5, <2>2 DEF AtLeast
  <2> QED
    BY <2>3 DEF price
<1> QED
  BY <1>3, <1>4, <1>7, <1>8, <1>9 DEF Foretold, WaitForetold

\* The wait of a token bucket lets flow in what was missing.
LEMMA TokenBucketEnough ==
  ASSUME NEW r, RateOK(r), r.strategy = "token_bucket", NEW c, TokenCell(r, c),
         NEW now \in Nat, NEW at \in Nat, now <= at, NEW cost \in Costs, cost <= r.capacity + r.debt
  PROVE  Enough(r, c, now, cost, at)
<1> DEFINE tokens == Tokens(r, c, now, at)
           owed   == r.debt * r.period
           price  == cost * r.period
           full   == r.capacity * r.period
           short  == Lacking(r, c, now, cost, at)
           first  == HitOf(r, c, now, cost, at)
           back   == at + first.wait
<1>1. /\ r.limit \in Nat \ {0} /\ r.period \in Nat \ {0} /\ r.capacity \in Nat /\ r.debt \in Nat
      /\ cost \in Nat \ {0} /\ BucketTTL(r) \in Nat
  BY ScenariosAssumption, TTLsPositive DEF RateOK, TTLs
<1>2. /\ tokens \in Int /\ tokens <= full /\ short \in Int /\ short = price - owed - tokens /\ price \in Int /\ owed \in Int
      /\ short <= 0 => first.wait = 0
      /\ short > 0 => /\ first.wait \in Nat \ {0} /\ short <= r.limit * first.wait
                      /\ first.cell = [tokens |-> tokens, last |-> now, exp |-> at + BucketTTL(r)]
  <2>1. first = TokenBucket(r, c, now, cost, at)
    BY HitOfIs
  <2> HIDE DEF first
  <2>2. TokenBucketSays(r, c, now, cost, at)
    BY <1>1, TokenBucketAdmits
  <2> QED
    BY <2>1, <2>2 DEF TokenBucketSays
<1>3. full \in Int /\ price <= full + owed
  <2>1. (r.capacity + r.debt) * r.period = full + owed
    <3>1. r.period * (r.capacity + r.debt) = r.period * r.capacity + r.period * r.debt
      BY <1>1, ProductSplits
    <3>2. \A x \in Int : x * r.period = r.period * x
      BY <1>1
    <3>3. r.capacity \in Int /\ r.debt \in Int /\ r.capacity + r.debt \in Int
      BY <1>1
    <3> QED
      BY <3>1, <3>2, <3>3
  <2>2. price <= (r.capacity + r.debt) * r.period
    BY <1>1, MultiplesCompare
  <2>3. full \in Int
    BY <1>1
  <2> QED
    BY <2>1, <2>2, <2>3
<1> HIDE DEF tokens, short, first
<1>4. first.wait \in Nat
  BY <1>2
<1>5. ASSUME first.wait > 0 PROVE HitOf(r, first.cell, back, cost, back).wait = 0
  <2> DEFINE cell2   == first.cell
             tokens2 == Tokens(r, cell2, back, back)
             short2  == Lacking(r, cell2, back, cost, back)
             flow    == r.limit * (back - now)
  <2>1. short > 0
    BY <1>2, <1>5
  <2>2. cell2 = [tokens |-> tokens, last |-> now, exp |-> at + BucketTTL(r)] /\ short <= r.limit * first.wait
    BY <1>2, <2>1
  <2>3. TokenCell(r, cell2) /\ back \in Nat
    BY <1>1, <1>2, <1>4, <2>2 DEF TokenCell, full
  <2>4. flow \in Int /\ r.limit * first.wait <= flow /\ r.limit * first.wait \in Int
    <3>1. first.wait <= back - now /\ back - now \in Int
      BY <1>4
    <3> HIDE DEF back
    <3> QED
      BY <1>1, <1>4, <3>1, ProductGrows
  <2>5. tokens2 = IF Live(cell2, back) THEN AtMost(tokens + flow, full) ELSE full
    BY <2>2 DEF Tokens
  <2>6. tokens2 \in Int /\ price <= tokens2 + owed
    <3> HIDE DEF flow, full, price, owed, tokens2
    <3> QED
      BY <1>2, <1>3, <2>2, <2>4, <2>5 DEF AtMost
  <2> HIDE DEF cell2, back
  <2>7. short2 = price - owed - tokens2 /\ (short2 <= 0 => TokenBucket(r, cell2, back, cost, back).wait = 0)
    <3>1. TokenBucketSays(r, cell2, back, cost, back)
      BY <1>1, <2>3, TokenBucketAdmits
    <3> QED
      BY <3>1 DEF TokenBucketSays
  <2> HIDE DEF tokens2, short2, price, owed
  <2>8. short2 <= 0
    BY <1>2, <2>6, <2>7
  <2>9. TokenBucket(r, cell2, back, cost, back).wait = 0
    BY <2>7, <2>8
  <2> QED
    BY <2>9, HitOfIs DEF cell2
<1> QED
  BY <1>4, <1>5 DEF Enough, first

\* What a leaky bucket of either kind holds once it has drained.
LevelAt(r, c, now) ==
  IF r.strategy = "leaky_bucket" THEN Level(r, c, now) ELSE c.level - Drained(r, c, now)

\* It never holds less than nothing; and as time passes it loses what flows out, if
\* the time of its last drain is not ahead.
LEMMA LevelFalls ==
  ASSUME NEW r, RateOK(r), Leaky(r.strategy), NEW c, c.level \in Nat, c.last \in Nat, NEW now \in Nat
  PROVE  /\ LevelAt(r, c, now) \in Nat
         /\ \A back, wait \in Nat : now + wait <= back /\ (r.strategy = "leaky_bucket_queue" => c.last + wait <= back) =>
              LevelAt(r, c, back) = 0 \/ LevelAt(r, c, back) + r.limit * wait <= LevelAt(r, c, now)
<1>1. r.limit \in Nat
  BY DEF RateOK
<1> DEFINE flow(t) == r.limit * (t - c.last)
<1>2. \A t \in Nat : LevelAt(r, c, t) =
        IF r.strategy = "leaky_bucket" THEN AtLeast(c.level - flow(t), 0)
                                       ELSE c.level - AtMost(AtLeast(flow(t), 0), c.level)
  BY DEF LevelAt, Level, Drained
<1>3. \A t \in Nat : flow(t) \in Int
  BY <1>1
<1>4. \A t \in Nat : LevelAt(r, c, t) \in Nat
  <2> SUFFICES ASSUME NEW t \in Nat PROVE LevelAt(r, c, t) \in Nat
    OBVIOUS
  <2>1. flow(t) \in Int /\ LevelAt(r, c, t) =
        IF r.strategy = "leaky_bucket" THEN AtLeast(c.level - flow(t), 0)
                                       ELSE c.level - AtMost(AtLeast(flow(t), 0), c.level)
    BY <1>2, <1>3
  <2> HIDE DEF flow
  <2> QED
    BY <2>1 DEF AtLeast, AtMost
<1>5. ASSUME NEW back \in Nat, NEW wait \in Nat, now + wait <= back,
             r.strategy = "leaky_bucket_queue" => c.last + wait <= back
      PROVE  LevelAt(r, c, back) = 0 \/ LevelAt(r, c, back) + r.limit * wait <= LevelAt(r, c, now)
  <2> DEFINE gone == r.limit * wait
  <2>1. gone \in Nat
    BY <1>1, ProductIsNat
  <2>2. flow(now) + gone <= flow(back)
    <3>1. now - c.last \in Int /\ wait \in Int /\ back - c.last \in Int /\ (now - c.last) + wait <= back - c.last
      BY <1>5
    <3>2. r.limit * ((now - c.last) + wait) = flow(now) + gone
      BY <1>1, <3>1, ProductSplits
    <3>3. (now - c.last) + wait \in Int
      BY <3>1
    <3>4. r.limit * ((now - c.last) + wait) <= r.limit * (back - c.last)
      BY <1>1, <3>1, <3>3, ProductGrows
    <3> QED
      BY <3>2, <3>4
  <2>3. r.strategy = "leaky_bucket_queue" => gone <= flow(back)
    <3>1. back - c.last \in Int /\ (r.strategy = "leaky_bucket_queue" => wait <= back - c.last)
      BY <1>5
    <3> QED
      BY <1>1, <3>1, ProductGrows
  <2>4. flow(now) \in Int /\ flow(back) \in Int
    BY <1>3
  <2> DEFINE fn == flow(now)
             fb == flow(back)
  <2> HIDE DEF fn, fb
  <2>5. CASE r.strategy = "leaky_bucket"
    <3>1. LevelAt(r, c, now) = AtLeast(c.level - fn, 0) /\ LevelAt(r, c, back) = AtLeast(c.level - fb, 0)
      BY <1>2, <2>5 DEF fn, fb
    <3>2. fn \in Int /\ fb \in Int /\ fn + gone <= fb
      BY <2>2, <2>4 DEF fn, fb
    <3> HIDE DEF gone
    <3>3. LevelAt(r, c, back) = 0 \/ LevelAt(r, c, back) + gone <= LevelAt(r, c, now)
      BY <2>1, <3>1, <3>2 DEF AtLeast
    <3> QED
      BY <3>3 DEF gone
  <2>6. CASE r.strategy = "leaky_bucket_queue"
    <3>1. /\ LevelAt(r, c, now) = c.level - AtMost(AtLeast(fn, 0), c.level)
          /\ LevelAt(r, c, back) = c.level - AtMost(AtLeast(fb, 0), c.level)
      BY <1>2, <2>6 DEF fn, fb
    <3>2. fn \in Int /\ fb \in Int /\ fn + gone <= fb /\ gone <= fb
      BY <2>2, <2>3, <2>4, <2>6 DEF fn, fb
    <3> HIDE DEF gone
    <3>3. LevelAt(r, c, back) = 0 \/ LevelAt(r, c, back) + gone <= LevelAt(r, c, now)
      BY <2>1, <3>1, <3>2 DEF AtLeast, AtMost
    <3> QED
      BY <3>3 DEF gone
  <2> QED
    BY <2>5, <2>6 DEF Leaky
<1> QED
  BY <1>4, <1>5

\* A leaky bucket admits what does not overflow it, and the first drop always.
LEMMA LeakyAdmits ==
  ASSUME NEW r, RateOK(r), Leaky(r.strategy), NEW c, LevelCell(r, c), NEW now \in Nat, NEW at \in Nat, NEW cost \in Nat \ {0}
  PROVE  LET over == LevelAt(r, c, now) + cost * r.period - r.limit * r.period
             out  == HitOf(r, c, now, cost, at)
         IN  /\ cost * r.period \in Nat /\ r.limit * r.period \in Nat
             /\ ~ Live(c, at) => out.wait = 0
             /\ Live(c, at) => /\ c \in [level : Nat \ {0}, last : Nat, exp : Nat]
                               /\ LevelAt(r, c, now) \in Nat /\ over \in Int
                               /\ over <= 0 => out.wait = 0
                               /\ over > 0 => /\ out.wait \in Nat \ {0} /\ over <= r.limit * out.wait
                                              /\ LevelCell(r, out.cell) /\ out.cell.level = c.level /\ out.cell.last = c.last
<1> DEFINE lev  == LevelAt(r, c, now)
           price == cost * r.period
           top  == r.limit * r.period
           over == lev + price - top
           out  == HitOf(r, c, now, cost, at)
<1>1. price \in Nat /\ top \in Nat /\ r.limit \in Nat \ {0}
  BY ProductIsNat DEF RateOK
<1>2. CASE ~ Live(c, at)
  <2>1. out = FirstDrop(r, now, cost, at)
    <3>1. CASE r.strategy = "leaky_bucket"
      <4>1. out = LeakyBucket(r, c, now, cost, at)
        BY <3>1, HitOfIs
      <4> HIDE DEF out
      <4> QED
        BY <1>2, <4>1, Zenon DEF LeakyBucket
    <3>2. CASE r.strategy = "leaky_bucket_queue"
      <4>1. out = LeakyBucketQueue(r, c, now, cost, at)
        BY <3>2, HitOfIs
      <4> HIDE DEF out
      <4> QED
        BY <1>2, <4>1, Zenon DEF LeakyBucketQueue
    <3> QED
      BY <3>1, <3>2 DEF Leaky
  <2> QED
    BY <1>1, <1>2, <2>1 DEF FirstDrop, Outcome
<1>3. CASE Live(c, at)
  <2>1. c \in [level : Nat \ {0}, last : Nat, exp : Nat]
    BY <1>3, AbsentIsDead DEF LevelCell
  <2>2. lev \in Nat
    BY <2>1, LevelFalls
  <2>3. over \in Int
    BY <1>1, <2>2
  <2>4. over > 0 => CeilDiv(over, r.limit) \in Nat \ {0} /\ over <= r.limit * CeilDiv(over, r.limit)
    <3> HIDE DEF over
    <3> QED
      BY <1>1, <2>3, CeilDivCovers
  <2>5. over > 0 => AtLeast(CeilDiv(over, r.limit), 1) = CeilDiv(over, r.limit)
    BY <2>4 DEF AtLeast
  <2>6. out = IF over > 0
              THEN Outcome(CeilDiv(over, r.limit), [c EXCEPT !.exp = at + BucketTTL(r)])
              ELSE Outcome(0, out.cell)
    <3>1. CASE r.strategy = "leaky_bucket"
      <4>1. lev = Level(r, c, now)
        BY <3>1 DEF LevelAt
      <4>2. out = LeakyBucket(r, c, now, cost, at)
        BY <3>1, HitOfIs
      <4> HIDE DEF out
      <4> QED
        BY <1>3, <4>1, <4>2 DEF LeakyBucket, Excess, Outcome
    <3>2. CASE r.strategy = "leaky_bucket_queue"
      <4>1. lev = c.level - Drained(r, c, now)
        BY <3>2 DEF LevelAt
      <4>2. out = LeakyBucketQueue(r, c, now, cost, at)
        BY <3>2, HitOfIs
      <4> HIDE DEF out, lev
      <4> QED
        BY <1>3, <2>5, <4>1, <4>2 DEF LeakyBucketQueue, Excess, Outcome
    <3> QED
      BY <3>1, <3>2 DEF Leaky
  <2> HIDE DEF over, out
  <2>7. over <= 0 => out.wait = 0
    BY <2>3, <2>6 DEF Outcome
  <2>8. over > 0 => out.wait = CeilDiv(over, r.limit) /\ out.cell = [c EXCEPT !.exp = at + BucketTTL(r)]
    BY <2>6 DEF Outcome
  <2>9. over > 0 => LevelCell(r, out.cell) /\ out.cell.level = c.level /\ out.cell.last = c.last
    <3>1. at + BucketTTL(r) \in Nat
      BY TTLsPositive DEF TTLs
    <3> QED
      BY <2>1, <2>8, <3>1 DEF LevelCell
  <2>10. over > 0 => out.wait = CeilDiv(over, r.limit)
    BY <2>8
  <2> QED
    BY <1>1, <1>3, <2>1, <2>2, <2>3, <2>4, <2>7, <2>9, <2>10 DEF over, out
<1> QED
  BY <1>2, <1>3

\* get_stat of the leaky buckets drains as their hits do.
LEMMA LeakyForetold ==
  ASSUME NEW r, RateOK(r), Leaky(r.strategy), NEW c, LevelCell(r, c), NEW t \in Nat, NEW cost \in Nat \ {0}, cost <= r.limit
  PROVE  Foretold(r, c, t, cost) /\ WaitForetold(r, c, t)
<1> DEFINE lev == IF Live(c, t) THEN LevelAt(r, c, t) ELSE 0
           top == r.limit * r.period
<1>1. r.limit \in Nat \ {0} /\ r.period \in Nat \ {0} /\ top \in Nat
  BY ProductIsNat DEF RateOK
<1>2. lev \in Nat
  BY LeakyAdmits, 1 \in Nat \ {0}
<1>3. \A n \in Nat \ {0} : n <= r.limit => n * r.period \in Nat /\ (HitOf(r, c, t, n, t).wait = 0 <=> lev + n * r.period <= top)
  <2> SUFFICES ASSUME NEW n \in Nat \ {0}, n <= r.limit
               PROVE  n * r.period \in Nat /\ (HitOf(r, c, t, n, t).wait = 0 <=> lev + n * r.period <= top)
    OBVIOUS
  <2> DEFINE price == n * r.period
             over == LevelAt(r, c, t) + price - top
             wait == HitOf(r, c, t, n, t).wait
  <2>1. /\ price \in Nat
        /\ ~ Live(c, t) => wait = 0
        /\ Live(c, t) => /\ LevelAt(r, c, t) \in Nat /\ over \in Int
                         /\ over <= 0 => wait = 0
                         /\ over > 0 => wait \in Nat \ {0}
    BY LeakyAdmits
  <2>2. price <= top
    BY <1>1, MultiplesCompare
  <2> HIDE DEF price, top, wait
  <2> QED
    BY <1>1, <1>2, <2>1, <2>2 DEF price, wait
<1>4. StatOf(r, c, t) = [remaining |-> AtLeast(top - lev, 0),
                         wait |-> IF lev + r.period - top > 0 THEN CeilDiv(lev + r.period - top, r.limit) ELSE 0]
  <2>1. 1 * r.period = r.period
    BY <1>1
  <2>2. CASE r.strategy = "leaky_bucket"
    BY <2>1, <2>2, StatOfIs DEF LeakyBucketStat, Excess, LevelAt
  <2>3. CASE r.strategy = "leaky_bucket_queue"
    BY <2>1, <2>3, StatOfIs DEF LeakyBucketQueueStat, Excess, LevelAt
  <2> QED
    BY <2>2, <2>3 DEF Leaky
<1> HIDE DEF lev, top
<1>5. lev + r.period - top > 0 => CeilDiv(lev + r.period - top, r.limit) \in Nat \ {0}
  <2>1. lev + r.period - top \in Int
    BY <1>1, <1>2
  <2> QED
    BY <1>1, <2>1, CeilDivPositive
<1>6. StatOf(r, c, t).wait = 0 <=> lev + r.period <= top
  BY <1>1, <1>2, <1>4, <1>5
<1>7. HitOf(r, c, t, 1, t).wait = 0 <=> lev + r.period <= top
  <2>1. 1 * r.period = r.period /\ 1 \in Nat \ {0} /\ 1 <= r.limit
    BY <1>1
  <2> QED
    BY <1>3, <2>1
<1>8. cost * r.period <= AtLeast(top - lev, 0) <=> lev + cost * r.period <= top
  <2> DEFINE price == cost * r.period
  <2>1. price \in Nat /\ r.period <= price
    <3>1. 1 * r.period <= cost * r.period /\ 1 * r.period = r.period
      BY <1>1, MultiplesCompare
    <3> QED
      BY <1>3, <3>1
  <2> HIDE DEF price
  <2>2. price <= AtLeast(top - lev, 0) <=> lev + price <= top
    BY <1>1, <1>2, <2>1 DEF AtLeast
  <2> QED
    BY <2>2 DEF price
<1> QED
  BY <1>3, <1>4, <1>6, <1>7, <1>8 DEF Foretold, WaitForetold

\* The wait of a leaky bucket lets flow out what was too much.
LEMMA LeakyEnough ==
  ASSUME NEW r, RateOK(r), Leaky(r.strategy), NEW c, LevelCell(r, c),
         NEW now \in Nat, NEW at \in Nat, now <= at, NEW cost \in Costs, cost <= r.limit,
         r.strategy = "leaky_bucket_queue" => c = Absent \/ c.last <= at
  PROVE  Enough(r, c, now, cost, at)
<1> DEFINE price == cost * r.period
           top   == r.limit * r.period
           over  == LevelAt(r, c, now) + price - top
           first == HitOf(r, c, now, cost, at)
           back  == at + first.wait
<1>1. /\ r.limit \in Nat \ {0} /\ r.period \in Nat \ {0} /\ cost \in Nat \ {0} /\ BucketTTL(r) \in Nat
  BY ScenariosAssumption, TTLsPositive DEF RateOK, TTLs
<1>2. /\ price \in Nat /\ top \in Nat
      /\ ~ Live(c, at) => first.wait = 0
      /\ Live(c, at) => /\ c \in [level : Nat \ {0}, last : Nat, exp : Nat]
                        /\ LevelAt(r, c, now) \in Nat /\ over \in Int
                        /\ over <= 0 => first.wait = 0
                        /\ over > 0 => /\ first.wait \in Nat \ {0} /\ over <= r.limit * first.wait
                                       /\ LevelCell(r, first.cell) /\ first.cell.level = c.level /\ first.cell.last = c.last
  <2> HIDE DEF first
  <2> QED
    BY <1>1, LeakyAdmits DEF first
<1>3. price <= top
  BY <1>1, MultiplesCompare
<1> HIDE DEF first
<1>4. first.wait \in Nat
  <2> HIDE DEF over
  <2> QED
    BY <1>2
<1>5. ASSUME first.wait > 0 PROVE HitOf(r, first.cell, back, cost, back).wait = 0
  <2> DEFINE cell2 == first.cell
             wait  == first.wait
  <2>1. Live(c, at) /\ over > 0 /\ over \in Int
    <3> HIDE DEF over
    <3> QED
      BY <1>2, <1>5
  <2>2. /\ c \in [level : Nat \ {0}, last : Nat, exp : Nat] /\ LevelAt(r, c, now) \in Nat
        /\ over <= r.limit * wait
        /\ LevelCell(r, cell2) /\ cell2.level = c.level /\ cell2.last = c.last
    <3> HIDE DEF over
    <3> QED
      BY <1>2, <2>1
  <2>3. LevelCell(r, cell2) /\ cell2.level = c.level /\ cell2.last = c.last /\ back \in Nat
    BY <1>4, <2>2
  <2>4. LevelAt(r, cell2, back) = LevelAt(r, c, back)
    BY <2>3 DEF LevelAt, Level, Drained
  <2>5. LevelAt(r, c, back) = 0 \/ LevelAt(r, c, back) + r.limit * wait <= LevelAt(r, c, now)
    <3>1. now + wait <= back /\ (r.strategy = "leaky_bucket_queue" => c.last + wait <= back)
      <4>1. c # Absent
        BY <2>1, AbsentIsDead
      <4> QED
        BY <1>4, <2>2, <4>1
    <3>2. c.level \in Nat /\ c.last \in Nat
      BY <2>2
    <3> HIDE DEF back, wait
    <3> QED
      BY <1>4, <2>3, <3>1, <3>2, LevelFalls DEF wait
  <2>6. LevelAt(r, c, back) \in Nat
    BY <2>2, <2>3, LevelFalls
  <2> DEFINE over2 == LevelAt(r, cell2, back) + price - top
             gone == r.limit * wait
  <2>7. gone \in Nat
    BY <1>1, <1>4, ProductIsNat
  <2>8. over2 <= 0 /\ over2 \in Int
    <3> DEFINE b == LevelAt(r, c, back)
               n == LevelAt(r, c, now)
    <3>1. b \in Nat /\ n \in Nat /\ (b = 0 \/ b + gone <= n) /\ n + price - top <= gone
      BY <2>2, <2>5, <2>6
    <3>2. over2 = b + price - top
      BY <2>4
    <3> HIDE DEF b, n, gone, price, top, over2
    <3> QED
      BY <1>2, <1>3, <2>7, <3>1, <3>2
  <2> HIDE DEF cell2, back
  <2>9. /\ ~ Live(cell2, back) => HitOf(r, cell2, back, cost, back).wait = 0
        /\ Live(cell2, back) => (over2 <= 0 => HitOf(r, cell2, back, cost, back).wait = 0)
    <3>1. cost \in Nat \ {0}
      BY <1>1
    <3> HIDE DEF over2
    <3>2. ~ Live(cell2, back) => HitOf(r, cell2, back, cost, back).wait = 0
      BY <2>3, <3>1, LeakyAdmits
    <3>3. Live(cell2, back) /\ over2 <= 0 => HitOf(r, cell2, back, cost, back).wait = 0
      BY <2>3, <3>1, LeakyAdmits DEF over2
    <3> QED
      BY <3>2, <3>3
  <2> HIDE DEF over2
  <2> QED
    BY <2>8, <2>9 DEF cell2
<1> QED
  BY <1>4, <1>5 DEF Enough, first

\* What GCRA answers: it is refused what is ahead of now, and how far ahead it is.
\* What a hit of GCRA answers.
ToldByGCRA(r, c, now, cost, at) ==
  LET tat   == Arrival(r, c, now, at)
      ahead == tat - now * r.limit
      out   == GCRA(r, c, now, cost, at)
  IN  /\ tat \in Nat /\ ahead \in Int /\ now * r.limit \in Nat
      /\ ahead <= 0 => Conforms(r, tat, now)
      /\ Conforms(r, tat, now) => out.wait = 0
      /\ ~ Conforms(r, tat, now) =>
           /\ ahead \in Nat \ {0} /\ out.wait = AtLeast(CeilDiv(ahead, r.limit), 0)
           /\ out.wait \in Nat \ {0} /\ ahead <= r.limit * out.wait /\ out.cell = c

\* GCRA admits who conforms, and tells the others to wait for the arrival time.
LEMMA GCRAAdmits ==
  ASSUME NEW r, RateOK(r), r.strategy = "gcra", NEW c, TATCell(c), NEW now \in Nat, NEW at \in Nat, NEW cost \in Nat \ {0}
  PROVE  ToldByGCRA(r, c, now, cost, at)
<1> DEFINE tat   == Arrival(r, c, now, at)
           here  == now * r.limit
           ahead == tat - here
           slack == r.tolerance * r.limit
           out   == GCRA(r, c, now, cost, at)
<1>1. r.limit \in Nat \ {0} /\ here \in Nat /\ slack \in Nat
  BY ProductIsNat DEF RateOK, StrategyFields
<1>2. tat \in Nat
  BY <1>1, AbsentIsDead DEF Arrival, TATCell
<1>3. Conforms(r, tat, now) <=> here >= tat - slack
  BY DEF Conforms
<1>4. out = IF Conforms(r, tat, now) THEN Outcome(0, out.cell) ELSE Outcome(AtLeast(CeilDiv(ahead, r.limit), 0), c)
  BY DEF GCRA, Outcome
<1> HIDE DEF here, slack, tat, out
<1>5. ahead \in Int
  BY <1>1, <1>2
<1>6. ahead <= 0 => Conforms(r, tat, now)
  BY <1>1, <1>2, <1>3
<1>7. ~ Conforms(r, tat, now) => ahead \in Nat \ {0}
  BY <1>1, <1>2, <1>3
<1> HIDE DEF ahead
<1>8. ahead \in Nat \ {0} => /\ CeilDiv(ahead, r.limit) \in Nat \ {0} /\ ahead <= r.limit * CeilDiv(ahead, r.limit)
                             /\ AtLeast(CeilDiv(ahead, r.limit), 0) = CeilDiv(ahead, r.limit)
  BY <1>1, CeilDivCovers DEF AtLeast
<1>9. Conforms(r, tat, now) => out.wait = 0
  BY <1>4 DEF Outcome
<1>10. ~ Conforms(r, tat, now) => out.wait = AtLeast(CeilDiv(ahead, r.limit), 0) /\ out.cell = c
  BY <1>4 DEF Outcome
<1> QED
  BY <1>1, <1>2, <1>5, <1>6, <1>7, <1>8, <1>9, <1>10 DEF ToldByGCRA, tat, ahead, here, out

\* get_stat of GCRA waits exactly if a hit would.
LEMMA GCRAForetold ==
  ASSUME NEW r, RateOK(r), r.strategy = "gcra", NEW c, TATCell(c), NEW t \in Nat
  PROVE  WaitForetold(r, c, t)
<1> DEFINE tat  == Arrival(r, c, t, t)
           wait == AtLeast(CeilDiv(tat - t * r.limit, r.limit), 0)
<1>1. /\ Conforms(r, tat, t) => GCRA(r, c, t, 1, t).wait = 0
      /\ ~ Conforms(r, tat, t) => GCRA(r, c, t, 1, t).wait = wait /\ GCRA(r, c, t, 1, t).wait \in Nat \ {0}
  <2>1. 1 \in Nat \ {0}
    OBVIOUS
  <2>2. ToldByGCRA(r, c, t, 1, t)
    BY <2>1, GCRAAdmits
  <2> QED
    BY <2>2 DEF ToldByGCRA
<1>2. StatOf(r, c, t).wait = IF Conforms(r, tat, t) THEN 0 ELSE wait
  <2> HIDE DEF wait
  <2>1. StatOf(r, c, t) = GCRAStat(r, c, t)
    BY StatOfIs
  <2> QED
    BY <2>1 DEF GCRAStat, wait
<1>3. HitOf(r, c, t, 1, t) = GCRA(r, c, t, 1, t)
  BY HitOfIs
<1> HIDE DEF tat, wait
<1> QED
  BY <1>1, <1>2, <1>3 DEF WaitForetold

\* At the arrival time a request conforms.
LEMMA GCRAEnough ==
  ASSUME NEW r, RateOK(r), r.strategy = "gcra", NEW c, TATCell(c),
         NEW now \in Nat, NEW at \in Nat, now <= at, NEW cost \in Costs
  PROVE  Enough(r, c, now, cost, at)
<1> DEFINE tat   == Arrival(r, c, now, at)
           here  == now * r.limit
           ahead == tat - here
           first == GCRA(r, c, now, cost, at)
           back  == at + first.wait
           tat2  == Arrival(r, c, back, back)
           there == back * r.limit
<1>1. cost \in Nat \ {0} /\ r.limit \in Nat \ {0}
  BY ScenariosAssumption DEF RateOK
<1>2. /\ tat \in Nat /\ here \in Nat /\ ahead \in Int
      /\ Conforms(r, tat, now) => first.wait = 0
      /\ ~ Conforms(r, tat, now) =>
           first.wait \in Nat \ {0} /\ ahead <= r.limit * first.wait /\ first.cell = c
  <2>1. cost \in Nat \ {0}
    BY <1>1
  <2>2. ToldByGCRA(r, c, now, cost, at)
    BY <2>1, GCRAAdmits
  <2> QED
    BY <2>2 DEF ToldByGCRA
<1> HIDE DEF first
<1>3. first.wait \in Nat /\ back \in Nat
  BY <1>2
<1>4. ASSUME first.wait > 0 PROVE GCRA(r, first.cell, back, cost, back).wait = 0
  <2>1. ~ Conforms(r, tat, now)
    BY <1>2, <1>4
  <2>2. first.cell = c /\ ahead <= r.limit * first.wait /\ r.limit * first.wait \in Nat
    BY <1>1, <1>2, <1>3, <2>1, ProductIsNat
  <2>3. here + r.limit * first.wait <= there
    <3>1. r.limit * (now + first.wait) = r.limit * now + r.limit * first.wait
      BY <1>1, <1>3, ProductSplits
    <3>2. now + first.wait <= back /\ now + first.wait \in Int /\ back \in Int
      BY <1>3
    <3>3. r.limit * (now + first.wait) <= r.limit * back
      BY <1>1, <3>2, ProductGrows
    <3>4. r.limit * now = here /\ r.limit * back = there
      <4> HIDE DEF back
      <4> QED
        BY <1>1, <1>3
    <3> QED
      BY <3>1, <3>3, <3>4
  <2>4. tat2 \in Nat /\ there \in Nat /\ (tat2 - there <= 0 => Conforms(r, tat2, back))
        /\ (Conforms(r, tat2, back) => GCRA(r, c, back, cost, back).wait = 0)
    <3>1. cost \in Nat \ {0} /\ back \in Nat
      BY <1>1, <1>3
    <3>2. ToldByGCRA(r, c, back, cost, back)
      BY <3>1, GCRAAdmits
    <3> QED
      BY <3>2 DEF ToldByGCRA
  <2>5. tat2 = there \/ tat2 = tat
    <3>1. Live(c, back) => Live(c, at)
      BY <1>3 DEF Live, TATCell, Absent
    <3> HIDE DEF back
    <3> QED
      BY <3>1 DEF Arrival
  <2> DEFINE gone == r.limit * first.wait
  <2>6. tat2 - there <= 0
    <3>1. tat - here <= gone /\ here + gone <= there /\ gone \in Nat
      BY <2>2, <2>3
    <3> HIDE DEF tat, here, there, tat2, gone
    <3> QED
      BY <1>2, <2>4, <2>5, <3>1
  <2> QED
    BY <2>2, <2>4, <2>6
<1>5. HitOf(r, c, now, cost, at) = first
  BY HitOfIs DEF first
<1>6. HitOf(r, first.cell, back, cost, back) = GCRA(r, first.cell, back, cost, back)
  BY HitOfIs
<1> QED
  BY <1>3, <1>4, <1>5, <1>6 DEF Enough

\* What a cost based bucket answers: it admits what it holds.
\* What a hit of a cost-based bucket answers.
ToldByCostBased(r, c, now, cost, at) ==
  LET tokens  == Balance(r, c, now, at)
      history == HistoryAt(c, at)
      short   == cost * r.period * Grain - tokens
      out     == CostBasedTokenBucket(r, c, now, cost, at)
  IN  /\ tokens \in Int /\ tokens <= Full(r) /\ history \in Seq(Costs)
      /\ Inflow(r, history) \in Nat \ {0} /\ short \in Int
      /\ short <= 0 => out.wait = 0
      /\ short > 0 => /\ out.wait = CeilDiv(short, Inflow(r, history)) /\ out.wait \in Nat \ {0}
                      /\ short <= Inflow(r, history) * out.wait
                      /\ out.cell = [tokens |-> tokens, last |-> now, exp |-> TwiceTTL(r, at),
                                     history |-> history,
                                     historyExp |-> IF history = <<>> THEN 0 ELSE c.historyExp]

\* A cost-based bucket admits what it holds, or tells the time in which it flows in.
LEMMA CostBasedAdmits ==
  ASSUME NEW r, RateOK(r), r.strategy = "cost_based_token_bucket", NEW c, CostCell(r, c),
         NEW now \in Nat, NEW at \in Nat, NEW cost \in Nat \ {0}
  PROVE  ToldByCostBased(r, c, now, cost, at)
<1> DEFINE tokens  == Balance(r, c, now, at)
           history == HistoryAt(c, at)
           price   == cost * r.period * Grain
           short   == price - tokens
           inflow  == Inflow(r, history)
           out     == CostBasedTokenBucket(r, c, now, cost, at)
           kept    == [tokens |-> tokens, last |-> now, exp |-> TwiceTTL(r, at), history |-> history,
                       historyExp |-> IF history = <<>> THEN 0 ELSE c.historyExp]
<1>1. price \in Int
  <2>1. cost * r.period \in Nat
    BY ProductIsNat DEF RateOK
  <2> QED
    BY <2>1 DEF Grain
<1>2. Full(r) \in Int
  <2>1. r.capacity * r.period \in Nat
    BY ProductIsNat DEF RateOK
  <2> QED
    BY <2>1 DEF Full, Grain
<1>3. Live(c, at) => c \in [tokens : Int, last : Nat, exp : Nat, history : Seq(Costs), historyExp : Nat]
  BY AbsentIsDead DEF CostCell
<1>4. history \in Seq(Costs)
  <2>1. <<>> \in Seq(Costs)
    OBVIOUS
  <2> QED
    BY <1>3, <2>1 DEF HistoryAt
<1>5. inflow \in Nat \ {0}
  BY <1>4, InflowBounds
<1>6. tokens \in Int /\ tokens <= Full(r)
  <2>1. CASE Live(c, at)
    <3> DEFINE gain == inflow * (now - c.last)
    <3>1. gain \in Int
      <4>1. now - c.last \in Int
        BY <1>3, <2>1
      <4> HIDE DEF inflow
      <4> QED
        BY <1>5, <4>1
    <3>2. tokens = AtMost(c.tokens + gain, Full(r)) /\ c.tokens \in Int
      BY <1>3, <2>1 DEF Balance
    <3> HIDE DEF gain, tokens
    <3> QED
      BY <1>2, <3>1, <3>2 DEF AtMost
  <2>2. CASE ~ Live(c, at)
    BY <1>2, <2>2 DEF Balance
  <2> QED
    BY <2>1, <2>2
<1> HIDE DEF tokens, price, inflow, history
<1>7. out = IF tokens >= price THEN Outcome(0, out.cell) ELSE Outcome(CeilDiv(short, inflow), kept)
  BY DEF CostBasedTokenBucket, Outcome, tokens, price, inflow, history
<1>8. short \in Int /\ (short <= 0 <=> tokens >= price)
  BY <1>1, <1>6
<1> HIDE DEF short, out, kept
<1>9. short > 0 => CeilDiv(short, inflow) \in Nat \ {0} /\ short <= inflow * CeilDiv(short, inflow)
  BY <1>5, <1>8, CeilDivCovers
<1>10. short <= 0 => out.wait = 0
  BY <1>7, <1>8 DEF Outcome
<1>11. short > 0 => out.wait = CeilDiv(short, inflow) /\ out.cell = kept
  <2>1. short > 0 => ~ (tokens >= price)
    BY <1>8
  <2> QED
    BY <1>7, <2>1 DEF Outcome
<1> QED
  BY <1>4, <1>5, <1>6, <1>8, <1>9, <1>10, <1>11 DEF ToldByCostBased, tokens, price, inflow, history, short, out, kept

\* get_stat of the cost-based bucket refills as its hit does.
LEMMA CostBasedForetold ==
  ASSUME NEW r, RateOK(r), r.strategy = "cost_based_token_bucket", NEW c, CostCell(r, c),
         NEW t \in Nat, NEW cost \in Nat \ {0}
  PROVE  Foretold(r, c, t, cost) /\ WaitForetold(r, c, t)
<1> DEFINE tokens == Balance(r, c, t, t)
           inflow == Inflow(r, HistoryAt(c, t))
<1>1. r.period \in Nat \ {0}
  BY DEF RateOK
<1>2. tokens \in Int /\ inflow \in Nat \ {0}
  <2>1. ToldByCostBased(r, c, t, cost, t)
    BY CostBasedAdmits
  <2> QED
    BY <2>1 DEF ToldByCostBased
<1>3. \A n \in Nat \ {0} : n * r.period \in Nat /\ (HitOf(r, c, t, n, t).wait = 0 <=> n * r.period * Grain <= tokens)
  <2> SUFFICES ASSUME NEW n \in Nat \ {0}
               PROVE  n * r.period \in Nat /\ (HitOf(r, c, t, n, t).wait = 0 <=> n * r.period * Grain <= tokens)
    OBVIOUS
  <2> DEFINE price == n * r.period
             short == price * Grain - tokens
             wait  == CostBasedTokenBucket(r, c, t, n, t).wait
  <2>1. short \in Int /\ (short <= 0 => wait = 0) /\ (short > 0 => wait \in Nat \ {0})
    <3>1. ToldByCostBased(r, c, t, n, t)
      BY CostBasedAdmits
    <3> QED
      BY <3>1 DEF ToldByCostBased
  <2>2. price \in Nat /\ HitOf(r, c, t, n, t).wait = wait
    BY <1>1, ProductIsNat, HitOfIs
  <2> HIDE DEF price, tokens, wait
  <2> QED
    BY <1>2, <2>1, <2>2 DEF price, Grain
<1>4. StatOf(r, c, t) = [remaining |-> AtLeast(tokens, 0) \div Grain,
                         wait |-> IF tokens < r.period * Grain THEN CeilDiv(r.period * Grain - tokens, inflow) ELSE 0]
  BY StatOfIs DEF CostBasedTokenBucketStat
<1> HIDE DEF tokens, inflow
<1>5. tokens < r.period * Grain => CeilDiv(r.period * Grain - tokens, inflow) \in Nat \ {0}
  <2>1. tokens < r.period * Grain => r.period * Grain - tokens \in Nat \ {0}
    BY <1>1, <1>2 DEF Grain
  <2> QED
    BY <1>2, <2>1, CeilDivPositive
<1>6. StatOf(r, c, t).wait = 0 <=> r.period * Grain <= tokens
  BY <1>1, <1>2, <1>4, <1>5 DEF Grain
<1>7. HitOf(r, c, t, 1, t).wait = 0 <=> r.period * Grain <= tokens
  <2>1. 1 * r.period = r.period /\ 1 \in Nat \ {0}
    BY <1>1
  <2> QED
    BY <1>3, <2>1
<1>8. cost * r.period <= AtLeast(tokens, 0) \div Grain <=> cost * r.period * Grain <= tokens
  <2> DEFINE price == cost * r.period
             whole == AtLeast(tokens, 0) \div 6
  <2>1. price \in Nat /\ r.period <= price
    <3>1. 1 * r.period <= cost * r.period /\ 1 * r.period = r.period
      BY <1>1, MultiplesCompare
    <3> QED
      BY <1>3, <3>1
  <2>2. AtLeast(tokens, 0) \in Int
    BY <1>2 DEF AtLeast
  <2>3. whole \in Int /\ 6 * whole <= AtLeast(tokens, 0) /\ AtLeast(tokens, 0) < 6 * whole + 6
    BY <2>2, DivBounds
  <2> HIDE DEF price, whole
  <2>4. price <= whole <=> price * 6 <= tokens
    BY <1>1, <1>2, <2>1, <2>3 DEF AtLeast
  <2> QED
    BY <2>4 DEF price, whole, Grain
<1> QED
  BY <1>3, <1>4, <1>6, <1>7, <1>8 DEF Foretold, WaitForetold

\* The wait is enough even if the costs it was reckoned with are forgotten meanwhile:
\* then it refills at the rate, which is no slower.
LEMMA CostBasedEnough ==
  ASSUME NEW r, RateOK(r), r.strategy = "cost_based_token_bucket", r.minRefill <= 100, NEW c, CostCell(r, c),
         NEW now \in Nat, NEW at \in Nat, now <= at, NEW cost \in Costs, cost <= r.capacity
  PROVE  Enough(r, c, now, cost, at)
<1> DEFINE tokens  == Balance(r, c, now, at)
           history == HistoryAt(c, at)
           price   == cost * r.period * Grain
           short   == price - tokens
           inflow  == Inflow(r, history)
           first   == CostBasedTokenBucket(r, c, now, cost, at)
           back    == at + first.wait
<1>1. /\ r.limit \in Nat \ {0} /\ r.period \in Nat \ {0} /\ r.capacity \in Nat
      /\ cost \in Nat \ {0} /\ TwiceTTL(r, at) \in Nat
  BY ScenariosAssumption, TTLsPositive DEF RateOK, TTLs, TwiceTTL
<1>2. /\ tokens \in Int /\ tokens <= Full(r) /\ history \in Seq(Costs) /\ inflow \in Nat \ {0} /\ short \in Int
      /\ short <= 0 => first.wait = 0
      /\ short > 0 => /\ first.wait \in Nat \ {0} /\ short <= inflow * first.wait
                      /\ first.cell = [tokens |-> tokens, last |-> now, exp |-> TwiceTTL(r, at), history |-> history,
                                       historyExp |-> IF history = <<>> THEN 0 ELSE c.historyExp]
  <2>1. cost \in Nat \ {0}
    BY <1>1
  <2>2. ToldByCostBased(r, c, now, cost, at)
    BY <2>1, CostBasedAdmits
  <2> QED
    BY <2>2 DEF ToldByCostBased
<1>3. price \in Int /\ Full(r) \in Int /\ price <= Full(r)
  <2>1. cost * r.period <= r.capacity * r.period /\ cost * r.period \in Nat /\ r.capacity * r.period \in Nat
    BY <1>1, MultiplesCompare, ProductIsNat
  <2> QED
    BY <2>1 DEF Full, Grain
<1>4. history # <<>> => c.historyExp \in Nat
  BY AbsentIsDead DEF HistoryAt, CostCell
<1> HIDE DEF first, tokens, history, price, inflow
<1>5. first.wait \in Nat /\ back \in Nat
  BY <1>2
<1>6. ASSUME first.wait > 0 PROVE CostBasedTokenBucket(r, first.cell, back, cost, back).wait = 0
  <2> DEFINE cell2    == first.cell
             tokens2  == Balance(r, cell2, back, back)
             history2 == HistoryAt(cell2, back)
             inflow2  == Inflow(r, history2)
             short2   == cost * r.period * Grain - tokens2
  <2>1. /\ cell2 = [tokens |-> tokens, last |-> now, exp |-> TwiceTTL(r, at), history |-> history,
                    historyExp |-> IF history = <<>> THEN 0 ELSE c.historyExp]
        /\ short <= inflow * first.wait
    <3>1. short > 0
      BY <1>2, <1>6
    <3> QED
      BY <1>2, <3>1
  <2>2. /\ CostCell(r, cell2) /\ cell2.tokens = tokens /\ cell2.last = now /\ cell2.history = history
    BY <1>1, <1>2, <1>4, <2>1 DEF CostCell
  <2>3. history2 = history \/ history2 = <<>>
    BY <2>2 DEF HistoryAt
  <2>4. inflow <= inflow2 /\ inflow2 \in Nat
    <3>1. inflow <= r.limit * Grain /\ r.limit * Grain \in Nat
      BY <1>2, InflowBounds DEF inflow
    <3>2. Inflow(r, <<>>) = r.limit * Grain
      BY DEF Inflow
    <3> HIDE DEF history2
    <3> QED
      BY <1>2, <2>3, <3>1, <3>2 DEF inflow
  <2> DEFINE flow == inflow2 * (back - now)
             gone == inflow * first.wait
  <2>5. flow \in Int /\ gone \in Int /\ gone <= flow
    <3>1. first.wait <= back - now /\ back - now \in Nat
      BY <1>5
    <3> DEFINE span == back - now
               x    == inflow
               y    == inflow2
    <3>2. span \in Nat /\ x \in Nat /\ y \in Nat /\ first.wait <= span /\ x <= y
      BY <1>2, <2>4, <3>1
    <3> HIDE DEF span, x, y
    <3>3. x * first.wait <= x * span /\ x * first.wait \in Int /\ x * span \in Int
      BY <1>5, <3>2, ProductGrows
    <3>4. span * x <= span * y /\ span * y \in Int
      BY <3>2, ProductGrows
    <3>5. x * span = span * x /\ y * span = span * y
      BY <3>2
    <3>6. x * first.wait <= y * span /\ y * span \in Int /\ x * first.wait \in Int
      BY <3>3, <3>4, <3>5
    <3> QED
      BY <3>6 DEF x, y, span
  <2>6. tokens2 = IF Live(cell2, back) THEN AtMost(tokens + flow, Full(r)) ELSE Full(r)
    <3> HIDE DEF cell2
    <3> QED
      BY <2>2 DEF Balance
  <2>7. short <= gone
    BY <2>1
  <2> HIDE DEF cell2, back, flow, gone
  <2>8. tokens2 \in Int /\ price <= tokens2
    <3> HIDE DEF tokens2
    <3> QED
      BY <1>2, <1>3, <2>5, <2>6, <2>7 DEF AtMost
  <2>9. short2 <= 0 => CostBasedTokenBucket(r, cell2, back, cost, back).wait = 0
    <3>1. cost \in Nat \ {0}
      BY <1>1
    <3>2. ToldByCostBased(r, cell2, back, cost, back)
      BY <1>5, <2>2, <3>1, CostBasedAdmits
    <3> QED
      BY <3>2 DEF ToldByCostBased
  <2>10. short2 = price - tokens2
    BY DEF price
  <2> HIDE DEF tokens2, short2
  <2>11. short2 <= 0
    <3> HIDE DEF price
    <3> QED
      BY <1>3, <2>8, <2>10
  <2> QED
    BY <2>9, <2>11 DEF cell2
<1>7. HitOf(r, c, now, cost, at) = first
  BY HitOfIs DEF first
<1>8. HitOf(r, first.cell, back, cost, back) = CostBasedTokenBucket(r, first.cell, back, cost, back)
  BY HitOfIs
<1> QED
  BY <1>5, <1>6, <1>7, <1>8 DEF Enough

(* What is stored per window.  Nothing is stored for a later window than now, so that
   a request that comes back as the next begins finds it empty. *)

\* Nothing is stored for a window later than that of t.
NoneLater(r, c, t) == \A k \in DOMAIN c : k[2] \in Int /\ k[2] <= Window(r, t)

\* set stores under no other key.
LEMMA PutNoneLater ==
  ASSUME NEW r, NEW c, NEW t, NoneLater(r, c, t), NEW kind, NEW w \in Int, w <= Window(r, t), NEW v, NEW exp, NEW at
  PROVE  NoneLater(r, Put(c, <<kind, w>>, v, exp, at), t)
<1> DEFINE key == <<kind, w>>
           p == Put(c, key, v, exp, at)
<1>1. DOMAIN p = {l \in DOMAIN c : Live(c[l], at)} \cup {key}
  BY DEF Put
<1>2. key[2] = w
  OBVIOUS
<1> HIDE DEF key, p
<1>3. \A k \in DOMAIN p : k[2] \in Int /\ k[2] <= Window(r, t)
  BY <1>1, <1>2 DEF NoneLater
<1> QED
  BY <1>3 DEF NoneLater, p, key

\* Nor does increment_with_ttl.
LEMMA AddedNoneLater ==
  ASSUME NEW r, NEW c, NEW t, NoneLater(r, c, t), NEW w \in Int, w <= Window(r, t), NEW amount, NEW at
  PROVE  NoneLater(r, Added(r, c, <<"count", w>>, amount, at), t)
BY PutNoneLater DEF Added

\* A later window has nothing yet.
LEMMA NothingYet ==
  ASSUME NEW r, NEW c, NEW t, NoneLater(r, c, t), NEW w \in Int, Window(r, t) \in Int, Window(r, t) < w, NEW at
  PROVE  /\ \A kind : Stored(c, <<kind, w>>, at) = None
         /\ CountIn(c, w, at) = 0
<1>1. ASSUME NEW kind PROVE Stored(c, <<kind, w>>, at) = None
  <2> DEFINE k == <<kind, w>>
  <2>1. k[2] = w
    OBVIOUS
  <2> HIDE DEF k
  <2>2. k \notin DOMAIN c
    BY <2>1 DEF NoneLater
  <2> QED
    BY <2>2 DEF Stored, k
<1> QED
  BY <1>1 DEF CountIn, AtLeast, None

\* A request that waits for its window to end comes back in a later one.
LEMMA NextWindow ==
  ASSUME NEW r, RateOK(r), NEW t \in Nat
  PROVE  LET back == t + UntilWindowEnds(r, t)
         IN  back \in Nat /\ Window(r, t) \in Nat /\ Window(r, back) \in Nat /\ Window(r, t) < Window(r, back)
<1> DEFINE back == t + UntilWindowEnds(r, t)
           p    == r.period
           w    == Window(r, t)
           v    == Window(r, back)
<1>1. p \in Nat \ {0}
  BY DEF RateOK
<1>2. UntilWindowEnds(r, t) \in Nat
  BY WindowNotOver
<1>3. back \in Nat /\ t <= back
  BY <1>2
<1>4. back = p * (t \div p) + p
  <2>1. \A q \in Nat \ {0} : t % q \in 0 .. q - 1 /\ t = q * (t \div q) + (t % q) /\ q * (t \div q) \in Int
    BY ModBounds
  <2>2. t % p \in 0 .. p - 1 /\ t = p * (t \div p) + (t % p) /\ p * (t \div p) \in Int
    BY <1>1, <2>1
  <2>3. back = t + (p - (t % p))
    BY DEF UntilWindowEnds, TimeInWindow
  <2> DEFINE x == p * (t \div p)
             y == t % p
  <2> HIDE DEF x, y, p, back
  <2>4. back = x + p
    BY <1>1, <2>2, <2>3 DEF x, y
  <2> QED
    BY <2>4 DEF x
<1>5. /\ w \in Nat /\ WindowStart(r, t) = w * p /\ WindowStart(r, t) \in Nat
      /\ v \in Nat /\ WindowStart(r, back) = v * p /\ back < WindowStart(r, back) + p
  <2> HIDE DEF back
  <2> QED
    BY <1>3, WindowNumbers
<1>6. w <= v
  <2> HIDE DEF back
  <2> QED
    BY <1>3, WindowsApart
<1>7. w # v
  <2> SUFFICES ASSUME w = v PROVE FALSE
    OBVIOUS
  <2>1. p * (t \div p) = w * p
    <3>1. w = t \div p
      BY DEF Window
    <3> HIDE DEF w
    <3> QED
      BY <1>1, <1>5, <3>1
  <2> DEFINE s == w * p
  <2>2. back = s + p /\ back < s + p /\ s \in Nat
    BY <1>4, <1>5, <2>1
  <2> HIDE DEF s, back, p
  <2> QED
    BY <1>1, <2>2
<1> HIDE DEF w, v
<1> QED
  BY <1>3, <1>5, <1>6, <1>7 DEF w, v

\* The count after increment_with_ttl is the one before and what was added.
LEMMA AddedCount ==
  ASSUME NEW r, RateOK(r), r.strategy # "sliding_window_counter", NEW c, WindowCell(r, c),
         NEW w, NEW amount \in Nat, NEW at \in Nat
  PROVE  /\ CountIn(c, w, at) \in Nat
         /\ Added(r, c, <<"count", w>>, amount, at)[<<"count", w>>].value = CountIn(c, w, at) + amount
         /\ WindowCell(r, Added(r, c, <<"count", w>>, amount, at))
<1> DEFINE key == <<"count", w>>
           old == Stored(c, key, at)
           a   == Added(r, c, key, amount, at)
<1>1. amount \in Int
  OBVIOUS
<1>2. WindowCell(r, a) /\ a[key].value = IF old = None THEN amount ELSE old + amount
  <2>1. /\ WindowCell(r, a)
        /\ a[key] = [value |-> IF old = None THEN amount ELSE old + amount,
                     exp   |-> IF old = None THEN TwiceTTL(r, at) ELSE c[key].exp]
    BY <1>1, AddedShape
  <2> HIDE DEF a, key, old
  <2> QED
    BY <2>1
<1>3. old = None \/ old \in Nat
  BY StoredShape DEF ValueOK
<1>4. CountIn(c, w, at) = AtLeast(old, 0)
  BY DEF CountIn
<1> HIDE DEF old, a
<1>5. CountIn(c, w, at) = IF old = None THEN 0 ELSE old
  BY <1>3, <1>4 DEF AtLeast, None
<1> QED
  BY <1>2, <1>3, <1>5 DEF a

\* A tier, and the hour, admit what fits on top of the window's count.
LEMMA TieredRateAdmits ==
  ASSUME NEW r, RateOK(r), r.strategy \in {"tiered_rate", "time_of_day"}, NEW c, WindowCell(r, c),
         NEW t \in Nat, NEW cost \in Nat \ {0}
  PROVE  /\ CountIn(c, Window(r, t), t) \in Nat /\ EffectiveLimit(r, t) \in Int
         /\ HitOf(r, c, t, cost, t).wait =
              IF CountIn(c, Window(r, t), t) + cost > EffectiveLimit(r, t) THEN UntilWindowEnds(r, t) ELSE 0
         /\ HitOf(r, c, t, cost, t).cell = Added(r, c, <<"count", Window(r, t)>>, cost, t)
         /\ WindowCell(r, HitOf(r, c, t, cost, t).cell)
<1> DEFINE a == Added(r, c, <<"count", Window(r, t)>>, cost, t)
<1>1. cost \in Nat /\ r.strategy # "sliding_window_counter"
  OBVIOUS
<1>2. /\ CountIn(c, Window(r, t), t) \in Nat /\ WindowCell(r, a)
      /\ a[<<"count", Window(r, t)>>].value = CountIn(c, Window(r, t), t) + cost
  BY <1>1, AddedCount
<1>3. HitOf(r, c, t, cost, t) = TieredRate(r, c, t, cost, t)
  BY HitOfIs
<1>4. /\ TieredRate(r, c, t, cost, t).cell = a
      /\ TieredRate(r, c, t, cost, t).wait =
           IF a[<<"count", Window(r, t)>>].value > EffectiveLimit(r, t) THEN UntilWindowEnds(r, t) ELSE 0
  BY DEF TieredRate, Outcome
<1> HIDE DEF a
<1> QED
  BY <1>2, <1>3, <1>4, EffectiveLimitIsInt DEF a

\* get_stat of a tier, or of an hour, looks at the same counter and limit as its hit.
LEMMA TieredRateForetold ==
  ASSUME NEW r, RateOK(r), r.strategy \in {"tiered_rate", "time_of_day"}, NEW c, WindowCell(r, c),
         NEW t \in Nat, NEW cost \in Nat \ {0}
  PROVE  Foretold(r, c, t, cost) /\ WaitForetold(r, c, t)
<1> DEFINE count == CountIn(c, Window(r, t), t)
           limit == EffectiveLimit(r, t)
           until == UntilWindowEnds(r, t)
<1>1. count \in Nat /\ limit \in Int /\ until # 0
  BY TieredRateAdmits, WindowNotOver
<1>2. HitOf(r, c, t, cost, t).wait = IF count + cost > limit THEN until ELSE 0
  BY TieredRateAdmits
<1>3. HitOf(r, c, t, 1, t).wait = IF count + 1 > limit THEN until ELSE 0
  <2>1. 1 \in Nat \ {0}
    OBVIOUS
  <2> QED
    BY <2>1, TieredRateAdmits
<1>4. StatOf(r, c, t) = [remaining |-> AtLeast(limit - count, 0) * r.period,
                         wait      |-> IF count >= limit THEN until ELSE 0]
  BY StatOfIs DEF TieredRateStat
<1> HIDE DEF count, limit, until
<1>5. cost * r.period <= AtLeast(limit - count, 0) * r.period <=> cost <= limit - count
  <2>1. limit - count \in Int /\ r.period \in Nat \ {0}
    BY <1>1 DEF RateOK
  <2> QED
    BY <2>1, LeftOver
<1>6. HitOf(r, c, t, cost, t).wait = 0 <=> cost <= limit - count
  BY <1>1, <1>2
<1>7. HitOf(r, c, t, 1, t).wait = 0 <=> ~ (count >= limit)
  BY <1>1, <1>3
<1>8. StatOf(r, c, t).wait = 0 <=> ~ (count >= limit)
  BY <1>1, <1>4
<1> QED
  BY <1>4, <1>5, <1>6, <1>7, <1>8 DEF Foretold, WaitForetold

\* The wait to the end of the window leads into an empty one.
LEMMA TieredRateEnough ==
  ASSUME NEW r, RateOK(r), r.strategy \in {"tiered_rate", "time_of_day"}, NEW c, WindowCell(r, c),
         NEW t \in Nat, NoneLater(r, c, t), NEW cost \in Nat \ {0},
         cost <= EffectiveLimit(r, t + UntilWindowEnds(r, t))
  PROVE  Enough(r, c, t, cost, t)
<1> DEFINE until == UntilWindowEnds(r, t)
           first == HitOf(r, c, t, cost, t)
           back  == t + until
<1>1. until \in Nat
  BY WindowNotOver
<1>2. /\ first.wait = 0 \/ first.wait = until
      /\ first.cell = Added(r, c, <<"count", Window(r, t)>>, cost, t) /\ WindowCell(r, first.cell)
  BY TieredRateAdmits
<1>3. back \in Nat /\ Window(r, t) \in Nat /\ Window(r, back) \in Nat /\ Window(r, t) < Window(r, back)
  BY NextWindow
<1>4. NoneLater(r, first.cell, t)
  <2>1. Window(r, t) \in Int /\ Window(r, t) <= Window(r, t)
    BY <1>3
  <2> HIDE DEF first
  <2> QED
    BY <1>2, <2>1, AddedNoneLater
<1> HIDE DEF first, back
<1>5. CountIn(first.cell, Window(r, back), back) = 0
  BY <1>3, <1>4, NothingYet
<1>6. EffectiveLimit(r, back) \in Int /\ cost <= EffectiveLimit(r, back)
  BY <1>3, EffectiveLimitIsInt DEF back
<1>7. HitOf(r, first.cell, back, cost, back).wait =
        IF CountIn(first.cell, Window(r, back), back) + cost > EffectiveLimit(r, back) THEN UntilWindowEnds(r, back) ELSE 0
  BY <1>2, <1>3, TieredRateAdmits
<1>8. HitOf(r, first.cell, back, cost, back).wait = 0
  BY <1>5, <1>6, <1>7
<1> QED
  BY <1>1, <1>2, <1>8 DEF Enough, first, back

\* A quota admits what fits on top of what the period has used, within the limit and
\* what rolled over.
LEMMA QuotaAdmits ==
  ASSUME NEW r, RateOK(r), r.strategy = "quota_with_rollover", NEW c, WindowCell(r, c),
         NEW t \in Nat, NEW cost \in Nat \ {0}
  PROVE  LET w     == Window(r, t)
             known == Stored(c, <<"rollover", w>>, t)
             over  == IF known = None THEN Rollover(r, Stored(c, <<"count", w - 1>>, t)) ELSE known
             out   == HitOf(r, c, t, cost, t)
         IN  /\ CountIn(c, w, t) \in Nat /\ over \in Nat
             /\ out.wait = IF CountIn(c, w, t) + cost > r.limit + over THEN UntilWindowEnds(r, t) ELSE 0
             /\ CountIn(c, w, t) + cost > r.limit + over =>
                  \/ out.cell = c
                  \/ out.cell = Put(c, <<"rollover", w>>, over, TwiceTTL(r, t), t) /\ WindowCell(r, out.cell)
<1> DEFINE w      == Window(r, t)
           known  == Stored(c, <<"rollover", w>>, t)
           used   == Stored(c, <<"count", w - 1>>, t)
           over   == IF known = None THEN Rollover(r, used) ELSE known
           put    == Put(c, <<"rollover", w>>, over, TwiceTTL(r, t), t)
           opened == IF known = None THEN put ELSE c
           out    == QuotaWithRollover(r, c, t, cost, t)
<1>1. CountIn(c, w, t) \in Nat
  <2>1. r.strategy # "sliding_window_counter" /\ cost \in Nat
    OBVIOUS
  <2> QED
    BY <2>1, AddedCount
<1>2. over \in 0 .. r.maxRollover
  <2>1. used = None \/ used \in Nat
    BY StoredShape DEF ValueOK
  <2>2. known # None => known \in 0 .. r.maxRollover
    BY StoredShape DEF ValueOK
  <2> HIDE DEF used, known
  <2> QED
    BY <2>1, <2>2, RolloverInRange
<1>3. over \in Nat
  <2> HIDE DEF over
  <2> QED
    BY <1>2 DEF RateOK, StrategyFields
<1>4. WindowCell(r, put)
  <2> DEFINE key == <<"rollover", w>>
             exp == TwiceTTL(r, t)
  <2>1. key[1] = "rollover"
    OBVIOUS
  <2>2. exp \in Int /\ t \in Int
    BY TTLsPositive DEF TTLs, TwiceTTL
  <2> HIDE DEF key, exp, over
  <2>3. ValueOK(r, key[1], over)
    BY <1>2, <2>1 DEF ValueOK
  <2>4. WindowCell(r, Put(c, key, over, exp, t))
    BY <2>2, <2>3, PutShape
  <2> QED
    BY <2>4 DEF key, exp
<1>5. HitOf(r, c, t, cost, t) = out
  BY HitOfIs
<1>6. /\ out.wait = IF CountIn(c, w, t) + cost > r.limit + over THEN UntilWindowEnds(r, t) ELSE 0
      /\ CountIn(c, w, t) + cost > r.limit + over => out.cell = opened
  BY DEF QuotaWithRollover, Outcome
<1> HIDE DEF out, put, over, w
<1>7. opened = c \/ opened = put
  OBVIOUS
<1> HIDE DEF opened
<1> QED
  BY <1>1, <1>3, <1>4, <1>5, <1>6, <1>7 DEF put, over, w

\* get_stat of a quota knows what rolls over once the period's first request has decided it.
LEMMA QuotaForetold ==
  ASSUME NEW r, RateOK(r), r.strategy = "quota_with_rollover", NEW c, WindowCell(r, c),
         NEW t \in Nat, NEW cost \in Nat \ {0}, Stored(c, <<"rollover", Window(r, t)>>, t) # None
  PROVE  Foretold(r, c, t, cost) /\ WaitForetold(r, c, t)
<1> DEFINE count == CountIn(c, Window(r, t), t)
           over  == Stored(c, <<"rollover", Window(r, t)>>, t)
           until == UntilWindowEnds(r, t)
           left  == r.limit + over - count
<1>1. /\ count \in Nat /\ over \in Nat
      /\ HitOf(r, c, t, cost, t).wait = IF count + cost > r.limit + over THEN until ELSE 0
  BY QuotaAdmits
<1>2. HitOf(r, c, t, 1, t).wait = IF count + 1 > r.limit + over THEN until ELSE 0
  <2>1. 1 \in Nat \ {0}
    OBVIOUS
  <2> QED
    BY <2>1, QuotaAdmits
<1>3. until # 0 /\ r.limit \in Nat /\ r.period \in Nat \ {0}
  BY WindowNotOver DEF RateOK
<1>4. StatOf(r, c, t) = [remaining |-> AtLeast(r.limit + AtLeast(over, 0) - count, 0) * r.period,
                         wait      |-> IF r.limit + AtLeast(over, 0) - count <= 0 THEN until ELSE 0]
  BY StatOfIs DEF QuotaWithRolloverStat
<1> HIDE DEF count, over, until
<1>5. AtLeast(over, 0) = over
  BY <1>1 DEF AtLeast
<1>6. StatOf(r, c, t).remaining = AtLeast(left, 0) * r.period /\ StatOf(r, c, t).wait = IF left <= 0 THEN until ELSE 0
  BY <1>4, <1>5
<1>7. left \in Int
  BY <1>1, <1>3
<1>8. cost * r.period <= AtLeast(left, 0) * r.period <=> cost <= left
  BY <1>3, <1>7, LeftOver
<1>9. HitOf(r, c, t, cost, t).wait = 0 <=> cost <= left
  BY <1>1, <1>3
<1>10. HitOf(r, c, t, 1, t).wait = 0 <=> ~ (left <= 0)
  BY <1>1, <1>2, <1>3
<1>11. StatOf(r, c, t).wait = 0 <=> ~ (left <= 0)
  BY <1>3, <1>6
<1> QED
  BY <1>6, <1>8, <1>9, <1>10, <1>11 DEF Foretold, WaitForetold

\* The wait to the end of a quota's period leads into one of which nothing is used.
LEMMA QuotaEnough ==
  ASSUME NEW r, RateOK(r), r.strategy = "quota_with_rollover", NEW c, WindowCell(r, c),
         NEW t \in Nat, NoneLater(r, c, t), NEW cost \in Nat \ {0}, cost <= r.limit
  PROVE  Enough(r, c, t, cost, t)
<1> DEFINE until == UntilWindowEnds(r, t)
           first == HitOf(r, c, t, cost, t)
           back  == t + until
<1>1. until \in Nat
  BY WindowNotOver
<1>2. /\ first.wait = 0 \/ first.wait = until
      /\ first.wait # 0 =>
           \/ first.cell = c
           \/ WindowCell(r, first.cell) /\ \E v, exp : first.cell = Put(c, <<"rollover", Window(r, t)>>, v, exp, t)
  <2> DEFINE w     == Window(r, t)
             known == Stored(c, <<"rollover", w>>, t)
             over  == IF known = None THEN Rollover(r, Stored(c, <<"count", w - 1>>, t)) ELSE known
             full  == CountIn(c, w, t) + cost > r.limit + over
  <2>1. /\ first.wait = IF full THEN until ELSE 0
        /\ full => \/ first.cell = c
                   \/ first.cell = Put(c, <<"rollover", w>>, over, TwiceTTL(r, t), t) /\ WindowCell(r, first.cell)
    BY QuotaAdmits
  <2> HIDE DEF first, full, over, until
  <2> QED
    BY <2>1
<1>3. back \in Nat /\ Window(r, t) \in Nat /\ Window(r, back) \in Nat /\ Window(r, t) < Window(r, back)
  BY NextWindow
<1>4. first.wait # 0 => NoneLater(r, first.cell, t) /\ WindowCell(r, first.cell)
  <2>1. Window(r, t) \in Int /\ Window(r, t) <= Window(r, t)
    BY <1>3
  <2>2. \A v, exp : NoneLater(r, Put(c, <<"rollover", Window(r, t)>>, v, exp, t), t)
    BY <2>1, PutNoneLater
  <2> HIDE DEF first
  <2> QED
    BY <1>2, <2>2
<1> HIDE DEF first, back
<1>5. ASSUME first.wait # 0 PROVE HitOf(r, first.cell, back, cost, back).wait = 0
  <2>1. NoneLater(r, first.cell, t) /\ WindowCell(r, first.cell)
    BY <1>4, <1>5
  <2>2. /\ CountIn(first.cell, Window(r, back), back) = 0
        /\ Stored(first.cell, <<"rollover", Window(r, back)>>, back) = None
    BY <1>3, <2>1, NothingYet
  <2> DEFINE over == Rollover(r, Stored(first.cell, <<"count", Window(r, back) - 1>>, back))
  <2>3. /\ over \in Nat
        /\ HitOf(r, first.cell, back, cost, back).wait = IF 0 + cost > r.limit + over THEN UntilWindowEnds(r, back) ELSE 0
    BY <1>3, <2>1, <2>2, QuotaAdmits
  <2> HIDE DEF over
  <2>4. r.limit \in Nat
    BY DEF RateOK
  <2> QED
    BY <2>3, <2>4
<1> QED
  BY <1>1, <1>2, <1>5 DEF Enough, first, back

\* An adaptive throttle never admits less than its floor: a request within it passes
\* if it is the window's first.
LEMMA AdaptiveEnough ==
  ASSUME NEW r, RateOK(r), r.strategy = "adaptive_throttle", NEW c, WindowCell(r, c),
         NEW t \in Nat, NoneLater(r, c, t), NEW cost \in Costs, 100 * cost <= r.limit * r.floor
  PROVE  Enough(r, c, t, cost, t)
<1> DEFINE until == UntilWindowEnds(r, t)
           first == HitOf(r, c, t, cost, t)
           back  == t + until
<1>0. cost \in Nat \ {0} /\ cost \in Nat /\ r.strategy # "sliding_window_counter"
  BY ScenariosAssumption
<1>1. until \in Nat
  BY WindowNotOver
<1>2. first = AdaptiveThrottle(r, c, t, cost, t) /\ WindowCell(r, first.cell)
  BY HitOfIs, AdaptiveThrottleStep
<1>3. back \in Nat /\ Window(r, t) \in Nat /\ Window(r, back) \in Nat /\ Window(r, t) < Window(r, back)
  BY NextWindow
<1>4. first.wait = 0 \/ first.wait = until
  <2>1. AdaptiveThrottle(r, c, t, cost, t).wait = 0 \/ AdaptiveThrottle(r, c, t, cost, t).wait = until
    BY DEF AdaptiveThrottle, Outcome
  <2> QED
    BY <1>2, <2>1
<1>5. NoneLater(r, first.cell, t)
  <2> DEFINE w       == Window(r, t)
             counted == Added(r, c, <<"count", w>>, cost, t)
  <2>1. w \in Int /\ w <= Window(r, t)
    BY <1>3
  <2>2. \/ first.cell = counted
        \/ \E v : first.cell = Put(counted, <<"limit", w>>, v, TwiceTTL(r, t), t)
    <3>1. \/ AdaptiveThrottle(r, c, t, cost, t).cell = counted
          \/ \E v : AdaptiveThrottle(r, c, t, cost, t).cell = Put(counted, <<"limit", w>>, v, TwiceTTL(r, t), t)
      BY DEF AdaptiveThrottle, Outcome
    <3> QED
      BY <1>2, <3>1
  <2> HIDE DEF w
  <2>3. NoneLater(r, counted, t)
    BY <2>1, AddedNoneLater
  <2> HIDE DEF counted
  <2>4. \A v : NoneLater(r, Put(counted, <<"limit", w>>, v, TwiceTTL(r, t), t), t)
    BY <2>1, <2>3, PutNoneLater
  <2> HIDE DEF first
  <2> QED
    BY <2>2, <2>3, <2>4
<1> HIDE DEF first, back
<1>6. AdaptiveThrottle(r, first.cell, back, cost, back).wait = 0
  <2> DEFINE d       == first.cell
             v       == Window(r, back)
             counted == Added(r, d, <<"count", v>>, cost, back)
             count   == counted[<<"count", v>>].value
             known   == Stored(d, <<"limit", v>>, back)
             start   == IF known = None THEN InitialLimit(r, d, v, back) ELSE known
             limit   == IF TooBusy(r, start, count) THEN Lowered(r, start) ELSE start
  <2>1. CountIn(d, v, back) = 0
    BY <1>3, <1>5, NothingYet
  <2>2. count = cost
    <3>1. count = CountIn(d, v, back) + cost
      BY <1>0, <1>2, <1>3, AddedCount
    <3> QED
      BY <1>0, <2>1, <3>1
  <2>3. ValueOK(r, "limit", limit)
    BY <1>2, LimitStays
  <2>4. AdaptiveThrottle(r, d, back, cost, back).wait = IF 100 * count > limit THEN UntilWindowEnds(r, back) ELSE 0
    BY DEF AdaptiveThrottle, Outcome
  <2> HIDE DEF limit, count, d
  <2>5. r.limit * r.floor <= limit /\ limit \in Int
    BY <2>3, ValueIsInt DEF ValueOK
  <2>6. r.limit * r.floor \in Nat
    BY ProductIsNat DEF RateOK, StrategyFields
  <2> DEFINE least == r.limit * r.floor
  <2>7. least \in Nat /\ least <= limit /\ 100 * cost <= least
    BY <2>5, <2>6
  <2> HIDE DEF least
  <2>8. ~ (100 * count > limit)
    BY <1>0, <2>2, <2>5, <2>7
  <2> QED
    BY <2>4, <2>8 DEF d
<1>7. HitOf(r, first.cell, back, cost, back) = AdaptiveThrottle(r, first.cell, back, cost, back)
  BY HitOfIs
<1> QED
  BY <1>1, <1>4, <1>6, <1>7 DEF Enough, first, back

(* The sliding window counter. *)

\* Nobody is told to wait for nothing, unless the window begins that instant.
LEMMA CounterWaitPositive ==
  ASSUME NEW r, RateOK(r), NEW t \in Nat, TimeInWindow(r, t) # 0, NEW excess \in Nat \ {0}, NEW previous \in Int
  PROVE  CounterWait(r, t, excess, previous) \in Nat \ {0}
<1>1. TimeInWindow(r, t) \in Nat \ {0} /\ UntilWindowEnds(r, t) \in Nat \ {0}
  BY WindowNotOver
<1>2. ASSUME previous > 0 PROVE CeilDiv(excess * TimeInWindow(r, t), previous * r.period) \in Nat \ {0}
  <2>1. \A x, y \in Nat \ {0} : x * y \in Nat \ {0}
    OBVIOUS
  <2>2. excess * TimeInWindow(r, t) \in Nat \ {0} /\ previous * r.period \in Nat \ {0}
    BY <1>1, <1>2, <2>1 DEF RateOK
  <2> QED
    BY <2>2, CeilDivPositive
<1> QED
  BY <1>1, <1>2 DEF CounterWait

\* A hit of the counter counts its cost, and weighs it with both windows' counts.
LEMMA CounterAdmits ==
  ASSUME NEW r, RateOK(r), r.strategy = "sliding_window_counter", NEW c, WindowCell(r, c),
         NEW t \in Nat, TimeInWindow(r, t) # 0, NEW cost \in Nat \ {0},
         LET old == Stored(c, <<"count", Window(r, t)>>, t) IN old = None \/ old \in Nat
  PROVE  LET previous == CountIn(c, Window(r, t) - 1, t)
             count    == CountIn(c, Window(r, t), t)
             weighted == Weighted(r, t, count, previous)
         IN  /\ weighted \in Int /\ cost * r.period \in Int /\ previous \in Int
             /\ HitOf(r, c, t, cost, t).wait = 0 <=> weighted + cost * r.period - r.limit * r.period <= 0
<1> DEFINE w        == Window(r, t)
           key      == <<"count", w>>
           old      == Stored(c, key, t)
           counted  == Added(r, c, key, cost, t)
           last     == Stored(c, <<"count", w - 1>>, t)
           before == CountIn(c, w - 1, t)
           mine    == CountIn(c, w, t)
           excess   == Overweight(r, t, CountIn(counted, w, t), before)
           out      == SlidingWindowCounter(r, c, t, cost, t)
<1>1. r.period \in Nat \ {0} /\ r.limit \in Nat /\ UntilWindowEnds(r, t) \in Nat
  BY WindowNotOver DEF RateOK
<1>2. last \in Int /\ before = AtLeast(last, 0)
  <2>1. last \in Int
    BY StoredShape DEF None
  <2> QED
    BY <2>1 DEF CountIn
<1>3. mine \in Nat /\ mine = IF old = None THEN 0 ELSE old
  <2>1. old = None \/ old \in Nat
    OBVIOUS
  <2>2. mine = AtLeast(old, 0)
    BY DEF CountIn
  <2> HIDE DEF old, mine
  <2> QED
    BY <2>1, <2>2 DEF AtLeast, None
<1>4. CountIn(counted, w, t) = mine + cost
  <2> DEFINE new == IF old = None THEN cost ELSE old + cost
             exp == IF old = None THEN TwiceTTL(r, t) ELSE c[key].exp
  <2>1. key \in DOMAIN counted /\ counted[key] = [value |-> new, exp |-> exp]
    <3>1. cost \in Int
      OBVIOUS
    <3> QED
      BY <3>1, AddedShape
  <2>2. t < exp
    <3>1. old # None => Live(c[key], t)
      BY DEF Stored
    <3>2. t < TwiceTTL(r, t)
      BY StoredNowCovers
    <3> HIDE DEF old
    <3> QED
      BY <3>1, <3>2 DEF Live
  <2> HIDE DEF counted, new, exp, key
  <2>3. Stored(counted, key, t) = new
    BY <2>1, <2>2 DEF Stored, Live
  <2>4. CountIn(counted, w, t) = AtLeast(new, 0)
    BY <2>3 DEF CountIn, key
  <2>5. new = mine + cost
    BY <1>3 DEF new
  <2> HIDE DEF mine
  <2> QED
    BY <1>3, <2>4, <2>5 DEF AtLeast
<1>5. /\ excess > 0 => out.wait = CounterWait(r, t, excess, last)
      /\ ~ (excess > 0) => out.wait = 0
  <2>1. out = IF excess > 0 THEN Outcome(CounterWait(r, t, excess, last), out.cell) ELSE Outcome(0, out.cell)
    BY <1>2 DEF SlidingWindowCounter, Outcome
  <2> HIDE DEF out, excess, last
  <2> QED
    BY <2>1 DEF Outcome
<1>6. HitOf(r, c, t, cost, t) = out
  BY DEF HitOf
<1> HIDE DEF out, counted, last, before, mine
<1> DEFINE part == before * UntilWindowEnds(r, t)
<1>7. before \in Int /\ part \in Int
  <2>1. before \in Int
    BY <1>2 DEF AtLeast
  <2> QED
    BY <1>1, <2>1
<1> DEFINE was == mine * r.period
           price == cost * r.period
           top == r.limit * r.period
<1>8. was \in Int /\ price \in Int /\ top \in Int /\ (mine + cost) * r.period = was + price
  <2>1. \A x \in Int : x * r.period = r.period * x /\ x * r.period \in Int
    BY <1>1
  <2>2. r.period * (mine + cost) = r.period * mine + r.period * cost
    BY <1>1, <1>3, ProductSplits
  <2>3. mine \in Int /\ cost \in Int /\ r.limit \in Int /\ mine + cost \in Int
    BY <1>1, <1>3
  <2> QED
    BY <2>1, <2>2, <2>3
<1>9. Weighted(r, t, mine, before) = part + was /\ excess = part + (was + price) - top
  <2>1. Weighted(r, t, mine, before) = part + was
    BY DEF Weighted
  <2>2. Weighted(r, t, mine + cost, before) = part + (mine + cost) * r.period
    BY DEF Weighted
  <2>3. excess = Weighted(r, t, mine + cost, before) - top
    BY <1>4 DEF Overweight
  <2> DEFINE sum == (mine + cost) * r.period
             heavy == Weighted(r, t, mine + cost, before)
  <2>4. sum = was + price /\ heavy = part + sum /\ excess = heavy - top
    BY <1>8, <2>2, <2>3
  <2> HIDE DEF part, was, price, top, excess, sum, heavy
  <2> QED
    BY <1>7, <1>8, <2>1, <2>4
<1> HIDE DEF part, was, price, top, excess
<1>10. excess > 0 => CounterWait(r, t, excess, last) # 0
  <2>1. excess > 0 => excess \in Nat \ {0}
    BY <1>7, <1>8, <1>9
  <2> QED
    BY <1>2, <2>1, CounterWaitPositive
<1>11. HitOf(r, c, t, cost, t).wait = 0 <=> ~ (excess > 0)
  BY <1>5, <1>6, <1>10
<1>12. ~ (excess > 0) <=> (part + was) + price - top <= 0
  BY <1>7, <1>8, <1>9
<1> QED
  BY <1>7, <1>8, <1>9, <1>11, <1>12 DEF before, mine, price, top

\* get_stat of the counter weighs both windows as its hit does.
LEMMA CounterForetold ==
  ASSUME NEW r, RateOK(r), r.strategy = "sliding_window_counter", NEW c, WindowCell(r, c),
         NEW t \in Nat, TimeInWindow(r, t) # 0, NEW cost \in Nat \ {0},
         LET old == Stored(c, <<"count", Window(r, t)>>, t) IN old = None \/ old \in Nat
  PROVE  Foretold(r, c, t, cost) /\ WaitForetold(r, c, t)
<1> DEFINE previous == CountIn(c, Window(r, t) - 1, t)
           count    == CountIn(c, Window(r, t), t)
           weighted == Weighted(r, t, count, previous)
           price    == cost * r.period
           top      == r.limit * r.period
           excess   == weighted + r.period - top
<1>1. /\ weighted \in Int /\ price \in Int /\ previous \in Int
      /\ HitOf(r, c, t, cost, t).wait = 0 <=> weighted + price - top <= 0
  BY CounterAdmits
<1>2. HitOf(r, c, t, 1, t).wait = 0 <=> weighted + 1 * r.period - top <= 0
  <2>1. 1 \in Nat \ {0}
    OBVIOUS
  <2> QED
    BY <2>1, CounterAdmits
<1>3. r.period \in Nat \ {0} /\ 1 * r.period = r.period /\ top \in Int /\ price >= 1
  <2>1. r.period \in Nat \ {0} /\ r.limit \in Nat
    BY DEF RateOK
  <2>2. 1 * r.period <= cost * r.period /\ 1 * r.period = r.period /\ top \in Int
    BY <2>1, MultiplesCompare, ProductIsNat
  <2> HIDE DEF top
  <2>3. price \in Int /\ r.period <= price
    BY <1>1, <2>2
  <2> HIDE DEF price
  <2> QED
    BY <2>1, <2>2, <2>3
<1>4. StatOf(r, c, t) = [remaining |-> AtLeast(top - weighted, 0),
                         wait |-> IF excess > 0 THEN AtLeast(CounterWait(r, t, excess, previous), 0) ELSE 0]
  BY StatOfIs DEF SlidingWindowCounterStat
<1> HIDE DEF previous, count, weighted, price, top
<1>5. excess \in Int
  BY <1>1, <1>3
<1> HIDE DEF excess
<1>6. excess > 0 => AtLeast(CounterWait(r, t, excess, previous), 0) # 0
  <2>1. excess > 0 => CounterWait(r, t, excess, previous) \in Nat \ {0}
    BY <1>1, <1>5, CounterWaitPositive
  <2> QED
    BY <2>1 DEF AtLeast
<1>7. StatOf(r, c, t).wait = 0 <=> ~ (excess > 0)
  BY <1>4, <1>6
<1>8. HitOf(r, c, t, 1, t).wait = 0 <=> ~ (excess > 0)
  BY <1>1, <1>2, <1>3 DEF excess
<1>9. price <= AtLeast(top - weighted, 0) <=> weighted + price - top <= 0
  BY <1>1, <1>3 DEF AtLeast
<1>10. StatOf(r, c, t).remaining = AtLeast(top - weighted, 0)
  BY <1>4
<1> QED
  BY <1>1, <1>7, <1>8, <1>9, <1>10 DEF Foretold, WaitForetold, price

(* The invariant: what is stored is of no later time, and the counter of the
   current window holds what its requests have counted. *)

\* The counter of the window of t lives to the window's end, and is not negative.
CountSound(r, c, t) ==
  LET key == <<"count", Window(r, t)>>
  IN  key \in DOMAIN c => c[key].value \in Nat /\ EndOf(r, Window(r, t)) <= c[key].exp

\* What a request has counted in the current window is there until it takes it back.
CountsHeld ==
  \A q \in Requests : Counting(q) /\ Mine(q) = Window(rate, clock) /\ "count" \notin hit[q].todo =>
    LET key == <<"count", Window(rate, clock)>>
    IN  key \in DOMAIN cell /\ hit[q].cost <= cell[key].value

\* The lock of a window lets one request of that window in.
OnePerWindow ==
  \A p, q \in Requests : Counting(p) /\ Counting(q) /\ Mine(p) = Mine(q) => p = q

\* The invariant of what the requests are told.
Told ==
  /\ rate.strategy = "leaky_bucket_queue" => cell = Absent \/ cell.last <= clock
  /\ rate.strategy \in Windowed => NoneLater(rate, cell, clock)
  /\ Stepwise => CountSound(rate, cell, clock) /\ CountsHeld /\ OnePerWindow

\* What is stored of the current window is found.
LEMMA CountFound ==
  ASSUME NEW r, RateOK(r), NEW c, WindowCell(r, c), NEW t \in Nat, CountSound(r, c, t)
  PROVE  LET key == <<"count", Window(r, t)>>
         IN  /\ key \in DOMAIN c => Live(c[key], t) /\ Stored(c, key, t) = c[key].value /\ c[key].value \in Nat
             /\ key \notin DOMAIN c => Stored(c, key, t) = None
<1> DEFINE key == <<"count", Window(r, t)>>
           e   == EndOf(r, Window(r, t))
<1>1. e \in Nat /\ t < e
  BY WindowEnds
<1>2. key \in DOMAIN c => c[key].value \in Nat /\ e <= c[key].exp
  BY DEF CountSound
<1> HIDE DEF key, e
<1>3. key \in DOMAIN c => c[key].exp \in Int
  BY DEF WindowCell
<1>4. key \in DOMAIN c => Live(c[key], t)
  BY <1>1, <1>2, <1>3 DEF Live
<1> QED
  BY <1>2, <1>4 DEF Stored, key

\* A value stored under another key leaves it alone.
LEMMA CountLeftAlone ==
  ASSUME NEW r, RateOK(r), NEW c, WindowCell(r, c), NEW t \in Nat, CountSound(r, c, t),
         NEW other, other # <<"count", Window(r, t)>>, NEW v, NEW exp
  PROVE  LET key == <<"count", Window(r, t)>>
             p   == Put(c, other, v, exp, t)
         IN  /\ key \in DOMAIN p <=> key \in DOMAIN c
             /\ key \in DOMAIN c => p[key] = c[key]
             /\ CountSound(r, p, t)
<1> DEFINE key == <<"count", Window(r, t)>>
           D == {l \in DOMAIN c : Live(c[l], t)} \cup {other}
           p == Put(c, other, v, exp, t)
<1>1. p = [k \in D |-> IF k = other THEN [value |-> v, exp |-> exp] ELSE c[k]]
  BY DEF Put
<1>2. key # other /\ (key \in DOMAIN c => Live(c[key], t))
  BY CountFound
<1>3. key \in DOMAIN c => c[key].value \in Nat /\ EndOf(r, Window(r, t)) <= c[key].exp
  BY DEF CountSound
<1> HIDE DEF key, p
<1>4. (key \in DOMAIN p <=> key \in DOMAIN c) /\ (key \in DOMAIN c => p[key] = c[key])
  BY <1>1, <1>2
<1>5. key \in DOMAIN p => p[key].value \in Nat /\ EndOf(r, Window(r, t)) <= p[key].exp
  BY <1>3, <1>4
<1> QED
  BY <1>4, <1>5 DEF CountSound, key, p

\* What is counted in the current window is added to it.
LEMMA CountAdded ==
  ASSUME NEW r, RateOK(r), r.strategy = "sliding_window_counter", NEW c, WindowCell(r, c), NEW t \in Nat,
         CountSound(r, c, t), NEW amount \in Int,
         LET key == <<"count", Window(r, t)>>
         IN  IF key \in DOMAIN c THEN c[key].value + amount \in Nat ELSE amount \in Nat
  PROVE  LET key == <<"count", Window(r, t)>>
             a   == Added(r, c, key, amount, t)
         IN  /\ key \in DOMAIN a
             /\ a[key].value = IF key \in DOMAIN c THEN c[key].value + amount ELSE amount
             /\ CountSound(r, a, t)
<1> DEFINE key == <<"count", Window(r, t)>>
           a   == Added(r, c, key, amount, t)
           old == Stored(c, key, t)
<1>1. /\ key \in DOMAIN a
      /\ a[key] = [value |-> IF old = None THEN amount ELSE old + amount,
                   exp   |-> IF old = None THEN TwiceTTL(r, t) ELSE c[key].exp]
  BY AddedShape
<1>2. /\ key \in DOMAIN c => old = c[key].value /\ c[key].value \in Nat
      /\ key \notin DOMAIN c => old = None
  BY CountFound
<1>3. EndOf(r, Window(r, t)) <= TwiceTTL(r, t)
  BY StoredNowCovers
<1>4. key \in DOMAIN c => EndOf(r, Window(r, t)) <= c[key].exp
  BY DEF CountSound
<1>5. IF key \in DOMAIN c THEN c[key].value + amount \in Nat ELSE amount \in Nat
  OBVIOUS
<1> HIDE DEF key, a, old
<1>6. /\ a[key].value = IF key \in DOMAIN c THEN c[key].value + amount ELSE amount
      /\ EndOf(r, Window(r, t)) <= a[key].exp
  <2>1. CASE key \in DOMAIN c
    <3>1. old # None
      BY <1>2, <2>1 DEF None
    <3> QED
      BY <1>1, <1>2, <1>4, <2>1, <3>1
  <2>2. CASE key \notin DOMAIN c
    BY <1>1, <1>2, <1>3, <2>2
  <2> QED
    BY <2>1, <2>2
<1>7. a[key].value \in Nat
  BY <1>5, <1>6
<1> QED
  BY <1>1, <1>6, <1>7 DEF CountSound, key, a

\* A hit stores for the window of its time or leaves what is there.
LEMMA HitNoneLater ==
  ASSUME NEW r, RateOK(r), r.strategy \in Windowed, r.strategy # "sliding_window_counter",
         NEW c, NEW t \in Nat, NoneLater(r, c, t), NEW now \in Nat, now <= t, NEW cost, NEW at
  PROVE  NoneLater(r, HitOf(r, c, now, cost, at).cell, t)
<1> DEFINE w   == Window(r, now)
           out == HitOf(r, c, now, cost, at)
<1>1. w \in Int /\ w <= Window(r, t)
  BY WindowsApart, WindowEnds
<1> HIDE DEF w
<1>2. r.strategy \in {"tiered_rate", "time_of_day", "adaptive_throttle", "quota_with_rollover"}
  BY DEF Windowed
<1>3. \A d, amount : NoneLater(r, d, t) => NoneLater(r, Added(r, d, <<"count", w>>, amount, at), t)
  BY <1>1, AddedNoneLater
<1>4. \A d, kind, v, exp : NoneLater(r, d, t) => NoneLater(r, Put(d, <<kind, w>>, v, exp, at), t)
  BY <1>1, PutNoneLater
<1>5. CASE r.strategy \in {"tiered_rate", "time_of_day"}
  <2>1. out = TieredRate(r, c, now, cost, at)
    BY <1>5, HitOfIs
  <2>2. TieredRate(r, c, now, cost, at).cell = Added(r, c, <<"count", w>>, cost, at)
    BY DEF TieredRate, Outcome, w
  <2> QED
    BY <1>3, <2>1, <2>2
<1>6. CASE r.strategy = "adaptive_throttle"
  <2> DEFINE counted == Added(r, c, <<"count", w>>, cost, at)
  <2>1. NoneLater(r, counted, t)
    BY <1>3
  <2>2. out = AdaptiveThrottle(r, c, now, cost, at)
    BY <1>6, HitOfIs
  <2>3. \/ AdaptiveThrottle(r, c, now, cost, at).cell = counted
        \/ \E v : AdaptiveThrottle(r, c, now, cost, at).cell = Put(counted, <<"limit", w>>, v, TwiceTTL(r, at), at)
    BY DEF AdaptiveThrottle, Outcome, w
  <2> HIDE DEF counted
  <2> QED
    BY <1>4, <2>1, <2>2, <2>3
<1>7. CASE r.strategy = "quota_with_rollover"
  <2> DEFINE known  == Stored(c, <<"rollover", w>>, at)
             over   == IF known = None THEN Rollover(r, Stored(c, <<"count", w - 1>>, at)) ELSE known
             opened == IF known = None THEN Put(c, <<"rollover", w>>, over, TwiceTTL(r, at), at) ELSE c
  <2>1. NoneLater(r, opened, t)
    BY <1>4
  <2>2. out = QuotaWithRollover(r, c, now, cost, at)
    BY <1>7, HitOfIs
  <2>3. \/ QuotaWithRollover(r, c, now, cost, at).cell = opened
        \/ QuotaWithRollover(r, c, now, cost, at).cell = Added(r, opened, <<"count", w>>, cost, at)
    BY DEF QuotaWithRollover, Outcome, w
  <2> HIDE DEF opened
  <2> QED
    BY <1>3, <2>1, <2>2, <2>3
<1> QED
  BY <1>2, <1>5, <1>6, <1>7

\* Before the first request nothing is stored.
LEMMA ToldInit == Init => Told
<1> SUFFICES ASSUME Init PROVE Told
  OBVIOUS
<1>1. \A q \in Requests : ~ Counting(q)
  BY DEF Init, Counting
<1>2. rate.strategy \in Windowed => DOMAIN cell = {}
  BY DEF Init, EmptyCell
<1>3. rate.strategy = "leaky_bucket_queue" => cell = Absent
  BY DEF Init, EmptyCell, Windowed
<1>4. Stepwise => rate.strategy \in Windowed
  BY DEF Stepwise, Windowed
<1> QED
  BY <1>1, <1>2, <1>3, <1>4 DEF Told, NoneLater, CountSound, CountsHeld, OnePerWindow

\* A step that stores nothing keeps it, unless a request is said to have counted.
LEMMA ToldOther ==
  ASSUME Inductive, Told, rate' = rate, scenario' = scenario, clock' = clock, cell' = cell,
         \A p \in Requests : Counting(p)' /\ "count" \notin hit'[p].todo =>
           /\ Counting(p) /\ "count" \notin hit[p].todo
           /\ hit'[p].now = hit[p].now /\ hit'[p].cost = hit[p].cost,
         OnePerWindow'
  PROVE  Told'
<1>1. Stepwise' <=> Stepwise
  BY DEF Stepwise
<1>2. Stepwise => CountSound(rate', cell', clock')
  BY DEF Told
<1>3. Stepwise => CountsHeld'
  <2> SUFFICES ASSUME Stepwise, NEW q \in Requests, Counting(q)', Mine(q)' = Window(rate, clock), "count" \notin hit'[q].todo
               PROVE  LET key == <<"count", Window(rate, clock)>>
                      IN  key \in DOMAIN cell /\ hit'[q].cost <= cell[key].value
    BY DEF CountsHeld
  <2>1. Counting(q) /\ "count" \notin hit[q].todo /\ Mine(q) = Window(rate, clock) /\ hit'[q].cost = hit[q].cost
    BY DEF Mine
  <2> QED
    BY <2>1 DEF Told, CountsHeld
<1> QED
  BY <1>1, <1>2, <1>3 DEF Told

\* No request gets into a window's lock but by taking it.
LEMMA ApartKept ==
  ASSUME OnePerWindow, rate' = rate,
         \A p \in Requests : Counting(p)' => Counting(p) /\ hit'[p].now = hit[p].now
  PROVE  OnePerWindow'
BY DEF OnePerWindow, Mine

\* What the invariant says of the counter in a step of it.
LEMMA CountingTold ==
  ASSUME Inductive, Told, NEW q \in Requests, Counting(q)
  PROVE  /\ CountSound(rate, cell, clock) /\ CountsHeld /\ OnePerWindow /\ NoneLater(rate, cell, clock)
         /\ Mine(q) \in Int /\ Mine(q) <= Window(rate, clock) /\ Window(rate, clock) \in Nat
         /\ RateOK(rate) /\ rate.strategy = "sliding_window_counter" /\ WindowCell(rate, cell) /\ clock \in Nat
<1>1. Stepwise /\ RateOK(rate) /\ WindowCell(rate, cell) /\ clock \in Nat /\ hit[q].now \in Nat /\ Mine(q) \in Int
  BY CountingFacts
<1>2. hit[q].now <= clock
  BY DEF Inductive, Times
<1>3. Mine(q) <= Window(rate, clock) /\ Window(rate, clock) \in Nat
  BY <1>1, <1>2, WindowsApart, WindowEnds DEF Mine
<1>4. rate.strategy = "sliding_window_counter" /\ rate.strategy \in Windowed
  BY <1>1 DEF Stepwise, Windowed
<1> QED
  BY <1>1, <1>3, <1>4 DEF Told

\* A request that comes, that takes the lock, or that reads the last window.
LEMMA ToldQuiet ==
  ASSUME Inductive, Told, NEW q \in Requests, Begin(q) \/ Lock(q) \/ ReadPrevious(q)
  PROVE  Told'
<1>1. /\ scenario' = scenario /\ clock' = clock /\ cell' = cell /\ rate' = rate
      /\ hit \in [Requests -> Hits]
  BY DEF Begin, Lock, ReadPrevious, rate, Inductive, Shapes
<1>2. \A p \in Requests : Counting(p) => Stepwise
  BY DEF Inductive, Times
<1>3. (\E p \in Requests : Counting(p)) => OnePerWindow
  BY <1>2 DEF Told
<1>4. \A p \in Requests : p # q => hit'[p] = hit[p]
  <2>1. CASE Begin(q)
    BY <1>1, <2>1 DEF Begin
  <2>2. CASE Lock(q)
    BY <1>1, <2>2 DEF Lock
  <2>3. CASE ReadPrevious(q)
    BY <1>1, <2>3 DEF ReadPrevious
  <2> QED
    BY <2>1, <2>2, <2>3
<1>5. CASE Begin(q)
  <2>1. ~ Counting(q)'
    BY <1>1, <1>5 DEF Begin, Counting
  <2>2. \A p \in Requests : Counting(p)' => Counting(p) /\ hit'[p] = hit[p]
    BY <1>4, <2>1 DEF Counting
  <2>3. OnePerWindow'
    BY <1>1, <1>3, <2>2 DEF OnePerWindow, Mine
  <2> QED
    BY <1>1, <2>2, <2>3, ToldOther
<1>6. CASE Lock(q)
  <2>1. /\ \A p \in Requests : Counting(p) => Mine(p) # Mine(q)
        /\ hit'[q].now = hit[q].now /\ "count" \in hit'[q].todo
    BY <1>1, <1>6 DEF Lock
  <2>2. \A p \in Requests : p # q /\ Counting(p)' => Counting(p) /\ hit'[p] = hit[p]
    BY <1>4 DEF Counting
  <2>3. \A p \in Requests : Mine(p)' = Window(rate, hit'[p].now) /\ Mine(p) = Window(rate, hit[p].now)
    BY <1>1 DEF Mine
  <2>4. OnePerWindow'
    BY <1>1, <1>3, <2>1, <2>2, <2>3 DEF OnePerWindow
  <2>5. \A p \in Requests : Counting(p)' /\ "count" \notin hit'[p].todo =>
           /\ Counting(p) /\ "count" \notin hit[p].todo
           /\ hit'[p].now = hit[p].now /\ hit'[p].cost = hit[p].cost
    BY <2>1, <2>2
  <2> QED
    BY <1>1, <2>4, <2>5, ToldOther
<1>7. CASE ReadPrevious(q)
  <2>1. Counting(q) /\ hit[q].pc = "counting"
    BY <1>7 DEF ReadPrevious, Counting
  <2>2. hit[q] \in [pc : {"counting"}, now : Nat, cost : Costs, count : Int, previous : Int,
                    todo : SUBSET {"count", "read", "refresh"}]
    BY <2>1, CountingFacts
  <2>3. PICK next \in SUBSET {"refresh"} :
          hit' = [hit EXCEPT ![q].todo = (@ \ {"read"}) \cup next,
                             ![q].previous = Stored(cell, <<"count", Mine(q) - 1>>, clock)]
    BY <1>7 DEF ReadPrevious
  <2>4. /\ hit'[q].pc = "counting" /\ hit'[q].now = hit[q].now /\ hit'[q].cost = hit[q].cost
        /\ hit'[q].todo = (hit[q].todo \ {"read"}) \cup next
    BY <1>1, <2>1, <2>2, <2>3
  <2>5. \A p \in Requests : Counting(p)' => Counting(p) /\ hit'[p].now = hit[p].now /\ hit'[p].cost = hit[p].cost
                              /\ ("count" \notin hit'[p].todo => "count" \notin hit[p].todo)
    BY <1>4, <2>1, <2>4 DEF Counting
  <2>6. OnePerWindow'
    BY <1>1, <1>3, <2>1, <2>5, ApartKept
  <2> QED
    BY <1>1, <2>5, <2>6, ToldOther
<1> QED
  BY <1>5, <1>6, <1>7

\* A decision under the lock: its time is not ahead of the clock.
LEMMA ToldDecide ==
  ASSUME Inductive, Told, NEW q \in Requests, Decide(q)
  PROVE  Told'
<1> DEFINE outcome == HitOf(rate, cell, hit[q].now, hit[q].cost, clock)
<1>1. /\ Pending(q) /\ ~ Stepwise /\ cell' = outcome.cell
      /\ scenario' = scenario /\ clock' = clock /\ rate' = rate
  BY DEF Decide, rate
<1>2. /\ hit[q].now \in Nat /\ hit[q].cost \in Costs /\ clock \in Nat /\ RateOK(rate) /\ CellOK(rate, cell)
      /\ hit[q].cost \in Nat \ {0}
  BY <1>1, HitKinds, RateIsOK, ScenariosAssumption DEF Inductive, Shapes, Pending
<1>3. hit[q].now <= clock
  BY <1>1 DEF Inductive, Times
<1>4. rate.strategy \in Windowed => NoneLater(rate, cell', clock)
  BY <1>1, <1>2, <1>3, HitNoneLater DEF Told, Stepwise
<1>5. ASSUME rate.strategy = "leaky_bucket_queue" PROVE cell' = Absent \/ cell'.last <= clock
  <2>1. LevelCell(rate, cell) /\ outcome = LeakyBucketQueue(rate, cell, hit[q].now, hit[q].cost, clock)
    BY <1>2, <1>5, HitOfIs DEF CellOK
  <2>2. Leaked(rate, cell, hit[q].now, clock, hit[q].cost, outcome)
    BY <1>2, <2>1, LeakyBucketQueueStep
  <2> HIDE DEF outcome
  <2>3. cell'.last = hit[q].now \/ (Live(cell, clock) /\ cell'.last = cell.last)
    BY <1>1, <2>2 DEF Leaked
  <2>4. Live(cell, clock) => cell.last <= clock
    BY <1>2, <1>5, AbsentIsDead DEF Told
  <2> QED
    BY <1>3, <2>3, <2>4
<1>6. ~ Stepwise'
  BY <1>1 DEF Stepwise
<1> QED
  BY <1>1, <1>4, <1>5, <1>6 DEF Told

\* Counting: to the current window's count it adds, to an earlier one's it is nothing.
LEMMA ToldCount ==
  ASSUME Inductive, Told, NEW q \in Requests, Count(q)
  PROVE  Told'
<1> DEFINE w    == Window(rate, clock)
           key  == <<"count", w>>
           cost == hit[q].cost
           mine == <<"count", Mine(q)>>
<1>1. /\ Counting(q) /\ scenario' = scenario /\ clock' = clock /\ rate' = rate
      /\ cell' = Added(rate, cell, mine, cost, clock)
      /\ hit' = [hit EXCEPT ![q].todo = @ \ {"count"}, ![q].count = CountIn(cell', Mine(q), clock)]
  BY DEF Count, rate
<1>2. /\ CountSound(rate, cell, clock) /\ CountsHeld /\ OnePerWindow /\ NoneLater(rate, cell, clock)
      /\ Mine(q) \in Int /\ Mine(q) <= w /\ w \in Nat
      /\ RateOK(rate) /\ rate.strategy = "sliding_window_counter" /\ WindowCell(rate, cell) /\ clock \in Nat
  BY <1>1, CountingTold
<1>3. /\ hit[q] \in [pc : {"counting"}, now : Nat, cost : Costs, count : Int, previous : Int,
                     todo : SUBSET {"count", "read", "refresh"}]
      /\ cost \in Nat \ {0} /\ hit \in [Requests -> Hits]
  BY <1>1, CountingFacts DEF Inductive, Shapes
<1>4. /\ hit'[q].pc = "counting" /\ hit'[q].now = hit[q].now /\ hit'[q].cost = cost
      /\ \A p \in Requests : p # q => hit'[p] = hit[p]
  BY <1>1, <1>3
<1>5. NoneLater(rate, cell', clock)
  BY <1>1, <1>2, AddedNoneLater
<1>6. \A p \in Requests : Counting(p)' => Counting(p) /\ hit'[p].now = hit[p].now
  BY <1>1, <1>4 DEF Counting
<1>7. OnePerWindow'
  BY <1>1, <1>2, <1>6, ApartKept
<1>8. \A p \in Requests : Mine(p) = Window(rate, hit[p].now) /\ Mine(p)' = Window(rate, hit'[p].now)
  BY <1>1 DEF Mine
<1>9. CASE Mine(q) = w
  <2>1. IF key \in DOMAIN cell THEN cell[key].value + cost \in Nat ELSE cost \in Nat
    BY <1>2, <1>3 DEF CountSound
  <2>2. cost \in Int /\ cell' = Added(rate, cell, key, cost, clock)
    BY <1>1, <1>3, <1>9
  <2>3. key \in DOMAIN cell => cell[key].value \in Nat
    BY <1>2 DEF CountSound
  <2> HIDE DEF cost
  <2>4. /\ key \in DOMAIN cell' /\ CountSound(rate, cell', clock)
        /\ cell'[key].value = IF key \in DOMAIN cell THEN cell[key].value + cost ELSE cost
    BY <1>2, <2>1, <2>2, CountAdded
  <2>5. cost <= cell'[key].value
    BY <1>3, <2>3, <2>4 DEF cost
  <2>6. \A p \in Requests : Counting(p)' /\ Mine(p)' = w => p = q
    BY <1>2, <1>6, <1>8, <1>9, <1>1 DEF OnePerWindow
  <2>7. CountsHeld'
    BY <1>1, <1>4, <2>4, <2>5, <2>6 DEF CountsHeld
  <2> QED
    BY <1>1, <1>2, <1>5, <1>7, <2>4, <2>7 DEF Told, Stepwise
<1>10. CASE Mine(q) # w
  <2>1. mine # key
    BY <1>10
  <2>2. \E v, exp : cell' = Put(cell, mine, v, exp, clock)
    BY <1>1 DEF Added
  <2>3. PICK v, exp : cell' = Put(cell, mine, v, exp, clock)
    BY <2>2
  <2> HIDE DEF mine
  <2>4. /\ key \in DOMAIN cell => key \in DOMAIN cell' /\ cell'[key] = cell[key]
        /\ CountSound(rate, cell', clock)
    BY <1>2, <2>1, <2>3, CountLeftAlone
  <2>5. \A p \in Requests : Mine(p)' = w => p # q
    BY <1>4, <1>8, <1>10
  <2>6. CountsHeld'
    <3> SUFFICES ASSUME NEW p \in Requests, Counting(p)', Mine(p)' = w, "count" \notin hit'[p].todo
                 PROVE  key \in DOMAIN cell' /\ hit'[p].cost <= cell'[key].value
      BY <1>1 DEF CountsHeld
    <3>1. p # q /\ hit'[p] = hit[p]
      BY <1>4, <2>5
    <3>2. Counting(p) /\ Mine(p) = w /\ "count" \notin hit[p].todo
      BY <1>6, <1>8, <3>1
    <3>3. key \in DOMAIN cell /\ hit[p].cost <= cell[key].value
      BY <1>2, <3>2 DEF CountsHeld
    <3> QED
      BY <2>4, <3>1, <3>3
  <2> QED
    BY <1>1, <1>2, <1>5, <1>7, <2>4, <2>6 DEF Told, Stepwise
<1> QED
  BY <1>9, <1>10

\* To store the last window's count again is to leave the current one's alone.
LEMMA ToldRefresh ==
  ASSUME Inductive, Told, NEW q \in Requests, Refresh(q)
  PROVE  Told'
<1> DEFINE w   == Window(rate, clock)
           key == <<"count", w>>
           u   == Mine(q) - 1
           old == <<"count", u>>
<1>1. /\ Counting(q) /\ scenario' = scenario /\ clock' = clock /\ rate' = rate
      /\ cell' = Put(cell, old, hit[q].previous, TwiceTTL(rate, clock), clock)
      /\ hit' = [hit EXCEPT ![q].todo = {}] /\ hit[q].todo = {"refresh"}
  BY DEF Refresh, Refreshed, rate
<1>2. /\ CountSound(rate, cell, clock) /\ CountsHeld /\ OnePerWindow /\ NoneLater(rate, cell, clock)
      /\ Mine(q) \in Int /\ Mine(q) <= w /\ w \in Nat
      /\ RateOK(rate) /\ rate.strategy = "sliding_window_counter" /\ WindowCell(rate, cell) /\ clock \in Nat
  BY <1>1, CountingTold
<1>3. /\ hit[q] \in [pc : {"counting"}, now : Nat, cost : Costs, count : Int, previous : Int,
                     todo : SUBSET {"count", "read", "refresh"}]
      /\ hit \in [Requests -> Hits]
  BY <1>1, CountingFacts DEF Inductive, Shapes
<1>4. \A p \in Requests : Counting(p)' => Counting(p) /\ hit'[p].now = hit[p].now /\ hit'[p].cost = hit[p].cost
                            /\ ("count" \notin hit'[p].todo => "count" \notin hit[p].todo)
  BY <1>1, <1>3 DEF Counting
<1>5. u \in Int /\ u <= w /\ u # w
  BY <1>2
<1>6. OnePerWindow'
  BY <1>1, <1>2, <1>4, ApartKept
<1> HIDE DEF u
<1>7. NoneLater(rate, cell', clock)
  BY <1>1, <1>2, <1>5, PutNoneLater
<1>8. old # key
  BY <1>5
<1> HIDE DEF old
<1>9. /\ key \in DOMAIN cell => key \in DOMAIN cell' /\ cell'[key] = cell[key]
      /\ CountSound(rate, cell', clock)
  BY <1>1, <1>2, <1>8, CountLeftAlone
<1>10. \A p \in Requests : Mine(p) = Window(rate, hit[p].now) /\ Mine(p)' = Window(rate, hit'[p].now)
  BY <1>1 DEF Mine
<1>11. CountsHeld'
  <2> SUFFICES ASSUME NEW p \in Requests, Counting(p)', Mine(p)' = w, "count" \notin hit'[p].todo
               PROVE  key \in DOMAIN cell' /\ hit'[p].cost <= cell'[key].value
    BY <1>1 DEF CountsHeld
  <2>1. Counting(p) /\ Mine(p) = w /\ "count" \notin hit[p].todo /\ hit'[p].cost = hit[p].cost
    BY <1>4, <1>10
  <2>2. key \in DOMAIN cell /\ hit[p].cost <= cell[key].value
    BY <1>2, <2>1 DEF CountsHeld
  <2> QED
    BY <1>9, <2>1, <2>2
<1> QED
  BY <1>1, <1>2, <1>6, <1>7, <1>9, <1>11 DEF Told, Stepwise

\* A request that is refused takes back what it had counted.
LEMMA ToldWeigh ==
  ASSUME Inductive, Told, NEW q \in Requests, Weigh(q)
  PROVE  Told'
<1> DEFINE w    == Window(rate, clock)
           key  == <<"count", w>>
           mine == <<"count", Mine(q)>>
           back == -hit[q].cost
<1>1. /\ Counting(q) /\ scenario' = scenario /\ clock' = clock /\ rate' = rate /\ hit[q].todo = {}
      /\ cell' = cell \/ cell' = Added(rate, cell, mine, back, clock)
      /\ \E wait : Decided(q, wait)
  BY DEF Weigh, Uncounted, rate
<1>2. /\ CountSound(rate, cell, clock) /\ CountsHeld /\ OnePerWindow /\ NoneLater(rate, cell, clock)
      /\ Mine(q) \in Int /\ Mine(q) <= w /\ w \in Nat
      /\ RateOK(rate) /\ rate.strategy = "sliding_window_counter" /\ WindowCell(rate, cell) /\ clock \in Nat
  BY <1>1, CountingTold
<1>3. hit[q].cost \in Nat \ {0} /\ back \in Int
  BY <1>1, CountingFacts
<1>4. hit'[q].pc \in {"admitted", "refused"} /\ \A p \in Requests : p # q => hit'[p] = hit[p]
  <2>1. PICK wait : Decided(q, wait)
    BY <1>1
  <2>2. /\ \A p \in Requests : p # q => hit'[p] = hit[p]
        /\ wait = 0 => hit'[q] = [pc |-> "admitted", cost |-> hit[q].cost, at |-> clock]
        /\ wait # 0 => hit'[q] = [pc |-> "refused"]
    BY <1>1, <2>1, DecidedHit
  <2> QED
    BY <2>2
<1>5. \A p \in Requests : Counting(p)' => Counting(p) /\ p # q /\ hit'[p] = hit[p]
  BY <1>4 DEF Counting
<1>6. OnePerWindow'
  BY <1>1, <1>2, <1>5, ApartKept
<1>7. CASE cell' = cell
  BY <1>1, <1>5, <1>6, <1>7, ToldOther
<1>8. CASE cell' = Added(rate, cell, mine, back, clock)
  <2>1. NoneLater(rate, cell', clock)
    BY <1>2, <1>8, AddedNoneLater
  <2>2. \A p \in Requests : Counting(p)' => Mine(p)' = Mine(p)
    BY <1>1, <1>5 DEF Mine
  <2>3. CASE Mine(q) = w
    <3>1. key \in DOMAIN cell /\ hit[q].cost <= cell[key].value /\ cell[key].value \in Nat
      BY <1>1, <1>2, <2>3 DEF CountsHeld, CountSound
    <3>2. cell[key].value + back \in Nat
      BY <1>3, <3>1
    <3>3. cell' = Added(rate, cell, key, back, clock)
      BY <1>8, <2>3
    <3> HIDE DEF back
    <3>4. CountSound(rate, cell', clock)
      BY <1>2, <1>3, <3>1, <3>2, <3>3, CountAdded
    <3>5. CountsHeld'
      BY <1>1, <1>2, <1>5, <2>2, <2>3 DEF CountsHeld, OnePerWindow
    <3> QED
      BY <1>1, <1>2, <1>6, <2>1, <3>4, <3>5 DEF Told, Stepwise
  <2>4. CASE Mine(q) # w
    <3>1. mine # key
      BY <2>4
    <3>2. PICK v, exp : cell' = Put(cell, mine, v, exp, clock)
      BY <1>8 DEF Added
    <3> HIDE DEF mine
    <3>3. /\ key \in DOMAIN cell => key \in DOMAIN cell' /\ cell'[key] = cell[key]
          /\ CountSound(rate, cell', clock)
      BY <1>2, <3>1, <3>2, CountLeftAlone
    <3>4. CountsHeld'
      <4> SUFFICES ASSUME NEW p \in Requests, Counting(p)', Mine(p)' = w, "count" \notin hit'[p].todo
                   PROVE  key \in DOMAIN cell' /\ hit'[p].cost <= cell'[key].value
        BY <1>1 DEF CountsHeld
      <4>1. Counting(p) /\ Mine(p) = w /\ "count" \notin hit[p].todo /\ hit'[p].cost = hit[p].cost
        BY <1>5, <2>2
      <4>2. key \in DOMAIN cell /\ hit[p].cost <= cell[key].value
        BY <1>2, <4>1 DEF CountsHeld
      <4> QED
        BY <3>3, <4>1, <4>2
    <3> QED
      BY <1>1, <1>2, <1>6, <2>1, <3>3, <3>4 DEF Told, Stepwise
  <2> QED
    BY <2>3, <2>4
<1> QED
  BY <1>1, <1>7, <1>8

\* The clock: a window that begins has nothing, and nobody counts in it.
LEMMA ToldTick ==
  ASSUME Inductive, Told, Tick
  PROVE  Told'
<1>1. /\ scenario' = scenario /\ cell' = cell /\ hit' = hit /\ rate' = rate /\ clock' = clock + 1
      /\ clock \in Nat /\ clock + 1 \in Nat /\ RateOK(rate) /\ CellOK(rate, cell)
  BY RateIsOK DEF Inductive, Shapes, Tick, rate
<1>2. ASSUME rate.strategy = "leaky_bucket_queue" PROVE cell' = Absent \/ cell'.last <= clock'
  <2>1. cell = Absent \/ cell.last \in Nat
    BY <1>1, <1>2 DEF CellOK, LevelCell
  <2>2. cell = Absent \/ cell.last <= clock
    BY <1>2 DEF Told
  <2> QED
    BY <1>1, <2>1, <2>2
<1> DEFINE w == Window(rate, clock)
           v == Window(rate, clock + 1)
<1>3. w \in Nat /\ v \in Nat /\ w <= v
  BY <1>1, WindowEnds, WindowsApart
<1>4. rate.strategy \in Windowed => NoneLater(rate, cell', clock')
  BY <1>1, <1>3 DEF Told, NoneLater
<1>5. ASSUME Stepwise PROVE CountSound(rate, cell, clock + 1) /\ CountsHeld' /\ OnePerWindow'
  <2>1. CountSound(rate, cell, clock) /\ CountsHeld /\ OnePerWindow /\ NoneLater(rate, cell, clock)
    BY <1>5 DEF Told, Stepwise, Windowed
  <2>2. \A p \in Requests : (Counting(p)' <=> Counting(p)) /\ Mine(p)' = Mine(p)
    BY <1>1 DEF Counting, Mine
  <2>3. OnePerWindow'
    BY <2>1, <2>2 DEF OnePerWindow
  <2>4. CASE v = w
    <3>1. CountSound(rate, cell, clock + 1)
      BY <2>1, <2>4 DEF CountSound
    <3>2. CountsHeld'
      BY <1>1, <2>1, <2>2, <2>4 DEF CountsHeld
    <3> QED
      BY <2>3, <3>1, <3>2
  <2>5. CASE v # w
    <3> DEFINE key == <<"count", v>>
    <3>1. key \notin DOMAIN cell
      <4>1. key[2] = v
        OBVIOUS
      <4> HIDE DEF key
      <4> QED
        BY <1>3, <2>1, <2>5, <4>1 DEF NoneLater
    <3>2. CountSound(rate, cell, clock + 1)
      BY <3>1 DEF CountSound
    <3>3. \A p \in Requests : Counting(p) => Mine(p) # v
      <4> SUFFICES ASSUME NEW p \in Requests, Counting(p) PROVE Mine(p) # v
        OBVIOUS
      <4>1. Mine(p) \in Int /\ Mine(p) <= w
        BY CountingTold
      <4> QED
        BY <1>3, <2>5, <4>1
    <3>4. CountsHeld'
      BY <1>1, <2>2, <3>3 DEF CountsHeld
    <3> QED
      BY <2>3, <3>2, <3>4
  <2> QED
    BY <2>4, <2>5
<1> QED
  BY <1>1, <1>2, <1>4, <1>5 DEF Told, Stepwise

\* Every step keeps it.
LEMMA ToldNext == Inductive /\ Told /\ [Next]_vars => Told'
<1> SUFFICES ASSUME Inductive, Told, [Next]_vars PROVE Told'
  OBVIOUS
<1>1. ASSUME NEW q \in Requests, Begin(q) \/ Lock(q) \/ ReadPrevious(q) PROVE Told'
  BY <1>1, ToldQuiet
<1>2. ASSUME NEW q \in Requests, Decide(q) PROVE Told'
  BY <1>2, ToldDecide
<1>3. ASSUME NEW q \in Requests, Count(q) PROVE Told'
  BY <1>3, ToldCount
<1>4. ASSUME NEW q \in Requests, Refresh(q) PROVE Told'
  BY <1>4, ToldRefresh
<1>5. ASSUME NEW q \in Requests, Weigh(q) PROVE Told'
  BY <1>5, ToldWeigh
<1>6. ASSUME Tick PROVE Told'
  BY <1>6, ToldTick
<1>7. ASSUME UNCHANGED vars PROVE Told'
  <2>1. /\ rate' = rate /\ scenario' = scenario /\ clock' = clock /\ cell' = cell /\ hit' = hit
    BY <1>7 DEF vars, rate
  <2> QED
    BY <2>1 DEF Told, Stepwise, CountsHeld, OnePerWindow, Counting, Mine
<1> QED
  BY <1>1, <1>2, <1>3, <1>4, <1>5, <1>6, <1>7 DEF Next

\* What an hour can admit is within every hour's limit.
LEMMA AffordableAlways ==
  ASSUME RateOK(rate), rate.strategy \in {"tiered_rate", "time_of_day"}, NEW cost \in Nat, Affordable(cost), NEW t \in Nat
  PROVE  cost <= EffectiveLimit(rate, t)
<1>1. CASE rate.strategy = "tiered_rate"
  BY <1>1 DEF Affordable, EffectiveLimit
<1>2. CASE rate.strategy = "time_of_day"
  <2> DEFINE n   == Len(rate.hours)
             h   == t \div rate.hour
             day == HourOfDay(rate, t)
             top == rate.limit * rate.hours[day]
  <2>1. rate.hours \in Seq(Int) /\ rate.hours # <<>> /\ rate.limit \in Nat /\ rate.hour \in Nat \ {0}
    BY <1>2 DEF RateOK, StrategyFields
  <2>2. n \in Nat \ {0} /\ DOMAIN rate.hours = 1 .. n /\ \A i \in 1 .. n : rate.hours[i] \in Int
    BY <2>1
  <2>3. h \in Int
    BY <2>1, DivBounds
  <2>4. day = (h % n) + 1
    BY DEF HourOfDay
  <2> HIDE DEF n, h
  <2>5. h % n \in 0 .. n - 1
    BY <2>2, <2>3, ModBounds
  <2> HIDE DEF day
  <2>6. day \in 1 .. n
    BY <2>2, <2>4, <2>5
  <2>7. rate.hours[day] \in Int /\ top \in Int
    BY <2>1, <2>2, <2>6
  <2>8. 100 * cost <= top
    BY <1>2, <2>2, <2>6 DEF Affordable
  <2>9. EffectiveLimit(rate, t) = top \div 100
    BY <1>2 DEF EffectiveLimit, TimeOfDayLimit, day
  <2> HIDE DEF top
  <2>10. cost <= top \div 100
    BY <2>7, <2>8
  <2> QED
    BY <2>9, <2>10
<1> QED
  BY <1>1, <1>2

\* What the invariants say of the rate and the cell.
LEMMA ToldFacts ==
  ASSUME Inductive
  PROVE  /\ RateOK(rate) /\ CellOK(rate, cell) /\ clock \in Nat /\ rate.strategy \in Strategy
         /\ Costs \subseteq Nat \ {0} /\ rate.limit \in Nat \ {0} /\ scenario.delay \in Nat
BY RateIsOK, ScenariosAssumption DEF Inductive, Shapes, RateOK, StrategyFields

\* The wait that a request is told is enough, strategy by strategy.
LEMMA ToldEnough ==
  ASSUME Inductive, Told, NEW cost \in Costs, NEW now \in Nat, now <= clock, Affordable(cost), ~ Stepwise,
         rate.strategy = "fixed_window" => rate.period < Second,
         rate.strategy = "cost_based_token_bucket" => rate.minRefill <= 100,
         rate.strategy \in Windowed => now = clock
  PROVE  Enough(rate, cell, now, cost, clock)
<1>1. /\ RateOK(rate) /\ CellOK(rate, cell) /\ clock \in Nat /\ rate.strategy \in Strategy
      /\ cost \in Nat \ {0}
  BY ToldFacts
<1>2. CASE rate.strategy = "fixed_window"
  <2>1. CounterCell(cell) /\ cost <= rate.limit
    BY <1>1, <1>2 DEF CellOK, Affordable
  <2> QED
    BY <1>1, <1>2, <2>1, FixedWindowEnough
<1>3. CASE rate.strategy \in {"sliding_window_log", "priority_queue"}
  <2>1. LogCell(rate, cell) /\ cost = 1
    BY <1>1, <1>3 DEF CellOK, Affordable
  <2> QED
    BY <1>1, <1>3, <2>1, LogEnough
<1>4. CASE rate.strategy = "token_bucket"
  <2>1. TokenCell(rate, cell) /\ cost <= rate.capacity + rate.debt
    BY <1>1, <1>4 DEF CellOK, Affordable
  <2> QED
    BY <1>1, <1>4, <2>1, TokenBucketEnough
<1>5. CASE Leaky(rate.strategy)
  <2>1. LevelCell(rate, cell) /\ cost <= rate.limit
    BY <1>1, <1>5 DEF CellOK, Affordable, Leaky
  <2>2. rate.strategy = "leaky_bucket_queue" => cell = Absent \/ cell.last <= clock
    BY DEF Told
  <2> QED
    BY <1>1, <1>5, <2>1, <2>2, LeakyEnough
<1>6. CASE rate.strategy = "gcra"
  <2>1. TATCell(cell)
    BY <1>1, <1>6 DEF CellOK
  <2> QED
    BY <1>1, <1>6, <2>1, GCRAEnough
<1>7. CASE rate.strategy = "cost_based_token_bucket"
  <2>1. CostCell(rate, cell) /\ cost <= rate.capacity
    BY <1>1, <1>7 DEF CellOK, Affordable
  <2> QED
    BY <1>1, <1>7, <2>1, CostBasedEnough
<1>8. CASE rate.strategy \in Windowed
  <2>1. WindowCell(rate, cell) /\ NoneLater(rate, cell, clock) /\ now = clock
    BY <1>1, <1>8 DEF CellOK, Told
  <2>2. CASE rate.strategy \in {"tiered_rate", "time_of_day"}
    <3>1. clock + UntilWindowEnds(rate, clock) \in Nat
      BY <1>1, WindowNotOver
    <3>2. cost <= EffectiveLimit(rate, clock + UntilWindowEnds(rate, clock))
      BY <1>1, <2>2, <3>1, AffordableAlways
    <3> QED
      BY <1>1, <2>1, <2>2, <3>2, TieredRateEnough
  <2>3. CASE rate.strategy = "adaptive_throttle"
    <3>1. 100 * cost <= rate.limit * rate.floor
      BY <2>3 DEF Affordable
    <3> QED
      BY <1>1, <2>1, <2>3, <3>1, AdaptiveEnough
  <2>4. CASE rate.strategy = "quota_with_rollover"
    <3>1. cost <= rate.limit
      BY <2>4 DEF Affordable
    <3> QED
      BY <1>1, <2>1, <2>4, <3>1, QuotaEnough
  <2> QED
    BY <1>8, <2>2, <2>3, <2>4 DEF Windowed, Stepwise
<1> QED
  BY <1>1, <1>2, <1>3, <1>4, <1>5, <1>6, <1>7, <1>8 DEF Strategy, Leaky

\* What get_stat says of a request of any cost, strategy by strategy.
LEMMA ToldStat ==
  ASSUME Inductive, Told, NEW cost \in Nat \ {0}, Affordable(cost),
         rate.strategy # "adaptive_throttle", ~ FreeInstant(clock),
         rate.strategy = "quota_with_rollover" =>
           Stored(cell, <<"rollover", Window(rate, clock)>>, clock) # None
  PROVE  /\ rate.strategy # "gcra" => Foretold(rate, cell, clock, cost)
         /\ WaitForetold(rate, cell, clock)
<1>1. RateOK(rate) /\ CellOK(rate, cell) /\ clock \in Nat /\ rate.strategy \in Strategy /\ rate.limit \in Nat \ {0}
  BY ToldFacts
<1>2. CASE rate.strategy = "fixed_window"
  <2>1. CounterCell(cell)
    BY <1>1, <1>2 DEF CellOK
  <2> QED
    BY <1>1, <1>2, <2>1, FixedWindowForetold
<1>3. CASE rate.strategy \in {"sliding_window_log", "priority_queue"}
  <2>1. LogCell(rate, cell)
    BY <1>1, <1>3 DEF CellOK
  <2> QED
    BY <1>1, <1>3, <2>1, LogForetold
<1>4. CASE rate.strategy = "token_bucket"
  <2>1. TokenCell(rate, cell)
    BY <1>1, <1>4 DEF CellOK
  <2> QED
    BY <1>1, <1>4, <2>1, TokenBucketForetold
<1>5. CASE Leaky(rate.strategy)
  <2>1. LevelCell(rate, cell) /\ cost <= rate.limit
    BY <1>1, <1>5 DEF CellOK, Affordable, Leaky
  <2> QED
    BY <1>1, <1>5, <2>1, LeakyForetold
<1>6. CASE rate.strategy = "gcra"
  <2>1. TATCell(cell)
    BY <1>1, <1>6 DEF CellOK
  <2> QED
    BY <1>1, <1>6, <2>1, GCRAForetold
<1>7. CASE rate.strategy = "cost_based_token_bucket"
  <2>1. CostCell(rate, cell)
    BY <1>1, <1>7 DEF CellOK
  <2> QED
    BY <1>1, <1>7, <2>1, CostBasedForetold
<1>8. CASE rate.strategy \in Windowed
  <2>1. WindowCell(rate, cell)
    BY <1>1, <1>8 DEF CellOK
  <2>2. CASE rate.strategy \in {"tiered_rate", "time_of_day"}
    BY <1>1, <2>1, <2>2, TieredRateForetold
  <2>3. CASE rate.strategy = "quota_with_rollover"
    BY <1>1, <2>1, <2>3, QuotaForetold
  <2>4. CASE rate.strategy = "sliding_window_counter"
    <3>1. Stepwise /\ TimeInWindow(rate, clock) # 0
      BY <2>4 DEF Stepwise, FreeInstant
    <3>2. CountSound(rate, cell, clock)
      BY <3>1 DEF Told
    <3> DEFINE old == Stored(cell, <<"count", Window(rate, clock)>>, clock)
    <3>3. old = None \/ old \in Nat
      BY <1>1, <2>1, <3>2, CountFound
    <3> QED
      BY <1>1, <2>1, <2>4, <3>1, <3>3, CounterForetold
  <2> QED
    BY <1>8, <2>2, <2>3, <2>4 DEF Windowed
<1> QED
  BY <1>1, <1>2, <1>3, <1>4, <1>5, <1>6, <1>7, <1>8 DEF Strategy, Leaky

\* The two invariants imply the honest wait.
LEMMA WaitsAreHonest == Inductive /\ Told => WaitHonest
<1> SUFFICES ASSUME Inductive, Told, ~ Stepwise,
                    rate.strategy = "fixed_window" => rate.period < Second,
                    rate.strategy = "cost_based_token_bucket" => rate.minRefill <= 100,
                    NEW cost \in Costs, NEW age \in 0 .. scenario.delay, age <= clock,
                    rate.strategy \in Windowed => age = 0, Affordable(cost)
             PROVE  LET first == HitOf(rate, cell, clock - age, cost, clock)
                        back  == clock + first.wait
                    IN  first.wait > 0 => HitOf(rate, first.cell, back, cost, back).wait = 0
  BY DEF WaitHonest
<1>1. clock \in Nat /\ scenario.delay \in Nat
  BY ToldFacts
<1>2. clock - age \in Nat /\ clock - age <= clock /\ (rate.strategy \in Windowed => clock - age = clock)
  BY <1>1
<1> QED
  BY <1>2, ToldEnough DEF Enough

\* They imply that get_stat foretells the hit.
LEMMA StatsAreForetold == Inductive /\ Told => StatPredictsHit
<1> SUFFICES ASSUME Inductive, Told, rate.strategy # "adaptive_throttle", ~ FreeInstant(clock),
                    rate.strategy = "quota_with_rollover" =>
                      Stored(cell, <<"rollover", Window(rate, clock)>>, clock) # None
             PROVE  /\ rate.strategy # "gcra" =>
                         \A cost \in Costs : Affordable(cost) => Foretold(rate, cell, clock, cost)
                    /\ Affordable(1) => WaitForetold(rate, cell, clock)
  BY DEF StatPredictsHit, Foretold, WaitForetold
<1>1. Costs \subseteq Nat \ {0} /\ 1 \in Nat \ {0}
  BY ToldFacts
<1> QED
  BY <1>1, ToldStat

\* Nobody is told a wait that is too short: a request that comes back after it, alone,
\* is admitted.
THEOREM HonestWaits == Spec => []WaitHonest
<1>1. Init => Inductive /\ Told
  BY InductiveInit, ToldInit
<1>2. Inductive /\ Told /\ [Next]_vars => (Inductive /\ Told)'
  BY InductiveNext, ToldNext
<1>3. Inductive /\ Told => WaitHonest
  BY WaitsAreHonest
<1> QED
  BY <1>1, <1>2, <1>3, PTL DEF Spec

\* What get_stat reports is what a hit at that instant finds.
THEOREM StatsForetell == Spec => []StatPredictsHit
<1>1. Init => Inductive /\ Told
  BY InductiveInit, ToldInit
<1>2. Inductive /\ Told /\ [Next]_vars => (Inductive /\ Told)'
  BY InductiveNext, ToldNext
<1>3. Inductive /\ Told => StatPredictsHit
  BY StatsAreForetold
<1> QED
  BY <1>1, <1>2, <1>3, PTL DEF Spec

=============================================================================
