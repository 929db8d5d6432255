----------------------------- MODULE Strategies -----------------------------
(***************************************************************************)
(* The rate limiting strategies of traffik/strategies whose backend accesses *)
(* for one key are serialised, by an atomic increment or by one lock: fixed *)
(* window, sliding window log, token bucket (with debt), leaky bucket (with *)
(* queue).  Each is a function from what the backend stores under the key,  *)
(* the time the request read before it waited for the lock, its cost and    *)
(* the time it holds the lock to the wait it reports and what it stores.    *)
(*                                                                         *)
(* A wait of 0 is how a strategy says "allowed".  Times are ticks; amounts  *)
(* that the code keeps as floats are counted in 1/period, so that a bucket  *)
(* that gains limit/period per millisecond gains limit per tick.  What the  *)
(* encoders write the decoders read back, so the branches for unreadable    *)
(* state are not taken.                                                     *)
(***************************************************************************)
EXTENDS Integers, Sequences, FiniteSets, FiniteSetsExt, Functions

CONSTANTS Second,   \* ticks in a second, the unit of a backend's TTLs
          Forever   \* stands for float("inf") milliseconds

ASSUME SecondAssumption == Second \in Nat \ {0} /\ Forever \in Nat \ {0}

Absent == [exp |-> 0]

AtLeast(n, low) == IF n < low THEN low ELSE n

AtMost(n, high) == IF n > high THEN high ELSE n

\* The least number of whole ticks that covers n / d, for n > 0.
CeilDiv(n, d) == (n + d - 1) \div d

\* A value whose TTL has run out is not there (get, increment_with_ttl).
Live(cell, at) == at < cell.exp

Seconds(ticks) == ticks \div Second

Outcome(wait, cell) == [wait |-> wait, cell |-> cell]

\* The sum of a function's values.
Total(f) == FoldFunction(+, 0, f)

----------------------------------------------------------------------------
(* Fixed window: a counter, and below a second also the start of its window. *)

WindowStart(r, now) == (now \div r.period) * r.period

FixedWindowTTL(r) == AtLeast(Seconds(r.period), 2) * Second

\* increment_with_ttl: the TTL is set when the counter is created and then kept.
Counted(r, cell, now, cost, at) ==
  IF Live(cell, at)
  THEN [cell EXCEPT !.count = @ + cost]
  ELSE [start |-> WindowStart(r, now), count |-> cost, exp |-> at + FixedWindowTTL(r)]

InWindowUnaligned(r, cell, now, at) ==
  Live(cell, at) /\ (r.period < Second => cell.start = now)

InWindow(r, cell, now, at) ==
  Live(cell, at) /\ (r.period < Second => cell.start = WindowStart(r, now))

FixedWindow(r, cell, now, cost, at) ==
  LET new == Counted(r, IF InWindow(r, cell, now, at) THEN cell ELSE Absent, now, cost, at)
  IN  Outcome(IF new.count > r.limit THEN r.period - (now - WindowStart(r, now)) ELSE 0, new)

FixedWindowStatLate(r, cell, now) ==
  LET count == IF InWindow(r, cell, now, now) THEN cell.count ELSE 0
  IN  [remaining |-> AtLeast(r.limit - count, 0) * r.period,
       wait |-> IF count > r.limit THEN r.period - (now - WindowStart(r, now)) ELSE 0]

FixedWindowStat(r, cell, now) ==
  LET count == IF InWindow(r, cell, now, now) THEN cell.count ELSE 0
  IN  [remaining |-> AtLeast(r.limit - count, 0) * r.period,
       wait |-> IF count >= r.limit THEN r.period - (now - WindowStart(r, now)) ELSE 0]

----------------------------------------------------------------------------
(* Sliding window log: the time and cost of every admitted request.  Entries of
   one time are told apart by a number, in the order in which they came. *)

LogTTL(r) == AtLeast(Seconds(r.period), 1) * Second

LogAt(cell, at) == IF Live(cell, at) THEN cell.log ELSE {}

LogCost(log) == Total([e \in log |-> e.cost])

Logged(log, now, cost) ==
  LET nth == Max({0} \cup {e.nth + 1 : e \in {d \in log : d.ts = now}})
  IN  log \cup {[ts |-> now, nth |-> nth, cost |-> cost]}

WithinKeepsBoundary(r, log, now) == {e \in log : e.ts > now - r.period + 1}

\* The entries younger than the period.
Within(r, log, now) == {e \in log : e.ts > now - r.period}

\* How long until the oldest of the entries leaves the window.
UntilOldestLeaves(r, log, now) ==
  IF log = {} THEN Forever ELSE Min({e.ts : e \in log}) + r.period - now

SlidingWindowLog(r, cell, now, cost, at) ==
  LET valid == Within(r, LogAt(cell, at), now)
      exp   == at + LogTTL(r)
  IN  IF LogCost(valid) + cost > r.limit
      THEN Outcome(UntilOldestLeaves(r, valid, now), [log |-> valid, exp |-> exp])
      ELSE Outcome(0, [log |-> Logged(valid, now, cost), exp |-> exp])

SlidingWindowLogStat(r, cell, now) ==
  LET valid == Within(r, LogAt(cell, now), now)
  IN  [remaining |-> AtLeast(r.limit - LogCost(valid), 0) * r.period,
       wait |-> IF LogCost(valid) >= r.limit /\ valid # {}
                THEN UntilOldestLeaves(r, valid, now) ELSE 0]

----------------------------------------------------------------------------
(* Token bucket; debt is 0 for the plain one.  r.capacity is burst_size, or
   the limit when there is none. *)

BucketTTL(r) == AtLeast(Seconds(2 * r.period), 1) * Second

TokensUncapped(r, cell, now, at) ==
  IF Live(cell, at) THEN cell.tokens + r.limit * (now - cell.last) ELSE r.capacity * r.period

\* The balance once the time since the last refill is credited.
Tokens(r, cell, now, at) ==
  IF Live(cell, at)
  THEN AtMost(cell.tokens + r.limit * (now - cell.last), r.capacity * r.period)
  ELSE r.capacity * r.period

TokenBucketCharged(r, cell, now, cost, at) ==
  LET tokens    == Tokens(r, cell, now, at)
      shortfall == (cost - r.debt) * r.period - tokens
      after     == [tokens |-> tokens - cost * r.period, last |-> now, exp |-> at + BucketTTL(r)]
  IN  Outcome(IF shortfall <= 0 THEN 0 ELSE CeilDiv(shortfall, r.limit), after)

TokenBucket(r, cell, now, cost, at) ==
  LET tokens    == Tokens(r, cell, now, at)
      shortfall == (cost - r.debt) * r.period - tokens
      Keep(t)   == [tokens |-> t, last |-> now, exp |-> at + BucketTTL(r)]
  IN  IF shortfall <= 0
      THEN Outcome(0, Keep(tokens - cost * r.period))
      ELSE Outcome(CeilDiv(shortfall, r.limit), Keep(tokens))

TokenBucketStat(r, cell, now) ==
  LET spendable == Tokens(r, cell, now, now) + r.debt * r.period
  IN  [remaining |-> AtLeast(spendable, 0),
       wait |-> IF spendable < r.period THEN CeilDiv(r.period - spendable, r.limit) ELSE 0]

----------------------------------------------------------------------------
(* Leaky bucket: the level, and when it was last drained.  A rejected request
   writes the old state back, only to renew its TTL. *)

LevelUndrained(r, cell, now) == cell.level

LevelUnfloored(r, cell, now) == cell.level - r.limit * (now - cell.last)

Level(r, cell, now) == AtLeast(cell.level - r.limit * (now - cell.last), 0)

Excess(r, level, cost) == level + cost * r.period - r.limit * r.period

FirstDrop(r, now, cost, at) ==
  Outcome(0, [level |-> cost * r.period, last |-> now, exp |-> at + BucketTTL(r)])

LeakyBucket(r, cell, now, cost, at) ==
  LET level == Level(r, cell, now)
      exp   == at + BucketTTL(r)
  IN  IF ~Live(cell, at)
      THEN FirstDrop(r, now, cost, at)
      ELSE IF Excess(r, level, cost) > 0
      THEN Outcome(CeilDiv(Excess(r, level, cost), r.limit), [cell EXCEPT !.exp = exp])
      ELSE Outcome(0, [level |-> level + cost * r.period, last |-> now, exp |-> exp])

LeakyBucketStat(r, cell, now) ==
  LET level == IF Live(cell, now) THEN Level(r, cell, now) ELSE 0
  IN  [remaining |-> AtLeast(r.limit * r.period - level, 0),
       wait |-> IF Excess(r, level, 1) > 0 THEN CeilDiv(Excess(r, level, 1), r.limit) ELSE 0]

(* With a queue the entries drain head first, the head partly: what matters of
   them is their sum.  The time of the last drain moves only if some cost left,
   so a request whose time is older than that finds the queue undrained. *)
Drained(r, cell, now) == AtMost(AtLeast(r.limit * (now - cell.last), 0), cell.level)

LeakyBucketQueue(r, cell, now, cost, at) ==
  LET level == cell.level - Drained(r, cell, now)
      exp   == at + BucketTTL(r)
  IN  IF ~Live(cell, at)
      THEN FirstDrop(r, now, cost, at)
      ELSE IF Excess(r, level, cost) > 0
      THEN Outcome(AtLeast(CeilDiv(Excess(r, level, cost), r.limit), 1), [cell EXCEPT !.exp = exp])
      ELSE Outcome(0, [level |-> level + cost * r.period,
                       last  |-> IF Drained(r, cell, now) > 0 THEN now ELSE cell.last,
                       exp   |-> exp])

LeakyBucketQueueStat(r, cell, now) ==
  LET level == IF Live(cell, now) THEN cell.level - Drained(r, cell, now) ELSE 0
  IN  [remaining |-> AtLeast(r.limit * r.period - level, 0),
       wait |-> IF Excess(r, level, 1) > 0 THEN CeilDiv(Excess(r, level, 1), r.limit) ELSE 0]

----------------------------------------------------------------------------
(* The strategy a rate is used with. *)

Hit(r, cell, now, cost, at) ==
  CASE r.strategy = "fixed_window"       -> FixedWindow(r, cell, now, cost, at)
    [] r.strategy = "sliding_window_log" -> SlidingWindowLog(r, cell, now, cost, at)
    [] r.strategy = "token_bucket"       -> TokenBucket(r, cell, now, cost, at)
    [] r.strategy = "leaky_bucket"       -> LeakyBucket(r, cell, now, cost, at)
    [] r.strategy = "leaky_bucket_queue" -> LeakyBucketQueue(r, cell, now, cost, at)

Stat(r, cell, now) ==
  CASE r.strategy = "fixed_window"       -> FixedWindowStat(r, cell, now)
    [] r.strategy = "sliding_window_log" -> SlidingWindowLogStat(r, cell, now)
    [] r.strategy = "token_bucket"       -> TokenBucketStat(r, cell, now)
    [] r.strategy = "leaky_bucket"       -> LeakyBucketStat(r, cell, now)
    [] r.strategy = "leaky_bucket_queue" -> LeakyBucketQueueStat(r, cell, now)
=============================================================================
