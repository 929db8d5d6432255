-------------------------- MODULE CustomStrategies --------------------------
(***************************************************************************)
(* The strategies of traffik/strategies/custom.py and the sliding window    *)
(* counter, in the terms of Strategies: what a hit that has the key's lock  *)
(* reports and stores.                                                      *)
(*                                                                         *)
(* Most of them keep values per window, under keys with the window's number: *)
(* cell is then a function from the keys <<what, window>> under which        *)
(* something is stored.  Percentages are whole numbers; a limit that adapts is kept in    *)
(* hundredths, a bucket that adapts in 1/(period * Grain).  The priority     *)
(* queue is stored under the request's whole key, which holds its priority:  *)
(* all entries of one queue have the same.                                   *)
(***************************************************************************)
EXTENDS Strategies, Sequences

\* The fineness of the cost based bucket: exact for averages of two costs up to 2.
Grain == 6

Window(r, now) == now \div r.period

TimeInWindow(r, now) == now % r.period

UntilWindowEnds(r, now) == r.period - TimeInWindow(r, now)

Windowed == {"sliding_window_counter", "tiered_rate", "time_of_day", "adaptive_throttle", "quota_with_rollover"}

\* Nothing is stored yet.
EmptyCell(r) == IF r.strategy \in Windowed THEN <<>> ELSE Absent

\* get: what is stored under a key, None without.
None == -1

Stored(cell, key, at) == IF key \in DOMAIN cell /\ Live(cell[key], at) THEN cell[key].value ELSE None

CountIn(cell, w, at) == AtLeast(Stored(cell, <<"count", w>>, at), 0)

\* set, and a cell without what has expired.
Put(cell, key, value, exp, at) ==
  [k \in {l \in DOMAIN cell : Live(cell[l], at)} \cup {key} |->
     IF k = key THEN [value |-> value, exp |-> exp] ELSE cell[k]]

\* Twice the period, in whole seconds, at least one.
TwiceTTL(r, at) == at + BucketTTL(r)

\* increment_with_ttl.
Added(r, cell, key, amount, at) ==
  LET old == Stored(cell, key, at)
  IN  IF old = None
      THEN Put(cell, key, amount, TwiceTTL(r, at), at)
      ELSE Put(cell, key, old + amount, cell[key].exp, at)

----------------------------------------------------------------------------
(* Tiered rate and time of day: a fixed window per tier, or with a limit that
   follows the hour.  hours holds the percentages of the limit, hour by hour of
   a day; a tier, read from the key, has one for all. *)

TieredLimit(r) == (r.limit * r.hours[1]) \div 100

HourOfDay(r, now) == ((now \div r.hour) % Len(r.hours)) + 1

TimeOfDayLimit(r, now) == (r.limit * r.hours[HourOfDay(r, now)]) \div 100

EffectiveLimit(r, now) ==
  IF r.strategy = "tiered_rate" THEN TieredLimit(r) ELSE TimeOfDayLimit(r, now)

\* Refused requests stay counted.
TieredRate(r, cell, now, cost, at) ==
  LET counter == <<"count", Window(r, now)>>
      new     == Added(r, cell, counter, cost, at)
  IN  Outcome(IF new[counter].value > EffectiveLimit(r, now) THEN UntilWindowEnds(r, now) ELSE 0, new)

TieredRateStat(r, cell, now) ==
  LET count == CountIn(cell, Window(r, now), now)
      limit == EffectiveLimit(r, now)
  IN  [remaining |-> AtLeast(limit - count, 0) * r.period,
       wait      |-> IF count >= limit THEN UntilWindowEnds(r, now) ELSE 0]

TimeOfDay(r, cell, now, cost, at) == TieredRate(r, cell, now, cost, at)

TimeOfDayStat(r, cell, now) == TieredRateStat(r, cell, now)

----------------------------------------------------------------------------
(* Adaptive throttle: per window a counter and the limit in force, which starts
   from the last window's and is lowered by every request that finds the load
   too high. *)

RecoveredUncapped(r, previous) == previous + r.limit * r.recovery

\* The last window's limit, recovered a little, but not beyond the rate's.
Recovered(r, previous) == AtMost(previous + r.limit * r.recovery, 100 * r.limit)

InitialLimit(r, cell, w, at) ==
  LET previous == Stored(cell, <<"limit", w - 1>>, at)
  IN  IF previous = None THEN 100 * r.limit ELSE Recovered(r, previous)

TooBusy(r, limit, count) == count * 10000 > r.threshold * limit

Lowered(r, limit) == AtLeast((limit * r.reduction) \div 100, r.limit * r.floor)

\* The limit is stored when the window has none yet, and when it is lowered.
AdaptiveThrottle(r, cell, now, cost, at) ==
  LET w       == Window(r, now)
      counted == Added(r, cell, <<"count", w>>, cost, at)
      count   == counted[<<"count", w>>].value
      known   == Stored(cell, <<"limit", w>>, at)
      start   == IF known = None THEN InitialLimit(r, cell, w, at) ELSE known
      limit   == IF TooBusy(r, start, count) THEN Lowered(r, start) ELSE start
  IN  Outcome(IF 100 * count > limit THEN UntilWindowEnds(r, now) ELSE 0,
              IF known = None \/ TooBusy(r, start, count)
              THEN Put(counted, <<"limit", w>>, limit, TwiceTTL(r, at), at) ELSE counted)

\* The last window's limit is not looked at.
AdaptiveThrottleStat(r, cell, now) ==
  LET count == CountIn(cell, Window(r, now), now)
      known == Stored(cell, <<"limit", Window(r, now)>>, now)
      limit == IF known = None THEN 100 * r.limit ELSE known
  IN  [remaining |-> (AtLeast(limit - 100 * count, 0) * r.period) \div 100,
       wait      |-> IF 100 * count >= limit THEN UntilWindowEnds(r, now) ELSE 0]

----------------------------------------------------------------------------
(* Priority queue: a log, too, of which at most queue entries are kept: those
   with the least timestamps.  A refused request stores nothing. *)

Earlier(d, e) == d.ts < e.ts \/ (d.ts = e.ts /\ d.nth < e.nth)

\* heapq.nlargest by (priority, -timestamp).
Trimmed(r, log) == {e \in log : Cardinality({d \in log : Earlier(d, e)}) < r.queue}

PriorityQueue(r, cell, now, cost, at) ==
  LET valid == Within(r, LogAt(cell, at), now)
  IN  IF LogCost(valid) + cost > r.limit
      THEN Outcome(IF valid = {} THEN r.period ELSE UntilOldestLeaves(r, valid, now), cell)
      ELSE Outcome(0, [log |-> Trimmed(r, Logged(valid, now, cost)),
                       exp |-> at + LogTTL(r)])

PriorityQueueStat(r, cell, now) ==
  LET valid == Within(r, LogAt(cell, now), now)
  IN  [remaining |-> AtLeast(r.limit - LogCost(valid), 0) * r.period,
       wait |-> IF LogCost(valid) < r.limit THEN 0
                ELSE IF valid = {} THEN r.period ELSE UntilOldestLeaves(r, valid, now)]

----------------------------------------------------------------------------
(* Quota with rollover: per period what was used of it and what came over from
   the period before, which the period's first request decides. *)

RolloverUncapped(r, previous) ==
  IF previous = None THEN 0 ELSE (AtLeast(r.limit - previous, 0) * r.percentage) \div 100

\* A period in which nothing was admitted leaves no usage, and nothing to roll over.
Rollover(r, previous) ==
  IF previous = None THEN 0
  ELSE AtMost((AtLeast(r.limit - previous, 0) * r.percentage) \div 100, r.maxRollover)

QuotaWithRollover(r, cell, now, cost, at) ==
  LET w      == Window(r, now)
      known  == Stored(cell, <<"rollover", w>>, at)
      over   == IF known = None THEN Rollover(r, Stored(cell, <<"count", w - 1>>, at)) ELSE known
      opened == IF known = None THEN Put(cell, <<"rollover", w>>, over, TwiceTTL(r, at), at) ELSE cell
  IN  IF CountIn(cell, w, at) + cost > r.limit + over
      THEN Outcome(UntilWindowEnds(r, now), opened)
      ELSE Outcome(0, Added(r, opened, <<"count", w>>, cost, at))

QuotaWithRolloverStat(r, cell, now) ==
  LET w    == Window(r, now)
      left == r.limit + AtLeast(Stored(cell, <<"rollover", w>>, now), 0) - CountIn(cell, w, now)
  IN  [remaining |-> AtLeast(left, 0) * r.period,
       wait      |-> IF left <= 0 THEN UntilWindowEnds(r, now) ELSE 0]

----------------------------------------------------------------------------
(* Cost based token bucket: the dearer the last requests admitted were on the
   average, the slower it refills.  State and history expire apart, as only an
   admitted request writes the history. *)

HistoryAt(cell, at) == IF Live(cell, at) /\ at < cell.historyExp THEN cell.history ELSE <<>>

\* What flows in per tick: never nothing, however dear the last requests were.
Inflow(r, history) ==
  LET slowest == AtLeast((r.limit * Grain * r.minRefill) \div 100, 1)
  IN  IF history = <<>> THEN r.limit * Grain
      ELSE AtLeast((r.limit * Grain * Len(history)) \div Total(history), slowest)

Full(r) == r.capacity * r.period * Grain

Balance(r, cell, now, at) ==
  IF Live(cell, at)
  THEN AtMost(cell.tokens + Inflow(r, HistoryAt(cell, at)) * (now - cell.last), Full(r))
  ELSE Full(r)

Remembered(r, history, cost) ==
  LET all == Append(history, cost) IN IF Len(all) > r.costWindow THEN Tail(all) ELSE all

CostBasedTokenBucket(r, cell, now, cost, at) ==
  LET tokens  == Balance(r, cell, now, at)
      history == HistoryAt(cell, at)
      price   == cost * r.period * Grain
      Keep(t, h, exp) == [tokens |-> t, last |-> now, exp |-> TwiceTTL(r, at),
                          history |-> h, historyExp |-> exp]
  IN  IF tokens >= price
      THEN Outcome(0, Keep(tokens - price, Remembered(r, history, cost), TwiceTTL(r, at)))
      ELSE Outcome(CeilDiv(price - tokens, Inflow(r, history)),
                   Keep(tokens, history, IF history = <<>> THEN 0 ELSE cell.historyExp))

CostBasedTokenBucketStat(r, cell, now) ==
  LET tokens == Balance(r, cell, now, now)
      one    == r.period * Grain
  IN  [remaining |-> AtLeast(tokens, 0) \div Grain,
       wait      |-> IF tokens < one
                     THEN CeilDiv(one - tokens, Inflow(r, HistoryAt(cell, now))) ELSE 0]

----------------------------------------------------------------------------
(* GCRA: the theoretical arrival time of the next request, in 1/limit ticks. *)

Arrival(r, cell, now, at) == IF Live(cell, at) THEN cell.tat ELSE now * r.limit

Conforms(r, tat, now) == now * r.limit >= tat - r.tolerance * r.limit

AdvancedFromNow(r, tat, now, cost) == now * r.limit + r.period * cost

Advanced(r, tat, now, cost) == AtLeast(tat, now * r.limit) + r.period * cost

\* The wait is until the arrival time, whatever the tolerance.
GCRA(r, cell, now, cost, at) ==
  LET tat == Arrival(r, cell, now, at)
  IN  IF Conforms(r, tat, now)
      THEN Outcome(0, [tat |-> Advanced(r, tat, now, cost), exp |-> TwiceTTL(r, at)])
      ELSE Outcome(AtLeast(CeilDiv(tat - now * r.limit, r.limit), 0), cell)

GCRAStat(r, cell, now) ==
  LET tat == Arrival(r, cell, now, now)
  IN  IF Conforms(r, tat, now)
      THEN [remaining |-> now * r.limit - (tat - r.tolerance * r.limit), wait |-> 0]
      ELSE [remaining |-> 0, wait |-> AtLeast(CeilDiv(tat - now * r.limit, r.limit), 0)]

----------------------------------------------------------------------------
(* Sliding window counter: the counters of this window and of the last, the last
   weighed by how much of it still overlaps the period before now. *)

\* What a hit has counted and read, in 1/period.
Weighted(r, now, count, previous) ==
  previous * UntilWindowEnds(r, now) + count * r.period

Overweight(r, now, count, previous) == Weighted(r, now, count, previous) - r.limit * r.period

\* The excess, as a part of the last window's count, of the time since the window began.
CounterWait(r, now, excess, previous) ==
  IF previous > 0
  THEN CeilDiv(excess * TimeInWindow(r, now), previous * r.period)
  ELSE UntilWindowEnds(r, now)

\* set: the last window's count is stored again, to prolong its life.
Refreshed(r, cell, w, count, at) == Put(cell, <<"count", w>>, count, TwiceTTL(r, at), at)

\* decrement: takes back what a refused hit counted, faster than the counter's TTL.
Uncounted(r, cell, w, cost, at) == Added(r, cell, <<"count", w>>, -cost, at)

\* A hit between whose requests no other's come.
SlidingWindowCounter(r, cell, now, cost, at) ==
  LET w        == Window(r, now)
      counted  == Added(r, cell, <<"count", w>>, cost, at)
      previous == Stored(cell, <<"count", w - 1>>, at)
      kept     == IF previous = None THEN counted ELSE Refreshed(r, counted, w - 1, previous, at)
      excess   == Overweight(r, now, CountIn(counted, w, at), AtLeast(previous, 0))
  IN  IF excess > 0
      THEN Outcome(CounterWait(r, now, excess, previous), Uncounted(r, kept, w, cost, at))
      ELSE Outcome(0, kept)

SlidingWindowCounterStat(r, cell, now) ==
  LET w        == Window(r, now)
      previous == CountIn(cell, w - 1, now)
      weighted == Weighted(r, now, CountIn(cell, w, now), previous)
      excess   == weighted + r.period - r.limit * r.period
  IN  [remaining |-> AtLeast(r.limit * r.period - weighted, 0),
       wait      |-> IF excess > 0 THEN AtLeast(CounterWait(r, now, excess, previous), 0) ELSE 0]

----------------------------------------------------------------------------
(* The strategy a rate is used with. *)

HitOf(r, cell, now, cost, at) ==
  CASE r.strategy = "sliding_window_counter"  -> SlidingWindowCounter(r, cell, now, cost, at)
    [] r.strategy = "tiered_rate"             -> TieredRate(r, cell, now, cost, at)
    [] r.strategy = "time_of_day"             -> TimeOfDay(r, cell, now, cost, at)
    [] r.strategy = "adaptive_throttle"       -> AdaptiveThrottle(r, cell, now, cost, at)
    [] r.strategy = "priority_queue"          -> PriorityQueue(r, cell, now, cost, at)
    [] r.strategy = "quota_with_rollover"     -> QuotaWithRollover(r, cell, now, cost, at)
    [] r.strategy = "cost_based_token_bucket" -> CostBasedTokenBucket(r, cell, now, cost, at)
    [] r.strategy = "gcra"                    -> GCRA(r, cell, now, cost, at)
    [] OTHER                                  -> Hit(r, cell, now, cost, at)

StatOf(r, cell, now) ==
  CASE r.strategy = "sliding_window_counter"  -> SlidingWindowCounterStat(r, cell, now)
    [] r.strategy = "tiered_rate"             -> TieredRateStat(r, cell, now)
    [] r.strategy = "time_of_day"             -> TimeOfDayStat(r, cell, now)
    [] r.strategy = "adaptive_throttle"       -> AdaptiveThrottleStat(r, cell, now)
    [] r.strategy = "priority_queue"          -> PriorityQueueStat(r, cell, now)
    [] r.strategy = "quota_with_rollover"     -> QuotaWithRolloverStat(r, cell, now)
    [] r.strategy = "cost_based_token_bucket" -> CostBasedTokenBucketStat(r, cell, now)
    [] r.strategy = "gcra"                    -> GCRAStat(r, cell, now)
    [] OTHER                                  -> Stat(r, cell, now)
=============================================================================
