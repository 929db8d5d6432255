---------------------------- MODULE StrategyHits ----------------------------
(***************************************************************************)
(* Requests for one key under one rate.  A request reads the clock before   *)
(* it waits for the key's lock and decides once it has it, so a decision    *)
(* may be taken with a time that is older than one already stored: by at    *)
(* most the delay of the scenario, which stands for the lock's blocking     *)
(* timeout.  The access to the backend is one step: what is under the lock  *)
(* excludes the other requests for the key, and increment_with_ttl is       *)
(* atomic.  The sliding window counter locks the name of the last window, so *)
(* that requests of two windows do meet: its hits take one step per backend  *)
(* request.  Wall clock and the backend's clock advance together.           *)
(***************************************************************************)
EXTENDS CustomStrategies

CONSTANTS Requests,
          Scenarios,  \* records [rate, delay]: the rates one run is checked for
          Costs,      \* what a request may cost
          MaxTime     \* bound: the clock stops here

(* What Rate and the strategies' constructors accept, and what has no limit or no
   cost is not counted.  Percentages are of 100. *)
Strategy == {"fixed_window", "sliding_window_log", "token_bucket", "leaky_bucket", "leaky_bucket_queue",
             "priority_queue", "cost_based_token_bucket", "gcra"} \cup Windowed

StrategyFields(r) ==
  /\ r.strategy \in Strategy
  /\ r.strategy \in {"tiered_rate", "time_of_day"} => r.hours \in Seq(Int) \ {<<>>}
  /\ r.strategy = "time_of_day" => r.hour \in Nat \ {0}
  /\ r.strategy = "adaptive_throttle" =>
       /\ r.threshold \in 0 .. 100 /\ r.reduction \in 0 .. 100
       /\ r.recovery \in 0 .. 100 /\ r.floor \in 0 .. 100
  /\ r.strategy = "priority_queue" => r.queue \in Nat \ {0}
  /\ r.strategy = "quota_with_rollover" => r.percentage \in 0 .. 100 /\ r.maxRollover \in Nat
  /\ r.strategy = "cost_based_token_bucket" => r.costWindow \in Nat /\ r.minRefill \in Nat
  /\ r.strategy = "gcra" => r.tolerance \in Nat

ASSUME ScenariosAssumption ==
  /\ IsFiniteSet(Requests) /\ MaxTime \in Nat
  /\ Costs \subseteq Nat \ {0} /\ IsFiniteSet(Costs)
  /\ \A s \in Scenarios :
       /\ s.delay \in Nat /\ s.rate.limit \in Nat \ {0} /\ s.rate.period \in Nat \ {0}
       /\ s.rate.capacity \in Nat /\ s.rate.debt \in Nat
       /\ StrategyFields(s.rate)

VARIABLES scenario,   \* never changes
          clock,
          cell,       \* what the backend stores under the key
          hit         \* per request: what it read, was given and when

vars == <<scenario, clock, cell, hit>>

rate == scenario.rate

Pending(q) == hit[q].pc = "waiting"

Counting(q) == hit[q].pc = "counting"

Stepwise == rate.strategy = "sliding_window_counter"

Admitted(q) == hit[q].pc = "admitted"

Init == /\ scenario \in Scenarios
        /\ clock = 0
        /\ cell = EmptyCell(rate)
        /\ hit = [q \in Requests |-> [pc |-> "idle"]]

\* time() is read, and the lock asked for.
Begin(q) ==
  /\ hit[q].pc = "idle"
  /\ \E cost \in Costs :
       hit' = [hit EXCEPT ![q] = [pc |-> "waiting", now |-> clock, cost |-> cost]]
  /\ UNCHANGED <<scenario, clock, cell>>

\* Of a request that is told to wait nothing is kept.
Decided(q, wait) ==
  hit' = [hit EXCEPT ![q] = IF wait = 0 THEN [pc |-> "admitted", cost |-> @.cost, at |-> clock]
                                        ELSE [pc |-> "refused"]]

\* With the lock held: read, decide, write.
Decide(q) ==
  /\ Pending(q) /\ ~Stepwise
  /\ LET outcome == HitOf(rate, cell, hit[q].now, hit[q].cost, clock)
     IN  cell' = outcome.cell /\ Decided(q, outcome.wait)
  /\ UNCHANGED <<scenario, clock>>

Mine(q) == Window(rate, hit[q].now)

\* The counter's lock, named by the window, is taken; its first two requests go out at once.
Lock(q) ==
  /\ Pending(q) /\ Stepwise
  /\ \A p \in Requests : Counting(p) => Mine(p) # Mine(q)
  /\ hit' = [hit EXCEPT ![q] = [pc |-> "counting", now |-> @.now, cost |-> @.cost,
                                count |-> 0, previous |-> None, todo |-> {"count", "read"}]]
  /\ UNCHANGED <<scenario, clock, cell>>

Count(q) ==
  /\ Counting(q) /\ "count" \in hit[q].todo
  /\ cell' = Added(rate, cell, <<"count", Mine(q)>>, hit[q].cost, clock)
  /\ hit' = [hit EXCEPT ![q].todo = @ \ {"count"}, ![q].count = CountIn(cell', Mine(q), clock)]
  /\ UNCHANGED <<scenario, clock>>

ReadPrevious(q) ==
  /\ Counting(q) /\ "read" \in hit[q].todo
  /\ LET previous == Stored(cell, <<"count", Mine(q) - 1>>, clock)
         next     == IF previous = None THEN {} ELSE {"refresh"}
     IN  hit' = [hit EXCEPT ![q].todo = (@ \ {"read"}) \cup next, ![q].previous = previous]
  /\ UNCHANGED <<scenario, clock, cell>>

Refresh(q) ==
  /\ Counting(q) /\ hit[q].todo = {"refresh"}
  /\ cell' = Refreshed(rate, cell, Mine(q) - 1, hit[q].previous, clock)
  /\ hit' = [hit EXCEPT ![q].todo = {}]
  /\ UNCHANGED <<scenario, clock>>

\* A hit that is too much takes its count back.
Weigh(q) ==
  LET previous == AtLeast(hit[q].previous, 0)
      excess   == Overweight(rate, hit[q].now, hit[q].count, previous)
  IN  /\ Counting(q) /\ hit[q].todo = {}
      /\ IF excess > 0
         THEN /\ Decided(q, CounterWait(rate, hit[q].now, excess, previous))
              /\ cell' = Uncounted(rate, cell, Mine(q), hit[q].cost, clock)
         ELSE Decided(q, 0) /\ UNCHANGED cell
      /\ UNCHANGED <<scenario, clock>>

Tick ==
  /\ clock < MaxTime
  /\ \A q \in Requests : Pending(q) \/ Counting(q) => clock < hit[q].now + scenario.delay
  /\ clock' = clock + 1
  /\ UNCHANGED <<scenario, cell, hit>>

Next == \/ \E q \in Requests :
             \/ Begin(q) \/ Decide(q)
             \/ Lock(q) \/ Count(q) \/ ReadPrevious(q) \/ Refresh(q) \/ Weigh(q)
        \/ Tick

Spec == Init /\ [][Next]_vars

----------------------------------------------------------------------------
(* Properties *)

\* What a cell may hold.
InRange ==
  CASE rate.strategy = "fixed_window"       -> cell.count \in Nat
    [] rate.strategy \in {"sliding_window_log", "priority_queue"} -> LogCost(cell.log) \in 0..rate.limit
    [] rate.strategy = "token_bucket"       -> cell.tokens <= rate.capacity * rate.period
    [] rate.strategy = "cost_based_token_bucket" -> cell.tokens <= Full(rate)
    [] rate.strategy = "gcra"               -> cell.tat \in Nat
    [] OTHER -> cell.level \in 0..(Max(Costs \cup {rate.limit}) * rate.period)

\* Of what is stored per window, the limits that adapt and what rolls over.
InRangeOf(kind, value) ==
  CASE kind = "limit"    -> value \in rate.limit * rate.floor .. 100 * rate.limit
    [] kind = "rollover" -> value \in 0..rate.maxRollover
    [] kind = "count"    -> scenario.delay = 0 => value \in Nat

\* The stored state has the shape the strategy decodes and stays in its range: an
\* admitted log is never heavier than the limit, a bucket never fuller than its
\* capacity and never emptier than empty, an adapted limit never below its floor
\* nor above the rate's, from whatever window to window it is handed on.
TypeOK ==
  /\ clock \in 0..MaxTime
  /\ \A q \in Requests :
       \/ hit[q].pc \in {"idle", "refused"}
       \/ (Pending(q) \/ Counting(q)) /\ hit[q].now \in 0..clock /\ hit[q].cost \in Costs
       \/ Admitted(q) /\ hit[q].at \in 0..clock /\ hit[q].cost \in Costs
  /\ IF rate.strategy \in Windowed
     THEN \A key \in DOMAIN cell : Live(cell[key], clock) => InRangeOf(key[1], cell[key].value)
     ELSE Live(cell, clock) => InRange

\* What was admitted by decisions taken in [from, to].
AdmittedIn(from, to) == {q \in Requests : Admitted(q) /\ hit[q].at \in from..to}

AdmittedCost(from, to) == Total([q \in AdmittedIn(from, to) |-> hit[q].cost])

\* The decisions that bound the intervals worth looking at.
Decisions == {hit[q].at : q \in {p \in Requests : Admitted(p)}}

\* A window strategy admits no more than the limit (a fixed window: twice the
\* limit, once on each side of a boundary) in any stretch of time shorter than the
\* period; waiting for the lock shortens the log's stretch by as much, since an
\* entry bears the time its request came, not the time it was let in.  A priority
\* queue keeps to it as long as it may hold as many entries as the limit, and each
\* as long as what it stores outlives the period; the window of less than a second
\* if no request waits for the lock.
WindowBound ==
  \A from, to \in Decisions :
    /\ /\ rate.strategy = "fixed_window" /\ rate.period <= FixedWindowTTL(rate)
       /\ rate.period < Second => scenario.delay = 0
       /\ to - from < rate.period
       => AdmittedCost(from, to) <= 2 * rate.limit
    /\ /\ rate.strategy \in {"sliding_window_log", "priority_queue"} /\ rate.period <= LogTTL(rate)
       /\ rate.strategy = "priority_queue" => rate.queue >= rate.limit
       /\ to - from + scenario.delay < rate.period
       => AdmittedCost(from, to) <= rate.limit

\* The log's own promise: the exact rate in any time window.
ExactRateInAnyWindow ==
  rate.strategy = "sliding_window_log" /\ scenario.delay = 0 =>
    \A from, to \in Decisions :
      to - from < rate.period => AdmittedCost(from, to) <= rate.limit

\* The fixed window's own promise: its windows are aligned to multiples of the
\* period and the counter starts anew with each of them.
CounterStartsWithWindow ==
  rate.strategy = "fixed_window" /\ scenario.delay = 0
  /\ (\A q \in Requests : hit[q].pc # "refused" /\ (Admitted(q) => hit[q].at < WindowStart(rate, clock)))
    => Stat(rate, cell, clock).remaining = rate.limit * rate.period

\* What may be admitted in the aligned window that holds the instant at.
Allowance(at) ==
  LET start  == WindowStart(rate, at)
      before == AdmittedCost(start - rate.period, start - 1)
      unused == AtLeast(rate.limit - before, 0)
  IN  CASE rate.strategy \in {"tiered_rate", "time_of_day"} ->
             Max({EffectiveLimit(rate, t) : t \in start .. start + rate.period - 1})
        [] rate.strategy = "quota_with_rollover" ->
             rate.limit + IF before = 0 THEN 0
                          ELSE AtMost((unused * rate.percentage) \div 100, rate.maxRollover)
        [] OTHER -> rate.limit

\* A refused hit of the counter is told to wait 0, and so is let in, if it came as
\* its window began.
FreeInstant(at) == Stepwise /\ TimeInWindow(rate, at) = 0

\* The windows of the strategies that count per window are the aligned ones, and
\* none of them admits more than its limit, whatever the multiplier of the hour,
\* the adapted limit and the window before; with a rollover no more than that and
\* what the window before left unused: as long as no request waits for the lock,
\* and for a fixed window below a second.
AlignedWindowBound ==
  /\ rate.strategy \in Windowed \cup {"fixed_window"}
  /\ rate.strategy = "fixed_window" => rate.period < Second
  /\ scenario.delay = 0
  => \A at \in Decisions :
       LET start == WindowStart(rate, at)
           first == IF FreeInstant(start) THEN start + 1 ELSE start
       IN  AdmittedCost(first, start + rate.period - 1) <= Allowance(at)

\* A bucket is forgotten after twice the period, counted from when it was written,
\* not from the time the request that wrote it came.
KeptFor == BucketTTL(rate) - scenario.delay

\* What is forgotten would be full again, empty or past anyway.
NothingToRemember ==
  CASE rate.strategy = "token_bucket" ->
         (rate.capacity + rate.debt) * rate.period <= rate.limit * KeptFor
    [] rate.strategy \in {"leaky_bucket", "leaky_bucket_queue"} -> rate.period <= KeptFor
    [] rate.strategy = "cost_based_token_bucket" ->
         rate.capacity * rate.period <= rate.limit * KeptFor
    [] rate.strategy = "gcra" ->
         Max(Costs) * rate.period + rate.limit * rate.tolerance <= rate.limit * KeptFor
    [] OTHER -> TRUE

\* A bucket admits in any stretch of time what it holds (and may owe) and what
\* flows in or out meanwhile, and no more, in whatever order the requests that
\* waited for the lock come to decide.  A cost based bucket refills no faster, if
\* none had to wait and its slowest refill is not above the rate; GCRA admits the
\* last request whatever it costs, and a leaky bucket the first, so that no request
\* may be dearer than the limit.
BucketBound ==
  NothingToRemember => \A from, to \in Decisions :
    LET flow == rate.limit * (to - from + scenario.delay)
    IN  /\ rate.strategy = "token_bucket" /\ from <= to =>
             AdmittedCost(from, to) * rate.period <= (rate.capacity + rate.debt) * rate.period + flow
        /\ rate.strategy \in {"leaky_bucket", "leaky_bucket_queue"} /\ from <= to
             /\ (\A cost \in Costs : cost <= rate.limit) =>
             AdmittedCost(from, to) * rate.period <= rate.limit * rate.period + flow
        /\ rate.strategy = "cost_based_token_bucket" /\ from <= to
             /\ scenario.delay = 0 /\ rate.minRefill <= 100 =>
             AdmittedCost(from, to) * rate.period <= rate.capacity * rate.period + flow
        /\ rate.strategy = "gcra" /\ from <= to =>
             (AdmittedCost(from, to) - Max(Costs)) * rate.period <= flow + rate.limit * rate.tolerance

\* What a strategy can ever admit; a dearer request it may always refuse.
Affordable(cost) ==
  CASE rate.strategy = "token_bucket"            -> cost <= rate.capacity + rate.debt
    [] rate.strategy = "cost_based_token_bucket" -> cost <= rate.capacity
    [] rate.strategy \in {"sliding_window_log", "priority_queue"} -> cost = 1 /\ cost <= rate.limit
    [] rate.strategy = "tiered_rate"             -> cost <= TieredLimit(rate)
    [] rate.strategy = "time_of_day"             -> \A h \in DOMAIN rate.hours : 100 * cost <= rate.limit * rate.hours[h]
    [] rate.strategy = "adaptive_throttle"       -> 100 * cost <= rate.limit * rate.floor
    [] OTHER                                     -> cost <= rate.limit

\* The wait a rejected request is told is enough: if nobody else comes, the same
\* request is admitted when it comes back after it.  Fixed windows of a second or
\* more are left out: their counter lives for its TTL from the first hit, the wait
\* they report runs to the end of the aligned window.  The log's wait is until its
\* oldest entry leaves, which makes room for a request of cost 1.  A window that
\* ended while the request waited for the lock is not waited for, and the counter's
\* wait is no measure of when its hits lose their weight.  A cost-based bucket that
\* refills faster than its rate slows down when its costs are forgotten meanwhile.
WaitHonest ==
  /\ rate.strategy = "fixed_window" => rate.period < Second
  /\ rate.strategy = "cost_based_token_bucket" => rate.minRefill <= 100
  /\ ~Stepwise
  => \A cost \in Costs, age \in 0..scenario.delay :
       age <= clock /\ (rate.strategy \in Windowed => age = 0) /\ Affordable(cost) =>
         LET first == HitOf(rate, cell, clock - age, cost, clock)
             back  == clock + first.wait
         IN  first.wait > 0 => HitOf(rate, first.cell, back, cost, back).wait = 0

\* What get_stat reports is what a hit at that instant would find: a request is
\* admitted exactly if its cost is within the hits remaining, and the wait is 0
\* exactly if a request of cost 1 is admitted.  Not so for an adaptive throttle,
\* whose next hit may find another limit, nor for a quota before its period's first
\* request has decided what rolls over; and the hits GCRA reports are those of the
\* time it is ahead of its schedule.
StatPredictsHit ==
  LET stat == StatOf(rate, cell, clock)
      Allowed(cost) == HitOf(rate, cell, clock, cost, clock).wait = 0
  IN  /\ rate.strategy # "adaptive_throttle" /\ ~FreeInstant(clock)
      /\ rate.strategy = "quota_with_rollover" =>
           Stored(cell, <<"rollover", Window(rate, clock)>>, clock) # None
      => /\ rate.strategy # "gcra" =>
              \A cost \in Costs : Affordable(cost) =>
                (Allowed(cost) <=> cost * rate.period <= stat.remaining)
         /\ Affordable(1) => (stat.wait = 0 <=> Allowed(1))

\* A rejected request takes nothing from those that come after it, although it
\* writes the state back, with its own, older time.  (Not so where rejected requests
\* are counted too.)
RejectionIsFree ==
  [][\A q \in Requests :
       /\ Pending(q) /\ hit'[q].pc = "refused"
       /\ rate.strategy \notin {"fixed_window"} \cup Windowed
       => StatOf(rate, cell', clock).remaining = StatOf(rate, cell, clock).remaining]_vars

\* To refresh the last window is not to change its count (comment in __call__ of the
\* sliding window counter: "Refresh TTL to keep previous window alive").
RefreshKeepsCount ==
  [][\A q \in Requests : Refresh(q) =>
       CountIn(cell', Mine(q) - 1, clock) = CountIn(cell, Mine(q) - 1, clock)]_vars
=============================================================================
