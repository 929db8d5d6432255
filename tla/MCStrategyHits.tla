--------------------------- MODULE MCStrategyHits ---------------------------
EXTENDS StrategyHits, TLC

CONSTANTS r1, r2, r3, r4

MCRequests == {r1, r2, r3, r4}

MCForever == 1000

Symmetry == Permutations(Requests)

MCRate(strategy, limit, period, capacity, debt) ==
  [strategy |-> strategy, limit |-> limit, period |-> period, capacity |-> capacity, debt |-> debt]

MCScenario(delay, r) == [rate |-> r, delay |-> delay]

\* Per strategy of its own one or two rates: two hours with different limits, a
\* limit that halves and recovers by a quarter, a rollover that is capped, a burst
\* tolerance, and the counter with and without requests of the last window.
MCCustomScenarios ==
  {MCScenario(1, MCRate("tiered_rate", 2, 3, 2, 0) @@ [hours |-> <<150>>]),
   MCScenario(0, MCRate("time_of_day", 2, 3, 2, 0) @@ [hours |-> <<50, 100>>, hour |-> 2]),
   MCScenario(0, MCRate("adaptive_throttle", 4, 2, 4, 0)
                   @@ [threshold |-> 60, reduction |-> 50, recovery |-> 25, floor |-> 25]),
   MCScenario(1, MCRate("priority_queue", 2, 3, 2, 0) @@ [queue |-> 2]),
   MCScenario(0, MCRate("quota_with_rollover", 3, 3, 3, 0) @@ [percentage |-> 100, maxRollover |-> 1]),
   MCScenario(0, MCRate("cost_based_token_bucket", 2, 3, 2, 0) @@ [costWindow |-> 2, minRefill |-> 75]),
   MCScenario(1, MCRate("gcra", 2, 3, 2, 0) @@ [tolerance |-> 0]),
   MCScenario(1, MCRate("gcra", 2, 3, 2, 0) @@ [tolerance |-> 1]),
   MCScenario(0, MCRate("sliding_window_counter", 2, 3, 2, 0)),
   MCScenario(1, MCRate("sliding_window_counter", 2, 2, 2, 0))}

\* A second is 3 ticks.  Windows below, of and above a second; a bucket with
\* a burst below and above the limit, and one that may owe.
MCScenarios ==
  {MCScenario(0, MCRate("fixed_window", 2, 2, 2, 0)),
   MCScenario(1, MCRate("fixed_window", 2, 3, 2, 0)),
   MCScenario(1, MCRate("fixed_window", 2, 6, 2, 0)),
   MCScenario(1, MCRate("sliding_window_log", 2, 3, 2, 0)),
   MCScenario(1, MCRate("sliding_window_log", 2, 2, 2, 0)),
   MCScenario(1, MCRate("token_bucket", 2, 3, 2, 0)),
   MCScenario(0, MCRate("token_bucket", 1, 3, 2, 0)),
   MCScenario(1, MCRate("token_bucket", 2, 3, 1, 1)),
   MCScenario(1, MCRate("leaky_bucket", 2, 3, 2, 0)),
   MCScenario(1, MCRate("leaky_bucket_queue", 2, 3, 2, 0))}
  \cup MCCustomScenarios

\* A counter whose requests of two windows meet.
MCLateCounter == {MCScenario(1, MCRate("sliding_window_counter", 2, 3, 2, 0))}

\* A log over one and two thirds of a second, stored for one second.
MCLongLog == {MCScenario(0, MCRate("sliding_window_log", 1, 5, 1, 0))}

\* A fixed window of one second, whose counter is stored for two.
MCOneSecond == {MCScenario(0, MCRate("fixed_window", 1, 3, 1, 0))}
=============================================================================
