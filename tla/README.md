# A verification of traffik

TLA+ modules for [traffik](../src/README.md), an asynchronous rate limiting library for
Starlette and FastAPI. The modules are translated from the Python under `src/src/traffik`
(paths below are relative to that directory); `PROJECT.json` names the lines behind every
definition. TLC checks the modules on small instances, TLAPS proves the theorems in the
`*Proofs` modules for all values of the constants.

    tlc -workers 2 -config fair_lock.cfg MCFairAsyncRLock.tla
    tlapm LockProofs.tla

## The system

A request reaches a `Throttle` (by dependency, decorator, middleware or quota context). The
throttle derives a key from the connection and asks its *strategy* whether the request may
pass. The strategy reads and writes a few values under that key in a *backend*, inside a
named *lock* of that backend, and answers with a wait in milliseconds; 0 means "allowed".
If the backend raises, an *error handler* decides, possibly by way of a circuit breaker and
a second backend.

| part | state | operations | hard behaviour | what makes it correct |
|---|---|---|---|---|
| `_locks.py` `FairAsyncRLock` | owner, count, queue of futures, hand-over flag | acquire, release | cancellation of a waiter before and after it was offered the lock; newcomers during a hand-over | exclusion, fairness, no lost hand-over |
| `_locks.py` `NamedLockPool`, `NamedLockHandle` | name → (lock, references), idle locks, allocated count | get, acquire, release, discard, populate, close | names come and go while locks are recycled; `_closed` read outside the lock; failing acquires | a name excludes, exact accounting, nothing leaks |
| `_locks.py` gates, `_GatedNamedLock`, `_AsyncLockContext` | gates with contention counts, TTL timer | acquire, release | failure between the local and the remote lock; the timer against the end of the body | the gate is always given back |
| `strategies/*` | per key: counter, log, bucket | hit, get_stat | a clock read before the lock is awaited; TTLs; boundaries | bounds on what is admitted, honest waits |
| `backends/base.py`, `backends/inmemory.py` | shards, sampling index, cleaner, lock pools, stack of contexts | get, set, increment, expire, delete, multi_*, reset, initialize, close; contexts | several structures that must agree; contexts that nest and overlap; closing suspends | a map with expiry; ready means serving |
| `backends/multiprocess.py` | hash table, free stack, generations and slots in shared memory | as above | two semaphores taken one after the other, slots that change hands in between, tombstones | a map with expiry, nothing leaks, no deadlock |
| `backends/redis`, `backends/memcached` | locks and counters in a remote store; memcached: lists of tracked keys | as above | expiry of a lock its holder still uses; non-atomic release; counters made of several requests | a lease is its holder's until it expires; no count is lost |
| `_utils.py` `CircuitBreaker`, `error_handlers.py` | state, counters, probe flag | allow_execution, record_*, force_* | late reports, cancelled probes | one probe, recovery by probes |
| `quotas.py` `QuotaContext` | queue of calls, children, lock | consume, merge, apply, cancel, nested | partial failure, any order of operations, exits by exception | each call charged once, the lock released |
| `throttles`, `registry.py`, `middleware.py`, `decorators` | rules, configuration | hit | order of rules, minimum wait | the decision of the strategy is what is enforced |

Interactions: strategies, shards and quota contexts take locks from a pool; a pooled lock is
a `FairAsyncRLock` (re-entrant) or an adapter of `asyncio.Lock`; the failover handler calls
a strategy again; a quota context calls `Throttle.hit`. Nearly everything runs on an event
loop, where code between two awaits is one step; the lock pools and the multiprocess backend
are also used from several threads or processes.

## The modules

**`FairMutex`** is the abstract lock: who is inside, and the line of those who wait.

**`LockUsers`** declares the asyncio tasks, which `FairAsyncRLock` and `DistributedLock` share.

**`FairAsyncRLock`** is the code. A future is `pending`, `done` or `cancelled`, and resolving
or cancelling it does not run its task: that is the task's own later step (`Wake`,
`CancelledInQueue`, `CancelledNextInLine`), between which other tasks run. `Cancel` is
`Task.cancel()` from outside; on a task whose future is already resolved it leaves the mark
`mustCancel`, as asyncio does. `broken` is a history variable: some release met a cancelled
future and raised (a defect of the code, see below). `Line` maps the state to `FairMutex`:
the task that has been offered the lock is still first in line.

**`NamedLockPool`** has a user per handle. `get` and `_release` are two steps each, because
`_closed` is read before the pool's lock is taken; so are `populate` and `close`. `holder`
is all that is kept of a lock. `Drop` is a handle that is forgotten after its acquire failed, as
`async with pool.get(name)` and the lock context of the backends do; `leaked` counts them.

**`Strategies`** holds the four basic strategies as functions from the stored cell, the time
read, the cost and the time of the access to a wait and a new cell; **`CustomStrategies`** those
of `custom.py` and the sliding window counter. **`StrategyHits`** is the state machine around
them: `Begin` reads the clock, `Decide` runs under the lock, `Tick` advances the time, by at
most `delay` while somebody waits. The sliding window counter takes its store's calls one at a
time (`Lock`, `Count`, `ReadPrevious`, `Refresh`, `Weigh`), since its lock is named after the
window and hits of adjacent windows interleave. So are the locks of the adaptive strategy
(`strategies/custom.py:526`) and of the quota with rollover (`strategies/custom.py:955`), whose hits
are one step each here (see "Not modelled"). Amounts are scaled by the period, so
that all arithmetic is on integers.

**`CircuitBreaker`** is the breaker and the failover handler's calls. The asyncio lock of the
breaker is never held across an await, so its methods are part of their caller's step. Time is
abstracted to `cooled`: the recovery timeout has passed. `strayed` and `abandoned` record that
a half-open circuit heard from a call that was not its probe, and that a probe was cancelled.

**`QuotaContext`** gives each request one context per depth, each nested in the one before.
A call costs one, an entry of a queue is the set of calls aggregated in it, and whether two
calls agree in all that aggregation compares is left open. Applying goes entry by entry,
with retries, as other requests run. Any operation may be used on a context that was opened,
in its block or after it.

**`ExpiringMap`** is what a storage backend promises: one map from keys to values that expire.
`InMemoryBackend` and `SharedTable` implement it; in either, the mapped state is what a reader
finds now (`Visible`).

**`InMemoryBackend`** is the dictionary backend with its sampling index and cleaner, used through
the backend contexts of `base.py`. Operations on the data do not suspend, so each is one step on
all shards together; `close` suspends for the cleaner, and tasks open and close by nesting
contexts in any order. A context is told to keep the data or not, and to close or not, or nothing
(`Arguments`); what it is told goes before what the context around it makes of it, as in
`ThrottleBackend.__call__`. A cleaner that ended by itself stays in `_cleanup_task` until the close that
waited for it goes on (`"ended"`), and no other is made meanwhile. Where the code differs from the map, a history variable says so:
`revived` (expire on an entry that is over).

**`SharedTable`** is a shard of the multiprocess backend, down to buckets, tombstones, the free
stack and generations. What a worker does under the map's semaphore is one step; under the data's
semaphore every check and access is one, as generations change under the other. A call remembers
the slot and generation it found and compares them later, as the code does. A batch whose slots have
partly changed hands looks for those again and then walks all its slots once more (`Slotted`), so
that what it has written is written a second time, over what others did meanwhile. For
`ExpiringMap` each such write is another set; `RetriesSpareTheWritten` says what the docstring of
`multi_set` would have. The keys of a batch lie in the one shard that is modelled. `GhostsComeFromFailures`
says that only a call that failed half-way leaves a key behind that is mapped and holds nothing.

**`DistributedLock`** composes the gates of a process, the lock at the server (redis or memcached)
and the context with its watchdog. A lease is a key with a token and a remaining time. Requests and
replies may be late; a profile bounds how late, or does not.

**`MemcachedBackend`** has one action per request to the server: counters from `incr`, `add` and
their retries, `expire` with touch or with get and set, tracking lists that are appended to, and
`clear`. Calls may fail between any two requests.

**`Throttling`** is a request on its way through `ThrottleMiddleware` and `Throttle.hit`, while
throttles are reconfigured, rules attached and the backend closed. What the strategy answers is
free. A predicate that raises ends the request outside `hit`'s `try`, whatever `on_error` says.

`Strategies` and `ExpiringMap` are the seams of the composition: `StrategyHits` assumes a cell that
is stored with an expiry, `ExpiringMap` is what two backends are shown to give; `Throttling`
assumes some answer of a strategy.

The `MC*` modules and `.cfg` files give the constants small values. In the map of
`PROJECT.json` a definition of `MemcachedBackend` or `DistributedLock` stands for the code of both
client libraries (`aiomcache` and `emcache`, `aioredis` and `coredis`), which agree unless `lib` or
the profile is consulted; the lines named are those of one of them, and the other's are named by
the definition next to it.

## The runs

| run | shows | bounds and distinct states |
|---|---|---|
| `fair_lock` | exclusion, fairness (refinement of `FairMutex`), nobody waits for ever | 3 tasks, depth 2: one is handed the lock, one is queued behind it, one comes back as a newcomer |
| `strategy_hits` | bounds on what is admitted per window and per bucket, honest waits, `get_stat` predicts hits | 20 scenarios (rate, delay), all strategies; 4 requests of cost 1 or 2: two fill a limit of 2, two come after; 7 instants, more than a period of every rate but one, and a TTL; 0.9 million |
| `lock_pool` | accounting, one lock per name, references match handles, a name excludes | 3 users, 3 names, free list 1, capacity 2: reuse, refusal and discarding all occur; one dropped handle per name |
| `breaker` | single probe, recovery by probes, a probe decides | 3 calls, thresholds 2, 2 attempts |
| `quota` | charged once, nothing lost, the block is locked, the lock comes free | 2 requests, one nested level, 2 calls, 2 attempts, 1 failed apply; 0.4 million |
| `inmemory` | refinement of `ExpiringMap`, index agrees with data, ready means serving, inner contexts clear and close only when told to | 2 tasks, 2 keys (one that leaves is replaced in the index by the other), contexts 2 deep that are told nothing, to clear and close, or to keep and stay open, TTL 2, 4 instants; 0.9 million |
| `shared_table` | refinement of `ExpiringMap`, free and used slots partition, probes find, nobody stands still, writes reach only their own key | 2 workers, 4 keys for 3 slots and 8 buckets (so slots are recycled and the calls may run out of them), rebuild at 2 tombstones, 3 calls; 0.4 million |
| `leases` | gates in step with contenders, gates bound the race, bodies exclude under bounded lateness, a lease is kept | 3 tasks of one process, 1 of another, depth 2, 3 tokens; redis without bounds, memcached with them; 0.3 million |
| `memcached` | no count lost, tracked keys are what is stored, clear sweeps | 2 clients, 2 keys of one tracking shard, both libraries, 3 calls; 0.6 million |
| `throttling` | a refusal ends the request, rules decide, recovery from a closed backend | 2 requests, 2 throttles, a rule and a bypass, 2 updates, 1 close, 3 configurations, in one of which the bypass's predicate raises; 0.6 million |

Two runs state what a comment or docstring promises and are violated by the code (each is a
finding with the quotation in `PROJECT.json`):

| run | what happens |
|---|---|
| `fair_lock_race` | a release that meets a future cancelled in the same loop iteration raises after `popleft`; two tasks get inside |
| `lock_pool_leak` | a handle whose acquire fails in `async with` keeps its reference for ever |

Eight further configurations are kept for the findings they reproduce, and are meant to be run by
hand, `tlc -config <cfg> <module>`; each ends in a counterexample:

| configuration | module | what happens |
|---|---|---|
| `log_outlives_ttl.cfg` | `MCStrategyHits` | the log's TTL is truncated to whole seconds; with a period of 1.9 s a burst is admitted again after 1 s |
| `window_outlived.cfg` | `MCStrategyHits` | a counter of a window of a second or more lives for its TTL from the first hit, not for the aligned window |
| `counter_refresh.cfg` | `MCStrategyHits` | the sliding window counter writes the previous count back over a concurrent increment |
| `breaker_stuck.cfg` | `MCCircuitBreaker` | a cancelled probe is reported to nobody, and the circuit refuses everybody from then on |
| `quota_lock_leak.cfg` | `MCQuotaContext` | a root applied by hand inside its block never releases its lock |
| `quota_failed_child.cfg` | `MCQuotaContext` | what a nested block queued before it raised is charged when the parent applies |
| `batch_rewrites.cfg` | `MCSharedTable` | `multi_set` is tried again for one key and writes another a second time, over what was counted under it since |
| `mark_lost.cfg` | `MCThrottling` | with `skip_handler`, a later throttle wipes an earlier one's mark |

Findings without a configuration were met while translating the lines they name.

The invariants of the passing runs say what holds all the same. `MutualExclusionUntilBroken`
and `ImplementsFairMutex` hold until a release meets a cancelled future, `NobodyWaitsForever` even
after it. `SingleProbe` holds until a stray report or a cancelled probe, `LockComesFree` unless
the root was applied by hand, `Exclusion` where the watchdog and the lateness leave room before
the lease ends, `ImplementsMap` of the in-memory backend up to revived entries. Each guard is a history
variable or a state that names the one defect, so that everything else is still checked.

## Fairness

- `fair_lock`: weak fairness of `Resume` (the event loop runs a scheduled task) and `Release`
  (critical sections end), and strong fairness of the outermost release: a task that re-enters
  again and again still leaves in the end.
- `breaker`: weak fairness of `Attempt`: a backend answers or fails, a backoff ends. No fairness
  of the clock, of new calls or of the operator.
- `quota`: weak fairness of `Hit` (throttles answer; the number of attempts is bounded) and of
  `Exit`: the body of a block ends. This is the documented demand on user code that holds the lock.
- `throttling`: weak fairness of each request's next step, its arrival included (the event loop runs
  a scheduled task, strategies answer or raise, requests keep coming); none of updates and closing.

The other modules are checked for safety only. Deadlock is not checked where all requests
may be done, the clock stops or a bound on calls is reached (`strategy_hits`, `lock_pool`, `quota`,
`inmemory`, `shared_table`, `leases`, `memcached`); `NoStandstill` says for the shared table what
the deadlock check would.

## Proofs

Each of the following holds for all values of the constants that meet the modules' `ASSUME`s.
The type invariant of every module below is proved as well; except for the strategies, whose cells
have more in their ranges, TLC checked it only while the module was written, and the runs spend
their time on the rest. A proof module covers one part of the system, so several locks share one, and
the breaker is with the throttles; their specifications are told apart by the names of their
definitions (`PoolSpec`, `LeaseSpec`, `CircuitSpec`).

**`LockProofs`**, first of the fair lock, for any tasks and any depth: `MutualExclusionUntilBroken`,
`OwnerIsInside`, `TransferHasATaker` and `ImplementsFairMutex`. Exclusion alone is not inductive: a
woken task may take the lock because no other resolved future exists and newcomers are shut out, and
a cancelled task that is no longer queued may pass the lock on because it was the one offered it.
`IInv` adds both facts: the queue holds exactly the unresolved futures (`QueueOK`, and its converse
in `OfferOK`), and an offer is in flight to exactly one task exactly while the flag is set.
`HandOverStep` is the lemma shared by the outermost release and the cancelled next in line.
The refinement needs one fact more, `NobodyLeftBehind`: nobody is queued at a lock that is neither
held nor on offer. With it, whoever takes the lock is first in `Line`, and every other step is a
stutter or an arrival, a departure or a leaving of `FairMutex`.

Then of the named lock pool, for any users, names, locks and sizes: `Accounting`, `OneLockPerName`,
`RefsMatchHandles` and `NameExclusion`. Counting needs that a lock that comes back was not idle
already, and one lock per name needs nothing of the handles, so these two with finiteness are
inductive (`PoolIInv`). `HInv` adds the handles: users of one name share its lock, whoever is inside
owns it, and, while the pool is open, the references of a name are its handles and the dropped ones.
After closing, the counts mean nothing any more, but exclusion still does; hence the guard on one
part only.

Last, of the distributed locks, for any tasks, processes, threshold and profiles: `GatesInStep`,
`GateBoundsRace`, `Exclusion` and `LeaseIsKept`. `GateInv` says that the registry counts the tasks
inside acquire, that a task with a handle has the one gate its process has, and that no more
tasks than the threshold go past it (`CountOK`). `LeaseInv` says that a task
that was granted the lease and may still use it owns it, with at least the time left that its
body, its reply and its requests may take. `LeaseIsKept` is a theorem for redis whatever is late,
and for memcached if nothing is later than the lease allows (`TimelyStore`), which is what the run
checks: its memcached profile is timely.

**`InMemoryBackendProofs`**, for any finite set of keys, any tasks, TTLs, sample sizes and bounds:
`IndexMatchesShard`, `ImplementsMap`, `ReadyMeansServing` and `InnerKeepsOuter`.

- `_index_remove` moves the last key of the list to the place of the one removed. That this keeps the
  index needs the list without repetition, its positions as the inverse, and its keys as those of the
  shard, all three together and after any sequence of inserts and removals: `Indexed`, shown first for
  the pure operators and then for every operation (`Become`).
- An operation on several keys, an eviction or a pass of the cleaner is a fold over a set. The folds
  `RemovedAll` and `InsertedAll` are unfolded by the function that defines them, and `Indexed` is shown
  for them by the least set for which it would fail.
- The refinement goes by steps: what an operation does to `Visible` is what `ExpiringMap` allows. It
  needs the bound that no entry outlives `now + TTL` (`IndexInv`), because an increment keeps the expiry
  it finds, and an eviction or a reap is a stutter or a loss the map allows.
- `LifeInv` says that at most one task closes, that it does so after `ready` went down, and that pools
  and cleaner are there exactly while ready if nobody closes. `raced` excuses one interleaving, an
  initialization while closing waits for the cleaner, which the code does not guard against.
- `StackInv` says of every context but the outermost that it closes only if it was told to, and clears
  only if it was told not to keep the data or, told nothing, is directly inside a context of another
  backend while this one keeps no data. The last case is in the code: in contexts of this backend,
  another and this one again, nested in that order and told nothing, the innermost clears what the
  outermost uses.

**`MemcachedBackendProofs`**, for any clients, keys, shards and either library: `NoCountLost`,
`Tracked` and `ClearSweeps`. What a call has read or been told relates it to the server later, so
`Types` says of every kind of call which places it can be at. `TrackInv` follows a name from the put
of its key to its tracking list; `SweepInv` follows a key a clear owes: in a list it has still to
read, among those it has read and not deleted, or about to be deleted by another clear. A clear
owes a key only if it is stored and named when the clear begins and nobody is still busy with it;
two clears and a writer make that matter, so it takes three clients. The run has two, the theorem
any number.

**`SharedTableProofs`**, for any finite set of keys, any hash, workers, capacity, generations and
thresholds: `SlotsPartitioned`, `ProbesFind`, `NoStandstill` and, for any even number of generations,
`GhostsComeFromFailures`; `OnlyOwnWrites` and the refinement `ImplementsMap` if no generation comes
round. That no slot is lost and none has two
keys must survive a rebuild, which puts every mapped key into an empty table again; it is lost if a
probe ends before it has seen an empty bucket, and found twice if an older place of it is not reached.
So `Kept` says where each key is, that every bucket from its hash to its place is taken, and counts: keys
and tombstones together stay below the capacity, since a rebuild comes in time (`RebuildAt`) and slots are
fewer than buckets (`MaxKeys + RebuildAt <= Capacity`, as the code computes them). Then there is always
an empty bucket, every probe ends, and lookups, inserts, deletions and rebuilds keep `Kept`.
`SemaphoresHeld` says who is in which critical section. `NoStandstill` follows from it: most calls
take the map's semaphore and then the data's, after they gave the first back; deletion and the reaper
keep the data's while they take the map's, and nobody who holds the map's asks for the data's.
`GhostInv` says of every key that its slot has data which nobody is about to wipe, or some call
will write to the slot: it has yet to look for it, has put the key aside to look again, or holds a
reference to the slot as it is now (`Will`). What could break it is a clear that wipes late. It
remembers its slots as free ones, and a generation is odd exactly while a key has the slot (`Turned`):
every allocation and every release adds one, and the generations come round after an even number
of them. So a clear that finds its generation unchanged finds its slot free, or free again.

`OnlyOwnWrites` and `ImplementsMap` are proved too, of every behaviour in which no slot's generation
comes round (`NeverWraps`). The generations have a fixed width: a call that sleeps while its slot is
given away as often as there are generations, 2^32 in the code, takes it for its own, and both
properties fail. Nothing else is assumed of the workers. `OwnInv`, which stands beside `IInv` and
`GhostInv`, says what a call may know of its references while others work:

- the slot of a reference was its key's when the reference was given, and since generations only
  rise, it is its key's still if the generation is the same (`RefHolds`); the slots a clear has yet to
  wipe are free, and of the generation it saw (`FreeRef`);
- a batch that is tried again knows a slot of each of its keys, and those of the keys it does not look
  for again are references as before (`SlotsKnown`): their writes are refused or hit their own key;
- who is about to write has a current reference, or writes to a slot that a clear will wipe (`WriteKept`);
- a free slot with data is one some clear has yet to wipe (`ToWipe`), so a key that gets a slot shows
  nothing before it is written, until a slot is handed out before its clear has wiped it (`reused`).

Then each action shows one change of the map or none. `Seen` says what a reader would find in a given
table with given data; a rebuild, which moves every bucket, leaves it as it was because the entries
stay the same set (`SeenEqual`). An increment keeps the expiry it finds, which the map allows because no
expiry lies further ahead than `TTL` (`Timely`). `revived` excuses one write: an expiry that is given at
a time read before the wait for the semaphore can reach an entry that has expired meanwhile.

**`ThrottlingProofs`**, for any requests, finite sets of throttles and rules, and any configurations:
`RefusalEnds` and `RulesDecide`.

- What charged a request are throttles of the chain up to the place it has reached, and if refusals
  raise, what refused it is the throttle at that place (`Passed`). That no throttle charged it
  that is as dear as the one that refused it, or dearer but later, rests on the chain being sorted by cost
  without repetition, which is what `Chain` computes; it is proved of the sort first.
- Of the rules that were due when a throttle began to check them, or came from the registry meanwhile,
  each holds for the request or is still to be checked. When none is left, all of them hold.

It also has the proofs about the circuit breaker, for any calls, thresholds and retries: `SingleProbe` and
`OpenLetsNobodyThrough`. `CircuitTypeOK /\ SingleProbe` is inductive.

**`QuotaContextProofs`**, for any requests, depths, calls and attempts: `ChargedOnce`,
`NothingLost` and `BlockIsLocked`. A call is charged once because it is queued in one active
context of its own request, and while that context is applied, the entries before the
current one have been hit and the others no more often than applies failed: `HalfHit`. A failed
apply may thus charge some calls again, which `failures` counts. `LocalStep` shows that a step of
one request leaves the others' calls alone, so that each action is looked at for the request that
steps only.

**`StrategyHitsProofs`**, for any rates the constructors accept, any costs, any finite set of
requests and any lock delay: `TypeOK`, `BucketBound`, `WindowBound` and `AlignedWindowBound`, for all strategies
that the properties name. None is inductive. What is, relates the stored cell to the sum of what was admitted:

- `Charged` (buckets), a potential argument: from any time on, what was admitted is paid by what
  the bucket held then and what has flowed in since, less what it holds now. A cell that is forgotten
  stands for a full bucket (an empty level, a past arrival time), hence `NothingToRemember`. With
  requests that waited for the lock the stored time may be ahead of the one that decides, so
  the flow is counted from the earlier time, at most `delay` before the decision.
- `Recalled` (log and priority queue): while the cell is live, every request admitted within the
  period is still in it, and entries are told apart.
- `Tallied` (fixed window): which counter, with which end, each admitted request is in; the counter
  now in force covers all that was admitted since it was started, and the one before ended by then.

Each strategy has one lemma on what a single hit does to its cell; `Decide` combines it with what a
decision does to the sums (`DecideSums`), and `Tick` only lets flow in. Sums over a set of requests are
folds, which the library's induction theorems cannot treat here; `TotalAdd`, `TotalMonotone` and
their like are proved from the definition of the fold by the least set for which they would fail.

`AlignedWindowBound` needs one invariant more. `Kept`, for a lock delay of 0 as the property has it, says
of the current window that

- everything stored for a window outlives it (`Dated`): `2 * period` in whole seconds, at least one,
  never falls short of the period, so the current window's count is not lost and no later window's
  key is there yet;
- that count covers what was admitted in the window, the counter's free instant apart, and so does
  the count a request of the sliding counter was answered, with its own cost on top
  (`CountedByOne`): it is admitted on a count that may be taken back, but only by itself;
- a quota counts just what it admits, and what it may still read of the window before is what that
  window admitted, or nothing, so that what is rolled over is never more than was left
  (`CountedByQuota`);
- no window admitted more than its allowance, including the past ones.

`Tallied` gives the fixed window below a second.

**`StrategyPromiseProofs`**, under the same assumptions: `WaitHonest` and `StatPredictsHit`. Both look
one step ahead from any state: what would a hit find now, or after the wait it was told? Each strategy
has a lemma on either (`LogEnough`, `LogForetold` and so on), about every cell of its type and every
time. Bucket by bucket they are arithmetic: what leaks or flows in by the end of a wait that is rounded up
is at least what was missing (`CeilDivCovers`), and a cell that expires meanwhile counts as empty or
full. For three strategies the cell's type is not enough, and the invariant `Told` supplies the rest:

- A leaky bucket queue was last drained no later than now; or what leaks until then would be
  counted a second time.
- The strategies that count per window have stored nothing for a window later than the present one
  (`NoneLater`), so that the next is empty when the wait is over.
- The sliding counter's count of the present window lives to its end and is not negative (`CountSound`),
  although a refused hit decrements it: what a hit takes back it has added, and it is still there
  (`CountsHeld`), because each window's lock lets one request do so at a time (`OnePerWindow`).

In `WaitHonest` a request is `Affordable` under an hourly limit if every hour's limit covers it: by the
time it comes back it may be a later hour, and later than the last instant TLC looks at.

The guards of `BucketBound` and `WindowBound` were found by proving them, and each stands for something the code
does (rates that show it are easily given, and TLC finds the trace):

- A token bucket is dropped after `2 * period`, whole seconds, and then starts full: a capacity plus
  debt of more than about twice the limit is refilled early. The same holds for the cost-based bucket,
  and GCRA forgets an arrival time that far ahead.
- A leaky bucket's first drop is admitted whatever it costs, `level` above the limit included.
- A fixed window's counter lives for `max(period // 1 s, 2)` seconds. With a period that is longer than
  its TTL, as 2.9 s, three counters fall into one period, and three limits are admitted.
- Below a second, requests that read the clock before a boundary and count after it start windows
  anew by turns, so the bound needs `delay = 0`; so does the cost-based bucket, which gains when
  old and new times alternate.
- `min_refill_rate` of the cost-based bucket is not validated; above 1 it refills faster than the rate,
  and the waits it reports are too short when its cost history expires.
- The log's TTL is truncated to whole seconds (`log_outlives_ttl.cfg`).

Assumptions: a free lock's owner is not a task; sets of tasks, users, requests, costs, keys, throttles,
rules and the batches of keys a call may name are finite; sizes, thresholds and attempts are at least 1,
TTLs are positive; a text value, "for ever" and a missing entry of the in-memory backend are no numbers,
and no entries; generations wrap after an even number of them (2^32). Sizes and thresholds are checked
by the constructors. `max_retries=0` in the failover handler, which reports a failure without
trying, is left out. `ScenariosAssumption` gives rates a positive limit and period (others are
unlimited or refused by `Rate`), requests a positive cost, and each strategy the fields its
constructor takes (`StrategyFields`).

What is only model-checked:

- Liveness, which is out of the prover's reach: `NobodyWaitsForever`, `RecoversByProbes`,
  `ProbeIsDecided`, `LockComesFree`, `Recovers`.
- Of `SharedTable`, `ImplementsMap` and `OnlyOwnWrites` without the hypothesis that no generation comes
  round. They are not true then of all values of the constants, and hold in the run because its calls
  are fewer than its generations.

Some statements are kept beside the runs: `OwnerIsInside`, `TransferHasATaker` and
`OpenLetsNobodyThrough` are proved and in no run; `InOrder` and `CancelledIsFree` of the quota
contexts hold when they are added to `quota.cfg`, and no theorem covers them.

## What could follow

The order in which the modules were written is that of the section above: locks, strategies, failover
and quota contexts first, then the backends, the remote locks, the request's way through throttles
and middleware, then the proofs. Left to do, in order of importance:

1. `OnlyOwnWrites` and `ImplementsMap` of `SharedTable` when generations do come round, but not while
   one call is under way: a history variable would count how often a slot was given away meanwhile.
2. The life of the shared segment: start, fork, close and unlink, with processes that die. The
   code recovers from none of it, so this would state what is lost rather than a promise.
3. `InOrder` for quota contexts, which needs the order of merged queues in the invariant.

## Not modelled, and why

- Encoding, hashing, headers, configuration and rate parsing: pure functions without state. The
  strategies' branches for unreadable stored state are therefore never taken.
- Unlimited rates: the strategies return before they touch any state.
- Floats: amounts are exact; rounding of waits and levels is not considered. Waits are rounded up
  to ticks. The cost-based bucket's inflow is rounded down to 1/(period * `Grain`), and up to at least 1;
  it is exact for the averages that arise in the runs.
- Values that no hit stores: counts below 0 and a stored -1, which stands for "nothing stored" in
  `CustomStrategies`; the code would take them as they are.
- The steps within a hit of the adaptive strategy and of the quota with rollover. Their locks are named
  by the window, so hits of adjacent windows could interleave between the store's calls, and the
  adaptive one writes its limit twice (`strategies/custom.py:547` and `559`). In one window the
  lock makes a hit one step; of what adjacent windows' hits do to each other the properties say nothing.
- The arguments `app` and `initialized` of a backend's context: contexts find the one around them
  in the task, and initialize the backend.
- A second cleaner that is left to itself, when two closes wait for one and the backend is initialized
  between them: it only removes what has expired. It is past the interleaving that `raced` excuses.
- The fallback backend's one-time initialisation; `fallback` and `retry`, which keep no state.
- Wall clock and backend clock advance together; a wall clock that jumps is not modelled.
- Acquire timeouts of the quota lock and cancellation while waiting for it: the request then
  never enters and leaves nothing behind but the handle (`lock_pool_leak`).
- The store's answer to a hit that timed out: a retry charges again if the first was counted. The
  code promises nothing here (`quotas.py:955`).
- Redlock's quorum of servers, which is inside the client library; the lock is a single store whose
  replies may be late. Connecting and reconnecting to servers is I/O.
- The multiprocess backend's byte layout and spin locks on lock bytes, the life of its segment, and
  processes that die: what they held stays held, and nothing in the code recovers it.
- `set_contention_threshold` and `close` of the gate registry; finalizers, `clear` and path patterns
  of the throttle registry; exception handlers of the application.
