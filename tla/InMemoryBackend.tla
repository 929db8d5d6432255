-------------------------- MODULE InMemoryBackend --------------------------
(***************************************************************************)
(* InMemoryBackend (traffik/backends/inmemory.py), used through the backend *)
(* contexts of traffik/backends/base.py: a dictionary of entries, the index *)
(* from which the cleaner draws its samples, the cleaner, and the life cycle *)
(* of the backend, which tasks open and close by nesting contexts.           *)
(*                                                                         *)
(* Nothing suspends inside an operation on the data - the shard locks are    *)
(* never contended - so each is one step, whatever the shards its keys are   *)
(* in, and the shards are one here.  Closing does suspend, for the cleaner.  *)
(***************************************************************************)
EXTENDS Integers, Sequences, FiniteSets, FiniteSetsExt, SequencesExt

CONSTANTS
  Tasks,
  Keys,
  SampleSize,      \* cleanup_sample_size
  Persistent,      \* whether contexts keep the data unless told otherwise
  Arguments,       \* what contexts of this backend are told when they are made
  TTL,
  Amounts,         \* what one call adds to a counter
  Counts,          \* bound: the values counters take
  MaxTime,         \* bound: ticks
  MaxDepth,        \* bound: contexts a task nests
  Text, Gone, Forever, None

\* A context is told nothing.
Default == [persistent |-> None, close_on_exit |-> None]

ASSUME BackendAssumption ==
  /\ SampleSize \in Nat \ {0} /\ TTL \in Nat \ {0} /\ Persistent \in BOOLEAN
  /\ Counts \subseteq Int /\ Amounts \subseteq Int /\ MaxTime \in Nat /\ MaxDepth \in Nat \ {0}
  /\ IsFiniteSet(Keys) /\ Text \notin Int /\ Forever \notin Int
  /\ Gone \notin [value : Int \cup {Text}, exp : Int \cup {Forever}]

ASSUME ArgumentsAssumption ==
  /\ None \notin BOOLEAN /\ Default \in Arguments
  /\ Arguments \subseteq [persistent : BOOLEAN \cup {None}, close_on_exit : BOOLEAN \cup {None}]

VARIABLES
  shard,       \* the entry of each key
  keyList,     \* the keys, in the order samples are drawn from
  positions,   \* where in keyList a key is; 0: nowhere
  ready,       \* _initialized
  pools,       \* whether there are lock pools
  cleaner,     \* _cleanup_task: none, one that sleeps or works, or one that ended
  stack,       \* the contexts each task is in, the innermost last
  closing,     \* what each task's close() waits for
  now,
  raced,       \* history: initialized while a close was under way
  revived      \* history: an entry that had expired was given a new expiry

dataVars == <<shard, keyList, positions, revived>>

lifeVars == <<ready, pools, cleaner, stack, closing, raced>>

vars == <<dataVars, lifeVars, now>>

Entry(v, exp) == [value |-> v, exp |-> exp]

Lives(entry, at) == entry.exp = Forever \/ entry.exp > at

\* What a reader finds for a key.
Visible(k) == IF shard[k] # Gone /\ Lives(shard[k], now) THEN shard[k] ELSE Gone

Init ==
  /\ shard = [k \in Keys |-> Gone] /\ keyList = <<>> /\ positions = [k \in Keys |-> 0]
  /\ ready = FALSE /\ pools = FALSE /\ cleaner = "none"
  /\ stack = [t \in Tasks |-> <<>>] /\ closing = [t \in Tasks |-> "no"]
  /\ now = 0 /\ raced = FALSE /\ revived = FALSE

Tick ==
  /\ now < MaxTime
  /\ now' = now + 1
  /\ UNCHANGED <<dataVars, lifeVars>>

----------------------------------------------------------------------------
(* The shard and its index.  d is both together. *)

Data == [shard |-> shard, list |-> keyList, pos |-> positions]

Become(d) == shard' = d.shard /\ keyList' = d.list /\ positions' = d.pos

Inserted(d, k, entry) ==
  IF d.shard[k] # Gone
  THEN [d EXCEPT !.shard[k] = entry]
  ELSE [d EXCEPT !.shard[k] = entry, !.pos[k] = Len(d.list) + 1, !.list = Append(@, k)]

RemovedUnmoved(d, k) ==
  [d EXCEPT !.shard[k] = Gone, !.pos[k] = 0,
            !.list = SubSeq([d.list EXCEPT ![d.pos[k]] = Last(d.list)], 1, Len(d.list) - 1)]

\* The last key of the list takes the place of the one that goes.
Removed(d, k) ==
  LET moved == Last(d.list)
  IN  [d EXCEPT !.shard[k] = Gone,
                !.list = Front([@ EXCEPT ![d.pos[k]] = moved]),
                !.pos  = [@ EXCEPT ![moved] = d.pos[k], ![k] = 0]]

RemovedAll(d, K) == FoldLeft(Removed, d, SetToSeq(K))

InsertedAll(d, K, entry) == FoldLeft(LAMBDA e, k : Inserted(e, k, entry), d, SetToSeq(K))

Expired(K) == {k \in K : shard[k] # Gone /\ ~Lives(shard[k], now)}

----------------------------------------------------------------------------
(* The operations of the backend. *)

Use == ready /\ UNCHANGED <<lifeVars, now>>

\* get and multi_get evict what they find expired.
Get(K) ==
  /\ Use /\ Expired(K) # {}
  /\ Become(RemovedAll(Data, Expired(K)))
  /\ UNCHANGED revived

\* set and multi_set.
Set(K, exp) ==
  /\ Use
  /\ Become(InsertedAll(Data, K, Entry(Text, exp)))
  /\ UNCHANGED revived

Delete(k) ==
  /\ Use /\ shard[k] # Gone
  /\ Become(Removed(Data, k))
  /\ UNCHANGED revived

\* increment and decrement.
Increment(k, amount) ==
  LET old == Visible(k)
  IN  /\ Use
      /\ Become(Inserted(Data, k,
           IF old = Gone THEN Entry(amount, Forever)
           ELSE Entry(IF old.value = Text THEN amount ELSE old.value + amount, old.exp)))
      /\ UNCHANGED revived

IncrementProlonging(k, amount) ==
  LET old == Visible(k)
      new == Entry(amount, now + TTL)
  IN  /\ Use
      /\ Become(Inserted(Data, k,
           IF old = Gone \/ old.value = Text THEN new ELSE Entry(old.value + amount, new.exp)))
      /\ UNCHANGED revived

IncrementWithTTL(k, amount) ==
  LET old == Visible(k)
      new == Entry(amount, now + TTL)
  IN  /\ Use
      /\ Become(Inserted(Data, k,
           IF old = Gone \/ old.value = Text THEN new
           ELSE Entry(old.value + amount, IF old.exp = Forever THEN new.exp ELSE old.exp)))
      /\ UNCHANGED revived

\* Whether the entry has expired is not looked at.
Expire(k) ==
  /\ Use /\ shard[k] # Gone
  /\ Become(Inserted(Data, k, Entry(shard[k].value, now + TTL)))
  /\ revived' = (revived \/ Visible(k) = Gone)

Cleared == [shard |-> [k \in Keys |-> Gone], list |-> <<>>, pos |-> [k \in Keys |-> 0]]

Clear == Use /\ keyList # <<>> /\ Become(Cleared) /\ UNCHANGED revived

Operation ==
  \/ Clear
  \/ \E K \in (SUBSET Keys) \ {{}} : Get(K) \/ \E exp \in {Forever, now + TTL} : Set(K, exp)
  \/ \E k \in Keys :
       \/ Delete(k) \/ Expire(k)
       \/ \E amount \in Amounts : Increment(k, amount) \/ IncrementWithTTL(k, amount)

(* The cleaner wakes, takes samples - several rounds while they are worth it,
   so that all together they are at least one sample - and sleeps again, unless
   the backend was closed. *)
CleanerWakes ==
  /\ cleaner = "asleep"
  /\ \E K \in SUBSET ToSet(keyList) :
       /\ Cardinality(K) >= Min({SampleSize, Len(keyList)})
       /\ Become(RemovedAll(Data, Expired(K)))
  /\ cleaner' = IF ready THEN "asleep" ELSE "ended"
  /\ closing' = IF ready THEN closing
                ELSE [t \in Tasks |-> IF closing[t] = "cleaner" THEN "done" ELSE closing[t]]
  /\ UNCHANGED <<ready, pools, stack, now, raced, revived>>

----------------------------------------------------------------------------
(* Contexts.  A task may nest contexts of this backend and of another one.  What
   a context was told goes before what the one around it makes of it. *)

NoContext == [backend |-> "none"]

Innermost(s) == IF s = <<>> THEN NoContext ELSE Last(s)

Context(s, b, asked) ==
  [backend |-> b,
   asked   |-> asked,
   keeps   |-> IF asked.persistent # None THEN asked.persistent
               ELSE IF Innermost(s).backend = b THEN TRUE ELSE Persistent,
   closes  |-> IF asked.close_on_exit # None THEN asked.close_on_exit ELSE s = <<>>]

\* A cleaner that ended stays the backend's until the close that waited for it
\* goes on; no other is made as long as there is one.
Initialize ==
  IF ready THEN UNCHANGED <<ready, pools, cleaner, raced>>
  ELSE /\ ready' = TRUE /\ pools' = TRUE
       /\ cleaner' = IF cleaner = "none" THEN "asleep" ELSE cleaner
       /\ raced' = (raced \/ \E t \in Tasks : closing[t] # "no")

Enter(t, b, asked) ==
  /\ closing[t] = "no" /\ Len(stack[t]) < MaxDepth
  /\ stack' = [stack EXCEPT ![t] = Append(@, Context(@, b, asked))]
  /\ IF b = "this" THEN Initialize ELSE UNCHANGED <<ready, pools, cleaner, raced>>
  /\ UNCHANGED <<dataVars, closing, now>>

\* close(): nobody waits for a cleaner that is not there or has ended.
Close(t) ==
  /\ ready' = FALSE
  /\ closing' = [closing EXCEPT ![t] = IF cleaner = "asleep" THEN "cleaner" ELSE "no"]
  /\ pools' = (cleaner = "asleep" /\ pools)

ExitClearing(t) ==
  LET c == Last(stack[t])
  IN  /\ closing[t] = "no" /\ stack[t] # <<>>
      /\ stack' = [stack EXCEPT ![t] = Front(@)]
      /\ IF c.backend = "this" /\ ready /\ ~Persistent
         THEN Become(Cleared) ELSE UNCHANGED <<shard, keyList, positions>>
      /\ IF c.backend = "this" /\ ready /\ c.closes
         THEN Close(t) ELSE UNCHANGED <<ready, closing, pools>>
      /\ UNCHANGED <<cleaner, now, raced, revived>>

Exit(t) ==
  LET c == Last(stack[t])
  IN  /\ closing[t] = "no" /\ stack[t] # <<>>
      /\ stack' = [stack EXCEPT ![t] = Front(@)]
      /\ IF c.backend = "this" /\ ready /\ ~c.keeps
         THEN Become(Cleared) ELSE UNCHANGED <<shard, keyList, positions>>
      /\ IF c.backend = "this" /\ ready /\ c.closes
         THEN Close(t) ELSE UNCHANGED <<ready, closing, pools>>
      /\ UNCHANGED <<cleaner, now, raced, revived>>

CloseEndsKeepingPools(t) ==
  /\ closing[t] = "done"
  /\ cleaner' = "none"
  /\ closing' = [closing EXCEPT ![t] = "no"]
  /\ UNCHANGED <<dataVars, ready, pools, stack, now, raced>>

\* The cleaner ended by itself.
CloseEnds(t) ==
  /\ closing[t] = "done"
  /\ cleaner' = "none" /\ pools' = FALSE
  /\ closing' = [closing EXCEPT ![t] = "no"]
  /\ UNCHANGED <<dataVars, ready, stack, now, raced>>

\* The cleaner slept on for a second and is cancelled; whoever else waits for it
\* is cancelled too.
CloseTimesOut(t) ==
  /\ closing[t] = "cleaner" /\ cleaner = "asleep"
  /\ cleaner' = "none" /\ pools' = FALSE
  /\ closing' = [u \in Tasks |-> IF closing[u] = "cleaner" THEN "no" ELSE closing[u]]
  /\ UNCHANGED <<dataVars, ready, stack, now, raced>>

LifeCycle(t) ==
  \/ \E asked \in Arguments : Enter(t, "this", asked)
  \/ Enter(t, "other", Default)
  \/ Exit(t) \/ CloseEnds(t) \/ CloseTimesOut(t)

Next == Tick \/ Operation \/ CleanerWakes \/ \E t \in Tasks : LifeCycle(t)

Bounded == \A k \in Keys : shard'[k] # Gone => shard'[k].value \in Counts \cup {Text}

Spec == Init /\ [][Next /\ Bounded]_vars

----------------------------------------------------------------------------
(* Properties. *)

\* Every variable has its type.
TypeOK ==
  /\ shard \in [Keys -> [value : Counts \cup {Text}, exp : Nat \cup {Forever}] \cup {Gone}]
  /\ keyList \in Seq(Keys) /\ positions \in [Keys -> Nat]
  /\ ready \in BOOLEAN /\ pools \in BOOLEAN /\ cleaner \in {"none", "asleep", "ended"}
  /\ stack \in [Tasks -> Seq([backend : {"this", "other"}, asked : Arguments,
                              keeps : BOOLEAN, closes : BOOLEAN])]
  /\ closing \in [Tasks -> {"no", "cleaner", "done"}]
  /\ now \in Nat /\ raced \in BOOLEAN /\ revived \in BOOLEAN

(* The cleaner's index holds exactly the keys of the shard, each at the position
   recorded for it, whatever was inserted, evicted, reaped or cleared: a key that
   is missing is never reaped, one that is recorded at the wrong place takes
   another with it when it goes (_index_insert, _index_remove). *)
IndexMatchesShard ==
  /\ \A k \in Keys :
       IF shard[k] = Gone THEN positions[k] = 0
       ELSE positions[k] \in DOMAIN keyList /\ keyList[positions[k]] = k
  /\ \A i \in DOMAIN keyList : positions[keyList[i]] = i

Map == INSTANCE ExpiringMap
  WITH map <- [k \in Keys |-> Visible(k)], MaxTTL <- TTL

(* The backend implements the map it promises - what has expired is gone, no
   increment prolongs a counter - until an entry that had expired is revived. *)
ImplementsMap ==
  /\ Map!Init
  /\ [][UNCHANGED <<shard, now>> \/ revived' \/ Map!Next]_Map!mapVars

(* A backend that is ready has its lock pools and its cleaner, and one that is
   closed has neither, unless it was initialized while it was being closed. *)
ReadyMeansServing ==
  \/ raced
  \/ \E t \in Tasks : closing[t] # "no"
  \/ pools = ready /\ cleaner = (IF ready THEN "asleep" ELSE "none")

(* Leaving an inner context closes what the outer ones use only if it was told to
   close, and clears their data only if it was told not to keep it or, told
   nothing, comes directly inside a context of another backend while this one
   keeps no data (base.py: "the inner context does not clear the outer context's
   data unintentionally", "except if nested within another context"). *)
InnerKeepsOuter ==
  [][\A t \in Tasks :
       Len(stack'[t]) < Len(stack[t]) /\ stack'[t] # <<>> =>
         LET inner == Last(stack[t])
             outer == Last(stack'[t])
         IN  /\ ready' # ready => inner.backend = "this" /\ inner.asked.close_on_exit = TRUE
             /\ shard' # shard =>
                  /\ inner.backend = "this"
                  /\ \/ inner.asked.persistent = FALSE
                     \/ /\ inner.asked.persistent = None
                        /\ outer.backend # "this" /\ ~Persistent]_vars
=============================================================================
