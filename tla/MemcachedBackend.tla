-------------------------- MODULE MemcachedBackend --------------------------
(***************************************************************************)
(* The Memcached backends (traffik/backends/memcached): counters built from *)
(* several requests of a server that runs each request atomically and knows *)
(* neither "increment or create" nor "list the keys", so that the backend    *)
(* creates a counter with add and keeps the names of its keys in tracking    *)
(* keys of its own, for clear().                                            *)
(*                                                                         *)
(* One action is one request.  Several clients (tasks or processes) have a    *)
(* call under way each; a call may fail or be cancelled between two requests. *)
(* lib is the client library: aiomcache or emcache, whose expire and clear    *)
(* differ.                                                                  *)
(***************************************************************************)
EXTENDS Integers, FiniteSets

CONSTANTS
  Clients, Keys,
  Shards, ShardOf,   \* tracking shards 1 .. Shards, and the shard of a key
  Libraries,         \* of {"aiomcache", "emcache"}
  TTLs,              \* what a caller asks for
  MaxRelative,       \* the longest expiry the server takes as relative: 30 days
  TrackKeys,         \* track_keys
  Forever, Absent,
  MaxCalls           \* bound: calls made

ASSUME MemcachedAssumption ==
  /\ Shards \in Nat \ {0} /\ ShardOf \in [Keys -> 1 .. Shards]
  /\ Libraries \subseteq {"aiomcache", "emcache"} /\ TrackKeys \in BOOLEAN
  /\ TTLs \subseteq Nat \ {0} /\ Forever \notin Nat /\ Absent \notin Int
  /\ MaxRelative \in Nat /\ MaxCalls \in Nat

VARIABLES
  lib,
  value, left,   \* of each key at the server: what it holds, and for how long yet
  tracking,      \* of each shard, the names in its tracking key; {} is no such key
  call,          \* of each client, the call under way
  at,            \* of each client and key, the next request its call makes there
  calls,         \* how many were made
  counted,       \* history: what increments and decrements made of the key since it was put
  clobbered,     \* history: an expire put back an older value of the key
  raced          \* history: a clear or a failure came between the key and its tracking

vars == <<lib, value, left, tracking, call, at, calls, counted, clobbered, raced>>

Idle == [op |-> "idle"]

Live(k) == value[k] # Absent

\* The requests that bring a key's name to its tracking key.
Tracking == {"append", "name", "append again"}

Clearing(c) == call[c].op = "clear"

Init ==
  /\ lib \in Libraries
  /\ value = [k \in Keys |-> Absent] /\ left = [k \in Keys |-> Forever]
  /\ tracking = [s \in 1 .. Shards |-> {}]
  /\ call = [c \in Clients |-> Idle] /\ at = [c \in Clients |-> [k \in Keys |-> "done"]]
  /\ calls = 0
  /\ counted = [k \in Keys |-> 0]
  /\ clobbered = [k \in Keys |-> FALSE] /\ raced = [k \in Keys |-> FALSE]

----------------------------------------------------------------------------
(* The server's requests. *)

\* An expiry of 0 is none, and one beyond MaxRelative a date, long past.
Lifetime(exptime) ==
  CASE exptime = 0           -> Forever
    [] exptime > MaxRelative -> 0
    [] OTHER                 -> exptime

\* The keys ks vanish.
Vanish(ks) ==
  /\ value' = [k \in Keys |-> IF k \in ks THEN Absent ELSE value[k]]
  /\ counted' = [k \in Keys |-> IF k \in ks THEN 0 ELSE counted[k]]
  /\ clobbered' = [k \in Keys |-> k \notin ks /\ clobbered[k]]
  /\ raced' = [k \in Keys |-> k \notin ks /\ raced[k]]

Remove(ks) ==
  /\ Vanish(ks)
  /\ left' = [k \in Keys |-> IF k \in ks THEN Forever ELSE left[k]]

\* A clear owes nothing to who puts a key while it runs.
Spared(k) ==
  [c \in Clients |-> IF Clearing(c) THEN [call[c] EXCEPT !.owed = @ \ {k}] ELSE call[c]]

\* The key is put, with an older value or not; what has expired already is not there.
Put(k, v, exptime, older) ==
  LET life == Lifetime(exptime)
  IN  IF life = 0
      THEN Remove({k}) /\ UNCHANGED call
      ELSE /\ value' = [value EXCEPT ![k] = v]
           /\ left' = [left EXCEPT ![k] = life]
           /\ counted' = [counted EXCEPT ![k] = IF older THEN @ ELSE v]
           /\ clobbered' = [clobbered EXCEPT ![k] = older /\ (@ \/ v # value[k])]
           /\ call' = Spared(k)
           /\ UNCHANGED raced

Tick ==
  LET due == {k \in Keys : left[k] = 1}
  IN  /\ \E k \in Keys : left[k] # Forever
      /\ Vanish(due)
      /\ left' = [k \in Keys |-> IF left[k] = Forever \/ k \in due THEN Forever ELSE left[k] - 1]
      /\ UNCHANGED <<lib, tracking, call, at, calls>>

----------------------------------------------------------------------------
(* Calls. *)

Begin(c, record, ks, first) ==
  /\ call[c] = Idle /\ calls < MaxCalls
  /\ calls' = calls + 1
  /\ call' = [call EXCEPT ![c] = record]
  /\ at' = [at EXCEPT ![c] = [k \in Keys |-> IF k \in ks THEN first ELSE "done"]]
  /\ UNCHANGED <<lib, value, left, tracking, counted, clobbered, raced>>

\* increment, decrement and increment_with_ttl.
BeginCount(c) ==
  \E k \in Keys, delta \in {1, -1}, exptime \in {0} \cup TTLs :
    /\ delta < 0 => exptime = 0
    /\ Begin(c, [op |-> "count", delta |-> delta, exptime |-> exptime], {k}, "try")

\* set and multi_set, which sends a set per key at a time.
BeginSet(c) ==
  \E ks \in (SUBSET Keys) \ {{}}, exptime \in {0} \cup TTLs :
    Begin(c, [op |-> "set", exptime |-> exptime], ks, "put")

BeginExpire(c) ==
  \E k \in Keys, exptime \in TTLs :
    Begin(c, [op |-> "expire", exptime |-> exptime, seen |-> Absent], {k}, "expire")

BeginDelete(c) == \E k \in Keys : Begin(c, [op |-> "delete"], {k}, "delete")

\* What a clear that begins must have removed when it is over.
Owed == {k \in Keys : /\ Live(k) /\ ~clobbered[k] /\ k \in tracking[ShardOf[k]]
                      /\ \A c \in Clients : at[c][k] \notin Tracking}

\* owed is history.
BeginClear(c) ==
  /\ TrackKeys
  /\ Begin(c, [op |-> "clear", shard |-> 1, todo |-> {}, names |-> FALSE, late |-> {}, owed |-> Owed],
           {}, "done")

Goto(c, k, where) == at' = [at EXCEPT ![c][k] = where]

End(c) ==
  /\ call[c] # Idle /\ \A k \in Keys : at[c][k] = "done"
  /\ Clearing(c) => call[c].shard > Shards
  /\ call' = [call EXCEPT ![c] = Idle]
  /\ UNCHANGED <<lib, value, left, tracking, at, calls, counted, clobbered, raced>>

\* The call fails, or is cancelled: what it has not done stays undone.
Abandon(c) ==
  /\ call[c] # Idle
  /\ call' = [call EXCEPT ![c] = Idle]
  /\ at' = [at EXCEPT ![c] = [k \in Keys |-> "done"]]
  /\ raced' = [k \in Keys |-> raced[k] \/ at[c][k] \in Tracking \/ (Clearing(c) /\ k \in call[c].todo)]
  /\ UNCHANGED <<lib, value, left, tracking, calls, counted, clobbered>>

----------------------------------------------------------------------------
(* Counting. *)

\* Memcached counts from 0 up only; what is below was stored as text.
Counts(k) == Live(k) /\ value[k] >= 0
Plus(n, delta) == IF n + delta < 0 THEN 0 ELSE n + delta

\* incr or decr, tried before add and again after it found the key.  A key gone
\* by then is answered with None; text is an error, which emcache hides once.
Count(c, k) ==
  /\ at[c][k] \in {"try", "again"}
  /\ IF Counts(k)
     THEN /\ value' = [value EXCEPT ![k] = Plus(@, call[c].delta)]
          /\ counted' = [counted EXCEPT ![k] = Plus(@, call[c].delta)]
          /\ Goto(c, k, "done")
     ELSE /\ Goto(c, k, IF at[c][k] = "try" /\ (~Live(k) \/ lib = "emcache") THEN "create" ELSE "done")
          /\ UNCHANGED <<value, counted>>
  /\ UNCHANGED <<lib, left, tracking, call, calls, clobbered, raced>>

Stored == IF TrackKeys THEN "append" ELSE "done"

CreateOverwriting(c, k) ==
  /\ at[c][k] = "create"
  /\ value' = [value EXCEPT ![k] = call[c].delta]
  /\ left' = [left EXCEPT ![k] = Lifetime(call[c].exptime)]
  /\ counted' = [counted EXCEPT ![k] = @ + call[c].delta]
  /\ Goto(c, k, Stored)
  /\ UNCHANGED <<lib, tracking, call, calls, clobbered, raced>>

\* add, which stores only where nothing is.
Create(c, k) ==
  /\ at[c][k] = "create"
  /\ IF Live(k)
     THEN /\ Goto(c, k, "again")
          /\ UNCHANGED <<value, left, call, counted, clobbered, raced>>
     ELSE /\ Put(k, call[c].delta, call[c].exptime, FALSE)
          /\ Goto(c, k, Stored)
  /\ UNCHANGED <<lib, tracking, calls>>

----------------------------------------------------------------------------
(* The other operations. *)

Store(c, k) ==
  /\ at[c][k] = "put"
  /\ Put(k, 0, call[c].exptime, FALSE)
  /\ Goto(c, k, Stored)
  /\ UNCHANGED <<lib, tracking, calls>>

Delete(c, k) ==
  /\ at[c][k] = "delete"
  /\ Remove({k})
  /\ Goto(c, k, "done")
  /\ UNCHANGED <<lib, tracking, call, calls>>

\* emcache has touch ...
Touch(c, k) ==
  /\ at[c][k] = "expire" /\ lib = "emcache"
  /\ IF Live(k) /\ Lifetime(call[c].exptime) # 0
     THEN left' = [left EXCEPT ![k] = call[c].exptime] /\ UNCHANGED <<value, counted, clobbered, raced>>
     ELSE Remove({k})
  /\ Goto(c, k, "done")
  /\ UNCHANGED <<lib, tracking, call, calls>>

\* ... aiomcache reads the value ...
ReadToExpire(c, k) ==
  /\ at[c][k] = "expire" /\ lib = "aiomcache"
  /\ call' = [call EXCEPT ![c].seen = value[k]]
  /\ Goto(c, k, IF Live(k) THEN "rewrite" ELSE "done")
  /\ UNCHANGED <<lib, value, left, tracking, calls, counted, clobbered, raced>>

\* ... and stores what it read.
Rewrite(c, k) ==
  /\ at[c][k] = "rewrite"
  /\ Put(k, call[c].seen, call[c].exptime, TRUE)
  /\ Goto(c, k, "done")
  /\ UNCHANGED <<lib, tracking, calls>>

----------------------------------------------------------------------------
(* Tracking. *)

AfterGivingUp(step) == IF step = "append" THEN "name" ELSE "done"

After(step) == CASE step = "append" -> "name" [] step = "name" -> "append again" [] OTHER -> "done"

\* append to the tracking key; without one add it; who loses that race appends.
\* late is history: the names that came since the clear read its shard.
Track(c, k) ==
  LET s     == ShardOf[k]
      named == (tracking[s] = {}) = (at[c][k] = "name")
  IN  /\ at[c][k] \in Tracking
      /\ Goto(c, k, IF named THEN "done" ELSE After(at[c][k]))
      /\ tracking' = IF named THEN [tracking EXCEPT ![s] = @ \cup {k}] ELSE tracking
      /\ call' = [d \in Clients |-> IF named /\ Clearing(d) THEN [call[d] EXCEPT !.late = @ \cup {k}] ELSE call[d]]
      /\ raced' = [raced EXCEPT ![k] = @ \/ (~named /\ at[c][k] = "append again")]
      /\ UNCHANGED <<lib, value, left, calls, counted, clobbered>>

----------------------------------------------------------------------------
(* clear(): shard by shard. *)

SkipAll(clear) == [clear EXCEPT !.shard = Shards + 1]

\* A shard without tracking key has nothing to clear.
Skip(clear) == [clear EXCEPT !.shard = @ + 1]

\* The call goes on with what it still has to delete, or else with the next shard.
GoOn(c, todo, names) ==
  [call[c] EXCEPT !.todo = todo, !.names = names,
                  !.shard = IF todo # {} \/ names THEN @ ELSE @ + 1]

ReadNames(c) ==
  LET names == tracking[call[c].shard]
  IN  /\ Clearing(c) /\ call[c].shard <= Shards /\ call[c].todo = {} /\ ~call[c].names
      /\ call' = [call EXCEPT ![c] =
                    IF names = {} THEN Skip(@)
                    ELSE [@ EXCEPT !.todo = names, !.names = TRUE, !.late = {}]]
      /\ UNCHANGED <<lib, value, left, tracking, at, calls, counted, clobbered, raced>>

\* The deletions are sent at once, and arrive in any order.
DeleteNamed(c) ==
  \E k \in IF Clearing(c) THEN call[c].todo ELSE {} :
    /\ Remove({k})
    /\ call' = [call EXCEPT ![c] = GoOn(c, @.todo \ {k}, @.names)]
    /\ UNCHANGED <<lib, tracking, at, calls>>

\* aiomcache deletes the shard's tracking key; emcache a key that never exists.
DeleteNames(c) ==
  /\ Clearing(c) /\ call[c].names
  /\ IF lib = "aiomcache"
     THEN /\ tracking' = [tracking EXCEPT ![call[c].shard] = {}]
          /\ raced' = [k \in Keys |-> raced[k] \/ (Live(k) /\ k \in call[c].late)]
     ELSE UNCHANGED <<tracking, raced>>
  /\ call' = [call EXCEPT ![c] = GoOn(c, @.todo, FALSE)]
  /\ UNCHANGED <<lib, value, left, at, calls, counted, clobbered>>

Step(c) ==
  \/ BeginCount(c) \/ BeginSet(c) \/ BeginExpire(c) \/ BeginDelete(c) \/ BeginClear(c)
  \/ End(c) \/ Abandon(c)
  \/ \E k \in Keys :
       \/ Count(c, k) \/ Create(c, k) \/ Store(c, k) \/ Delete(c, k)
       \/ Touch(c, k) \/ ReadToExpire(c, k) \/ Rewrite(c, k) \/ Track(c, k)
  \/ ReadNames(c) \/ DeleteNamed(c) \/ DeleteNames(c)

Next == Tick \/ \E c \in Clients : Step(c)

Spec == Init /\ [][Next]_vars

----------------------------------------------------------------------------
(* Properties. *)

\* Every variable has its type.
TypeOK ==
  /\ lib \in Libraries
  /\ value \in [Keys -> Int \cup {Absent}] /\ left \in [Keys -> Nat \cup {Forever}]
  /\ \A k \in Keys : ~Live(k) => left[k] = Forever
  /\ tracking \in [1 .. Shards -> SUBSET Keys]
  /\ \A s \in 1 .. Shards : \A k \in tracking[s] : ShardOf[k] = s
  /\ at \in [Clients -> [Keys -> {"done", "try", "create", "again", "put", "delete", "expire", "rewrite"} \cup Tracking]]
  /\ \A c \in Clients : Clearing(c) => call[c].shard \in 1 .. Shards + 1

(* No count is lost: whatever race the increments of several clients run with
   each other, with deletions and with expiry, a counter holds what they made of
   it since it was put, unless an expire of aiomcache stored back what it had
   read before. *)
NoCountLost == \A k \in Keys : Live(k) /\ ~clobbered[k] => value[k] = counted[k]

(* Every key at the server can be cleared: its name is in the tracking key, or
   somebody is about to put it there or to delete the key, unless a clear or a
   failure fell between the key and its name. *)
Tracked ==
  TrackKeys => \A k \in Keys :
    \/ ~Live(k) \/ raced[k] \/ clobbered[k]
    \/ k \in tracking[ShardOf[k]]
    \/ \E c \in Clients : at[c][k] \in Tracking \/ (Clearing(c) /\ k \in call[c].todo)

(* A clear leaves no key behind in the shards it has done, of those that were
   put and named by anybody before it began and that nobody put since: unless
   another clear, which it ran into, is about to delete the key. *)
ClearSweeps ==
  \A c \in Clients :
    Clearing(c) => \A k \in call[c].owed :
      \/ ShardOf[k] >= call[c].shard \/ ~Live(k) \/ raced[k]
      \/ \E d \in Clients \ {c} : Clearing(d) /\ k \in call[d].todo
=============================================================================
