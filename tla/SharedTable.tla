---------------------------- MODULE SharedTable ----------------------------
(***************************************************************************)
(* One shard of MultiProcessInMemoryBackend (traffik/backends/multiprocess *)
(* .py): a hash table with linear probing and tombstones that maps keys to *)
(* slots, a stack of free slots, a generation per slot, and the slots' data. *)
(* The first semaphore guards the map, the second the data.  Most calls     *)
(* take the one and, after they gave it back, the other, and notice by the   *)
(* generation that their slot changed hands; a delete and the cleaner hold   *)
(* both, the second first.                                                   *)
(*                                                                         *)
(* A worker is a thread of the executor of any process.  What it does under *)
(* the map's semaphore is one step; what it does under the other one is one *)
(* step per check and per access, as the generations change under the map's *)
(* semaphore only.  All stored text is alike, and numbers count by one.     *)
(***************************************************************************)
EXTENDS Integers, Sequences, FiniteSets, FiniteSetsExt, SequencesExt

CONSTANTS
  Workers,
  Keys, Owned,     \* the keys, and those in the namespace of the backend
  Hash,            \* the bucket a key is first looked for in
  Capacity,        \* buckets
  MaxKeys,         \* slots
  RebuildAt,       \* deletions after which the table is rebuilt
  MaxTries,        \* max_aba_retries
  Generations,     \* 2^32 in the code
  TTL,             \* what every call that gives one gives
  Empty, Tombstone, Nobody, Text, Gone, Forever,
  Ops,             \* the operations in use
  Batches,         \* the sets of keys that are read or written at once
  MaxCalls,        \* bound: calls of all workers together
  MaxTime          \* bound: ticks

ASSUME TableAssumption ==
  /\ Owned \subseteq Keys /\ Batches \subseteq (SUBSET Keys) \ {{}} /\ \A K \in Batches : IsFiniteSet(K)
  /\ {Empty, Tombstone} \cap Keys = {} /\ Empty # Tombstone
  /\ Capacity \in Nat \ {0} /\ MaxKeys \in Nat \ {0} /\ RebuildAt \in Nat \ {0}
  /\ MaxKeys + RebuildAt <= Capacity
  /\ Hash \in [Keys -> 0 .. Capacity - 1]
  /\ MaxTries \in Nat \ {0} /\ Generations \in Nat \ {0} /\ TTL \in Nat
  /\ MaxCalls \in Nat /\ MaxTime \in Nat /\ Nobody \notin Workers

\* The generations wrap after an even number of them.
ASSUME GenerationsAssumption == Generations % 2 = 0

ASSUME ValuesAssumption ==
  /\ Text \notin Int /\ Forever \notin Int
  /\ Gone \notin [value : Int \cup {Text}, exp : Int \cup {Forever}]

VARIABLES
  map,       \* what the map's semaphore guards: table, deleted, free, gen
  data,      \* what the other one guards: of each slot occupied, value and exp
  mapSem, slotSem,   \* who holds a semaphore
  calls,     \* what each worker is doing
  now,
  issued,    \* calls begun
  failed,    \* history: a call failed after it had a slot assigned
  reused,    \* history: a slot that a clear had freed was allocated before the
             \* clear got to wipe it
  revived    \* history: an expiry was given to an entry that had just expired

vars == <<map, data, mapSem, slotSem, calls, now, issued, failed, reused, revived>>

Slots == 1 .. MaxKeys

Buckets == 0 .. Capacity - 1

Bucket(k, s) == [key |-> k, slot |-> s]

EmptyBucket == Bucket(Empty, 0)

----------------------------------------------------------------------------
(* The hash table. *)

Probe(k, i) == (Hash[k] + i) % Capacity

\* The first bucket on the way to a key that holds one of these.
First(t, k, held) ==
  Probe(k, CHOOSE i \in Buckets : /\ t[Probe(k, i)].key \in held
                                  /\ \A j \in 0 .. i - 1 : t[Probe(k, j)].key \notin held)

Has(t, k) == t[First(t, k, {k, Empty})].key = k

Lookup(t, k) ==
  IF Has(t, k) THEN First(t, k, {k, Empty}) ELSE First(t, k, {Tombstone, Empty})

SlotOf(t, k) == t[Lookup(t, k)].slot

Upsert(t, k, s) == [t EXCEPT ![Lookup(t, k)] = Bucket(k, s)]

EmptyTable == [b \in Buckets |-> EmptyBucket]

\* The buckets in the order in which the table is read.
BucketList == [i \in 1 .. Capacity |-> i - 1]

Rebuilt(t) ==
  FoldLeft(LAMBDA new, b : IF t[b].key \in Keys THEN Upsert(new, t[b].key, t[b].slot) ELSE new,
           EmptyTable, BucketList)

DeletedEmpty(m, k) ==
  [m EXCEPT !.table[Lookup(m.table, k)] = EmptyBucket, !.deleted = @ + 1]

Deleted(m, k) ==
  LET t == [m.table EXCEPT ![Lookup(m.table, k)].key = Tombstone]
  IN  IF m.deleted + 1 >= RebuildAt
      THEN [m EXCEPT !.table = Rebuilt(t), !.deleted = 0]
      ELSE [m EXCEPT !.table = t, !.deleted = @ + 1]

----------------------------------------------------------------------------
(* The free stack.  The generation of a slot changes when it is taken and when
   it is given back. *)

Bumped(gen, s) == [gen EXCEPT ![s] = (@ + 1) % Generations]

Allocated(m, k) ==
  [m EXCEPT !.free  = Front(@), !.gen = Bumped(@, Last(m.free)),
            !.table = Upsert(@, k, Last(m.free))]

FreedUnbumped(m, k) == [Deleted(m, k) EXCEPT !.free = Append(@, SlotOf(m.table, k))]

Freed(m, k) ==
  LET s == SlotOf(m.table, k)
  IN  [Deleted(m, k) EXCEPT !.free = Append(@, s), !.gen = Bumped(@, s)]

\* The slot of a key with its generation, as a call remembers it.
Ref(m, k) == [key |-> k, slot |-> SlotOf(m.table, k), gen |-> m.gen[SlotOf(m.table, k)]]

----------------------------------------------------------------------------
(* A call: the keys it has to find, the time it read at first, the expiry it
   gives, the slots it has assigned to all its keys, references to those it has
   not been at in this attempt, the keys whose slots had changed hands, and how
   often it may still try. *)

Idle == [pc |-> "idle"]

Begun(pc, op, ks, at, exp) ==
  [pc |-> pc, op |-> op, keys |-> ks, at |-> at, exp |-> exp,
   refs |-> <<>>, slots |-> <<>>, again |-> <<>>, tries |-> MaxTries]

NoData == [occupied |-> FALSE, value |-> 0, exp |-> Forever]

Lives(exp, at) == exp = Forever \/ exp > at

Alive(s, at) == data[s].occupied /\ Lives(data[s].exp, at)

At(w, pc) == calls[w].pc = pc

MapFirst == {"get", "set", "increment", "expire", "clear"}

Init ==
  /\ map = [table |-> EmptyTable, deleted |-> 0,
            free |-> [i \in Slots |-> MaxKeys + 1 - i], gen |-> [s \in Slots |-> 0]]
  /\ data = [s \in Slots |-> NoData]
  /\ mapSem = Nobody /\ slotSem = Nobody
  /\ calls = [w \in Workers |-> Idle]
  /\ now = 0 /\ issued = 0
  /\ failed = FALSE /\ reused = FALSE /\ revived = FALSE

Tick ==
  /\ now < MaxTime
  /\ now' = now + 1
  /\ UNCHANGED <<map, data, mapSem, slotSem, calls, issued, failed, reused, revived>>

(* A call that starts under the map's semaphore.  It read the time before it
   waited for the semaphore.  Reads and writes take several keys at once. *)
Begin(w) ==
  /\ At(w, "idle") /\ mapSem = Nobody /\ issued < MaxCalls
  /\ mapSem' = w /\ issued' = issued + 1
  /\ \E op \in Ops \cap MapFirst, at \in 0 .. now, timed \in BOOLEAN :
       LET Call(ks) == Begun("map", op, ks, at, IF timed THEN at + TTL ELSE Forever)
       IN  \/ /\ op = "get" /\ ~timed
              /\ \E K \in Batches : calls' = [calls EXCEPT ![w] = Call(SetToSeq(K))]
           \/ /\ op = "set"
              /\ \E K \in Batches : calls' = [calls EXCEPT ![w] = Call(SetToSeq(K))]
           \/ /\ op = "increment" \/ (op = "expire" /\ timed)
              /\ \E k \in Keys : calls' = [calls EXCEPT ![w] = Call(<<k>>)]
           \/ /\ op = "clear" /\ ~timed
              /\ calls' = [calls EXCEPT ![w] = Call(<<>>)]
  /\ UNCHANGED <<map, data, slotSem, now, failed, reused, revived>>

\* A call that tries again.
EnterMap(w) ==
  /\ At(w, "start") /\ calls[w].op \in MapFirst /\ mapSem = Nobody
  /\ mapSem' = w
  /\ calls' = [calls EXCEPT ![w].pc = "map"]
  /\ UNCHANGED <<map, data, slotSem, now, issued, failed, reused, revived>>

(* The part of a call under the map's semaphore. *)

LeaveMapHeld(w, refs) ==
  /\ mapSem' = IF refs = <<>> THEN w ELSE Nobody
  /\ calls' = [calls EXCEPT ![w] =
                 IF refs = <<>> THEN Idle ELSE [@ EXCEPT !.pc = "gap", !.refs = refs, !.slots = refs]]
  /\ UNCHANGED <<data, slotSem, now, issued>>

\* Leaves the map's semaphore, with nothing more to do if no slot was found.
LeaveMap(w, refs) ==
  /\ mapSem' = Nobody
  /\ calls' = [calls EXCEPT ![w] =
                 IF refs = <<>> THEN Idle ELSE [@ EXCEPT !.pc = "gap", !.refs = refs, !.slots = refs]]
  /\ UNCHANGED <<data, slotSem, now, issued>>

\* Those of the keys that the table has.
Found(t, ks) == FoldLeft(LAMBDA found, k : IF Has(t, k) THEN Append(found, k) ELSE found, <<>>, ks)

Find(w) ==
  /\ At(w, "map") /\ calls[w].op \in {"get", "expire"}
  /\ LET found == Found(map.table, calls[w].keys)
     IN  LeaveMap(w, [i \in DOMAIN found |-> Ref(map, found[i])])
  /\ UNCHANGED <<map, failed, reused, revived>>

\* The slots that a clear has freed and not wiped yet.
Unwiped ==
  UNION {{r.slot : r \in ToSet(calls[w].refs)} :
           w \in {v \in Workers : calls[v].pc # "idle" /\ calls[v].op = "clear"}}

AssignedAnew(m, ks) ==
  FoldLeft(LAMBDA sofar, k : IF sofar.free = <<>> THEN sofar ELSE Allocated(sofar, k), m, ks)

(* Every key gets a slot, in turn; when they run out the call fails, and the
   keys before it keep theirs. *)
Assigned(m, ks) ==
  FoldLeft(LAMBDA sofar, k : IF Has(sofar.table, k) \/ sofar.free = <<>>
                             THEN sofar ELSE Allocated(sofar, k), m, ks)

(* The slots of all the keys of a call: of those it looked for now, and, when it
   tries again, of the others as it knew them. *)
Slotted(m, c) ==
  IF c.slots = <<>>
  THEN [i \in DOMAIN c.keys |-> Ref(m, c.keys[i])]
  ELSE [i \in DOMAIN c.slots |-> IF c.slots[i].key \in ToSet(c.keys)
                                 THEN Ref(m, c.slots[i].key) ELSE c.slots[i]]

Assign(w) ==
  LET ks   == calls[w].keys
      m    == Assigned(map, ks)
      full == \E k \in ToSet(ks) : ~Has(m.table, k)
  IN  /\ At(w, "map") /\ calls[w].op \in {"set", "increment"}
      /\ map' = m
      /\ LeaveMap(w, IF full THEN <<>> ELSE Slotted(m, calls[w]))
      /\ failed' = (failed \/ full)
      /\ reused' = (reused \/ \E s \in Unwiped : s \in ToSet(map.free) \ ToSet(m.free))
      /\ UNCHANGED revived

\* The keys of the namespace are deleted in the order of the buckets they were in at first.
Cleared(m) ==
  FoldLeft(LAMBDA sofar, b : IF m.table[b].key \in Owned THEN Freed(sofar, m.table[b].key) ELSE sofar,
           m, BucketList)

\* Those keys, in that order.
OwnKeys(t) ==
  FoldLeft(LAMBDA found, b : IF t[b].key \in Owned THEN Append(found, t[b].key) ELSE found,
           <<>>, BucketList)

ClearMap(w) ==
  LET mine    == OwnKeys(map.table)
      m       == Cleared(map)
      freed   == [i \in DOMAIN mine |-> SlotOf(map.table, mine[i])]
  IN  /\ At(w, "map") /\ calls[w].op = "clear"
      /\ map' = m
      /\ LeaveMap(w, [i \in DOMAIN mine |->
                        [key |-> mine[i], slot |-> freed[i], gen |-> m.gen[freed[i]]]])
      /\ UNCHANGED <<failed, reused, revived>>

----------------------------------------------------------------------------
(* The part under the other semaphore: slot by slot, its generation is compared
   and then its data read or written. *)

Current(r) == map.gen[r.slot] = r.gen

(* The first slot is done with.  After the last one the call ends, or tries again:
   it finds the keys whose slots had changed hands, and writes all its keys anew. *)
Proceed(w, again) ==
  LET c == calls[w]
      retries == again # <<>> /\ c.tries > 1
  IN  IF Len(c.refs) > 1
      THEN /\ calls' = [calls EXCEPT ![w] = [c EXCEPT !.pc = "slot", !.refs = Tail(@), !.again = again]]
           /\ slotSem' = w /\ UNCHANGED failed
      ELSE /\ calls' = [calls EXCEPT ![w] =
                 IF retries
                 THEN [c EXCEPT !.pc = "start", !.refs = <<>>, !.keys = again, !.again = <<>>, !.tries = @ - 1]
                 ELSE Idle]
           /\ slotSem' = Nobody
           /\ failed' = (failed \/ (again # <<>> /\ ~retries))

InSlots(w) == (At(w, "gap") /\ slotSem = Nobody) \/ At(w, "slot")

Fresh(w) ==
  /\ InSlots(w) /\ Current(Head(calls[w].refs))
  /\ slotSem' = w
  /\ calls' = [calls EXCEPT ![w].pc = "write"]
  /\ UNCHANGED <<map, data, mapSem, now, issued, failed, reused, revived>>

\* Reads, expire and clear take it that the key is gone; writes look again.
Stale(w) ==
  LET c == calls[w]
  IN  /\ InSlots(w) /\ ~Current(Head(c.refs))
      /\ Proceed(w, IF c.op \in {"set", "increment"} THEN Append(c.again, Head(c.refs).key)
                                                     ELSE c.again)
      /\ UNCHANGED <<map, data, mapSem, now, issued, reused, revived>>

Access(w, op) == At(w, "write") /\ calls[w].op = op

Done(w) == Proceed(w, calls[w].again) /\ UNCHANGED <<map, mapSem, now, issued, reused>>

Get(w) == Access(w, "get") /\ Done(w) /\ UNCHANGED <<data, revived>>

Set(w) ==
  /\ Access(w, "set") /\ Done(w)
  /\ data' = [data EXCEPT ![Head(calls[w].refs).slot] =
                [occupied |-> TRUE, value |-> Text, exp |-> calls[w].exp]]
  /\ UNCHANGED revived

(* A value that does not fit its slot: the call fails, and its slots stay
   assigned.  One that was written before fits. *)
SetTooLarge(w) ==
  /\ Access(w, "set") /\ Head(calls[w].refs).key \in ToSet(calls[w].keys)
  /\ calls' = [calls EXCEPT ![w] = Idle]
  /\ slotSem' = Nobody /\ failed' = TRUE
  /\ UNCHANGED <<map, data, mapSem, now, issued, reused, revived>>

Number(v) == IF v = Text THEN 0 ELSE v

IncrementProlongs(w) ==
  LET c == calls[w]
      s == Head(c.refs).slot
  IN  /\ Access(w, "increment") /\ Done(w)
      /\ data' = [data EXCEPT ![s] =
           [occupied |-> TRUE, exp |-> c.exp,
            value |-> IF Alive(s, c.at) THEN Number(data[s].value) + 1 ELSE 1]]
      /\ UNCHANGED revived

Increment(w) ==
  LET c == calls[w]
      s == Head(c.refs).slot
      d == data[s]
  IN  /\ Access(w, "increment") /\ Done(w)
      /\ data' = [data EXCEPT ![s] =
           IF Alive(s, c.at)
           THEN [occupied |-> TRUE, value |-> Number(d.value) + 1,
                 exp |-> IF d.exp = Forever THEN c.exp ELSE d.exp]
           ELSE [occupied |-> TRUE, value |-> 1, exp |-> c.exp]]
      /\ UNCHANGED revived

Expire(w) ==
  LET c == calls[w]
      s == Head(c.refs).slot
  IN  /\ Access(w, "expire") /\ Done(w)
      /\ data' = [data EXCEPT ![s].exp = IF Alive(s, c.at) THEN c.exp ELSE @]
      /\ revived' = (revived \/ (Alive(s, c.at) /\ ~Alive(s, now)))

Wipe(w) ==
  /\ Access(w, "clear") /\ Done(w)
  /\ data' = [data EXCEPT ![Head(calls[w].refs).slot] = NoData]
  /\ UNCHANGED revived

----------------------------------------------------------------------------
(* A delete and the cleaner: both semaphores, in the other order. *)

BeginDelete(w) ==
  /\ At(w, "idle") /\ "delete" \in Ops /\ slotSem = Nobody /\ issued < MaxCalls
  /\ slotSem' = w /\ issued' = issued + 1
  /\ \E k \in Keys : calls' = [calls EXCEPT ![w] = Begun("both", "delete", <<k>>, now, Forever)]
  /\ UNCHANGED <<map, data, mapSem, now, failed, reused, revived>>

\* The cleaner starts from a key that looked expired in a sample it took unguarded.
Sample(w) ==
  /\ At(w, "idle") /\ "reap" \in Ops /\ issued < MaxCalls
  /\ issued' = issued + 1
  /\ \E k \in Keys :
       /\ Has(map.table, k)
       /\ data[SlotOf(map.table, k)].occupied /\ ~Alive(SlotOf(map.table, k), now)
       /\ calls' = [calls EXCEPT ![w] =
            [Begun("start", "reap", <<k>>, now, Forever) EXCEPT !.refs = <<Ref(map, k)>>]]
  /\ UNCHANGED <<map, data, mapSem, slotSem, now, failed, reused, revived>>

EnterSlots(w) ==
  /\ At(w, "start") /\ calls[w].op = "reap" /\ slotSem = Nobody
  /\ slotSem' = w
  /\ calls' = [calls EXCEPT ![w].pc = "both"]
  /\ UNCHANGED <<map, data, mapSem, now, issued, failed, reused, revived>>

UnlinkHalf(w, k, does) ==
  /\ At(w, "both") /\ mapSem = Nobody
  /\ data' = IF does THEN [data EXCEPT ![SlotOf(map.table, k)] = NoData] ELSE data
  /\ slotSem' = Nobody
  /\ calls' = [calls EXCEPT ![w] = Idle]
  /\ UNCHANGED <<map, mapSem, now, issued, failed, reused, revived>>

\* What either does with a key, if it does anything, and then it is done.
Unlink(w, k, does) ==
  /\ At(w, "both") /\ mapSem = Nobody
  /\ map' = IF does THEN Freed(map, k) ELSE map
  /\ data' = IF does THEN [data EXCEPT ![SlotOf(map.table, k)] = NoData] ELSE data
  /\ slotSem' = Nobody
  /\ calls' = [calls EXCEPT ![w] = Idle]
  /\ UNCHANGED <<mapSem, now, issued, failed, reused, revived>>

Delete(w) ==
  /\ At(w, "both") /\ calls[w].op = "delete"
  /\ Unlink(w, Head(calls[w].keys), Has(map.table, Head(calls[w].keys)))

\* The sampled key must still have its slot, and be expired at the time of the sample.
Reap(w) ==
  LET c == calls[w]
      k == Head(c.keys)
      s == Head(c.refs).slot
  IN  /\ At(w, "both") /\ c.op = "reap"
      /\ Unlink(w, k, Has(map.table, k) /\ SlotOf(map.table, k) = s
                      /\ data[s].occupied /\ ~Alive(s, c.at))

Step(w) ==
  \/ EnterMap(w) \/ Find(w) \/ Assign(w) \/ ClearMap(w)
  \/ Fresh(w) \/ Stale(w)
  \/ Get(w) \/ Set(w) \/ SetTooLarge(w) \/ Increment(w) \/ Expire(w) \/ Wipe(w)
  \/ EnterSlots(w) \/ Delete(w) \/ Reap(w)

Next == Tick \/ \E w \in Workers : Begin(w) \/ BeginDelete(w) \/ Sample(w) \/ Step(w)

Spec == Init /\ [][Next]_vars

----------------------------------------------------------------------------
(* Properties. *)

RefType == [key : Keys, slot : Slots, gen : 0 .. Generations - 1]

CallType ==
  [pc : {"start", "map", "gap", "slot", "write", "both"}, op : Ops, keys : Seq(Keys),
   at : Nat, exp : Nat \cup {Forever}, refs : Seq(RefType), slots : Seq(RefType),
   again : Seq(Keys), tries : 1 .. MaxTries]

\* Every variable has its type.
TypeOK ==
  /\ map.table \in [Buckets -> [key : Keys \cup {Empty, Tombstone}, slot : Slots \cup {0}]]
  /\ map.deleted \in 0 .. RebuildAt - 1
  /\ map.free \in Seq(Slots)
  /\ map.gen \in [Slots -> 0 .. Generations - 1]
  /\ data \in [Slots -> [occupied : BOOLEAN, value : Nat \cup {Text}, exp : Nat \cup {Forever}]]
  /\ mapSem \in Workers \cup {Nobody} /\ slotSem \in Workers \cup {Nobody}
  /\ \A w \in Workers : calls[w] = Idle \/ calls[w] \in CallType
  /\ now \in Nat /\ issued \in Nat
  /\ failed \in BOOLEAN /\ reused \in BOOLEAN /\ revived \in BOOLEAN

Mapped == {b \in Buckets : map.table[b].key \in Keys}

(* Whatever is deleted, cleared, reaped and rebuilt, a slot is either free, once,
   or in one bucket: none is lost and none is given to two keys
   (_free_stack_pop, _free_stack_push, _hash_table_delete, _rebuild_hash_table). *)
SlotsPartitioned ==
  /\ IsInjective(map.free)
  /\ \A b, c \in Mapped : map.table[b].slot = map.table[c].slot => b = c
  /\ ToSet(map.free) \cap {map.table[b].slot : b \in Mapped} = {}
  /\ Len(map.free) + Cardinality(Mapped) = MaxKeys

(* Tombstones never break the way to a key, a key is never in two buckets, and
   a bucket stays empty for the search for an absent key to end at
   (_hash_table_lookup: "This should never happen."). *)
ProbesFind ==
  /\ \A b \in Mapped : Lookup(map.table, map.table[b].key) = b
  /\ \E b \in Buckets : map.table[b] = EmptyBucket

(* What a reader finds for a key now. *)
Visible(k) ==
  IF Has(map.table, k) /\ Alive(SlotOf(map.table, k), now)
  THEN [value |-> data[SlotOf(map.table, k)].value, exp |-> data[SlotOf(map.table, k)].exp]
  ELSE Gone

Table == INSTANCE ExpiringMap
  WITH map <- [k \in Keys |-> Visible(k)], Counts <- 0 .. MaxCalls, Amounts <- {1}, MaxTTL <- TTL

(* The shard implements the map a backend promises, through retries, recycled
   slots and rebuilds, until a clear's slot is reused too early or an expiry is
   given too late.  Each write of a batch is a set of the map; so is one that is
   repeated because another key of the batch was tried again. *)
ImplementsMap ==
  /\ Table!Init
  /\ [][UNCHANGED <<map, data, now>> \/ reused' \/ revived' \/ Table!Next]_Table!mapVars

(* What is visible under a key changes with time or by a call on that very key,
   in the step in which it writes: never by a call on another key, a rebuild,
   the cleaner, or a writer that comes late to a slot that changed hands. *)
OnlyOwnWrites ==
  [][UNCHANGED <<map, data>> \/ reused' \/ now' # now \/ \A k \in Keys :
       Visible(k)' # Visible(k) =>
         \E w \in Workers :
           \/ At(w, "write") /\ Head(calls[w].refs).key = k /\ calls[w].op \in {"set", "increment", "expire"}
           \/ At(w, "both") /\ calls[w].op = "delete" /\ Head(calls[w].keys) = k
           \/ At(w, "map") /\ calls[w].op = "clear" /\ k \in Owned]_vars

(* A key whose slot holds no data belongs to a call that is still under way,
   unless some call failed after its slots were assigned. *)
GhostsComeFromFailures ==
  failed \/ \A b \in Mapped :
    \/ data[map.table[b].slot].occupied
    \/ \E w \in Workers : calls[w].pc # "idle" /\ map.table[b].key \in ToSet(calls[w].keys)

(* "Each shard's slot allocation and write are performed atomically within that
   shard's semaphore pair": when a batch is tried again for a key whose slot
   changed hands, what others have meanwhile done to the keys that it has written
   already stays. *)
RetriesSpareTheWritten ==
  [][\A w \in Workers, k \in Keys :
       /\ At(w, "write") /\ calls[w].op = "set" /\ calls'[w] # calls[w]
       /\ Head(calls[w].refs).key = k /\ k \notin ToSet(calls[w].keys)
       => Visible(k)' = Visible(k)]_vars

Busy(w) == calls[w].pc # "idle"

\* A call stands before a semaphore that somebody holds.
Waits(w) ==
  \/ At(w, "both") /\ mapSem # Nobody
  \/ At(w, "gap") /\ slotSem # Nobody
  \/ At(w, "start") /\ IF calls[w].op \in MapFirst THEN mapSem # Nobody ELSE slotSem # Nobody

(* The two orders in which the semaphores are taken never lock anybody out: as
   long as a call is under way, some call can go on. *)
NoStandstill ==
  (\E w \in Workers : Busy(w)) => \E w \in Workers : Busy(w) /\ ~Waits(w)
=============================================================================
