---------------------------- MODULE ExpiringMap ----------------------------
(***************************************************************************)
(* What a storage backend promises its strategies: one map from keys to    *)
(* values that may expire.  What has expired is gone, a counter counts what *)
(* it is told to count, and an increment never prolongs a counter's life.   *)
(***************************************************************************)
EXTENDS Integers

CONSTANTS Keys,
          Counts,    \* the numbers a counter may show
          Amounts,   \* what one increment adds
          Text,      \* a stored value that is no number
          Gone,      \* no entry
          Forever,   \* the expiry of an entry that has none
          MaxTTL     \* the longest time to live

VARIABLES map,   \* the entry of each key that has not expired
          now

mapVars == <<map, now>>

Values == Counts \cup {Text}

\* The expiries a write may give at this time, that are not over already.
Expiries == (now + 1 .. now + MaxTTL) \cup {Forever}

Entry(v, exp) == [value |-> v, exp |-> exp]

Lives(entry, at) == entry.exp = Forever \/ entry.exp > at

\* What a counter counts from: a value that is no number counts as zero.
Number(v) == IF v = Text THEN 0 ELSE v

TypeOK ==
  /\ now \in Nat
  /\ map \in [Keys -> [value : Values, exp : Nat \cup {Forever}] \cup {Gone}]

Init == map = [k \in Keys |-> Gone] /\ now = 0

Tick ==
  /\ now' = now + 1
  /\ map' = [k \in Keys |->
               IF map[k] # Gone /\ Lives(map[k], now + 1) THEN map[k] ELSE Gone]

\* Only the entry of one key changes.
Puts(k, entry) ==
  /\ \A j \in Keys : map'[j] = IF j = k THEN entry ELSE map[j]
  /\ UNCHANGED now

(* Some keys are written at once, with one expiry. *)
Set(v, exp) ==
  /\ \A k \in Keys : map'[k] \in {map[k], Entry(v, exp)}
  /\ UNCHANGED now

(* A new counter may be given an expiry.  A counter that has an expiry keeps it:
   only what would never expire, or was no counter, may be given one. *)
Increment(k, amount, exp) ==
  LET old == map[k]
  IN  Puts(k, IF old = Gone THEN Entry(amount, exp)
              ELSE Entry(Number(old.value) + amount,
                         IF old.exp = Forever \/ old.value = Text THEN exp ELSE old.exp))

Expire(k, exp) == map[k] # Gone /\ Puts(k, Entry(map[k].value, exp))

(* Some keys are deleted at once. *)
Remove ==
  /\ \A k \in Keys : map'[k] \in {map[k], Gone}
  /\ UNCHANGED now

Next ==
  \/ Tick
  \/ Remove
  \/ \E exp \in Expiries : \E v \in Values \ Counts : Set(v, exp)
  \/ \E exp \in Expiries, k \in Keys :
       Expire(k, exp) \/ \E amount \in Amounts : Increment(k, amount, exp)

Spec == Init /\ [][Next]_mapVars
=============================================================================
