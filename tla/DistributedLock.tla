-------------------------- MODULE DistributedLock --------------------------
(***************************************************************************)
(* One named lock of a Redis or Memcached backend, as tasks of several      *)
(* processes take it: the gate that keeps the tasks of one process from all *)
(* asking the server at once (_NamedGateRegistry, _NamedGateHandle and       *)
(* _GatedNamedLock in traffik/_locks.py), the lock itself (_AsyncRedisLock,  *)
(* _AsyncRedLock, _AsyncCoredisLock, _AsyncMemcachedLock in traffik/backends) *)
(* and the context that cancels a body that holds it too long                *)
(* (_AsyncLockContext).                                                     *)
(*                                                                         *)
(* The lock is a lease: a key of the server with a token and an expiry.      *)
(* Redis compares the token and deletes the key in one script, Memcached in  *)
(* two requests.  Replies and requests may be late or lost.                  *)
(***************************************************************************)
EXTENDS LockUsers, Integers, FiniteSets

CONSTANTS
  Processes, ProcessOf,
  Threshold,     \* contention_threshold
  Profiles,      \* the stores, with the TTL of leases and how late things may be
  Unbounded,     \* no bound on lateness, no watchdog
  MaxTokens      \* bound: tokens drawn

ASSUME LockAssumption ==
  /\ IsFiniteSet(Tasks) /\ ProcessOf \in [Tasks -> Processes]
  /\ Threshold \in Nat \ {0} /\ MaxTokens \in Nat
  /\ \A p \in Profiles :
       /\ p.store \in {"redis", "memcached"} /\ p.ttl \in Nat \ {0}
       /\ p.delay \in Nat \cup {Unbounded} /\ p.local \in Nat \cup {Unbounded}

VARIABLES
  profile,   \* the store, the TTL, the bound on lateness, and the watchdog's patience
  lease,     \* the key at the server: its token and how long it has left
  fence,     \* the last token drawn
  pc, gateHandle, hasGate, token, age, depth,   \* of each task
  waiters,   \* of each process, how many tasks are inside acquire()
  gate,      \* of each process, the gate, named for the task that made it
  cleared    \* history: the backend's keys were cleared

gateVars == <<gateHandle, hasGate, waiters, gate>>

leaseVars == <<profile, lease, fence, pc, gateVars, token, age, depth, cleared>>

NoLease == [token |-> 0, left |-> 0]

Free == lease.left = 0

LeaseInit ==
  /\ profile \in Profiles
  /\ lease = NoLease /\ fence = 0
  /\ pc = [t \in Tasks |-> "idle"] /\ token = [t \in Tasks |-> 0]
  /\ age = [t \in Tasks |-> 0] /\ depth = [t \in Tasks |-> 0]
  /\ gateHandle = [t \in Tasks |-> NoTask] /\ hasGate = [t \in Tasks |-> FALSE]
  /\ waiters = [p \in Processes |-> 0] /\ gate = [p \in Processes |-> NoTask]
  /\ cleared = FALSE

\* How long a task may be where it is.
Patience(t) ==
  CASE pc[t] \in {"won", "leaving", "read"} -> profile.delay
    [] pc[t] = "body"                       -> profile.local
    [] OTHER                                -> Unbounded

(* Time passes, unless something is due that is never later than this. *)
Tick ==
  /\ \A t \in Tasks : Patience(t) # Unbounded => age[t] < Patience(t)
  /\ lease' = IF lease.left <= 1 THEN NoLease ELSE [lease EXCEPT !.left = @ - 1]
  /\ age' = [t \in Tasks |-> IF Patience(t) = Unbounded THEN 0 ELSE age[t] + 1]
  /\ UNCHANGED <<profile, fence, pc, gateVars, token, depth, cleared>>

\* age[t] is how long the task has been where it is.
Goto(t, where) ==
  /\ pc' = [pc EXCEPT ![t] = where]
  /\ age' = [age EXCEPT ![t] = 0]

----------------------------------------------------------------------------
(* The gates. *)

\* acquire(): below the threshold a task goes straight to the server.
Arrive(t) ==
  LET p      == ProcessOf[t]
      behind == waiters[p] >= Threshold
  IN  /\ pc[t] = "idle"
      /\ waiters' = [waiters EXCEPT ![p] = @ + 1]
      /\ gate' = [gate EXCEPT ![p] = IF behind /\ @ = NoTask THEN t ELSE @]
      /\ gateHandle' = [gateHandle EXCEPT ![t] = IF behind THEN gate'[p] ELSE NoTask]
      /\ Goto(t, IF behind THEN "gate" ELSE "race")
      /\ UNCHANGED <<profile, lease, fence, hasGate, token, depth, cleared>>

PassGate(t) ==
  /\ pc[t] = "gate"
  /\ \A u \in Tasks : ~(hasGate[u] /\ gateHandle[u] = gateHandle[t])
  /\ hasGate' = [hasGate EXCEPT ![t] = TRUE]
  /\ Goto(t, "race")
  /\ UNCHANGED <<profile, lease, fence, gateHandle, waiters, gate, token, depth, cleared>>

LeaveDroppingGate(t) ==
  LET p == ProcessOf[t]
  IN  /\ waiters' = [waiters EXCEPT ![p] = @ - 1]
      /\ gate' = [gate EXCEPT ![p] = IF gateHandle[t] # NoTask THEN NoTask ELSE @]
      /\ gateHandle' = [gateHandle EXCEPT ![t] = NoTask]
      /\ hasGate' = [hasGate EXCEPT ![t] = FALSE]

\* Leaving acquire(), however: the last task inside it takes the gate down.
Leave(t) ==
  LET p == ProcessOf[t]
  IN  /\ waiters' = [waiters EXCEPT ![p] = @ - 1]
      /\ gate' = [gate EXCEPT ![p] = IF waiters[p] = 1 THEN NoTask ELSE @]
      /\ gateHandle' = [gateHandle EXCEPT ![t] = NoTask]
      /\ hasGate' = [hasGate EXCEPT ![t] = FALSE]

\* A timeout, a failed request or a cancellation: at the gate, between two tries,
\* or when the server has granted the lease and the reply is not here yet.
GiveUp(t) ==
  /\ pc[t] \in {"gate", "race", "won"}
  /\ Leave(t)
  /\ Goto(t, "idle")
  /\ token' = [token EXCEPT ![t] = 0]
  /\ UNCHANGED <<profile, lease, fence, depth, cleared>>

----------------------------------------------------------------------------
(* The lease. *)

TryRegardless(t) ==
  /\ pc[t] = "race" /\ fence < MaxTokens
  /\ fence' = fence + 1
  /\ lease' = [token |-> fence', left |-> profile.ttl]
  /\ token' = [token EXCEPT ![t] = fence']
  /\ Goto(t, "won")
  /\ UNCHANGED <<profile, gateVars, depth, cleared>>

\* The server grants the lease to the first request that finds no key.  A request
\* that finds one leaves it as it is, whatever token it drew, and is made again.
Try(t) ==
  /\ pc[t] = "race" /\ Free /\ fence < MaxTokens
  /\ fence' = fence + 1
  /\ lease' = [token |-> fence', left |-> profile.ttl]
  /\ token' = [token EXCEPT ![t] = fence']
  /\ Goto(t, "won")
  /\ UNCHANGED <<profile, gateVars, depth, cleared>>

\* The reply is here.  The watchdog starts.
Enter(t) ==
  /\ pc[t] = "won"
  /\ Leave(t)
  /\ Goto(t, "body")
  /\ depth' = [depth EXCEPT ![t] = 1]
  /\ UNCHANGED <<profile, lease, fence, token, cleared>>

\* The owner takes a re-entrant lock again, and gives it back, without the server.
Reenter(t) ==
  /\ pc[t] = "body" /\ depth[t] < MaxDepth
  /\ depth' = [depth EXCEPT ![t] = @ + 1]
  /\ UNCHANGED <<profile, lease, fence, pc, gateVars, token, age, cleared>>

ReleaseNested(t) ==
  /\ pc[t] = "body" /\ depth[t] > 1
  /\ depth' = [depth EXCEPT ![t] = @ - 1]
  /\ UNCHANGED <<profile, lease, fence, pc, gateVars, token, age, cleared>>

\* The body is over, or was cancelled by the watchdog.
ReleaseLease(t) ==
  /\ pc[t] = "body" /\ depth[t] = 1
  /\ depth' = [depth EXCEPT ![t] = 0]
  /\ Goto(t, "leaving")
  /\ UNCHANGED <<profile, lease, fence, gateVars, token, cleared>>

Forget(t) ==
  /\ Goto(t, "idle")
  /\ token' = [token EXCEPT ![t] = 0]
  /\ UNCHANGED <<profile, fence, gateVars, depth, cleared>>

Mine(t) == ~Free /\ lease.token = token[t]

DeleteAny(t) ==
  /\ pc[t] = "leaving" /\ profile.store = "redis"
  /\ lease' = NoLease
  /\ Forget(t)

\* Redis runs RELEASE_SCRIPT.
DeleteIfMine(t) ==
  /\ pc[t] = "leaving" /\ profile.store = "redis"
  /\ lease' = IF Mine(t) THEN NoLease ELSE lease
  /\ Forget(t)

\* Memcached: the token is read first ...
ReadToken(t) ==
  /\ pc[t] = "leaving" /\ profile.store = "memcached"
  /\ IF Mine(t)
     THEN Goto(t, "read") /\ UNCHANGED <<profile, fence, gateVars, depth, cleared, token>>
     ELSE Forget(t)
  /\ UNCHANGED lease

\* ... and then the key is deleted.
DeleteRead(t) ==
  /\ pc[t] = "read"
  /\ lease' = NoLease
  /\ Forget(t)

\* The request to release is lost, or the client cancelled.
ReleaseFails(t) ==
  /\ pc[t] \in {"leaving", "read"}
  /\ Forget(t)
  /\ UNCHANGED lease

\* Redis: clearing the namespace takes the lock's key and the counter its tokens
\* come from; Memcached keeps no track of either.
Clear ==
  /\ profile.store = "redis" /\ (fence # 0 \/ lease # NoLease)
  /\ lease' = NoLease /\ fence' = 0 /\ cleared' = TRUE
  /\ UNCHANGED <<profile, pc, gateVars, token, age, depth>>

Step(t) ==
  \/ Arrive(t) \/ PassGate(t) \/ GiveUp(t) \/ Try(t) \/ Enter(t)
  \/ Reenter(t) \/ ReleaseNested(t) \/ ReleaseLease(t)
  \/ DeleteIfMine(t) \/ ReadToken(t) \/ DeleteRead(t) \/ ReleaseFails(t)

LeaseNext == Tick \/ Clear \/ \E t \in Tasks : Step(t)

LeaseSpec == LeaseInit /\ [][LeaseNext]_leaseVars

----------------------------------------------------------------------------
(* Properties. *)

Tokens == 0 .. MaxTokens

\* Every variable has its type.
LeaseTypeOK ==
  /\ profile \in Profiles
  /\ lease \in [token : Tokens, left : Nat] /\ fence \in Tokens
  /\ pc \in [Tasks -> {"idle", "gate", "race", "won", "body", "leaving", "read"}]
  /\ gateHandle \in [Tasks -> Tasks \cup {NoTask}] /\ hasGate \in [Tasks -> BOOLEAN]
  /\ token \in [Tasks -> Tokens] /\ age \in [Tasks -> Nat] /\ depth \in [Tasks -> 0 .. MaxDepth]
  /\ waiters \in [Processes -> Nat] /\ gate \in [Processes -> Tasks \cup {NoTask}]
  /\ cleared \in BOOLEAN

Inside(p) == {t \in Tasks : ProcessOf[t] = p /\ pc[t] \in {"gate", "race", "won"}}

(* The registry counts exactly the tasks inside acquire(), and a gate lives as
   long as one of them: all that wait in a process wait at the same gate, through
   every timeout and cancellation (_NamedGateRegistry.gate, _release). *)
GatesInStep ==
  \A p \in Processes :
    /\ waiters[p] = Cardinality(Inside(p))
    /\ gate[p] # NoTask => Inside(p) # {}
    /\ \A t \in Inside(p) : gateHandle[t] \in {NoTask, gate[p]}
    /\ Cardinality({t \in Inside(p) : hasGate[t]}) <= 1

(* The gates do what they are for: at a time no more tasks of a process ask the
   server than the threshold lets pass, and one more, the holder of the gate. *)
GateBoundsRace ==
  \A p \in Processes : Cardinality({t \in Inside(p) : pc[t] # "gate"}) <= Threshold + 1

Timely == profile.delay # Unbounded /\ profile.local # Unbounded /\ profile.local + 3 * profile.delay < profile.ttl

(* Two bodies never run together when the watchdog ends each of them well before
   its lease does, by more than what the reply to the acquire and the requests of
   the release may be late (_AsyncLockContext: "to prevent unsafe execution
   without mutual exclusion"). *)
Exclusion ==
  Timely /\ ~cleared => \A t, u \in Tasks : pc[t] = "body" /\ pc[u] = "body" => t = u

(* NoTask takes a lease away before it expires: what its holder relies on is that
   a late release, whose own lease has expired, finds another token and leaves it
   alone ("preventing accidental release of a lock acquired by another instance
   after ours expired").  Clearing the backend takes it away by design, and gives
   the same tokens out again. *)
LeaseIsKept ==
  [][lease.left > 1 /\ lease'.token # lease.token
       => cleared' \/ \E t \in Tasks : token[t] = lease.token /\ pc[t] \in {"leaving", "read"} /\ pc'[t] = "idle"]_leaseVars
=============================================================================
