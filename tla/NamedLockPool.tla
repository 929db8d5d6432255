--------------------------- MODULE NamedLockPool ---------------------------
(***************************************************************************)
(* NamedLockPool and NamedLockHandle of traffik/_locks.py: names map to     *)
(* locks while somebody refers to them, and locks nobody refers to are kept *)
(* for reuse.  One pool may be shared by event loops of several threads: its *)
(* bookkeeping runs under a threading.RLock, but every method reads _closed *)
(* before it takes that lock, so each is two steps here.                    *)
(*                                                                         *)
(* A user takes a handle, acquires the lock through it and gives it back.   *)
(* Of the lock itself only who owns it is kept (FairAsyncRLock is its       *)
(* module), and the list of idle locks is a set: which of them is reused    *)
(* makes no difference.                                                     *)
(***************************************************************************)
EXTENDS Integers, FiniteSets, Functions

CONSTANTS Users, Names, Locks,
          Nobody,             \* the holder of a lock that is free
          MaxSize, Headroom,
          MaxLeaked           \* bound: handles dropped per name

ASSUME SizeAssumption == MaxSize \in Nat \ {0} /\ Headroom \in Nat \ {0}

ASSUME NobodyAssumption == IsFiniteSet(Users) /\ Nobody \notin Users

VARIABLES closed, allocated, idle,
          inUse,     \* name -> its lock and the number of references to it
          holder,     \* lock -> who holds it
          handle,    \* user -> the state of its handle
          manager,   \* what the thread that populates or closes the pool is about to do
          leaked     \* name -> the references whose handle is gone (not in the code)

poolVars == <<closed, allocated, idle, inUse, holder, handle, manager, leaked>>

MaxCapacity == MaxSize * Headroom

NoHandle == [pc |-> "none"]

Has(u, pc) == handle[u].pc = pc

Move(u, pc) == handle' = [handle EXCEPT ![u].pc = pc]

Referred(u) == handle[u].pc \in {"fresh", "waiting", "inside", "failed", "returning"}

\* What factory() may return: an object nobody has.
NewLock(l) == /\ l \notin idle
              /\ \A n \in DOMAIN inUse : inUse[n].lock # l
              /\ \A u \in Users : Referred(u) => handle[u].lock # l
              /\ holder[l] = Nobody

Without(f, x) == Restrict(f, DOMAIN f \ {x})

With(f, x, y) == [z \in DOMAIN f \cup {x} |-> IF z = x THEN y ELSE f[z]]

PoolInit == /\ closed = FALSE
        /\ allocated = 0
        /\ idle = {}
        /\ inUse = [n \in {} |-> NoHandle]
        /\ holder = [l \in Locks |-> Nobody]
        /\ handle = [u \in Users |-> NoHandle]
        /\ manager = [pc |-> "idle"]
        /\ leaked = [n \in Names |-> 0]

----------------------------------------------------------------------------
(* get *)

GetChecks(u) ==
  /\ Has(u, "none")
  /\ ~closed
  /\ \E n \in Names : handle' = [handle EXCEPT ![u] = [pc |-> "checked", name |-> n]]
  /\ UNCHANGED <<closed, allocated, idle, inUse, holder, manager, leaked>>

\* The handle get returns once the name refers to lock l, refs times.
Returned(u, l, refs) ==
  /\ inUse'  = With(inUse, handle[u].name, [lock |-> l, refs |-> refs])
  /\ handle' = [handle EXCEPT ![u] = [pc |-> "fresh", name |-> @.name, lock |-> l]]

GetSharesUncounted(u) ==
  /\ Has(u, "checked")
  /\ handle[u].name \in DOMAIN inUse
  /\ LET entry == inUse[handle[u].name] IN Returned(u, entry.lock, entry.refs)
  /\ UNCHANGED <<closed, allocated, idle, holder, manager, leaked>>

GetShares(u) ==
  /\ Has(u, "checked")
  /\ handle[u].name \in DOMAIN inUse
  /\ LET entry == inUse[handle[u].name] IN Returned(u, entry.lock, entry.refs + 1)
  /\ UNCHANGED <<closed, allocated, idle, holder, manager, leaked>>

GetReusesKept(u) ==
  /\ Has(u, "checked")
  /\ handle[u].name \notin DOMAIN inUse
  /\ \E l \in idle : Returned(u, l, 1)
  /\ UNCHANGED <<closed, allocated, idle, holder, manager, leaked>>

GetReuses(u) ==
  /\ Has(u, "checked")
  /\ handle[u].name \notin DOMAIN inUse
  /\ \E l \in idle : /\ Returned(u, l, 1)
                     /\ idle' = idle \ {l}
  /\ UNCHANGED <<closed, allocated, holder, manager, leaked>>

GetAllocates(u) ==
  /\ Has(u, "checked")
  /\ handle[u].name \notin DOMAIN inUse
  /\ idle = {}
  /\ allocated < MaxCapacity
  /\ \E l \in Locks : NewLock(l) /\ Returned(u, l, 1)
  /\ allocated' = allocated + 1
  /\ UNCHANGED <<closed, idle, holder, manager, leaked>>

GetRefused(u) ==
  /\ Has(u, "checked")
  /\ handle[u].name \notin DOMAIN inUse
  /\ idle = {}
  /\ allocated >= MaxCapacity
  /\ handle' = [handle EXCEPT ![u] = NoHandle]
  /\ UNCHANGED <<closed, allocated, idle, inUse, holder, manager, leaked>>

----------------------------------------------------------------------------
(* NamedLockHandle.acquire *)

AcquireStarts(u) ==
  /\ Has(u, "fresh")
  /\ Move(u, IF closed THEN "failed" ELSE "waiting")
  /\ UNCHANGED <<closed, allocated, idle, inUse, holder, manager, leaked>>

AcquireSucceeds(u) ==
  /\ Has(u, "waiting")
  /\ holder[handle[u].lock] = Nobody
  /\ holder' = [holder EXCEPT ![handle[u].lock] = u]
  /\ Move(u, "inside")
  /\ UNCHANGED <<closed, allocated, idle, inUse, manager, leaked>>

\* The underlying acquire returns False, times out or is cancelled.
AcquireFails(u) ==
  /\ Has(u, "waiting")
  /\ Move(u, "failed")
  /\ UNCHANGED <<closed, allocated, idle, inUse, holder, manager, leaked>>

----------------------------------------------------------------------------
(* release, discard and the pool's _release *)

\* What becomes of a handle whose _release finds the pool closed, or open.
GiveBack(u) ==
  handle' = [handle EXCEPT ![u] = IF closed THEN NoHandle ELSE [@ EXCEPT !.pc = "returning"]]

ReleaseHandle(u) ==
  /\ Has(u, "inside")
  /\ holder' = [holder EXCEPT ![handle[u].lock] = Nobody]
  /\ GiveBack(u)
  /\ UNCHANGED <<closed, allocated, idle, inUse, manager, leaked>>

\* pool.lock() discards a handle that was not acquired when its block ends.
Discard(u) ==
  /\ Has(u, "fresh") \/ Has(u, "failed")
  /\ GiveBack(u)
  /\ UNCHANGED <<closed, allocated, idle, inUse, holder, manager, leaked>>

\* "async with pool.get(name)" and the lock context of the backends do not: they
\* drop the handle whose acquire failed, and its reference stays.
Drop(u) ==
  /\ Has(u, "failed")
  /\ leaked[handle[u].name] < MaxLeaked
  /\ handle' = [handle EXCEPT ![u] = NoHandle]
  /\ leaked' = [leaked EXCEPT ![handle[u].name] = @ + 1]
  /\ UNCHANGED <<closed, allocated, idle, inUse, holder, manager>>

\* _release returned early: the name is gone, close() cleared it.
ReturnNothing(u) ==
  /\ Has(u, "returning")
  /\ handle[u].name \notin DOMAIN inUse
  /\ handle' = [handle EXCEPT ![u] = NoHandle]
  /\ UNCHANGED <<closed, allocated, idle, inUse, holder, manager, leaked>>

ReturnShared(u) ==
  /\ Has(u, "returning")
  /\ handle[u].name \in DOMAIN inUse
  /\ inUse[handle[u].name].refs > 1
  /\ inUse'  = [inUse EXCEPT ![handle[u].name].refs = @ - 1]
  /\ handle' = [handle EXCEPT ![u] = NoHandle]
  /\ UNCHANGED <<closed, allocated, idle, holder, manager, leaked>>

\* The last reference: the lock is kept if there is room for it.
ReturnLastDropped(u) ==
  /\ Has(u, "returning")
  /\ handle[u].name \in DOMAIN inUse
  /\ inUse[handle[u].name].refs <= 1
  /\ inUse'  = Without(inUse, handle[u].name)
  /\ handle' = [handle EXCEPT ![u] = NoHandle]
  /\ idle' = IF Cardinality(idle) < MaxSize THEN idle \cup {inUse[handle[u].name].lock} ELSE idle
  /\ UNCHANGED <<closed, allocated, holder, manager, leaked>>

ReturnLast(u) ==
  /\ Has(u, "returning")
  /\ handle[u].name \in DOMAIN inUse
  /\ inUse[handle[u].name].refs <= 1
  /\ inUse'  = Without(inUse, handle[u].name)
  /\ handle' = [handle EXCEPT ![u] = NoHandle]
  /\ \/ /\ Cardinality(idle) < MaxSize
        /\ idle' = idle \cup {inUse[handle[u].name].lock}
        /\ UNCHANGED allocated
     \/ /\ Cardinality(idle) >= MaxSize
        /\ allocated' = allocated - 1
        /\ UNCHANGED idle
  /\ UNCHANGED <<closed, holder, manager, leaked>>

----------------------------------------------------------------------------
(* populate and close *)

ManagerChecks ==
  /\ manager.pc = "idle"
  /\ ~closed
  /\ \E what \in {"populating", "closing"} : manager' = [pc |-> what]
  /\ UNCHANGED <<closed, allocated, idle, inUse, holder, handle, leaked>>

\* n new locks, for an n that leaves room among the idle and the allocated.
Populate ==
  /\ manager.pc = "populating"
  /\ \E new \in SUBSET {l \in Locks : NewLock(l)} :
       /\ IsFiniteSet(new)
       /\ Cardinality(idle) + Cardinality(new) <= MaxSize \/ new = {}
       /\ allocated + Cardinality(new) <= MaxCapacity \/ new = {}
       /\ idle' = idle \cup new
       /\ allocated' = allocated + Cardinality(new)
  /\ manager' = [pc |-> "idle"]
  /\ UNCHANGED <<closed, inUse, holder, handle, leaked>>

\* Every lock is discarded, those in use too.
Close ==
  /\ manager.pc = "closing"
  /\ closed' = TRUE
  /\ allocated' = allocated - Cardinality(DOMAIN inUse) - Cardinality(idle)
  /\ idle' = {}
  /\ inUse' = [n \in {} |-> NoHandle]
  /\ manager' = [pc |-> "idle"]
  /\ UNCHANGED <<holder, handle, leaked>>

----------------------------------------------------------------------------

PoolNext ==
  \/ \E u \in Users :
       \/ GetChecks(u) \/ GetShares(u) \/ GetReuses(u) \/ GetAllocates(u) \/ GetRefused(u)
       \/ AcquireStarts(u) \/ AcquireSucceeds(u) \/ AcquireFails(u)
       \/ ReleaseHandle(u) \/ Discard(u) \/ Drop(u)
       \/ ReturnNothing(u) \/ ReturnShared(u) \/ ReturnLast(u)
  \/ ManagerChecks \/ Populate \/ Close

PoolSpec == PoolInit /\ [][PoolNext]_poolVars

----------------------------------------------------------------------------
(* Properties *)

Entry == [lock : Locks, refs : Nat \ {0}]

Handle == {NoHandle} \cup [pc : {"checked"}, name : Names]
            \cup [pc : {"fresh", "waiting", "inside", "failed", "returning"},
                  name : Names, lock : Locks]

\* The shape of the pool, its entries and the handles.
PoolTypeOK == /\ closed \in BOOLEAN
          /\ allocated \in Nat
          /\ idle \subseteq Locks
          /\ DOMAIN inUse \subseteq Names
          /\ inUse \in [DOMAIN inUse -> Entry]
          /\ holder \in [Locks -> Users \cup {Nobody}]
          /\ handle \in [Users -> Handle]
          /\ manager \in [pc : {"idle", "populating", "closing"}]
          /\ leaked \in [Names -> Nat]

\* The count of allocated locks is the number of locks the pool knows, idle and in
\* use, whatever get, release, populate and close interleave; it keeps within the
\* capacity, and the idle locks within the size of the free list.
Accounting == /\ allocated = Cardinality(idle) + Cardinality(DOMAIN inUse)
              /\ allocated <= MaxCapacity
              /\ Cardinality(idle) <= MaxSize

\* A lock serves one name, or is idle.
OneLockPerName ==
  \A n \in DOMAIN inUse :
    /\ inUse[n].lock \notin idle
    /\ \A m \in DOMAIN inUse : inUse[m].lock = inUse[n].lock => m = n

\* While the pool is open a name is in use exactly while somebody refers to it: by
\* a handle, which holds the name's lock, or by one that was dropped.
RefsMatchHandles ==
  ~closed =>
    /\ \A u \in Users : Referred(u) => /\ handle[u].name \in DOMAIN inUse
                                       /\ handle[u].lock = inUse[handle[u].name].lock
    /\ \A n \in DOMAIN inUse :
         inUse[n].refs = leaked[n] + Cardinality({u \in Users : Referred(u) /\ handle[u].name = n})

\* Two users are never inside under one name, although the name's lock may be
\* recycled in between, and even if the pool is closed while they come and go.
NameExclusion ==
  \A u, v \in Users :
    Has(u, "inside") /\ Has(v, "inside") /\ handle[u].name = handle[v].name => u = v

\* Locks are not leaked: once nobody has a handle no name is in use.
NoLockLeaked ==
  ~closed /\ (\A u \in Users : Has(u, "none") \/ Has(u, "checked")) => DOMAIN inUse = {}
=============================================================================
