--------------------------- MODULE FairAsyncRLock ---------------------------
(***************************************************************************)
(* The fair task-reentrant lock of traffik/_locks.py, with the tasks that   *)
(* use it and the part of asyncio its correctness turns on: a future that   *)
(* is resolved or cancelled only schedules its task, and other tasks run    *)
(* before the scheduled one does.                                           *)
(*                                                                         *)
(* A task is suspended in acquire() exactly while it has a future.  Code    *)
(* between two awaits is one step, as it is on an event loop.               *)
(***************************************************************************)
EXTENDS LockUsers, Naturals, Sequences, SequencesExt

VARIABLES
  owner,       \* _owner
  count,       \* _count
  transfer,    \* _owner_transfer
  queue,       \* _queue; a future stands for the one task that awaits it
  fut,         \* fut[t]: the future t awaits in acquire(), "none" if it awaits none
  mustCancel,  \* tasks cancelled after their future was resolved
  held,        \* held[t]: acquires of t that returned, less its releases
  broken       \* history: some release met a cancelled future and raised

vars == <<owner, count, transfer, queue, fut, mustCancel, held, broken>>

Running(t) == fut[t] = "none"

Init == /\ owner = NoTask /\ count = 0 /\ transfer = FALSE /\ queue = <<>>
        /\ fut = [t \in Tasks |-> "none"] /\ mustCancel = {}
        /\ held = [t \in Tasks |-> 0] /\ broken = FALSE

----------------------------------------------------------------------------
(* acquire() up to its return or its await. *)

AcquireReentrant(t) ==
  /\ Running(t) /\ held[t] < MaxDepth /\ owner = t /\ count < MaxDepth
  /\ count' = count + 1
  /\ held' = [held EXCEPT ![t] = @ + 1]
  /\ UNCHANGED <<owner, transfer, queue, fut, mustCancel, broken>>

AcquireFree(t) ==
  /\ Running(t) /\ held[t] < MaxDepth /\ owner # t
  /\ count = 0 /\ ~transfer
  /\ owner' = t /\ count' = 1
  /\ held' = [held EXCEPT ![t] = @ + 1]
  /\ UNCHANGED <<transfer, queue, fut, mustCancel, broken>>

EnqueueInFront(t) ==
  /\ Running(t) /\ held[t] < MaxDepth /\ owner # t
  /\ count > 0 \/ transfer
  /\ fut' = [fut EXCEPT ![t] = "pending"]
  /\ queue' = <<t>> \o queue
  /\ UNCHANGED <<owner, count, transfer, mustCancel, held, broken>>

Enqueue(t) ==
  /\ Running(t) /\ held[t] < MaxDepth /\ owner # t
  /\ count > 0 \/ transfer
  /\ fut' = [fut EXCEPT ![t] = "pending"]
  /\ queue' = Append(queue, t)
  /\ UNCHANGED <<owner, count, transfer, mustCancel, held, broken>>

----------------------------------------------------------------------------
(* The tail of _current_task_release, once the count is back at 0: resolve
   the first queued future, f being the futures at that point and tr the value
   of _owner_transfer.  set_result on a cancelled future raises, after popleft
   and before _owner_transfer is set. *)

HandOverUnmarked(f, tr) ==
  IF queue = <<>>
  THEN fut' = f /\ transfer' = tr /\ UNCHANGED <<queue, broken>>
  ELSE /\ queue' = Tail(queue)
       /\ fut' = IF f[Head(queue)] = "pending" THEN [f EXCEPT ![Head(queue)] = "done"] ELSE f
       /\ transfer' = tr
       /\ broken' = (broken \/ f[Head(queue)] # "pending")

HandOver(f, tr) ==
  \/ /\ queue = <<>>
     /\ fut' = f /\ transfer' = tr
     /\ UNCHANGED <<queue, broken>>
  \/ /\ queue # <<>> /\ f[Head(queue)] = "pending"
     /\ queue' = Tail(queue)
     /\ fut' = [f EXCEPT ![Head(queue)] = "done"]
     /\ transfer' = TRUE
     /\ UNCHANGED broken
  \/ /\ queue # <<>> /\ f[Head(queue)] # "pending"
     /\ queue' = Tail(queue)
     /\ fut' = f /\ transfer' = tr
     /\ broken' = TRUE

----------------------------------------------------------------------------
(* The task's step after the await. *)

Wake(t) ==
  /\ fut[t] = "done" /\ t \notin mustCancel
  /\ owner' = t /\ count' = 1 /\ transfer' = FALSE
  /\ fut' = [fut EXCEPT ![t] = "none"]
  /\ held' = [held EXCEPT ![t] = @ + 1]
  /\ UNCHANGED <<queue, mustCancel, broken>>

CancelArrives(t) == fut[t] = "cancelled" \/ t \in mustCancel

\* except CancelledError: still queued, so the lock was not offered to t.
CancelledInQueueKept(t) ==
  /\ CancelArrives(t) /\ Contains(queue, t)
  /\ fut' = [fut EXCEPT ![t] = "none"]
  /\ mustCancel' = mustCancel \ {t}
  /\ UNCHANGED <<owner, count, transfer, queue, held, broken>>

CancelledInQueue(t) ==
  /\ CancelArrives(t)
  /\ \E k \in DOMAIN queue : queue[k] = t /\ queue' = RemoveAt(queue, k)
  /\ fut' = [fut EXCEPT ![t] = "none"]
  /\ mustCancel' = mustCancel \ {t}
  /\ UNCHANGED <<owner, count, transfer, held, broken>>

\* except ValueError: a release has popped t, so t takes the lock and passes it on.
CancelledNextInLineKept(t) ==
  /\ CancelArrives(t) /\ ~Contains(queue, t)
  /\ fut' = [fut EXCEPT ![t] = "none"]
  /\ mustCancel' = mustCancel \ {t}
  /\ UNCHANGED <<owner, count, transfer, queue, held, broken>>

CancelledNextInLine(t) ==
  /\ CancelArrives(t) /\ ~Contains(queue, t)
  /\ owner' = NoTask /\ count' = 0
  /\ HandOver([fut EXCEPT ![t] = "none"], FALSE)
  /\ mustCancel' = mustCancel \ {t}
  /\ UNCHANGED held

----------------------------------------------------------------------------
(* release(), called by a task that has something to release. *)

ReleaseInner(t) ==
  /\ Running(t) /\ held[t] > 0 /\ owner = t /\ count > 1
  /\ count' = count - 1
  /\ held' = [held EXCEPT ![t] = @ - 1]
  /\ UNCHANGED <<owner, transfer, queue, fut, mustCancel, broken>>

ReleaseOuter(t) ==
  /\ Running(t) /\ held[t] > 0 /\ owner = t /\ count = 1
  /\ owner' = NoTask /\ count' = 0
  /\ HandOver(fut, transfer)
  /\ held' = [held EXCEPT ![t] = @ - 1]
  /\ UNCHANGED mustCancel

\* RuntimeError: the lock is no longer t's, and t leaves its critical section.
ReleaseRefused(t) ==
  /\ Running(t) /\ held[t] > 0 /\ owner # t
  /\ held' = [held EXCEPT ![t] = @ - 1]
  /\ UNCHANGED <<owner, count, transfer, queue, fut, mustCancel, broken>>

----------------------------------------------------------------------------
(* Task.cancel() from outside, on a task suspended in acquire(). *)

Cancel(t) ==
  /\ \/ fut[t] = "pending" /\ fut' = [fut EXCEPT ![t] = "cancelled"] /\ UNCHANGED mustCancel
     \/ fut[t] = "done" /\ mustCancel' = mustCancel \union {t} /\ UNCHANGED fut
  /\ UNCHANGED <<owner, count, transfer, queue, held, broken>>

Resume(t) == Wake(t) \/ CancelledInQueue(t) \/ CancelledNextInLine(t)

Release(t) == ReleaseInner(t) \/ ReleaseOuter(t) \/ ReleaseRefused(t)

Next == \E t \in Tasks : \/ AcquireReentrant(t) \/ AcquireFree(t) \/ Enqueue(t)
                         \/ Resume(t) \/ Release(t) \/ Cancel(t)

Spec == Init /\ [][Next]_vars

(* The event loop runs every scheduled task, and every critical section ends
   however often its task nests acquires inside it (strong fairness: a task
   that keeps re-entering enables its outermost release again and again). *)
Fairness == \A t \in Tasks : /\ WF_vars(Resume(t))
                             /\ WF_vars(Release(t))
                             /\ SF_vars(ReleaseOuter(t))

FairSpec == Spec /\ Fairness

----------------------------------------------------------------------------
(* Properties. *)

TypeOK ==
  /\ owner \in Tasks \union {NoTask}
  /\ count \in 0 .. MaxDepth
  /\ transfer \in BOOLEAN /\ broken \in BOOLEAN
  /\ queue \in Seq(Tasks)
  /\ \A i, j \in DOMAIN queue : queue[i] = queue[j] => i = j
  /\ fut \in [Tasks -> {"none", "pending", "done", "cancelled"}]
  /\ mustCancel \subseteq Tasks
  /\ held \in [Tasks -> 0 .. MaxDepth]

(* Two tasks are never inside at once (_locks.py: an async lock; release()
   refuses a foreign owner).  False of the code: see MutualExclusionUntilBroken. *)
MutualExclusion == \A t, u \in Tasks : held[t] > 0 /\ held[u] > 0 => t = u

(* As long as no release has met a cancelled future, the lock excludes, through
   every interleaving of acquires, releases, wake-ups and cancellations. *)
MutualExclusionUntilBroken == broken \/ MutualExclusion

(* As long as no release has met a cancelled future, what a task believes it
   holds is what the lock records, so no release() of a task that acquired the
   lock is refused. *)
OwnerIsInside ==
  broken \/ \A t \in Tasks : held[t] = IF owner = t THEN count ELSE 0

(* _owner_transfer shuts out every newcomer; it is set only while some task
   whose future was resolved is still to run and clear it.  This one survives
   the broken handover. *)
TransferHasATaker == transfer => \E t \in Tasks : fut[t] = "done"

(* A task that waits is let in or, if cancelled, leaves: no handover is lost. *)
NobodyWaitsForever == \A t \in Tasks : fut[t] # "none" ~> fut[t] = "none"

\* The task that was offered the lock is still first in line.
Line == IF transfer THEN <<CHOOSE t \in Tasks : fut[t] = "done">> \o queue ELSE queue

Mutex == INSTANCE FairMutex WITH line <- Line

(* Until a release meets a cancelled future, every step is a step of the fair
   mutex ("Fair means that it respects the order of acquisition"): waiting
   tasks enter in the order in which they joined, and nobody passes them. *)
ImplementsFairMutex == Mutex!Init /\ [][broken' \/ Mutex!Next]_<<held, Line>>
=============================================================================
