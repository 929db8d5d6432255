---------------------------- MODULE LockProofs ----------------------------
(***************************************************************************)
(* Proofs about the locks: the fair re-entrant lock of one event loop      *)
(* (FairAsyncRLock), the pool of named locks (NamedLockPool) and the gated *)
(* lock of several processes (DistributedLock).                            *)
(***************************************************************************)
EXTENDS FairAsyncRLock, NamedLockPool, DistributedLock, FiniteSetTheorems, SequenceTheorems, TLAPS

----------------------------------------------------------------------------
(* Proofs about FairAsyncRLock, for every set of tasks and every depth.
   
   Mutual exclusion is not inductive: that a woken task finds the lock free
   rests on there being one resolved future at a time, announced by
   transfer, and that a cancelled task which is no longer queued was the
   one offered the lock rests on the queue holding exactly the futures that
   are not resolved.  The second half of the invariant says so, and holds
   until a release meets a cancelled future; the first half always holds. *)


\* The queue holds only unresolved futures, and a waiting task has room to enter.
QueueOK ==
  /\ \A k \in DOMAIN queue : fut[queue[k]] \in {"pending", "cancelled"}
  /\ \A t \in Tasks : fut[t] # "none" => held[t] < MaxDepth

\* An offer is in flight exactly while transfer is set, to one task, with the
\* lock free; every unresolved future is queued.
OfferOK ==
  /\ owner = NoTask <=> count = 0
  /\ transfer => owner = NoTask
  /\ \A t \in Tasks : fut[t] = "done" => transfer
  /\ \A t, u \in Tasks : fut[t] = "done" /\ fut[u] = "done" => t = u
  /\ \A t \in Tasks : fut[t] \in {"pending", "cancelled"} => \E k \in DOMAIN queue : queue[k] = t
  /\ \A t \in mustCancel : fut[t] = "done"

IInv == TypeOK /\ QueueOK /\ TransferHasATaker /\ (broken \/ OfferOK) /\ OwnerIsInside

----------------------------------------------------------------------------
(* Sequences. *)

\* What is left when element k is taken out: the elements before and after it.
LEMMA RemoveAtElements ==
  ASSUME NEW S, NEW q \in Seq(S), NEW k \in DOMAIN q
  PROVE  /\ RemoveAt(q, k) \in Seq(S)
         /\ Len(RemoveAt(q, k)) = Len(q) - 1
         /\ \A i \in 1 .. Len(q) - 1 : RemoveAt(q, k)[i] = IF i < k THEN q[i] ELSE q[i + 1]
<1> DEFINE a == SubSeq(q, 1, k - 1)
           b == SubSeq(q, k + 1, Len(q))
<1>1. k \in 1 .. Len(q) /\ Len(q) \in Nat
  OBVIOUS
<1>2. a \in Seq(S) /\ Len(a) = k - 1 /\ \A i \in 1 .. k - 1 : a[i] = q[i]
  BY <1>1
<1>3. b \in Seq(S) /\ Len(b) = Len(q) - k /\ \A i \in 1 .. Len(q) - k : b[i] = q[k + i]
  BY <1>1
<1>4. RemoveAt(q, k) = a \o b
  BY DEF RemoveAt
<1> HIDE DEF a, b
<1>5. /\ a \o b \in Seq(S)
      /\ Len(a \o b) = Len(a) + Len(b)
      /\ \A i \in 1 .. Len(a) + Len(b) : (a \o b)[i] = IF i <= Len(a) THEN a[i] ELSE b[i - Len(a)]
  BY <1>2, <1>3, ConcatProperties
<1>6. ASSUME NEW i \in 1 .. Len(q) - 1
      PROVE  (a \o b)[i] = IF i < k THEN q[i] ELSE q[i + 1]
  <2>1. CASE i < k
    BY <2>1, <1>1, <1>2, <1>3, <1>5, SMTT(30)
  <2>2. CASE ~(i < k)
    <3>1. (a \o b)[i] = b[i - (k - 1)]
      <4>1. i \in 1 .. Len(a) + Len(b) /\ ~(i <= Len(a))
        BY <2>2, <1>1, <1>2, <1>3
      <4> QED
        BY <4>1, <1>2, <1>5
    <3>2. i - (k - 1) \in 1 .. Len(q) - k /\ k + (i - (k - 1)) = i + 1
      BY <2>2, <1>1
    <3>3. b[i - (k - 1)] = q[k + (i - (k - 1))]
      BY <3>2, <1>3
    <3> QED
      BY <2>2, <3>1, <3>2, <3>3
  <2> QED
    BY <2>1, <2>2
<1> QED
  BY SMTT(60), <1>1, <1>2, <1>3, <1>4, <1>5, <1>6

----------------------------------------------------------------------------
(* Each action preserves the invariant. *)

\* The lock starts free, with nobody waiting.
LEMMA InitIInv == Init => IInv
<1> SUFFICES ASSUME Init PROVE IInv
  OBVIOUS
<1>1. TypeOK
  <2>1. queue \in Seq(Tasks) /\ DOMAIN queue = {}
    BY DEF Init
  <2>2. 0 \in 0 .. MaxDepth
    BY DepthAssumption
  <2> QED
    BY <2>1, <2>2 DEF Init, TypeOK
<1>2. QueueOK /\ TransferHasATaker /\ OwnerIsInside
  BY NoTaskAssumption DEF Init, QueueOK, TransferHasATaker, OwnerIsInside
<1>3. OfferOK
  BY DEF Init, OfferOK
<1> QED
  BY <1>1, <1>2, <1>3 DEF IInv

\* The owner acquires once more.
LEMMA AcquireReentrantIInv == ASSUME IInv, NEW t \in Tasks, AcquireReentrant(t) PROVE IInv'
BY NoTaskAssumption, DepthAssumption
   DEF AcquireReentrant, Running, IInv, TypeOK, QueueOK, TransferHasATaker, OfferOK, OwnerIsInside

\* A newcomer finds the lock free, and so nobody is inside.
LEMMA AcquireFreeIInv == ASSUME IInv, NEW t \in Tasks, AcquireFree(t) PROVE IInv'
BY NoTaskAssumption, DepthAssumption
   DEF AcquireFree, Running, IInv, TypeOK, QueueOK, TransferHasATaker, OfferOK, OwnerIsInside

\* A newcomer joins the queue, in which it was not.
LEMMA EnqueueIInv == ASSUME IInv, NEW t \in Tasks, Enqueue(t) PROVE IInv'
<1> USE DEF Enqueue, Running
<1>1. /\ queue' \in Seq(Tasks) /\ Len(queue') = Len(queue) + 1
      /\ \A k \in DOMAIN queue : queue'[k] = queue[k]
      /\ queue'[Len(queue) + 1] = t
      /\ DOMAIN queue' = DOMAIN queue \union {Len(queue) + 1}
  BY DEF IInv, TypeOK
<1>2. \A k \in DOMAIN queue : queue[k] # t
  BY DEF IInv, TypeOK, QueueOK
<1>3. /\ fut' \in [Tasks -> {"none", "pending", "done", "cancelled"}]
      /\ fut'[t] = "pending" /\ \A u \in Tasks \ {t} : fut'[u] = fut[u]
  BY DEF IInv, TypeOK
<1>4. TypeOK'
  BY <1>1, <1>2, <1>3 DEF IInv, TypeOK
<1>5. QueueOK'
  BY <1>1, <1>2, <1>3 DEF IInv, TypeOK, QueueOK
<1>6. TransferHasATaker'
  BY <1>3 DEF IInv, TransferHasATaker
<1>7. OwnerIsInside'
  BY DEF IInv, OwnerIsInside
<1>8. ASSUME OfferOK, ~broken PROVE OfferOK'
  <2>1. \A u \in Tasks : fut'[u] = "done" => fut[u] = "done"
    BY <1>3
  <2>2. ASSUME NEW u \in Tasks, fut'[u] \in {"pending", "cancelled"}
        PROVE  \E k \in DOMAIN queue' : queue'[k] = u
    BY <1>1, <1>3, <1>8, <2>2 DEF OfferOK
  <2>3. \A u \in mustCancel' : fut'[u] = "done"
    BY <1>3, <1>8 DEF OfferOK, IInv, TypeOK
  <2> QED
    BY <1>8, <2>1, <2>2, <2>3 DEF OfferOK
<1> QED
  BY <1>4, <1>5, <1>6, <1>7, <1>8 DEF IInv

\* The task the lock was handed to takes it.
LEMMA WakeIInv == ASSUME IInv, NEW t \in Tasks, Wake(t) PROVE IInv'
<1> USE DEF Wake
<1>1. /\ fut' \in [Tasks -> {"none", "pending", "done", "cancelled"}]
      /\ fut'[t] = "none" /\ \A u \in Tasks \ {t} : fut'[u] = fut[u]
  BY DEF IInv, TypeOK
<1>2. held[t] < MaxDepth
  BY DEF IInv, QueueOK
<1>3. /\ held' \in [Tasks -> 0 .. MaxDepth]
      /\ held'[t] = held[t] + 1 /\ \A u \in Tasks \ {t} : held'[u] = held[u]
  BY <1>2, DepthAssumption DEF IInv, TypeOK
<1>4. TypeOK'
  <2>1. 1 \in 0 .. MaxDepth
    BY DepthAssumption
  <2> QED
    BY <1>1, <1>3, <2>1 DEF IInv, TypeOK
<1>5. QueueOK'
  BY <1>1, <1>3 DEF IInv, TypeOK, QueueOK
<1>6. TransferHasATaker'
  BY DEF TransferHasATaker
<1>7. ASSUME OfferOK, ~broken PROVE OwnerIsInside' /\ OfferOK'
  <2>1. owner = NoTask /\ count = 0
    BY <1>7 DEF OfferOK
  <2>2. \A u \in Tasks : held[u] = 0
    BY <1>7, <2>1, NoTaskAssumption DEF IInv, OwnerIsInside
  <2>3. OwnerIsInside'
    BY <1>3, <2>2 DEF OwnerIsInside
  <2>4. \A u \in Tasks : fut'[u] # "done"
    BY <1>1, <1>7 DEF OfferOK
  <2>5. \A u \in mustCancel' : fut'[u] = "done"
    BY <1>1, <1>7 DEF OfferOK, IInv, TypeOK
  <2>6. \A u \in Tasks : fut'[u] \in {"pending", "cancelled"} => \E k \in DOMAIN queue' : queue'[k] = u
    BY <1>1, <1>7 DEF OfferOK
  <2> QED
    BY <2>3, <2>4, <2>5, <2>6, NoTaskAssumption DEF OfferOK
<1>8. CASE broken
  BY <1>4, <1>5, <1>6, <1>8 DEF IInv, OwnerIsInside
<1>9. CASE ~broken
  BY <1>4, <1>5, <1>6, <1>7, <1>9 DEF IInv
<1> QED
  BY <1>8, <1>9

\* The owner gives back one of several acquires.
LEMMA ReleaseInnerIInv == ASSUME IInv, NEW t \in Tasks, ReleaseInner(t) PROVE IInv'
BY NoTaskAssumption, DepthAssumption
   DEF ReleaseInner, Running, IInv, TypeOK, QueueOK, TransferHasATaker, OfferOK, OwnerIsInside

(* The handover, from futures f and transfer flag tr in which nothing is on
   offer: it keeps the queue's shape, and if it does not raise it leaves at
   most one resolved future, announced by transfer. *)
LEMMA HandOverStep ==
  ASSUME TypeOK, NEW f \in [Tasks -> {"none", "pending", "done", "cancelled"}], NEW tr \in BOOLEAN,
         \A k \in DOMAIN queue : f[queue[k]] \in {"pending", "cancelled"},
         HandOver(f, tr)
  PROVE  /\ queue' \in Seq(Tasks) /\ transfer' \in BOOLEAN /\ broken' \in BOOLEAN
         /\ \A i, j \in DOMAIN queue' : queue'[i] = queue'[j] => i = j
         /\ fut' \in [Tasks -> {"none", "pending", "done", "cancelled"}]
         /\ \A k \in DOMAIN queue' : fut'[queue'[k]] \in {"pending", "cancelled"}
         /\ \A u \in Tasks : fut'[u] = "none" <=> f[u] = "none"
         /\ \A u \in Tasks : f[u] = "done" => fut'[u] = "done"
         /\ transfer' => tr \/ \E u \in Tasks : fut'[u] = "done"
         /\ broken => broken'
         /\ (/\ ~broken' /\ ~tr /\ \A u \in Tasks : f[u] # "done"
             /\ \A u \in Tasks : f[u] \in {"pending", "cancelled"} => \E k \in DOMAIN queue : queue[k] = u)
            => /\ \A u \in Tasks : fut'[u] = "done" => transfer'
               /\ \A u, v \in Tasks : fut'[u] = "done" /\ fut'[v] = "done" => u = v
               /\ \A u \in Tasks : fut'[u] \in {"pending", "cancelled"} => \E k \in DOMAIN queue' : queue'[k] = u
<1>1. CASE queue = <<>>
  BY <1>1 DEF HandOver, TypeOK
<1>2. CASE queue # <<>>
  <2>1. /\ Head(queue) = queue[1] /\ queue[1] \in Tasks
        /\ queue' = Tail(queue) /\ queue' \in Seq(Tasks)
        /\ Len(queue) \in Nat \ {0} /\ Len(queue') = Len(queue) - 1
        /\ \A k \in 1 .. Len(queue') : queue'[k] = queue[k + 1]
    <3>1. queue' = Tail(queue) /\ queue \in Seq(Tasks)
      BY <1>2 DEF HandOver, TypeOK
    <3>2. Len(queue) \in Nat \ {0} /\ Head(queue) = queue[1] /\ queue[1] \in Tasks
      BY <1>2, <3>1
    <3> QED
      BY <1>2, <3>1, <3>2, HeadTailProperties
  <2>2. DOMAIN queue = 1 .. Len(queue) /\ DOMAIN queue' = 1 .. Len(queue')
    BY <2>1 DEF TypeOK
  <2>3. \A i, j \in DOMAIN queue' : queue'[i] = queue'[j] => i = j
    <3> SUFFICES ASSUME NEW i \in DOMAIN queue', NEW j \in DOMAIN queue', queue'[i] = queue'[j]
                 PROVE  i = j
      OBVIOUS
    <3>1. i + 1 \in DOMAIN queue /\ j + 1 \in DOMAIN queue /\ i \in Nat /\ j \in Nat
      BY <2>1, <2>2
    <3>2. queue[i + 1] = queue[j + 1]
      BY <2>1, <2>2
    <3> QED
      BY <3>1, <3>2 DEF TypeOK
  <2>4. \A k \in DOMAIN queue' : queue'[k] # queue[1] /\ f[queue'[k]] \in {"pending", "cancelled"}
    <3> SUFFICES ASSUME NEW k \in DOMAIN queue'
                 PROVE  queue'[k] # queue[1] /\ f[queue'[k]] \in {"pending", "cancelled"}
      OBVIOUS
    <3>1. k + 1 \in DOMAIN queue /\ 1 \in DOMAIN queue /\ k + 1 # 1 /\ queue'[k] = queue[k + 1]
      BY <2>1, <2>2
    <3> QED
      BY <3>1 DEF TypeOK
  <2>5. \A u \in Tasks : (\E k \in DOMAIN queue : queue[k] = u) => u = queue[1] \/ \E k \in DOMAIN queue' : queue'[k] = u
    <3> SUFFICES ASSUME NEW k \in DOMAIN queue
                 PROVE  queue[k] = queue[1] \/ \E l \in DOMAIN queue' : queue'[l] = queue[k]
      OBVIOUS
    <3>1. CASE k = 1
      BY <3>1
    <3>2. CASE k # 1
      <4>1. k - 1 \in DOMAIN queue' /\ queue'[k - 1] = queue[(k - 1) + 1] /\ (k - 1) + 1 = k
        BY <3>2, <2>1, <2>2
      <4> QED
        BY <4>1
    <3> QED
      BY <3>1, <3>2
  <2>6. f[queue[1]] \in {"pending", "cancelled"}
    BY <2>1, <2>2
  <2>7. CASE f[queue[1]] = "pending"
    <3>1. /\ transfer' = TRUE /\ broken' = broken
          /\ fut' \in [Tasks -> {"none", "pending", "done", "cancelled"}]
          /\ fut'[queue[1]] = "done" /\ \A u \in Tasks \ {queue[1]} : fut'[u] = f[u]
      BY <1>2, <2>1, <2>7 DEF HandOver
    <3> QED
      BY <2>1, <2>3, <2>4, <2>5, <2>7, <3>1 DEF TypeOK
  <2>8. CASE f[queue[1]] # "pending"
    <3>1. transfer' = tr /\ broken' = TRUE /\ fut' = f
      BY <1>2, <2>1, <2>8 DEF HandOver
    <3> QED
      BY <2>1, <2>3, <2>4, <3>1
  <2> QED
    BY <2>7, <2>8
<1> QED
  BY <1>1, <1>2

\* The owner gives back its last acquire and hands the lock over.
LEMMA ReleaseOuterIInv == ASSUME IInv, NEW t \in Tasks, ReleaseOuter(t) PROVE IInv'
<1> USE DEF ReleaseOuter, Running
<1> DEFINE S == {"none", "pending", "done", "cancelled"}
<1>1. HandOver(fut, transfer) /\ TypeOK /\ fut \in [Tasks -> S] /\ transfer \in BOOLEAN
  BY DEF IInv, TypeOK
<1>2. \A k \in DOMAIN queue : fut[queue[k]] \in {"pending", "cancelled"}
  BY DEF IInv, QueueOK
<1>3. /\ held' \in [Tasks -> 0 .. MaxDepth]
      /\ held'[t] = held[t] - 1 /\ \A u \in Tasks \ {t} : held'[u] = held[u]
  <2>1. held \in [Tasks -> 0 .. MaxDepth] /\ held[t] - 1 \in 0 .. MaxDepth
    BY DepthAssumption DEF IInv, TypeOK
  <2>2. held' = [held EXCEPT ![t] = held[t] - 1]
    OBVIOUS
  <2> QED
    BY <2>1, <2>2
<1>4. 0 \in 0 .. MaxDepth
  BY DepthAssumption
<1>5. TypeOK'
  BY <1>1, <1>2, <1>3, <1>4, HandOverStep DEF TypeOK
<1>6. QueueOK'
  <2>1. \A u \in Tasks : held'[u] <= held[u]
    BY <1>3 DEF IInv, TypeOK
  <2>2. \A u \in Tasks : fut'[u] # "none" => fut[u] # "none"
    BY <1>1, <1>2, HandOverStep
  <2>3. \A u \in Tasks : fut'[u] # "none" => held'[u] < MaxDepth
    <3>1. \A u \in Tasks : held[u] \in Nat /\ held'[u] \in Nat
      BY <1>3 DEF IInv, TypeOK
    <3> QED
      BY <2>1, <2>2, <3>1, DepthAssumption DEF IInv, QueueOK
  <2> QED
    BY <2>3, <1>1, <1>2, HandOverStep DEF QueueOK
<1>7. TransferHasATaker'
  BY <1>1, <1>2, HandOverStep DEF IInv, TransferHasATaker
<1>8. ASSUME ~broken' PROVE OfferOK' /\ OwnerIsInside'
  <2>1. ~broken /\ OfferOK
    BY <1>1, <1>2, <1>8, HandOverStep DEF IInv
  <2>2. ~transfer /\ \A u \in Tasks : fut[u] # "done"
    BY <2>1, NoTaskAssumption DEF OfferOK
  <2>3. OwnerIsInside'
    BY <2>1, <1>3, NoTaskAssumption DEF IInv, OwnerIsInside
  <2>4. mustCancel' = {}
    BY <2>1, <2>2 DEF OfferOK, IInv, TypeOK
  <2>5. \A u \in Tasks : fut[u] \in {"pending", "cancelled"} => \E k \in DOMAIN queue : queue[k] = u
    BY <2>1 DEF OfferOK
  <2> QED
    BY <1>1, <1>2, <1>8, <2>2, <2>3, <2>4, <2>5, HandOverStep DEF OfferOK
<1> QED
  BY <1>5, <1>6, <1>7, <1>8 DEF IInv, OwnerIsInside

\* A task that was handed the lock is cancelled and passes the lock on.
LEMMA CancelledNextInLineIInv == ASSUME IInv, NEW t \in Tasks, CancelledNextInLine(t) PROVE IInv'
<1> USE DEF CancelledNextInLine
<1> DEFINE S == {"none", "pending", "done", "cancelled"}
           f == [fut EXCEPT ![t] = "none"]
<1>1. HandOver(f, FALSE) /\ TypeOK
  BY DEF IInv
<1>2. f \in [Tasks -> S] /\ f[t] = "none" /\ \A u \in Tasks \ {t} : f[u] = fut[u]
  BY DEF IInv, TypeOK
<1>3. \A k \in DOMAIN queue : queue[k] # t
  BY DEF Contains, IInv, TypeOK
<1>4. \A k \in DOMAIN queue : f[queue[k]] \in {"pending", "cancelled"}
  BY <1>2, <1>3 DEF IInv, QueueOK, TypeOK
<1> HIDE DEF f
<1>5. 0 \in 0 .. MaxDepth
  BY DepthAssumption
<1>6. TypeOK'
  BY <1>1, <1>2, <1>4, <1>5, HandOverStep DEF TypeOK
<1>7. QueueOK'
  <2>1. \A u \in Tasks : fut'[u] # "none" => fut[u] # "none"
    BY <1>1, <1>2, <1>4, HandOverStep
  <2> QED
    BY <2>1, <1>1, <1>2, <1>4, HandOverStep DEF IInv, QueueOK
<1>8. TransferHasATaker'
  BY <1>1, <1>2, <1>4, HandOverStep DEF TransferHasATaker
<1>9. ASSUME ~broken' PROVE OfferOK' /\ OwnerIsInside'
  <2>1. ~broken /\ OfferOK
    BY <1>1, <1>2, <1>4, <1>9, HandOverStep DEF IInv
  <2>2. fut[t] = "done"
    BY <2>1, <1>3 DEF CancelArrives, OfferOK
  <2>3. transfer /\ owner = NoTask /\ count = 0
    BY <2>1, <2>2 DEF OfferOK
  <2>4. OwnerIsInside'
    BY <2>1, <2>3 DEF IInv, OwnerIsInside
  <2>5. \A u \in Tasks : f[u] # "done"
    BY <2>1, <2>2, <1>2 DEF OfferOK
  <2>6. \A u \in Tasks : f[u] \in {"pending", "cancelled"} => \E k \in DOMAIN queue : queue[k] = u
    BY <2>1, <1>2 DEF OfferOK
  <2>7. mustCancel' = {}
    BY <2>1, <2>2 DEF OfferOK, IInv, TypeOK
  <2> QED
    BY <1>1, <1>2, <1>4, <1>9, <2>4, <2>5, <2>6, <2>7, HandOverStep DEF OfferOK
<1> QED
  BY <1>6, <1>7, <1>8, <1>9 DEF IInv, OwnerIsInside

\* A cancelled task leaves the queue.
LEMMA CancelledInQueueIInv == ASSUME IInv, NEW t \in Tasks, CancelledInQueue(t) PROVE IInv'
<1> USE DEF CancelledInQueue
<1>1. PICK k \in DOMAIN queue : queue[k] = t /\ queue' = RemoveAt(queue, k)
  OBVIOUS
<1>2. /\ queue' \in Seq(Tasks) /\ Len(queue') = Len(queue) - 1
      /\ \A i \in 1 .. Len(queue) - 1 : queue'[i] = IF i < k THEN queue[i] ELSE queue[i + 1]
  <2>1. queue \in Seq(Tasks)
    BY DEF IInv, TypeOK
  <2> HIDE DEF CancelledInQueue
  <2> QED
    BY <1>1, <2>1, RemoveAtElements
<1>3. DOMAIN queue = 1 .. Len(queue) /\ DOMAIN queue' = 1 .. Len(queue) - 1 /\ Len(queue) \in Nat
  BY <1>2 DEF IInv, TypeOK
<1>4. ASSUME NEW i \in DOMAIN queue'
      PROVE  \E j \in DOMAIN queue \ {k} : queue'[i] = queue[j] /\ j = IF i < k THEN i ELSE i + 1
  BY <1>1, <1>2, <1>3
<1>5. ASSUME NEW j \in DOMAIN queue \ {k} PROVE \E i \in DOMAIN queue' : queue'[i] = queue[j]
  <2>1. CASE j < k
    BY <1>2, <1>3, <2>1
  <2>2. CASE j > k
    <3>1. j - 1 \in DOMAIN queue' /\ ~(j - 1 < k) /\ (j - 1) + 1 = j
      BY <1>3, <2>2
    <3> QED
      BY <1>2, <1>3, <3>1
  <2> QED
    BY <1>3, <2>1, <2>2
<1>6. /\ fut' \in [Tasks -> {"none", "pending", "done", "cancelled"}]
      /\ fut'[t] = "none" /\ \A u \in Tasks \ {t} : fut'[u] = fut[u]
  BY DEF IInv, TypeOK
<1>7. fut[t] # "done"
  BY <1>1 DEF IInv, QueueOK
<1>8. TypeOK'
  <2>1. \A i, j \in DOMAIN queue' : queue'[i] = queue'[j] => i = j
    <3> SUFFICES ASSUME NEW i \in DOMAIN queue', NEW j \in DOMAIN queue', queue'[i] = queue'[j]
                 PROVE  i = j
      OBVIOUS
    <3>1. PICK i1 \in DOMAIN queue \ {k} : queue'[i] = queue[i1] /\ i1 = IF i < k THEN i ELSE i + 1
      BY <1>4
    <3>2. PICK j1 \in DOMAIN queue \ {k} : queue'[j] = queue[j1] /\ j1 = IF j < k THEN j ELSE j + 1
      BY <1>4
    <3>3. i1 = j1
      BY <3>1, <3>2 DEF IInv, TypeOK
    <3> QED
      BY <1>3, <3>1, <3>2, <3>3
  <2> QED
    BY <1>2, <1>6, <2>1 DEF IInv, TypeOK
<1>9. QueueOK'
  <2>1. \A i \in DOMAIN queue' : queue'[i] # t /\ \E j \in DOMAIN queue : queue'[i] = queue[j]
    BY <1>1, <1>4 DEF IInv, TypeOK
  <2> QED
    BY <1>6, <2>1 DEF IInv, QueueOK, TypeOK
<1>10. TransferHasATaker' /\ OwnerIsInside'
  BY <1>6, <1>7 DEF IInv, TransferHasATaker, OwnerIsInside
<1>11. ASSUME OfferOK PROVE OfferOK'
  <2>1. \A u \in Tasks : fut'[u] = "done" <=> fut[u] = "done"
    BY <1>6, <1>7
  <2>2. \A u \in Tasks : fut'[u] \in {"pending", "cancelled"} => \E i \in DOMAIN queue' : queue'[i] = u
    BY <1>1, <1>5, <1>6, <1>11 DEF OfferOK
  <2>3. \A u \in mustCancel' : fut'[u] = "done"
    BY <2>1, <1>11 DEF OfferOK, IInv, TypeOK
  <2> QED
    BY <1>11, <2>1, <2>2, <2>3 DEF OfferOK
<1> QED
  BY <1>8, <1>9, <1>10, <1>11 DEF IInv

\* A release by a task that lost the lock changes nothing of it.
LEMMA ReleaseRefusedIInv == ASSUME IInv, NEW t \in Tasks, ReleaseRefused(t) PROVE IInv'
BY NoTaskAssumption, DepthAssumption
   DEF ReleaseRefused, Running, IInv, TypeOK, QueueOK, TransferHasATaker, OfferOK, OwnerIsInside

\* A cancellation touches a future, or a task that was handed the lock.
LEMMA CancelIInv == ASSUME IInv, NEW t \in Tasks, Cancel(t) PROVE IInv'
<1>1. CASE fut[t] = "done" /\ mustCancel' = mustCancel \union {t} /\ UNCHANGED fut
  BY <1>1 DEF Cancel, IInv, TypeOK, QueueOK, TransferHasATaker, OfferOK, OwnerIsInside
<1>2. CASE fut[t] = "pending" /\ fut' = [fut EXCEPT ![t] = "cancelled"] /\ UNCHANGED mustCancel
  <2>1. /\ fut' \in [Tasks -> {"none", "pending", "done", "cancelled"}]
        /\ fut'[t] = "cancelled" /\ \A u \in Tasks \ {t} : fut'[u] = fut[u]
    BY <1>2 DEF IInv, TypeOK
  <2>2. \A u \in Tasks : (fut'[u] = "done" <=> fut[u] = "done")
    BY <1>2, <2>1
  <2>3. \A u \in Tasks : (fut'[u] \in {"pending", "cancelled"} <=> fut[u] \in {"pending", "cancelled"})
    BY <1>2, <2>1
  <2>4. TypeOK' /\ TransferHasATaker' /\ OwnerIsInside'
    BY <1>2, <2>1, <2>2 DEF Cancel, IInv, TypeOK, TransferHasATaker, OwnerIsInside
  <2>5. QueueOK'
    BY <1>2, <2>1, <2>3 DEF Cancel, IInv, TypeOK, QueueOK
  <2>6. ASSUME OfferOK PROVE OfferOK'
    BY <1>2, <2>1, <2>2, <2>3, <2>6 DEF Cancel, OfferOK, IInv, TypeOK
  <2> QED
    BY <2>4, <2>5, <2>6 DEF IInv, Cancel
<1> QED
  BY <1>1, <1>2 DEF Cancel

----------------------------------------------------------------------------
(* The theorems. *)

\* Every step keeps the invariant.
LEMMA NextIInv == IInv /\ [Next]_vars => IInv'
<1> SUFFICES ASSUME IInv, [Next]_vars PROVE IInv'
  OBVIOUS
<1>1. CASE UNCHANGED vars
  BY <1>1 DEF vars, IInv, TypeOK, QueueOK, TransferHasATaker, OfferOK, OwnerIsInside
<1>2. ASSUME NEW t \in Tasks, AcquireReentrant(t) \/ AcquireFree(t) \/ Enqueue(t) PROVE IInv'
  BY <1>2, AcquireReentrantIInv, AcquireFreeIInv, EnqueueIInv
<1>3. ASSUME NEW t \in Tasks, Resume(t) PROVE IInv'
  BY <1>3, WakeIInv, CancelledInQueueIInv, CancelledNextInLineIInv DEF Resume
<1>4. ASSUME NEW t \in Tasks, Release(t) PROVE IInv'
  BY <1>4, ReleaseInnerIInv, ReleaseOuterIInv, ReleaseRefusedIInv DEF Release
<1>5. ASSUME NEW t \in Tasks, Cancel(t) PROVE IInv'
  BY <1>5, CancelIInv
<1> QED
  BY <1>1, <1>2, <1>3, <1>4, <1>5 DEF Next

(* The inductive invariant holds in every reachable state of the lock. *)
THEOREM Invariance == Spec => []IInv
BY InitIInv, NextIInv, PTL DEF Spec

(* The lock's fields keep their types: in particular no task is queued twice,
   even after a release has met a cancelled future. *)
THEOREM TypeCorrect == Spec => []TypeOK
<1>1. IInv => TypeOK
  BY DEF IInv
<1> QED
  BY Invariance, <1>1, PTL

(* Until a release meets a cancelled future, two tasks are never inside at once. *)
THEOREM FairExclusion == Spec => []MutualExclusionUntilBroken
<1>1. IInv => MutualExclusionUntilBroken
  BY NoTaskAssumption DEF IInv, TypeOK, OwnerIsInside, MutualExclusionUntilBroken, MutualExclusion
<1> QED
  BY Invariance, <1>1, PTL

(* Until then the lock records exactly what its users believe, so that the
   release of a task that acquired the lock is never refused. *)
THEOREM OwnerAgrees == Spec => []OwnerIsInside
<1>1. IInv => OwnerIsInside
  BY DEF IInv
<1> QED
  BY Invariance, <1>1, PTL

(* The flag that shuts newcomers out always has a task that will clear it. *)
THEOREM TransferTaken == Spec => []TransferHasATaker
<1>1. IInv => TransferHasATaker
  BY DEF IInv
<1> QED
  BY Invariance, <1>1, PTL

----------------------------------------------------------------------------
(* The lock implements the fair mutex.  What it rests on beyond IInv is that *)
(* a lock that is neither held nor on offer has nobody waiting.              *)

NobodyLeftBehind == broken \/ count > 0 \/ transfer \/ queue = <<>>

Sound == IInv /\ NobodyLeftBehind

LEMMA StillNobodyLeftBehind ==
  ASSUME Sound, [Next]_vars
  PROVE  NobodyLeftBehind'
<1>1. TypeOK /\ NobodyLeftBehind /\ count \in Nat /\ queue \in Seq(Tasks)
  BY DepthAssumption DEF Sound, IInv, TypeOK
<1>2. CASE UNCHANGED vars
  BY <1>1, <1>2 DEF vars, NobodyLeftBehind
<1>3. ASSUME NEW f, NEW tr \in BOOLEAN, HandOver(f, tr) PROVE NobodyLeftBehind'
  BY <1>3 DEF HandOver, NobodyLeftBehind
<1>4. ASSUME NEW t \in Tasks, AcquireReentrant(t) PROVE NobodyLeftBehind'
  BY <1>1, <1>4 DEF AcquireReentrant, NobodyLeftBehind
<1>5. ASSUME NEW t \in Tasks, AcquireFree(t) PROVE NobodyLeftBehind'
  BY <1>5 DEF AcquireFree, NobodyLeftBehind
<1>6. ASSUME NEW t \in Tasks, Enqueue(t) PROVE NobodyLeftBehind'
  BY <1>1, <1>6 DEF Enqueue, NobodyLeftBehind
<1>7. ASSUME NEW t \in Tasks, Wake(t) PROVE NobodyLeftBehind'
  BY <1>7 DEF Wake, NobodyLeftBehind
<1>8. ASSUME NEW t \in Tasks, CancelledInQueue(t) PROVE NobodyLeftBehind'
  <2>1. queue # <<>>
    BY <1>8 DEF CancelledInQueue
  <2> QED
    BY <1>1, <1>8, <2>1 DEF CancelledInQueue, NobodyLeftBehind
<1>9. ASSUME NEW t \in Tasks, CancelledNextInLine(t) PROVE NobodyLeftBehind'
  BY <1>3, <1>9 DEF CancelledNextInLine
<1>10. ASSUME NEW t \in Tasks, ReleaseInner(t) PROVE NobodyLeftBehind'
  BY <1>1, <1>10 DEF ReleaseInner, NobodyLeftBehind
<1>11. ASSUME NEW t \in Tasks, ReleaseOuter(t) PROVE NobodyLeftBehind'
  <2>1. transfer \in BOOLEAN
    BY <1>1 DEF TypeOK
  <2> QED
    BY <1>3, <1>11, <2>1 DEF ReleaseOuter
<1>12. ASSUME NEW t \in Tasks, ReleaseRefused(t) PROVE NobodyLeftBehind'
  BY <1>1, <1>12 DEF ReleaseRefused, NobodyLeftBehind
<1>13. ASSUME NEW t \in Tasks, Cancel(t) PROVE NobodyLeftBehind'
  BY <1>1, <1>13 DEF Cancel, NobodyLeftBehind
<1> QED
  BY <1>2, <1>4, <1>5, <1>6, <1>7, <1>8, <1>9, <1>10, <1>11, <1>12, <1>13 DEF Next, Resume, Release

\* What the line of the mutex is, while no release has met a cancelled future.
LEMMA LineIs ==
  ASSUME IInv, ~broken
  PROVE  /\ ~transfer => Line = queue
         /\ \A t \in Tasks : fut[t] = "done" => transfer /\ Line = <<t>> \o queue
         /\ transfer => \E t \in Tasks : fut[t] = "done"
<1>1. OfferOK /\ TransferHasATaker
  BY DEF IInv
<1>2. ASSUME NEW t \in Tasks, fut[t] = "done" PROVE transfer /\ Line = <<t>> \o queue
  <2>1. transfer /\ \A u \in Tasks : fut[u] = "done" => u = t
    BY <1>1, <1>2 DEF OfferOK
  <2>2. (CHOOSE u \in Tasks : fut[u] = "done") = t
    BY <1>2, <2>1
  <2> QED
    BY <2>1, <2>2 DEF Line
<1> QED
  BY <1>1, <1>2 DEF Line, TransferHasATaker

\* Who is inside, and the line is in order.
LEMMA Abstracted ==
  ASSUME IInv, ~broken
  PROVE  /\ TypeOK /\ QueueOK /\ OfferOK /\ queue \in Seq(Tasks) /\ held \in [Tasks -> Nat]
         /\ count \in Nat /\ MaxDepth \in Nat \ {0}
         /\ \A t \in Tasks : held[t] = IF owner = t THEN count ELSE 0
         /\ count = 0 => Mutex!Inside = {}
         /\ count > 0 => Mutex!Inside # {}
<1>1. TypeOK /\ QueueOK /\ OfferOK /\ queue \in Seq(Tasks) /\ held \in [Tasks -> Nat]
      /\ count \in Nat /\ MaxDepth \in Nat \ {0}
  BY DepthAssumption DEF IInv, TypeOK
<1>2. \A t \in Tasks : held[t] = IF owner = t THEN count ELSE 0
  BY DEF IInv, OwnerIsInside
<1>3. count = 0 => Mutex!Inside = {}
  BY <1>2 DEF Mutex!Inside
<1>4. count > 0 => Mutex!Inside # {}
  <2>1. ASSUME count > 0 PROVE owner \in Tasks /\ held[owner] > 0
    BY <1>1, <1>2, <2>1 DEF OfferOK, TypeOK
  <2> QED
    BY <2>1 DEF Mutex!Inside
<1> QED
  BY <1>1, <1>2, <1>3, <1>4

\* A line with the task that was offered the lock in front.
LEMMA InFront ==
  ASSUME NEW S, NEW u \in S, NEW q \in Seq(S)
  PROVE  /\ <<u>> \o q \in Seq(S) /\ Len(<<u>> \o q) = Len(q) + 1 /\ DOMAIN (<<u>> \o q) = 1 .. Len(q) + 1
         /\ (<<u>> \o q)[1] = u /\ \A i \in 1 .. Len(q) : (<<u>> \o q)[i + 1] = q[i]
         /\ Head(<<u>> \o q) = u /\ Tail(<<u>> \o q) = q /\ <<u>> \o q # <<>>
<1>1. <<u>> \in Seq(S) /\ Len(<<u>>) = 1 /\ <<u>>[1] = u /\ Len(q) \in Nat
  OBVIOUS
<1> DEFINE l == <<u>> \o q
<1>2. /\ l \in Seq(S) /\ Len(l) = Len(q) + 1
      /\ \A i \in 1 .. Len(q) + 1 : l[i] = IF i <= 1 THEN <<u>>[i] ELSE q[i - 1]
  <2>1. Len(<<u>>) + Len(q) = Len(q) + 1
    BY <1>1
  <2> QED
    BY <1>1, <2>1, ConcatProperties
<1> HIDE DEF l
<1>3. l[1] = u
  BY <1>1, <1>2
<1>4. \A i \in 1 .. Len(q) : l[i + 1] = q[i]
  BY <1>1, <1>2
<1>5. DOMAIN l = 1 .. Len(q) + 1 /\ l # <<>> /\ Head(l) = l[1]
  BY <1>1, <1>2
<1>6. Tail(l) = q
  <2>1. /\ Tail(l) \in Seq(S) /\ Len(Tail(l)) = Len(l) - 1
        /\ \A i \in 1 .. Len(Tail(l)) : Tail(l)[i] = l[i + 1]
    BY <1>2, <1>5, HeadTailProperties
  <2>2. Len(Tail(l)) = Len(q)
    BY <1>1, <1>2, <2>1
  <2>3. \A i \in 1 .. Len(Tail(l)) : Tail(l)[i] = q[i]
    BY <1>4, <2>1, <2>2
  <2> QED
    BY <2>1, <2>2, <2>3, SeqEqual
<1> QED
  BY <1>2, <1>3, <1>4, <1>5, <1>6 DEF l

\* Taking out somebody behind the front, and taking out the front.
LEMMA RemoveBehind ==
  ASSUME NEW S, NEW u \in S, NEW q \in Seq(S), NEW k \in DOMAIN q
  PROVE  RemoveAt(<<u>> \o q, k + 1) = <<u>> \o RemoveAt(q, k)
<1> DEFINE l == <<u>> \o q
           m == RemoveAt(q, k)
           a == RemoveAt(l, k + 1)
           b == <<u>> \o m
<1>1. Len(q) \in Nat /\ k \in 1 .. Len(q)
  OBVIOUS
<1>2. /\ l \in Seq(S) /\ Len(l) = Len(q) + 1 /\ DOMAIN l = 1 .. Len(q) + 1
      /\ l[1] = u /\ \A i \in 1 .. Len(q) : l[i + 1] = q[i]
  BY InFront
<1>3. m \in Seq(S) /\ Len(m) = Len(q) - 1 /\ \A i \in 1 .. Len(q) - 1 : m[i] = IF i < k THEN q[i] ELSE q[i + 1]
  BY RemoveAtElements
<1> HIDE DEF l, m
<1>4. k + 1 \in DOMAIN l
  BY <1>1, <1>2
<1>5. a \in Seq(S) /\ Len(a) = Len(l) - 1 /\ \A i \in 1 .. Len(l) - 1 : a[i] = IF i < k + 1 THEN l[i] ELSE l[i + 1]
  BY <1>2, <1>4, RemoveAtElements
<1>6. /\ b \in Seq(S) /\ Len(b) = Len(m) + 1 /\ b[1] = u /\ \A i \in 1 .. Len(m) : b[i + 1] = m[i]
  BY <1>3, InFront
<1> HIDE DEF a, b
<1>7. Len(a) = Len(b) /\ Len(a) = Len(q)
  BY <1>1, <1>2, <1>3, <1>5, <1>6
<1>8. ASSUME NEW i \in 1 .. Len(a) PROVE a[i] = b[i]
  <2>1. CASE i = 1
    BY <1>1, <1>2, <1>5, <1>6, <1>7, <2>1
  <2>2. CASE i # 1
    <3> DEFINE j == i - 1
    <3>1. j \in 1 .. Len(q) - 1 /\ j + 1 = i /\ j \in 1 .. Len(m) /\ (i < k + 1 <=> j < k)
      BY <1>1, <1>3, <1>7, <1>8, <2>2
    <3>2. b[i] = m[j]
      BY <1>6, <3>1
    <3>3. a[i] = IF j < k THEN l[i] ELSE l[i + 1]
      BY <1>2, <1>5, <1>7, <1>8, <3>1
    <3>4. l[i] = q[j] /\ l[i + 1] = q[j + 1]
      <4>1. j \in 1 .. Len(q) /\ i \in 1 .. Len(q)
        BY <1>1, <1>7, <1>8, <3>1
      <4> QED
        BY <1>2, <3>1, <4>1, SMTT(30)
    <3> QED
      BY <1>3, <3>1, <3>2, <3>3, <3>4
  <2> QED
    BY <2>1, <2>2
<1>9. a = b
  BY <1>5, <1>6, <1>7, <1>8, SeqEqual
<1> QED
  BY <1>9 DEF a, b, l, m

LEMMA RemoveFront ==
  ASSUME NEW S, NEW u \in S, NEW q \in Seq(S)
  PROVE  RemoveAt(<<u>> \o q, 1) = q
<1> DEFINE l == <<u>> \o q
           a == RemoveAt(l, 1)
<1>1. /\ l \in Seq(S) /\ Len(l) = Len(q) + 1 /\ DOMAIN l = 1 .. Len(q) + 1 /\ Len(q) \in Nat
      /\ \A i \in 1 .. Len(q) : l[i + 1] = q[i]
  BY InFront
<1> HIDE DEF l
<1>2. 1 \in DOMAIN l
  BY <1>1
<1>3. a \in Seq(S) /\ Len(a) = Len(l) - 1 /\ \A i \in 1 .. Len(l) - 1 : a[i] = IF i < 1 THEN l[i] ELSE l[i + 1]
  BY <1>1, <1>2, RemoveAtElements
<1> HIDE DEF a
<1>4. Len(a) = Len(q) /\ \A i \in 1 .. Len(a) : a[i] = q[i]
  BY <1>1, <1>3
<1>5. a = q
  BY <1>3, <1>4, SeqEqual
<1> QED
  BY <1>5 DEF a, l

\* Appending goes behind the front.
LEMMA AppendBehind ==
  ASSUME NEW S, NEW u \in S, NEW t \in S, NEW q \in Seq(S)
  PROVE  <<u>> \o Append(q, t) = Append(<<u>> \o q, t)
<1> DEFINE l == <<u>> \o q
           m == Append(q, t)
           a == <<u>> \o m
           b == Append(l, t)
<1>1. /\ l \in Seq(S) /\ Len(l) = Len(q) + 1 /\ Len(q) \in Nat
      /\ l[1] = u /\ \A i \in 1 .. Len(q) : l[i + 1] = q[i]
  BY InFront
<1>2. m \in Seq(S) /\ Len(m) = Len(q) + 1 /\ m[Len(q) + 1] = t /\ \A i \in 1 .. Len(q) : m[i] = q[i]
  BY AppendProperties
<1> HIDE DEF l, m
<1>3. a \in Seq(S) /\ Len(a) = Len(m) + 1 /\ a[1] = u /\ \A i \in 1 .. Len(m) : a[i + 1] = m[i]
  BY <1>2, InFront
<1>4. b \in Seq(S) /\ Len(b) = Len(l) + 1 /\ b[Len(l) + 1] = t /\ \A i \in 1 .. Len(l) : b[i] = l[i]
  BY <1>1, AppendProperties
<1> HIDE DEF a, b
<1>5. Len(a) = Len(b) /\ Len(a) = Len(q) + 2
  BY <1>1, <1>2, <1>3, <1>4
<1>6. ASSUME NEW i \in 1 .. Len(a) PROVE a[i] = b[i]
  <2>1. CASE i = 1
    BY <1>1, <1>3, <1>4, <2>1
  <2>2. CASE i # 1 /\ i <= Len(q) + 1
    <3> DEFINE j == i - 1
    <3>1. j \in 1 .. Len(q) /\ j + 1 = i /\ j \in 1 .. Len(m) /\ i \in 1 .. Len(l)
      BY <1>1, <1>2, <1>5, <1>6, <2>2
    <3>2. a[i] = m[j] /\ m[j] = q[j] /\ b[i] = l[i] /\ l[i] = q[j]
      BY <1>1, <1>2, <1>3, <1>4, <3>1
    <3> QED
      BY <3>2
  <2>3. CASE i > Len(q) + 1
    <3>1. i = Len(q) + 2 /\ i = Len(l) + 1 /\ i = Len(m) + 1 /\ Len(m) \in 1 .. Len(m)
      BY <1>1, <1>2, <1>5, <1>6, <2>3
    <3>2. a[i] = m[Len(m)] /\ m[Len(m)] = t /\ b[i] = t
      BY <1>2, <1>3, <1>4, <3>1
    <3> QED
      BY <3>2
  <2> QED
    BY <1>1, <1>5, <1>6, <2>1, <2>2, <2>3
<1>7. a = b
  BY <1>3, <1>4, <1>5, <1>6, SeqEqual
<1> QED
  BY <1>7 DEF a, b, l, m

\* Where the offer stays as it is, the line changes as the queue does.
LEMMA SameOffer ==
  ASSUME IInv, ~broken, transfer' = transfer, \A u \in Tasks : fut'[u] = "done" <=> fut[u] = "done"
  PROVE  /\ transfer => \E u \in Tasks : fut[u] = "done" /\ Line = <<u>> \o queue /\ Line' = <<u>> \o queue'
         /\ ~transfer => Line = queue /\ Line' = queue'
<1>1. CASE transfer
  <2>1. PICK u \in Tasks : fut[u] = "done" /\ Line = <<u>> \o queue
    BY <1>1, LineIs
  <2>2. \A v \in Tasks : fut'[v] = "done" <=> v = u
    BY <2>1, Abstracted DEF OfferOK
  <2>3. (CHOOSE v \in Tasks : fut'[v] = "done") = u
    BY <2>2
  <2>4. Line' = <<u>> \o queue'
    BY <1>1, <2>3 DEF Line
  <2> QED
    BY <1>1, <2>1, <2>4
<1>2. CASE ~transfer
  BY <1>2, LineIs DEF Line
<1> QED
  BY <1>1, <1>2

\* A hand-over that does not raise leaves the line to what the queue was.
LEMMA HandOverLine ==
  ASSUME TypeOK, NEW f \in [Tasks -> {"none", "pending", "done", "cancelled"}],
         \A u \in Tasks : f[u] # "done", HandOver(f, FALSE), ~broken'
  PROVE  Line' = queue
<1>1. CASE queue = <<>>
  BY <1>1 DEF HandOver, Line
<1>2. CASE queue # <<>>
  <2>1. queue \in Seq(Tasks) /\ Head(queue) \in Tasks /\ queue = <<Head(queue)>> \o Tail(queue)
    <3>1. queue \in Seq(Tasks)
      BY DEF TypeOK
    <3> QED
      BY <1>2, <3>1
  <2>2. fut' = [f EXCEPT ![Head(queue)] = "done"] /\ queue' = Tail(queue) /\ transfer' = TRUE
    BY <1>2 DEF HandOver
  <2>3. \A v \in Tasks : fut'[v] = "done" <=> v = Head(queue)
    BY <2>1, <2>2
  <2>4. (CHOOSE v \in Tasks : fut'[v] = "done") = Head(queue)
    BY <2>1, <2>3
  <2> QED
    BY <2>1, <2>2, <2>4 DEF Line
<1> QED
  BY <1>1, <1>2

LEMMA MapAcquireReentrant ==
  ASSUME Sound, ~broken, NEW t \in Tasks, AcquireReentrant(t)
  PROVE  Mutex!Reenter(t)
<1>1. IInv /\ NoTask \notin Tasks
  BY NoTaskAssumption DEF Sound
<1>2. Line' = Line
  <2>1. transfer' = transfer /\ queue' = queue /\ fut' = fut
    BY DEF AcquireReentrant
  <2> QED
    BY <2>1 DEF Line
<1>3. held[t] \in 1 .. MaxDepth - 1
  <2>1. count \in Nat /\ MaxDepth \in Nat \ {0} /\ count < MaxDepth /\ held[t] = count /\ count # 0
    BY <1>1, Abstracted DEF AcquireReentrant, OfferOK
  <2> QED
    BY <2>1
<1> QED
  BY <1>2, <1>3 DEF AcquireReentrant, Mutex!Reenter

LEMMA MapAcquireFree ==
  ASSUME Sound, ~broken, NEW t \in Tasks, AcquireFree(t)
  PROVE  Mutex!Enter(t)
<1>1. IInv /\ NobodyLeftBehind /\ count = 0 /\ ~transfer
  BY DEF Sound, AcquireFree
<1>2. queue = <<>> /\ Line = <<>> /\ Line' = <<>>
  <2>1. queue = <<>> /\ Line = queue
    BY <1>1, LineIs DEF NobodyLeftBehind
  <2> QED
    BY <1>1, <2>1 DEF Line, AcquireFree
<1>3. Mutex!Inside = {} /\ held[t] = 0
  <2>1. held[t] = IF owner = t THEN count ELSE 0
    BY <1>1, Abstracted
  <2> QED
    BY <1>1, <2>1, Abstracted
<1>4. held' = [held EXCEPT ![t] = 1]
  BY <1>3 DEF AcquireFree
<1> QED
  BY <1>2, <1>3, <1>4 DEF Mutex!Enter

LEMMA MapEnqueue ==
  ASSUME Sound, ~broken, NEW t \in Tasks, Enqueue(t)
  PROVE  Mutex!Join(t)
<1>1. IInv /\ fut[t] = "none" /\ owner # t /\ (count > 0 \/ transfer) /\ queue' = Append(queue, t)
  BY DEF Sound, Enqueue, Running
<1>2. /\ TypeOK /\ QueueOK /\ queue \in Seq(Tasks)
      /\ held[t] = 0 /\ (count > 0 => Mutex!Inside # {})
  <2>1. held[t] = IF owner = t THEN count ELSE 0
    BY <1>1, Abstracted
  <2> QED
    BY <1>1, <2>1, Abstracted
<1>3. transfer' = transfer /\ \A u \in Tasks : fut'[u] = "done" <=> fut[u] = "done"
  <2>1. fut' = [fut EXCEPT ![t] = "pending"] /\ fut \in [Tasks -> {"none", "pending", "done", "cancelled"}]
    BY <1>2 DEF Enqueue, TypeOK
  <2> QED
    BY <1>1, <2>1 DEF Enqueue
<1>4. \A k \in DOMAIN queue : queue[k] # t
  BY <1>1, <1>2 DEF QueueOK
<1>5. CASE transfer
  <2>1. PICK u \in Tasks : fut[u] = "done" /\ Line = <<u>> \o queue /\ Line' = <<u>> \o queue'
    BY <1>1, <1>3, <1>5, SameOffer
  <2>2. Line' = Append(Line, t)
    BY <1>1, <1>2, <2>1, AppendBehind
  <2>3. Line # <<>> /\ DOMAIN Line = 1 .. Len(queue) + 1 /\ Line[1] = u
        /\ \A i \in 1 .. Len(queue) : Line[i + 1] = queue[i]
    BY <1>2, <2>1, InFront
  <2>4. \A k \in DOMAIN Line : Line[k] # t
    <3> SUFFICES ASSUME NEW k \in DOMAIN Line PROVE Line[k] # t
      OBVIOUS
    <3>1. CASE k = 1
      BY <1>1, <2>1, <2>3, <3>1
    <3>2. CASE k # 1
      <4>1. k - 1 \in 1 .. Len(queue) /\ (k - 1) + 1 = k /\ k - 1 \in DOMAIN queue
        BY <1>2, <2>3, <3>2
      <4> QED
        BY <1>4, <2>3, <4>1
    <3> QED
      BY <3>1, <3>2
  <2> QED
    BY <1>2, <2>2, <2>3, <2>4 DEF Mutex!Join, Mutex!Contains, Enqueue
<1>6. CASE ~transfer
  <2>1. Line = queue /\ Line' = Append(Line, t)
    BY <1>1, <1>3, <1>6, SameOffer
  <2> QED
    BY <1>1, <1>2, <1>4, <1>6, <2>1 DEF Mutex!Join, Mutex!Contains, Enqueue
<1> QED
  BY <1>5, <1>6

LEMMA MapWake ==
  ASSUME Sound, ~broken, NEW t \in Tasks, Wake(t)
  PROVE  Mutex!Grant(t)
<1>1. IInv /\ fut[t] = "done"
  BY DEF Sound, Wake
<1>2. transfer /\ Line = <<t>> \o queue /\ queue \in Seq(Tasks)
  BY <1>1, LineIs, Abstracted
<1>3. Line # <<>> /\ Head(Line) = t /\ Tail(Line) = queue
  BY <1>2, InFront
<1>4. Line' = queue
  BY DEF Wake, Line
<1>5. Mutex!Inside = {} /\ held[t] = 0
  <2>1. count = 0
    BY <1>1, <1>2, Abstracted DEF OfferOK
  <2>2. held[t] = IF owner = t THEN count ELSE 0
    BY <1>1, Abstracted
  <2> QED
    BY <1>1, <2>1, <2>2, Abstracted
<1>6. held' = [held EXCEPT ![t] = 1]
  BY <1>5 DEF Wake
<1> QED
  BY <1>3, <1>4, <1>5, <1>6 DEF Mutex!Grant

LEMMA SameRemoveAt == \A q, k : Mutex!RemoveAt(q, k) = RemoveAt(q, k)
BY DEF Mutex!RemoveAt, RemoveAt

LEMMA MapCancelledInQueue ==
  ASSUME Sound, ~broken, NEW t \in Tasks, CancelledInQueue(t)
  PROVE  Mutex!GiveUp(t)
<1>1. PICK k \in DOMAIN queue : queue[k] = t /\ queue' = RemoveAt(queue, k)
  BY DEF CancelledInQueue
<1>2. IInv /\ TypeOK /\ QueueOK /\ queue \in Seq(Tasks) /\ held' = held
  BY Abstracted DEF Sound, CancelledInQueue
<1>3. transfer' = transfer /\ \A u \in Tasks : fut'[u] = "done" <=> fut[u] = "done"
  <2>1. fut' = [fut EXCEPT ![t] = "none"] /\ fut \in [Tasks -> {"none", "pending", "done", "cancelled"}]
    BY <1>2 DEF CancelledInQueue, TypeOK
  <2>2. fut[t] # "done"
    BY <1>1, <1>2 DEF QueueOK
  <2> QED
    BY <2>1, <2>2 DEF CancelledInQueue
<1>4. CASE transfer
  <2>1. PICK u \in Tasks : fut[u] = "done" /\ Line = <<u>> \o queue /\ Line' = <<u>> \o queue'
    BY <1>2, <1>3, <1>4, SameOffer
  <2>2. Line' = RemoveAt(Line, k + 1)
    BY <1>1, <1>2, <2>1, RemoveBehind
  <2>3. k + 1 \in DOMAIN Line /\ Line[k + 1] = t
    <3>1. /\ DOMAIN Line = 1 .. Len(queue) + 1 /\ \A i \in 1 .. Len(queue) : Line[i + 1] = queue[i]
      BY <1>2, <2>1, InFront
    <3>2. k \in 1 .. Len(queue) /\ Len(queue) \in Nat
      BY <1>2
    <3> QED
      BY <1>1, <3>1, <3>2
  <2> QED
    BY <1>2, <2>2, <2>3, SameRemoveAt DEF Mutex!GiveUp
<1>5. CASE ~transfer
  <2>1. Line = queue /\ Line' = queue'
    BY <1>2, <1>3, <1>5, SameOffer
  <2> QED
    BY <1>1, <1>2, <2>1, SameRemoveAt DEF Mutex!GiveUp
<1> QED
  BY <1>4, <1>5

\* The task that was offered the lock gives up its place at the front.
LEMMA MapCancelledNextInLine ==
  ASSUME Sound, ~broken, NEW t \in Tasks, CancelledNextInLine(t), ~broken'
  PROVE  Mutex!GiveUp(t)
<1> DEFINE f == [fut EXCEPT ![t] = "none"]
<1>1. IInv /\ TypeOK /\ OfferOK /\ queue \in Seq(Tasks) /\ HandOver(f, FALSE) /\ held' = held
  BY Abstracted DEF Sound, CancelledNextInLine
<1>2. fut[t] = "done"
  <2>1. \A k \in DOMAIN queue : queue[k] # t
    BY SMTT(30) DEF CancelledNextInLine, Contains
  <2> QED
    BY <1>1, <2>1 DEF CancelledNextInLine, CancelArrives, OfferOK
<1>3. f \in [Tasks -> {"none", "pending", "done", "cancelled"}] /\ \A u \in Tasks : f[u] # "done"
  BY <1>1, <1>2 DEF TypeOK, OfferOK
<1>4. Line = <<t>> \o queue
  BY <1>1, <1>2, LineIs
<1>5. Line' = queue
  <2> HIDE DEF f
  <2> QED
    BY <1>1, <1>3, HandOverLine
<1>6. 1 \in DOMAIN Line /\ Line[1] = t /\ Line' = RemoveAt(Line, 1)
  <2>1. DOMAIN Line = 1 .. Len(queue) + 1 /\ Line[1] = t /\ RemoveAt(Line, 1) = queue /\ Len(queue) \in Nat
    BY <1>1, <1>4, InFront, RemoveFront
  <2> QED
    BY <1>5, <2>1
<1> QED
  BY <1>1, <1>6, SameRemoveAt DEF Mutex!GiveUp

LEMMA MapReleaseInner ==
  ASSUME Sound, ~broken, NEW t \in Tasks, ReleaseInner(t)
  PROVE  Mutex!Leave(t)
<1>1. Line' = Line
  <2>1. transfer' = transfer /\ queue' = queue /\ fut' = fut
    BY DEF ReleaseInner
  <2> QED
    BY <2>1 DEF Line
<1> QED
  BY <1>1 DEF ReleaseInner, Mutex!Leave

LEMMA MapReleaseOuter ==
  ASSUME Sound, ~broken, NEW t \in Tasks, ReleaseOuter(t), ~broken'
  PROVE  Mutex!Leave(t)
<1>1. IInv /\ TypeOK /\ OfferOK /\ count = 1 /\ HandOver(fut, transfer)
  BY Abstracted DEF Sound, ReleaseOuter
<1>2. transfer = FALSE /\ \A u \in Tasks : fut[u] # "done"
  BY <1>1 DEF OfferOK, TypeOK
<1>3. Line = queue
  BY <1>1, <1>2, LineIs
<1>4. Line' = queue
  <2>1. HandOver(fut, FALSE) /\ fut \in [Tasks -> {"none", "pending", "done", "cancelled"}]
    BY <1>1, <1>2 DEF TypeOK
  <2> QED
    BY <1>1, <1>2, <2>1, HandOverLine
<1> QED
  BY <1>3, <1>4 DEF ReleaseOuter, Mutex!Leave

\* While the lock agrees with its users, no release is refused.
LEMMA NoReleaseRefused ==
  ASSUME Sound, ~broken, NEW t \in Tasks, ReleaseRefused(t)
  PROVE  FALSE
<1>1. held[t] = IF owner = t THEN count ELSE 0
  BY Abstracted DEF Sound
<1> QED
  BY <1>1 DEF ReleaseRefused

LEMMA MapCancel ==
  ASSUME Sound, ~broken, NEW t \in Tasks, Cancel(t)
  PROVE  held' = held /\ Line' = Line
<1>1. IInv /\ TypeOK
  BY Abstracted DEF Sound
<1>2. /\ transfer' = transfer /\ queue' = queue /\ held' = held
      /\ \A u \in Tasks : fut'[u] = "done" <=> fut[u] = "done"
  <2>1. CASE fut[t] = "pending" /\ fut' = [fut EXCEPT ![t] = "cancelled"] /\ UNCHANGED mustCancel
    BY <1>1, <2>1 DEF Cancel, TypeOK
  <2>2. CASE fut[t] = "done" /\ mustCancel' = mustCancel \union {t} /\ UNCHANGED fut
    BY <2>2 DEF Cancel
  <2> QED
    BY <2>1, <2>2 DEF Cancel
<1> QED
  BY <1>1, <1>2, SameOffer

LEMMA BrokenStays ==
  ASSUME [Next]_vars, broken
  PROVE  broken'
<1>1. ASSUME NEW f, NEW tr, HandOver(f, tr) PROVE broken'
  BY <1>1 DEF HandOver
<1> QED
  BY <1>1 DEF Next, vars, AcquireReentrant, AcquireFree, Enqueue, Resume, Wake, CancelledInQueue,
              CancelledNextInLine, Release, ReleaseInner, ReleaseOuter, ReleaseRefused, Cancel

(* The lock is a fair mutex until a release meets a cancelled future: every step
   is one of the mutex or leaves it alone, for any tasks and any depth.  Waiting
   tasks enter in the order in which they came, and no newcomer passes them. *)
THEOREM Refinement == Spec => ImplementsFairMutex
<1>1. Init => Mutex!Init
  BY DEF Init, Line, Mutex!Init
<1>2. Init => Sound
  BY InitIInv DEF Init, Sound, NobodyLeftBehind
<1>3. Sound /\ [Next]_vars => Sound'
  BY NextIInv, StillNobodyLeftBehind DEF Sound
<1>4. Sound /\ [Next]_vars => [broken' \/ Mutex!Next]_<<held, Line>>
  <2> SUFFICES ASSUME Sound, [Next]_vars, ~broken'
               PROVE  Mutex!Next \/ (held' = held /\ Line' = Line)
    OBVIOUS
  <2>1. ~broken
    BY BrokenStays
  <2>2. ASSUME NEW t \in Tasks, AcquireReentrant(t) \/ AcquireFree(t) \/ Enqueue(t) PROVE Mutex!Next
    BY <2>1, <2>2, MapAcquireReentrant, MapAcquireFree, MapEnqueue DEF Mutex!Next
  <2>3. ASSUME NEW t \in Tasks, Resume(t) PROVE Mutex!Next
    BY <2>1, <2>3, MapWake, MapCancelledInQueue, MapCancelledNextInLine DEF Resume, Mutex!Next
  <2>4. ASSUME NEW t \in Tasks, Release(t) PROVE Mutex!Next
    BY <2>1, <2>4, MapReleaseInner, MapReleaseOuter, NoReleaseRefused DEF Release, Mutex!Next
  <2>5. ASSUME NEW t \in Tasks, Cancel(t) PROVE held' = held /\ Line' = Line
    BY <2>1, <2>5, MapCancel
  <2>6. CASE UNCHANGED vars
    BY <2>6 DEF vars, Line
  <2> QED
    BY <2>2, <2>3, <2>4, <2>5, <2>6 DEF Next
<1> QED
  BY <1>1, <1>2, <1>3, <1>4, PTL DEF Spec, ImplementsFairMutex

----------------------------------------------------------------------------
(* The bookkeeping of NamedLockPool, for any users, names, locks and sizes.
   Accounting is not inductive alone: a lock that comes back from a name
   adds one to the idle ones only if it was not idle already, which is
   OneLockPerName, and counting needs both sets finite. *)


Finite == IsFiniteSet(idle) /\ IsFiniteSet(DOMAIN inUse)

PoolIInv == PoolTypeOK /\ Finite /\ Accounting /\ OneLockPerName

USE SizeAssumption, NobodyAssumption

\* The pool starts empty.
LEMMA PoolInitIInv == PoolInit => PoolIInv
<1> SUFFICES ASSUME PoolInit PROVE PoolIInv
  OBVIOUS
<1>1. DOMAIN inUse = {}
  BY DEF PoolInit
<1>2. PoolTypeOK
  BY <1>1 DEF PoolInit, PoolTypeOK, Handle
<1>3. Finite /\ Cardinality(idle) = 0 /\ Cardinality(DOMAIN inUse) = 0
  BY <1>1, FS_EmptySet DEF PoolInit, Finite
<1>4. Accounting
  BY <1>3 DEF PoolInit, Accounting, MaxCapacity
<1>5. OneLockPerName
  BY <1>1 DEF OneLockPerName
<1> QED
  BY <1>2, <1>3, <1>4, <1>5 DEF PoolIInv

\* Steps that only move a user's handle, a lock's holder or the manager.
LEMMA BookkeepingKept ==
  ASSUME PoolIInv, PoolTypeOK', UNCHANGED <<allocated, idle, inUse>>
  PROVE  PoolIInv'
BY DEF PoolIInv, Finite, Accounting, OneLockPerName

\* get: a reference to a name that is in use leaves the set of names alone.
LEMMA GetSharesStep ==
  ASSUME PoolIInv, NEW u \in Users, GetShares(u)
  PROVE  PoolIInv'
<1> DEFINE n == handle[u].name
           e == [lock |-> inUse[n].lock, refs |-> inUse[n].refs + 1]
<1>1. n \in DOMAIN inUse /\ n \in Names /\ inUse[n] \in Entry
  BY DEF GetShares, Has, PoolIInv, PoolTypeOK, Handle, NoHandle
<1>2. inUse' = With(inUse, n, e) /\ e \in Entry
  BY <1>1 DEF GetShares, Returned, Entry
<1>3. handle' = [handle EXCEPT ![u] = [pc |-> "fresh", name |-> n, lock |-> e.lock]]
  BY DEF GetShares, Returned
<1>4. /\ DOMAIN inUse' = DOMAIN inUse
      /\ \A m \in DOMAIN inUse : inUse'[m].lock = inUse[m].lock
  BY <1>1, <1>2 DEF With
<1>5. PoolTypeOK'
  <2>1. inUse' \in [DOMAIN inUse' -> Entry]
    BY <1>1, <1>2 DEF PoolIInv, PoolTypeOK, With
  <2>2. handle' \in [Users -> Handle]
    BY <1>1, <1>2, <1>3 DEF PoolIInv, PoolTypeOK, Handle, Entry
  <2> QED
    BY <2>1, <2>2, <1>4 DEF PoolIInv, PoolTypeOK, GetShares
<1>6. Finite' /\ Accounting' /\ OneLockPerName'
  BY <1>4 DEF PoolIInv, Finite, Accounting, OneLockPerName, GetShares, MaxCapacity
<1> QED
  BY <1>5, <1>6 DEF PoolIInv

\* get: a new name is bound to a lock that no other name has.
LEMMA Bound ==
  ASSUME PoolIInv, NEW u \in Users, NEW l \in Locks, Has(u, "checked"),
         handle[u].name \notin DOMAIN inUse,
         \A m \in DOMAIN inUse : inUse[m].lock # l,
         Returned(u, l, 1), l \notin idle', idle' \subseteq idle,
         allocated' \in Nat, UNCHANGED <<closed, holder, manager, leaked>>
  PROVE  /\ PoolTypeOK' /\ Finite' /\ OneLockPerName'
         /\ Cardinality(DOMAIN inUse') = Cardinality(DOMAIN inUse) + 1
<1> DEFINE n == handle[u].name
<1>1. n \in Names
  BY DEF Has, PoolIInv, PoolTypeOK, Handle, NoHandle
<1>2. inUse' = With(inUse, n, [lock |-> l, refs |-> 1]) /\ [lock |-> l, refs |-> 1] \in Entry
  BY DEF Returned, Entry
<1>3. handle' = [handle EXCEPT ![u] = [pc |-> "fresh", name |-> n, lock |-> l]]
  BY DEF Returned
<1>4. /\ DOMAIN inUse' = DOMAIN inUse \cup {n}
      /\ inUse'[n].lock = l
      /\ \A m \in DOMAIN inUse : inUse'[m].lock = inUse[m].lock
  BY <1>2 DEF With
<1>5. PoolTypeOK'
  <2>1. inUse' \in [DOMAIN inUse' -> Entry]
    BY <1>1, <1>2 DEF PoolIInv, PoolTypeOK, With
  <2>2. handle' \in [Users -> Handle]
    BY <1>1, <1>3 DEF PoolIInv, PoolTypeOK, Handle
  <2> QED
    BY <1>1, <1>4, <2>1, <2>2 DEF PoolIInv, PoolTypeOK
<1>6. Finite' /\ Cardinality(DOMAIN inUse') = Cardinality(DOMAIN inUse) + 1
  BY <1>4, FS_AddElement, FS_Subset DEF PoolIInv, Finite
<1>7. OneLockPerName'
  BY <1>4 DEF PoolIInv, OneLockPerName
<1> QED
  BY <1>5, <1>6, <1>7

\* get: an idle lock moves from the idle ones to a name.
LEMMA GetReusesStep ==
  ASSUME PoolIInv, NEW u \in Users, GetReuses(u)
  PROVE  PoolIInv'
<1>1. PICK l \in idle : Returned(u, l, 1) /\ idle' = idle \ {l}
  BY DEF GetReuses
<1>2. l \in Locks /\ \A m \in DOMAIN inUse : inUse[m].lock # l
  BY DEF PoolIInv, PoolTypeOK, OneLockPerName
<1>3. /\ PoolTypeOK' /\ Finite' /\ OneLockPerName'
      /\ Cardinality(DOMAIN inUse') = Cardinality(DOMAIN inUse) + 1
  BY <1>1, <1>2, Bound DEF GetReuses, PoolIInv, PoolTypeOK
<1>4. Cardinality(idle') = Cardinality(idle) - 1 /\ Cardinality(idle) \in Nat
  BY <1>1, FS_RemoveElement, FS_CardinalityType DEF PoolIInv, Finite
<1>5. Cardinality(DOMAIN inUse) \in Nat
  BY FS_CardinalityType DEF PoolIInv, Finite
<1>6. Accounting'
  BY <1>3, <1>4, <1>5 DEF PoolIInv, PoolTypeOK, Accounting, GetReuses, MaxCapacity
<1> QED
  BY <1>3, <1>6 DEF PoolIInv

\* get: a lock made for a name is counted, and the capacity was checked.
LEMMA GetAllocatesStep ==
  ASSUME PoolIInv, NEW u \in Users, GetAllocates(u)
  PROVE  PoolIInv'
<1>1. PICK l \in Locks : NewLock(l) /\ Returned(u, l, 1)
  BY DEF GetAllocates
<1>2. l \notin idle /\ \A m \in DOMAIN inUse : inUse[m].lock # l
  BY <1>1 DEF NewLock
<1>3. /\ PoolTypeOK' /\ Finite' /\ OneLockPerName'
      /\ Cardinality(DOMAIN inUse') = Cardinality(DOMAIN inUse) + 1
  BY <1>1, <1>2, Bound DEF GetAllocates, PoolIInv, PoolTypeOK
<1>4. Cardinality(idle) \in Nat /\ Cardinality(DOMAIN inUse) \in Nat
  BY FS_CardinalityType DEF PoolIInv, Finite
<1>5. Cardinality(idle) = 0 /\ idle' = idle /\ MaxCapacity \in Nat
  BY FS_EmptySet DEF GetAllocates, MaxCapacity
<1>6. Accounting'
  <2>1. allocated' = allocated + 1 /\ allocated < MaxCapacity /\ allocated \in Nat
    BY DEF GetAllocates, PoolIInv, PoolTypeOK
  <2>2. allocated = Cardinality(idle) + Cardinality(DOMAIN inUse) /\ Cardinality(idle) <= MaxSize
    BY DEF PoolIInv, Accounting
  <2>3. allocated' = Cardinality(idle') + Cardinality(DOMAIN inUse') /\ allocated' <= MaxCapacity
    BY <1>3, <1>4, <1>5, <2>1, <2>2
  <2> QED
    BY <1>5, <2>2, <2>3 DEF Accounting, MaxCapacity
<1> QED
  BY <1>3, <1>6 DEF PoolIInv

\* _release: one reference less, the names stay.
LEMMA ReturnSharedStep ==
  ASSUME PoolIInv, NEW u \in Users, ReturnShared(u)
  PROVE  PoolIInv'
<1> DEFINE n == handle[u].name
<1>1. /\ n \in DOMAIN inUse /\ inUse[n] \in Entry /\ inUse[n].refs > 1
      /\ inUse' = [inUse EXCEPT ![n].refs = inUse[n].refs - 1]
      /\ handle' = [handle EXCEPT ![u] = NoHandle]
  BY DEF ReturnShared, PoolIInv, PoolTypeOK
<1>2. /\ DOMAIN inUse' = DOMAIN inUse
      /\ \A m \in DOMAIN inUse : inUse'[m].lock = inUse[m].lock
  BY <1>1 DEF Entry
<1>3. inUse' \in [DOMAIN inUse' -> Entry]
  BY <1>1, <1>2 DEF PoolIInv, PoolTypeOK, Entry
<1>4. PoolTypeOK'
  BY <1>1, <1>2, <1>3 DEF PoolIInv, PoolTypeOK, Handle, ReturnShared
<1>5. Finite' /\ Accounting' /\ OneLockPerName'
  BY <1>2 DEF PoolIInv, Finite, Accounting, OneLockPerName, ReturnShared, MaxCapacity
<1> QED
  BY <1>4, <1>5 DEF PoolIInv

\* _release: the last reference frees the name; its lock joins the idle ones,
\* where it was not, or is no longer counted.
LEMMA ReturnLastStep ==
  ASSUME PoolIInv, NEW u \in Users, ReturnLast(u)
  PROVE  PoolIInv'
<1> DEFINE n == handle[u].name
           l == inUse[n].lock
<1>1. /\ n \in DOMAIN inUse /\ inUse[n] \in Entry /\ l \in Locks /\ l \notin idle
      /\ inUse' = Without(inUse, n)
      /\ handle' = [handle EXCEPT ![u] = NoHandle]
  BY DEF ReturnLast, PoolIInv, PoolTypeOK, OneLockPerName, Entry
<1>2. /\ DOMAIN inUse' = DOMAIN inUse \ {n}
      /\ \A m \in DOMAIN inUse' : inUse'[m] = inUse[m] /\ inUse[m].lock # l
  BY <1>1 DEF PoolIInv, OneLockPerName, Without, Restrict
<1>3. inUse' \in [DOMAIN inUse' -> Entry]
  BY <1>1, <1>2 DEF PoolIInv, PoolTypeOK, Without, Restrict
<1>4. /\ IsFiniteSet(DOMAIN inUse') /\ Cardinality(DOMAIN inUse') = Cardinality(DOMAIN inUse) - 1
      /\ Cardinality(DOMAIN inUse) \in Nat /\ Cardinality(idle) \in Nat
      /\ Cardinality(DOMAIN inUse') \in Nat
  <2>1. IsFiniteSet(DOMAIN inUse) /\ IsFiniteSet(idle)
    BY DEF PoolIInv, Finite
  <2>2. IsFiniteSet(DOMAIN inUse \ {n})
        /\ Cardinality(DOMAIN inUse \ {n}) = Cardinality(DOMAIN inUse) - 1
    BY <1>1, <2>1, FS_RemoveElement
  <2> QED
    BY <1>2, <2>1, <2>2, FS_CardinalityType
<1>5. CASE Cardinality(idle) < MaxSize /\ idle' = idle \cup {l} /\ UNCHANGED allocated
  <2>1. IsFiniteSet(idle') /\ Cardinality(idle') = Cardinality(idle) + 1
    BY <1>1, <1>5, FS_AddElement DEF PoolIInv, Finite
  <2>2. PoolTypeOK'
    BY <1>1, <1>2, <1>3, <1>5 DEF PoolIInv, PoolTypeOK, Handle, ReturnLast
  <2>3. Accounting'
    BY <1>4, <1>5, <2>1 DEF PoolIInv, PoolTypeOK, Accounting, MaxCapacity
  <2>4. OneLockPerName'
    BY <1>2, <1>5 DEF PoolIInv, OneLockPerName
  <2> QED
    BY <1>4, <2>1, <2>2, <2>3, <2>4 DEF PoolIInv, Finite
<1>6. CASE Cardinality(idle) >= MaxSize /\ allocated' = allocated - 1 /\ UNCHANGED idle
  <2>1. PoolTypeOK'
    BY <1>1, <1>2, <1>3, <1>4, <1>6 DEF PoolIInv, PoolTypeOK, Handle, ReturnLast, Accounting
  <2>2. Accounting'
    BY <1>4, <1>6 DEF PoolIInv, PoolTypeOK, Accounting, MaxCapacity
  <2>3. OneLockPerName'
    BY <1>2, <1>6 DEF PoolIInv, OneLockPerName
  <2> QED
    BY <1>4, <1>6, <2>1, <2>2, <2>3 DEF PoolIInv, Finite
<1> QED
  BY <1>5, <1>6 DEF ReturnLast

\* populate: the new locks are nobody's, so each counts once.
LEMMA PopulateStep ==
  ASSUME PoolIInv, Populate
  PROVE  PoolIInv'
<1>1. PICK new \in SUBSET {l \in Locks : NewLock(l)} :
        /\ IsFiniteSet(new)
        /\ Cardinality(idle) + Cardinality(new) <= MaxSize \/ new = {}
        /\ allocated + Cardinality(new) <= MaxCapacity \/ new = {}
        /\ idle' = idle \cup new
        /\ allocated' = allocated + Cardinality(new)
  BY DEF Populate
<1>2. new \cap idle = {} /\ \A m \in DOMAIN inUse : inUse[m].lock \notin new
  BY <1>1 DEF NewLock
<1>3. /\ IsFiniteSet(idle')
      /\ Cardinality(idle') = Cardinality(idle) + Cardinality(new)
      /\ Cardinality(new) \in Nat /\ Cardinality(idle) \in Nat /\ Cardinality(DOMAIN inUse) \in Nat
      /\ new = {} => Cardinality(new) = 0
  <2>1. /\ IsFiniteSet(idle) /\ IsFiniteSet(DOMAIN inUse)
        /\ Cardinality(new) \in Nat /\ Cardinality(idle) \in Nat /\ Cardinality(DOMAIN inUse) \in Nat
    BY <1>1, FS_CardinalityType DEF PoolIInv, Finite
  <2>2. /\ IsFiniteSet(idle \cup new)
        /\ Cardinality(idle \cup new)
             = Cardinality(idle) + Cardinality(new) - Cardinality(idle \cap new)
    BY <1>1, <2>1, FS_Union
  <2>3. idle \cap new = {} /\ Cardinality({}) = 0
    BY <1>2, FS_EmptySet
  <2> QED
    <3>1. Cardinality(idle \cap new) = 0
      BY <2>3
    <3> QED
      BY <1>1, <2>1, <2>2, <2>3, <3>1
<1>4. PoolTypeOK'
  BY <1>1, <1>3 DEF PoolIInv, PoolTypeOK, Populate
<1>5. Accounting'
  BY <1>1, <1>3 DEF PoolIInv, PoolTypeOK, Accounting, Populate, MaxCapacity
<1>6. OneLockPerName'
  BY <1>1, <1>2 DEF PoolIInv, OneLockPerName, Populate
<1> QED
  BY <1>3, <1>4, <1>5, <1>6 DEF PoolIInv, Finite, Populate

\* close: what was counted is what is discarded, so nothing remains counted.
LEMMA CloseStep ==
  ASSUME PoolIInv, Close
  PROVE  PoolIInv'
<1>1. DOMAIN inUse' = {} /\ idle' = {}
  BY DEF Close
<1>2. Finite' /\ Cardinality(idle') = 0 /\ Cardinality(DOMAIN inUse') = 0
  BY <1>1, FS_EmptySet DEF Finite
<1>3. allocated' = 0
  BY FS_CardinalityType DEF Close, PoolIInv, PoolTypeOK, Finite, Accounting
<1>4. PoolTypeOK'
  BY <1>1, <1>3 DEF PoolIInv, PoolTypeOK, Close
<1>5. Accounting' /\ OneLockPerName'
  BY <1>1, <1>2, <1>3 DEF Accounting, OneLockPerName, MaxCapacity
<1> QED
  BY <1>2, <1>4, <1>5 DEF PoolIInv

\* Every step of the pool, its users and its manager keeps the invariant.
LEMMA PoolNextIInv == PoolIInv /\ [PoolNext]_poolVars => PoolIInv'
<1> SUFFICES ASSUME PoolIInv, [PoolNext]_poolVars PROVE PoolIInv'
  OBVIOUS
<1>1. ASSUME NEW u \in Users, GetChecks(u) \/ GetRefused(u) PROVE PoolIInv'
  BY <1>1, BookkeepingKept DEF GetChecks, GetRefused, PoolIInv, PoolTypeOK, Handle
<1>2. ASSUME NEW u \in Users, GetShares(u) PROVE PoolIInv'
  BY <1>2, GetSharesStep
<1>3. ASSUME NEW u \in Users, GetReuses(u) PROVE PoolIInv'
  BY <1>3, GetReusesStep
<1>4. ASSUME NEW u \in Users, GetAllocates(u) PROVE PoolIInv'
  BY <1>4, GetAllocatesStep
<1>5. ASSUME NEW u \in Users, AcquireStarts(u) \/ AcquireFails(u) \/ ReturnNothing(u) PROVE PoolIInv'
  <2>1. handle' \in [Users -> Handle]
    BY <1>5 DEF AcquireStarts, AcquireFails, ReturnNothing, Has, Move, PoolIInv, PoolTypeOK, Handle, NoHandle
  <2>2. PoolTypeOK'
    BY <1>5, <2>1 DEF AcquireStarts, AcquireFails, ReturnNothing, PoolIInv, PoolTypeOK
  <2> QED
    BY <1>5, <2>2, BookkeepingKept DEF AcquireStarts, AcquireFails, ReturnNothing
<1>6. ASSUME NEW u \in Users, AcquireSucceeds(u) \/ ReleaseHandle(u) PROVE PoolIInv'
  <2>1. handle' \in [Users -> Handle] /\ handle[u].lock \in Locks
    BY <1>6 DEF AcquireSucceeds, ReleaseHandle, GiveBack, Has, Move, PoolIInv, PoolTypeOK, Handle, NoHandle
  <2>2. PoolTypeOK'
    BY <1>6, <2>1 DEF AcquireSucceeds, ReleaseHandle, PoolIInv, PoolTypeOK
  <2> QED
    BY <1>6, <2>2, BookkeepingKept DEF AcquireSucceeds, ReleaseHandle
<1>7. ASSUME NEW u \in Users, Discard(u) \/ Drop(u) PROVE PoolIInv'
  <2>1. handle' \in [Users -> Handle] /\ handle[u].name \in Names
    BY <1>7 DEF Discard, Drop, GiveBack, Has, PoolIInv, PoolTypeOK, Handle, NoHandle
  <2>2. PoolTypeOK'
    BY <1>7, <2>1 DEF Discard, Drop, PoolIInv, PoolTypeOK
  <2> QED
    BY <1>7, <2>2, BookkeepingKept DEF Discard, Drop
<1>8. ASSUME NEW u \in Users, ReturnShared(u) PROVE PoolIInv'
  BY <1>8, ReturnSharedStep
<1>9. ASSUME NEW u \in Users, ReturnLast(u) PROVE PoolIInv'
  BY <1>9, ReturnLastStep
<1>10. CASE ManagerChecks
  BY <1>10, BookkeepingKept DEF ManagerChecks, PoolIInv, PoolTypeOK
<1>11. CASE Populate
  BY <1>11, PopulateStep
<1>12. CASE Close
  BY <1>12, CloseStep
<1>13. CASE UNCHANGED poolVars
  BY <1>13, BookkeepingKept DEF poolVars, PoolIInv, PoolTypeOK
<1> QED
  BY <1>1, <1>2, <1>3, <1>4, <1>5, <1>6, <1>7, <1>8, <1>9, <1>10, <1>11, <1>12, <1>13 DEF PoolNext

\* The invariant of the pool's bookkeeping.
THEOREM PoolInvariance == PoolSpec => []PoolIInv
BY PoolInitIInv, PoolNextIInv, PTL DEF PoolSpec

\* The pool, its handles and its locks have the shape PoolTypeOK gives them.
THEOREM PoolTypeCorrect == PoolSpec => []PoolTypeOK
<1>1. PoolIInv => PoolTypeOK
  BY DEF PoolIInv
<1> QED
  BY <1>1, PoolInvariance, PTL

\* Whatever threads get, release, populate and close at once, the pool counts
\* exactly the locks it knows and never allocates more than its capacity.
THEOREM AccountingHolds == PoolSpec => []Accounting
<1>1. PoolIInv => Accounting
  BY DEF PoolIInv
<1> QED
  BY <1>1, PoolInvariance, PTL

\* No lock serves two names, and no name's lock is idle.
THEOREM OneLockPerNameHolds == PoolSpec => []OneLockPerName
<1>1. PoolIInv => OneLockPerName
  BY DEF PoolIInv
<1> QED
  BY <1>1, PoolInvariance, PTL

----------------------------------------------------------------------------
(* The handles.  A name's lock is the one of everybody who refers to the name *)
(* while the pool is open; who is at a lock got it before the pool closed, as  *)
(* acquire is refused afterwards, so those at one name stay at one lock.       *)

AtLock(u) == handle[u].pc \in {"waiting", "inside"}

Referrers(n) == {u \in Users : Referred(u) /\ handle[u].name = n}

OwnersOK == \A u \in Users : Has(u, "inside") => holder[handle[u].lock] = u

SharedOK ==
  \A u, v \in Users :
    AtLock(u) /\ AtLock(v) /\ handle[u].name = handle[v].name => handle[u].lock = handle[v].lock

RefsOK ==
  /\ \A u \in Users : Referred(u) => /\ handle[u].name \in DOMAIN inUse
                                     /\ handle[u].lock = inUse[handle[u].name].lock
  /\ \A n \in DOMAIN inUse : inUse[n].refs = leaked[n] + Cardinality(Referrers(n))
  /\ \A n \in Names : n \notin DOMAIN inUse => leaked[n] = 0

HInv == PoolIInv /\ OwnersOK /\ SharedOK /\ (~closed => RefsOK)

LEMMA ReferrersFinite ==
  ASSUME NEW n
  PROVE  IsFiniteSet(Referrers(n)) /\ Cardinality(Referrers(n)) \in Nat
<1>1. Referrers(n) \in SUBSET Users
  BY DEF Referrers
<1> QED
  BY <1>1, FS_Subset, FS_CardinalityType

\* A handle is one of its shapes, and what a user at a lock or referred to has.
LEMMA HandleShape ==
  ASSUME PoolTypeOK, NEW u \in Users
  PROVE  /\ handle[u] \in Handle
         /\ AtLock(u) => Referred(u)
         /\ Has(u, "inside") => AtLock(u)
         /\ Referred(u) => handle[u].name \in Names /\ handle[u].lock \in Locks
BY DEF PoolTypeOK, Handle, NoHandle, AtLock, Referred, Has

\* Steps in which nobody comes to a lock or gets hold of it.
LEMMA NobodyComes ==
  ASSUME HInv, holder' = holder,
         \A v \in Users : AtLock(v)' => AtLock(v) /\ handle'[v] = handle[v],
         \A v \in Users : Has(v, "inside")' => Has(v, "inside") /\ handle'[v] = handle[v]
  PROVE  OwnersOK' /\ SharedOK'
BY DEF HInv, OwnersOK, SharedOK

\* Steps that change no reference.
LEMMA NoReferenceChanges ==
  ASSUME HInv, UNCHANGED <<inUse, leaked>>, ~closed,
         \A v \in Users : /\ Referred(v)' <=> Referred(v)
                          /\ Referred(v) => handle'[v].name = handle[v].name /\ handle'[v].lock = handle[v].lock
  PROVE  RefsOK'
<1>1. \A n : Referrers(n)' = Referrers(n)
  BY DEF Referrers
<1> QED
  BY <1>1 DEF HInv, RefsOK

\* A handle gets a reference to a name: one more of its lock, or the first to a lock.
LEMMA ReferenceComes ==
  ASSUME HInv, ~closed, NEW u \in Users, NEW n \in Names, NEW l, NEW refs,
         ~Referred(u), leaked' = leaked,
         inUse' = With(inUse, n, [lock |-> l, refs |-> refs]),
         handle' = [handle EXCEPT ![u] = [pc |-> "fresh", name |-> n, lock |-> l]],
         \/ n \in DOMAIN inUse /\ inUse[n].lock = l /\ refs = inUse[n].refs + 1
         \/ n \notin DOMAIN inUse /\ refs = 1
  PROVE  RefsOK'
<1> USE DEF HInv
<1>1. /\ \A v \in Users \ {u} : handle'[v] = handle[v]
      /\ handle'[u] = [pc |-> "fresh", name |-> n, lock |-> l]
  BY DEF PoolIInv, PoolTypeOK
<1>2. /\ Referred(u)'
      /\ \A v \in Users \ {u} : Referred(v)' <=> Referred(v)
  BY <1>1 DEF Referred
<1>3. /\ Referrers(n)' = Referrers(n) \cup {u} /\ u \notin Referrers(n)
      /\ \A m : m # n => Referrers(m)' = Referrers(m)
  BY <1>1, <1>2 DEF Referrers
<1>4. /\ DOMAIN inUse' = DOMAIN inUse \cup {n} /\ inUse'[n] = [lock |-> l, refs |-> refs]
      /\ \A m \in DOMAIN inUse : m # n => inUse'[m] = inUse[m]
  BY DEF With
<1>5. \A v \in Users : Referred(v)' => /\ handle'[v].name \in DOMAIN inUse'
                                       /\ handle'[v].lock = inUse'[handle'[v].name].lock
  <2> SUFFICES ASSUME NEW v \in Users, Referred(v)'
               PROVE  handle'[v].name \in DOMAIN inUse' /\ handle'[v].lock = inUse'[handle'[v].name].lock
    OBVIOUS
  <2>1. CASE v = u
    BY <2>1, <1>1, <1>4
  <2>2. CASE v # u
    <3>1. /\ handle'[v] = handle[v] /\ handle[v].name \in DOMAIN inUse
          /\ handle[v].lock = inUse[handle[v].name].lock
      BY <2>2, <1>1, <1>2 DEF RefsOK
    <3> QED
      BY <3>1, <1>4
  <2> QED
    BY <2>1, <2>2
<1>6. inUse'[n].refs = leaked'[n] + Cardinality(Referrers(n)')
  <2>1. Cardinality(Referrers(n)') = Cardinality(Referrers(n)) + 1
    BY <1>3, ReferrersFinite, FS_AddElement, ZenonT(40)
  <2>2. leaked[n] \in Nat /\ Cardinality(Referrers(n)) \in Nat
    BY ReferrersFinite DEF PoolIInv, PoolTypeOK
  <2>3. CASE n \in DOMAIN inUse
    BY <2>1, <2>2, <2>3, <1>4 DEF RefsOK
  <2>4. CASE n \notin DOMAIN inUse
    <3>1. Referrers(n) = {}
      BY <2>4 DEF RefsOK, Referrers
    <3> QED
      BY <2>1, <2>2, <2>4, <3>1, <1>4, FS_EmptySet DEF RefsOK
  <2> QED
    BY <2>3, <2>4
<1>7. \A m \in DOMAIN inUse : m # n => inUse'[m].refs = leaked'[m] + Cardinality(Referrers(m)')
  BY <1>3, <1>4 DEF RefsOK
<1>8. \A m \in DOMAIN inUse' : inUse'[m].refs = leaked'[m] + Cardinality(Referrers(m)')
  BY <1>4, <1>6, <1>7
<1>9. \A m \in Names : m \notin DOMAIN inUse' => leaked'[m] = 0
  BY <1>4 DEF RefsOK
<1> QED
  BY <1>5, <1>8, <1>9 DEF RefsOK

\* A handle's reference goes, and the name with the last one.
LEMMA ReferenceGoes ==
  ASSUME HInv, ~closed, NEW u \in Users, NEW n, Referred(u), handle[u].name = n,
         handle' = [handle EXCEPT ![u] = NoHandle],
         \/ /\ inUse' = inUse /\ leaked' = [leaked EXCEPT ![n] = @ + 1]
         \/ /\ inUse[n].refs > 1 /\ leaked' = leaked
            /\ inUse' = [inUse EXCEPT ![n].refs = @ - 1]
         \/ /\ inUse[n].refs <= 1 /\ leaked' = leaked
            /\ inUse' = Without(inUse, n)
  PROVE  RefsOK'
<1> USE DEF HInv
<1>1. /\ \A v \in Users \ {u} : handle'[v] = handle[v]
      /\ handle'[u] = NoHandle
  BY DEF PoolIInv, PoolTypeOK
<1>2. /\ ~Referred(u)'
      /\ \A v \in Users \ {u} : Referred(v)' <=> Referred(v)
  BY <1>1 DEF Referred, NoHandle
<1>3. /\ Referrers(n)' = Referrers(n) \ {u} /\ u \in Referrers(n)
      /\ \A m : m # n => Referrers(m)' = Referrers(m)
  BY <1>1, <1>2 DEF Referrers
<1>4. n \in DOMAIN inUse /\ n \in Names /\ leaked[n] \in Nat /\ inUse[n].refs \in Nat \ {0}
  <2>1. n \in DOMAIN inUse
    BY DEF RefsOK
  <2> QED
    BY <2>1 DEF PoolIInv, PoolTypeOK, Entry
<1>5. /\ Cardinality(Referrers(n)) \in Nat /\ Cardinality(Referrers(n)) # 0
      /\ Cardinality(Referrers(n)') = Cardinality(Referrers(n)) - 1
      /\ inUse[n].refs = leaked[n] + Cardinality(Referrers(n))
  <2>1. IsFiniteSet(Referrers(n)) /\ Cardinality(Referrers(n)) \in Nat
    BY ReferrersFinite
  <2>2. Cardinality(Referrers(n)) # 0
    BY <1>3, <2>1, FS_EmptySet
  <2>3. Cardinality(Referrers(n) \ {u}) = Cardinality(Referrers(n)) - 1
    BY <1>3, <2>1, FS_RemoveElement
  <2> QED
    BY <1>3, <1>4, <2>1, <2>2, <2>3 DEF RefsOK
<1>6. CASE inUse' = inUse /\ leaked' = [leaked EXCEPT ![n] = @ + 1]
  <2>1. leaked'[n] = leaked[n] + 1 /\ \A m \in Names : m # n => leaked'[m] = leaked[m]
    BY <1>4, <1>6 DEF PoolIInv, PoolTypeOK
  <2>2. inUse[n].refs = leaked'[n] + Cardinality(Referrers(n)')
    BY <1>4, <1>5, <2>1
  <2>3. \A m \in DOMAIN inUse : m # n => inUse[m].refs = leaked'[m] + Cardinality(Referrers(m)')
    BY <1>3, <2>1 DEF RefsOK, PoolIInv, PoolTypeOK
  <2>4. \A m \in DOMAIN inUse : inUse[m].refs = leaked'[m] + Cardinality(Referrers(m)')
    BY <2>2, <2>3
  <2> QED
    BY <1>1, <1>2, <1>4, <1>6, <2>1, <2>4 DEF RefsOK
<1>7. CASE inUse[n].refs > 1 /\ leaked' = leaked /\ inUse' = [inUse EXCEPT ![n].refs = @ - 1]
  <2>1. /\ DOMAIN inUse' = DOMAIN inUse
        /\ inUse'[n].refs = inUse[n].refs - 1
        /\ \A m \in DOMAIN inUse : inUse'[m].lock = inUse[m].lock
        /\ \A m \in DOMAIN inUse : m # n => inUse'[m] = inUse[m]
    BY <1>4, <1>7 DEF PoolIInv, PoolTypeOK, Entry
  <2>2. inUse'[n].refs = leaked'[n] + Cardinality(Referrers(n)')
    BY <1>4, <1>5, <1>7, <2>1
  <2>3. \A m \in DOMAIN inUse : m # n => inUse'[m].refs = leaked'[m] + Cardinality(Referrers(m)')
    BY <1>3, <1>7, <2>1 DEF RefsOK
  <2>4. \A m \in DOMAIN inUse' : inUse'[m].refs = leaked'[m] + Cardinality(Referrers(m)')
    BY <2>1, <2>2, <2>3
  <2> QED
    BY <1>1, <1>2, <1>7, <2>1, <2>4 DEF RefsOK
<1>8. CASE inUse[n].refs <= 1 /\ leaked' = leaked /\ inUse' = Without(inUse, n)
  <2>1. leaked[n] = 0 /\ Cardinality(Referrers(n)') = 0
    BY <1>4, <1>5, <1>8
  <2>2. Referrers(n)' = {}
    <3>1. IsFiniteSet(Referrers(n)')
      BY <1>3, ReferrersFinite, FS_RemoveElement
    <3> QED
      BY <3>1, <2>1, FS_EmptySet
  <2>3. /\ DOMAIN inUse' = DOMAIN inUse \ {n}
        /\ \A m \in DOMAIN inUse' : inUse'[m] = inUse[m]
    BY <1>8 DEF Without, Restrict
  <2>4. \A v \in Users : Referred(v)' => Referred(v) /\ handle'[v] = handle[v] /\ handle[v].name # n
    BY <1>1, <1>2, <2>2 DEF Referrers
  <2>5. \A m \in Names : m \notin DOMAIN inUse' => leaked'[m] = 0
    BY <1>8, <2>1, <2>3 DEF RefsOK
  <2>6. \A m \in DOMAIN inUse' : inUse'[m].refs = leaked'[m] + Cardinality(Referrers(m)')
    BY <1>3, <1>8, <2>3 DEF RefsOK
  <2>7. \A v \in Users : Referred(v)' => /\ handle'[v].name \in DOMAIN inUse'
                                         /\ handle'[v].lock = inUse'[handle'[v].name].lock
    BY <2>3, <2>4 DEF RefsOK
  <2> QED
    BY <2>5, <2>6, <2>7 DEF RefsOK
<1> QED
  BY <1>6, <1>7, <1>8

\* The pool starts with no handles.
LEMMA InitHInv == PoolInit => HInv
<1> SUFFICES ASSUME PoolInit PROVE HInv
  OBVIOUS
<1>1. PoolIInv
  BY PoolInitIInv
<1>2. \A u \in Users : handle[u].pc = "none"
  BY DEF PoolInit, NoHandle
<1>3. OwnersOK /\ SharedOK
  BY <1>2 DEF OwnersOK, SharedOK, AtLock, Has
<1>4. RefsOK
  BY <1>2 DEF PoolInit, RefsOK, Referred
<1> QED
  BY <1>1, <1>3, <1>4 DEF HInv

\* acquire: who comes to wait refers to the name as all at its lock do, and who
\* gets the lock finds it free.
LEMMA AcquireHInv ==
  ASSUME HInv, PoolIInv', NEW u \in Users, AcquireStarts(u) \/ AcquireSucceeds(u) \/ AcquireFails(u)
  PROVE  HInv'
<1> USE DEF HInv
<1>1. /\ Referred(u) /\ Referred(u)' /\ handle[u].lock \in Locks
      /\ handle'[u].name = handle[u].name /\ handle'[u].lock = handle[u].lock
      /\ \A v \in Users \ {u} : handle'[v] = handle[v]
      /\ UNCHANGED <<closed, inUse, leaked>>
  BY HandleShape DEF AcquireStarts, AcquireSucceeds, AcquireFails, Has, Move, Referred, PoolIInv, PoolTypeOK, Handle
<1>2. ~closed => RefsOK'
  BY <1>1, NoReferenceChanges DEF Referred
<1>3. CASE AcquireStarts(u) /\ ~closed
  <2>1. holder' = holder /\ handle'[u].pc = "waiting"
    BY <1>3 DEF AcquireStarts, Move, PoolIInv, PoolTypeOK
  <2>2. \A v \in Users : AtLock(v)' => /\ Referred(v) /\ handle'[v].name = handle[v].name
                                       /\ handle'[v].lock = handle[v].lock
    BY <1>1, <2>1, HandleShape DEF AtLock, PoolIInv
  <2>3. SharedOK'
    BY <1>3, <2>2 DEF SharedOK, RefsOK
  <2>4. OwnersOK'
    BY <1>1, <2>1 DEF OwnersOK, Has
  <2> QED
    BY <1>1, <1>2, <2>3, <2>4
<1>4. CASE AcquireSucceeds(u)
  <2>1. /\ holder[handle[u].lock] = Nobody
        /\ holder' = [holder EXCEPT ![handle[u].lock] = u]
        /\ AtLock(u) /\ handle'[u].pc = "inside"
    BY <1>4 DEF AcquireSucceeds, Has, Move, AtLock, PoolIInv, PoolTypeOK
  <2>2. \A v \in Users : AtLock(v)' => AtLock(v) /\ handle'[v].name = handle[v].name
                                       /\ handle'[v].lock = handle[v].lock
    BY <1>1, <2>1 DEF AtLock
  <2>3. SharedOK'
    BY <2>2 DEF SharedOK
  <2>4. OwnersOK'
    <3> SUFFICES ASSUME NEW v \in Users, Has(v, "inside")' PROVE holder'[handle'[v].lock] = v
      BY DEF OwnersOK
    <3>1. CASE v = u
      BY <3>1, <1>1, <2>1 DEF PoolIInv, PoolTypeOK
    <3>2. CASE v # u
      <4>1. Has(v, "inside") /\ handle'[v] = handle[v] /\ holder[handle[v].lock] = v
        BY <3>2, <1>1 DEF OwnersOK, Has
      <4>2. handle[v].lock # handle[u].lock
        BY <2>1, <4>1
      <4>3. handle[v].lock \in Locks
        BY <4>1, HandleShape DEF PoolIInv
      <4> QED
        BY <2>1, <4>1, <4>2, <4>3 DEF PoolIInv, PoolTypeOK
    <3> QED
      BY <3>1, <3>2
  <2> QED
    BY <1>1, <1>2, <2>3, <2>4
<1>5. CASE AcquireFails(u) \/ (AcquireStarts(u) /\ closed)
  <2>1. holder' = holder /\ handle'[u].pc = "failed"
    BY <1>5, HandleShape DEF AcquireFails, AcquireStarts, Move, Has, PoolIInv, PoolTypeOK, Handle, NoHandle
  <2>2. OwnersOK' /\ SharedOK'
    BY <1>1, <2>1, NobodyComes DEF AtLock, Has
  <2> QED
    BY <1>1, <1>2, <2>2
<1> QED
  BY <1>3, <1>4, <1>5

\* release: the lock that is freed is the one of no other user inside.
LEMMA ReleaseHInv ==
  ASSUME HInv, PoolIInv', NEW u \in Users, ReleaseHandle(u) \/ Discard(u)
  PROVE  HInv'
<1> USE DEF HInv
<1>1. /\ Referred(u) /\ handle[u].lock \in Locks
      /\ \A v \in Users \ {u} : handle'[v] = handle[v]
      /\ handle'[u] = IF closed THEN NoHandle ELSE [handle[u] EXCEPT !.pc = "returning"]
      /\ UNCHANGED <<closed, inUse, leaked>>
  BY HandleShape DEF ReleaseHandle, Discard, GiveBack, Has, Referred, PoolIInv, PoolTypeOK
<1>2. ~closed => /\ handle'[u].pc = "returning" /\ handle'[u].name = handle[u].name
                 /\ handle'[u].lock = handle[u].lock
  BY <1>1, HandleShape DEF PoolIInv, Handle, NoHandle, Referred
<1>3. ~AtLock(u)' /\ ~Has(u, "inside")'
  BY <1>1, <1>2 DEF AtLock, Has, NoHandle
<1>4. ~closed => RefsOK'
  BY <1>1, <1>2, NoReferenceChanges DEF Referred
<1>5. SharedOK'
  BY ZenonT(60), <1>1, <1>3 DEF SharedOK, AtLock
<1>6. OwnersOK'
  <2> SUFFICES ASSUME NEW v \in Users, Has(v, "inside")' PROVE holder'[handle'[v].lock] = v
    BY DEF OwnersOK
  <2>1. v # u /\ Has(v, "inside") /\ handle'[v] = handle[v] /\ holder[handle[v].lock] = v
    BY <1>1, <1>3 DEF OwnersOK, Has
  <2>2. CASE Discard(u)
    BY <2>1, <2>2 DEF Discard
  <2>3. CASE ReleaseHandle(u)
    <3>1. holder[handle[u].lock] = u /\ holder' = [holder EXCEPT ![handle[u].lock] = Nobody]
      BY <2>3 DEF ReleaseHandle, OwnersOK
    <3>2. handle[v].lock # handle[u].lock /\ handle[v].lock \in Locks
      BY <2>1, <3>1, HandleShape DEF PoolIInv
    <3> QED
      BY <2>1, <3>1, <3>2 DEF PoolIInv, PoolTypeOK
  <2> QED
    BY <2>2, <2>3
<1> QED
  BY <1>1, <1>4, <1>5, <1>6

\* Handles that come and go.
LEMMA HandleComesOrGoes ==
  ASSUME HInv, PoolIInv', NEW u \in Users,
         \/ GetChecks(u) \/ GetRefused(u) \/ GetShares(u) \/ GetReuses(u) \/ GetAllocates(u)
         \/ Drop(u) \/ ReturnNothing(u) \/ ReturnShared(u) \/ ReturnLast(u)
  PROVE  HInv'
<1> USE DEF HInv
<1>1. /\ UNCHANGED <<closed, holder>>
      /\ \A v \in Users \ {u} : handle'[v] = handle[v]
      /\ handle'[u].pc \in {"none", "checked", "fresh"}
  <2>1. UNCHANGED <<closed, holder>>
    BY DEF GetChecks, GetRefused, GetShares, GetReuses, GetAllocates, Drop,
           ReturnNothing, ReturnShared, ReturnLast
  <2>2. CASE GetChecks(u)
    BY <2>1, <2>2 DEF GetChecks, PoolIInv, PoolTypeOK
  <2>3. CASE GetShares(u) \/ GetReuses(u) \/ GetAllocates(u)
    <3>1. \A l, refs : Returned(u, l, refs) =>
            handle' = [handle EXCEPT ![u] = [pc |-> "fresh", name |-> handle[u].name, lock |-> l]]
      BY DEF Returned, PoolIInv, PoolTypeOK
    <3>2. PICK l, refs : Returned(u, l, refs)
      BY <2>3 DEF GetShares, GetReuses, GetAllocates
    <3>3. handle' = [handle EXCEPT ![u] = [pc |-> "fresh", name |-> handle[u].name, lock |-> l]]
      BY <3>1, <3>2
    <3> QED
      BY <2>1, <3>3 DEF PoolIInv, PoolTypeOK
  <2>4. CASE GetRefused(u) \/ Drop(u) \/ ReturnNothing(u) \/ ReturnShared(u) \/ ReturnLast(u)
    <3>1. handle' = [handle EXCEPT ![u] = NoHandle]
      BY <2>4 DEF GetRefused, Drop, ReturnNothing, ReturnShared, ReturnLast
    <3> QED
      BY <2>1, <3>1 DEF PoolIInv, PoolTypeOK, NoHandle
  <2> QED
    BY <2>2, <2>3, <2>4
<1>2. OwnersOK' /\ SharedOK'
  BY <1>1, NobodyComes DEF AtLock, Has
<1>3. ASSUME ~closed PROVE RefsOK'
  <2>1. CASE GetChecks(u) \/ GetRefused(u)
    <3>1. ~Referred(u) /\ ~Referred(u)' /\ UNCHANGED <<inUse, leaked>>
      BY <2>1 DEF GetChecks, GetRefused, Has, Referred, NoHandle, PoolIInv, PoolTypeOK
    <3> QED
      BY <1>1, <1>3, <3>1, NoReferenceChanges DEF Referred
  <2>2. CASE GetShares(u) \/ GetReuses(u) \/ GetAllocates(u)
    <3> DEFINE n == handle[u].name
    <3>1. ~Referred(u) /\ n \in Names /\ leaked' = leaked
      BY <2>2, HandleShape DEF GetShares, GetReuses, GetAllocates, Has, Referred, PoolIInv, PoolTypeOK, Handle, NoHandle
    <3>2. ASSUME NEW l, NEW refs, Returned(u, l, refs)
          PROVE  /\ inUse' = With(inUse, n, [lock |-> l, refs |-> refs])
                 /\ handle' = [handle EXCEPT ![u] = [pc |-> "fresh", name |-> n, lock |-> l]]
      BY <3>2 DEF Returned
    <3>3. PICK l, refs : /\ Returned(u, l, refs)
                         /\ \/ n \in DOMAIN inUse /\ inUse[n].lock = l /\ refs = inUse[n].refs + 1
                            \/ n \notin DOMAIN inUse /\ refs = 1
      BY <2>2 DEF GetShares, GetReuses, GetAllocates
    <3>4. /\ inUse' = With(inUse, n, [lock |-> l, refs |-> refs])
          /\ handle' = [handle EXCEPT ![u] = [pc |-> "fresh", name |-> n, lock |-> l]]
      BY <3>2, <3>3
    <3> HIDE DEF n
    <3> QED
      BY <1>3, <3>1, <3>3, <3>4, ReferenceComes
  <2>3. CASE Drop(u) \/ ReturnNothing(u) \/ ReturnShared(u) \/ ReturnLast(u)
    <3>1. Referred(u) /\ handle' = [handle EXCEPT ![u] = NoHandle]
      BY <2>3 DEF Drop, ReturnNothing, ReturnShared, ReturnLast, Has, Referred
    <3>2. ~ReturnNothing(u)
      BY <1>3, <3>1 DEF ReturnNothing, RefsOK
    <3> QED
      BY <1>3, <2>3, <3>1, <3>2, ReferenceGoes DEF Drop, ReturnShared, ReturnLast
  <2> QED
    BY <2>1, <2>2, <2>3
<1> QED
  BY <1>1, <1>2, <1>3

\* Every step.
LEMMA NextHInv == HInv /\ [PoolNext]_poolVars => HInv'
<1> SUFFICES ASSUME HInv, [PoolNext]_poolVars PROVE HInv'
  OBVIOUS
<1>1. PoolIInv'
  BY PoolNextIInv DEF HInv
<1>2. ASSUME NEW u \in Users,
             \/ GetChecks(u) \/ GetRefused(u) \/ GetShares(u) \/ GetReuses(u) \/ GetAllocates(u)
             \/ Drop(u) \/ ReturnNothing(u) \/ ReturnShared(u) \/ ReturnLast(u)
      PROVE  HInv'
  BY <1>1, <1>2, HandleComesOrGoes
<1>3. ASSUME NEW u \in Users, AcquireStarts(u) \/ AcquireSucceeds(u) \/ AcquireFails(u) PROVE HInv'
  BY <1>1, <1>3, AcquireHInv
<1>4. ASSUME NEW u \in Users, ReleaseHandle(u) \/ Discard(u) PROVE HInv'
  BY <1>1, <1>4, ReleaseHInv
<1>5. CASE Close
  <2>1. OwnersOK' /\ SharedOK'
    BY <1>5, NobodyComes DEF Close, AtLock, Has
  <2> QED
    BY <1>1, <1>5, <2>1 DEF Close, HInv
<1>6. CASE ManagerChecks \/ Populate \/ UNCHANGED poolVars
  <2>1. UNCHANGED <<closed, inUse, holder, handle, leaked>>
    BY <1>6 DEF ManagerChecks, Populate, poolVars
  <2>2. OwnersOK' /\ SharedOK'
    BY <2>1, NobodyComes DEF AtLock, Has
  <2>3. ~closed => RefsOK'
    BY <2>1, NoReferenceChanges DEF Referred
  <2> QED
    BY <1>1, <2>1, <2>2, <2>3 DEF HInv
<1> QED
  BY <1>2, <1>3, <1>4, <1>5, <1>6 DEF PoolNext

(* The handles agree with the pool, for any users, names, locks and sizes. *)
THEOREM HandleInvariance == PoolSpec => []HInv
BY InitHInv, NextHInv, PTL DEF PoolSpec

(* While the pool is open, a name is in use exactly while somebody refers to it,
   whatever acquires fail and whoever drops a handle. *)
THEOREM RefsMatchHandlesHolds == PoolSpec => []RefsMatchHandles
<1>1. HInv => RefsMatchHandles
  BY DEF HInv, RefsOK, RefsMatchHandles, Referrers
<1> QED
  BY <1>1, HandleInvariance, PTL

(* Two users are never inside under one name, also across a close. *)
THEOREM NameExclusionHolds == PoolSpec => []NameExclusion
<1>1. HInv => NameExclusion
  <2> SUFFICES ASSUME HInv, NEW u \in Users, NEW v \in Users, Has(u, "inside"), Has(v, "inside"),
                      handle[u].name = handle[v].name
               PROVE  u = v
    BY DEF NameExclusion
  <2>1. handle[u].lock = handle[v].lock
    BY HandleShape DEF HInv, PoolIInv, SharedOK
  <2> QED
    BY <2>1 DEF HInv, OwnersOK
<1> QED
  BY <1>1, HandleInvariance, PTL

----------------------------------------------------------------------------
(* The lock of DistributedLock, for any tasks, processes, stores, TTLs and
   bounds on lateness.
   
   The gates: a task inside acquire() that has a gateHandle has the process's
   gate, and a task asking the server has either no gateHandle or the gate.
   
   Exclusion speaks of bodies only.  What is inductive is that a task whose
   request was granted, and who has not forgotten it yet, still owns the
   lease, and that the lease has left at least what the task may still use. *)


USE LockAssumption, NoTaskAssumption, DepthAssumption

\* What a task inside acquire() knows of the gate.
GateOK ==
  \A t \in Tasks :
    /\ gateHandle[t] # NoTask <=> pc[t] = "gate" \/ hasGate[t]
    /\ hasGate[t] => pc[t] \in {"race", "won"}
    /\ pc[t] \in {"gate", "race", "won"} => gateHandle[t] \in {NoTask, gate[ProcessOf[t]]}
    /\ \A u \in Tasks : hasGate[t] /\ hasGate[u] /\ ProcessOf[t] = ProcessOf[u] => t = u

Bypassing(p) == {t \in Inside(p) : gateHandle[t] = NoTask}

CountOK ==
  \A p \in Processes :
    /\ waiters[p] = Cardinality(Inside(p))
    /\ gate[p] # NoTask => Inside(p) # {}
    /\ Cardinality(Bypassing(p)) <= Threshold

GateInv == LeaseTypeOK /\ GateOK /\ CountOK

\* Sets of tasks are finite.
LEMMA InsideFinite ==
  ASSUME NEW p
  PROVE  /\ IsFiniteSet(Inside(p)) /\ Cardinality(Inside(p)) \in Nat
         /\ IsFiniteSet(Bypassing(p)) /\ Cardinality(Bypassing(p)) \in Nat
         /\ Cardinality(Bypassing(p)) <= Cardinality(Inside(p))
<1>1. Inside(p) \in SUBSET Tasks /\ Bypassing(p) \in SUBSET Inside(p)
  BY DEF Inside, Bypassing
<1>2. IsFiniteSet(Inside(p))
  BY <1>1, FS_Subset
<1>3. IsFiniteSet(Bypassing(p)) /\ Cardinality(Bypassing(p)) <= Cardinality(Inside(p))
  BY <1>1, <1>2, FS_Subset
<1> QED
  BY <1>2, <1>3, FS_CardinalityType

\* NoTask is inside at first.
LEMMA InitGates == LeaseInit => GateInv
<1> SUFFICES ASSUME LeaseInit PROVE GateInv
  OBVIOUS
<1>1. LeaseTypeOK
  <2>1. 0 \in Tokens /\ 0 \in 0 .. MaxDepth /\ NoLease \in [token : Tokens, left : Nat]
    BY DEF Tokens, NoLease
  <2> QED
    BY <2>1 DEF LeaseInit, LeaseTypeOK
<1>2. GateOK
  BY DEF LeaseInit, GateOK
<1>3. \A p \in Processes : Inside(p) = {} /\ Bypassing(p) = {}
  BY DEF LeaseInit, Inside, Bypassing
<1>4. CountOK
  BY <1>3, FS_EmptySet, SMTT(30) DEF LeaseInit, CountOK
<1> QED
  BY <1>1, <1>2, <1>4 DEF GateInv

\* acquire() of one task: its process counts one more, and nobody else moves.
LEMMA ArriveGates ==
  ASSUME GateInv, NEW t \in Tasks, Arrive(t)
  PROVE  GateInv'
<1> DEFINE q == ProcessOf[t]
           behind == waiters[q] >= Threshold
<1> USE DEF GateInv
<1>1. /\ q \in Processes /\ pc[t] = "idle" /\ waiters[q] \in Nat
      /\ waiters' = [waiters EXCEPT ![q] = @ + 1]
      /\ gate' = [gate EXCEPT ![q] = IF behind /\ @ = NoTask THEN t ELSE @]
      /\ gateHandle' = [gateHandle EXCEPT ![t] = IF behind THEN gate'[q] ELSE NoTask]
      /\ pc' = [pc EXCEPT ![t] = IF behind THEN "gate" ELSE "race"]
      /\ UNCHANGED hasGate
  BY DEF Arrive, Goto, LeaseTypeOK
<1>2. gate'[q] \in Tasks \cup {NoTask} /\ (behind => gate'[q] # NoTask)
  BY <1>1 DEF LeaseTypeOK
<1>3. LeaseTypeOK'
  <2>1. waiters' \in [Processes -> Nat] /\ gate' \in [Processes -> Tasks \cup {NoTask}]
    BY <1>1 DEF LeaseTypeOK
  <2>2. gateHandle' \in [Tasks -> Tasks \cup {NoTask}]
    BY <1>1, <1>2 DEF LeaseTypeOK
  <2> QED
    BY <2>1, <2>2 DEF LeaseTypeOK, Arrive, Goto
<1>4. ~hasGate[t] /\ gateHandle[t] = NoTask
  BY <1>1 DEF GateOK
<1>5. gate[q] = NoTask => \A u \in Inside(q) : gateHandle[u] = NoTask
  BY DEF GateOK, Inside
<1>6. GateOK'
  <2> SUFFICES ASSUME NEW u \in Tasks
               PROVE  /\ gateHandle'[u] # NoTask <=> pc'[u] = "gate" \/ hasGate'[u]
                      /\ hasGate'[u] => pc'[u] \in {"race", "won"}
                      /\ pc'[u] \in {"gate", "race", "won"} => gateHandle'[u] \in {NoTask, gate'[ProcessOf[u]]}
                      /\ \A v \in Tasks : hasGate'[u] /\ hasGate'[v] /\ ProcessOf[u] = ProcessOf[v] => u = v
    BY DEF GateOK
  <2>1. \A v \in Tasks : hasGate'[u] /\ hasGate'[v] /\ ProcessOf[u] = ProcessOf[v] => u = v
    BY <1>1 DEF GateOK
  <2>2. CASE u = t
    BY <2>1, <2>2, <1>1, <1>2, <1>4 DEF LeaseTypeOK
  <2>3. CASE u # t
    <3>1. pc'[u] = pc[u] /\ gateHandle'[u] = gateHandle[u] /\ hasGate'[u] = hasGate[u]
      BY <2>3, <1>1 DEF LeaseTypeOK
    <3>2. pc[u] \in {"gate", "race", "won"} => gateHandle[u] \in {NoTask, gate'[ProcessOf[u]]}
      <4>1. CASE ProcessOf[u] = q /\ gate[q] = NoTask
        BY <4>1, <1>5 DEF Inside
      <4>2. CASE ~(ProcessOf[u] = q /\ gate[q] = NoTask)
        BY <4>2, <1>1 DEF GateOK, LeaseTypeOK
      <4> QED
        BY <4>1, <4>2
    <3> QED
      BY <2>1, <3>1, <3>2 DEF GateOK
  <2> QED
    BY <2>2, <2>3
<1>7. /\ Inside(q)' = Inside(q) \cup {t} /\ t \notin Inside(q)
      /\ \A p \in Processes \ {q} : Inside(p)' = Inside(p)
  BY <1>1 DEF Inside, LeaseTypeOK
<1>8. /\ Bypassing(q)' = IF behind THEN Bypassing(q) ELSE Bypassing(q) \cup {t}
      /\ \A p \in Processes \ {q} : Bypassing(p)' = Bypassing(p)
  <2>1. \A u \in Tasks \ {t} : gateHandle'[u] = gateHandle[u]
    BY <1>1 DEF LeaseTypeOK
  <2>2. gateHandle'[t] = NoTask <=> ~behind
    BY <1>1, <1>2 DEF LeaseTypeOK
  <2>3. \A p : Inside(p) \subseteq Tasks
    BY DEF Inside
  <2> QED
    BY <1>7, <2>1, <2>2, <2>3 DEF Bypassing, Inside
<1>9. CountOK'
  <2> SUFFICES ASSUME NEW p \in Processes
               PROVE  /\ waiters'[p] = Cardinality(Inside(p)')
                      /\ gate'[p] # NoTask => Inside(p)' # {}
                      /\ Cardinality(Bypassing(p)') <= Threshold
    BY DEF CountOK
  <2>1. CASE p = q
    <3>1. Cardinality(Inside(q)') = Cardinality(Inside(q)) + 1
      BY <1>7, InsideFinite, FS_AddElement
    <3>2. waiters'[q] = Cardinality(Inside(q)')
      BY <3>1, <1>1 DEF CountOK, LeaseTypeOK
    <3>3. Cardinality(Bypassing(q)') <= Threshold
      <4>1. CASE behind
        BY <4>1, <1>8, <1>1 DEF CountOK
      <4>2. CASE ~behind
        <5>1. Cardinality(Inside(q)) < Threshold
          BY <4>2, <1>1, InsideFinite DEF CountOK
        <5>2. /\ IsFiniteSet(Bypassing(q)) /\ Cardinality(Bypassing(q)) \in Nat
              /\ Cardinality(Bypassing(q)) <= Cardinality(Inside(q))
          BY InsideFinite
        <5>3. Cardinality(Bypassing(q) \cup {t}) \in {Cardinality(Bypassing(q)), Cardinality(Bypassing(q)) + 1}
          BY <5>2, FS_AddElement
        <5> QED
          BY <4>2, <1>8, <5>1, <5>2, <5>3, InsideFinite
      <4> QED
        BY <4>1, <4>2
    <3> QED
      BY <2>1, <3>2, <3>3, <1>7
  <2>2. CASE p # q
    BY <2>2, <1>1, <1>7, <1>8 DEF CountOK, LeaseTypeOK
  <2> QED
    BY <2>1, <2>2
<1> QED
  BY <1>3, <1>6, <1>9

\* The gate is passed only if nobody of the process has it.
LEMMA PassGateGates ==
  ASSUME GateInv, NEW t \in Tasks, PassGate(t)
  PROVE  GateInv'
<1> USE DEF GateInv
<1>1. /\ pc[t] = "gate" /\ gateHandle[t] # NoTask /\ ~hasGate[t]
      /\ \A u \in Tasks : ~(hasGate[u] /\ gateHandle[u] = gateHandle[t])
      /\ hasGate' = [hasGate EXCEPT ![t] = TRUE]
      /\ pc' = [pc EXCEPT ![t] = "race"]
      /\ UNCHANGED <<gateHandle, waiters, gate>>
  BY DEF PassGate, Goto, GateOK
<1>2. LeaseTypeOK'
  BY DEF PassGate, Goto, LeaseTypeOK
<1>3. \A u \in Tasks : hasGate[u] => ProcessOf[u] # ProcessOf[t]
  <2> SUFFICES ASSUME NEW u \in Tasks, hasGate[u], ProcessOf[u] = ProcessOf[t] PROVE FALSE
    OBVIOUS
  <2>1. gateHandle[u] # NoTask /\ gateHandle[u] = gate[ProcessOf[u]] /\ gateHandle[t] = gate[ProcessOf[t]]
    BY <1>1 DEF GateOK
  <2> QED
    BY <1>1, <2>1
<1>4. GateOK'
  BY <1>1, <1>3 DEF GateOK, LeaseTypeOK
<1>5. \A p : Inside(p)' = Inside(p) /\ Bypassing(p)' = Bypassing(p)
  BY <1>1 DEF Inside, Bypassing, LeaseTypeOK
<1>6. CountOK'
  BY <1>1, <1>5 DEF CountOK
<1> QED
  BY <1>2, <1>4, <1>6

\* Leaving acquire(): when the gate goes, nobody is left who has a gateHandle of it.
LEMMA LeaveGates ==
  ASSUME GateInv, NEW t \in Tasks, NEW where \in {"idle", "body"},
         pc[t] \in {"gate", "race", "won"}, Leave(t), pc' = [pc EXCEPT ![t] = where]
  PROVE  /\ GateOK' /\ CountOK'
         /\ waiters' \in [Processes -> Nat] /\ gate' \in [Processes -> Tasks \cup {NoTask}]
         /\ gateHandle' \in [Tasks -> Tasks \cup {NoTask}] /\ hasGate' \in [Tasks -> BOOLEAN]
<1> DEFINE q == ProcessOf[t]
<1> USE DEF GateInv
<1>1. /\ q \in Processes
      /\ waiters' = [waiters EXCEPT ![q] = @ - 1]
      /\ gate' = [gate EXCEPT ![q] = IF waiters[q] = 1 THEN NoTask ELSE @]
      /\ gateHandle' = [gateHandle EXCEPT ![t] = NoTask]
      /\ hasGate' = [hasGate EXCEPT ![t] = FALSE]
  BY DEF Leave
<1>2. /\ t \in Inside(q)
      /\ Inside(q)' = Inside(q) \ {t}
      /\ \A p \in Processes \ {q} : Inside(p)' = Inside(p)
  BY <1>1 DEF Inside, LeaseTypeOK
<1>3. /\ IsFiniteSet(Inside(q)) /\ waiters[q] = Cardinality(Inside(q))
      /\ Cardinality(Inside(q)) \in Nat \ {0}
      /\ Cardinality(Inside(q)') = waiters[q] - 1
  <2>1. IsFiniteSet(Inside(q)) /\ Cardinality(Inside(q)) \in Nat /\ waiters[q] = Cardinality(Inside(q))
    BY <1>1, InsideFinite DEF CountOK
  <2>2. Cardinality(Inside(q)) # 0
    BY <1>2, <2>1, FS_EmptySet
  <2>3. Cardinality(Inside(q) \ {t}) = Cardinality(Inside(q)) - 1
    BY <1>2, <2>1, FS_RemoveElement
  <2> QED
    BY <1>2, <2>1, <2>2, <2>3
<1>4. /\ waiters' \in [Processes -> Nat] /\ gate' \in [Processes -> Tasks \cup {NoTask}]
      /\ gateHandle' \in [Tasks -> Tasks \cup {NoTask}] /\ hasGate' \in [Tasks -> BOOLEAN]
  BY <1>1, <1>3 DEF LeaseTypeOK
<1>5. waiters[q] = 1 <=> Inside(q)' = {}
  <2>1. IsFiniteSet(Inside(q)')
    BY <1>2, <1>3, FS_RemoveElement
  <2>2. Cardinality(Inside(q)') = 0 <=> Inside(q)' = {}
    BY <2>1, FS_EmptySet
  <2> QED
    BY <1>3, <2>2
<1>6. GateOK'
  <2> SUFFICES ASSUME NEW u \in Tasks
               PROVE  /\ gateHandle'[u] # NoTask <=> pc'[u] = "gate" \/ hasGate'[u]
                      /\ hasGate'[u] => pc'[u] \in {"race", "won"}
                      /\ pc'[u] \in {"gate", "race", "won"} => gateHandle'[u] \in {NoTask, gate'[ProcessOf[u]]}
                      /\ \A v \in Tasks : hasGate'[u] /\ hasGate'[v] /\ ProcessOf[u] = ProcessOf[v] => u = v
    BY DEF GateOK
  <2>1. \A v \in Tasks : hasGate'[u] /\ hasGate'[v] /\ ProcessOf[u] = ProcessOf[v] => u = v
    BY <1>1 DEF GateOK, LeaseTypeOK
  <2>2. CASE u = t
    BY <2>1, <2>2, <1>1 DEF LeaseTypeOK
  <2>3. CASE u # t
    <3>1. pc'[u] = pc[u] /\ gateHandle'[u] = gateHandle[u] /\ hasGate'[u] = hasGate[u]
      BY <2>3, <1>1 DEF LeaseTypeOK
    <3>2. pc[u] \in {"gate", "race", "won"} /\ ProcessOf[u] = q => waiters[q] # 1
      BY <1>2, <1>5, <2>3 DEF Inside
    <3>3. pc[u] \in {"gate", "race", "won"} => gate'[ProcessOf[u]] = gate[ProcessOf[u]]
      BY <3>2, <1>1 DEF LeaseTypeOK
    <3> QED
      BY <2>1, <3>1, <3>3 DEF GateOK
  <2> QED
    BY <2>2, <2>3
<1>7. \A p \in Processes : Bypassing(p)' \in SUBSET Bypassing(p)
  BY <1>1, <1>2 DEF Bypassing, LeaseTypeOK, Inside
<1>8. CountOK'
  <2> SUFFICES ASSUME NEW p \in Processes
               PROVE  /\ waiters'[p] = Cardinality(Inside(p)')
                      /\ gate'[p] # NoTask => Inside(p)' # {}
                      /\ Cardinality(Bypassing(p)') <= Threshold
    BY DEF CountOK
  <2>1. Cardinality(Bypassing(p)') <= Threshold
    <3>1. /\ Cardinality(Bypassing(p)) <= Threshold /\ Cardinality(Bypassing(p)) \in Nat
          /\ IsFiniteSet(Bypassing(p))
      BY InsideFinite DEF CountOK
    <3>2. /\ Cardinality(Bypassing(p)') <= Cardinality(Bypassing(p))
          /\ Cardinality(Bypassing(p)') \in Nat
      BY <3>1, <1>7, FS_Subset, FS_CardinalityType
    <3> QED
      BY <3>1, <3>2
  <2>2. CASE p = q
    BY <2>1, <2>2, <1>1, <1>3, <1>5 DEF LeaseTypeOK
  <2>3. CASE p # q
    BY <2>1, <2>3, <1>1, <1>2 DEF CountOK, LeaseTypeOK
  <2> QED
    BY <2>2, <2>3
<1> QED
  BY <1>4, <1>6, <1>8

\* Steps outside the gates.
LEMMA GatesKept ==
  ASSUME GateInv, UNCHANGED gateVars,
         \A u \in Tasks : \/ pc'[u] = pc[u]
                          \/ pc[u] = "race" /\ pc'[u] = "won"
                          \/ /\ pc[u] \in {"idle", "body", "leaving", "read"}
                             /\ pc'[u] \in {"idle", "body", "leaving", "read"}
  PROVE  GateOK' /\ CountOK'
<1>1. \A u \in Tasks : /\ pc'[u] = "gate" <=> pc[u] = "gate"
                       /\ pc'[u] \in {"race", "won"} <=> pc[u] \in {"race", "won"}
  OBVIOUS
<1>2. GateOK'
  BY <1>1 DEF GateInv, GateOK, gateVars
<1>3. \A p : Inside(p)' = Inside(p) /\ Bypassing(p)' = Bypassing(p)
  BY <1>1 DEF Inside, Bypassing, gateVars
<1> QED
  BY <1>2, <1>3 DEF GateInv, CountOK, gateVars

\* Every step.
LEMMA NextGates == GateInv /\ [LeaseNext]_leaseVars => GateInv'
<1> SUFFICES ASSUME GateInv, [LeaseNext]_leaseVars PROVE GateInv'
  OBVIOUS
<1> USE DEF GateInv
<1>1. LeaseTypeOK
  OBVIOUS
<1>2. CASE Tick
  <2>1. lease' \in [token : Tokens, left : Nat]
    <3>1. NoLease \in [token : Tokens, left : Nat]
      BY DEF NoLease, Tokens
    <3>2. lease.left > 1 => [lease EXCEPT !.left = @ - 1] \in [token : Tokens, left : Nat]
      BY <1>1 DEF LeaseTypeOK
    <3> QED
      BY <1>2, <3>1, <3>2, <1>1 DEF Tick, LeaseTypeOK
  <2>2. age' \in [Tasks -> Nat]
    BY <1>2, <1>1 DEF Tick, LeaseTypeOK
  <2>3. LeaseTypeOK'
    BY <1>2, <2>1, <2>2 DEF Tick, LeaseTypeOK, gateVars
  <2> QED
    BY <1>2, <2>3, GatesKept DEF Tick
<1>3. CASE Clear
  <2>1. LeaseTypeOK'
    BY <1>3 DEF Clear, LeaseTypeOK, Tokens, NoLease, gateVars
  <2> QED
    BY <1>3, <2>1, GatesKept DEF Clear
<1>4. ASSUME NEW t \in Tasks, Step(t) PROVE GateInv'
  <2>1. CASE Arrive(t)
    BY <2>1, ArriveGates
  <2>2. CASE PassGate(t)
    BY <2>2, PassGateGates
  <2>3. CASE GiveUp(t)
    <3>1. GateOK' /\ CountOK' /\ waiters' \in [Processes -> Nat] /\ gate' \in [Processes -> Tasks \cup {NoTask}]
          /\ gateHandle' \in [Tasks -> Tasks \cup {NoTask}] /\ hasGate' \in [Tasks -> BOOLEAN]
      BY <2>3, LeaveGates DEF GiveUp, Goto
    <3>2. 0 \in Tokens
      BY DEF Tokens
    <3> QED
      BY <2>3, <3>1, <3>2 DEF GiveUp, Goto, LeaseTypeOK
  <2>4. CASE Try(t)
    <3>1. fence + 1 \in Tokens /\ profile.ttl \in Nat
      BY <2>4 DEF Try, LeaseTypeOK, Tokens
    <3>2. LeaseTypeOK'
      BY <2>4, <3>1 DEF Try, Goto, LeaseTypeOK, gateVars
    <3> QED
      BY <2>4, <3>2, GatesKept DEF Try, Goto, LeaseTypeOK
  <2>5. CASE Enter(t)
    <3>1. GateOK' /\ CountOK' /\ waiters' \in [Processes -> Nat] /\ gate' \in [Processes -> Tasks \cup {NoTask}]
          /\ gateHandle' \in [Tasks -> Tasks \cup {NoTask}] /\ hasGate' \in [Tasks -> BOOLEAN]
      BY <2>5, LeaveGates DEF Enter, Goto
    <3>2. depth' \in [Tasks -> 0 .. MaxDepth]
      BY <2>5 DEF Enter, LeaseTypeOK
    <3>3. LeaseTypeOK'
      BY <2>5, <3>1, <3>2 DEF Enter, Goto, LeaseTypeOK
    <3> QED
      BY <3>1, <3>3
  <2>6. CASE Reenter(t) \/ ReleaseNested(t)
    <3>1. depth' \in [Tasks -> 0 .. MaxDepth]
      BY <2>6 DEF Reenter, ReleaseNested, LeaseTypeOK
    <3> QED
      BY <2>6, <3>1, GatesKept DEF Reenter, ReleaseNested, LeaseTypeOK, gateVars
  <2>7. CASE ReleaseLease(t)
    <3>1. LeaseTypeOK'
      BY <2>7 DEF ReleaseLease, Goto, LeaseTypeOK, gateVars
    <3> QED
      BY <2>7, <3>1, GatesKept DEF ReleaseLease, Goto, LeaseTypeOK
  <2>8. CASE DeleteIfMine(t) \/ ReadToken(t) \/ DeleteRead(t) \/ ReleaseFails(t)
    <3>1. 0 \in Tokens /\ NoLease \in [token : Tokens, left : Nat]
      BY DEF Tokens, NoLease
    <3>2. /\ pc[t] \in {"leaving", "read"}
          /\ \E where \in {"idle", "read"} : Goto(t, where)
          /\ UNCHANGED <<profile, fence, gateVars, depth, cleared>>
          /\ lease' \in {lease, NoLease}
          /\ token' \in {token, [token EXCEPT ![t] = 0]}
      BY <2>8 DEF DeleteIfMine, ReadToken, DeleteRead, ReleaseFails, Forget
    <3>3. LeaseTypeOK'
      BY <3>1, <3>2 DEF LeaseTypeOK, Goto, gateVars
    <3> QED
      BY <3>2, <3>3, GatesKept DEF Goto, LeaseTypeOK
  <2> QED
    BY <1>4, <2>1, <2>2, <2>3, <2>4, <2>5, <2>6, <2>7, <2>8 DEF Step
<1>5. CASE UNCHANGED leaseVars
  <2>1. LeaseTypeOK'
    BY <1>5 DEF leaseVars, LeaseTypeOK, gateVars
  <2> QED
    BY <1>5, <2>1, GatesKept DEF leaseVars
<1> QED
  BY <1>2, <1>3, <1>4, <1>5 DEF LeaseNext

(* The gates, their counts and every type, for any tasks and processes. *)
THEOREM GateInvariance == LeaseSpec => []GateInv
  BY InitGates, NextGates, PTL DEF LeaseSpec

(* Every variable keeps its type. *)
THEOREM LockTypeCorrect == LeaseSpec => []LeaseTypeOK
<1>1. GateInv => LeaseTypeOK
  BY DEF GateInv
<1> QED
  BY <1>1, GateInvariance, PTL

\* At most one task of a process has the gate.
LEMMA OneHasGate ==
  ASSUME GateInv, NEW p \in Processes
  PROVE  /\ IsFiniteSet({t \in Inside(p) : hasGate[t]})
         /\ Cardinality({t \in Inside(p) : hasGate[t]}) \in {0, 1}
<1> DEFINE G == {t \in Inside(p) : hasGate[t]}
<1>1. CASE G = {}
  BY <1>1, FS_EmptySet
<1>2. CASE G # {}
  <2>1. PICK t \in G : TRUE
    BY <1>2
  <2>2. \A u \in G : u = t
    BY <2>1 DEF GateInv, GateOK, Inside
  <2>3. G = {t}
    BY <2>1, <2>2
  <2>4. IsFiniteSet({t}) /\ Cardinality({t}) = 1
    BY FS_Singleton
  <2> QED
    BY <2>3, <2>4
<1> QED
  BY <1>1, <1>2

(* The registry's count is exact and a gate lives as long as somebody is inside
   acquire(), whatever gives up when. *)
THEOREM GatesInStepHolds == LeaseSpec => []GatesInStep
<1>1. GateInv => GatesInStep
  <2> SUFFICES ASSUME GateInv, NEW p \in Processes
               PROVE  /\ waiters[p] = Cardinality(Inside(p))
                      /\ gate[p] # NoTask => Inside(p) # {}
                      /\ \A t \in Inside(p) : gateHandle[t] \in {NoTask, gate[p]}
                      /\ Cardinality({t \in Inside(p) : hasGate[t]}) <= 1
    BY DEF GatesInStep
  <2>1. \A t \in Inside(p) : gateHandle[t] \in {NoTask, gate[p]}
    BY DEF GateInv, GateOK, Inside
  <2>2. Cardinality({t \in Inside(p) : hasGate[t]}) <= 1
    BY OneHasGate
  <2> QED
    BY <2>1, <2>2 DEF GateInv, CountOK
<1> QED
  BY <1>1, GateInvariance, PTL

(* Of the tasks of a process that ask the server, at most Threshold came past the
   gate, and at most one through it. *)
THEOREM GateBoundsRaceHolds == LeaseSpec => []GateBoundsRace
<1>1. GateInv => GateBoundsRace
  <2> SUFFICES ASSUME GateInv, NEW p \in Processes
               PROVE  Cardinality({t \in Inside(p) : pc[t] # "gate"}) <= Threshold + 1
    BY DEF GateBoundsRace
  <2> DEFINE R == {t \in Inside(p) : pc[t] # "gate"}
             G == {t \in Inside(p) : hasGate[t]}
             U == Bypassing(p) \cup G
  <2>1. R \in SUBSET U
    BY DEF GateInv, GateOK, Inside, Bypassing
  <2>2. IsFiniteSet(G) /\ Cardinality(G) \in {0, 1}
    BY OneHasGate
  <2>3. /\ IsFiniteSet(Bypassing(p)) /\ Cardinality(Bypassing(p)) \in Nat
        /\ Cardinality(Bypassing(p)) <= Threshold
    BY InsideFinite DEF GateInv, CountOK
  <2>4. /\ IsFiniteSet(U)
        /\ Cardinality(U) = Cardinality(Bypassing(p)) + Cardinality(G) - Cardinality(Bypassing(p) \cap G)
    BY <2>2, <2>3, FS_Union
  <2>5. IsFiniteSet(Bypassing(p) \cap G)
    BY <2>3, FS_Subset
  <2>6. Cardinality(Bypassing(p) \cap G) \in Nat
    BY <2>5, FS_CardinalityType
  <2>7. Cardinality(U) <= Threshold + 1
    BY <2>2, <2>3, <2>4, <2>6
  <2>8. Cardinality(R) <= Cardinality(U) /\ Cardinality(R) \in Nat /\ Cardinality(U) \in Nat
    BY <2>1, <2>4, FS_Subset, FS_CardinalityType
  <2> QED
    BY <2>7, <2>8
<1> QED
  BY <1>1, GateInvariance, PTL

----------------------------------------------------------------------------
(* The lease. *)

\* The server has granted t's request, and t has not forgotten it.
Using(t) == pc[t] \in {"won", "body", "leaving", "read"}

\* The most that may have passed before t came where it is.
Spent(t) ==
  CASE pc[t] = "won"     -> 0
    [] pc[t] = "body"    -> profile.delay
    [] pc[t] = "leaving" -> profile.delay + profile.local
    [] pc[t] = "read"    -> profile.delay + profile.local + profile.delay

Owns(t) ==
  /\ lease.token = token[t]
  /\ age[t] <= Patience(t)
  /\ lease.left + Spent(t) + age[t] >= profile.ttl
  /\ \A u \in Tasks : Using(u) => u = t

LeaseInv ==
  /\ LeaseTypeOK
  /\ cleared => profile.store = "redis"
  /\ \A t \in Tasks : pc[t] = "read" => profile.store = "memcached"
  /\ Timely /\ ~cleared => \A t \in Tasks : Using(t) => Owns(t)

\* The bounds of a timely profile are numbers.
LEMMA TimelyNumbers ==
  ASSUME LeaseTypeOK, Timely
  PROVE  /\ profile.delay \in Nat /\ profile.local \in Nat /\ profile.ttl \in Nat
         /\ profile.delay # Unbounded /\ profile.local # Unbounded
         /\ profile.local + 3 * profile.delay < profile.ttl
BY DEF LeaseTypeOK, Timely

\* An owner's lease has time left.
LEMMA OwnedIsLive ==
  ASSUME LeaseTypeOK, Timely, NEW t \in Tasks, Using(t), Owns(t)
  PROVE  lease.left > 0 /\ (age[t] < Patience(t) => lease.left > 1)
<1>1. /\ profile.delay \in Nat /\ profile.local \in Nat /\ profile.ttl \in Nat
      /\ profile.local + 3 * profile.delay < profile.ttl
  BY TimelyNumbers
<1>2. lease.left \in Nat /\ age[t] \in Nat
  BY DEF LeaseTypeOK
<1>3. Spent(t) \in Nat /\ Patience(t) \in Nat /\ Spent(t) + Patience(t) <= profile.local + 3 * profile.delay
  BY <1>1 DEF Using, Spent, Patience
<1> QED
  BY <1>1, <1>2, <1>3 DEF Owns

\* NoTask uses a lease at first.
LEMMA InitLease == LeaseInit => LeaseInv
<1> SUFFICES ASSUME LeaseInit PROVE LeaseInv
  OBVIOUS
<1>1. LeaseTypeOK
  BY InitGates DEF GateInv
<1>2. \A t \in Tasks : pc[t] = "idle"
  BY DEF LeaseInit
<1> QED
  BY <1>1, <1>2 DEF LeaseInit, LeaseInv, Using

\* Steps of a task that leave the lease, the tokens and the users alone.
LEMMA LeaseKept ==
  ASSUME LeaseInv, LeaseTypeOK', NEW t \in Tasks,
         UNCHANGED <<profile, lease, cleared>>,
         \A u \in Tasks \ {t} : pc'[u] = pc[u] /\ token'[u] = token[u] /\ age'[u] = age[u],
         \/ pc'[t] = pc[t] /\ token'[t] = token[t] /\ age'[t] = age[t]
         \/ pc'[t] \in {"idle", "gate", "race"}
  PROVE  LeaseInv'
<1>1. \A u \in Tasks : Using(u)' => /\ pc'[u] = pc[u] /\ token'[u] = token[u]
                                     /\ age'[u] = age[u] /\ Using(u)
  BY DEF Using
<1>2. ASSUME Timely', ~cleared', NEW u \in Tasks, Using(u)' PROVE Owns(u)'
  <2>1. Timely /\ ~cleared
    BY <1>2 DEF Timely
  <2>2. Owns(u) /\ pc'[u] = pc[u] /\ token'[u] = token[u] /\ age'[u] = age[u]
    BY <1>1, <1>2, <2>1 DEF LeaseInv
  <2>3. Spent(u)' = Spent(u) /\ Patience(u)' = Patience(u)
    BY <2>2 DEF Spent, Patience
  <2> QED
    BY <1>1, <2>2, <2>3 DEF Owns
<1>3. \A u \in Tasks : pc'[u] = "read" => pc[u] = "read"
  OBVIOUS
<1> QED
  BY <1>2, <1>3 DEF LeaseInv

\* An owner goes on: it has waited no longer than it may where it was.
LEMMA LeasePassedOn ==
  ASSUME LeaseInv, LeaseTypeOK', NEW t \in Tasks, Using(t),
         UNCHANGED <<profile, lease, cleared, token>>,
         \/ pc[t] = "won" /\ Goto(t, "body")
         \/ pc[t] = "body" /\ Goto(t, "leaving")
         \/ pc[t] = "leaving" /\ profile.store = "memcached" /\ Goto(t, "read")
  PROVE  LeaseInv'
<1>1. /\ age'[t] = 0 /\ Using(t)'
      /\ \A u \in Tasks \ {t} : pc'[u] = pc[u]
      /\ pc[t] = "won" => pc'[t] = "body"
      /\ pc[t] = "body" => pc'[t] = "leaving"
      /\ pc[t] = "leaving" => pc'[t] = "read" /\ profile.store = "memcached"
      /\ pc[t] \in {"won", "body", "leaving"}
  BY DEF Goto, LeaseTypeOK, Using
<1>2. ASSUME Timely', ~cleared', NEW u \in Tasks, Using(u)' PROVE Owns(u)'
  <2>1. Timely /\ ~cleared
    BY <1>2 DEF Timely
  <2>2. \A v \in Tasks : Using(v)' => v = t
    <3>1. Owns(t)
      BY <2>1 DEF LeaseInv
    <3> QED
      BY <1>1, <3>1 DEF Owns, Using
  <2>3. Owns(t) /\ u = t
    BY <1>2, <2>1, <2>2 DEF LeaseInv
  <2>4. profile.delay \in Nat /\ profile.local \in Nat /\ profile.ttl \in Nat
    BY <2>1, TimelyNumbers DEF LeaseInv
  <2>5. age[t] \in Nat /\ lease.left \in Nat
    BY DEF LeaseInv, LeaseTypeOK
  <2>6. /\ Spent(t) \in Nat /\ Patience(t) \in Nat
        /\ Spent(t)' = Spent(t) + Patience(t)
        /\ Patience(t)' \in Nat
    BY <1>1, <2>4 DEF Spent, Patience
  <2>7. lease'.left + Spent(t)' + age'[t] >= profile'.ttl
    BY <1>1, <2>3, <2>4, <2>5, <2>6 DEF Owns
  <2>8. age'[t] <= Patience(t)' /\ lease'.token = token'[t]
    BY <1>1, <2>3, <2>6 DEF Owns
  <2> QED
    BY <2>2, <2>3, <2>7, <2>8 DEF Owns
<1>3. \A u \in Tasks : pc'[u] = "read" => profile.store = "memcached"
  BY <1>1 DEF LeaseInv
<1> QED
  BY <1>2, <1>3 DEF LeaseInv

\* The only user forgets the lease, and may have deleted it.
LEMMA LeaseForgotten ==
  ASSUME LeaseInv, LeaseTypeOK', NEW t \in Tasks, Using(t), Forget(t)
  PROVE  LeaseInv'
<1>1. /\ pc' = [pc EXCEPT ![t] = "idle"]
      /\ UNCHANGED <<profile, cleared>>
  BY DEF Forget, Goto
<1>2. \A u \in Tasks : Using(u)' => Using(u) /\ u # t
  BY <1>1 DEF LeaseInv, LeaseTypeOK, Using
<1>3. Timely' /\ ~cleared' => \A u \in Tasks : ~Using(u)'
  <2> SUFFICES ASSUME Timely, ~cleared, NEW u \in Tasks, Using(u)' PROVE FALSE
    BY <1>1 DEF Timely
  <2>1. Owns(t)
    BY DEF LeaseInv
  <2> QED
    BY <1>2, <2>1 DEF Owns
<1>4. \A u \in Tasks : pc'[u] = "read" => pc[u] = "read"
  BY <1>1 DEF LeaseInv, LeaseTypeOK
<1> QED
  BY <1>1, <1>3, <1>4 DEF LeaseInv

\* Time passes for the lease and for its user alike.
LEMMA LeaseTicks ==
  ASSUME LeaseInv, LeaseTypeOK', Tick
  PROVE  LeaseInv'
<1>1. /\ UNCHANGED <<profile, pc, token, cleared>>
      /\ lease' = IF lease.left <= 1 THEN NoLease ELSE [lease EXCEPT !.left = @ - 1]
      /\ age' = [t \in Tasks |-> IF Patience(t) = Unbounded THEN 0 ELSE age[t] + 1]
      /\ \A t \in Tasks : Patience(t) # Unbounded => age[t] < Patience(t)
  BY DEF Tick
<1>2. ASSUME Timely', ~cleared', NEW u \in Tasks, Using(u)' PROVE Owns(u)'
  <2>1. Timely /\ ~cleared /\ Using(u)
    BY <1>1, <1>2 DEF Timely, Using
  <2>2. Owns(u)
    BY <2>1 DEF LeaseInv
  <2>3. profile.delay \in Nat /\ profile.local \in Nat /\ profile.ttl \in Nat
        /\ profile.delay # Unbounded /\ profile.local # Unbounded
    BY <2>1, TimelyNumbers DEF LeaseInv
  <2>4. Patience(u) \in Nat /\ Patience(u) # Unbounded /\ Spent(u) \in Nat
    BY <2>1, <2>3 DEF Patience, Spent, Using
  <2>5. age[u] < Patience(u) /\ age'[u] = age[u] + 1
    BY <1>1, <2>4
  <2>6. lease.left > 1
    BY <2>1, <2>2, <2>5, OwnedIsLive DEF LeaseInv
  <2>7. lease'.token = lease.token /\ lease'.left = lease.left - 1
    BY <1>1, <2>6 DEF LeaseInv, LeaseTypeOK
  <2>8. Spent(u)' = Spent(u) /\ Patience(u)' = Patience(u)
    BY <1>1 DEF Spent, Patience
  <2>9. age[u] \in Nat /\ lease.left \in Nat
    BY DEF LeaseInv, LeaseTypeOK
  <2>10. lease'.left + Spent(u)' + age'[u] >= profile'.ttl /\ age'[u] <= Patience(u)'
    BY <1>1, <2>2, <2>3, <2>4, <2>5, <2>7, <2>8, <2>9 DEF Owns
  <2> QED
    BY <1>1, <2>2, <2>7, <2>10 DEF Owns, Using
<1> QED
  BY <1>1, <1>2 DEF LeaseInv

\* The server grants the lease while it is free, and then nobody uses it.
LEMMA LeaseGranted ==
  ASSUME LeaseInv, LeaseTypeOK', NEW t \in Tasks, Try(t)
  PROVE  LeaseInv'
<1>1. /\ Free /\ UNCHANGED <<profile, cleared>>
      /\ lease' = [token |-> fence', left |-> profile.ttl]
      /\ token' = [token EXCEPT ![t] = fence']
      /\ pc' = [pc EXCEPT ![t] = "won"] /\ age' = [age EXCEPT ![t] = 0]
  BY DEF Try, Goto
<1>2. ASSUME Timely', ~cleared', NEW u \in Tasks, Using(u)' PROVE Owns(u)'
  <2>1. Timely /\ ~cleared
    BY <1>1, <1>2 DEF Timely
  <2>2. \A v \in Tasks : ~Using(v)
    BY <1>1, <2>1, OwnedIsLive DEF LeaseInv, Free
  <2>3. \A v \in Tasks : Using(v)' => v = t
    BY <1>1, <2>2 DEF LeaseInv, LeaseTypeOK, Using
  <2>4. u = t
    BY <1>2, <2>3
  <2>5. profile.delay \in Nat /\ profile.ttl \in Nat
    BY <2>1, TimelyNumbers DEF LeaseInv
  <2>6. pc'[t] = "won" /\ age'[t] = 0 /\ token'[t] = fence'
    BY <1>1 DEF LeaseInv, LeaseTypeOK
  <2>7. Spent(t)' = 0 /\ Patience(t)' = profile.delay
    BY <1>1, <2>6 DEF Spent, Patience
  <2> QED
    BY <1>1, <2>3, <2>4, <2>5, <2>6, <2>7 DEF Owns
<1>3. \A u \in Tasks : pc'[u] = "read" => pc[u] = "read"
  BY <1>1 DEF LeaseInv, LeaseTypeOK
<1> QED
  BY <1>1, <1>2, <1>3 DEF LeaseInv

\* Every step.
LEMMA NextLease == LeaseInv /\ LeaseTypeOK' /\ [LeaseNext]_leaseVars => LeaseInv'
<1> SUFFICES ASSUME LeaseInv, LeaseTypeOK', [LeaseNext]_leaseVars PROVE LeaseInv'
  OBVIOUS
<1>1. CASE Tick
  BY <1>1, LeaseTicks
<1>2. CASE Clear
  BY <1>2 DEF Clear, LeaseInv
<1>3. ASSUME NEW t \in Tasks, Step(t) PROVE LeaseInv'
  <2>1. CASE Arrive(t) \/ PassGate(t) \/ GiveUp(t) \/ Reenter(t) \/ ReleaseNested(t)
    <3>1. /\ UNCHANGED <<profile, lease, cleared>>
          /\ \A u \in Tasks \ {t} : pc'[u] = pc[u] /\ token'[u] = token[u] /\ age'[u] = age[u]
          /\ \/ pc'[t] = pc[t] /\ token'[t] = token[t] /\ age'[t] = age[t]
             \/ pc'[t] \in {"idle", "gate", "race"}
      BY <2>1 DEF Arrive, PassGate, GiveUp, Reenter, ReleaseNested, Goto, LeaseInv, LeaseTypeOK
    <3> QED
      BY <3>1, LeaseKept
  <2>2. CASE Try(t)
    BY <2>2, LeaseGranted
  <2>3. CASE Enter(t) \/ ReleaseLease(t) \/ (ReadToken(t) /\ Mine(t))
    BY <2>3, LeasePassedOn DEF Enter, ReleaseLease, ReadToken, Using
  <2>4. CASE DeleteIfMine(t) \/ (ReadToken(t) /\ ~Mine(t)) \/ DeleteRead(t) \/ ReleaseFails(t)
    BY <2>4, LeaseForgotten DEF DeleteIfMine, ReadToken, DeleteRead, ReleaseFails, Using
  <2> QED
    BY <1>3, <2>1, <2>2, <2>3, <2>4 DEF Step
<1>4. CASE UNCHANGED leaseVars
  BY <1>4 DEF leaseVars, LeaseInv, LeaseTypeOK, Timely, Using, Owns, Spent, Patience
<1> QED
  BY <1>1, <1>2, <1>3, <1>4 DEF LeaseNext

(* A task that was granted the lease owns it as long as it may use it. *)
THEOREM LeaseInvariance == LeaseSpec => []LeaseInv
  BY InitLease, NextLease, LockTypeCorrect, PTL DEF LeaseSpec

(* Bodies exclude each other for any tasks, TTL, delay and watchdog that leave the
   lease more time than three delays and the watchdog take. *)
THEOREM ExclusionHolds == LeaseSpec => []Exclusion
<1>1. LeaseInv => Exclusion
  BY DEF LeaseInv, Exclusion, Owns, Using
<1> QED
  BY <1>1, LeaseInvariance, PTL

\* On Memcached nothing is later than the lease allows.
TimelyStore == profile.store = "memcached" => Timely

(* Only a lease's holder takes it away, as it leaves, or clearing does: on Redis
   whatever is late, on Memcached if nothing is later than the lease allows. *)
THEOREM LeaseIsKeptHolds == LeaseSpec /\ TimelyStore => LeaseIsKept
<1>1. LeaseInv /\ TimelyStore /\ [LeaseNext]_leaseVars =>
        [lease.left > 1 /\ lease'.token # lease.token
           => cleared' \/ \E t \in Tasks : token[t] = lease.token /\ pc[t] \in {"leaving", "read"} /\ pc'[t] = "idle"]_leaseVars
  <2> SUFFICES ASSUME LeaseInv, TimelyStore, LeaseNext, lease.left > 1, lease'.token # lease.token
               PROVE  cleared' \/ \E t \in Tasks : /\ token[t] = lease.token
                                                 /\ pc[t] \in {"leaving", "read"} /\ pc'[t] = "idle"
    OBVIOUS
  <2>1. CASE Tick
    BY <2>1 DEF Tick, LeaseInv, LeaseTypeOK
  <2>2. CASE Clear
    BY <2>2 DEF Clear
  <2>3. ASSUME NEW t \in Tasks, Step(t)
        PROVE  \E u \in Tasks : token[u] = lease.token /\ pc[u] \in {"leaving", "read"} /\ pc'[u] = "idle"
    <3>1. DeleteIfMine(t) \/ DeleteRead(t)
      BY <2>3 DEF Step, Arrive, PassGate, GiveUp, Try, Free, Enter, Reenter, ReleaseNested, ReleaseLease,
                  ReadToken, ReleaseFails
    <3>2. pc[t] \in {"leaving", "read"} /\ pc'[t] = "idle"
      BY <3>1 DEF DeleteIfMine, DeleteRead, Forget, Goto, LeaseInv, LeaseTypeOK
    <3>3. token[t] = lease.token
      <4>1. CASE DeleteIfMine(t)
        BY <4>1 DEF DeleteIfMine, Mine
      <4>2. CASE DeleteRead(t)
        <5>1. profile.store = "memcached" /\ Using(t) /\ ~cleared
          BY <4>2 DEF DeleteRead, LeaseInv, Using
        <5>2. Timely
          BY <5>1 DEF TimelyStore
        <5> QED
          BY <5>1, <5>2 DEF LeaseInv, Owns
      <4> QED
        BY <3>1, <4>1, <4>2
    <3> QED
      BY <3>2, <3>3
  <2> QED
    BY <2>1, <2>2, <2>3 DEF LeaseNext
<1>2. TimelyStore /\ [LeaseNext]_leaseVars => TimelyStore'
  <2>1. [LeaseNext]_leaseVars => profile' = profile
    BY DEF LeaseNext, Step, Tick, Clear, Arrive, PassGate, GiveUp, Try, Enter, Reenter, ReleaseNested,
           ReleaseLease, DeleteIfMine, ReadToken, DeleteRead, ReleaseFails, Forget, leaseVars
  <2> QED
    BY <2>1 DEF TimelyStore, Timely
<1> QED
  BY <1>1, <1>2, LeaseInvariance, PTL DEF LeaseSpec, LeaseIsKept

=============================================================================
