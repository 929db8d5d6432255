---------------------------- MODULE QuotaContext ----------------------------
(***************************************************************************)
(* The quota contexts of traffik/quotas.py.  A request opens a context that *)
(* is bound to a throttle, queues calls in it and in contexts nested in it, *)
(* and the throttles are hit only when a context is applied: by hand, or by *)
(* its exit.  The outermost context holds a backend lock from its entry; all *)
(* requests here use the same key.  Nested contexts take no lock, whatever  *)
(* lock they ask for.                                                       *)
(*                                                                         *)
(* A request has one context per depth, each nested in the one before it,   *)
(* and is one task: only applying awaits anything, so the rest of a body,   *)
(* between two awaits, is one step per operation.  Any operation may be used *)
(* on any context that was opened, also after its block was left.  A call   *)
(* costs one.  An entry of a queue is the set of calls aggregated in it.      *)
(***************************************************************************)
EXTENDS Naturals, Sequences, FiniteSets, FiniteSetsExt

CONSTANTS Requests,
          Nobody,       \* the owner of a lock that is free
          MaxAttempts,  \* retry + 1
          MaxDepth,     \* bound: how deeply contexts nest
          MaxCalls,     \* bound: calls of all requests together
          MaxFailures   \* bound: applies that fail, of all requests together

ASSUME NobodyAssumption == Nobody \notin Requests

ASSUME BoundAssumption ==
  /\ MaxAttempts \in Nat \ {0} /\ MaxDepth \in Nat
  /\ MaxCalls \in Nat /\ MaxFailures \in Nat

VARIABLES
  lock,      \* who holds the backend lock: exactly the root whose _exit_stack is open
  ctx,       \* ctx[r][k]: the context of r at depth k
  task,      \* what the request's task is doing
  issued,    \* the calls in order: who issued them, at which depth
  hits,      \* per call: how often its throttle was hit with it
  failures,  \* per request: applies that failed
  dropped,   \* history: calls queued in a context, or below one, that was cancelled
  strayed    \* history: calls merged into a context that was consumed or cancelled

vars == <<lock, ctx, task, issued, hits, failures, dropped, strayed>>

Depths == 0 .. MaxDepth

Calls == 1 .. MaxCalls

Absent == [phase |-> "absent", consumed |-> FALSE, cancelled |-> FALSE,
           attached |-> FALSE, queue |-> <<>>]

Body == [pc |-> "body"]

InBody(r) == task[r] = Body

Opened(c) == c.phase # "absent"

Active(c) == Opened(c) /\ ~c.consumed /\ ~c.cancelled

\* The depth of the innermost block r is in.
Innermost(r, k) ==
  ctx[r][k].phase = "open" /\ \A j \in Depths : j > k => ctx[r][j].phase # "open"

Queued(c) == UNION {c.queue[i] : i \in DOMAIN c.queue}

Init == /\ lock = Nobody
        /\ ctx = [r \in Requests |-> [k \in Depths |-> Absent]]
        /\ task = [r \in Requests |-> Body]
        /\ issued = <<>>
        /\ hits = [n \in Calls |-> 0]
        /\ failures = [r \in Requests |-> 0]
        /\ dropped = {} /\ strayed = {}

----------------------------------------------------------------------------
(* __aenter__ *)

EnterRoot(r) ==
  /\ InBody(r) /\ ctx[r][0] = Absent
  /\ lock = Nobody
  /\ lock' = r
  /\ ctx' = [ctx EXCEPT ![r][0].phase = "open"]
  /\ UNCHANGED <<task, issued, hits, failures, dropped, strayed>>

\* nested() asks nothing of the parent but that it exists.
EnterNested(r) ==
  /\ InBody(r)
  /\ \E k \in Depths \ {0} :
       /\ ctx[r][k] = Absent /\ Innermost(r, k - 1)
       /\ ctx' = [ctx EXCEPT ![r][k] = [@ EXCEPT !.phase = "open", !.attached = TRUE]]
  /\ UNCHANGED <<lock, task, issued, hits, failures, dropped, strayed>>

----------------------------------------------------------------------------
(* consume *)

\* A call joins the last entry of the queue if both have the same throttle, context,
\* fixed cost and retries, which is left open here, or becomes an entry.
Enqueued(queue, n) ==
  {Append(queue, {n})} \cup
  {[queue EXCEPT ![i] = @ \cup {n}] : i \in DOMAIN queue \cap {Len(queue)}}

Consume(r) ==
  /\ InBody(r) /\ Len(issued) < MaxCalls
  /\ \E k \in Depths :
       /\ Active(ctx[r][k])
       /\ \E queue \in Enqueued(ctx[r][k].queue, Len(issued) + 1) :
            ctx' = [ctx EXCEPT ![r][k].queue = queue]
       /\ issued' = Append(issued, [by |-> r, at |-> k])
  /\ UNCHANGED <<lock, task, hits, failures, dropped, strayed>>

----------------------------------------------------------------------------
(* merge *)

\* The contexts f once the one at depth k is merged into its parent, whose own
\* state is not looked at.  The merged queue is not inspected afterwards.
MergedKept(f, k) ==
  [f EXCEPT ![k - 1].queue = @ \o f[k].queue, ![k].attached = FALSE]

Merged(f, k) ==
  [f EXCEPT ![k - 1].queue = @ \o f[k].queue,
            ![k] = [@ EXCEPT !.queue = <<>>, !.consumed = TRUE, !.attached = FALSE]]

Strays(f, k) == IF Active(f[k - 1]) THEN {} ELSE Queued(f[k])

Merge(r) ==
  /\ InBody(r)
  /\ \E k \in Depths \ {0} :
       /\ Active(ctx[r][k])
       /\ ctx' = [ctx EXCEPT ![r] = Merged(@, k)]
       /\ strayed' = strayed \cup Strays(ctx[r], k)
  /\ UNCHANGED <<lock, task, issued, hits, failures, dropped>>

----------------------------------------------------------------------------
(* cancel *)

\* What a cancellation reaches: the context, and active contexts below it.
Reached(r, k) ==
  {j \in Depths : j >= k /\ \A i \in k + 1 .. j : ctx[r][i].attached /\ Active(ctx[r][i])}

CancelledAt(f, where) ==
  [j \in Depths |-> IF j \in where THEN [f[j] EXCEPT !.queue = <<>>, !.cancelled = TRUE] ELSE f[j]]

CancelShallow(r) ==
  /\ InBody(r)
  /\ \E k \in Depths :
       /\ Active(ctx[r][k])
       /\ ctx' = [ctx EXCEPT ![r] = CancelledAt(@, {k})]
       /\ dropped' = dropped \cup UNION {Queued(ctx[r][j]) : j \in Reached(r, k)}
       /\ lock' = IF k = 0 /\ lock = r THEN Nobody ELSE lock
  /\ UNCHANGED <<task, issued, hits, failures, strayed>>

CancelUnlocks(r) ==
  /\ InBody(r)
  /\ \E k \in Depths :
       /\ Active(ctx[r][k])
       /\ ctx' = [ctx EXCEPT ![r] = CancelledAt(@, Reached(r, k))]
       /\ dropped' = dropped \cup UNION {Queued(ctx[r][j]) : j \in Reached(r, k)}
       /\ lock' = IF lock = r THEN Nobody ELSE lock
  /\ UNCHANGED <<task, issued, hits, failures, strayed>>

\* A cancelled child stays among its parent's children; the root's lock goes.
Cancel(r) ==
  /\ InBody(r)
  /\ \E k \in Depths :
       /\ Active(ctx[r][k])
       /\ ctx' = [ctx EXCEPT ![r] = CancelledAt(@, Reached(r, k))]
       /\ dropped' = dropped \cup UNION {Queued(ctx[r][j]) : j \in Reached(r, k)}
       /\ lock' = IF k = 0 /\ lock = r THEN Nobody ELSE lock
  /\ UNCHANGED <<task, issued, hits, failures, strayed>>

----------------------------------------------------------------------------
(* apply *)

\* First the child is merged, unless it is consumed; what is below it is not.
WithChild(f, k) ==
  IF k < MaxDepth /\ f[k + 1].attached /\ ~f[k + 1].consumed THEN Merged(f, k + 1) ELSE f

AppliedUnmarked(f, k) == [f EXCEPT ![k].attached = FALSE]

Applied(f, k) ==
  [f EXCEPT ![k] = [f[k] EXCEPT !.consumed = TRUE, !.attached = FALSE,
                                !.queue = IF k = 0 THEN f[k].queue ELSE <<>>]]

\* The rest of __aexit__: the block is left, and the exit stack closed.
Leave(r, f) == /\ ctx' = [ctx EXCEPT ![r] = [f EXCEPT ![0].phase = "left"]]
               /\ lock' = IF lock = r THEN Nobody ELSE lock

\* The last entry has been hit, or there was none.
Finish(r, f, k, exiting) ==
  /\ \/ exiting /\ Leave(r, Applied(f, k))
     \/ ~exiting /\ ctx' = [ctx EXCEPT ![r] = Applied(f, k)] /\ UNCHANGED lock
  /\ task' = [task EXCEPT ![r] = Body]

Start(r, k, exiting) ==
  LET f == WithChild(ctx[r], k)
  IN  /\ \/ f[k].queue = <<>> /\ Finish(r, f, k, exiting)
         \/ /\ f[k].queue # <<>>
            /\ ctx' = [ctx EXCEPT ![r] = f]
            /\ task' = [task EXCEPT ![r] = [pc |-> "hitting", depth |-> k, entry |-> 1,
                                            attempt |-> 1, exiting |-> exiting]]
            /\ UNCHANGED lock
      /\ UNCHANGED <<issued, hits, failures, dropped, strayed>>

\* By hand, from a body; a consumed context returns at once.
Apply(r) ==
  /\ InBody(r)
  /\ \E k \in Depths : Active(ctx[r][k]) /\ Start(r, k, FALSE)

Queue(r) == ctx[r][task[r].depth].queue

HitSucceedsOnward(r) ==
  /\ task[r].pc = "hitting"
  /\ hits' = [n \in Calls |-> IF n \in Queue(r)[task[r].entry] THEN hits[n] + 1 ELSE hits[n]]
  /\ task' = [task EXCEPT ![r].entry = @ + 1, ![r].attempt = 1]
  /\ UNCHANGED <<lock, ctx, issued, failures, dropped, strayed>>

HitSucceeds(r) ==
  /\ task[r].pc = "hitting"
  /\ hits' = [n \in Calls |-> IF n \in Queue(r)[task[r].entry] THEN hits[n] + 1 ELSE hits[n]]
  /\ \/ /\ task[r].entry < Len(Queue(r))
        /\ task' = [task EXCEPT ![r].entry = @ + 1, ![r].attempt = 1]
        /\ UNCHANGED <<lock, ctx>>
     \/ /\ task[r].entry = Len(Queue(r))
        /\ Finish(r, ctx[r], task[r].depth, task[r].exiting)
  /\ UNCHANGED <<issued, failures, dropped, strayed>>

HitRetries(r) ==
  /\ task[r].pc = "hitting" /\ task[r].attempt < MaxAttempts
  /\ task' = [task EXCEPT ![r].attempt = @ + 1]
  /\ UNCHANGED <<lock, ctx, issued, hits, failures, dropped, strayed>>

MayFail == MapThenSumSet(LAMBDA r : failures[r], Requests) < MaxFailures

HitSkipped(r) ==
  /\ task[r].pc = "hitting" /\ MayFail
  /\ task[r].entry < Len(Queue(r))
  /\ failures' = [failures EXCEPT ![r] = @ + 1]
  /\ task' = [task EXCEPT ![r].entry = @ + 1, ![r].attempt = 1]
  /\ UNCHANGED <<lock, ctx, issued, hits, dropped, strayed>>

HitFailsLocked(r) ==
  /\ task[r].pc = "hitting" /\ MayFail
  /\ failures' = [failures EXCEPT ![r] = @ + 1]
  /\ task' = [task EXCEPT ![r] = Body]
  /\ IF task[r].exiting THEN ctx' = [ctx EXCEPT ![r][0].phase = "left"] ELSE UNCHANGED ctx
  /\ UNCHANGED <<lock, issued, hits, dropped, strayed>>

\* The throttle refuses, the attempts are used up or the error is not to be retried:
\* apply raises and leaves the context active, with its whole queue.
HitFails(r) ==
  /\ task[r].pc = "hitting" /\ MayFail
  /\ failures' = [failures EXCEPT ![r] = @ + 1]
  /\ task' = [task EXCEPT ![r] = Body]
  /\ \/ task[r].exiting /\ Leave(r, ctx[r])
     \/ ~task[r].exiting /\ UNCHANGED <<lock, ctx>>
  /\ UNCHANGED <<issued, hits, dropped, strayed>>

----------------------------------------------------------------------------
(* __aexit__ of the innermost block *)

\* Consumed or cancelled meanwhile: nothing is done, nor is the exit stack closed.
ExitInactive(r) ==
  /\ InBody(r)
  /\ \E k \in Depths :
       /\ Innermost(r, k) /\ ~Active(ctx[r][k])
       /\ ctx' = [ctx EXCEPT ![r][k].phase = "left"]
  /\ UNCHANGED <<lock, task, issued, hits, failures, dropped, strayed>>

ExitMerges(r) ==
  /\ InBody(r)
  /\ \E k \in Depths \ {0} :
       /\ Innermost(r, k) /\ Active(ctx[r][k])
       /\ ctx' = [ctx EXCEPT ![r] = Merged([@ EXCEPT ![k].phase = "left"], k)]
       /\ strayed' = strayed \cup Strays(ctx[r], k)
  /\ UNCHANGED <<lock, task, issued, hits, failures, dropped>>

ExitApplies(r) ==
  /\ InBody(r)
  /\ Innermost(r, 0) /\ Active(ctx[r][0])
  /\ Start(r, 0, TRUE)

\* apply_on_exit is off ("left"), or the block raised what apply_on_error does not
\* cover ("failed", told apart in nested contexts only).
ExitWithheld(r) ==
  /\ InBody(r)
  /\ \E k \in Depths, how \in {"left", "failed"} :
       /\ Innermost(r, k) /\ Active(ctx[r][k])
       /\ how = "failed" => k > 0
       /\ ctx' = [ctx EXCEPT ![r][k].phase = how]
       /\ lock' = IF k = 0 /\ lock = r THEN Nobody ELSE lock
  /\ UNCHANGED <<task, issued, hits, failures, dropped, strayed>>

Exit(r) == ExitInactive(r) \/ ExitMerges(r) \/ ExitApplies(r) \/ ExitWithheld(r)

Hit(r) == HitSucceeds(r) \/ HitRetries(r) \/ HitFails(r)

Next == \E r \in Requests : \/ EnterRoot(r) \/ EnterNested(r)
                            \/ Consume(r) \/ Merge(r) \/ Cancel(r) \/ Apply(r)
                            \/ Hit(r) \/ Exit(r)

Spec == Init /\ [][Next]_vars

\* Hits return, and the bodies of the blocks come to an end.
FairSpec == Spec /\ \A r \in Requests : WF_vars(Hit(r)) /\ WF_vars(Exit(r))

----------------------------------------------------------------------------
(* Properties *)

\* The shape of the contexts; a task that hits has an entry to hit.
TypeOK ==
  /\ lock \in Requests \cup {Nobody}
  /\ \A r \in Requests, k \in Depths :
       /\ ctx[r][k].phase \in {"absent", "open", "left", "failed"}
       /\ ctx[r][k].consumed \in BOOLEAN /\ ctx[r][k].cancelled \in BOOLEAN
       /\ ctx[r][k].attached \in BOOLEAN
       /\ ctx[r][k].queue \in Seq(SUBSET Calls)
       /\ ctx[r][k].attached => k > 0
  /\ \A r \in Requests :
       \/ InBody(r)
       \/ /\ task[r].pc = "hitting" /\ task[r].attempt \in 1 .. MaxAttempts
          /\ Active(ctx[r][task[r].depth])
          /\ task[r].entry \in DOMAIN Queue(r)
          /\ task[r].exiting => task[r].depth = 0
  /\ issued \in Seq([by : Requests, at : Depths])
  /\ hits \in [Calls -> Nat]
  /\ failures \in [Requests -> Nat]
  /\ dropped \subseteq Calls /\ strayed \subseteq Calls

\* "Calling it multiple times only consumes once": however calls are merged, applied
\* by hand, by an exit and again, each is charged once, and once more for every apply
\* that failed half way and was repeated (there is no rollback).
ChargedOnce == \A n \in DOMAIN issued : hits[n] <= 1 + failures[issued[n].by]

\* A call is never lost nor queued twice: until it is charged it sits in exactly one
\* active context, unless it was cancelled, or merged into a context that was done.
NothingLost ==
  \A n \in DOMAIN issued :
    LET f == ctx[issued[n].by]
        places == {k \in Depths : Active(f[k]) /\ n \in Queued(f[k])}
    IN  /\ Cardinality(places) <= 1
        /\ places # {} \/ hits[n] > 0 \/ n \in dropped \/ n \in strayed

\* Calls of one context are charged in the order in which they were made, also when
\* they are merged, aggregated with others and the applying fails in between.
InOrder ==
  \A m, n \in DOMAIN issued : m < n /\ issued[m] = issued[n] => hits[m] >= hits[n]

\* "The entire quota context (including user code) is atomic with respect to other
\* quota contexts using the same lock key": from the entry to the exit or the
\* cancellation of the root, whatever becomes of the contexts nested in it.
BlockIsLocked ==
  \A r \in Requests : ctx[r][0].phase = "open" /\ ~ctx[r][0].cancelled => lock = r

\* What was queued in a context, or below it, when it was cancelled is never charged.
CancelledIsFree == [][\A n \in dropped : hits'[n] = hits[n]]_vars

\* The lock comes free, unless the root was applied by hand inside its block.
LockComesFree == \A r \in Requests : lock = r ~> (lock # r \/ ctx[r][0].consumed)

\* "The lock is acquired on context entry and released on exit."
ReleasedOnExit == \A r \in Requests : lock = r => ctx[r][0].phase = "open"

\* "Child contexts merge their queued quota entries into the parent when they exit
\* successfully", and a context does not consume on an exception that apply_on_error
\* does not cover: what such a child queued does not reach the parent by itself.
FailedChildIsFree ==
  [][\A r \in Requests, k \in Depths \ {0} :
       ctx[r][k].phase = "failed" /\ Active(ctx[r][k]) /\ ~Merge(r)
         => Queued(ctx'[r][k - 1]) \cap Queued(ctx[r][k]) = {}]_vars
=============================================================================
