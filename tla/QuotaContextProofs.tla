------------------------- MODULE QuotaContextProofs -------------------------
(***************************************************************************)
(* Proofs about QuotaContext: its types, that a root's block is locked, and   *)
(* that a call is neither lost nor charged twice, but for failed applies.    *)
(***************************************************************************)
EXTENDS QuotaContext, SequenceTheorems, FiniteSetTheorems, TLAPS

USE BoundAssumption, NobodyAssumption

----------------------------------------------------------------------------
(* Types.  A family is the contexts of one request, by depth.               *)

Context == [phase : {"absent", "open", "left", "failed"}, consumed : BOOLEAN, cancelled : BOOLEAN,
            attached : BOOLEAN, queue : Seq(SUBSET Calls)]

Family == [Depths -> Context]

Hitting == [pc : {"hitting"}, depth : Depths, entry : Nat \ {0}, attempt : 1 .. MaxAttempts,
            exiting : BOOLEAN]

Types ==
  /\ lock \in Requests \cup {Nobody}
  /\ ctx \in [Requests -> Family]
  /\ \A r \in Requests : ~ctx[r][0].attached
  /\ task \in [Requests -> {Body} \cup Hitting]
  /\ issued \in Seq([by : Requests, at : Depths]) /\ Len(issued) <= MaxCalls
  /\ hits \in [Calls -> Nat] /\ failures \in [Requests -> Nat]
  /\ dropped \subseteq Calls /\ strayed \subseteq Calls

\* A request that hits applies an active context, and is at one of its entries.
HittingOK(r) ==
  ~InBody(r) => /\ Active(ctx[r][task[r].depth])
                /\ task[r].entry \in DOMAIN Queue(r)
                /\ task[r].exiting => task[r].depth = 0

LEMMA DepthZero == 0 \in Depths
BY DEF Depths

LEMMA TaskShape ==
  ASSUME Types, NEW r \in Requests
  PROVE  /\ InBody(r) \/ task[r] \in Hitting
         /\ InBody(r) => task[r].pc = "body"
         /\ task[r] \in Hitting => /\ task[r].pc = "hitting" /\ ~InBody(r)
                                   /\ task[r].depth \in Depths /\ task[r].entry \in Nat \ {0}
                                   /\ task[r].attempt \in 1 .. MaxAttempts /\ task[r].exiting \in BOOLEAN
<1>1. task[r] \in {Body} \cup Hitting
  BY DEF Types
<1> QED
  BY <1>1 DEF InBody, Body, Hitting

LEMMA TypesGiveTypeOK ==
  ASSUME Types, \A r \in Requests : HittingOK(r)
  PROVE  TypeOK
<1>1. \A r \in Requests, k \in Depths :
        /\ ctx[r][k].phase \in {"absent", "open", "left", "failed"}
        /\ ctx[r][k].consumed \in BOOLEAN /\ ctx[r][k].cancelled \in BOOLEAN
        /\ ctx[r][k].attached \in BOOLEAN /\ ctx[r][k].queue \in Seq(SUBSET Calls)
  BY DEF Types, Family, Context
<1>2. \A r \in Requests, k \in Depths : ctx[r][k].attached => k > 0
  BY DEF Types, Depths
<1>3. \A r \in Requests :
        \/ InBody(r)
        \/ /\ task[r].pc = "hitting" /\ task[r].attempt \in 1 .. MaxAttempts
           /\ Active(ctx[r][task[r].depth])
           /\ task[r].entry \in DOMAIN Queue(r)
           /\ task[r].exiting => task[r].depth = 0
  BY TaskShape DEF HittingOK
<1> QED
  BY <1>1, <1>2, <1>3 DEF Types, TypeOK

----------------------------------------------------------------------------
(* What the operators on families do. *)

LEMMA QueuedType ==
  ASSUME NEW c \in Context
  PROVE  /\ c.queue \in Seq(SUBSET Calls) /\ Queued(c) \subseteq Calls
         /\ \A n : n \in Queued(c) <=> \E i \in DOMAIN c.queue : n \in c.queue[i]
         /\ DOMAIN c.queue = 1 .. Len(c.queue) /\ Len(c.queue) \in Nat
<1>1. c.queue \in Seq(SUBSET Calls)
  BY DEF Context
<1>2. DOMAIN c.queue = 1 .. Len(c.queue) /\ \A i \in DOMAIN c.queue : c.queue[i] \subseteq Calls
  BY <1>1
<1> QED
  BY <1>1, <1>2 DEF Queued

LEMMA EmptyQueue ==
  ASSUME NEW c, c.queue = <<>>
  PROVE  Queued(c) = {}
BY DEF Queued

\* A merge moves the child's queue behind the parent's.
LEMMA MergedIs ==
  ASSUME NEW f \in Family, NEW k \in Depths \ {0}
  PROVE  /\ Merged(f, k) \in Family /\ k - 1 \in Depths
         /\ Merged(f, k)[k - 1] = [f[k - 1] EXCEPT !.queue = f[k - 1].queue \o f[k].queue]
         /\ Merged(f, k)[k] = [f[k] EXCEPT !.consumed = TRUE, !.attached = FALSE, !.queue = <<>>]
         /\ \A j \in Depths \ {k - 1, k} : Merged(f, k)[j] = f[j]
<1>1. k - 1 \in Depths /\ k \in Depths /\ k # k - 1
  BY DEF Depths
<1>2. f[k - 1] \in Context /\ f[k] \in Context
  BY <1>1 DEF Family
<1>3. f[k - 1].queue \o f[k].queue \in Seq(SUBSET Calls) /\ <<>> \in Seq(SUBSET Calls)
  BY <1>2, QueuedType
<1>4. [f[k - 1] EXCEPT !.queue = f[k - 1].queue \o f[k].queue] \in Context
  BY <1>2, <1>3 DEF Context
<1>5. [f[k] EXCEPT !.consumed = TRUE, !.attached = FALSE, !.queue = <<>>] \in Context
  BY <1>2, <1>3 DEF Context
<1> QED
  BY <1>1, <1>4, <1>5 DEF Merged, Family

\* What that means for the queues, and for the flags.
LEMMA MergedQueue ==
  ASSUME NEW f \in Family, NEW k \in Depths \ {0}
  PROVE  Merged(f, k)[k - 1].queue = f[k - 1].queue \o f[k].queue
<1>1. f[k - 1] \in Context
  BY DEF Depths, Family
<1>2. Merged(f, k)[k - 1] = [f[k - 1] EXCEPT !.queue = f[k - 1].queue \o f[k].queue]
  BY MergedIs
<1> QED
  BY <1>1, <1>2 DEF Context

LEMMA MergedChild ==
  ASSUME NEW f \in Family, NEW k \in Depths \ {0}
  PROVE  Merged(f, k)[k].queue = <<>>
<1>1. f[k] \in Context
  BY DEF Depths, Family
<1>2. Merged(f, k)[k] = [f[k] EXCEPT !.consumed = TRUE, !.attached = FALSE, !.queue = <<>>]
  BY MergedIs
<1> QED
  BY <1>1, <1>2 DEF Context

LEMMA MergedFlags ==
  ASSUME NEW f \in Family, NEW k \in Depths \ {0}, NEW j \in Depths
  PROVE  /\ Merged(f, k)[j].phase = f[j].phase
         /\ Merged(f, k)[j].cancelled = f[j].cancelled
         /\ Merged(f, k)[j].consumed <=> (f[j].consumed \/ j = k)
         /\ Merged(f, k)[j].attached <=> (f[j].attached /\ j # k)
<1>1. k - 1 \in Depths /\ k \in Depths /\ k # k - 1 /\ f[j] \in Context
  BY DEF Depths, Family
<1>2. CASE j = k - 1
  <2>1. Merged(f, k)[j] = [f[j] EXCEPT !.queue = f[k - 1].queue \o f[k].queue]
    BY <1>2, MergedIs
  <2> QED
    BY <1>1, <1>2, <2>1 DEF Context
<1>3. CASE j = k
  <2>1. Merged(f, k)[j] = [f[j] EXCEPT !.consumed = TRUE, !.attached = FALSE, !.queue = <<>>]
    BY <1>3, MergedIs
  <2> QED
    BY <1>1, <1>3, <2>1 DEF Context
<1>4. CASE j \notin {k - 1, k}
  <2>1. Merged(f, k)[j] = f[j]
    <3>1. j \in Depths \ {k - 1, k}
      BY <1>4
    <3>2. \A i \in Depths \ {k - 1, k} : Merged(f, k)[i] = f[i]
      BY MergedIs
    <3> QED
      BY <3>1, <3>2
  <2>2. j # k
    BY <1>4
  <2>3. /\ f[j].consumed \in BOOLEAN /\ f[j].attached \in BOOLEAN
        /\ Merged(f, k)[j].consumed = f[j].consumed /\ Merged(f, k)[j].attached = f[j].attached
    BY <1>1, <2>1 DEF Context
  <2>4. /\ Merged(f, k)[j].consumed <=> (f[j].consumed \/ j = k)
        /\ Merged(f, k)[j].attached <=> (f[j].attached /\ j # k)
    BY <2>2, <2>3
  <2> QED
    BY <2>1, <2>4
<1> QED
  BY <1>2, <1>3, <1>4

LEMMA WithChildIs ==
  ASSUME NEW f \in Family, NEW k \in Depths
  PROVE  \/ WithChild(f, k) = f
         \/ k + 1 \in Depths \ {0} /\ ~f[k + 1].consumed /\ WithChild(f, k) = Merged(f, k + 1)
BY DEF WithChild, Depths

\* Applying empties the queue, but the root's, and marks the context.
LEMMA AppliedIs ==
  ASSUME NEW f \in Family, NEW k \in Depths
  PROVE  LET g == Applied(f, k) IN
         /\ g \in Family
         /\ g[k].queue = f[k].queue \/ g[k].queue = <<>>
         /\ \A j \in Depths : /\ g[j].phase = f[j].phase /\ g[j].cancelled = f[j].cancelled
                              /\ g[j].consumed <=> f[j].consumed \/ j = k
                              /\ g[j].attached <=> f[j].attached /\ j # k
         /\ \A j \in Depths \ {k} : g[j].queue = f[j].queue
<1>1. f[k] \in Context
  BY DEF Family
<1> DEFINE q == IF k = 0 THEN f[k].queue ELSE <<>>
<1>2. Applied(f, k) = [f EXCEPT ![k] = [f[k] EXCEPT !.consumed = TRUE, !.attached = FALSE, !.queue = q]]
  BY DEF Applied
<1>3. q \in Seq(SUBSET Calls) /\ (q = f[k].queue \/ q = <<>>)
  BY <1>1, QueuedType
<1> HIDE DEF q
<1>4. [f[k] EXCEPT !.consumed = TRUE, !.attached = FALSE, !.queue = q] \in Context
  BY <1>1, <1>3 DEF Context
<1>5. Applied(f, k) \in Family
  BY <1>2, <1>4 DEF Family
<1>6. /\ Applied(f, k)[k].queue = q /\ Applied(f, k)[k].phase = f[k].phase
      /\ Applied(f, k)[k].cancelled = f[k].cancelled
      /\ Applied(f, k)[k].consumed = TRUE /\ Applied(f, k)[k].attached = FALSE
  <2>1. Applied(f, k)[k] = [f[k] EXCEPT !.consumed = TRUE, !.attached = FALSE, !.queue = q]
    BY <1>2 DEF Family
  <2> QED
    BY <1>1, <2>1 DEF Context
<1>7. \A j \in Depths \ {k} : Applied(f, k)[j] = f[j]
  BY <1>2 DEF Family
<1>8. \A j \in Depths : f[j].consumed \in BOOLEAN /\ f[j].attached \in BOOLEAN
  BY DEF Family, Context
<1> QED
  BY <1>3, <1>5, <1>6, <1>7, <1>8

LEMMA CancelledAtIs ==
  ASSUME NEW f \in Family, NEW where
  PROVE  LET g == CancelledAt(f, where) IN
         /\ g \in Family
         /\ \A j \in Depths : /\ g[j].phase = f[j].phase /\ g[j].consumed = f[j].consumed
                              /\ g[j].attached = f[j].attached
                              /\ g[j].cancelled <=> f[j].cancelled \/ j \in where
                              /\ g[j].queue = IF j \in where THEN <<>> ELSE f[j].queue
<1>1. <<>> \in Seq(SUBSET Calls)
  OBVIOUS
<1>2. \A j \in Depths : f[j] \in Context /\ [f[j] EXCEPT !.queue = <<>>, !.cancelled = TRUE] \in Context
  BY <1>1 DEF Family, Context
<1>3. CancelledAt(f, where) \in Family
  BY <1>2 DEF CancelledAt, Family
<1>4. \A j \in Depths : CancelledAt(f, where)[j] =
        IF j \in where THEN [f[j] EXCEPT !.queue = <<>>, !.cancelled = TRUE] ELSE f[j]
  BY DEF CancelledAt
<1>5. \A j \in Depths : j \in where => /\ CancelledAt(f, where)[j].queue = <<>>
                                       /\ CancelledAt(f, where)[j].cancelled = TRUE
                                       /\ CancelledAt(f, where)[j].phase = f[j].phase
                                       /\ CancelledAt(f, where)[j].consumed = f[j].consumed
                                       /\ CancelledAt(f, where)[j].attached = f[j].attached
  BY ZenonT(60), <1>2, <1>4 DEF Context
<1>6. \A j \in Depths : j \notin where => CancelledAt(f, where)[j] = f[j]
  BY <1>4
<1>7. \A j \in Depths : f[j].cancelled \in BOOLEAN
  BY <1>2 DEF Context
<1> QED
  BY <1>3, <1>5, <1>6, <1>7

----------------------------------------------------------------------------
(* What is right about the family f of a request with the calls mine, of which *)
(* call n was hit h[n] times: every queued call is the request's and queued    *)
(* once; what may yet be hit was hit most times at most, at the depths that are *)
(* not free; and a call is queued in an active context, was hit, or is lost.   *)

Home(f, n) == \E k \in Depths : Active(f[k]) /\ n \in Queued(f[k])

Once(f) ==
  \A j, k \in Depths : \A i \in DOMAIN f[j].queue, l \in DOMAIN f[k].queue :
    \A n : n \in f[j].queue[i] /\ n \in f[k].queue[l] => j = k /\ i = l

Unhit(f, h, most, free) ==
  \A k \in Depths \ free : ~f[k].consumed => \A n \in Queued(f[k]) : h[n] <= most

Placed(mine, f, h, lost) == \A n \in mine : Home(f, n) \/ h[n] > 0 \/ n \in lost

Own(mine, f) == \A k \in Depths : Queued(f[k]) \subseteq mine

Sound(mine, f, h, most, lost, free) ==
  Own(mine, f) /\ Once(f) /\ Unhit(f, h, most, free) /\ Placed(mine, f, h, lost)

\* Other requests' hits and losses do not matter.
LEMMA SoundFrame ==
  ASSUME NEW mine, NEW f, NEW h, NEW most, NEW lost, NEW free, NEW g, NEW lost2,
         Sound(mine, f, h, most, lost, free), \A n \in mine : g[n] = h[n], lost \subseteq lost2
  PROVE  Sound(mine, f, g, most, lost2, free)
<1>1. Unhit(f, g, most, free)
  BY DEF Sound, Own, Unhit
<1>2. Placed(mine, f, g, lost2)
  BY DEF Sound, Placed
<1> QED
  BY <1>1, <1>2 DEF Sound

\* Nor do the phases.
LEMMA PhaseSound ==
  ASSUME NEW mine, NEW f \in Family, NEW h, NEW most, NEW lost, NEW free, NEW g \in Family,
         Sound(mine, f, h, most, lost, free),
         \A k \in Depths : /\ g[k].queue = f[k].queue /\ (g[k].consumed <=> f[k].consumed)
                           /\ (g[k].cancelled <=> f[k].cancelled) /\ (Opened(f[k]) => Opened(g[k]))
  PROVE  Sound(mine, g, h, most, lost, free)
<1>1. \A k \in Depths : Queued(g[k]) = Queued(f[k]) /\ (Active(f[k]) => Active(g[k]))
  BY DEF Queued, Active
<1>2. Own(mine, g) /\ Unhit(g, h, most, free) /\ Placed(mine, g, h, lost)
  BY <1>1 DEF Sound, Own, Unhit, Placed, Home
<1>3. Once(g)
  BY DEF Sound, Once
<1> QED
  BY <1>2, <1>3 DEF Sound

\* The queue of the child comes behind the parent's.
LEMMA MergedOnce ==
  ASSUME NEW f \in Family, NEW k \in Depths \ {0}, Once(f)
  PROVE  /\ Once(Merged(f, k))
         /\ Queued(Merged(f, k)[k - 1]) = Queued(f[k - 1]) \cup Queued(f[k])
         /\ Queued(Merged(f, k)[k]) = {}
<1> DEFINE g == Merged(f, k)
           p == f[k - 1].queue
           q == f[k].queue
<1>1. /\ k - 1 \in Depths /\ k \in Depths /\ k # k - 1 /\ f[k - 1] \in Context /\ f[k] \in Context
      /\ g[k - 1] \in Context
  <2>1. k - 1 \in Depths /\ k \in Depths /\ k # k - 1
    BY DEF Depths
  <2>2. g \in Family
    BY MergedIs
  <2> HIDE DEF g
  <2> QED
    BY <2>1, <2>2 DEF Family
<1>2. p \in Seq(SUBSET Calls) /\ q \in Seq(SUBSET Calls) /\ Len(p) \in Nat /\ Len(q) \in Nat
  <2>1. p \in Seq(SUBSET Calls) /\ q \in Seq(SUBSET Calls)
    BY <1>1, QueuedType
  <2> HIDE DEF p, q
  <2> QED
    BY <2>1, LenProperties
<1>3. g[k - 1].queue = p \o q /\ g[k].queue = <<>> /\ \A j \in Depths \ {k - 1, k} : g[j].queue = f[j].queue
  <2>1. g[k - 1].queue = p \o q /\ g[k].queue = <<>>
    BY MergedQueue, MergedChild
  <2>2. \A j \in Depths \ {k - 1, k} : g[j] = f[j]
    BY MergedIs
  <2> QED
    BY <2>1, <2>2
<1>7. /\ \A n : n \in Queued(f[k - 1]) <=> \E i \in DOMAIN p : n \in p[i]
      /\ \A n : n \in Queued(f[k]) <=> \E i \in DOMAIN q : n \in q[i]
      /\ \A n : n \in Queued(g[k - 1]) <=> \E i \in DOMAIN g[k - 1].queue : n \in g[k - 1].queue[i]
  BY <1>1, QueuedType
<1> HIDE DEF g, p, q
<1>4. /\ DOMAIN (p \o q) = 1 .. Len(p) + Len(q)
      /\ \A i \in 1 .. Len(p) + Len(q) : (p \o q)[i] = IF i <= Len(p) THEN p[i] ELSE q[i - Len(p)]
      /\ DOMAIN p = 1 .. Len(p) /\ DOMAIN q = 1 .. Len(q) /\ DOMAIN <<>> = {}
  <2>1. /\ Len(p \o q) = Len(p) + Len(q) /\ p \o q \in Seq(SUBSET Calls)
        /\ \A i \in 1 .. Len(p) + Len(q) : (p \o q)[i] = IF i <= Len(p) THEN p[i] ELSE q[i - Len(p)]
    BY <1>2, ConcatProperties
  <2> QED
    BY <1>2, <2>1
<1>5. Queued(g[k]) = {}
  BY <1>3, EmptyQueue
<1>6. Queued(g[k - 1]) = Queued(f[k - 1]) \cup Queued(f[k])
  <2>1. ASSUME NEW n, NEW i \in 1 .. Len(p) + Len(q), n \in (p \o q)[i]
        PROVE  n \in Queued(f[k - 1]) \cup Queued(f[k])
    <3>1. CASE i <= Len(p)
      BY <1>2, <1>4, <1>7, <2>1, <3>1
    <3>2. CASE ~(i <= Len(p))
      <4>1. i - Len(p) \in 1 .. Len(q) /\ n \in q[i - Len(p)]
        BY <1>2, <1>4, <2>1, <3>2
      <4> QED
        BY <1>4, <1>7, <4>1
    <3> QED
      BY <3>1, <3>2
  <2>2. ASSUME NEW n, NEW i \in 1 .. Len(p), n \in p[i] PROVE n \in Queued(g[k - 1])
    <3>1. i \in 1 .. Len(p) + Len(q) /\ n \in (p \o q)[i]
      BY <1>2, <1>4, <2>2
    <3> QED
      BY <1>3, <1>4, <1>7, <3>1
  <2>3. ASSUME NEW n, NEW i \in 1 .. Len(q), n \in q[i] PROVE n \in Queued(g[k - 1])
    <3>1. Len(p) + i \in 1 .. Len(p) + Len(q) /\ ~(Len(p) + i <= Len(p)) /\ (Len(p) + i) - Len(p) = i
      BY <1>2
    <3>2. n \in (p \o q)[Len(p) + i]
      BY <1>4, <2>3, <3>1
    <3> QED
      BY <1>3, <1>4, <1>7, <3>1, <3>2
  <2> QED
    BY <1>3, <1>4, <1>7, <2>1, <2>2, <2>3
<1>8. Once(g)
  <2> SUFFICES ASSUME NEW j \in Depths, NEW m \in Depths, NEW i \in DOMAIN g[j].queue, NEW l \in DOMAIN g[m].queue,
                      NEW n, n \in g[j].queue[i], n \in g[m].queue[l]
               PROVE  j = m /\ i = l
    BY DEF Once
  <2>1. j # k /\ m # k
    BY <1>3, <1>4
  \* Where the entry of the merged family comes from.
  <2>2. ASSUME NEW a \in Depths \ {k}, NEW b \in DOMAIN g[a].queue, n \in g[a].queue[b]
        PROVE  \/ a # k - 1 /\ b \in DOMAIN f[a].queue /\ n \in f[a].queue[b]
               \/ a = k - 1 /\ b \in DOMAIN p /\ n \in p[b]
               \/ a = k - 1 /\ b \in Int /\ b - Len(p) \in DOMAIN q /\ n \in q[b - Len(p)]
    <3>1. CASE a # k - 1
      BY <1>3, <2>2, <3>1
    <3>2. CASE a = k - 1
      <4>1. b \in 1 .. Len(p) + Len(q) /\ n \in IF b <= Len(p) THEN p[b] ELSE q[b - Len(p)]
        BY <1>3, <1>4, <2>2, <3>2
      <4> QED
        BY <1>2, <1>4, <3>2, <4>1
    <3> QED
      BY <3>1, <3>2
  <2>3. /\ \A a, b \in Depths : \A x \in DOMAIN f[a].queue, y \in DOMAIN f[b].queue :
             n \in f[a].queue[x] /\ n \in f[b].queue[y] => a = b /\ x = y
        /\ \A x, y \in DOMAIN p : n \in p[x] /\ n \in p[y] => x = y
        /\ \A x, y \in DOMAIN q : n \in q[x] /\ n \in q[y] => x = y
        /\ \A x \in DOMAIN p, y \in DOMAIN q : ~(n \in p[x] /\ n \in q[y])
        /\ \A a \in Depths : \A x \in DOMAIN f[a].queue :
             n \in f[a].queue[x] => /\ \A y \in DOMAIN p : n \in p[y] => a = k - 1
                                    /\ \A y \in DOMAIN q : n \in q[y] => a = k
    BY <1>1 DEF Once, p, q
  <2>4. \/ j # k - 1 /\ i \in DOMAIN f[j].queue /\ n \in f[j].queue[i]
        \/ j = k - 1 /\ i \in DOMAIN p /\ n \in p[i]
        \/ j = k - 1 /\ i \in Int /\ i - Len(p) \in DOMAIN q /\ n \in q[i - Len(p)]
    BY <2>1, <2>2
  <2>5. \/ m # k - 1 /\ l \in DOMAIN f[m].queue /\ n \in f[m].queue[l]
        \/ m = k - 1 /\ l \in DOMAIN p /\ n \in p[l]
        \/ m = k - 1 /\ l \in Int /\ l - Len(p) \in DOMAIN q /\ n \in q[l - Len(p)]
    BY <2>1, <2>2
  <2>6. \A x, y \in Int : x - Len(p) = y - Len(p) => x = y
    BY <1>2
  <2> QED
    BY <2>1, <2>3, <2>4, <2>5, <2>6
<1> QED
  BY <1>5, <1>6, <1>8 DEF g

\* What a merge into a context that is not active moves there is lost.
LEMMA MergedSound ==
  ASSUME NEW mine, NEW f \in Family, NEW h, NEW most, NEW lost, NEW k \in Depths \ {0},
         Sound(mine, f, h, most, lost, {}), ~f[k].consumed
  PROVE  Sound(mine, Merged(f, k), h, most, lost \cup Strays(f, k), {})
<1> DEFINE g == Merged(f, k)
<1>1. /\ Queued(g[k - 1]) = Queued(f[k - 1]) \cup Queued(f[k]) /\ Queued(g[k]) = {} /\ Once(g)
      /\ k - 1 \in Depths /\ k \in Depths
  BY MergedOnce, MergedIs DEF Sound
<1>2. /\ \A j \in Depths : /\ g[j].phase = f[j].phase /\ g[j].cancelled = f[j].cancelled
                           /\ (g[j].consumed <=> (f[j].consumed \/ j = k))
      /\ \A j \in Depths \ {k - 1, k} : Queued(g[j]) = Queued(f[j])
  <2>1. \A j \in Depths \ {k - 1, k} : g[j] = f[j]
    BY MergedIs
  <2>2. \A j \in Depths : /\ g[j].phase = f[j].phase /\ g[j].cancelled = f[j].cancelled
                          /\ (g[j].consumed <=> (f[j].consumed \/ j = k))
    BY MergedFlags
  <2> QED
    BY <2>1, <2>2
<1> HIDE DEF g
<1>3. Own(mine, g)
  BY <1>1, <1>2 DEF Sound, Own
<1>4. Unhit(g, h, most, {})
  BY <1>1, <1>2 DEF Sound, Unhit
<1>5. ASSUME NEW n \in mine, Home(f, n), ~Home(g, n) PROVE n \in Strays(f, k)
  <2>1. PICK j \in Depths : Active(f[j]) /\ n \in Queued(f[j])
    BY <1>5 DEF Home
  <2>2. j = k
    <3>1. CASE j # k
      <4>1. Active(g[j]) /\ n \in Queued(g[j])
        BY <1>1, <1>2, <2>1, <3>1 DEF Active, Opened
      <4> QED
        BY <1>5, <4>1 DEF Home
    <3> QED
      BY <3>1
  <2>3. ~Active(f[k - 1])
    <3>1. CASE Active(f[k - 1])
      <4>1. Active(g[k - 1]) /\ n \in Queued(g[k - 1])
        BY <1>1, <1>2, <2>1, <2>2, <3>1 DEF Active, Opened, Depths
      <4> QED
        BY <1>1, <1>5, <4>1 DEF Home
    <3> QED
      BY <3>1
  <2> QED
    BY <2>1, <2>2, <2>3 DEF Strays
<1>6. Placed(mine, g, h, lost \cup Strays(f, k))
  BY <1>5 DEF Sound, Placed
<1> QED
  BY <1>1, <1>3, <1>4, <1>6 DEF Sound, g

\* Applying first merges the child.
LEMMA WithChildSound ==
  ASSUME NEW mine, NEW f \in Family, NEW h, NEW most, NEW lost, NEW k \in Depths,
         Sound(mine, f, h, most, lost, {}), Active(f[k])
  PROVE  /\ WithChild(f, k) \in Family /\ Sound(mine, WithChild(f, k), h, most, lost, {})
         /\ \A j \in 0 .. k : /\ WithChild(f, k)[j].phase = f[j].phase
                              /\ WithChild(f, k)[j].cancelled = f[j].cancelled
                              /\ (WithChild(f, k)[j].consumed <=> f[j].consumed)
                              /\ (WithChild(f, k)[j].attached <=> f[j].attached)
<1>1. CASE WithChild(f, k) = f
  BY <1>1
<1>2. CASE k + 1 \in Depths \ {0} /\ ~f[k + 1].consumed /\ WithChild(f, k) = Merged(f, k + 1)
  <2>1. (k + 1) - 1 = k /\ \A j \in 0 .. k : j \in Depths /\ j # k + 1
    BY DEF Depths
  <2>2. Strays(f, k + 1) = {}
    BY <2>1 DEF Strays
  <2>3. Sound(mine, Merged(f, k + 1), h, most, lost \cup {}, {})
    BY <1>2, <2>2, MergedSound
  <2>4. lost \cup {} = lost
    OBVIOUS
  <2>5. Merged(f, k + 1) \in Family
    BY <1>2, MergedIs
  <2>6. \A j \in Depths : /\ Merged(f, k + 1)[j].phase = f[j].phase
                          /\ Merged(f, k + 1)[j].cancelled = f[j].cancelled
                          /\ (Merged(f, k + 1)[j].consumed <=> (f[j].consumed \/ j = k + 1))
                          /\ (Merged(f, k + 1)[j].attached <=> (f[j].attached /\ j # k + 1))
    BY <1>2, MergedFlags
  <2>7. \A j \in 0 .. k : /\ Merged(f, k + 1)[j].phase = f[j].phase
                          /\ Merged(f, k + 1)[j].cancelled = f[j].cancelled
                          /\ (Merged(f, k + 1)[j].consumed <=> f[j].consumed)
                          /\ (Merged(f, k + 1)[j].attached <=> f[j].attached)
    BY <2>1, <2>6
  <2> QED
    BY <1>2, <2>3, <2>4, <2>5, <2>7
<1> QED
  BY <1>1, <1>2, WithChildIs

\* All calls of the queue that is done were hit.
LEMMA AppliedSound ==
  ASSUME NEW mine, NEW f \in Family, NEW h, NEW most, NEW lost, NEW k \in Depths,
         Sound(mine, f, h, most, lost, {k}), \A n \in Queued(f[k]) : h[n] > 0
  PROVE  Sound(mine, Applied(f, k), h, most, lost, {})
<1> DEFINE g == Applied(f, k)
<1>1. /\ g[k].queue = f[k].queue \/ g[k].queue = <<>>
      /\ \A j \in Depths : /\ g[j].phase = f[j].phase /\ g[j].cancelled = f[j].cancelled
                           /\ (g[j].consumed <=> (f[j].consumed \/ j = k))
      /\ \A j \in Depths \ {k} : g[j].queue = f[j].queue
  BY AppliedIs
<1> HIDE DEF g
<1>2. \A j \in Depths : g[j].queue = f[j].queue \/ g[j].queue = <<>>
  BY <1>1
<1>3. \A j \in Depths : Queued(g[j]) \subseteq Queued(f[j])
  BY <1>2 DEF Queued
<1>4. \A j \in Depths \ {k} : Queued(g[j]) = Queued(f[j]) /\ (Active(f[j]) => Active(g[j]))
  BY <1>1 DEF Queued, Active, Opened
<1>5. Own(mine, g)
  BY <1>3 DEF Sound, Own
<1>6. Once(g)
  BY <1>2 DEF Sound, Once
<1>7. Unhit(g, h, most, {})
  BY <1>1, <1>4 DEF Sound, Unhit
<1>8. Placed(mine, g, h, lost)
  BY <1>4 DEF Sound, Placed, Home
<1> QED
  BY <1>5, <1>6, <1>7, <1>8 DEF Sound, g

\* What is queued where a cancellation reaches is lost.
LEMMA CancelledSound ==
  ASSUME NEW mine, NEW f \in Family, NEW h, NEW most, NEW lost, NEW where,
         Sound(mine, f, h, most, lost, {})
  PROVE  Sound(mine, CancelledAt(f, where), h, most,
               lost \cup UNION {Queued(f[j]) : j \in where}, {})
<1> DEFINE g == CancelledAt(f, where)
           new == UNION {Queued(f[j]) : j \in where}
<1>1. \A j \in Depths : /\ g[j].phase = f[j].phase /\ (g[j].consumed <=> f[j].consumed)
                        /\ (g[j].cancelled <=> f[j].cancelled \/ j \in where)
                        /\ g[j].queue = IF j \in where THEN <<>> ELSE f[j].queue
  BY CancelledAtIs
<1>2. \A j \in where : Queued(f[j]) \subseteq new
  OBVIOUS
<1> HIDE DEF g, new
<1>3. \A j \in Depths : IF j \in where THEN Queued(g[j]) = {}
                        ELSE Queued(g[j]) = Queued(f[j]) /\ (Active(f[j]) => Active(g[j]))
  BY <1>1, EmptyQueue DEF Queued, Active, Opened
<1>4. Own(mine, g)
  BY <1>3 DEF Sound, Own
<1>5. Once(g)
  BY <1>1 DEF Sound, Once
<1>6. Unhit(g, h, most, {})
  BY <1>1, <1>3 DEF Sound, Unhit
<1>7. Placed(mine, g, h, lost \cup new)
  BY <1>2, <1>3 DEF Sound, Placed, Home
<1> QED
  BY <1>4, <1>5, <1>6, <1>7 DEF Sound, g, new

\* A setting of the phase leaves all else alone.
LEMMA PhaseIs ==
  ASSUME NEW f \in Family, NEW k \in Depths, NEW p \in {"absent", "open", "left", "failed"},
         NEW g, g = [f EXCEPT ![k].phase = p]
  PROVE  /\ g \in Family /\ g[k].phase = p
         /\ \A j \in Depths : /\ g[j].queue = f[j].queue /\ (g[j].consumed <=> f[j].consumed)
                              /\ (g[j].cancelled <=> f[j].cancelled) /\ g[j].attached = f[j].attached
                              /\ (j # k => g[j].phase = f[j].phase)
<1>1. f[k] \in Context /\ [f[k] EXCEPT !.phase = p] \in Context
  BY DEF Family, Context
<1>2. g = [f EXCEPT ![k] = [f[k] EXCEPT !.phase = p]]
  OBVIOUS
<1>3. g \in Family
  BY <1>1, <1>2 DEF Family
<1>4. g[k] = [f[k] EXCEPT !.phase = p] /\ \A j \in Depths \ {k} : g[j] = f[j]
  BY <1>2 DEF Family
<1>5. /\ g[k].queue = f[k].queue /\ (g[k].consumed <=> f[k].consumed)
      /\ (g[k].cancelled <=> f[k].cancelled) /\ g[k].attached = f[k].attached /\ g[k].phase = p
  BY <1>1, <1>4 DEF Context
<1> QED
  BY <1>3, <1>4, <1>5

\* An entry more, or a larger last entry.
LEMMA EnqueuedIs ==
  ASSUME NEW old \in Seq(SUBSET Calls), NEW n \in Calls, NEW queue \in Enqueued(old, n)
  PROVE  /\ queue \in Seq(SUBSET Calls)
         /\ \A i \in DOMAIN queue : \A m \in queue[i] : m = n \/ (i \in DOMAIN old /\ m \in old[i])
         /\ \A i \in DOMAIN old : i \in DOMAIN queue /\ old[i] \subseteq queue[i]
         /\ \E l \in DOMAIN queue : /\ n \in queue[l]
                                    /\ \A i \in DOMAIN queue \ {l} : i \in DOMAIN old /\ queue[i] = old[i]
<1>1. CASE queue = Append(old, {n})
  <2>1. /\ queue \in Seq(SUBSET Calls) /\ Len(queue) = Len(old) + 1 /\ Len(old) \in Nat
        /\ \A i \in 1 .. Len(old) : queue[i] = old[i]
        /\ queue[Len(old) + 1] = {n}
    BY <1>1, AppendProperties, LenProperties
  <2>2. DOMAIN queue = 1 .. Len(old) + 1 /\ DOMAIN old = 1 .. Len(old)
    BY <2>1
  <2>3. \A i \in DOMAIN queue : (i \in DOMAIN old /\ queue[i] = old[i]) \/ (i = Len(old) + 1 /\ queue[i] = {n})
    <3> SUFFICES ASSUME NEW i \in DOMAIN queue
                 PROVE  (i \in DOMAIN old /\ queue[i] = old[i]) \/ (i = Len(old) + 1 /\ queue[i] = {n})
      OBVIOUS
    <3>1. i \in 1 .. Len(old) \/ i = Len(old) + 1
      BY <2>1, <2>2
    <3> QED
      BY <2>1, <2>2, <3>1
  <2>4. Len(old) + 1 \in DOMAIN queue /\ \A i \in DOMAIN old : i \in DOMAIN queue /\ queue[i] = old[i]
    <3>1. Len(old) + 1 \in 1 .. Len(old) + 1 /\ \A i \in 1 .. Len(old) : i \in 1 .. Len(old) + 1
      BY <2>1
    <3> QED
      BY <2>1, <2>2, <3>1
  <2>5. \A i \in DOMAIN queue : \A m \in queue[i] : m = n \/ (i \in DOMAIN old /\ m \in old[i])
    BY <2>3
  <2>6. \A i \in DOMAIN old : i \in DOMAIN queue /\ old[i] \subseteq queue[i]
    BY <2>4
  <2>7. \E l \in DOMAIN queue : /\ n \in queue[l]
                               /\ \A i \in DOMAIN queue \ {l} : i \in DOMAIN old /\ queue[i] = old[i]
    <3>1. n \in queue[Len(old) + 1]
      BY <2>1
    <3>2. \A i \in DOMAIN queue \ {Len(old) + 1} : i \in DOMAIN old /\ queue[i] = old[i]
      BY <2>3
    <3> QED
      BY <2>4, <3>1, <3>2
  <2> QED
    BY <2>1, <2>5, <2>6, <2>7
<1>2. CASE \E l \in DOMAIN old : queue = [old EXCEPT ![l] = @ \cup {n}]
  <2>1. PICK l \in DOMAIN old : queue = [old EXCEPT ![l] = old[l] \cup {n}]
    BY <1>2
  <2>2. old[l] \cup {n} \in SUBSET Calls
    BY <2>1
  <2>3. queue \in Seq(SUBSET Calls) /\ DOMAIN queue = DOMAIN old
    <3>1. l \in 1 .. Len(old) /\ DOMAIN queue = DOMAIN old
      BY <2>1
    <3> QED
      BY <2>1, <2>2, <3>1, ExceptSeq
  <2>4. n \in queue[l] /\ queue[l] = old[l] \cup {n} /\ \A i \in DOMAIN old \ {l} : queue[i] = old[i]
    BY <2>1
  <2>5. \A i \in DOMAIN queue : \A m \in queue[i] : m = n \/ (i \in DOMAIN old /\ m \in old[i])
    BY <2>3, <2>4
  <2>6. \A i \in DOMAIN old : i \in DOMAIN queue /\ old[i] \subseteq queue[i]
    BY <2>3, <2>4
  <2>7. \E x \in DOMAIN queue : /\ n \in queue[x]
                               /\ \A i \in DOMAIN queue \ {x} : i \in DOMAIN old /\ queue[i] = old[i]
    BY <2>3, <2>4
  <2> QED
    BY <2>3, <2>5, <2>6, <2>7
<1> QED
  BY <1>1, <1>2 DEF Enqueued

\* A call more, which is nowhere queued yet.
LEMMA ConsumeSound ==
  ASSUME NEW mine, NEW f \in Family, NEW h, NEW most, NEW lost, NEW k \in Depths, NEW n \in Calls \ mine,
         Sound(mine, f, h, most, lost, {}), Active(f[k]), h[n] <= most,
         NEW queue \in Enqueued(f[k].queue, n), NEW g \in Family,
         g[k].queue = queue, \A j \in Depths \ {k} : g[j].queue = f[j].queue,
         \A j \in Depths : /\ g[j].phase = f[j].phase /\ g[j].cancelled = f[j].cancelled
                           /\ g[j].consumed = f[j].consumed
  PROVE  Sound(mine \cup {n}, g, h, most, lost, {})
<1> DEFINE old == f[k].queue
<1>1. f[k] \in Context /\ old \in Seq(SUBSET Calls)
  BY DEF Family, Context
<1>2. /\ \A i \in DOMAIN queue : \A m \in queue[i] : m = n \/ (i \in DOMAIN old /\ m \in old[i])
      /\ \A i \in DOMAIN old : i \in DOMAIN queue /\ old[i] \subseteq queue[i]
      /\ \E l \in DOMAIN queue : /\ n \in queue[l]
                                 /\ \A i \in DOMAIN queue \ {l} : i \in DOMAIN old /\ queue[i] = old[i]
  BY <1>1, EnqueuedIs
<1>3. \A j \in Depths \ {k} : Queued(g[j]) = Queued(f[j])
  BY DEF Queued
<1>4. Queued(g[k]) = Queued(f[k]) \cup {n}
  <2>1. /\ \A m : m \in Queued(f[k]) <=> \E i \in DOMAIN old : m \in old[i]
        /\ \A m : m \in Queued(g[k]) <=> \E i \in DOMAIN queue : m \in queue[i]
    BY DEF Queued
  <2> HIDE DEF old
  <2>2. \A m \in Queued(g[k]) : m \in Queued(f[k]) \cup {n}
    BY <1>2, <2>1
  <2>3. Queued(f[k]) \subseteq Queued(g[k]) /\ n \in Queued(g[k])
    BY <1>2, <2>1
  <2> QED
    BY <2>2, <2>3
<1>5. \A j \in Depths : (Active(g[j]) <=> Active(f[j])) /\ n \notin Queued(f[j])
  BY DEF Active, Opened, Sound, Own
<1>6. Own(mine \cup {n}, g)
  BY <1>3, <1>4 DEF Sound, Own
<1>7. Unhit(g, h, most, {})
  BY <1>3, <1>4 DEF Sound, Unhit
<1>8. Placed(mine \cup {n}, g, h, lost)
  BY <1>3, <1>4, <1>5 DEF Sound, Placed, Home
<1>9. Once(g)
  <2> SUFFICES ASSUME NEW a \in Depths, NEW b \in Depths, NEW i \in DOMAIN g[a].queue,
                      NEW l \in DOMAIN g[b].queue, NEW m, m \in g[a].queue[i], m \in g[b].queue[l]
               PROVE  a = b /\ i = l
    BY DEF Once
  <2>1. CASE m = n
    <3>1. \A c \in Depths : \A x \in DOMAIN f[c].queue : n \notin f[c].queue[x]
      BY <1>5 DEF Queued
    <3>2. a = k /\ b = k
      BY <2>1, <3>1
    <3>3. PICK x \in DOMAIN queue : n \in queue[x] /\ \A y \in DOMAIN queue \ {x} : y \in DOMAIN old /\ queue[y] = old[y]
      BY <1>2
    <3> QED
      BY <2>1, <3>1, <3>2, <3>3
  <2>2. CASE m # n
    <3>1. /\ i \in DOMAIN f[a].queue /\ m \in f[a].queue[i]
          /\ l \in DOMAIN f[b].queue /\ m \in f[b].queue[l]
      BY <1>2, <2>2
    <3> QED
      BY <3>1 DEF Sound, Once
  <2> QED
    BY <2>1, <2>2
<1> QED
  BY <1>6, <1>7, <1>8, <1>9 DEF Sound

----------------------------------------------------------------------------
(* The inductive invariant *)

Issued(r) == {n \in DOMAIN issued : issued[n].by = r}

Lost == dropped \cup strayed

\* The context r is applying holds calls that were hit already, in the entries before
\* the one it is at.
Free(r) == IF InBody(r) THEN {} ELSE {task[r].depth}

HalfHit(r) ==
  ~InBody(r) => \A i \in DOMAIN Queue(r) : \A n \in Queue(r)[i] :
                  IF i < task[r].entry THEN hits[n] > 0 ELSE hits[n] <= failures[r]

CallsOK(r) ==
  /\ \A n \in Issued(r) : hits[n] <= 1 + failures[r]
  /\ Sound(Issued(r), ctx[r], hits, failures[r], Lost, Free(r))
  /\ HalfHit(r)

BlockOK(r) == ctx[r][0].phase = "open" /\ ~ctx[r][0].cancelled => lock = r

\* What was not issued was not hit.
Fresh == \A n \in Calls : n \notin DOMAIN issued => hits[n] = 0

IInv == Types /\ Fresh /\ \A r \in Requests : HittingOK(r) /\ CallsOK(r) /\ BlockOK(r)

LEMMA InitInv ==
  ASSUME Init
  PROVE  IInv
<1>1. Absent \in Context
  BY DEF Absent, Context
<1>2. Types
  BY <1>1, DepthZero DEF Init, Types, Family, Absent, Calls
<1>3. DOMAIN issued = {} /\ \A r \in Requests : Issued(r) = {}
  BY DEF Init, Issued
<1>4. Fresh
  BY DEF Init, Fresh
<1>5. ASSUME NEW r \in Requests PROVE HittingOK(r) /\ CallsOK(r) /\ BlockOK(r)
  <2>1. InBody(r)
    BY DEF Init, InBody
  <2>2. \A k \in Depths : ctx[r][k] = Absent /\ ctx[r][k].queue = <<>> /\ Queued(ctx[r][k]) = {}
    BY EmptyQueue DEF Init, Absent
  <2>3. BlockOK(r)
    BY <2>2, DepthZero DEF BlockOK, Absent
  <2>4. DOMAIN <<>> = {}
    OBVIOUS
  <2>5. Once(ctx[r])
    BY <2>2, <2>4 DEF Once
  <2>6. Sound(Issued(r), ctx[r], hits, failures[r], Lost, Free(r))
    BY <1>3, <2>2, <2>5 DEF Sound, Own, Unhit, Placed
  <2> QED
    BY <1>3, <2>1, <2>3, <2>6 DEF HittingOK, CallsOK, HalfHit
<1> QED
  BY <1>2, <1>4, <1>5 DEF IInv

LEMMA IssuedType ==
  ASSUME Types, NEW r \in Requests
  PROVE  /\ DOMAIN issued = 1 .. Len(issued) /\ Len(issued) \in Nat
         /\ Issued(r) \subseteq DOMAIN issued /\ Issued(r) \subseteq Calls
BY DEF Types, Issued, Calls

\* What a step of r may touch.
Calling(r) ==
  \/ issued' = issued
  \/ \E k \in Depths : issued' = Append(issued, [by |-> r, at |-> k]) /\ Len(issued) < MaxCalls

Local(r) ==
  /\ ctx' \in [Requests -> Family] /\ ~ctx'[r][0].attached
  /\ task' \in [Requests -> {Body} \cup Hitting]
  /\ \A q \in Requests \ {r} : ctx'[q] = ctx[q] /\ task'[q] = task[q] /\ failures'[q] = failures[q]
  /\ lock' = lock \/ (lock \in {r, Nobody} /\ lock' \in {r, Nobody})
  /\ hits' \in [Calls -> Nat] /\ failures' \in [Requests -> Nat]
  /\ \A n \in Calls \ Issued(r) : hits'[n] = hits[n]
  /\ Calling(r)
  /\ dropped \subseteq dropped' /\ dropped' \subseteq Calls
  /\ strayed \subseteq strayed' /\ strayed' \subseteq Calls

\* The calls of the others stay, and r has at most one more.
LEMMA IssuedStep ==
  ASSUME Types, NEW r \in Requests, Calling(r)
  PROVE  /\ issued' \in Seq([by : Requests, at : Depths]) /\ Len(issued') <= MaxCalls
         /\ DOMAIN issued \subseteq DOMAIN issued'
         /\ \A n \in DOMAIN issued : issued'[n] = issued[n]
         /\ \A n \in DOMAIN issued' \ DOMAIN issued : n = Len(issued) + 1 /\ issued'[n].by = r
<1>1. CASE issued' = issued
  BY <1>1 DEF Types
<1>2. ASSUME NEW k \in Depths, issued' = Append(issued, [by |-> r, at |-> k]), Len(issued) < MaxCalls
      PROVE  /\ issued' \in Seq([by : Requests, at : Depths]) /\ Len(issued') <= MaxCalls
             /\ DOMAIN issued \subseteq DOMAIN issued'
             /\ \A n \in DOMAIN issued : issued'[n] = issued[n]
             /\ \A n \in DOMAIN issued' \ DOMAIN issued : n = Len(issued) + 1 /\ issued'[n].by = r
  <2> DEFINE c == [by |-> r, at |-> k]
  <2>1. c \in [by : Requests, at : Depths] /\ issued \in Seq([by : Requests, at : Depths]) /\ c.by = r
    BY DEF Types
  <2> HIDE DEF c
  <2>2. /\ Append(issued, c) \in Seq([by : Requests, at : Depths]) /\ Len(Append(issued, c)) = Len(issued) + 1
        /\ \A i \in 1 .. Len(issued) : Append(issued, c)[i] = issued[i]
        /\ Append(issued, c)[Len(issued) + 1] = c
    BY <2>1, AppendProperties
  <2>3. issued' = Append(issued, c) /\ Len(issued) \in Nat
    BY <1>2, <2>1 DEF c
  <2>4. DOMAIN issued = 1 .. Len(issued) /\ DOMAIN issued' = 1 .. Len(issued) + 1
    BY <2>1, <2>2, <2>3
  <2>5. \A n \in DOMAIN issued' \ DOMAIN issued : n = Len(issued) + 1
    BY <2>3, <2>4
  <2>6. Len(issued') <= MaxCalls
    BY <1>2, <2>2, <2>3
  <2>7. DOMAIN issued \subseteq DOMAIN issued'
    BY <2>3, <2>4
  <2> QED
    BY <2>1, <2>2, <2>3, <2>4, <2>5, <2>6, <2>7
<1> QED
  BY <1>1, <1>2 DEF Calling

\* It is enough to look at the request that takes the step.
LEMMA LocalStep ==
  ASSUME IInv, NEW r \in Requests, Local(r), HittingOK(r)', CallsOK(r)', BlockOK(r)'
  PROVE  IInv'
<1>1. Types
  BY DEF IInv
<1>2. /\ issued' \in Seq([by : Requests, at : Depths]) /\ Len(issued') <= MaxCalls
      /\ DOMAIN issued \subseteq DOMAIN issued'
      /\ \A n \in DOMAIN issued : issued'[n] = issued[n]
      /\ \A n \in DOMAIN issued' \ DOMAIN issued : n = Len(issued) + 1 /\ issued'[n].by = r
  BY <1>1, IssuedStep DEF Local
<1>3. Types'
  <2>1. \A q \in Requests : ~ctx'[q][0].attached
    BY <1>1 DEF Local, Types
  <2>2. lock' \in Requests \cup {Nobody}
    BY <1>1 DEF Local, Types
  <2> QED
    BY <1>2, <2>1, <2>2 DEF Local, Types
<1>4. Fresh'
  BY <1>1, <1>2, IssuedType DEF IInv, Fresh, Local
<1>5. ASSUME NEW q \in Requests \ {r} PROVE HittingOK(q)' /\ CallsOK(q)' /\ BlockOK(q)'
  <2>1. /\ ctx'[q] = ctx[q] /\ task'[q] = task[q] /\ failures'[q] = failures[q]
        /\ (InBody(q)' <=> InBody(q)) /\ Queue(q)' = Queue(q) /\ Free(q)' = Free(q)
    BY DEF Local, InBody, Queue, Free
  <2>2. HittingOK(q) /\ CallsOK(q) /\ BlockOK(q)
    BY DEF IInv
  <2>3. Issued(q)' = Issued(q)
    BY <1>2 DEF Issued
  <2>4. \A n \in Issued(q) : hits'[n] = hits[n]
    <3>1. Issued(q) \subseteq Calls /\ Issued(q) \cap Issued(r) = {}
      BY <1>1, IssuedType DEF Issued
    <3> QED
      BY <3>1 DEF Local
  <2>5. HittingOK(q)'
    BY <2>1, <2>2 DEF HittingOK
  <2>6. Sound(Issued(q)', ctx'[q], hits', failures'[q], Lost', Free(q)')
    <3>1. Lost \subseteq Lost'
      BY DEF Lost, Local
    <3> QED
      BY <2>1, <2>2, <2>3, <2>4, <3>1, SoundFrame DEF CallsOK
  <2>7. HalfHit(q)'
    <3>1. \A i \in DOMAIN Queue(q) : ~InBody(q) => Queue(q)[i] \subseteq Issued(q)
      <4>1. ~InBody(q) => task[q].depth \in Depths
        BY <1>1, TaskShape
      <4>2. \A k \in Depths : Queued(ctx[q][k]) \subseteq Issued(q)
        BY <2>2 DEF CallsOK, Sound, Own
      <4> QED
        BY <4>1, <4>2 DEF Queue, Queued
    <3> QED
      BY <2>1, <2>2, <2>4, <3>1 DEF HalfHit, CallsOK
  <2>8. \A n \in Issued(q)' : hits'[n] <= 1 + failures'[q]
    BY <2>1, <2>2, <2>3, <2>4 DEF CallsOK
  <2>9. BlockOK(q)'
    <3>1. q # Nobody
      OBVIOUS
    <3> QED
      BY <2>1, <2>2, <3>1 DEF BlockOK, Local
  <2> QED
    BY <2>5, <2>6, <2>7, <2>8, <2>9 DEF CallsOK
<1> QED
  BY <1>3, <1>4, <1>5 DEF IInv

----------------------------------------------------------------------------
(* The steps *)

\* A step of a body that hits nothing.
LEMMA BodyStep ==
  ASSUME IInv, NEW r \in Requests, InBody(r), NEW g \in Family,
         ctx' = [ctx EXCEPT ![r] = g], ~g[0].attached,
         lock' = lock \/ (lock \in {r, Nobody} /\ lock' \in {r, Nobody}),
         g[0].phase = "open" /\ ~g[0].cancelled => lock' = r,
         UNCHANGED <<task, issued, hits, failures>>,
         dropped \subseteq dropped', dropped' \subseteq Calls, strayed \subseteq strayed', strayed' \subseteq Calls,
         Sound(Issued(r), g, hits, failures[r], Lost', {})
  PROVE  IInv'
<1>1. Types /\ CallsOK(r)
  BY DEF IInv
<1>2. ctx' \in [Requests -> Family] /\ ctx'[r] = g
  BY <1>1 DEF Types
<1>3. InBody(r)' /\ Issued(r)' = Issued(r) /\ Free(r)' = {}
  BY DEF InBody, Issued, Free
<1>4. Local(r)
  BY <1>1, <1>2 DEF Local, Calling, Types
<1>5. HittingOK(r)' /\ BlockOK(r)' /\ HalfHit(r)'
  BY <1>2, <1>3 DEF HittingOK, BlockOK, HalfHit
<1>6. CallsOK(r)'
  BY <1>1, <1>2, <1>3, <1>5 DEF CallsOK
<1> QED
  BY <1>4, <1>5, <1>6, LocalStep

LEMMA InvOfBody ==
  ASSUME IInv, NEW r \in Requests
  PROVE  /\ Types /\ ctx[r] \in Family /\ ~ctx[r][0].attached
         /\ dropped \subseteq Calls /\ strayed \subseteq Calls
         /\ \A k \in Depths : Queued(ctx[r][k]) \subseteq Calls
         /\ BlockOK(r)
         /\ InBody(r) => Sound(Issued(r), ctx[r], hits, failures[r], Lost, {})
<1>1. Types /\ BlockOK(r) /\ ctx[r] \in Family /\ ~ctx[r][0].attached /\ dropped \subseteq Calls /\ strayed \subseteq Calls
  BY DEF IInv, Types
<1>2. \A k \in Depths : Queued(ctx[r][k]) \subseteq Calls
  BY <1>1, QueuedType DEF Family
<1>3. InBody(r) => Sound(Issued(r), ctx[r], hits, failures[r], Lost, {})
  BY DEF IInv, CallsOK, Free
<1> QED
  BY <1>1, <1>2, <1>3

\* A block is entered or left: only phases, the lock and who is attached change.
LEMMA PhaseStep ==
  ASSUME IInv, NEW r \in Requests, InBody(r), NEW g \in Family,
         ctx' = [ctx EXCEPT ![r] = g], ~g[0].attached,
         lock' = lock \/ (lock \in {r, Nobody} /\ lock' \in {r, Nobody}),
         g[0].phase = "open" /\ ~g[0].cancelled => lock' = r,
         UNCHANGED <<task, issued, hits, failures, dropped, strayed>>,
         \A k \in Depths : /\ g[k].queue = ctx[r][k].queue /\ (g[k].consumed <=> ctx[r][k].consumed)
                           /\ (g[k].cancelled <=> ctx[r][k].cancelled)
                           /\ (Opened(ctx[r][k]) => Opened(g[k]))
  PROVE  IInv'
<1>1. Sound(Issued(r), g, hits, failures[r], Lost, {})
  BY InvOfBody, PhaseSound
<1>2. Lost' = Lost /\ dropped \subseteq Calls /\ strayed \subseteq Calls
  BY InvOfBody DEF Lost
<1> QED
  BY <1>1, <1>2, BodyStep

LEMMA EnterRootKeeps ==
  ASSUME IInv, NEW r \in Requests, EnterRoot(r)
  PROVE  IInv'
<1> DEFINE g == [ctx[r] EXCEPT ![0].phase = "open"]
<1>1. ctx[r] \in Family /\ ~ctx[r][0].attached /\ 0 \in Depths
  BY InvOfBody, DepthZero
<1>2. /\ g \in Family /\ g[0].phase = "open"
      /\ \A j \in Depths : /\ g[j].queue = ctx[r][j].queue /\ (g[j].consumed <=> ctx[r][j].consumed)
                           /\ (g[j].cancelled <=> ctx[r][j].cancelled) /\ g[j].attached = ctx[r][j].attached
                           /\ (j # 0 => g[j].phase = ctx[r][j].phase)
  BY <1>1, PhaseIs
<1>3. ctx' = [ctx EXCEPT ![r] = g]
  BY DEF EnterRoot
<1> HIDE DEF g
<1>4. \A j \in Depths : Opened(ctx[r][j]) => Opened(g[j])
  BY <1>2 DEF Opened
<1>5. ~g[0].attached
  BY <1>1, <1>2
<1>6. lock = Nobody /\ lock' = r
  BY DEF EnterRoot
<1>7. \A j \in Depths : /\ g[j].queue = ctx[r][j].queue /\ (g[j].consumed <=> ctx[r][j].consumed)
                        /\ (g[j].cancelled <=> ctx[r][j].cancelled)
                        /\ (Opened(ctx[r][j]) => Opened(g[j]))
  BY <1>2, <1>4
<1>8. g \in Family /\ (g[0].phase = "open" /\ ~g[0].cancelled => lock' = r)
  BY <1>2, <1>6
<1> QED
  BY <1>3, <1>5, <1>6, <1>7, <1>8, PhaseStep DEF EnterRoot

LEMMA EnterNestedKeeps ==
  ASSUME IInv, NEW r \in Requests, EnterNested(r)
  PROVE  IInv'
<1>1. PICK k \in Depths \ {0} :
        ctx' = [ctx EXCEPT ![r][k] = [ctx[r][k] EXCEPT !.phase = "open", !.attached = TRUE]]
  BY DEF EnterNested
<1> DEFINE c == [ctx[r][k] EXCEPT !.phase = "open", !.attached = TRUE]
           g == [ctx[r] EXCEPT ![k] = c]
<1>2. ctx[r] \in Family /\ ~ctx[r][0].attached /\ BlockOK(r) /\ ctx[r][k] \in Context /\ 0 \in Depths
  BY InvOfBody, DepthZero DEF Family
<1>3. /\ c \in Context /\ c.phase = "open" /\ c.queue = ctx[r][k].queue
      /\ c.consumed = ctx[r][k].consumed /\ c.cancelled = ctx[r][k].cancelled
  BY <1>2 DEF Context
<1>4. ctx' = [ctx EXCEPT ![r] = g]
  BY <1>1
<1> HIDE DEF c
<1>5. g \in Family /\ g[k] = c /\ \A j \in Depths \ {k} : g[j] = ctx[r][j]
  BY <1>2, <1>3 DEF Family
<1> HIDE DEF g
<1>6. \A j \in Depths : /\ g[j].queue = ctx[r][j].queue /\ (g[j].consumed <=> ctx[r][j].consumed)
                        /\ (g[j].cancelled <=> ctx[r][j].cancelled)
                        /\ (Opened(ctx[r][j]) => Opened(g[j]))
  BY <1>3, <1>5 DEF Opened
<1>7. ~g[0].attached /\ (g[0].phase = "open" /\ ~g[0].cancelled => lock' = r)
  BY <1>2, <1>5 DEF BlockOK, EnterNested
<1> QED
  BY <1>4, <1>5, <1>6, <1>7, PhaseStep DEF EnterNested

\* Both ways of leaving a block without merging or applying.
LEMMA LeavingKeeps ==
  ASSUME IInv, NEW r \in Requests, InBody(r), NEW k \in Depths, NEW how \in {"left", "failed"},
         ctx' = [ctx EXCEPT ![r][k].phase = how],
         lock' = lock \/ (k = 0 /\ lock = r /\ lock' = Nobody),
         UNCHANGED <<task, issued, hits, failures, dropped, strayed>>
  PROVE  IInv'
<1> DEFINE g == [ctx[r] EXCEPT ![k].phase = how]
<1>1. ctx[r] \in Family /\ ~ctx[r][0].attached /\ 0 \in Depths /\ BlockOK(r)
      /\ how \in {"absent", "open", "left", "failed"}
  BY InvOfBody, DepthZero
<1>2. /\ g \in Family /\ g[k].phase = how
      /\ \A j \in Depths : /\ g[j].queue = ctx[r][j].queue /\ (g[j].consumed <=> ctx[r][j].consumed)
                           /\ (g[j].cancelled <=> ctx[r][j].cancelled) /\ g[j].attached = ctx[r][j].attached
                           /\ (j # k => g[j].phase = ctx[r][j].phase)
  BY <1>1, PhaseIs
<1>3. ctx' = [ctx EXCEPT ![r] = g]
  OBVIOUS
<1> HIDE DEF g
<1>4. \A j \in Depths : Opened(ctx[r][j]) => Opened(g[j])
  BY <1>2 DEF Opened
<1>5. ~g[0].attached
  BY <1>1, <1>2
<1>6. g[0].phase = "open" /\ ~g[0].cancelled => lock' = r
  BY <1>1, <1>2 DEF BlockOK
<1>7. \A j \in Depths : /\ g[j].queue = ctx[r][j].queue /\ (g[j].consumed <=> ctx[r][j].consumed)
                        /\ (g[j].cancelled <=> ctx[r][j].cancelled)
                        /\ (Opened(ctx[r][j]) => Opened(g[j]))
  BY <1>2, <1>4
<1>8. g \in Family
  BY <1>2
<1>9. lock' = lock \/ (lock \in {r, Nobody} /\ lock' \in {r, Nobody})
  OBVIOUS
<1> QED
  BY <1>3, <1>5, <1>6, <1>7, <1>8, <1>9, PhaseStep

LEMMA ExitInactiveKeeps ==
  ASSUME IInv, NEW r \in Requests, ExitInactive(r)
  PROVE  IInv'
<1>1. PICK k \in Depths : ctx' = [ctx EXCEPT ![r][k].phase = "left"]
  BY DEF ExitInactive
<1> QED
  BY <1>1, LeavingKeeps DEF ExitInactive

LEMMA ExitWithheldKeeps ==
  ASSUME IInv, NEW r \in Requests, ExitWithheld(r)
  PROVE  IInv'
<1>1. PICK k \in Depths, how \in {"left", "failed"} :
        /\ ctx' = [ctx EXCEPT ![r][k].phase = how]
        /\ lock' = IF k = 0 /\ lock = r THEN Nobody ELSE lock
  BY DEF ExitWithheld
<1> QED
  BY <1>1, LeavingKeeps DEF ExitWithheld

\* A family that was merged, whatever the phase of the child.
LEMMA MergingKeeps ==
  ASSUME IInv, NEW r \in Requests, InBody(r), NEW k \in Depths \ {0}, NEW f \in Family,
         ~f[k].consumed, ~f[0].attached, Sound(Issued(r), f, hits, failures[r], Lost, {}),
         f[0].phase = ctx[r][0].phase, f[0].cancelled = ctx[r][0].cancelled,
         ctx' = [ctx EXCEPT ![r] = Merged(f, k)],
         strayed' = strayed \cup Strays(f, k),
         UNCHANGED <<lock, task, issued, hits, failures, dropped>>
  PROVE  IInv'
<1> DEFINE g == Merged(f, k)
<1>1. dropped \subseteq Calls /\ strayed \subseteq Calls /\ BlockOK(r) /\ k \in Depths /\ 0 \in Depths
  BY InvOfBody, DepthZero
<1>2. g \in Family
  BY MergedIs
<1>3. Strays(f, k) \subseteq Calls
  BY <1>1, QueuedType DEF Strays, Family
<1>4. Lost' = Lost \cup Strays(f, k)
  BY DEF Lost
<1>5. Sound(Issued(r), g, hits, failures[r], Lost', {})
  BY <1>4, MergedSound
<1>6. g[0].phase = ctx[r][0].phase /\ g[0].cancelled = ctx[r][0].cancelled /\ ~g[0].attached
  BY <1>1, MergedFlags
<1> HIDE DEF g
<1>7. ctx' = [ctx EXCEPT ![r] = g]
  BY DEF g
<1>8. ~g[0].attached /\ (g[0].phase = "open" /\ ~g[0].cancelled => lock' = r)
  BY <1>1, <1>6 DEF BlockOK
<1> QED
  BY <1>1, <1>2, <1>3, <1>5, <1>7, <1>8, BodyStep

LEMMA MergeKeeps ==
  ASSUME IInv, NEW r \in Requests, Merge(r)
  PROVE  IInv'
<1>1. PICK k \in Depths \ {0} : /\ Active(ctx[r][k])
                                /\ ctx' = [ctx EXCEPT ![r] = Merged(ctx[r], k)]
                                /\ strayed' = strayed \cup Strays(ctx[r], k)
  BY DEF Merge
<1>2. ~ctx[r][k].consumed
  BY <1>1 DEF Active
<1> QED
  BY <1>1, <1>2, InvOfBody, MergingKeeps DEF Merge

LEMMA ExitMergesKeeps ==
  ASSUME IInv, NEW r \in Requests, ExitMerges(r)
  PROVE  IInv'
<1>1. PICK k \in Depths \ {0} : /\ Active(ctx[r][k])
                                /\ ctx' = [ctx EXCEPT ![r] = Merged([ctx[r] EXCEPT ![k].phase = "left"], k)]
                                /\ strayed' = strayed \cup Strays(ctx[r], k)
  BY DEF ExitMerges
<1> DEFINE f == [ctx[r] EXCEPT ![k].phase = "left"]
<1>2. ctx[r] \in Family /\ ~ctx[r][0].attached /\ 0 \in Depths /\ k \in Depths /\ k - 1 \in Depths
      /\ InBody(r) /\ Sound(Issued(r), ctx[r], hits, failures[r], Lost, {})
  BY InvOfBody, DepthZero, MergedIs DEF ExitMerges
<1>3. /\ f \in Family /\ f[k].phase = "left"
      /\ \A j \in Depths : /\ f[j].queue = ctx[r][j].queue /\ (f[j].consumed <=> ctx[r][j].consumed)
                           /\ (f[j].cancelled <=> ctx[r][j].cancelled) /\ f[j].attached = ctx[r][j].attached
                           /\ (j # k => f[j].phase = ctx[r][j].phase)
  BY <1>2, PhaseIs
<1>4. ctx' = [ctx EXCEPT ![r] = Merged(f, k)]
  BY <1>1
<1> HIDE DEF f
<1>5. \A j \in Depths : Opened(ctx[r][j]) => Opened(f[j])
  BY <1>3 DEF Opened
<1>6. Sound(Issued(r), f, hits, failures[r], Lost, {})
  BY <1>2, <1>3, <1>5, PhaseSound
<1>7. Strays(f, k) = Strays(ctx[r], k)
  <2>1. k - 1 # k /\ Queued(f[k]) = Queued(ctx[r][k])
    BY <1>2, <1>3 DEF Queued, Depths
  <2>2. Active(f[k - 1]) <=> Active(ctx[r][k - 1])
    BY <1>2, <1>3, <2>1 DEF Active, Opened
  <2> QED
    BY <2>1, <2>2 DEF Strays
<1>8. ~f[k].consumed /\ ~f[0].attached /\ f[0].phase = ctx[r][0].phase /\ f[0].cancelled = ctx[r][0].cancelled
  <2>1. ~ctx[r][k].consumed
    BY <1>1 DEF Active
  <2>2. ~f[k].consumed
    BY <1>2, <1>3, <2>1
  <2>3. /\ f[0].attached = ctx[r][0].attached /\ f[0].phase = ctx[r][0].phase
        /\ (f[0].cancelled <=> ctx[r][0].cancelled)
    BY <1>2, <1>3
  <2>4. f[0] \in Context /\ ctx[r][0] \in Context
    BY <1>2, <1>3 DEF Family
  <2>5. f[0].cancelled = ctx[r][0].cancelled
    BY <2>3, <2>4 DEF Context
  <2> QED
    BY <1>2, <2>2, <2>3, <2>5
<1> QED
  BY <1>1, <1>2, <1>3, <1>4, <1>6, <1>7, <1>8, MergingKeeps DEF ExitMerges

LEMMA CancelKeeps ==
  ASSUME IInv, NEW r \in Requests, Cancel(r)
  PROVE  IInv'
<1>1. PICK k \in Depths : /\ ctx' = [ctx EXCEPT ![r] = CancelledAt(ctx[r], Reached(r, k))]
                          /\ dropped' = dropped \cup UNION {Queued(ctx[r][j]) : j \in Reached(r, k)}
                          /\ lock' = IF k = 0 /\ lock = r THEN Nobody ELSE lock
  BY DEF Cancel
<1> DEFINE where == Reached(r, k)
           g == CancelledAt(ctx[r], where)
           new == UNION {Queued(ctx[r][j]) : j \in where}
<1>2. ctx[r] \in Family /\ ~ctx[r][0].attached /\ 0 \in Depths /\ BlockOK(r) /\ InBody(r)
      /\ Sound(Issued(r), ctx[r], hits, failures[r], Lost, {}) /\ dropped \subseteq Calls /\ strayed \subseteq Calls
      /\ \A j \in Depths : Queued(ctx[r][j]) \subseteq Calls
  BY InvOfBody, DepthZero DEF Cancel
<1>3. where \subseteq Depths /\ (k = 0 => 0 \in where)
  BY <1>2 DEF Reached, Depths
<1>4. new \subseteq Calls
  BY <1>2, <1>3
<1>5. /\ g \in Family
      /\ \A j \in Depths : /\ g[j].phase = ctx[r][j].phase /\ g[j].attached = ctx[r][j].attached
                           /\ (g[j].cancelled <=> (ctx[r][j].cancelled \/ j \in where))
  BY <1>2, CancelledAtIs
<1>6. Sound(Issued(r), g, hits, failures[r], Lost \cup new, {})
  BY <1>2, CancelledSound
<1>7. ctx' = [ctx EXCEPT ![r] = g] /\ dropped' = dropped \cup new
  BY <1>1
<1> HIDE DEF where, g, new
<1>8. Lost' = Lost \cup new
  BY <1>7 DEF Lost, Cancel
<1>9. ~g[0].attached /\ (g[0].phase = "open" /\ ~g[0].cancelled => lock' = r)
  BY <1>1, <1>2, <1>3, <1>5 DEF BlockOK
<1> QED
  BY <1>1, <1>2, <1>4, <1>5, <1>6, <1>7, <1>8, <1>9, BodyStep DEF Cancel

\* A step after which the request is in the body again, or out of it.
LEMMA BodyAfter ==
  ASSUME IInv, NEW r \in Requests, NEW g \in Family,
         ctx' = [ctx EXCEPT ![r] = g], ~g[0].attached,
         lock' = lock \/ (lock \in {r, Nobody} /\ lock' \in {r, Nobody}),
         g[0].phase = "open" /\ ~g[0].cancelled => lock' = r,
         task' = [task EXCEPT ![r] = Body], UNCHANGED <<issued, dropped, strayed>>,
         hits' \in [Calls -> Nat], \A n \in Calls \ Issued(r) : hits'[n] = hits[n],
         failures' \in [Requests -> Nat], \A q \in Requests \ {r} : failures'[q] = failures[q],
         \A n \in Issued(r) : hits'[n] <= 1 + failures'[r],
         Sound(Issued(r), g, hits', failures'[r], Lost, {})
  PROVE  IInv'
<1>1. Types
  BY DEF IInv
<1>2. /\ ctx' \in [Requests -> Family] /\ ctx'[r] = g
      /\ task' \in [Requests -> {Body} \cup Hitting] /\ task'[r] = Body
      /\ \A q \in Requests \ {r} : ctx'[q] = ctx[q] /\ task'[q] = task[q]
  BY <1>1 DEF Types
<1>3. InBody(r)' /\ Issued(r)' = Issued(r) /\ Free(r)' = {} /\ Lost' = Lost
  BY <1>2 DEF InBody, Issued, Free, Lost
<1>4. Local(r)
  BY <1>1, <1>2 DEF Local, Calling, Types
<1>5. HittingOK(r)' /\ BlockOK(r)' /\ HalfHit(r)'
  BY <1>2, <1>3 DEF HittingOK, BlockOK, HalfHit
<1>6. CallsOK(r)'
  BY <1>2, <1>3, <1>5 DEF CallsOK
<1> QED
  BY <1>4, <1>5, <1>6, LocalStep

\* The block is left: the lock is released, and nothing else is done to the contexts.
LEMMA LeaveKeeps ==
  ASSUME IInv, NEW r \in Requests, NEW f \in Family, Leave(r, f), ~f[0].attached,
         task' = [task EXCEPT ![r] = Body], UNCHANGED <<issued, dropped, strayed>>,
         hits' \in [Calls -> Nat], \A n \in Calls \ Issued(r) : hits'[n] = hits[n],
         failures' \in [Requests -> Nat], \A q \in Requests \ {r} : failures'[q] = failures[q],
         \A n \in Issued(r) : hits'[n] <= 1 + failures'[r],
         Sound(Issued(r), f, hits', failures'[r], Lost, {})
  PROVE  IInv'
<1> DEFINE g == [f EXCEPT ![0].phase = "left"]
<1>1. ctx' = [ctx EXCEPT ![r] = g] /\ lock' = IF lock = r THEN Nobody ELSE lock
  BY DEF Leave
<1>2. /\ g \in Family /\ g[0].phase = "left"
      /\ \A j \in Depths : /\ g[j].queue = f[j].queue /\ (g[j].consumed <=> f[j].consumed)
                           /\ (g[j].cancelled <=> f[j].cancelled) /\ g[j].attached = f[j].attached
                           /\ (j # 0 => g[j].phase = f[j].phase)
  BY DepthZero, PhaseIs
<1> HIDE DEF g
<1>3. \A j \in Depths : /\ g[j].queue = f[j].queue /\ (g[j].consumed <=> f[j].consumed)
                        /\ (g[j].cancelled <=> f[j].cancelled) /\ (Opened(f[j]) => Opened(g[j]))
  BY <1>2 DEF Opened
<1>4. Sound(Issued(r), g, hits', failures'[r], Lost, {})
  BY <1>2, <1>3, PhaseSound
<1>5. ~g[0].attached /\ g[0].phase # "open"
  BY <1>2, DepthZero
<1> QED
  BY <1>1, <1>2, <1>4, <1>5, BodyAfter

LEMMA FinishKeeps ==
  ASSUME IInv, NEW r \in Requests, NEW f \in Family, NEW k \in Depths, NEW exiting \in BOOLEAN,
         Finish(r, f, k, exiting), ~f[0].attached,
         f[0].phase = ctx[r][0].phase, f[0].cancelled <=> ctx[r][0].cancelled,
         UNCHANGED <<issued, failures, dropped, strayed>>,
         hits' \in [Calls -> Nat], \A n \in Calls \ Issued(r) : hits'[n] = hits[n],
         \A n \in Issued(r) : hits'[n] <= 1 + failures[r],
         Sound(Issued(r), f, hits', failures[r], Lost, {k}),
         \A n \in Queued(f[k]) : hits'[n] > 0
  PROVE  IInv'
<1> DEFINE g == Applied(f, k)
<1>1. /\ g \in Family
      /\ g[0].phase = f[0].phase /\ g[0].cancelled = f[0].cancelled /\ (g[0].attached => f[0].attached)
  BY AppliedIs, DepthZero
<1>2. Sound(Issued(r), g, hits', failures[r], Lost, {})
  BY AppliedSound
<1>3. /\ (exiting /\ Leave(r, g)) \/ (~exiting /\ ctx' = [ctx EXCEPT ![r] = g] /\ lock' = lock)
      /\ task' = [task EXCEPT ![r] = Body]
  BY DEF Finish
<1> HIDE DEF g
<1>4. failures' = failures /\ failures \in [Requests -> Nat] /\ BlockOK(r)
  BY DEF IInv, Types
<1>5. CASE exiting
  BY <1>1, <1>2, <1>3, <1>4, <1>5, LeaveKeeps
<1>6. CASE ~exiting
  <2>1. ctx' = [ctx EXCEPT ![r] = g] /\ lock' = lock
    BY <1>3, <1>6
  <2>2. ~g[0].attached /\ (g[0].phase = "open" /\ ~g[0].cancelled => lock' = r)
    BY <1>1, <1>4, <2>1 DEF BlockOK
  <2> QED
    BY <1>1, <1>2, <1>3, <1>4, <2>1, <2>2, BodyAfter
<1> QED
  BY <1>5, <1>6

\* An apply begins: the child is merged, and nothing or all is left to be hit.
LEMMA StartKeeps ==
  ASSUME IInv, NEW r \in Requests, InBody(r), NEW k \in Depths, Active(ctx[r][k]),
         NEW exiting \in BOOLEAN, exiting => k = 0, Start(r, k, exiting)
  PROVE  IInv'
<1> DEFINE f == WithChild(ctx[r], k)
<1>1. ctx[r] \in Family /\ ~ctx[r][0].attached /\ BlockOK(r) /\ 0 \in Depths /\ Types
      /\ Sound(Issued(r), ctx[r], hits, failures[r], Lost, {})
  BY InvOfBody, DepthZero
<1>2. /\ f \in Family /\ Sound(Issued(r), f, hits, failures[r], Lost, {})
      /\ \A j \in 0 .. k : /\ f[j].phase = ctx[r][j].phase /\ f[j].cancelled = ctx[r][j].cancelled
                           /\ (f[j].consumed <=> ctx[r][j].consumed) /\ (f[j].attached <=> ctx[r][j].attached)
  BY <1>1, WithChildSound
<1>3. /\ \/ f[k].queue = <<>> /\ Finish(r, f, k, exiting)
         \/ /\ f[k].queue # <<>> /\ ctx' = [ctx EXCEPT ![r] = f] /\ UNCHANGED lock
            /\ task' = [task EXCEPT ![r] = [pc |-> "hitting", depth |-> k, entry |-> 1,
                                            attempt |-> 1, exiting |-> exiting]]
      /\ UNCHANGED <<issued, hits, failures, dropped, strayed>>
  BY DEF Start
<1> HIDE DEF f
<1>4. 0 \in 0 .. k /\ k \in 0 .. k
  BY DEF Depths
<1>5. /\ f[0].phase = ctx[r][0].phase /\ (f[0].cancelled <=> ctx[r][0].cancelled) /\ ~f[0].attached
      /\ Active(f[k])
  BY <1>1, <1>2, <1>4 DEF Active, Opened
<1>6. /\ hits \in [Calls -> Nat] /\ \A n \in Issued(r) : hits[n] <= 1 + failures[r]
  BY DEF IInv, Types, CallsOK
<1>7. CASE f[k].queue = <<>> /\ Finish(r, f, k, exiting)
  <2>1. Queued(f[k]) = {}
    BY <1>7, EmptyQueue
  <2>2. Sound(Issued(r), f, hits, failures[r], Lost, {k})
    BY <1>2 DEF Sound, Unhit
  <2>3. /\ hits' = hits /\ issued' = issued /\ failures' = failures
        /\ dropped' = dropped /\ strayed' = strayed
    BY <1>3
  <2> QED
    BY <1>2, <1>5, <1>6, <1>7, <2>1, <2>2, <2>3, FinishKeeps
<1>8. CASE /\ f[k].queue # <<>> /\ ctx' = [ctx EXCEPT ![r] = f] /\ UNCHANGED lock
           /\ task' = [task EXCEPT ![r] = [pc |-> "hitting", depth |-> k, entry |-> 1,
                                           attempt |-> 1, exiting |-> exiting]]
  <2> DEFINE t == [pc |-> "hitting", depth |-> k, entry |-> 1, attempt |-> 1, exiting |-> exiting]
  <2>1. /\ t \in Hitting /\ t # Body /\ t.depth = k /\ t.entry = 1 /\ t.exiting = exiting
    BY DEF Hitting, Body
  <2> HIDE DEF t
  <2>2. /\ task' \in [Requests -> {Body} \cup Hitting] /\ task'[r] = t
        /\ ctx' \in [Requests -> Family] /\ ctx'[r] = f
        /\ \A q \in Requests \ {r} : ctx'[q] = ctx[q] /\ task'[q] = task[q]
    BY <1>1, <1>2, <1>8, <2>1 DEF Types, t
  <2>3. /\ ~InBody(r)' /\ Issued(r)' = Issued(r) /\ Free(r)' = {k} /\ Lost' = Lost
        /\ Queue(r)' = f[k].queue
    BY <1>3, <2>1, <2>2 DEF InBody, Issued, Free, Lost, Queue
  <2>4. Local(r)
    BY <1>1, <1>3, <1>5, <1>8, <2>2 DEF Local, Calling, Types
  <2>5. DOMAIN f[k].queue = 1 .. Len(f[k].queue) /\ 1 \in DOMAIN f[k].queue
    <3>1. f[k].queue \in Seq(SUBSET Calls)
      BY <1>2 DEF Family, Context
    <3> QED
      BY <1>8, <3>1
  <2>6. HittingOK(r)' /\ BlockOK(r)'
    <3>1. HittingOK(r)'
      BY <1>5, <2>1, <2>2, <2>3, <2>5 DEF HittingOK
    <3>2. BlockOK(r)'
      BY <1>1, <1>5, <1>8, <2>2 DEF BlockOK
    <3> QED
      BY <3>1, <3>2
  <2>7. \A n \in Queued(f[k]) : hits[n] <= failures[r]
    BY <1>2, <1>5 DEF Sound, Unhit, Active
  <2>8. HalfHit(r)'
    <3>1. \A i \in DOMAIN f[k].queue : ~(i < 1) /\ \A n \in f[k].queue[i] : hits[n] <= failures[r]
      BY <2>5, <2>7 DEF Queued
    <3>2. task'[r].entry = 1 /\ hits' = hits /\ failures' = failures
      BY <1>3, <2>1, <2>2
    <3> QED
      BY <2>3, <3>1, <3>2 DEF HalfHit
  <2>9. Sound(Issued(r), f, hits, failures[r], Lost, {k})
    BY <1>2 DEF Sound, Unhit
  <2>10. CallsOK(r)'
    <3>1. hits' = hits /\ failures' = failures
      BY <1>3
    <3> QED
      BY <1>6, <2>2, <2>3, <2>8, <2>9, <3>1 DEF CallsOK
  <2> QED
    BY <2>4, <2>6, <2>10, LocalStep
<1> QED
  BY <1>3, <1>7, <1>8

LEMMA ApplyKeeps ==
  ASSUME IInv, NEW r \in Requests, Apply(r)
  PROVE  IInv'
<1>1. PICK k \in Depths : Active(ctx[r][k]) /\ Start(r, k, FALSE)
  BY DEF Apply
<1> QED
  BY <1>1, StartKeeps DEF Apply

LEMMA ExitAppliesKeeps ==
  ASSUME IInv, NEW r \in Requests, ExitApplies(r)
  PROVE  IInv'
BY DepthZero, StartKeeps DEF ExitApplies

LEMMA HittingFacts ==
  ASSUME IInv, NEW r \in Requests, task[r].pc = "hitting"
  PROVE  /\ task[r] \in Hitting /\ ~InBody(r) /\ task[r].depth \in Depths /\ task[r].exiting \in BOOLEAN
         /\ Queue(r) \in Seq(SUBSET Calls) /\ DOMAIN Queue(r) = 1 .. Len(Queue(r)) /\ Len(Queue(r)) \in Nat
         /\ task[r].entry \in DOMAIN Queue(r) /\ (task[r].exiting => task[r].depth = 0)
         /\ Active(ctx[r][task[r].depth])
         /\ \A i \in DOMAIN Queue(r) : \A n \in Queue(r)[i] :
              IF i < task[r].entry THEN hits[n] > 0 ELSE hits[n] <= failures[r]
         /\ Sound(Issued(r), ctx[r], hits, failures[r], Lost, {task[r].depth})
         /\ \A n \in Issued(r) : hits[n] <= 1 + failures[r]
<1>1. Types /\ HittingOK(r) /\ CallsOK(r) /\ InBody(r) => task[r].pc = "body"
  BY TaskShape DEF IInv
<1>2. task[r] \in Hitting /\ ~InBody(r) /\ task[r].depth \in Depths /\ task[r].exiting \in BOOLEAN
  <2>1. Types
    BY DEF IInv
  <2>2. ~InBody(r)
    BY <2>1, TaskShape
  <2> QED
    BY <2>1, <2>2, TaskShape
<1>3. Queue(r) \in Seq(SUBSET Calls) /\ DOMAIN Queue(r) = 1 .. Len(Queue(r)) /\ Len(Queue(r)) \in Nat
  BY <1>2, InvOfBody, QueuedType DEF Queue, Family
<1>4. HittingOK(r) /\ CallsOK(r)
  BY DEF IInv
<1> QED
  BY <1>2, <1>3, <1>4 DEF HittingOK, CallsOK, HalfHit, Free

LEMMA HitSucceedsKeeps ==
  ASSUME IInv, NEW r \in Requests, HitSucceeds(r)
  PROVE  IInv'
<1> DEFINE d == task[r].depth
           e == task[r].entry
           E == Queue(r)[e]
<1>1. /\ task[r] \in Hitting /\ ~InBody(r) /\ d \in Depths /\ task[r].exiting \in BOOLEAN
      /\ Queue(r) \in Seq(SUBSET Calls) /\ DOMAIN Queue(r) = 1 .. Len(Queue(r)) /\ Len(Queue(r)) \in Nat
      /\ e \in DOMAIN Queue(r) /\ (task[r].exiting => d = 0)
      /\ Active(ctx[r][d])
      /\ \A i \in DOMAIN Queue(r) : \A n \in Queue(r)[i] :
              IF i < e THEN hits[n] > 0 ELSE hits[n] <= failures[r]
      /\ Sound(Issued(r), ctx[r], hits, failures[r], Lost, {d})
      /\ \A n \in Issued(r) : hits[n] <= 1 + failures[r]
  BY HittingFacts DEF HitSucceeds
<1>2. /\ hits' = [n \in Calls |-> IF n \in E THEN hits[n] + 1 ELSE hits[n]]
      /\ issued' = issued /\ failures' = failures /\ dropped' = dropped /\ strayed' = strayed
      /\ \/ /\ e < Len(Queue(r))
            /\ task' = [task EXCEPT ![r].entry = e + 1, ![r].attempt = 1]
            /\ lock' = lock /\ ctx' = ctx
         \/ /\ e = Len(Queue(r))
            /\ Finish(r, ctx[r], d, task[r].exiting)
  BY DEF HitSucceeds
<1>3. /\ Types /\ BlockOK(r) /\ ctx[r] \in Family /\ ~ctx[r][0].attached
      /\ hits \in [Calls -> Nat] /\ failures \in [Requests -> Nat] /\ Issued(r) \subseteq Calls
  BY InvOfBody, IssuedType DEF Types
\* Where the calls of the entry are.
<1>4. /\ E \subseteq Issued(r) /\ E \subseteq Queued(ctx[r][d])
      /\ \A n : n \in Queued(ctx[r][d]) <=> \E i \in DOMAIN Queue(r) : n \in Queue(r)[i]
  <2>1. \A n : n \in Queued(ctx[r][d]) <=> \E i \in DOMAIN Queue(r) : n \in Queue(r)[i]
    BY DEF Queued, Queue
  <2>2. E \subseteq Queued(ctx[r][d]) /\ Queued(ctx[r][d]) \subseteq Issued(r)
    BY <1>1, <2>1 DEF Sound, Own
  <2> QED
    BY <2>1, <2>2
<1>5. \A k \in Depths \ {d} : \A n \in Queued(ctx[r][k]) : n \notin E
  <2> SUFFICES ASSUME NEW k \in Depths \ {d}, NEW n \in Queued(ctx[r][k]), n \in E PROVE FALSE
    OBVIOUS
  <2>1. Once(ctx[r]) /\ d \in Depths /\ Queue(r) = ctx[r][d].queue /\ e \in DOMAIN ctx[r][d].queue
    BY <1>1 DEF Sound, Queue
  <2>2. PICK l \in DOMAIN ctx[r][k].queue : n \in ctx[r][k].queue[l]
    BY DEF Queued
  <2> HIDE DEF d, e
  <2> QED
    BY <2>1, <2>2 DEF Once
<1>6. \A i \in DOMAIN Queue(r) \ {e} : \A n \in Queue(r)[i] : n \notin E
  <2>1. Once(ctx[r]) /\ d \in Depths /\ Queue(r) = ctx[r][d].queue /\ e \in DOMAIN ctx[r][d].queue
    BY <1>1 DEF Sound, Queue
  <2> HIDE DEF d, e
  <2> QED
    BY <2>1 DEF Once
<1>7. \A n \in E : hits[n] <= failures[r] /\ n \in Calls
  BY <1>1, <1>3, <1>4
<1> HIDE DEF E, e, d
<1>8. /\ hits' \in [Calls -> Nat]
      /\ \A n \in Calls : (n \in E => hits'[n] = hits[n] + 1) /\ (n \notin E => hits'[n] = hits[n])
  BY <1>2, <1>3
<1>9. /\ \A n \in Calls \ Issued(r) : hits'[n] = hits[n]
      /\ \A n \in Calls : hits[n] > 0 => hits'[n] > 0
      /\ \A n \in E : hits'[n] > 0
      /\ \A n \in Issued(r) : hits'[n] <= 1 + failures[r]
  <2>1. \A n \in Calls : hits[n] \in Nat
    BY <1>3
  <2>2. failures[r] \in Nat
    BY <1>3
  <2>3. \A n \in Issued(r) : hits'[n] <= 1 + failures[r]
    <3> SUFFICES ASSUME NEW n \in Issued(r) PROVE hits'[n] <= 1 + failures[r]
      OBVIOUS
    <3>1. CASE n \in E
      BY <1>3, <1>7, <1>8, <2>1, <2>2, <3>1
    <3>2. CASE n \notin E
      BY <1>1, <1>3, <1>8, <3>2
    <3> QED
      BY <3>1, <3>2
  <2>4. \A n \in Calls \ Issued(r) : hits'[n] = hits[n]
    BY <1>4, <1>8
  <2>5. \A n \in Calls : hits[n] > 0 => hits'[n] > 0
    BY <1>8, <2>1
  <2>6. \A n \in E : hits'[n] > 0
    BY <1>7, <1>8, <2>1
  <2> QED
    BY <2>3, <2>4, <2>5, <2>6
<1>10. Sound(Issued(r), ctx[r], hits', failures[r], Lost, {d})
  <2>1. \A k \in Depths : Queued(ctx[r][k]) \subseteq Calls
    BY InvOfBody
  <2>2. Unhit(ctx[r], hits', failures[r], {d})
    <3> SUFFICES ASSUME NEW k \in Depths \ {d}, ~ctx[r][k].consumed, NEW n \in Queued(ctx[r][k])
                 PROVE  hits'[n] <= failures[r]
      BY DEF Unhit
    <3>1. hits[n] <= failures[r]
      BY <1>1 DEF Sound, Unhit
    <3> QED
      BY <1>5, <1>8, <2>1, <3>1
  <2>3. Placed(Issued(r), ctx[r], hits', Lost)
    BY <1>1, <1>3, <1>9 DEF Sound, Placed
  <2> QED
    BY <1>1, <2>2, <2>3 DEF Sound
\* The entries up to this one are hit, and those behind it are as they were.
<1>11. \A i \in DOMAIN Queue(r) : \A n \in Queue(r)[i] :
         IF i < e + 1 THEN hits'[n] > 0 ELSE hits'[n] <= failures[r]
  <2> SUFFICES ASSUME NEW i \in DOMAIN Queue(r), NEW n \in Queue(r)[i]
               PROVE  IF i < e + 1 THEN hits'[n] > 0 ELSE hits'[n] <= failures[r]
    OBVIOUS
  <2>1. n \in Calls /\ i \in Nat /\ e \in Nat
    <3>1. Queue(r)[i] \subseteq Calls
      BY <1>1
    <3> QED
      BY <1>1, <3>1
  <2>2. CASE i = e
    <3>1. i < e + 1 /\ n \in E
      BY <2>1, <2>2 DEF E
    <3> QED
      BY <1>9, <3>1
  <2>3. CASE i # e
    <3>1. n \notin E /\ hits'[n] = hits[n]
      BY <1>6, <1>8, <2>1, <2>3
    <3>2. i < e + 1 <=> i < e
      BY <2>1, <2>3
    <3> QED
      BY <1>1, <3>1, <3>2
  <2> QED
    BY <2>2, <2>3
<1>12. CASE /\ e < Len(Queue(r))
            /\ task' = [task EXCEPT ![r].entry = e + 1, ![r].attempt = 1]
            /\ lock' = lock /\ ctx' = ctx
  <2> DEFINE t == [task[r] EXCEPT !.entry = e + 1, !.attempt = 1]
  <2>1. /\ t \in Hitting /\ t # Body /\ t.depth = d /\ t.entry = e + 1 /\ t.exiting = task[r].exiting
    <3>1. e + 1 \in Nat \ {0} /\ 1 \in 1 .. MaxAttempts
      BY <1>1
    <3>2. t \in Hitting /\ t.depth = d /\ t.entry = e + 1 /\ t.exiting = task[r].exiting
      BY <1>1, <3>1 DEF Hitting, d
    <3>3. t.pc = "hitting"
      BY <3>2 DEF Hitting
    <3> QED
      BY <3>2, <3>3 DEF Body
  <2>2. task' = [task EXCEPT ![r] = t]
    BY <1>12
  <2> HIDE DEF t
  <2>3. /\ task' \in [Requests -> {Body} \cup Hitting] /\ task'[r] = t
        /\ \A q \in Requests \ {r} : task'[q] = task[q]
    BY <1>3, <2>1, <2>2 DEF Types
  <2>4. /\ ~InBody(r)' /\ Issued(r)' = Issued(r) /\ Free(r)' = {d} /\ Lost' = Lost
        /\ Queue(r)' = Queue(r)
    BY <1>2, <1>12, <2>1, <2>3 DEF InBody, Issued, Free, Lost, Queue, d
  <2>5. Local(r)
    BY <1>2, <1>3, <1>8, <1>9, <1>12, <2>3 DEF Local, Calling, Types
  <2>6. HittingOK(r)'
    <3>1. e + 1 \in DOMAIN Queue(r)
      BY <1>1, <1>12
    <3> QED
      BY <1>1, <1>12, <2>1, <2>3, <2>4, <3>1 DEF HittingOK
  <2>7. BlockOK(r)'
    BY <1>3, <1>12 DEF BlockOK
  <2>8. HalfHit(r)'
    BY <1>2, <1>11, <2>1, <2>3, <2>4 DEF HalfHit
  <2>9. CallsOK(r)'
    BY <1>2, <1>9, <1>10, <1>12, <2>4, <2>8 DEF CallsOK
  <2> QED
    BY <2>5, <2>6, <2>7, <2>9, LocalStep
<1>13. CASE e = Len(Queue(r)) /\ Finish(r, ctx[r], d, task[r].exiting)
  <2>1. \A n \in Queued(ctx[r][d]) : hits'[n] > 0
    <3>1. \A i \in DOMAIN Queue(r) : i < e + 1
      BY <1>1, <1>13
    <3> QED
      BY <1>4, <1>11, <3>1
  <2> QED
    BY <1>1, <1>2, <1>3, <1>8, <1>9, <1>10, <1>13, <2>1, FinishKeeps
<1> QED
  BY <1>2, <1>12, <1>13

LEMMA HitRetriesKeeps ==
  ASSUME IInv, NEW r \in Requests, HitRetries(r)
  PROVE  IInv'
<1> DEFINE t == [task[r] EXCEPT !.attempt = task[r].attempt + 1]
<1>1. /\ task[r] \in Hitting /\ ~InBody(r) /\ task[r].attempt \in 1 .. MaxAttempts
      /\ Types /\ HittingOK(r) /\ CallsOK(r) /\ BlockOK(r)
  BY HittingFacts DEF HitRetries, Hitting, IInv
<1>2. /\ t \in Hitting /\ t # Body /\ t.depth = task[r].depth /\ t.entry = task[r].entry
      /\ t.exiting = task[r].exiting
  <2>1. task[r].attempt + 1 \in 1 .. MaxAttempts
    BY <1>1 DEF HitRetries
  <2>2. t \in Hitting /\ t.depth = task[r].depth /\ t.entry = task[r].entry /\ t.exiting = task[r].exiting
    BY <1>1, <2>1 DEF Hitting
  <2>3. t.pc = "hitting"
    BY <2>2 DEF Hitting
  <2> QED
    BY <2>2, <2>3 DEF Body
<1>3. task' = [task EXCEPT ![r] = t]
  BY DEF HitRetries
<1> HIDE DEF t
<1>4. /\ task' \in [Requests -> {Body} \cup Hitting] /\ task'[r] = t
      /\ \A q \in Requests \ {r} : task'[q] = task[q]
  BY <1>1, <1>2, <1>3 DEF Types
<1>5. UNCHANGED <<lock, ctx, issued, hits, failures, dropped, strayed>>
  BY DEF HitRetries
<1>6. /\ ~InBody(r)' /\ Issued(r)' = Issued(r) /\ Free(r)' = Free(r) /\ Lost' = Lost
      /\ Queue(r)' = Queue(r)
  BY <1>1, <1>2, <1>4, <1>5 DEF InBody, Issued, Free, Lost, Queue
<1>7. Local(r)
  BY <1>1, <1>4, <1>5 DEF Local, Calling, Types
<1>8. HittingOK(r)' /\ BlockOK(r)'
  BY <1>1, <1>2, <1>4, <1>5, <1>6 DEF HittingOK, BlockOK
<1>9. HalfHit(r)'
  BY <1>1, <1>2, <1>4, <1>5, <1>6 DEF HalfHit, CallsOK
<1>10. CallsOK(r)'
  BY <1>1, <1>5, <1>6, <1>9 DEF CallsOK
<1> QED
  BY <1>7, <1>8, <1>10, LocalStep

\* A failed apply may charge the calls of this request once more.
LEMMA HitFailsKeeps ==
  ASSUME IInv, NEW r \in Requests, HitFails(r)
  PROVE  IInv'
<1>1. /\ task[r].exiting \in BOOLEAN /\ task[r].depth \in Depths
      /\ Sound(Issued(r), ctx[r], hits, failures[r], Lost, {task[r].depth})
      /\ \A n \in Issued(r) : hits[n] <= 1 + failures[r]
  BY HittingFacts DEF HitFails
<1>2. /\ Types /\ BlockOK(r) /\ ctx[r] \in Family /\ ~ctx[r][0].attached /\ ctx \in [Requests -> Family]
      /\ hits \in [Calls -> Nat] /\ failures \in [Requests -> Nat] /\ Issued(r) \subseteq Calls
  BY InvOfBody, IssuedType DEF Types
<1>3. /\ failures' = [failures EXCEPT ![r] = failures[r] + 1] /\ task' = [task EXCEPT ![r] = Body]
      /\ issued' = issued /\ hits' = hits /\ dropped' = dropped /\ strayed' = strayed
      /\ (task[r].exiting /\ Leave(r, ctx[r])) \/ (~task[r].exiting /\ lock' = lock /\ ctx' = ctx)
  BY DEF HitFails
<1>4. /\ failures' \in [Requests -> Nat] /\ failures'[r] = failures[r] + 1
      /\ \A q \in Requests \ {r} : failures'[q] = failures[q]
  BY <1>2, <1>3
<1>5. \A n \in Issued(r) : hits[n] <= failures'[r] /\ hits[n] \in Nat
  BY <1>1, <1>2, <1>4
<1>6. Sound(Issued(r), ctx[r], hits', failures'[r], Lost, {})
  <2>1. Unhit(ctx[r], hits, failures'[r], {})
    BY <1>1, <1>5 DEF Sound, Own, Unhit
  <2> QED
    BY <1>1, <1>3, <2>1 DEF Sound
<1>7. \A n \in Issued(r) : hits'[n] <= 1 + failures'[r]
  BY <1>2, <1>3, <1>4, <1>5
<1>8. CASE task[r].exiting /\ Leave(r, ctx[r])
  BY <1>2, <1>3, <1>4, <1>6, <1>7, <1>8, LeaveKeeps
<1>9. CASE ~task[r].exiting /\ lock' = lock /\ ctx' = ctx
  <2>1. ctx' = [ctx EXCEPT ![r] = ctx[r]]
    BY <1>2, <1>9
  <2>2. ctx[r][0].phase = "open" /\ ~ctx[r][0].cancelled => lock' = r
    BY <1>2, <1>9 DEF BlockOK
  <2> QED
    BY <1>2, <1>3, <1>4, <1>6, <1>7, <1>9, <2>1, <2>2, BodyAfter
<1> QED
  BY <1>3, <1>8, <1>9

LEMMA ConsumeKeeps ==
  ASSUME IInv, NEW r \in Requests, Consume(r)
  PROVE  IInv'
<1> DEFINE n == Len(issued) + 1
<1>0. PICK k \in Depths :
        /\ Active(ctx[r][k])
        /\ \E queue \in Enqueued(ctx[r][k].queue, n) : ctx' = [ctx EXCEPT ![r][k].queue = queue]
        /\ issued' = Append(issued, [by |-> r, at |-> k])
  BY DEF Consume
<1>1. PICK queue \in Enqueued(ctx[r][k].queue, n) : ctx' = [ctx EXCEPT ![r][k].queue = queue]
  BY <1>0
<1> DEFINE c == [ctx[r][k] EXCEPT !.queue = queue]
           g == [ctx[r] EXCEPT ![k] = c]
<1>2. /\ Types /\ Fresh /\ BlockOK(r) /\ ctx[r] \in Family /\ ~ctx[r][0].attached /\ InBody(r)
      /\ Sound(Issued(r), ctx[r], hits, failures[r], Lost, {}) /\ ctx[r][k] \in Context
      /\ hits \in [Calls -> Nat] /\ failures \in [Requests -> Nat] /\ issued \in Seq([by : Requests, at : Depths])
      /\ \A m \in Issued(r) : hits[m] <= 1 + failures[r]
  BY InvOfBody DEF Types, IInv, Consume, Family, CallsOK
<1>3. Len(issued) \in Nat /\ Len(issued) < MaxCalls /\ DOMAIN issued = 1 .. Len(issued)
  BY <1>2 DEF Consume
<1>4. n \in Calls /\ n \notin DOMAIN issued
  BY <1>3 DEF Calls
<1>5. n \notin Issued(r) /\ hits[n] = 0
  BY <1>2, <1>4 DEF Issued, Fresh
<1> HIDE DEF n
<1>6. c \in Context /\ c.queue = queue /\ c.phase = ctx[r][k].phase /\ c.cancelled = ctx[r][k].cancelled
      /\ c.consumed = ctx[r][k].consumed /\ c.attached = ctx[r][k].attached
  <2>1. queue \in Seq(SUBSET Calls)
    BY <1>2, <1>4, EnqueuedIs, QueuedType
  <2> QED
    BY <1>2, <2>1 DEF Context
<1>7. ctx' = [ctx EXCEPT ![r] = g]
  BY <1>1
<1> HIDE DEF c
<1>8. g \in Family /\ g[k] = c /\ \A j \in Depths \ {k} : g[j] = ctx[r][j]
  BY <1>2, <1>6 DEF Family
<1> HIDE DEF g
<1>9. /\ g[k].queue = queue /\ \A j \in Depths \ {k} : g[j].queue = ctx[r][j].queue
      /\ \A j \in Depths : /\ g[j].phase = ctx[r][j].phase /\ g[j].cancelled = ctx[r][j].cancelled
                           /\ g[j].consumed = ctx[r][j].consumed
      /\ \A j \in Depths : g[j].attached = ctx[r][j].attached
  BY <1>6, <1>8
<1>10. hits[n] <= failures[r] /\ failures[r] \in Nat
  BY <1>2, <1>5
<1>11. Sound(Issued(r) \cup {n}, g, hits, failures[r], Lost, {})
  BY ZenonT(60), <1>0, <1>1, <1>2, <1>4, <1>5, <1>8, <1>9, <1>10, ConsumeSound
<1>12. /\ UNCHANGED <<lock, task, hits, failures, dropped, strayed>>
       /\ ctx' \in [Requests -> Family] /\ ctx'[r] = g /\ \A q \in Requests \ {r} : ctx'[q] = ctx[q]
  BY <1>2, <1>7, <1>8 DEF Types, Consume
<1>13. Calling(r)
  BY <1>0, <1>3 DEF Calling
<1>14. Issued(r)' = Issued(r) \cup {n}
  <2> DEFINE new == [by |-> r, at |-> k]
  <2>1. new \in [by : Requests, at : Depths] /\ new.by = r
    OBVIOUS
  <2>2. issued' = Append(issued, new)
    BY <1>0
  <2> HIDE DEF new
  <2>3. /\ Len(issued') = Len(issued) + 1 /\ issued'[n] = new
        /\ \A i \in 1 .. Len(issued) : issued'[i] = issued[i]
        /\ issued' \in Seq([by : Requests, at : Depths])
    BY <1>2, <2>1, <2>2, AppendProperties DEF n
  <2>4. DOMAIN issued' = 1 .. Len(issued')
    BY <2>3
  <2>5. DOMAIN issued' = DOMAIN issued \cup {n}
    BY <1>3, <2>3, <2>4 DEF n
  <2> QED
    BY <1>3, <2>1, <2>3, <2>5 DEF Issued
<1>15. Local(r)
  BY <1>2, <1>9, <1>12, <1>13, DepthZero DEF Local, Types
<1>16. InBody(r)' /\ Free(r)' = {} /\ Lost' = Lost
  BY <1>2, <1>12 DEF InBody, Free, Lost
<1>17. HittingOK(r)' /\ BlockOK(r)' /\ HalfHit(r)'
  BY <1>2, <1>9, <1>12, <1>16, DepthZero DEF HittingOK, BlockOK, HalfHit
<1>18. \A m \in Issued(r)' : hits'[m] <= 1 + failures'[r]
  BY <1>2, <1>5, <1>10, <1>12, <1>14
<1>19. CallsOK(r)'
  BY <1>11, <1>12, <1>14, <1>16, <1>17, <1>18 DEF CallsOK
<1> QED
  BY <1>15, <1>17, <1>19, LocalStep

LEMMA Stuttering ==
  ASSUME IInv, UNCHANGED vars
  PROVE  IInv'
<1>1. /\ lock' = lock /\ ctx' = ctx /\ task' = task /\ issued' = issued /\ hits' = hits
      /\ failures' = failures /\ dropped' = dropped /\ strayed' = strayed
  BY DEF vars
<1>2. Types' /\ Fresh'
  BY <1>1 DEF IInv, Types, Fresh
<1>3. ASSUME NEW r \in Requests PROVE HittingOK(r)' /\ CallsOK(r)' /\ BlockOK(r)'
  <2>1. /\ InBody(r)' = InBody(r) /\ Queue(r)' = Queue(r) /\ Issued(r)' = Issued(r)
        /\ Free(r)' = Free(r) /\ Lost' = Lost
    BY <1>1 DEF InBody, Queue, Issued, Free, Lost
  <2>2. HittingOK(r) /\ CallsOK(r) /\ BlockOK(r)
    BY DEF IInv
  <2>3. HittingOK(r)' /\ BlockOK(r)'
    BY <1>1, <2>1, <2>2 DEF HittingOK, BlockOK
  <2>4. HalfHit(r)'
    BY <1>1, <2>1, <2>2 DEF HalfHit, CallsOK
  <2>5. CallsOK(r)'
    BY <1>1, <2>1, <2>2, <2>4 DEF CallsOK
  <2> QED
    BY <2>3, <2>5
<1> QED
  BY <1>2, <1>3 DEF IInv

\* The invariant holds, whatever the requests do.
THEOREM QuotaInvariance == Spec => []IInv
<1>1. Init => IInv
  BY InitInv
<1>2. IInv /\ [Next]_vars => IInv'
  <2> SUFFICES ASSUME IInv, [Next]_vars PROVE IInv'
    OBVIOUS
  <2>1. ASSUME NEW r \in Requests, EnterRoot(r) PROVE IInv'
    BY <2>1, EnterRootKeeps
  <2>2. ASSUME NEW r \in Requests, EnterNested(r) PROVE IInv'
    BY <2>2, EnterNestedKeeps
  <2>3. ASSUME NEW r \in Requests, Consume(r) PROVE IInv'
    BY <2>3, ConsumeKeeps
  <2>4. ASSUME NEW r \in Requests, Merge(r) PROVE IInv'
    BY <2>4, MergeKeeps
  <2>5. ASSUME NEW r \in Requests, Cancel(r) PROVE IInv'
    BY <2>5, CancelKeeps
  <2>6. ASSUME NEW r \in Requests, Apply(r) PROVE IInv'
    BY <2>6, ApplyKeeps
  <2>7. ASSUME NEW r \in Requests, Hit(r) PROVE IInv'
    BY <2>7, HitSucceedsKeeps, HitRetriesKeeps, HitFailsKeeps DEF Hit
  <2>8. ASSUME NEW r \in Requests, Exit(r) PROVE IInv'
    BY <2>8, ExitInactiveKeeps, ExitMergesKeeps, ExitAppliesKeeps, ExitWithheldKeeps DEF Exit
  <2>9. CASE UNCHANGED vars
    BY <2>9, Stuttering
  <2> QED
    BY <2>1, <2>2, <2>3, <2>4, <2>5, <2>6, <2>7, <2>8, <2>9 DEF Next
<1> QED
  BY <1>1, <1>2, PTL DEF Spec

\* The contexts keep their shape, and a task that hits has an entry to hit, for any
\* number of requests, calls and nested blocks.
THEOREM QuotaTypeCorrect == Spec => []TypeOK
<1>1. IInv => TypeOK
  BY TypesGiveTypeOK DEF IInv
<1> QED
  BY <1>1, QuotaInvariance, PTL

\* The block of a root is under the lock until it is left or the root cancelled.
THEOREM BlockIsLockedHolds == Spec => []BlockIsLocked
<1>1. IInv => BlockIsLocked
  BY DEF IInv, BlockIsLocked, BlockOK
<1> QED
  BY <1>1, QuotaInvariance, PTL

LEMMA IssuedBy ==
  ASSUME Types, NEW n \in DOMAIN issued
  PROVE  issued[n].by \in Requests /\ n \in Issued(issued[n].by)
<1> DEFINE S == [by : Requests, at : Depths]
<1>1. issued \in Seq(S)
  BY DEF Types
<1> HIDE DEF S
<1>2. issued[n] \in S
  BY <1>1
<1> QED
  BY <1>2 DEF Issued, S

\* A call is charged once, and at most once more for each apply that failed.
THEOREM ChargedOnceHolds == Spec => []ChargedOnce
<1>1. IInv => ChargedOnce
  <2> SUFFICES ASSUME IInv, NEW n \in DOMAIN issued
               PROVE  hits[n] <= 1 + failures[issued[n].by]
    BY DEF ChargedOnce
  <2>1. issued[n].by \in Requests /\ n \in Issued(issued[n].by)
    BY IssuedBy DEF IInv
  <2>2. CallsOK(issued[n].by)
    BY <2>1 DEF IInv
  <2> QED
    BY <2>1, <2>2 DEF CallsOK
<1> QED
  BY <1>1, QuotaInvariance, PTL

\* A call waits in one context at most, and in one at least unless it was charged,
\* cancelled, or merged into a context that was done.
THEOREM NothingLostHolds == Spec => []NothingLost
<1>1. IInv => NothingLost
  <2> SUFFICES ASSUME IInv, NEW n \in DOMAIN issued
               PROVE  LET f == ctx[issued[n].by]
                          places == {k \in Depths : Active(f[k]) /\ n \in Queued(f[k])}
                      IN  /\ Cardinality(places) <= 1
                          /\ places # {} \/ hits[n] > 0 \/ n \in dropped \/ n \in strayed
    BY DEF NothingLost
  <2> DEFINE f == ctx[issued[n].by]
             places == {k \in Depths : Active(f[k]) /\ n \in Queued(f[k])}
  <2>1. /\ n \in Issued(issued[n].by) /\ Once(f)
        /\ Placed(Issued(issued[n].by), f, hits, Lost)
    BY IssuedBy DEF IInv, CallsOK, Sound
  <2>2. places # {} \/ hits[n] > 0 \/ n \in dropped \/ n \in strayed
    BY <2>1 DEF Placed, Home, Lost
  <2>3. \A j, k \in places : j = k
    BY <2>1 DEF Once, Queued
  <2> HIDE DEF places, f
  <2>4. Cardinality(places) <= 1
    <3>1. CASE places = {}
      BY <3>1, FS_EmptySet
    <3>2. CASE places # {}
      <4>1. PICK k \in places : TRUE
        BY <3>2
      <4>2. places = {k}
        BY <2>3, <4>1
      <4> QED
        BY <4>2, FS_Singleton
    <3> QED
      BY <3>1, <3>2
  <2> QED
    BY <2>2, <2>4 DEF places, f
<1> QED
  BY <1>1, QuotaInvariance, PTL
=============================================================================
