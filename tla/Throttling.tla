----------------------------- MODULE Throttling -----------------------------
(***************************************************************************)
(* Requests on their way through the throttles: ThrottleMiddleware           *)
(* (traffik/middleware.py) sorts its throttles and, in the context of their   *)
(* backend, hits one after the other; Throttle.hit (traffik/throttles/base.py) *)
(* checks the throttle's rules (traffik/registry.py), asks the strategy, and   *)
(* marks and refuses the request.  One action is what runs between two awaits. *)
(*                                                                         *)
(* Meanwhile throttles are disabled and enabled, their rates are replaced,     *)
(* rules are attached to them through the registry, and somebody may close     *)
(* the backend.                                                             *)
(*                                                                         *)
(* What the strategy answers is free: Strategies.tla says what it should.     *)
(***************************************************************************)
EXTENDS Integers, Sequences, FiniteSets, SequencesExt

CONSTANTS
  Requests, Throttles,
  Cost,        \* of each throttle
  Gate,        \* the requests that the MiddlewareThrottle around it lets through
  Rules, Bypasses, Asking,   \* the rules, those of kind Bypass, those with a predicate
  Matches,     \* the requests each rule matches
  Own,         \* the rules each throttle is made with
  Dynamic,     \* the throttles with dynamic_rules
  Configs,     \* on_error, skip_handler and min_wait_period (0: None); which predicates fail
  MaxUpdates,  \* bound: disable, enable, update_rate and add_rules together
  MaxCloses    \* bound: how often the backend is closed

ASSUME ThrottlingAssumption ==
  /\ IsFiniteSet(Throttles) /\ IsFiniteSet(Rules)
  /\ Cost \in [Throttles -> Nat] /\ Gate \in [Throttles -> SUBSET Requests]
  /\ Bypasses \subseteq Rules /\ Asking \subseteq Rules
  /\ Matches \in [Rules -> SUBSET Requests] /\ Own \in [Throttles -> SUBSET Rules]
  /\ Dynamic \subseteq Throttles /\ MaxUpdates \in Nat /\ MaxCloses \in Nat
  /\ \A c \in Configs : c.onError \in {"allow", "throttle", "raise"} /\ c.skip \in BOOLEAN /\ c.minWait \in Nat

ASSUME FailingAssumption == \A c \in Configs : c.failing \subseteq Asking

VARIABLES
  config,
  disabled, limited,       \* of each throttle; limited is a rate other than unlimited
  attached,                \* of each throttle, its rules in the registry
  rules, count, resolved,  \* what the throttle has merged of them
  ready, ok,               \* the backend is initialized; the middleware thinks so
  pc, pos, todo, mark,     \* of each request
  charged, refused,        \* history: the throttles that charged and refused the request
  due,                     \* history: the rules it had to pass
  updates, closes

throttles == <<disabled, limited, attached>>
cache     == <<rules, count, resolved>>
backend   == <<ready, ok, closes>>
request   == <<pc, pos, todo, mark, charged, refused, due>>
vars      == <<config, throttles, cache, backend, request, updates>>

Init ==
  /\ config \in Configs
  /\ disabled = [t \in Throttles |-> FALSE] /\ limited = [t \in Throttles |-> TRUE]
  /\ attached = [t \in Throttles |-> {}]
  /\ rules = Own /\ count = [t \in Throttles |-> 0] /\ resolved = [t \in Throttles |-> FALSE]
  /\ ready = TRUE /\ ok = FALSE /\ closes = 0 /\ updates = 0
  /\ pc = [r \in Requests |-> "out"] /\ pos = [r \in Requests |-> 1]
  /\ todo = [r \in Requests |-> <<>>] /\ mark = [r \in Requests |-> 0]
  /\ charged = [r \in Requests |-> {}] /\ refused = [r \in Requests |-> {}]
  /\ due = [r \in Requests |-> {}]

----------------------------------------------------------------------------
(* Orders: the throttles by cost, the rules by what they cost to check. *)

\* The elements of a set by their keys, those with equal keys in any order.
Sorted(set, key) ==
  CHOOSE s \in SetToSeqs(set) : \A i, j \in DOMAIN s : i < j => key[s[i]] <= key[s[j]]

DearFirst == [t \in Throttles |-> -Cost[t]]

CheapFirst == Cost

Chain == Sorted(Throttles, CheapFirst)

At(r) == Chain[pos[r]]

Rank == [rule \in Rules |-> (IF rule \in Asking THEN 2 ELSE 0) + (IF rule \in Bypasses THEN 0 ELSE 1)]

Prepared(set) == Sorted(set, Rank)

\* A rule comes to ask its predicate if all else matches.
Fails(rule, r) == rule \in config.failing /\ r \in Matches[rule]

\* A rule holds for what it matches, a bypass for what it does not.
Holds(rule, r) == ~Fails(rule, r) /\ (r \in Matches[rule]) # (rule \in Bypasses)

----------------------------------------------------------------------------
(* The middleware. *)

Goto(r, where) == pc' = [pc EXCEPT ![r] = where]

\* The context of the backend is entered without initialization while it is believed ready.
Enter(r) ==
  /\ pc[r] = "out"
  /\ Goto(r, IF ok THEN "chain" ELSE "connect")
  /\ UNCHANGED <<config, throttles, cache, backend, pos, todo, mark, charged, refused, due, updates>>

Initialize(r) ==
  /\ pc[r] = "connect"
  /\ ready' = TRUE
  /\ Goto(r, "confirm")
  /\ UNCHANGED <<config, throttles, cache, ok, closes, pos, todo, mark, charged, refused, due, updates>>

Confirm(r) ==
  /\ pc[r] = "confirm"
  /\ Goto(r, IF ready THEN "chain" ELSE "failed")
  /\ ok' = (ready \/ ok)
  /\ UNCHANGED <<config, throttles, cache, ready, closes, pos, todo, mark, charged, refused, due, updates>>

\* The rule of the MiddlewareThrottle; past the last throttle, the application.
Filter(r) ==
  /\ pc[r] = "chain"
  /\ IF pos[r] > Len(Chain) THEN Goto(r, "app") /\ UNCHANGED pos
     ELSE IF r \in Gate[At(r)] THEN Goto(r, "hit") /\ UNCHANGED pos
     ELSE pos' = [pos EXCEPT ![r] = @ + 1] /\ UNCHANGED pc
  /\ UNCHANGED <<config, throttles, cache, backend, todo, mark, charged, refused, due, updates>>

\* The request is answered; another one takes its place.
Leave(r) ==
  /\ pc[r] \in {"app", "refused", "failed"}
  /\ Goto(r, "out")
  /\ pos' = [pos EXCEPT ![r] = 1] /\ mark' = [mark EXCEPT ![r] = 0]
  /\ charged' = [charged EXCEPT ![r] = {}] /\ refused' = [refused EXCEPT ![r] = {}]
  /\ due' = [due EXCEPT ![r] = {}] /\ todo' = [todo EXCEPT ![r] = <<>>]
  /\ UNCHANGED <<config, throttles, cache, backend, updates>>

----------------------------------------------------------------------------
(* Throttle.hit. *)

\* The throttle lets the request pass without looking at it.
PassBy(r) ==
  /\ pos' = [pos EXCEPT ![r] = @ + 1]
  /\ Goto(r, "chain")

ResolvedOnce(t) == resolved[t]

\* Rules of the registry are merged on the first hit, or on each with dynamic_rules.
Settled(t) == resolved[t] /\ t \notin Dynamic

\* The hit begins: the rules are those merged now.  A merge is skipped when the
\* numbers of rules say that nothing came.
Begin(r) ==
  LET t      == At(r)
      total  == Cardinality(rules[t]) + Cardinality(attached[t])
      merge  == ~Settled(t) /\ attached[t] # {} /\ total # count[t]
      merged == IF merge THEN rules[t] \cup attached[t] ELSE rules[t]
  IN  /\ pc[r] = "hit"
      /\ IF disabled[t] \/ ~limited[t]
         THEN PassBy(r) /\ UNCHANGED <<cache, todo, due>>
         ELSE /\ rules' = [rules EXCEPT ![t] = merged]
              /\ count' = [count EXCEPT ![t] = IF merge THEN Cardinality(merged) ELSE @]
              /\ resolved' = [resolved EXCEPT ![t] = TRUE]
              /\ todo' = [todo EXCEPT ![r] = Prepared(merged)]
              /\ due' = [due EXCEPT ![r] =
                           Own[t] \cup IF ~resolved[t] \/ t \in Dynamic THEN attached[t] ELSE {}]
              /\ Goto(r, "rules")
              /\ UNCHANGED pos
      /\ UNCHANGED <<config, throttles, backend, mark, charged, refused, updates>>

\* One rule is checked.  The first that does not hold ends the hit; what its
\* predicate raises reaches the middleware, whatever on_error says.
CheckRule(r) ==
  /\ pc[r] = "rules" /\ todo[r] # <<>>
  /\ \/ /\ Holds(Head(todo[r]), r)
        /\ todo' = [todo EXCEPT ![r] = Tail(@)] /\ UNCHANGED <<pc, pos>>
     \/ /\ ~Holds(Head(todo[r]), r) /\ ~Fails(Head(todo[r]), r)
        /\ todo' = [todo EXCEPT ![r] = <<>>] /\ PassBy(r)
     \/ /\ Fails(Head(todo[r]), r)
        /\ todo' = [todo EXCEPT ![r] = <<>>] /\ Goto(r, "failed") /\ UNCHANGED pos
  /\ UNCHANGED <<config, throttles, cache, backend, mark, charged, refused, due, updates>>

\* The rate.  A cost of 0 and an exempted identifier pass by like an unlimited one.
Prepare(r) ==
  /\ pc[r] = "rules" /\ todo[r] = <<>>
  /\ IF ~limited[At(r)]
     THEN PassBy(r)
     ELSE Goto(r, "strategy") /\ UNCHANGED pos
  /\ UNCHANGED <<config, throttles, cache, backend, todo, mark, charged, refused, due, updates>>

Larger(a, b) == IF a > b THEN a ELSE b

ConcludeGoingOn(r, wait) ==
  /\ mark' = [mark EXCEPT ![r] = wait]
  /\ refused' = [refused EXCEPT ![r] = IF wait # 0 THEN @ \cup {At(r)} ELSE @]
  /\ PassBy(r)

\* A wait marks the request, and the handler raises unless it is to be skipped.
Conclude(r, wait) ==
  /\ mark' = [mark EXCEPT ![r] = wait]
  /\ refused' = [refused EXCEPT ![r] = IF wait # 0 THEN @ \cup {At(r)} ELSE @]
  /\ IF wait # 0 /\ ~config.skip
     THEN Goto(r, "refused") /\ UNCHANGED pos
     ELSE PassBy(r)

Charge(r) == charged' = [charged EXCEPT ![r] = @ \cup {At(r)}]

\* The strategy has admitted the request, or not.  min_wait_period is the least
\* wait of any request.
Decide(r) ==
  /\ pc[r] = "strategy" /\ ready
  /\ \/ Charge(r) /\ Conclude(r, config.minWait)
     \/ UNCHANGED charged /\ Conclude(r, Larger(1, config.minWait))
  /\ UNCHANGED <<config, throttles, cache, backend, todo, due, updates>>

StaysOk(lost) == ok

\* The middleware initializes the backend again after a lost connection.
StillOk(lost) == ok /\ ~lost

\* The strategy raises, charged or not, because the backend is closed or for
\* another reason.  handle_error turns that into a wait, or the middleware sees it.
Raise(r) ==
  /\ pc[r] = "strategy"
  /\ \/ ready /\ Charge(r)
     \/ UNCHANGED charged
  /\ IF config.onError = "raise"
     THEN Goto(r, "failed") /\ ok' = StillOk(~ready) /\ UNCHANGED <<pos, mark, refused>>
     ELSE /\ Conclude(r, IF config.onError = "allow" THEN config.minWait ELSE Larger(1, config.minWait))
          /\ UNCHANGED ok
  /\ UNCHANGED <<config, throttles, cache, ready, closes, todo, due, updates>>

----------------------------------------------------------------------------
(* Meanwhile. *)

Update ==
  /\ updates < MaxUpdates /\ updates' = updates + 1
  /\ UNCHANGED <<config, cache, backend, request>>

SetDisabled ==
  \E t \in Throttles : /\ disabled' = [disabled EXCEPT ![t] = ~@]
                       /\ Update /\ UNCHANGED <<limited, attached>>

UpdateRate ==
  \E t \in Throttles : /\ limited' = [limited EXCEPT ![t] = ~@]
                       /\ Update /\ UNCHANGED <<disabled, attached>>

AddRules ==
  \E t \in Throttles, rule \in Rules :
    /\ attached' = [attached EXCEPT ![t] = @ \cup {rule}]
    /\ Update /\ UNCHANGED <<disabled, limited>>

Close ==
  /\ ready /\ closes < MaxCloses
  /\ ready' = FALSE /\ closes' = closes + 1
  /\ UNCHANGED <<config, throttles, cache, ok, request, updates>>

Step(r) ==
  \/ Enter(r) \/ Initialize(r) \/ Confirm(r) \/ Filter(r) \/ Leave(r)
  \/ Begin(r) \/ CheckRule(r) \/ Prepare(r) \/ Decide(r) \/ Raise(r)

Next == SetDisabled \/ UpdateRate \/ AddRules \/ Close \/ \E r \in Requests : Step(r)

(* A task that can run is run, and requests keep coming. *)
Fairness == \A r \in Requests : WF_vars(Step(r))

Spec == Init /\ [][Next]_vars /\ Fairness

----------------------------------------------------------------------------
(* Properties. *)

\* Every variable has its type.
TypeOK ==
  /\ config \in Configs /\ ready \in BOOLEAN /\ ok \in BOOLEAN
  /\ disabled \in [Throttles -> BOOLEAN] /\ limited \in [Throttles -> BOOLEAN]
  /\ attached \in [Throttles -> SUBSET Rules] /\ rules \in [Throttles -> SUBSET Rules]
  /\ count \in [Throttles -> 0 .. Cardinality(Rules)] /\ resolved \in [Throttles -> BOOLEAN]
  /\ pos \in [Requests -> 1 .. Len(Chain) + 1]
  /\ pc \in [Requests -> {"out", "connect", "confirm", "chain", "hit", "rules", "strategy", "app", "refused", "failed"}]
  /\ todo \in [Requests -> Seq(Rules)] /\ due \in [Requests -> SUBSET Rules] /\ mark \in [Requests -> Nat]
  /\ charged \in [Requests -> SUBSET Throttles] /\ refused \in [Requests -> SUBSET Throttles]
  /\ updates \in Nat /\ closes \in Nat

(* A refusal ends it: the request does not reach the application, nor the budget
   of a throttle dearer than the one that refused it (sort "cheap_first"). *)
RefusalEnds ==
  ~config.skip => \A r \in Requests : refused[r] # {} =>
    /\ pc[r] = "refused"
    /\ \A t \in charged[r], u \in refused[r] : Cost[t] <= Cost[u]

(* A throttle charges nobody whom a rule lets off: its own rules, those attached
   before its first hit, and with dynamic_rules those attached before this hit,
   whatever the count of rules says (the cached merge of hit). *)
RulesDecide ==
  \A r \in Requests : pc[r] = "strategy" => \A rule \in due[r] : Holds(rule, r)

(* When somebody closes the backend, the requests of a middleware whose throttles
   raise get it initialized again. *)
Recovers ==
  /\ config.onError = "raise"
  /\ <>[](\A t \in Throttles, r \in Requests :
            ~disabled[t] /\ limited[t] /\ (\A rule \in rules[t] \cup attached[t] : Holds(rule, r)))
  => []<>ready

(* A request that a throttle refused is still marked when it reaches the
   application (docs of skip_handler: "is still marked throttled"). *)
ThrottledIsMarked ==
  \A r \in Requests : pc[r] = "app" /\ refused[r] # {} => mark[r] # 0
=============================================================================
