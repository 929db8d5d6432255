--------------------------- MODULE CircuitBreaker ---------------------------
(***************************************************************************)
(* The circuit breaker of traffik/_utils.py and the calls that share it:    *)
(* the failover handler of traffik/error_handlers.py, which asks the breaker *)
(* for leave, tries the primary backend up to max_retries times, reports the *)
(* outcome to the breaker and otherwise goes to the fallback backend.       *)
(*                                                                         *)
(* The breaker's methods hold its lock without awaiting anything, so each   *)
(* is part of the step of its caller; between the answer of allow_execution *)
(* and the report of the outcome every other call may run.                  *)
(***************************************************************************)
EXTENDS Naturals

CONSTANTS Calls,             \* the handler's concurrent calls
          FailureThreshold, SuccessThreshold,
          MaxRetries

ASSUME ThresholdAssumption == FailureThreshold \in Nat \ {0} /\ SuccessThreshold \in Nat \ {0}

ASSUME RetriesAssumption == MaxRetries \in Nat \ {0}

VARIABLES
  state, failures, successes,
  cooled,     \* recovery_timeout has passed since _opened_at
  probing,    \* _probe_in_progress
  call,       \* per call: where it is, its attempt, whether it was let through as a probe
  abandoned,  \* history: a probe was cancelled before it reported
  strayed     \* history: a half-open circuit heard of a call that was not its probe

breaker == <<state, failures, successes, cooled, probing>>

circuitVars == <<breaker, call, abandoned, strayed>>

Idle == [pc |-> "idle"]

Refused == [pc |-> "fallback"]

CallType == {Idle, Refused}
              \cup [pc : {"primary", "backoff"}, attempt : 1 .. MaxRetries, probe : BOOLEAN]

Trying(c) == call[c].pc \in {"primary", "backoff"}

Probes == {c \in Calls : Trying(c) /\ call[c].probe}

CircuitInit == /\ state = "CLOSED" /\ failures = 0 /\ successes = 0
        /\ cooled = FALSE /\ probing = FALSE
        /\ call = [c \in Calls |-> Idle]
        /\ abandoned = FALSE /\ strayed = FALSE

----------------------------------------------------------------------------
(* CircuitBreaker *)

Opened == /\ state' = "OPEN" /\ cooled' = FALSE
          /\ failures' = 0 /\ successes' = 0 /\ probing' = FALSE

Closed == /\ state' = "CLOSED" /\ cooled' = FALSE
          /\ failures' = 0 /\ successes' = 0 /\ probing' = FALSE

RecordSuccessEarly ==
  \/ /\ state = "CLOSED"
     /\ failures' = 0
     /\ UNCHANGED <<state, successes, cooled, probing>>
  \/ /\ state = "HALF_OPEN" /\ successes + 2 < SuccessThreshold
     /\ successes' = successes + 1 /\ probing' = FALSE
     /\ UNCHANGED <<state, failures, cooled>>
  \/ /\ state = "HALF_OPEN" /\ successes + 2 >= SuccessThreshold
     /\ Closed
  \/ /\ state = "OPEN"
     /\ UNCHANGED breaker

RecordSuccess ==
  \/ /\ state = "CLOSED"
     /\ failures' = 0
     /\ UNCHANGED <<state, successes, cooled, probing>>
  \/ /\ state = "HALF_OPEN" /\ successes + 1 < SuccessThreshold
     /\ successes' = successes + 1 /\ probing' = FALSE
     /\ UNCHANGED <<state, failures, cooled>>
  \/ /\ state = "HALF_OPEN" /\ successes + 1 >= SuccessThreshold
     /\ Closed
  \/ /\ state = "OPEN"
     /\ UNCHANGED breaker

RecordFailureLate ==
  \/ /\ state = "CLOSED" /\ failures < FailureThreshold
     /\ failures' = failures + 1
     /\ UNCHANGED <<state, successes, cooled, probing>>
  \/ /\ state = "CLOSED" /\ failures >= FailureThreshold
     /\ Opened
  \/ /\ state = "HALF_OPEN"
     /\ Opened
  \/ /\ state = "OPEN"
     /\ UNCHANGED breaker

RecordFailure ==
  \/ /\ state = "CLOSED" /\ failures + 1 < FailureThreshold
     /\ failures' = failures + 1
     /\ UNCHANGED <<state, successes, cooled, probing>>
  \/ /\ state = "CLOSED" /\ failures + 1 >= FailureThreshold
     /\ Opened
  \/ /\ state = "HALF_OPEN"
     /\ Opened
  \/ /\ state = "OPEN"
     /\ UNCHANGED breaker

\* Time passes while the circuit is open.
Cool == /\ state = "OPEN" /\ ~cooled
        /\ cooled' = TRUE
        /\ UNCHANGED <<state, failures, successes, probing, call, abandoned, strayed>>

\* An operator's intervention may overtake a probe.
ForceOpen == /\ Opened
             /\ strayed' = (strayed \/ Probes # {})
             /\ UNCHANGED <<call, abandoned>>

ForceClose == /\ Closed
              /\ strayed' = (strayed \/ Probes # {})
              /\ UNCHANGED <<call, abandoned>>

----------------------------------------------------------------------------
(* The handler: allow_execution() *)

Admit(c, probe) ==
  call' = [call EXCEPT ![c] = [pc |-> "primary", attempt |-> 1, probe |-> probe]]

AllowClosed(c) ==
  /\ call[c] = Idle
  /\ state = "CLOSED"
  /\ Admit(c, FALSE)
  /\ UNCHANGED <<breaker, abandoned, strayed>>

AllowUncooled(c) ==
  /\ call[c] = Idle
  /\ state = "OPEN"
  /\ state' = "HALF_OPEN" /\ successes' = 0 /\ probing' = TRUE
  /\ Admit(c, TRUE)
  /\ UNCHANGED <<failures, cooled, abandoned, strayed>>

AllowCooled(c) ==
  /\ call[c] = Idle
  /\ state = "OPEN" /\ cooled
  /\ state' = "HALF_OPEN" /\ successes' = 0 /\ probing' = TRUE
  /\ Admit(c, TRUE)
  /\ UNCHANGED <<failures, cooled, abandoned, strayed>>

AllowProbeUnguarded(c) ==
  /\ call[c] = Idle
  /\ state = "HALF_OPEN"
  /\ probing' = TRUE
  /\ Admit(c, TRUE)
  /\ UNCHANGED <<state, failures, successes, cooled, abandoned, strayed>>

AllowProbe(c) ==
  /\ call[c] = Idle
  /\ state = "HALF_OPEN" /\ ~probing
  /\ probing' = TRUE
  /\ Admit(c, TRUE)
  /\ UNCHANGED <<state, failures, successes, cooled, abandoned, strayed>>

Refuse(c) ==
  /\ call[c] = Idle
  /\ (state = "OPEN" /\ ~cooled) \/ (state = "HALF_OPEN" /\ probing)
  /\ call' = [call EXCEPT ![c] = Refused]
  /\ UNCHANGED <<breaker, abandoned, strayed>>

----------------------------------------------------------------------------
(* The handler: the attempts *)

\* c reports to the breaker; a half-open one may have been waiting for another.
Reports(c) ==
  /\ strayed' = (strayed \/ (state = "HALF_OPEN" /\ ~call[c].probe))
  /\ UNCHANGED abandoned

Succeeds(c) ==
  /\ call[c].pc = "primary"
  /\ RecordSuccess
  /\ Reports(c)
  /\ call' = [call EXCEPT ![c] = Idle]

FailsAndRetries(c) ==
  /\ call[c].pc = "primary" /\ call[c].attempt < MaxRetries
  /\ call' = [call EXCEPT ![c].pc = "backoff", ![c].attempt = @ + 1]
  /\ UNCHANGED <<breaker, abandoned, strayed>>

Retry(c) ==
  /\ call[c].pc = "backoff"
  /\ call' = [call EXCEPT ![c].pc = "primary"]
  /\ UNCHANGED <<breaker, abandoned, strayed>>

FailsUnrecorded(c) ==
  /\ call[c].pc = "primary" /\ call[c].attempt = MaxRetries
  /\ Reports(c)
  /\ call' = [call EXCEPT ![c] = Refused]
  /\ UNCHANGED breaker

FailsForGood(c) ==
  /\ call[c].pc = "primary" /\ call[c].attempt = MaxRetries
  /\ RecordFailure
  /\ Reports(c)
  /\ call' = [call EXCEPT ![c] = Refused]

\* An exempt exception, such as the request's cancellation, is reported to nobody.
Abandon(c) ==
  /\ Trying(c)
  /\ call' = [call EXCEPT ![c] = Idle]
  /\ abandoned' = (abandoned \/ call[c].probe)
  /\ UNCHANGED <<breaker, strayed>>

UseFallback(c) ==
  /\ call[c] = Refused
  /\ call' = [call EXCEPT ![c] = Idle]
  /\ UNCHANGED <<breaker, abandoned, strayed>>

Allow(c) == AllowClosed(c) \/ AllowCooled(c) \/ AllowProbe(c) \/ Refuse(c)

Attempt(c) == Succeeds(c) \/ FailsAndRetries(c) \/ Retry(c) \/ FailsForGood(c)

CircuitNext == \/ \E c \in Calls : Allow(c) \/ Attempt(c) \/ Abandon(c) \/ UseFallback(c)
        \/ Cool \/ ForceOpen \/ ForceClose

CircuitSpec == CircuitInit /\ [][CircuitNext]_circuitVars

\* A backend answers or fails, and a backoff ends; nothing else is promised.
FairSpec == CircuitSpec /\ \A c \in Calls : WF_circuitVars(Attempt(c))

----------------------------------------------------------------------------
(* Properties *)

\* The counters stay below their thresholds: reaching one changes the state.
CircuitTypeOK ==
  /\ state \in {"CLOSED", "OPEN", "HALF_OPEN"}
  /\ failures \in 0 .. FailureThreshold - 1
  /\ successes \in 0 .. SuccessThreshold - 1
  /\ cooled \in BOOLEAN /\ probing \in BOOLEAN
  /\ abandoned \in BOOLEAN /\ strayed \in BOOLEAN
  /\ call \in [Calls -> CallType]

\* "A single probe execution is allowed through": never two at once, and the flag
\* that keeps the others out is up exactly while one runs.  This needs that only the
\* probe reports to a half-open circuit (a call let through before the outage may
\* come back late, and its report takes the flag down) and that no probe is cancelled.
SingleProbe ==
  /\ strayed \/ abandoned \/ (/\ \A c, d \in Probes : c = d
                           /\ probing <=> Probes # {})
  /\ probing => state = "HALF_OPEN"

\* A circuit that recovers by itself does so only after it was half-open, and the
\* report that closes it is a probe's, unless a late call's got in between.
RecoversByProbes ==
  [][state # "CLOSED" /\ state' = "CLOSED" /\ ~ForceClose =>
       /\ state = "HALF_OPEN" /\ successes + 1 = SuccessThreshold
       /\ strayed' \/ \E c \in Probes : call'[c] = Idle]_circuitVars

\* A circuit that is open lets nobody through before recovery_timeout has passed.
OpenLetsNobodyThrough ==
  [][state = "OPEN" /\ ~cooled => \A c \in Calls : Trying(c)' => Trying(c)]_circuitVars

\* The probe is decided, unless it is cancelled: the circuit does not stay half-open
\* on the word of a call that reports to nobody.
ProbeIsDecided == probing ~> (~probing \/ abandoned)

\* "All other executions continue to be rejected until the probe completes": it does.
ProbeCompletes == probing ~> ~probing
=============================================================================
