---------------------------- MODULE CircuitBreaker ----------------------------
(***************************************************************************)
(* core/errors/circuit_breaker.py: the breaker that guards every model     *)
(* call, shared by all the tasks that run on one Orchestrator.             *)
(*                                                                         *)
(* call() has three sections under an asyncio.Lock.  Nothing inside a      *)
(* section suspends, so on the event loop each is one atomic step; the     *)
(* tasks interleave between admission and the outcome of the awaited fn.   *)
(*                                                                         *)
(* A definition marked "variant" is the one below it with a plausible bug: *)
(* put in its place it must break a property.                              *)
(***************************************************************************)
EXTENDS Integers

CONSTANTS Callers,             \* tasks that may be inside call() at once
          FailureThreshold,    \* CircuitBreakerConfig.failure_threshold
          RecoveryTimeout,     \* recovery_timeout_sec, in ticks
          HalfOpenMaxCalls,    \* half_open_max_calls
          MaxFailures          \* bound: where the unbounded _failures saturates

ASSUME BreakerAssumption ==
    /\ FailureThreshold \in Nat \ {0}
    /\ RecoveryTimeout \in Nat
    /\ HalfOpenMaxCalls \in Nat
    /\ MaxFailures \in Nat
    /\ MaxFailures >= FailureThreshold

VARIABLES state,         \* _state
          failures,      \* _failures, saturated at MaxFailures
          elapsed,       \* monotonic() - _last_failure_time, saturated
          halfOpenCalls, \* _half_open_calls
          inCall,        \* callers awaiting fn
          probes,        \* history: calls admitted since HALF_OPEN began
          sinceFailure   \* history: ticks since any call failed, saturated

breaker == <<state, failures, elapsed, halfOpenCalls, probes, sinceFailure>>
vars    == <<breaker, inCall>>

TypeOK ==
    /\ state \in {"CLOSED", "OPEN", "HALF_OPEN"}
    /\ failures \in 0 .. MaxFailures
    /\ elapsed \in 0 .. RecoveryTimeout
    /\ halfOpenCalls \in Nat
    /\ inCall \subseteq Callers
    /\ probes \in Nat
    /\ sinceFailure \in 0 .. RecoveryTimeout

\* _last_failure_time is 0.0 at start: the distant past, which only OPEN reads.
Init ==
    /\ state = "CLOSED"
    /\ failures = 0
    /\ elapsed = RecoveryTimeout
    /\ halfOpenCalls = 0
    /\ inCall = {}
    /\ probes = 0
    /\ sinceFailure = RecoveryTimeout

-----------------------------------------------------------------------------
(* The admission section of call(). *)

AdmitClosed(c) ==
    /\ c \notin inCall
    /\ state = "CLOSED"
    /\ inCall' = inCall \cup {c}
    /\ UNCHANGED breaker

\* The call that finds the cooldown over half-opens the breaker and goes
\* through without being counted in halfOpenCalls.
AdmitFirstProbe(c) ==
    /\ c \notin inCall
    /\ state = "OPEN"
    /\ elapsed >= RecoveryTimeout
    /\ state' = "HALF_OPEN"
    /\ halfOpenCalls' = 0
    /\ probes' = 1
    /\ inCall' = inCall \cup {c}
    /\ UNCHANGED <<failures, elapsed, sinceFailure>>

ProbeAllowedLate == halfOpenCalls <= HalfOpenMaxCalls   \* variant: off by one

ProbeAllowed == halfOpenCalls < HalfOpenMaxCalls

AdmitProbe(c) ==
    /\ c \notin inCall
    /\ state = "HALF_OPEN"
    /\ ProbeAllowed
    /\ halfOpenCalls' = halfOpenCalls + 1
    /\ probes' = probes + 1
    /\ inCall' = inCall \cup {c}
    /\ UNCHANGED <<state, failures, elapsed, sinceFailure>>

\* Raises CircuitBreakerOpenError: the caller leaves and the breaker is as it was.
Refuse(c) ==
    /\ c \notin inCall
    /\ \/ state = "OPEN" /\ elapsed < RecoveryTimeout
       \/ state = "HALF_OPEN" /\ ~ProbeAllowed
    /\ UNCHANGED vars

Admit(c) == AdmitClosed(c) \/ AdmitFirstProbe(c) \/ AdmitProbe(c)

-----------------------------------------------------------------------------
(* The outcome of the awaited fn. *)

CountFailure(n) == IF n < MaxFailures THEN n + 1 ELSE MaxFailures

TripsAtThreshold(n) == n = FailureThreshold        \* variant: equality test

Trips(n) == n >= FailureThreshold

\* variant: a breaker that is open already is not stamped again
AgeOnFirstTrip == IF state = "OPEN" THEN elapsed ELSE 0

\* _transition_to(OPEN) stamps the time, also when the breaker is open already.
AgeOnTrip == 0

Fail(c) ==
    /\ c \in inCall
    /\ inCall' = inCall \ {c}
    /\ failures' = CountFailure(failures)
    /\ sinceFailure' = 0
    /\ IF Trips(failures')
         THEN state' = "OPEN" /\ elapsed' = AgeOnTrip
         ELSE UNCHANGED <<state, elapsed>>
    /\ UNCHANGED <<halfOpenCalls, probes>>

DecrementUnclamped(n) == n - 1                     \* variant: no max(0, .)

Decrement(n) == IF n > 0 THEN n - 1 ELSE 0

\* variant: recovery keeps the count
FailuresKeptOnSuccess == IF state = "CLOSED" THEN Decrement(failures) ELSE failures

FailuresOnSuccess ==
    CASE state = "HALF_OPEN" -> 0
      [] state = "CLOSED"    -> Decrement(failures)
      [] state = "OPEN"      -> failures

\* A success closes a half-open breaker whenever the call was admitted, also
\* before the breaker opened; it is ignored while OPEN.
Succeed(c) ==
    /\ c \in inCall
    /\ inCall' = inCall \ {c}
    /\ state' = IF state = "HALF_OPEN" THEN "CLOSED" ELSE state
    /\ failures' = FailuresOnSuccess
    /\ UNCHANGED <<elapsed, halfOpenCalls, probes, sinceFailure>>

Later(t) == IF t < RecoveryTimeout THEN t + 1 ELSE RecoveryTimeout

Tick ==
    /\ elapsed' = Later(elapsed)
    /\ sinceFailure' = Later(sinceFailure)
    /\ UNCHANGED <<state, failures, halfOpenCalls, probes, inCall>>

Next ==
    \/ \E c \in Callers : Admit(c) \/ Refuse(c) \/ Fail(c) \/ Succeed(c)
    \/ Tick

Spec == Init /\ [][Next]_vars

\* An awaited model call ends: the adapters' HTTP clients have a timeout.
FairSpec == Spec /\ \A c \in Callers : WF_vars(Fail(c) \/ Succeed(c))

-----------------------------------------------------------------------------
(* Properties. *)

\* The state and the failure count agree: the breaker is closed exactly while
\* fewer than FailureThreshold failures are counted.  It needs the reset of
\* _failures on recovery: without it one failure after recovery would reopen.
ClosedIffBelowThreshold == state = "CLOSED" <=> failures < FailureThreshold

\* A half-open period lets through the call that began it and HalfOpenMaxCalls
\* more, whatever else finishes, fails or is refused meanwhile.
ProbesBounded == state = "HALF_OPEN" => probes <= HalfOpenMaxCalls + 1

\* While the breaker is half-open a call is still out: some outcome will
\* decide whether it closes or opens again, so it cannot refuse for ever.
HalfOpenHasCallOut == state = "HALF_OPEN" => inCall # {}

\* The breaker half-opens only after RecoveryTimeout without any failure, the
\* late failures of calls admitted before it opened included.
ProbeOnlyAfterQuiet ==
    [][state = "OPEN" /\ state' = "HALF_OPEN" => sinceFailure >= RecoveryTimeout]_vars

\* A half-open breaker is always decided.
HalfOpenResolves == state = "HALF_OPEN" ~> state # "HALF_OPEN"

\* What half_open_max_calls is named and documented to be: the number of calls
\* a half-open breaker lets through.
HalfOpenLimit == state = "HALF_OPEN" => probes <= HalfOpenMaxCalls
=============================================================================
