---------------------------- MODULE ResilientChat -----------------------------
(***************************************************************************)
(* core/orchestrator/core.py _resilient_chat: how the orchestrator calls   *)
(* the model.  The breaker is outside and the retry loop of                *)
(* core/utils/retry.py inside, so what the breaker sees as one call is up  *)
(* to MaxAttempts requests with sleeps between them.                       *)
(*                                                                         *)
(* Every outcome but a response becomes None: an open breaker, an error    *)
(* that was retried to exhaustion and an error that is not retried.        *)
(***************************************************************************)
EXTENDS CircuitBreaker

CONSTANT MaxAttempts      \* RetryConfig.max_attempts

ASSUME RetryAssumption == MaxAttempts \in Nat \ {0}

VARIABLES phase,      \* where each task is: idle, awaiting the adapter, or in sleep
          attempt,    \* the loop variable of RetryManager.execute
          answer,     \* what the last _resilient_chat of the task returned
          openSends   \* history: requests each task sent since the breaker last opened

retry    == <<phase, attempt, answer, openSends>>
chatVars == <<vars, retry>>

ChatTypeOK ==
    /\ TypeOK
    /\ phase \in [Callers -> {"idle", "request", "sleep"}]
    /\ attempt \in [Callers -> 0 .. MaxAttempts]
    /\ answer \in [Callers -> {"unasked", "response", "None"}]
    /\ openSends \in [Callers -> Nat]
    /\ inCall = {c \in Callers : phase[c] # "idle"}

ChatInit ==
    /\ Init
    /\ phase = [c \in Callers |-> "idle"]
    /\ attempt = [c \in Callers |-> 0]
    /\ answer = [c \in Callers |-> "unasked"]
    /\ openSends = [c \in Callers |-> 0]

\* Counted while the breaker is open, and all zero while it is not.
CountSends(c, n) ==
    openSends' = IF state' = "OPEN" THEN [openSends EXCEPT ![c] = @ + n]
                                    ELSE [d \in Callers |-> 0]

Leave(c, what) ==
    /\ phase' = [phase EXCEPT ![c] = "idle"]
    /\ attempt' = [attempt EXCEPT ![c] = 0]
    /\ answer' = [answer EXCEPT ![c] = what]

-----------------------------------------------------------------------------

\* The breaker admits the task and the first attempt goes out in the same step.
StartChat(c) ==
    /\ Admit(c)
    /\ phase' = [phase EXCEPT ![c] = "request"]
    /\ attempt' = [attempt EXCEPT ![c] = 1]
    /\ CountSends(c, 1)
    /\ UNCHANGED answer

\* CircuitBreakerOpenError: None, with no request sent.
RefusedChat(c) ==
    /\ Refuse(c)
    /\ Leave(c, "None")
    /\ UNCHANGED openSends

Respond(c) ==
    /\ phase[c] = "request"
    /\ Succeed(c)
    /\ Leave(c, "response")
    /\ CountSends(c, 0)

\* variant: the breaker inside the retry loop, so that it sees every attempt
BackOffCounted(c) ==
    /\ phase[c] = "request"
    /\ attempt[c] < MaxAttempts
    /\ phase' = [phase EXCEPT ![c] = "sleep"]
    /\ failures' = CountFailure(failures)
    /\ UNCHANGED <<state, elapsed, halfOpenCalls, probes, sinceFailure, inCall>>
    /\ UNCHANGED <<attempt, answer, openSends>>

\* A retryable error before the last attempt: sleep, unseen by the breaker.
BackOff(c) ==
    /\ phase[c] = "request"
    /\ attempt[c] < MaxAttempts
    /\ phase' = [phase EXCEPT ![c] = "sleep"]
    /\ UNCHANGED <<vars, attempt, answer, openSends>>

ResendUncounted(c) ==                \* variant: the attempt does not advance
    /\ phase[c] = "sleep"
    /\ phase' = [phase EXCEPT ![c] = "request"]
    /\ UNCHANGED <<vars, attempt, answer>>
    /\ CountSends(c, 1)

\* The sleep ends and the next attempt goes out, whatever the breaker has
\* become meanwhile.
Resend(c) ==
    /\ phase[c] = "sleep"
    /\ phase' = [phase EXCEPT ![c] = "request"]
    /\ attempt' = [attempt EXCEPT ![c] = @ + 1]
    /\ UNCHANGED <<vars, answer>>
    /\ CountSends(c, 1)

\* A retryable error of the last attempt, raised by execute after the loop.
Exhaust(c) ==
    /\ phase[c] = "request"
    /\ attempt[c] = MaxAttempts
    /\ Fail(c)
    /\ Leave(c, "None")
    /\ CountSends(c, 0)

\* An error outside retryable_exceptions, which the builtin ConnectionError and
\* TimeoutError are: httpx's own errors end the chat at the first attempt.
GiveUp(c) ==
    /\ phase[c] = "request"
    /\ Fail(c)
    /\ Leave(c, "None")
    /\ CountSends(c, 0)

TimePasses == Tick /\ UNCHANGED retry

ChatNext ==
    \/ \E c \in Callers :
          \/ StartChat(c) \/ RefusedChat(c)
          \/ Respond(c) \/ BackOff(c) \/ Resend(c) \/ Exhaust(c) \/ GiveUp(c)
    \/ TimePasses

ChatSpec == ChatInit /\ [][ChatNext]_chatVars

\* Requests end (the HTTP clients have timeouts) and so do sleeps.
FairChat ==
    \A c \in Callers : /\ WF_chatVars(Respond(c) \/ BackOff(c) \/ Exhaust(c) \/ GiveUp(c))
                       /\ WF_chatVars(Resend(c))

FairChatSpec == ChatSpec /\ FairChat

-----------------------------------------------------------------------------

\* While the breaker is open the provider sees only the rest of the retry loops
\* that were admitted before: at most MaxAttempts - 1 requests of each task, and
\* none of at least one, the task that opened it, however long it stays open.
OpenTraffic ==
    state = "OPEN" => /\ \A c \in Callers : openSends[c] <= MaxAttempts - 1
                      /\ \E c \in Callers : openSends[c] = 0

\* Every chat ends: the retry loop cannot go on for ever.
ChatEnds == \A c \in Callers : phase[c] # "idle" ~> phase[c] = "idle"

\* To the breaker a chat is one call: the retries inside it are invisible.
ImplementsBreaker == Spec
=============================================================================
