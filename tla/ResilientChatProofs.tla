------------------------- MODULE ResilientChatProofs --------------------------
(***************************************************************************)
(* Safety of CircuitBreaker for every number of callers and every          *)
(* configuration that BreakerAssumption allows, and of the chats through   *)
(* it: the retry loop is invisible to the breaker, so that what is proved  *)
(* of the breaker holds of every chat the orchestrator makes.              *)
(***************************************************************************)
EXTENDS ResilientChat, TLAPS

(* The breaker. *)

\* Every variable of the breaker keeps its type.
THEOREM Typing == Spec => []TypeOK
<1>1. Init => TypeOK
  BY BreakerAssumption DEF Init, TypeOK
<1>2. TypeOK /\ [Next]_vars => TypeOK'
  <2> SUFFICES ASSUME TypeOK, [Next]_vars PROVE TypeOK'
    OBVIOUS
  <2> USE BreakerAssumption DEF TypeOK
  <2>1. ASSUME NEW c \in Callers, Admit(c) PROVE TypeOK'
    BY <2>1 DEF Admit, AdmitClosed, AdmitFirstProbe, AdmitProbe, ProbeAllowed, breaker
  <2>2. ASSUME NEW c \in Callers, Refuse(c) PROVE TypeOK'
    BY <2>2 DEF Refuse, vars, breaker
  <2>3. ASSUME NEW c \in Callers, Fail(c) PROVE TypeOK'
    <3>1. failures' \in 0 .. MaxFailures /\ sinceFailure' \in 0 .. RecoveryTimeout
      BY <2>3 DEF Fail, CountFailure, Trips
    <3>2. state' \in {"CLOSED", "OPEN", "HALF_OPEN"} /\ elapsed' \in 0 .. RecoveryTimeout
      BY <2>3 DEF Fail, Trips, AgeOnTrip
    <3> QED
      BY <2>3, <3>1, <3>2 DEF Fail, Trips, AgeOnTrip
  <2>4. ASSUME NEW c \in Callers, Succeed(c) PROVE TypeOK'
    BY <2>4 DEF Succeed, FailuresOnSuccess, Decrement
  <2>5. CASE Tick
    BY <2>5 DEF Tick, Later
  <2>6. CASE UNCHANGED vars
    BY <2>6 DEF vars, breaker
  <2> QED
    BY <2>1, <2>2, <2>3, <2>4, <2>5, <2>6 DEF Next
<1> QED
  BY <1>1, <1>2, PTL DEF Spec

-----------------------------------------------------------------------------
\* The breaker is closed exactly while it counts fewer than FailureThreshold
\* failures.  Inductive on top of typing: a failure moves both sides together
\* and a recovery resets the count it closes on.
THEOREM CountAgrees == Spec => []ClosedIffBelowThreshold
<1> USE BreakerAssumption DEF ClosedIffBelowThreshold
<1>1. Init => ClosedIffBelowThreshold
  BY DEF Init
<1>2. TypeOK /\ ClosedIffBelowThreshold /\ [Next]_vars => ClosedIffBelowThreshold'
  <2> SUFFICES ASSUME TypeOK, ClosedIffBelowThreshold, [Next]_vars
               PROVE ClosedIffBelowThreshold'
    OBVIOUS
  <2> USE DEF TypeOK
  <2>1. ASSUME NEW c \in Callers, Admit(c) PROVE ClosedIffBelowThreshold'
    BY <2>1 DEF Admit, AdmitClosed, AdmitFirstProbe, AdmitProbe, ProbeAllowed, breaker
  <2>2. ASSUME NEW c \in Callers, Refuse(c) PROVE ClosedIffBelowThreshold'
    BY <2>2 DEF Refuse, vars, breaker
  <2>3. ASSUME NEW c \in Callers, Fail(c) PROVE ClosedIffBelowThreshold'
    <3>1. failures' \in Nat /\ failures' >= failures
      BY <2>3 DEF Fail, CountFailure, Trips
    <3>2. CASE failures' >= FailureThreshold
      BY <2>3, <3>1, <3>2 DEF Fail, Trips, AgeOnTrip
    <3>3. CASE failures' < FailureThreshold
      BY <2>3, <3>1, <3>3 DEF Fail, Trips, AgeOnTrip
    <3> QED
      BY <3>1, <3>2, <3>3
  <2>4. ASSUME NEW c \in Callers, Succeed(c) PROVE ClosedIffBelowThreshold'
    BY <2>4 DEF Succeed, FailuresOnSuccess, Decrement
  <2>5. CASE Tick
    BY <2>5 DEF Tick
  <2>6. CASE UNCHANGED vars
    BY <2>6 DEF vars, breaker
  <2> QED
    BY <2>1, <2>2, <2>3, <2>4, <2>5, <2>6 DEF Next
<1> QED
  BY <1>1, <1>2, Typing, PTL DEF Spec

-----------------------------------------------------------------------------
\* What ProbesBounded needs to be inductive: the counter misses exactly the
\* call that half-opened the breaker.
ProbesCounted ==
    state = "HALF_OPEN" => /\ probes = halfOpenCalls + 1
                           /\ halfOpenCalls <= HalfOpenMaxCalls

\* A half-open period admits at most HalfOpenMaxCalls + 1 calls.
THEOREM ProbeLimit == Spec => []ProbesBounded
<1> USE BreakerAssumption DEF ProbesCounted
<1>1. Init => ProbesCounted
  BY DEF Init
<1>2. TypeOK /\ ProbesCounted /\ [Next]_vars => ProbesCounted'
  <2> SUFFICES ASSUME TypeOK, ProbesCounted, [Next]_vars PROVE ProbesCounted'
    OBVIOUS
  <2> USE DEF TypeOK
  <2>1. ASSUME NEW c \in Callers, Admit(c) PROVE ProbesCounted'
    BY <2>1 DEF Admit, AdmitClosed, AdmitFirstProbe, AdmitProbe, ProbeAllowed, breaker
  <2>2. ASSUME NEW c \in Callers, Refuse(c) PROVE ProbesCounted'
    BY <2>2 DEF Refuse, vars, breaker
  <2>3. ASSUME NEW c \in Callers, Fail(c) PROVE ProbesCounted'
    BY <2>3 DEF Fail, Trips, AgeOnTrip
  <2>4. ASSUME NEW c \in Callers, Succeed(c) PROVE ProbesCounted'
    BY <2>4 DEF Succeed
  <2>5. CASE Tick
    BY <2>5 DEF Tick
  <2>6. CASE UNCHANGED vars
    BY <2>6 DEF vars, breaker
  <2> QED
    BY <2>1, <2>2, <2>3, <2>4, <2>5, <2>6 DEF Next
<1>3. TypeOK /\ ProbesCounted => ProbesBounded
  BY DEF ProbesBounded, TypeOK
<1> QED
  BY <1>1, <1>2, <1>3, Typing, PTL DEF Spec

-----------------------------------------------------------------------------
\* A half-open breaker has a call out.  The count makes it inductive: a failure
\* while half-open is at the threshold already, so it cannot leave the breaker
\* half-open with nobody inside.
THEOREM DecisionPending == Spec => []HalfOpenHasCallOut
<1> USE BreakerAssumption DEF HalfOpenHasCallOut
<1>1. Init => HalfOpenHasCallOut
  BY DEF Init
<1>2. /\ TypeOK /\ ClosedIffBelowThreshold /\ HalfOpenHasCallOut
      /\ [Next]_vars
      => HalfOpenHasCallOut'
  <2> SUFFICES ASSUME TypeOK, ClosedIffBelowThreshold, HalfOpenHasCallOut, [Next]_vars
               PROVE HalfOpenHasCallOut'
    OBVIOUS
  <2>1. ASSUME NEW c \in Callers, Admit(c) PROVE HalfOpenHasCallOut'
    BY <2>1 DEF Admit, AdmitClosed, AdmitFirstProbe, AdmitProbe, ProbeAllowed, breaker
  <2>2. ASSUME NEW c \in Callers, Refuse(c) PROVE HalfOpenHasCallOut'
    BY <2>2 DEF Refuse, vars, breaker
  <2>3. ASSUME NEW c \in Callers, Fail(c) PROVE HalfOpenHasCallOut'
    <3>1. CASE state = "HALF_OPEN"
      <4>1. failures >= FailureThreshold
        BY <3>1 DEF ClosedIffBelowThreshold, TypeOK
      <4>2. failures' >= FailureThreshold
        BY <2>3, <4>1 DEF Fail, CountFailure, Trips, TypeOK
      <4> QED
        BY <2>3, <4>2 DEF Fail, Trips, AgeOnTrip
    <3>2. CASE state # "HALF_OPEN"
      BY <2>3, <3>2 DEF Fail, Trips, AgeOnTrip
    <3> QED
      BY <3>1, <3>2
  <2>4. ASSUME NEW c \in Callers, Succeed(c) PROVE HalfOpenHasCallOut'
    BY <2>4 DEF Succeed
  <2>5. CASE Tick
    BY <2>5 DEF Tick
  <2>6. CASE UNCHANGED vars
    BY <2>6 DEF vars, breaker
  <2> QED
    BY <2>1, <2>2, <2>3, <2>4, <2>5, <2>6 DEF Next
<1> QED
  BY <1>1, <1>2, Typing, CountAgrees, PTL DEF Spec

-----------------------------------------------------------------------------
\* While the breaker is open its stamp is never older than the latest failure.
StampIsLatest == state = "OPEN" => elapsed <= sinceFailure

\* The breaker half-opens only after RecoveryTimeout without a failure, because
\* an open breaker stamps every late failure again.
THEOREM QuietBeforeProbe == Spec => ProbeOnlyAfterQuiet
<1> USE BreakerAssumption DEF StampIsLatest
<1>1. Init => StampIsLatest
  BY DEF Init
<1>2. TypeOK /\ ClosedIffBelowThreshold /\ StampIsLatest /\ [Next]_vars => StampIsLatest'
  <2> SUFFICES ASSUME TypeOK, ClosedIffBelowThreshold, StampIsLatest, [Next]_vars
               PROVE StampIsLatest'
    OBVIOUS
  <2> USE DEF TypeOK
  <2>1. ASSUME NEW c \in Callers, Admit(c) PROVE StampIsLatest'
    BY <2>1 DEF Admit, AdmitClosed, AdmitFirstProbe, AdmitProbe, ProbeAllowed, breaker
  <2>2. ASSUME NEW c \in Callers, Refuse(c) PROVE StampIsLatest'
    BY <2>2 DEF Refuse, vars, breaker
  <2>3. ASSUME NEW c \in Callers, Fail(c) PROVE StampIsLatest'
    <3>1. state = "OPEN" => failures' >= FailureThreshold
      BY <2>3 DEF Fail, CountFailure, Trips, ClosedIffBelowThreshold
    <3> QED
      BY <2>3, <3>1 DEF Fail, Trips, AgeOnTrip
  <2>4. ASSUME NEW c \in Callers, Succeed(c) PROVE StampIsLatest'
    BY <2>4 DEF Succeed
  <2>5. CASE Tick
    BY <2>5 DEF Tick, Later
  <2>6. CASE UNCHANGED vars
    BY <2>6 DEF vars, breaker
  <2> QED
    BY <2>1, <2>2, <2>3, <2>4, <2>5, <2>6 DEF Next
<1>3. /\ TypeOK /\ StampIsLatest /\ [Next]_vars
      => [state = "OPEN" /\ state' = "HALF_OPEN" => sinceFailure >= RecoveryTimeout]_vars
  <2> SUFFICES ASSUME TypeOK, StampIsLatest, [Next]_vars,
                      state = "OPEN", state' = "HALF_OPEN"
               PROVE sinceFailure >= RecoveryTimeout
    OBVIOUS
  <2>1. PICK c \in Callers : AdmitFirstProbe(c)
    BY DEF Next, Admit, AdmitClosed, AdmitProbe, Refuse, Fail, Succeed, Tick, vars, breaker
  <2> QED
    BY <2>1 DEF AdmitFirstProbe, TypeOK
<1> QED
  BY <1>1, <1>2, <1>3, Typing, CountAgrees, PTL DEF Spec, ProbeOnlyAfterQuiet
-----------------------------------------------------------------------------
(* The chats through it. *)

\* ResilientChat implements CircuitBreaker: the first request of a chat is its
\* admission, its last outcome the call's outcome, and everything between them
\* leaves the breaker as it is.
THEOREM ChatImplementsBreaker == ChatSpec => ImplementsBreaker
<1>1. ChatInit => Init
  BY DEF ChatInit
<1>2. [ChatNext]_chatVars => [Next]_vars
  <2> SUFFICES ASSUME [ChatNext]_chatVars PROVE [Next]_vars
    OBVIOUS
  <2>1. ASSUME NEW c \in Callers, StartChat(c) \/ RefusedChat(c) PROVE [Next]_vars
    BY <2>1 DEF StartChat, RefusedChat, Next
  <2>2. ASSUME NEW c \in Callers, Respond(c) \/ Exhaust(c) \/ GiveUp(c) PROVE [Next]_vars
    BY <2>2 DEF Respond, Exhaust, GiveUp, Next
  <2>3. ASSUME NEW c \in Callers, BackOff(c) \/ Resend(c) PROVE [Next]_vars
    BY <2>3 DEF BackOff, Resend
  <2>4. CASE TimePasses
    BY <2>4 DEF TimePasses, Next
  <2>5. CASE UNCHANGED chatVars
    BY <2>5 DEF chatVars
  <2> QED
    BY <2>1, <2>2, <2>3, <2>4, <2>5 DEF ChatNext
<1> QED
  BY <1>1, <1>2, PTL DEF ChatSpec, Spec, ImplementsBreaker

\* Through the refinement: with retries inside and any number of tasks, the
\* breaker stays closed exactly below the threshold, half-opens only after a
\* quiet cooldown and then admits at most HalfOpenMaxCalls + 1 chats, of which
\* one is still out.
THEOREM ChatSafety ==
    ChatSpec => /\ []ClosedIffBelowThreshold
                /\ []ProbesBounded
                /\ []HalfOpenHasCallOut
                /\ ProbeOnlyAfterQuiet
BY ChatImplementsBreaker, CountAgrees, ProbeLimit, DecisionPending, QuietBeforeProbe
   DEF ImplementsBreaker

-----------------------------------------------------------------------------
\* A task sleeps only when an attempt is left: what makes the types inductive.
SleepersHaveAttempts == \A c \in Callers : phase[c] = "sleep" => attempt[c] < MaxAttempts

ChatInv == ChatTypeOK /\ SleepersHaveAttempts

\* The invariant of the retry loop is inductive beside the breaker's types.
THEOREM ChatInvariant == ChatSpec => []ChatInv
<1> USE BreakerAssumption, RetryAssumption DEF ChatInv, ChatTypeOK, SleepersHaveAttempts
<1>1. ChatInit => ChatInv
  BY DEF ChatInit, Init, TypeOK
<1>2. ChatInv /\ TypeOK' /\ [ChatNext]_chatVars => ChatInv'
  <2> SUFFICES ASSUME ChatInv, TypeOK', [ChatNext]_chatVars PROVE ChatInv'
    OBVIOUS
  <2>0. openSends \in [Callers -> Nat]
    OBVIOUS
  <2>1. ASSUME NEW c \in Callers, StartChat(c) PROVE ChatInv'
    <3>1. c \notin inCall /\ inCall' = inCall \cup {c}
      BY <2>1 DEF StartChat, Admit, AdmitClosed, AdmitFirstProbe, AdmitProbe
    <3> QED
      BY <2>0, <2>1, <3>1 DEF StartChat, CountSends
  <2>2. ASSUME NEW c \in Callers, RefusedChat(c) PROVE ChatInv'
    <3>1. c \notin inCall /\ inCall' = inCall
      BY <2>2 DEF RefusedChat, Refuse, vars
    <3> QED
      BY <2>2, <3>1 DEF RefusedChat, Leave
  <2>3. ASSUME NEW c \in Callers, Respond(c) \/ Exhaust(c) \/ GiveUp(c) PROVE ChatInv'
    <3>1. inCall' = inCall \ {c}
      BY <2>3 DEF Respond, Exhaust, GiveUp, Succeed, Fail
    <3>2. openSends' \in [Callers -> Nat]
      BY <2>0, <2>3 DEF Respond, Exhaust, GiveUp, CountSends
    <3>3. Leave(c, "response") \/ Leave(c, "None")
      BY <2>3 DEF Respond, Exhaust, GiveUp
    <3> QED
      BY <3>1, <3>2, <3>3 DEF Leave
  <2>4. ASSUME NEW c \in Callers, BackOff(c) PROVE ChatInv'
    BY <2>4 DEF BackOff, vars, breaker
  <2>5. ASSUME NEW c \in Callers, Resend(c) PROVE ChatInv'
    BY <2>0, <2>5 DEF Resend, CountSends, vars, breaker
  <2>6. CASE TimePasses
    BY <2>6 DEF TimePasses, Tick, retry
  <2>7. CASE UNCHANGED chatVars
    BY <2>7 DEF chatVars, vars, breaker, retry
  <2> QED
    BY <2>1, <2>2, <2>3, <2>4, <2>5, <2>6, <2>7 DEF ChatNext
<1> QED
  BY <1>1, <1>2, ChatImplementsBreaker, Typing, PTL DEF ChatSpec, ImplementsBreaker

\* The types of the retry loop, and that a task is inside the breaker exactly
\* while it awaits the adapter or sleeps between attempts.
THEOREM ChatTyping == ChatSpec => []ChatTypeOK
<1>1. ChatInv => ChatTypeOK
  BY DEF ChatInv
<1> QED
  BY <1>1, ChatInvariant, PTL

-----------------------------------------------------------------------------
\* A task that is in a chat has sent an attempt.
SendersHaveAttempts == \A c \in Callers : phase[c] # "idle" => attempt[c] >= 1

\* While the breaker is open a task in its retry loop has sent fewer requests than
\* it has made attempts, since the first attempt was sent before; the task that
\* opened the breaker has left its loop, and none comes in.
SendsInv ==
    /\ SendersHaveAttempts
    /\ state # "OPEN" => \A c \in Callers : openSends[c] = 0
    /\ state = "OPEN" =>
         /\ \A c \in Callers : /\ openSends[c] <= MaxAttempts - 1
                               /\ phase[c] # "idle" => openSends[c] <= attempt[c] - 1
         /\ \E c \in Callers : openSends[c] = 0 /\ phase[c] = "idle"

\* The counts after a step that counts n requests of c.
LEMMA CountsAfter ==
    ASSUME ChatTypeOK, SendsInv, NEW c \in Callers, NEW n \in Nat, CountSends(c, n)
    PROVE  /\ state' # "OPEN" => \A d \in Callers : openSends'[d] = 0
           /\ state' = "OPEN" => /\ openSends'[c] = openSends[c] + n
                                 /\ \A d \in Callers \ {c} : openSends'[d] = openSends[d]
BY DEF CountSends, ChatTypeOK

\* The end of a chat, which may open the breaker: the task that opened it is the
\* one that has left.
LEMMA LeaveKeepsSends ==
    ASSUME ChatTypeOK, SendsInv, NEW c \in Callers, phase[c] # "idle", CountSends(c, 0),
           Leave(c, "response") \/ Leave(c, "None")
    PROVE  SendsInv'
<1>1. /\ phase'[c] = "idle"
      /\ \A d \in Callers \ {c} : phase'[d] = phase[d] /\ attempt'[d] = attempt[d]
  BY DEF Leave, ChatTypeOK
<1>2. \A d \in Callers : openSends[d] \in Nat /\ attempt[d] \in Nat
  BY RetryAssumption DEF ChatTypeOK
<1>3. /\ state' # "OPEN" => \A d \in Callers : openSends'[d] = 0
      /\ state' = "OPEN" => \A d \in Callers : openSends'[d] = openSends[d]
  BY <1>2, CountsAfter
<1>4. SendersHaveAttempts'
  BY <1>1 DEF SendsInv, SendersHaveAttempts
<1>5. CASE state' # "OPEN"
  BY <1>3, <1>4, <1>5 DEF SendsInv
<1>6. CASE state' = "OPEN" /\ state = "OPEN"
  <2>1. \E d \in Callers : openSends'[d] = 0 /\ phase'[d] = "idle"
    BY <1>1, <1>3, <1>6 DEF SendsInv
  <2>2. ASSUME NEW d \in Callers
        PROVE  /\ openSends'[d] <= MaxAttempts - 1
               /\ phase'[d] # "idle" => openSends'[d] <= attempt'[d] - 1
    BY <1>1, <1>3, <1>6 DEF SendsInv
  <2> QED
    BY <1>4, <1>6, <2>1, <2>2 DEF SendsInv
<1>7. CASE state' = "OPEN" /\ state # "OPEN"
  <2>1. \A d \in Callers : openSends'[d] = 0
    BY <1>3, <1>7 DEF SendsInv
  <2>2. \A d \in Callers : phase'[d] # "idle" => attempt'[d] >= 1 /\ attempt'[d] \in Nat
    BY <1>1, <1>2 DEF SendsInv, SendersHaveAttempts
  <2> QED
    BY <1>1, <1>4, <1>7, <2>1, <2>2, RetryAssumption DEF SendsInv
<1> QED
  BY <1>5, <1>6, <1>7

\* A retry counts one attempt and, while the breaker is open, one request.
LEMMA ResendKeepsSends ==
    ASSUME ChatInv, SendsInv, NEW c \in Callers, Resend(c)
    PROVE  SendsInv'
<1>1. /\ phase[c] = "sleep" /\ phase'[c] = "request" /\ attempt'[c] = attempt[c] + 1
      /\ attempt[c] < MaxAttempts
      /\ \A d \in Callers \ {c} : phase'[d] = phase[d] /\ attempt'[d] = attempt[d]
  BY DEF Resend, ChatInv, ChatTypeOK, SleepersHaveAttempts
<1>2. \A d \in Callers : openSends[d] \in Nat /\ attempt[d] \in Nat
  BY RetryAssumption DEF ChatInv, ChatTypeOK
<1>3. state' = state
  BY DEF Resend, vars, breaker
<1>4. SendersHaveAttempts'
  BY <1>1, <1>2 DEF SendsInv, SendersHaveAttempts
<1>5. /\ state # "OPEN" => \A d \in Callers : openSends'[d] = 0
      /\ state = "OPEN" => /\ openSends'[c] = openSends[c] + 1
                           /\ \A d \in Callers \ {c} : openSends'[d] = openSends[d]
  BY <1>3, CountsAfter DEF Resend, ChatInv
<1>6. CASE state # "OPEN"
  BY <1>3, <1>4, <1>5, <1>6 DEF SendsInv
<1>7. CASE state = "OPEN"
  <2>1. \E d \in Callers : openSends'[d] = 0 /\ phase'[d] = "idle"
    BY <1>1, <1>5, <1>7 DEF SendsInv
  <2>2. /\ openSends'[c] <= MaxAttempts - 1
        /\ openSends'[c] <= attempt'[c] - 1
    BY <1>1, <1>2, <1>5, <1>7, RetryAssumption DEF SendsInv
  <2>3. ASSUME NEW d \in Callers, d # c
        PROVE  /\ openSends'[d] <= MaxAttempts - 1
               /\ phase'[d] # "idle" => openSends'[d] <= attempt'[d] - 1
    BY <1>1, <1>5, <1>7, <2>3 DEF SendsInv
  <2> QED
    BY <1>3, <1>4, <1>7, <2>1, <2>2, <2>3 DEF SendsInv
<1> QED
  BY <1>6, <1>7

\* Only calls that leave an open breaker open count requests.
LEMMA SendsStep == ChatInv /\ SendsInv /\ [ChatNext]_chatVars => SendsInv'
<1> SUFFICES ASSUME ChatInv, SendsInv, [ChatNext]_chatVars PROVE SendsInv'
  OBVIOUS
<1>0. ChatTypeOK
  BY DEF ChatInv
<1>1. ASSUME NEW c \in Callers, StartChat(c) PROVE SendsInv'
  <2>1. state' # "OPEN"
    BY <1>1 DEF StartChat, Admit, AdmitClosed, AdmitFirstProbe, AdmitProbe, breaker
  <2>2. \A d \in Callers : openSends'[d] = 0
    BY <1>1, <2>1 DEF StartChat, CountSends
  <2>3. SendersHaveAttempts'
    BY <1>0, <1>1 DEF StartChat, SendsInv, SendersHaveAttempts, ChatTypeOK
  <2> QED
    BY <2>1, <2>2, <2>3 DEF SendsInv
<1>2. ASSUME NEW c \in Callers, RefusedChat(c) PROVE SendsInv'
  <2>1. state' = state /\ openSends' = openSends
    BY <1>2 DEF RefusedChat, Refuse, vars, breaker
  <2>2. /\ phase'[c] = "idle"
        /\ \A d \in Callers \ {c} : phase'[d] = phase[d] /\ attempt'[d] = attempt[d]
    BY <1>0, <1>2 DEF RefusedChat, Leave, ChatTypeOK
  <2>3. SendersHaveAttempts'
    BY <2>2 DEF SendsInv, SendersHaveAttempts
  <2>4. CASE state # "OPEN"
    BY <2>1, <2>3, <2>4 DEF SendsInv
  <2>5. CASE state = "OPEN"
    <3>1. \E d \in Callers : openSends'[d] = 0 /\ phase'[d] = "idle"
      BY <2>1, <2>2, <2>5 DEF SendsInv
    <3>2. \A d \in Callers : /\ openSends'[d] <= MaxAttempts - 1
                             /\ phase'[d] # "idle" => openSends'[d] <= attempt'[d] - 1
      BY <2>1, <2>2, <2>5 DEF SendsInv
    <3> QED
      BY <2>1, <2>3, <2>5, <3>1, <3>2 DEF SendsInv
  <2> QED
    BY <2>4, <2>5
<1>3. ASSUME NEW c \in Callers, Respond(c) \/ Exhaust(c) \/ GiveUp(c) PROVE SendsInv'
  BY <1>0, <1>3, LeaveKeepsSends DEF Respond, Exhaust, GiveUp
<1>4. ASSUME NEW c \in Callers, BackOff(c) PROVE SendsInv'
  <2>1. /\ UNCHANGED <<state, attempt, openSends>>
        /\ phase[c] # "idle" /\ phase'[c] # "idle"
        /\ \A d \in Callers \ {c} : phase'[d] = phase[d]
    BY <1>0, <1>4 DEF BackOff, vars, breaker, ChatTypeOK
  <2>2. \A d \in Callers : phase'[d] = "idle" <=> phase[d] = "idle"
    BY <2>1
  <2> QED
    BY <2>1, <2>2 DEF SendsInv, SendersHaveAttempts
<1>5. ASSUME TimePasses \/ UNCHANGED chatVars PROVE SendsInv'
  <2>1. UNCHANGED <<state, phase, attempt, openSends>>
    BY <1>5 DEF TimePasses, Tick, retry, chatVars, vars, breaker
  <2> QED
    BY <2>1 DEF SendsInv, SendersHaveAttempts
<1> QED
  BY <1>1, <1>2, <1>3, <1>4, <1>5, ResendKeepsSends DEF ChatNext

\* However many tasks share the breaker and however long it stays open, the
\* provider sees at most MaxAttempts - 1 requests of each while it is, and none
\* of the task that opened it.
THEOREM OpenTrafficBounded == ChatSpec => []OpenTraffic
<1>1. ChatInit => SendsInv
  BY DEF ChatInit, Init, SendsInv, SendersHaveAttempts
<1>2. SendsInv => OpenTraffic
  BY DEF SendsInv, OpenTraffic
<1> QED
  BY <1>1, <1>2, SendsStep, ChatInvariant, PTL DEF ChatSpec
=============================================================================
