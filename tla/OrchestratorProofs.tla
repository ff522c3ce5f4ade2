-------------------------- MODULE OrchestratorProofs --------------------------
(***************************************************************************)
(* Safety of the ReAct loop for any number of overlapping runs, any        *)
(* iteration limit and any batches of tool calls.                          *)
(*                                                                         *)
(* A step of the loop touches the variables of one run, the session that   *)
(* is current and its turns.  So the invariant is one predicate per run:   *)
(* OthersKept settles the runs a step leaves alone, once and for all, and  *)
(* every action has a lemma for the run that takes it.                     *)
(***************************************************************************)
EXTENDS Orchestrator, FiniteSetTheorems, TLAPS

\* A run that awaits the model has a session to be recorded in, and fewer
\* replies without calls than requests; the stuck count never runs ahead of
\* those replies; a run given up as stuck has earned it.
RunInv(r) ==
    /\ pc[r] = "chat" => current \in Runs /\ idleReplies[r] < iteration[r]
    /\ pc[r] = "idle" => idleReplies[r] = 0
    /\ stuck[r] <= idleReplies[r]
    /\ outcome[r] = "none" <=> pc[r] # "done"
    /\ outcome[r] = "stuck" => idleReplies[r] >= StuckLimit

OrchInv == OrchTypeOK /\ AnswerOwesNothing /\ \A r \in Runs : RunInv(r)

\* A step that leaves the variables of every run but r alone, and a session
\* current if there was one.
OnlyTouches(r) ==
    /\ current \in Runs => current' \in Runs
    /\ \A q \in Runs \ {r} :
          /\ pc'[q] = pc[q]
          /\ iteration'[q] = iteration[q]
          /\ stuck'[q] = stuck[q]
          /\ outcome'[q] = outcome[q]
          /\ idleReplies'[q] = idleReplies[q]

\* A step that touches one run needs to be looked at for that run only.
LEMMA OthersKept ==
    ASSUME OrchInv, NEW r \in Runs, OnlyTouches(r), OrchTypeOK', RunInv(r)',
           "skipped" \notin lost'
    PROVE  OrchInv'
<1>1. ASSUME NEW q \in Runs, q # r PROVE RunInv(q)'
  <2>1. RunInv(q)
    BY DEF OrchInv
  <2> QED
    BY <1>1, <2>1 DEF RunInv, OnlyTouches
<1>2. \A q \in Runs : RunInv(q)'
  BY <1>1
<1> QED
  BY <1>2 DEF OrchInv, AnswerOwesNothing

\* What a step may record as lost when nothing was skipped.
OtherWays == Ways \ {"skipped"}

\* _flatten_tool_calls returns nothing only for a batch without a known form.
LEMMA FlattenDropsTheRest ==
    ASSUME NEW batch, Flatten(batch) = {}
    PROVE  Usable(batch) = {}
<1>1. batch \subseteq {"named", "input", "nested", "shapeless", "scalar"}
  BY DEF Flatten
<1>2. batch \cap {"named", "nested"} = {}
  <2> SUFFICES ASSUME batch \cap {"named", "nested"} # {} PROVE FALSE
    OBVIOUS
  <2>1. "function" \in Flatten(batch)
    BY DEF Flatten
  <2> QED
    BY <2>1
<1>3. "input" \notin batch
  <2> SUFFICES ASSUME "input" \in batch PROVE FALSE
    OBVIOUS
  <2>1. "bare" \in Flatten(batch)
    BY DEF Flatten
  <2> QED
    BY <2>1
<1> QED
  BY <1>1, <1>2, <1>3 DEF Usable

\* A response taken for one without calls has none that is usable, and what the
\* parser leaves out or the execution loses is recorded as something else.
LEMMA ResponseFacts ==
    ASSUME NEW resp \in Responses
    PROVE  /\ Overlooked(resp) \subseteq OtherWays
           /\ \A calls : Misread(calls) \subseteq OtherWays
           /\ IsFinal(resp) \/ Calls(resp) = {} => Skipped(resp) = {}
<1>1. Overlooked(resp) \subseteq OtherWays
  BY DEF Overlooked, OtherWays, Ways
<1>2. ASSUME NEW calls PROVE Misread(calls) \subseteq OtherWays
  BY DEF Misread, OtherWays, Ways
<1>3. ASSUME IsFinal(resp) \/ Calls(resp) = {} PROVE Skipped(resp) = {}
  <2>1. CASE resp.content = "plain"
    BY <2>1 DEF Skipped
  <2>2. CASE resp.content = "object"
    <3>1. Flatten(ApiOrEmbedded(resp)) = {}
      BY <1>3, <2>2 DEF IsFinal, Calls
    <3>2. Usable(ApiOrEmbedded(resp)) = {}
      BY <3>1, FlattenDropsTheRest
    <3> QED
      BY <3>2 DEF Skipped
  <2>3. CASE resp.content = "empty"
    <3>1. resp.api = {}
      BY <1>3, <2>3 DEF IsFinal, Calls
    <3>2. resp.embedded = {}
      BY <2>3 DEF Responses
    <3>3. Usable(ApiOrEmbedded(resp)) = {}
      BY <3>1, <3>2 DEF ApiOrEmbedded, Usable
    <3> QED
      BY <3>3 DEF Skipped
  <2> QED
    BY <2>1, <2>2, <2>3 DEF Responses
<1> QED
  BY <1>1, <1>2, <1>3

-----------------------------------------------------------------------------
(* The ways a step leaves the loop or goes on with it. *)

\* The run is done and its end recorded; nothing else of the loop changes.
Leaves(r, how) ==
    /\ pc' \in [Runs -> {"idle", "chat", "done"}]
    /\ outcome' \in [Runs -> {"none", "answer", "sorry", "stuck", "cap", "crash"}]
    /\ turns' \in [Runs -> SUBSET Runs]
    /\ pc'[r] = "done" /\ outcome'[r] = how
    /\ \A q \in Runs \ {r} : pc'[q] = pc[q] /\ outcome'[q] = outcome[q]
    /\ UNCHANGED <<current, iteration>>

\* Return ends the run and keeps the types of what it writes.
LEMMA ReturnLeaves ==
    ASSUME OrchTypeOK, NEW r \in Runs, current \in Runs,
           NEW how \in {"answer", "sorry", "stuck", "cap"}, Return(r, how)
    PROVE  Leaves(r, how)
<1>1. /\ pc \in [Runs -> {"idle", "chat", "done"}]
      /\ outcome \in [Runs -> {"none", "answer", "sorry", "stuck", "cap", "crash"}]
      /\ turns \in [Runs -> SUBSET Runs]
  BY DEF OrchTypeOK
<1>2. turns' \in [Runs -> SUBSET Runs]
  <2>1. turns[current] \cup {r} \in SUBSET Runs
    BY <1>1
  <2> QED
    BY <1>1, <2>1 DEF Return, RecordTurn
<1> QED
  BY <1>1, <1>2 DEF Return, Leaves

\* So does Crash.
LEMMA CrashLeaves ==
    ASSUME OrchTypeOK, NEW r \in Runs, Crash(r)
    PROVE  Leaves(r, "crash")
<1>1. /\ pc \in [Runs -> {"idle", "chat", "done"}]
      /\ outcome \in [Runs -> {"none", "answer", "sorry", "stuck", "cap", "crash"}]
      /\ turns \in [Runs -> SUBSET Runs]
  BY DEF OrchTypeOK
<1> QED
  BY <1>1 DEF Crash, Leaves

\* One more request, within the limit; the run stays in the loop.
GoesOn(r) ==
    /\ iteration' \in [Runs -> 0 .. MaxToolIterations]
    /\ iteration'[r] = iteration[r] + 1
    /\ \A q \in Runs \ {r} : iteration'[q] = iteration[q]
    /\ orchState' = "PLANNING"
    /\ UNCHANGED <<current, turns, pc, outcome>>

\* The count of requests stays within the limit when one more goes out.
LEMMA AskGoesOn ==
    ASSUME OrchTypeOK, NEW r \in Runs, AskAgain(r)
    PROVE  GoesOn(r)
<1>1. iteration \in [Runs -> 0 .. MaxToolIterations]
  BY DEF OrchTypeOK
<1>2. iteration[r] + 1 \in 0 .. MaxToolIterations
  BY <1>1, OrchAssumption DEF AskAgain
<1> QED
  BY <1>1, <1>2 DEF AskAgain, GoesOn

\* What an awaiting run's invariant says.
LEMMA Awaiting ==
    ASSUME OrchInv, NEW r \in Runs, pc[r] = "chat"
    PROVE  /\ current \in Runs /\ idleReplies[r] < iteration[r]
           /\ stuck[r] <= idleReplies[r] /\ outcome[r] = "none"
           /\ iteration[r] \in Nat /\ iteration[r] <= MaxToolIterations
           /\ idleReplies[r] \in Nat
           /\ stuck[r] \in Nat
<1>1. RunInv(r) /\ OrchTypeOK
  BY DEF OrchInv
<1>2. /\ iteration[r] \in 0 .. MaxToolIterations
      /\ idleReplies[r] \in 0 .. MaxToolIterations
      /\ stuck[r] \in 0 .. 2
  BY <1>1 DEF OrchTypeOK
<1>3. /\ current \in Runs /\ idleReplies[r] < iteration[r]
      /\ stuck[r] <= idleReplies[r] /\ outcome[r] = "none"
  BY <1>1 DEF RunInv
<1> QED
  BY <1>2, <1>3, OrchAssumption

\* ResetStuck keeps the type of the stuck counts.
LEMMA StuckReset ==
    ASSUME OrchTypeOK, NEW r \in Runs, stuck' = [stuck EXCEPT ![r] = 0]
    PROVE  /\ stuck' \in [Runs -> 0 .. 2] /\ stuck'[r] = 0
           /\ \A q \in Runs \ {r} : stuck'[q] = stuck[q]
<1>1. stuck \in [Runs -> 0 .. 2]
  BY DEF OrchTypeOK
<1>2. 0 \in 0 .. 2
  OBVIOUS
<1> QED
  BY <1>1, <1>2

\* A reply without calls leaves the run awaiting or ending, one reply further.
LEMMA NoCallsFacts ==
    ASSUME OrchInv, NEW r \in Runs, NEW resp \in Responses, NoCalls(r, resp)
    PROVE  /\ OrchTypeOK /\ pc[r] = "chat"
           /\ idleReplies' \in [Runs -> 0 .. MaxToolIterations]
           /\ idleReplies'[r] = idleReplies[r] + 1
           /\ \A q \in Runs \ {r} : idleReplies'[q] = idleReplies[q]
           /\ lost' \subseteq OtherWays
           /\ UNCHANGED resultSeen
<1>1. /\ idleReplies \in [Runs -> 0 .. MaxToolIterations]
      /\ OrchTypeOK /\ pc[r] = "chat"
  BY DEF OrchInv, OrchTypeOK, NoCalls
<1>2. idleReplies[r] + 1 \in 0 .. MaxToolIterations
  <2>1. /\ idleReplies[r] < iteration[r] /\ iteration[r] <= MaxToolIterations
        /\ iteration[r] \in Nat /\ idleReplies[r] \in Nat
    BY <1>1, Awaiting
  <2>2. MaxToolIterations \in Nat
    BY OrchAssumption
  <2> QED
    BY <2>1, <2>2
<1>3. /\ idleReplies' = [idleReplies EXCEPT ![r] = @ + 1]
      /\ lost' = Overlooked(resp) \cup Skipped(resp)
      /\ Calls(resp) = {}
      /\ UNCHANGED resultSeen
  BY DEF NoCalls
<1>4. lost' \subseteq OtherWays
  BY <1>3, ResponseFacts
<1> QED
  BY <1>1, <1>2, <1>3, <1>4

-----------------------------------------------------------------------------
(* One lemma per action. *)

\* The first request of run() keeps the invariant.
LEMMA BeginStep ==
    ASSUME OrchInv, NEW r \in Runs, Begin(r)
    PROVE  OrchInv'
<1>1. OrchTypeOK /\ RunInv(r)
  BY DEF OrchInv
<1>2. /\ pc' \in [Runs -> {"idle", "chat", "done"}] /\ pc'[r] = "chat"
      /\ \A q \in Runs \ {r} : pc'[q] = pc[q]
  BY <1>1 DEF OrchTypeOK, Begin
<1>3. /\ iteration' \in [Runs -> 0 .. MaxToolIterations] /\ iteration'[r] = 1
      /\ \A q \in Runs \ {r} : iteration'[q] = iteration[q]
  <2>1. /\ iteration \in [Runs -> 0 .. MaxToolIterations]
        /\ iteration' = [iteration EXCEPT ![r] = 1]
    BY <1>1 DEF OrchTypeOK, Begin
  <2>2. 1 \in 0 .. MaxToolIterations
    BY OrchAssumption
  <2> QED
    BY <2>1, <2>2
<1>4. resultSeen' \in [Runs -> BOOLEAN]
  <2>1. PICK seen \in BOOLEAN : resultSeen' = [resultSeen EXCEPT ![r] = seen]
    BY DEF Begin
  <2> QED
    BY <1>1, <2>1 DEF OrchTypeOK
<1>5. /\ UNCHANGED <<turns, stuck, outcome, idleReplies>> /\ lost' = {}
      /\ current' = r /\ orchState' = "PLANNING" /\ pc[r] = "idle"
  BY DEF Begin
<1>6. OrchTypeOK'
  BY <1>1, <1>2, <1>3, <1>4, <1>5 DEF OrchTypeOK
<1>7. OnlyTouches(r)
  BY <1>2, <1>3, <1>5 DEF OnlyTouches
<1>8. RunInv(r)'
  <2>1. outcome'[r] = "none" /\ idleReplies'[r] = 0 /\ stuck'[r] <= 0
    BY <1>1, <1>5 DEF RunInv
  <2> QED
    BY <1>2, <1>3, <1>5, <2>1 DEF RunInv
<1> QED
  BY <1>5, <1>6, <1>7, <1>8, OthersKept

\* A chat without an answer and a failed debug file keep the invariant.
LEMMA LeaveStep ==
    ASSUME OrchInv, NEW r \in Runs, NoAnswer(r) \/ DebugFails(r)
    PROVE  OrchInv'
<1>1. OrchTypeOK /\ pc[r] = "chat"
  BY DEF OrchInv, NoAnswer, DebugFails
<1>2. PICK how \in {"sorry", "crash"} : Leaves(r, how)
  BY <1>1, Awaiting, ReturnLeaves, CrashLeaves DEF NoAnswer, DebugFails
<1>3. UNCHANGED <<orchState, stuck, resultSeen, idleReplies>> /\ lost' = {}
  BY DEF NoAnswer, DebugFails
<1>4. OrchTypeOK'
  BY <1>1, <1>2, <1>3 DEF OrchTypeOK, Leaves
<1>5. OnlyTouches(r)
  BY <1>2, <1>3 DEF OnlyTouches, Leaves
<1>6. RunInv(r)'
  BY <1>1, <1>2, <1>3, Awaiting DEF RunInv, Leaves
<1> QED
  BY <1>3, <1>4, <1>5, <1>6, OthersKept

\* An answer keeps the invariant: it skips no calls.
LEMMA FinalStep ==
    ASSUME OrchInv, NEW r \in Runs, NEW resp \in Responses, Final(r, resp)
    PROVE  OrchInv'
<1>1. OrchTypeOK /\ pc[r] = "chat" /\ IsFinal(resp)
  BY DEF OrchInv, Final
<1>2. Leaves(r, "answer")
  BY <1>1, Awaiting, ReturnLeaves DEF Final
<1>3. /\ stuck' \in [Runs -> 0 .. 2] /\ stuck'[r] = 0
      /\ \A q \in Runs \ {r} : stuck'[q] = stuck[q]
  BY <1>1, StuckReset DEF Final
<1>4. lost' \subseteq OtherWays
  BY <1>1, ResponseFacts DEF Final
<1>5. UNCHANGED <<orchState, resultSeen, idleReplies>>
  BY DEF Final
<1>6. OrchTypeOK'
  BY <1>1, <1>2, <1>3, <1>4, <1>5 DEF OrchTypeOK, Leaves, OtherWays
<1>7. OnlyTouches(r)
  BY <1>2, <1>3, <1>5 DEF OnlyTouches, Leaves
<1>8. RunInv(r)'
  BY <1>1, <1>2, <1>3, <1>5, Awaiting DEF RunInv, Leaves
<1>9. "skipped" \notin lost'
  BY <1>4 DEF OtherWays
<1> QED
  BY <1>6, <1>7, <1>8, <1>9, OthersKept

\* Giving up keeps the invariant: two replies were counted before.
LEMMA StuckStep ==
    ASSUME OrchInv, NEW r \in Runs, NEW resp \in Responses, GiveUpStuck(r, resp)
    PROVE  OrchInv'
<1>1. NoCalls(r, resp) /\ UNCHANGED <<orchState, stuck>> /\ stuck[r] + 1 >= StuckLimit
  BY DEF GiveUpStuck
<1>2. Leaves(r, "stuck")
  BY <1>1, Awaiting, NoCallsFacts, ReturnLeaves DEF GiveUpStuck
<1>3. OrchTypeOK' /\ "skipped" \notin lost'
  BY <1>1, <1>2, NoCallsFacts DEF OrchTypeOK, Leaves, OtherWays
<1>4. OnlyTouches(r)
  BY <1>1, <1>2, NoCallsFacts DEF OnlyTouches, Leaves
<1>5. RunInv(r)'
  <2>1. idleReplies'[r] >= StuckLimit /\ stuck'[r] <= idleReplies'[r]
    <3>1. /\ stuck[r] <= idleReplies[r] /\ stuck[r] \in Nat /\ idleReplies[r] \in Nat
          /\ idleReplies'[r] = idleReplies[r] + 1
      BY <1>1, NoCallsFacts, Awaiting
    <3> QED
      BY <1>1, <3>1 DEF StuckLimit
  <2> QED
    BY <1>2, <2>1 DEF RunInv, Leaves
<1> QED
  BY <1>3, <1>4, <1>5, OthersKept

\* Asking again for calls keeps the invariant.
LEMMA RepromptStep ==
    ASSUME OrchInv, NEW r \in Runs, NEW resp \in Responses, Reprompt(r, resp)
    PROVE  OrchInv'
<1>1. NoCalls(r, resp)
  BY DEF Reprompt
<1>2. /\ stuck' \in [Runs -> 0 .. 2] /\ stuck'[r] <= stuck[r] + 1
      /\ \A q \in Runs \ {r} : stuck'[q] = stuck[q]
  <2>1. stuck \in [Runs -> 0 .. 2]
    BY DEF OrchInv, OrchTypeOK
  <2>2. CASE UNCHANGED stuck
    BY <2>1, <2>2
  <2>3. CASE stuck[r] + 1 < StuckLimit /\ stuck' = [stuck EXCEPT ![r] = @ + 1]
    <3>1. stuck[r] + 1 \in 0 .. 2
      BY <2>1, <2>3 DEF StuckLimit
    <3> QED
      BY <2>1, <2>3, <3>1
  <2> QED
    BY <2>2, <2>3 DEF Reprompt
<1>3. stuck'[r] <= idleReplies'[r]
  <2>1. /\ stuck[r] <= idleReplies[r] /\ stuck[r] \in Nat /\ idleReplies[r] \in Nat
        /\ idleReplies'[r] = idleReplies[r] + 1
    BY <1>1, NoCallsFacts, Awaiting
  <2>2. stuck'[r] \in 0 .. 2
    BY <1>2
  <2> QED
    BY <1>2, <2>1, <2>2
<1>4. CASE AskAgain(r)
  <2>1. GoesOn(r)
    BY <1>1, <1>4, NoCallsFacts, AskGoesOn
  <2>2. OrchTypeOK' /\ "skipped" \notin lost'
    BY <1>1, <1>2, <2>1, NoCallsFacts DEF OrchTypeOK, GoesOn, OtherWays
  <2>3. OnlyTouches(r)
    BY <1>1, <1>2, <2>1, NoCallsFacts DEF OnlyTouches, GoesOn
  <2>4. RunInv(r)'
    <3>1. /\ idleReplies[r] < iteration[r] /\ outcome[r] = "none" /\ pc[r] = "chat"
          /\ iteration[r] \in Nat /\ idleReplies[r] \in Nat /\ current \in Runs
          /\ idleReplies'[r] = idleReplies[r] + 1
      BY <1>1, NoCallsFacts, Awaiting
    <3>2. /\ iteration'[r] = iteration[r] + 1
          /\ current' \in Runs /\ outcome'[r] = "none" /\ pc'[r] = "chat"
      BY <2>1, <3>1 DEF GoesOn
    <3>3. idleReplies'[r] < iteration'[r]
      BY <3>1, <3>2
    <3> QED
      BY <1>3, <3>2, <3>3 DEF RunInv
  <2> QED
    BY <2>2, <2>3, <2>4, OthersKept
<1>5. CASE Return(r, "cap") /\ UNCHANGED orchState
  <2>1. Leaves(r, "cap")
    BY <1>1, <1>5, Awaiting, NoCallsFacts, ReturnLeaves
  <2>2. OrchTypeOK' /\ "skipped" \notin lost'
    BY <1>1, <1>2, <1>5, <2>1, NoCallsFacts DEF OrchTypeOK, Leaves, OtherWays
  <2>3. OnlyTouches(r)
    BY <1>1, <1>2, <2>1, NoCallsFacts DEF OnlyTouches, Leaves
  <2>4. RunInv(r)'
    BY <1>3, <2>1 DEF RunInv, Leaves
  <2> QED
    BY <2>2, <2>3, <2>4, OthersKept
<1> QED
  BY <1>4, <1>5 DEF Reprompt

\* A call that raises keeps the invariant.
LEMMA BrokenStep ==
    ASSUME OrchInv, NEW r \in Runs, NEW resp \in Responses, BrokenCall(r, resp)
    PROVE  OrchInv'
<1>1. OrchTypeOK /\ pc[r] = "chat"
  BY DEF OrchInv, BrokenCall
<1>2. Leaves(r, "crash")
  BY <1>1, CrashLeaves DEF BrokenCall
<1>3. /\ stuck' \in [Runs -> 0 .. 2] /\ stuck'[r] = 0
      /\ \A q \in Runs \ {r} : stuck'[q] = stuck[q]
  BY <1>1, StuckReset DEF BrokenCall
<1>4. lost' \subseteq OtherWays
  <2>1. PICK ran, left \in SUBSET (Calls(resp) \ Breaking) :
            lost' = Overlooked(resp) \cup Misread(ran)
                      \cup {w \in {"broken"} : left \ {"stranger", "shapeless"} # {}}
    BY DEF BrokenCall
  <2>2. "broken" \in OtherWays
    BY DEF OtherWays, Ways
  <2> QED
    BY <2>1, <2>2, ResponseFacts
<1>5. UNCHANGED <<resultSeen, idleReplies>> /\ orchState' = "EXECUTING"
  BY DEF BrokenCall
<1>6. OrchTypeOK' /\ "skipped" \notin lost'
  BY <1>1, <1>2, <1>3, <1>4, <1>5 DEF OrchTypeOK, Leaves, OtherWays
<1>7. OnlyTouches(r)
  BY <1>2, <1>3, <1>5 DEF OnlyTouches, Leaves
<1>8. RunInv(r)'
  BY <1>1, <1>2, <1>3, <1>5, Awaiting DEF RunInv, Leaves
<1> QED
  BY <1>6, <1>7, <1>8, OthersKept

\* Executing the calls keeps the invariant: both counts start again at 0.
LEMMA ToolsStep ==
    ASSUME OrchInv, NEW r \in Runs, NEW resp \in Responses, RunTools(r, resp)
    PROVE  OrchInv'
<1>1. OrchTypeOK /\ pc[r] = "chat"
  BY DEF OrchInv, RunTools
<1>2. /\ stuck' \in [Runs -> 0 .. 2] /\ stuck'[r] = 0
      /\ \A q \in Runs \ {r} : stuck'[q] = stuck[q]
  BY <1>1, StuckReset DEF RunTools, ResetStuck
<1>3. lost' \subseteq OtherWays
  BY ResponseFacts DEF RunTools
<1>4. /\ idleReplies' \in [Runs -> 0 .. MaxToolIterations] /\ idleReplies'[r] = 0
      /\ \A q \in Runs \ {r} : idleReplies'[q] = idleReplies[q]
  <2>1. /\ idleReplies \in [Runs -> 0 .. MaxToolIterations]
        /\ idleReplies' = [idleReplies EXCEPT ![r] = 0]
    BY <1>1 DEF OrchTypeOK, RunTools
  <2>2. 0 \in 0 .. MaxToolIterations
    BY OrchAssumption
  <2> QED
    BY <2>1, <2>2
<1>5. resultSeen' \in [Runs -> BOOLEAN]
  <2>1. PICK hit \in BOOLEAN : resultSeen' = [resultSeen EXCEPT ![r] = @ \/ hit]
    BY DEF RunTools
  <2>2. resultSeen \in [Runs -> BOOLEAN]
    BY <1>1 DEF OrchTypeOK
  <2> QED
    BY <2>1, <2>2
<1>6. CASE AskAgain(r)
  <2>1. GoesOn(r)
    BY <1>1, <1>6, AskGoesOn
  <2>2. OrchTypeOK' /\ "skipped" \notin lost'
    BY <1>1, <1>2, <1>3, <1>4, <1>5, <2>1 DEF OrchTypeOK, GoesOn, OtherWays
  <2>3. OnlyTouches(r)
    BY <1>2, <1>4, <2>1 DEF OnlyTouches, GoesOn
  <2>4. RunInv(r)'
    <3>1. outcome[r] = "none" /\ current \in Runs /\ iteration[r] \in Nat
      BY <1>1, Awaiting
    <3>2. /\ iteration'[r] = iteration[r] + 1
          /\ current' \in Runs /\ outcome'[r] = "none" /\ pc'[r] = "chat"
      BY <1>1, <2>1, <3>1 DEF GoesOn
    <3>3. idleReplies'[r] < iteration'[r] /\ stuck'[r] <= idleReplies'[r]
      BY <1>2, <1>4, <3>1, <3>2
    <3> QED
      BY <3>2, <3>3 DEF RunInv
  <2> QED
    BY <2>2, <2>3, <2>4, OthersKept
<1>7. CASE orchState' = "EXECUTING" /\ Return(r, "cap")
  <2>1. Leaves(r, "cap")
    BY <1>1, <1>7, Awaiting, ReturnLeaves
  <2>2. OrchTypeOK' /\ "skipped" \notin lost'
    BY <1>1, <1>2, <1>3, <1>4, <1>5, <1>7, <2>1 DEF OrchTypeOK, Leaves, OtherWays
  <2>3. OnlyTouches(r)
    BY <1>2, <1>4, <2>1 DEF OnlyTouches, Leaves
  <2>4. RunInv(r)'
    <3>1. stuck'[r] <= idleReplies'[r]
      BY <1>2, <1>4
    <3> QED
      BY <2>1, <3>1 DEF RunInv, Leaves
  <2> QED
    BY <2>2, <2>3, <2>4, OthersKept
<1> QED
  BY <1>6, <1>7 DEF RunTools

\* The invariant is inductive.
LEMMA OrchInductive == OrchInv /\ [Next]_vars => OrchInv'
<1> SUFFICES ASSUME OrchInv, [Next]_vars PROVE OrchInv'
  OBVIOUS
<1>1. CASE UNCHANGED vars
  BY <1>1 DEF vars, shared, loop, history, OrchInv, OrchTypeOK, AnswerOwesNothing, RunInv
<1>2. ASSUME NEW r \in Runs, NEW resp \in Responses, Answer(r, resp) PROVE OrchInv'
  BY <1>2, FinalStep, StuckStep, RepromptStep, ToolsStep, BrokenStep DEF Answer
<1>3. CASE Next
  BY <1>2, <1>3, BeginStep, LeaveStep DEF Next
<1> QED
  BY <1>1, <1>3

\* The invariant holds at the start.
LEMMA OrchInitially == Init => OrchInv
<1> SUFFICES ASSUME Init PROVE OrchInv
  OBVIOUS
<1>1. 0 \in 0 .. MaxToolIterations /\ 0 \in 0 .. 2
  BY OrchAssumption
<1>2. OrchTypeOK
  BY <1>1 DEF Init, OrchTypeOK
<1>3. AnswerOwesNothing /\ \A r \in Runs : RunInv(r)
  BY DEF Init, RunInv, AnswerOwesNothing
<1> QED
  BY <1>2, <1>3 DEF OrchInv

\* The invariant holds of every state the loop reaches, for all runs.
THEOREM OrchInvariant == Spec => []OrchInv
BY OrchInitially, OrchInductive, PTL DEF Spec

\* Every variable keeps its type: iterations and the stuck count are bounded.
THEOREM OrchTyping == Spec => []OrchTypeOK
<1>1. OrchInv => OrchTypeOK
  BY DEF OrchInv
<1> QED
  BY <1>1, OrchInvariant, PTL

\* Whatever calls a structured response brings, and in whatever forms: those in a
\* form _flatten_tool_calls knows are executed, and the response is never taken for
\* one without calls.
THEOREM CallsBeforeAnswer == Spec => []AnswerOwesNothing
<1>1. OrchInv => AnswerOwesNothing
  BY DEF OrchInv
<1> QED
  BY <1>1, OrchInvariant, PTL

\* A run is given up as stuck only after three replies without calls in a row.
THEOREM StuckIsEarned == Spec => []GivesUpOnlyWhenStuck
<1>1. OrchInv => GivesUpOnlyWhenStuck
  BY DEF OrchInv, RunInv, GivesUpOnlyWhenStuck
<1> QED
  BY <1>1, OrchInvariant, PTL
-----------------------------------------------------------------------------
(* Which sessions a run is recorded in. *)

RecordedIn(r) == {s \in Runs : r \in turns[s]}

RecordInv ==
    \A r \in Runs :
        IF pc[r] = "done" /\ outcome[r] # "crash"
        THEN \E s \in Runs : RecordedIn(r) = {s}
        ELSE RecordedIn(r) = {}

\* A run that is recorded had no session and gets one; a step that records
\* nothing and lets nothing end changes nothing.
LEMMA ReturnRecords ==
    ASSUME OrchInv, RecordInv, NEW r \in Runs, pc[r] = "chat",
           NEW how \in {"answer", "sorry", "stuck", "cap"}, Return(r, how)
    PROVE  RecordInv'
<1>1. OrchTypeOK /\ current \in Runs
  BY Awaiting DEF OrchInv
<1>2. Leaves(r, how)
  BY <1>1, ReturnLeaves
<1>3. turns \in [Runs -> SUBSET Runs] /\ turns' = [turns EXCEPT ![current] = @ \cup {r}]
  BY <1>1 DEF OrchTypeOK, Return, RecordTurn
<1>4. RecordedIn(r)' = {current}
  <2>1. RecordedIn(r) = {}
    BY DEF RecordInv
  <2> QED
    BY <1>1, <1>3, <2>1 DEF RecordedIn
<1>5. ASSUME NEW q \in Runs, q # r
      PROVE  RecordedIn(q)' = RecordedIn(q) /\ pc'[q] = pc[q] /\ outcome'[q] = outcome[q]
  BY <1>1, <1>2, <1>3, <1>5 DEF RecordedIn, Leaves
<1>6. pc'[r] = "done" /\ outcome'[r] # "crash"
  BY <1>2 DEF Leaves
<1> QED
  BY <1>1, <1>4, <1>5, <1>6 DEF RecordInv

\* A run that is neither recorded nor moved keeps its place in the sessions.
LEMMA OthersRecord ==
    ASSUME RecordInv, NEW r \in Runs, pc[r] # "done", UNCHANGED turns,
           pc'[r] # "done" \/ outcome'[r] = "crash",
           \A q \in Runs \ {r} : pc'[q] = pc[q] /\ outcome'[q] = outcome[q]
    PROVE  RecordInv'
<1>1. \A q \in Runs : RecordedIn(q)' = RecordedIn(q)
  BY DEF RecordedIn
<1>2. RecordedIn(r) = {}
  BY DEF RecordInv
<1> QED
  BY <1>1, <1>2 DEF RecordInv

\* Every step records the run it ends once, in the session current then, or
\* not at all when it raises.
LEMMA RecordStep == OrchInv /\ RecordInv /\ [Next]_vars => RecordInv'
<1> SUFFICES ASSUME OrchInv, RecordInv, [Next]_vars PROVE RecordInv'
  OBVIOUS
<1>0. OrchTypeOK
  BY DEF OrchInv
<1>1. CASE UNCHANGED vars
  BY <1>1 DEF vars, shared, loop, RecordInv, RecordedIn
<1>2. ASSUME NEW r \in Runs, Begin(r) PROVE RecordInv'
  <2>1. /\ pc[r] # "done" /\ UNCHANGED <<turns, outcome>> /\ pc'[r] # "done"
        /\ \A q \in Runs \ {r} : pc'[q] = pc[q]
    BY <1>0, <1>2 DEF OrchTypeOK, Begin
  <2> QED
    BY <2>1, OthersRecord
<1>3. ASSUME NEW r \in Runs, pc[r] = "chat", Crash(r) PROVE RecordInv'
  <2>1. Leaves(r, "crash") /\ UNCHANGED turns
    BY <1>0, <1>3, CrashLeaves DEF Crash
  <2> QED
    BY <1>3, <2>1, OthersRecord DEF Leaves
<1>4. ASSUME NEW r \in Runs, pc[r] = "chat", AskAgain(r) PROVE RecordInv'
  BY <1>4, OthersRecord DEF AskAgain
<1>5. ASSUME NEW r \in Runs, NEW resp \in Responses, Answer(r, resp) PROVE RecordInv'
  <2>1. pc[r] = "chat"
    BY <1>5 DEF Answer, Final, GiveUpStuck, Reprompt, NoCalls, RunTools, BrokenCall
  <2>2. \/ \E how \in {"answer", "sorry", "stuck", "cap"} : Return(r, how)
        \/ AskAgain(r)
        \/ Crash(r)
    BY <1>5 DEF Answer, Final, GiveUpStuck, Reprompt, RunTools, BrokenCall
  <2> QED
    BY <1>3, <1>4, <2>1, <2>2, ReturnRecords
<1>6. ASSUME NEW r \in Runs, NoAnswer(r) \/ DebugFails(r) PROVE RecordInv'
  BY <1>3, <1>6, ReturnRecords DEF NoAnswer, DebugFails
<1>7. CASE Next
  BY <1>2, <1>5, <1>6, <1>7 DEF Next
<1> QED
  BY <1>1, <1>7

\* Whatever runs overlap, a run that returns is a turn of exactly one session
\* and a run that raises of none.
THEOREM RecordedOnce == Spec => []TurnRecordedOnce
<1>1. Init => RecordInv
  BY DEF Init, RecordInv, RecordedIn
<1>2. RecordInv => TurnRecordedOnce
  <2> SUFFICES ASSUME RecordInv, NEW r \in Runs
               PROVE  Cardinality(RecordedIn(r))
                          = IF pc[r] = "done" /\ outcome[r] # "crash" THEN 1 ELSE 0
    BY DEF TurnRecordedOnce, RecordedIn
  <2>1. CASE pc[r] = "done" /\ outcome[r] # "crash"
    BY <2>1, FS_Singleton DEF RecordInv
  <2>2. CASE ~(pc[r] = "done" /\ outcome[r] # "crash")
    BY <2>2, FS_EmptySet DEF RecordInv
  <2> QED
    BY <2>1, <2>2
<1> QED
  BY <1>1, <1>2, RecordStep, OrchInvariant, PTL DEF Spec

=============================================================================
