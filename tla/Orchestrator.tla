----------------------------- MODULE Orchestrator -----------------------------
(***************************************************************************)
(* core/orchestrator/core.py: the ReAct loop of one Orchestrator object on *)
(* which several run() coroutines may be live at once (the TUI starts one  *)
(* per submitted task).  Tool handlers are synchronous, so the only point  *)
(* where runs interleave is the await of _resilient_chat: everything from  *)
(* one answer of the model to the next request is one atomic step.         *)
(*                                                                         *)
(* A tool call is abstracted to its shape:                                 *)
(*   "function"    the OpenAI schema, of a registered tool                 *)
(*   "unreadable"  the same, its arguments a string that is no JSON        *)
(*   "stranger"    the same, of a tool nobody registered                   *)
(*   "broken"      its "function" entry is not an object                   *)
(*   "named"       {"name", "args"}                                        *)
(*   "input"       {"name", "input"}, as core/adapters/anthropic.py has it *)
(*   "nested"      {"tool_calls": [a call in the OpenAI schema]}           *)
(*   "shapeless"   an object with none of these entries                    *)
(*   "scalar"      no object; a tool_calls that is no list acts like these *)
(*   "bare"        made of "input" by _flatten_tool_calls: the schema, but *)
(*                 without the arguments                                   *)
(***************************************************************************)
EXTENDS Integers, FiniteSets

CONSTANTS Runs,               \* run() coroutines over the life of the object
          MaxToolIterations,  \* MAX_TOOL_ITERATIONS
          ApiBatches,         \* the shapes in the adapter's ChatResponse.tool_calls
          EmbeddedBatches,    \* the shapes in the tool_calls of a JSON content
          NoRun               \* _current_session is None

ASSUME OrchAssumption ==
    /\ MaxToolIterations \in Nat \ {0}
    /\ ApiBatches \cup EmbeddedBatches \subseteq
           SUBSET {"function", "unreadable", "stranger", "broken", "named", "input",
                   "nested", "shapeless", "scalar"}
    /\ NoRun \notin Runs

VARIABLES orchState,   \* _state
          current,     \* _current_session, named by the run that created it
          turns,       \* session.turns: for each session the runs recorded in it
          pc,          \* idle, chat (awaiting the model) or done
          iteration,   \* requests made in the loop
          stuck,       \* consecutive_non_tool_responses
          resultSeen,  \* some user message of the run contains "Result:"
          outcome,     \* how the run ended
          lost,        \* history: how the last step lost calls
          idleReplies  \* history: responses without calls since the last tool results

shared  == <<orchState, current, turns>>
loop    == <<pc, iteration, stuck, resultSeen, outcome>>
history == <<lost, idleReplies>>
vars    == <<shared, loop, history>>

\* content: absent, text that is no JSON object, or an object with its
\* is_final_result and its own calls; api: the calls beside the content.
Responses ==
    [content : {"empty", "plain"}, final : {FALSE}, embedded : {{}}, api : ApiBatches]
        \cup
    [content : {"object"}, final : BOOLEAN, embedded : EmbeddedBatches, api : ApiBatches]

\* How calls of a response do not reach their tools as they were asked for.
Ways == {"text", "beside", "skipped", "shape", "arguments", "broken"}

OrchTypeOK ==
    /\ orchState \in {"IDLE", "PLANNING", "EXECUTING"}
    /\ current \in Runs \cup {NoRun}
    /\ turns \in [Runs -> SUBSET Runs]
    /\ pc \in [Runs -> {"idle", "chat", "done"}]
    /\ iteration \in [Runs -> 0 .. MaxToolIterations]
    /\ stuck \in [Runs -> 0 .. 2]
    /\ resultSeen \in [Runs -> BOOLEAN]
    /\ outcome \in [Runs -> {"none", "answer", "sorry", "stuck", "cap", "crash"}]
    /\ lost \subseteq Ways
    /\ idleReplies \in [Runs -> 0 .. MaxToolIterations]

Init ==
    /\ orchState = "IDLE"
    /\ current = NoRun
    /\ turns = [r \in Runs |-> {}]
    /\ pc = [r \in Runs |-> "idle"]
    /\ iteration = [r \in Runs |-> 0]
    /\ stuck = [r \in Runs |-> 0]
    /\ resultSeen = [r \in Runs |-> FALSE]
    /\ outcome = [r \in Runs |-> "none"]
    /\ lost = {}
    /\ idleReplies = [r \in Runs |-> 0]

-----------------------------------------------------------------------------
(* _parse_response and _flatten_tool_calls. *)

\* Calls beside the content win over those in it.
ApiOrEmbedded(resp) == IF resp.api # {} THEN resp.api ELSE resp.embedded

\* variant: the flattening does not descend into nested tool_calls
FlattenShallow(batch) ==
    (batch \ {"named", "input", "nested", "shapeless", "scalar"})
        \cup {s \in {"function"} : "named" \in batch}
        \cup {s \in {"bare"} : "input" \in batch}

\* _flatten_tool_calls keeps what has a "function" entry, puts "named" and "input"
\* into the schema (without the "input"), unfolds "nested" and drops the rest.
Flatten(batch) ==
    (batch \ {"named", "input", "nested", "shapeless", "scalar"})
        \cup {s \in {"function"} : batch \cap {"named", "nested"} # {}}
        \cup {s \in {"bare"} : "input" \in batch}

\* The calls of a response.  Text that is no JSON object has none, and the calls
\* beside an empty content are used as they came.
Calls(resp) ==
    CASE resp.content = "empty"  -> resp.api
      [] resp.content = "plain"  -> {}
      [] resp.content = "object" -> Flatten(ApiOrEmbedded(resp))

\* variant: is_final_result is believed although calls came with it
IsFinalAsFlagged(resp) ==
    \/ resp.content = "plain"
    \/ resp.content = "object" /\ resp.final

\* An object is final unless it says otherwise or brings calls.
IsFinal(resp) ==
    \/ resp.content = "plain"
    \/ resp.content = "object" /\ resp.final /\ Calls(resp) = {}

\* The loop finds a registered name in "function", "unreadable" and "bare" only; a
\* call with another shape or name is an unknown tool.
SomeToolAnswers(resp) == Calls(resp) \cap {"function", "unreadable", "bare"} # {}

\* The calls of a batch that have a form the orchestrator knows.
Usable(batch) == batch \ {"shapeless", "scalar"}

\* Calls the parser leaves out of what it returns: those beside text, and those
\* embedded in an object that comes with calls of its own.
Overlooked(resp) ==
    {w \in {"text"} : resp.content = "plain" /\ Usable(resp.api) # {}}
        \cup
    {w \in {"beside"} : resp.api # {} /\ Usable(resp.embedded) # {}}

\* Calls of a structured response that is taken for one without calls.
Skipped(resp) ==
    {w \in {"skipped"} : resp.content # "plain" /\ Usable(ApiOrEmbedded(resp)) # {}}

\* What executing calls loses: the tool, or its arguments, by the shape of a call
\* or by arguments that cannot be read.
Misread(calls) ==
    {w \in {"shape"} : calls \cap {"named", "input", "nested", "bare"} # {}}
        \cup
    {w \in {"arguments"} : "unreadable" \in calls}

-----------------------------------------------------------------------------
(* How a step leaves the loop. *)

RecordTurnIfOwn(r) ==              \* variant: the turn is dropped when overtaken
    turns' = IF current = r THEN [turns EXCEPT ![r] = @ \cup {r}] ELSE turns

\* run() appends its turn to the session that is current now.
RecordTurn(r) == turns' = [turns EXCEPT ![current] = @ \cup {r}]

Return(r, how) ==
    /\ pc' = [pc EXCEPT ![r] = "done"]
    /\ outcome' = [outcome EXCEPT ![r] = how]
    /\ RecordTurn(r)
    /\ UNCHANGED <<current, iteration>>

AskUncounted(r) ==                 \* variant: a loop that does not count
    /\ iteration[r] < MaxToolIterations
    /\ orchState' = "PLANNING"
    /\ UNCHANGED <<current, turns, pc, outcome, iteration>>

\* range(MAX_TOOL_ITERATIONS) has a next element: the next request goes out.
AskAgain(r) ==
    /\ iteration[r] < MaxToolIterations
    /\ iteration' = [iteration EXCEPT ![r] = @ + 1]
    /\ orchState' = "PLANNING"
    /\ UNCHANGED <<current, turns, pc, outcome>>

\* An exception escapes run(): no turn is recorded.
Crash(r) ==
    /\ pc' = [pc EXCEPT ![r] = "done"]
    /\ outcome' = [outcome EXCEPT ![r] = "crash"]
    /\ UNCHANGED <<current, turns, iteration>>

-----------------------------------------------------------------------------
(* The steps of run(). *)

\* run() up to its first request.  The task text may contain "Result:".
Begin(r) ==
    /\ pc[r] = "idle"
    /\ current' = r
    /\ orchState' = "PLANNING"
    /\ pc' = [pc EXCEPT ![r] = "chat"]
    /\ iteration' = [iteration EXCEPT ![r] = 1]
    /\ \E seen \in BOOLEAN : resultSeen' = [resultSeen EXCEPT ![r] = seen]
    /\ lost' = {}
    /\ UNCHANGED <<turns, stuck, outcome, idleReplies>>

\* _resilient_chat returns None: an open breaker (then without suspending) or
\* an adapter error.
NoAnswer(r) ==
    /\ pc[r] = "chat"
    /\ Return(r, "sorry")
    /\ lost' = {}
    /\ UNCHANGED <<orchState, stuck, resultSeen, idleReplies>>

\* _save_debug, in the finally clause of every chat, cannot write its file.
DebugFails(r) ==
    /\ pc[r] = "chat"
    /\ Crash(r)
    /\ lost' = {}
    /\ UNCHANGED <<orchState, stuck, resultSeen, idleReplies>>

Final(r, resp) ==
    /\ pc[r] = "chat"
    /\ IsFinal(resp)
    /\ Return(r, "answer")
    /\ stuck' = [stuck EXCEPT ![r] = 0]
    /\ lost' = Overlooked(resp) \cup Skipped(resp)
    /\ UNCHANGED <<orchState, resultSeen, idleReplies>>

NoCalls(r, resp) ==
    /\ pc[r] = "chat"
    /\ ~IsFinal(resp)
    /\ Calls(resp) = {}
    /\ idleReplies' = [idleReplies EXCEPT ![r] = @ + 1]
    /\ lost' = Overlooked(resp) \cup Skipped(resp)
    /\ UNCHANGED resultSeen

\* just_executed_tools: decided by the text of the user messages.
AfterTools(r) == iteration[r] > 1 /\ resultSeen[r]

StuckLimitLate == 4                \* variant: off by one

StuckLimit == 3

\* A reply without calls that is counted towards the stuck limit.
Counted(r, resp) == AfterTools(r) /\ resp.content # "empty"

\* Two earlier replies were counted: the third ends the run with what it says.
GiveUpStuck(r, resp) ==
    /\ NoCalls(r, resp)
    /\ Counted(r, resp)
    /\ stuck[r] + 1 >= StuckLimit
    /\ Return(r, "stuck")
    /\ UNCHANGED <<orchState, stuck>>

\* The model is told to call tools or to answer.
Reprompt(r, resp) ==
    /\ NoCalls(r, resp)
    /\ \/ /\ Counted(r, resp)
          /\ stuck[r] + 1 < StuckLimit
          /\ stuck' = [stuck EXCEPT ![r] = @ + 1]
       \/ /\ ~Counted(r, resp)
          /\ UNCHANGED stuck
    /\ \/ AskAgain(r)
       \/ /\ iteration[r] = MaxToolIterations
          /\ Return(r, "cap")
          /\ UNCHANGED <<orchState>>

KeepStuck(r) == UNCHANGED stuck    \* variant: tool calls do not end the count

ResetStuck(r) == stuck' = [stuck EXCEPT ![r] = 0]

\* Calls on which the loop raises, outside the try around the handler.
Breaking == {"broken", "scalar"}

\* All the calls run in turn, their results become user messages, and the model
\* is asked again unless this was the last iteration.
RunTools(r, resp) ==
    /\ pc[r] = "chat"
    /\ ~IsFinal(resp)
    /\ Calls(resp) # {}
    /\ Calls(resp) \cap Breaking = {}
    /\ ResetStuck(r)
    /\ \E hit \in BOOLEAN :
          /\ hit => SomeToolAnswers(resp)
          /\ resultSeen' = [resultSeen EXCEPT ![r] = @ \/ hit]
    /\ lost' = Overlooked(resp) \cup Misread(Calls(resp))
    /\ idleReplies' = [idleReplies EXCEPT ![r] = 0]
    /\ \/ AskAgain(r)
       \/ /\ iteration[r] = MaxToolIterations
          /\ orchState' = "EXECUTING"
          /\ Return(r, "cap")

\* The first breaking call ends the run: the calls before it have run, those after
\* it have not.  A shape may be on both sides.
BrokenCall(r, resp) ==
    /\ pc[r] = "chat"
    /\ ~IsFinal(resp)
    /\ Calls(resp) \cap Breaking # {}
    /\ orchState' = "EXECUTING"
    /\ stuck' = [stuck EXCEPT ![r] = 0]
    /\ \E ran, left \in SUBSET (Calls(resp) \ Breaking) :
          /\ ran \cup left = Calls(resp) \ Breaking
          /\ lost' = Overlooked(resp) \cup Misread(ran)
                        \cup {w \in {"broken"} : left \ {"stranger", "shapeless"} # {}}
    /\ Crash(r)
    /\ UNCHANGED <<resultSeen, idleReplies>>

Answer(r, resp) ==
    \/ Final(r, resp) \/ GiveUpStuck(r, resp) \/ Reprompt(r, resp)
    \/ RunTools(r, resp) \/ BrokenCall(r, resp)

Next ==
    \E r \in Runs :
        \/ Begin(r) \/ NoAnswer(r) \/ DebugFails(r)
        \/ \E resp \in Responses : Answer(r, resp)

Spec == Init /\ [][Next]_vars

Own(r) == <<pc[r], iteration[r], stuck[r], resultSeen[r], idleReplies[r]>>

\* A chat is answered (see ChatEnds of ResilientChat): a run that awaits the model takes
\* a step in the end, of whichever kind.  It is the step that no other run takes.
FairSpec ==
    Spec /\ \A r \in Runs :
                WF_vars(/\ pc[r] = "chat"
                        /\ NoAnswer(r) \/ \A s \in Runs \ {r} : Own(s)' = Own(s))
-----------------------------------------------------------------------------

\* A structured response (empty content or a JSON object) whose calls, those beside
\* it or else those in it, have a form _flatten_tool_calls knows is never taken for
\* a reply without calls: it neither ends the run as an answer, also when it calls
\* itself final, nor counts as one of the replies that do.  Entries without a known
\* form are dropped without a trace, and the other values of lost are other losses.
AnswerOwesNothing == "skipped" \notin lost

\* A run is given up as stuck only after StuckLimit replies without calls since
\* the tools last ran.
GivesUpOnlyWhenStuck ==
    \A r \in Runs : outcome[r] = "stuck" => idleReplies[r] >= StuckLimit

\* Whatever runs overlap, a run that returns is recorded as a turn of exactly
\* one session and a run that raises of none.
TurnRecordedOnce ==
    \A r \in Runs :
        Cardinality({s \in Runs : r \in turns[s]})
            = IF pc[r] = "done" /\ outcome[r] # "crash" THEN 1 ELSE 0

\* Every run ends: the loop is bounded whatever the model says.
RunEnds == \A r \in Runs : pc[r] = "chat" ~> pc[r] = "done"

\* What the orchestrator's documentation says of a response with tool calls: they are
\* executed, and only a response without calls completes the task.
NoCallDropped == "text" \notin lost

\* What ARCHITECTURE.md says of the adapters: every call is in the OpenAI schema when
\* it reaches the orchestrator.  Then no call of a registered tool is taken for an
\* unknown tool, or loses its arguments, by its shape.
CallsNormalised == "shape" \notin lost

\* What one turn at a time would give: a run's turn is in the run's session.
TurnInOwnSession == \A s \in Runs : turns[s] \subseteq {s}
=============================================================================
