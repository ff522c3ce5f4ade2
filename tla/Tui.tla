--------------------------------- MODULE Tui ----------------------------------
(***************************************************************************)
(* cli/tui.py over core/orchestrator/core.py: the terminal interface that  *)
(* starts one asyncio task per submitted line, all on one Orchestrator.    *)
(*                                                                         *)
(* run_task suspends only inside Orchestrator.run, so starting a task and  *)
(* its end are each one step together with the orchestrator's own step.    *)
(* Text shown as markup may hold a tag that closes nothing.  The log then  *)
(* raises, and raises again when the except clause shows the message, which *)
(* quotes the tag: the clause ends before it sets the state.               *)
(* call_next (Textual, external) queues a callback; the message loop runs  *)
(* the whole queue in order without suspending, so all that matters of the *)
(* queue is the last request about the input line and whether the header   *)
(* is to be refreshed.                                                     *)
(***************************************************************************)
EXTENDS Orchestrator

ASSUME TuiAssumption == IsFiniteSet(Runs)    \* the lines the user submits

VARIABLES task,          \* the asyncio task: unborn, created, running, then ended,
                         \* or garbled when its text could not be shown
          draft,         \* a line is typed into the input and not submitted yet
          tuiState,      \* _metrics.state
          turnCount,     \* _metrics.turn_count
          inputShown,    \* #input-area.display
          header,        \* what the status line says
          inputCall,     \* the last hide_input or show_input queued, if any
          headerCall     \* an update_status is queued

status  == <<tuiState, turnCount, inputShown, header, inputCall, headerCall>>
screen  == <<status, draft>>
tuiVars == <<task, screen, vars>>

TuiTypeOK ==
    /\ OrchTypeOK
    /\ task \in [Runs -> {"unborn", "created", "running", "ended", "garbled"}]
    /\ draft \in BOOLEAN
    /\ tuiState \in {"IDLE", "INITIALIZING", "RUNNING", "COMPLETE", "ERROR"}
    /\ turnCount \in 0 .. Cardinality(Runs)
    /\ inputShown \in BOOLEAN
    /\ header \in {<<"IDLE", 0>>, <<"INITIALIZING", 0>>} \cup
                  ({"RUNNING", "COMPLETE", "ERROR"} \X (0 .. Cardinality(Runs) + 1))
    /\ inputCall \in {"none", "hide", "show"}
    /\ headerCall \in BOOLEAN

TuiInit ==
    /\ Init
    /\ task = [t \in Runs |-> "unborn"]
    /\ draft = FALSE
    /\ tuiState = "IDLE"
    /\ turnCount = 0
    /\ inputShown = TRUE
    /\ header = <<"IDLE", 0>>
    /\ inputCall = "none"
    /\ headerCall = FALSE

-----------------------------------------------------------------------------

\* update_status: the header for a state and a count.
HeaderOf(s, n) ==
    CASE s \in {"IDLE", "INITIALIZING"} -> <<s, 0>>
      [] s = "RUNNING"                  -> <<s, n + 1>>
      [] OTHER                          -> <<s, n>>

Type ==
    /\ inputShown /\ ~draft
    /\ draft' = TRUE
    /\ UNCHANGED <<task, status, vars>>

\* action_submit: create_task, with no look at whether a task runs already nor
\* at whether the input line is shown; Enter reaches the application either way.
Submit(t) ==
    /\ draft
    /\ task[t] = "unborn"
    /\ task' = [task EXCEPT ![t] = "created"]
    /\ draft' = FALSE
    /\ UNCHANGED <<status, vars>>

\* variant: the header is not refreshed on cancel
CancelQuietly ==
    /\ tuiState' = "IDLE"
    /\ inputShown' = TRUE
    /\ UNCHANGED <<task, draft, turnCount, header, inputCall, headerCall, vars>>

\* action_cancel: the screen goes idle at once; no asyncio task is cancelled.
Cancel ==
    /\ tuiState' = "IDLE"
    /\ header' = HeaderOf("IDLE", turnCount)
    /\ inputShown' = TRUE
    /\ UNCHANGED <<task, draft, turnCount, inputCall, headerCall, vars>>

FinallyOnSuccess(t) ==               \* variant: the input line returns on success only
    IF tuiState' = "COMPLETE" THEN "show" ELSE inputCall

\* What the finally clause of run_task asks of the input line.
Finally(t) == "show"

CountOnSuccess == IF tuiState' = "COMPLETE" THEN turnCount + 1 ELSE turnCount   \* variant

CountTwice == turnCount + 2               \* variant: also counted in the except clause

CountTurn == turnCount + 1

\* The finally clause of run_task, after whatever happened in it.
Leave(t) ==
    /\ turnCount' = CountTurn
    /\ headerCall' = TRUE
    /\ inputCall' = Finally(t)
    /\ UNCHANGED <<inputShown, header, draft>>

\* run_task up to the await of Orchestrator.run.  INITIALIZING is overwritten by
\* RUNNING before any callback can show it.
StartTask(t) ==
    /\ task[t] = "created"
    /\ Begin(t)
    /\ task' = [task EXCEPT ![t] = "running"]
    /\ tuiState' = "RUNNING"
    /\ headerCall' = TRUE
    /\ inputCall' = "hide"
    /\ UNCHANGED <<turnCount, inputShown, header, draft>>

\* The line itself cannot be shown: run_task ends before it asks the orchestrator,
\* in ERROR only if the message of the exception can be shown.
StartFails(t) ==
    /\ task[t] = "created"
    /\ task' = [task EXCEPT ![t] = "garbled"]
    /\ tuiState' \in {"INITIALIZING", "ERROR"}
    /\ Leave(t)
    /\ UNCHANGED vars

OrchStep(t) ==
    \/ NoAnswer(t)
    \/ DebugFails(t)
    \/ \E resp \in Responses : Answer(t, resp)

Think(t) ==
    /\ task[t] = "running"
    /\ OrchStep(t)
    /\ pc'[t] = "chat"
    /\ UNCHANGED <<task, screen>>

EndStateUnset(t) ==                  \* variant: the except clause sets no state
    {IF outcome'[t] = "crash" THEN tuiState ELSE "COMPLETE", tuiState}

\* Displaying the result or write_history may fail; with a crash of run() they are
\* the ways to ERROR.
EndState(t) == {IF outcome'[t] = "crash" THEN "ERROR" ELSE "COMPLETE", "ERROR"}

\* What the model wrote cannot be shown: the state is left as it is.
ResultGarbled(t) ==
    /\ outcome'[t] \notin {"crash", "sorry"}
    /\ task' = [task EXCEPT ![t] = "garbled"]
    /\ UNCHANGED tuiState

EndTask(t) ==
    /\ task[t] = "running"
    /\ OrchStep(t)
    /\ pc'[t] = "done"
    /\ \/ /\ task' = [task EXCEPT ![t] = "ended"]
          /\ tuiState' \in EndState(t)
       \/ ResultGarbled(t)
    /\ Leave(t)

\* The message loop runs the queued callbacks; update_status reads the state now.
Flush ==
    /\ headerCall \/ inputCall # "none"
    /\ header' = IF headerCall THEN HeaderOf(tuiState, turnCount) ELSE header
    /\ inputShown' = IF inputCall = "none" THEN inputShown ELSE inputCall = "show"
    /\ headerCall' = FALSE
    /\ inputCall' = "none"
    /\ UNCHANGED <<task, draft, tuiState, turnCount, vars>>

TuiNext ==
    \/ \E t \in Runs :
          Submit(t) \/ StartTask(t) \/ StartFails(t) \/ Think(t) \/ EndTask(t)
    \/ Type
    \/ Cancel
    \/ Flush

\* The event loop runs every ready task and callback, and chats are answered.
Fairness ==
    /\ WF_tuiVars(Flush)
    /\ \A t \in Runs : /\ WF_tuiVars(StartTask(t) \/ StartFails(t))
                       /\ WF_tuiVars(Think(t) \/ EndTask(t))

TuiSpec == TuiInit /\ [][TuiNext]_tuiVars

TuiFairSpec == TuiSpec /\ Fairness

-----------------------------------------------------------------------------

\* Whenever no refresh is queued the header says what update_status would say
\* now: no change of state or count is left unshown, whichever handlers of
\* overlapping tasks and of cancel ran in between.
HeaderFresh == ~headerCall => header = HeaderOf(tuiState, turnCount)

\* The input line is hidden only while a task runs, or is about to come back.
HiddenMeansBusy ==
    ~inputShown => inputCall = "show" \/ \E t \in Runs : task[t] = "running"

\* Every submitted task is counted once when it is over, and it runs in the
\* interface exactly while its run is in the orchestrator.
TasksAccounted ==
    /\ turnCount = Cardinality({t \in Runs : task[t] \in {"ended", "garbled"}})
    /\ \A t \in Runs : /\ task[t] = "running" <=> pc[t] = "chat"
                       /\ task[t] = "ended" => outcome[t] # "none"

\* The interface says that it is at work only while a task runs.  Text that cannot
\* be shown is the one exception: it leaves the state behind, whichever tasks
\* overlap, fail or are cancelled on the screen.
BusyMeansRunning ==
    tuiState \in {"INITIALIZING", "RUNNING"} =>
        \E t \in Runs : task[t] \in {"running", "garbled"}

\* The prompt returns, also after failures, cancels and overlapping tasks.
InputReturns == ~inputShown ~> inputShown
=============================================================================
