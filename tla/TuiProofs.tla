------------------------------ MODULE TuiProofs -------------------------------
(***************************************************************************)
(* The terminal interface over the ReAct loop, for any number of submitted *)
(* lines: it drives the orchestrator as the orchestrator's specification   *)
(* allows, and what it shows agrees with the tasks that run.               *)
(***************************************************************************)
EXTENDS Tui, OrchestratorProofs

\* A step of the interface is a step of the orchestrator or leaves it alone.
LEMMA TuiStepIsOrchStep == [TuiNext]_tuiVars => [Next]_vars
<1>1. ASSUME NEW t \in Runs, Submit(t) \/ StartFails(t) PROVE UNCHANGED vars
  BY <1>1 DEF Submit, StartFails
<1>2. ASSUME NEW t \in Runs, StartTask(t) PROVE Next
  BY <1>2 DEF StartTask, Next
<1>3. ASSUME NEW t \in Runs, Think(t) \/ EndTask(t) PROVE Next
  BY <1>3 DEF Think, EndTask, OrchStep, Next
<1>4. ASSUME Type \/ Cancel \/ Flush PROVE UNCHANGED vars
  BY <1>4 DEF Type, Cancel, Flush
<1>5. CASE UNCHANGED tuiVars
  BY <1>5 DEF tuiVars
<1> QED
  BY <1>1, <1>2, <1>3, <1>4, <1>5 DEF TuiNext

\* The interface implements the orchestrator it runs: it begins every run once and
\* interferes with none, so that what is proved of the ReAct loop holds under it.
THEOREM TuiImplementsOrchestrator == TuiSpec => Spec
<1>1. TuiInit => Init
  BY DEF TuiInit
<1> QED
  BY <1>1, TuiStepIsOrchStep, PTL DEF TuiSpec, Spec

\* Through the refinement: lines submitted while others run, cancels and failures
\* of the screen let no response with usable calls pass for one without, give no run
\* up early and lose no turn.
THEOREM LoopSafeUnderTui ==
    TuiSpec => []AnswerOwesNothing /\ []GivesUpOnlyWhenStuck /\ []TurnRecordedOnce
BY TuiImplementsOrchestrator, CallsBeforeAnswer, StuckIsEarned, RecordedOnce

-----------------------------------------------------------------------------
(* The screen. *)

Over == {t \in Runs : task[t] \in {"ended", "garbled"}}

ScreenTypes ==
    /\ task \in [Runs -> {"unborn", "created", "running", "ended", "garbled"}]
    /\ draft \in BOOLEAN
    /\ tuiState \in {"IDLE", "INITIALIZING", "RUNNING", "COMPLETE", "ERROR"}
    /\ turnCount \in Nat
    /\ inputShown \in BOOLEAN
    /\ inputCall \in {"none", "hide", "show"}
    /\ headerCall \in BOOLEAN

\* What the header can be once update_status has run for some state and count.
HeaderTyped ==
    header \in {<<"IDLE", 0>>, <<"INITIALIZING", 0>>} \cup
               ({"RUNNING", "COMPLETE", "ERROR"} \X (0 .. Cardinality(Runs) + 1))

\* A queued request to hide the input line belongs to a task that still runs: the
\* end of a task queues its own request behind.
HideMeansBusy == inputCall = "hide" => \E t \in Runs : task[t] = "running"

ScreenInv ==
    /\ ScreenTypes
    /\ HeaderTyped
    /\ TasksAccounted
    /\ HeaderFresh
    /\ HiddenMeansBusy
    /\ HideMeansBusy
    /\ BusyMeansRunning

\* There are finitely many tasks, so those that are over can be counted.
LEMMA OverCounted ==
    ASSUME ScreenInv
    PROVE  /\ Cardinality(Over) \in Nat /\ Cardinality(Runs) \in Nat
           /\ turnCount = Cardinality(Over)
           /\ turnCount <= Cardinality(Runs)
           /\ \A t \in Runs \ Over : Cardinality(Over \cup {t}) = Cardinality(Over) + 1
<1>1. Over \subseteq Runs /\ IsFiniteSet(Runs)
  BY TuiAssumption DEF TuiAssumption, Over
<1>2. IsFiniteSet(Over) /\ Cardinality(Over) <= Cardinality(Runs)
  BY <1>1, FS_Subset
<1>3. turnCount = Cardinality(Over)
  BY DEF ScreenInv, TasksAccounted, Over
<1> QED
  BY <1>1, <1>2, <1>3, FS_CardinalityType, FS_AddElement

\* update_status shows a state and a count that exist.
LEMMA HeaderOfTyped ==
    ASSUME ScreenInv
    PROVE  HeaderOf(tuiState, turnCount) \in {<<"IDLE", 0>>, <<"INITIALIZING", 0>>} \cup
               ({"RUNNING", "COMPLETE", "ERROR"} \X (0 .. Cardinality(Runs) + 1))
<1>1. /\ turnCount \in Nat /\ turnCount <= Cardinality(Runs) /\ Cardinality(Runs) \in Nat
      /\ tuiState \in {"IDLE", "INITIALIZING", "RUNNING", "COMPLETE", "ERROR"}
  BY OverCounted DEF ScreenInv, ScreenTypes
<1>2. turnCount + 1 \in 0 .. Cardinality(Runs) + 1 /\ turnCount \in 0 .. Cardinality(Runs) + 1
  BY <1>1
<1>3. CASE tuiState \in {"IDLE", "INITIALIZING"}
  BY <1>3 DEF HeaderOf
<1>4. CASE tuiState = "RUNNING"
  BY <1>2, <1>4 DEF HeaderOf
<1>5. CASE tuiState \in {"COMPLETE", "ERROR"}
  BY <1>2, <1>5 DEF HeaderOf
<1> QED
  BY <1>1, <1>3, <1>4, <1>5

\* An iteration of the loop keeps its own run in the loop or ends it, with an
\* outcome, and touches no other run.
LEMMA OrchStepFacts ==
    ASSUME OrchInv, OrchInv', NEW t \in Runs, OrchStep(t)
    PROVE  /\ pc[t] = "chat"
           /\ pc'[t] = "done" => outcome'[t] # "none"
           /\ \A q \in Runs \ {t} : pc'[q] = pc[q] /\ outcome'[q] = outcome[q]
<1>1. pc[t] = "chat"
  BY DEF OrchStep, NoAnswer, DebugFails, Answer, Final, GiveUpStuck, Reprompt, NoCalls,
         RunTools, BrokenCall
<1>2. pc'[t] = "done" => outcome'[t] # "none"
  BY DEF OrchInv, RunInv
<1>3. \/ \E how \in {"answer", "sorry", "stuck", "cap"} : Return(t, how)
      \/ AskAgain(t)
      \/ Crash(t)
  BY DEF OrchStep, NoAnswer, DebugFails, Answer, Final, GiveUpStuck, Reprompt, RunTools,
         BrokenCall
<1>4. OrchTypeOK
  BY DEF OrchInv
<1>5. \A q \in Runs \ {t} : pc'[q] = pc[q] /\ outcome'[q] = outcome[q]
  BY <1>3, <1>4 DEF Return, AskAgain, Crash, OrchTypeOK
<1> QED
  BY <1>1, <1>2, <1>5

-----------------------------------------------------------------------------
(* The steps that move no task out of the interface. *)

\* Typing and submitting touch neither the screen nor the tasks that run.
LEMMA SubmitStep ==
    ASSUME ScreenInv, OrchInv, Type \/ \E t \in Runs : Submit(t)
    PROVE  ScreenInv'
<1> USE DEF ScreenInv
<1>0. UNCHANGED <<tuiState, turnCount, inputShown, header, inputCall, headerCall, pc, outcome>>
  BY DEF Type, Submit, status, vars, loop
<1>1. ScreenTypes'
  BY <1>0 DEF ScreenTypes, Type, Submit
<1>2. \A t \in Runs : /\ task'[t] = "running" <=> task[t] = "running"
                      /\ task'[t] = "ended" <=> task[t] = "ended"
                      /\ task'[t] = "garbled" <=> task[t] = "garbled"
  BY DEF ScreenTypes, Type, Submit
<1>3. TasksAccounted'
  <2>1. Over' = Over
    BY <1>2 DEF Over
  <2> QED
    BY <1>0, <1>2, <2>1 DEF TasksAccounted, Over
<1>4. HeaderTyped' /\ HeaderFresh'
  BY <1>0 DEF HeaderTyped, HeaderFresh, HeaderOf
<1>5. HiddenMeansBusy' /\ HideMeansBusy' /\ BusyMeansRunning'
  BY <1>0, <1>2 DEF HiddenMeansBusy, HideMeansBusy, BusyMeansRunning
<1> QED
  BY <1>1, <1>3, <1>4, <1>5

\* Cancelling shows the input line and a fresh header; the tasks run on.
LEMMA CancelStep == ASSUME ScreenInv, Cancel PROVE ScreenInv'
<1> USE DEF ScreenInv
<1>1. ScreenTypes'
  BY DEF ScreenTypes, Cancel
<1>2. UNCHANGED <<task, turnCount, inputCall, headerCall, pc, outcome>>
  BY DEF Cancel, vars, loop
<1>3. TasksAccounted'
  BY <1>2 DEF TasksAccounted
<1>4. HeaderTyped' /\ HeaderFresh'
  BY DEF HeaderTyped, HeaderFresh, HeaderOf, Cancel
<1>5. HiddenMeansBusy' /\ HideMeansBusy' /\ BusyMeansRunning'
  BY <1>2 DEF HiddenMeansBusy, HideMeansBusy, BusyMeansRunning, Cancel
<1> QED
  BY <1>1, <1>3, <1>4, <1>5

\* The queue of callbacks shows what is true when it runs.
LEMMA FlushStep == ASSUME ScreenInv, Flush PROVE ScreenInv'
<1> USE DEF ScreenInv
<1>1. ScreenTypes'
  BY DEF ScreenTypes, Flush
<1>2. UNCHANGED <<task, tuiState, turnCount, pc, outcome>>
  BY DEF Flush, vars, loop
<1>3. TasksAccounted'
  BY <1>2 DEF TasksAccounted
<1>4. HeaderTyped'
  BY HeaderOfTyped DEF HeaderTyped, Flush
<1>5. HeaderFresh'
  BY <1>2 DEF HeaderFresh, HeaderOf, Flush, ScreenTypes
<1>6. HideMeansBusy' /\ BusyMeansRunning'
  BY <1>2 DEF HideMeansBusy, BusyMeansRunning, Flush
<1>7. HiddenMeansBusy'
  BY <1>2 DEF HiddenMeansBusy, HideMeansBusy, Flush, ScreenTypes
<1> QED
  BY <1>1, <1>3, <1>4, <1>5, <1>6, <1>7

-----------------------------------------------------------------------------
(* The steps of run_task. *)

\* The task that starts runs in the interface and in the orchestrator.
LEMMA StartStep == ASSUME ScreenInv, OrchInv, NEW t \in Runs, StartTask(t) PROVE ScreenInv'
<1> USE DEF ScreenInv
<1>1. /\ task[t] = "created" /\ task' = [task EXCEPT ![t] = "running"]
      /\ tuiState' = "RUNNING" /\ headerCall' = TRUE /\ inputCall' = "hide"
      /\ UNCHANGED <<turnCount, inputShown, header, draft>>
  BY DEF StartTask
<1>2. task'[t] = "running" /\ \A q \in Runs \ {t} : task'[q] = task[q]
  BY <1>1 DEF ScreenTypes
<1>3. /\ pc'[t] = "chat" /\ UNCHANGED outcome
      /\ \A q \in Runs \ {t} : pc'[q] = pc[q]
  BY DEF StartTask, Begin, OrchInv, OrchTypeOK
<1>4. ScreenTypes'
  BY <1>1 DEF ScreenTypes
<1>5. TasksAccounted'
  <2>1. Over' = Over
    BY <1>1, <1>2 DEF Over
  <2>2. ASSUME NEW q \in Runs
        PROVE  /\ task'[q] = "running" <=> pc'[q] = "chat"
               /\ task'[q] = "ended" => outcome'[q] # "none"
    BY <1>2, <1>3 DEF TasksAccounted
  <2> QED
    BY <1>1, <2>1, <2>2 DEF TasksAccounted, Over
<1>6. HeaderTyped' /\ HeaderFresh'
  BY <1>1 DEF HeaderTyped, HeaderFresh
<1>7. HiddenMeansBusy' /\ HideMeansBusy' /\ BusyMeansRunning'
  BY <1>2 DEF HiddenMeansBusy, HideMeansBusy, BusyMeansRunning
<1> QED
  BY <1>4, <1>5, <1>6, <1>7

\* A task goes on in both or in neither.
LEMMA ThinkStep ==
    ASSUME ScreenInv, OrchInv, OrchInv', NEW t \in Runs, Think(t)
    PROVE  ScreenInv'
<1> USE DEF ScreenInv
<1>1. UNCHANGED <<task, draft, tuiState, turnCount, inputShown, header, inputCall, headerCall>>
  BY DEF Think, screen, status
<1>2. /\ OrchStep(t) /\ pc[t] = "chat" /\ pc'[t] = "chat"
      /\ \A q \in Runs \ {t} : pc'[q] = pc[q] /\ outcome'[q] = outcome[q]
  BY OrchStepFacts DEF Think
<1>3. TasksAccounted'
  <2>1. ASSUME NEW q \in Runs
        PROVE  /\ task'[q] = "running" <=> pc'[q] = "chat"
               /\ task'[q] = "ended" => outcome'[q] # "none"
    BY <1>1, <1>2 DEF TasksAccounted
  <2> QED
    BY <1>1, <2>1 DEF TasksAccounted
<1> QED
  BY <1>1, <1>3 DEF ScreenTypes, HeaderTyped, HeaderFresh, HeaderOf, HiddenMeansBusy,
                    HideMeansBusy, BusyMeansRunning

\* What the finally clause adds to the end of a task, however the task ended: one
\* turn, and requests that show the input line and the new header.
LEMMA LeaveStepOfTask ==
    ASSUME ScreenInv, NEW t \in Runs, t \notin Over, Leave(t),
           NEW how \in {"ended", "garbled"}, task' = [task EXCEPT ![t] = how],
           tuiState' \in {"IDLE", "INITIALIZING", "RUNNING", "COMPLETE", "ERROR"},
           how = "ended" => tuiState' \in {"COMPLETE", "ERROR"} /\ outcome'[t] # "none",
           pc'[t] # "chat",
           \A q \in Runs \ {t} : pc'[q] = pc[q] /\ outcome'[q] = outcome[q]
    PROVE  ScreenInv'
<1> USE DEF ScreenInv
<1>1. /\ turnCount' = turnCount + 1 /\ headerCall' = TRUE /\ inputCall' = "show"
      /\ UNCHANGED <<inputShown, header, draft>>
  BY DEF Leave, CountTurn, Finally
<1>2. task'[t] = how /\ \A q \in Runs \ {t} : task'[q] = task[q]
  BY DEF ScreenTypes
<1>3. ScreenTypes'
  BY <1>1 DEF ScreenTypes
<1>4. TasksAccounted'
  <2>1. Over' = Over \cup {t}
    BY <1>2 DEF Over
  <2>2. turnCount' = Cardinality(Over')
    BY <1>1, <2>1, OverCounted
  <2>3. ASSUME NEW q \in Runs
        PROVE  /\ task'[q] = "running" <=> pc'[q] = "chat"
               /\ task'[q] = "ended" => outcome'[q] # "none"
    BY <1>2 DEF TasksAccounted
  <2> QED
    BY <2>2, <2>3 DEF TasksAccounted, Over
<1>5. HeaderTyped' /\ HeaderFresh'
  BY <1>1 DEF HeaderTyped, HeaderFresh
<1>6. HiddenMeansBusy' /\ HideMeansBusy'
  BY <1>1 DEF HiddenMeansBusy, HideMeansBusy
<1>7. BusyMeansRunning'
  BY <1>2 DEF BusyMeansRunning
<1> QED
  BY <1>3, <1>4, <1>5, <1>6, <1>7

\* A line that cannot be shown ends its task before the orchestrator hears of it.
LEMMA StartFailsStep == ASSUME ScreenInv, NEW t \in Runs, StartFails(t) PROVE ScreenInv'
<1>1. /\ task[t] = "created" /\ task' = [task EXCEPT ![t] = "garbled"] /\ Leave(t)
      /\ tuiState' \in {"INITIALIZING", "ERROR"} /\ UNCHANGED <<pc, outcome>>
  BY DEF StartFails, vars, loop
<1>2. t \notin Over /\ pc'[t] # "chat"
  BY <1>1 DEF Over, ScreenInv, TasksAccounted
<1> QED
  BY <1>1, <1>2, LeaveStepOfTask

\* A task ends when its run does.
LEMMA EndStep ==
    ASSUME ScreenInv, OrchInv, OrchInv', NEW t \in Runs, EndTask(t)
    PROVE  ScreenInv'
<1>1. /\ pc'[t] = "done" /\ outcome'[t] # "none"
      /\ \A q \in Runs \ {t} : pc'[q] = pc[q] /\ outcome'[q] = outcome[q]
  BY OrchStepFacts DEF EndTask
<1>2. task[t] = "running" /\ t \notin Over /\ Leave(t)
  BY DEF EndTask, Over
<1>3. CASE task' = [task EXCEPT ![t] = "ended"] /\ tuiState' \in EndState(t)
  <2>1. tuiState' \in {"COMPLETE", "ERROR"}
    BY <1>3 DEF EndState
  <2> QED
    BY <1>1, <1>2, <1>3, <2>1, LeaveStepOfTask
<1>4. CASE ResultGarbled(t)
  <2>1. task' = [task EXCEPT ![t] = "garbled"] /\ tuiState' = tuiState
    BY <1>4 DEF ResultGarbled
  <2> QED
    BY <1>1, <1>2, <2>1, LeaveStepOfTask DEF ScreenInv, ScreenTypes
<1> QED
  BY <1>3, <1>4 DEF EndTask

-----------------------------------------------------------------------------

\* The invariant of the screen is inductive beside the orchestrator's.
LEMMA ScreenStep == ScreenInv /\ OrchInv /\ OrchInv' /\ [TuiNext]_tuiVars => ScreenInv'
<1> SUFFICES ASSUME ScreenInv, OrchInv, OrchInv', [TuiNext]_tuiVars PROVE ScreenInv'
  OBVIOUS
<1>1. CASE UNCHANGED tuiVars
  <2>1. UNCHANGED <<task, draft, tuiState, turnCount, inputShown, header, inputCall,
                    headerCall, pc, outcome>>
    BY <1>1 DEF tuiVars, screen, status, vars, loop
  <2> QED
    BY <2>1 DEF ScreenInv, ScreenTypes, HeaderTyped, TasksAccounted, HeaderFresh, HeaderOf,
                HiddenMeansBusy, HideMeansBusy, BusyMeansRunning
<1>2. CASE TuiNext
  BY <1>2, SubmitStep, CancelStep, FlushStep, StartStep, StartFailsStep, ThinkStep, EndStep
     DEF TuiNext
<1> QED
  BY <1>1, <1>2

\* The invariants of the screen hold in every reachable state.
THEOREM ScreenInvariant == TuiSpec => []ScreenInv
<1>1. TuiInit => ScreenInv
  <2> SUFFICES ASSUME TuiInit PROVE ScreenInv
    OBVIOUS
  <2>1. Over = {}
    BY DEF TuiInit, Over
  <2>2. TasksAccounted
    BY <2>1, FS_EmptySet DEF TuiInit, Init, TasksAccounted, Over
  <2>3. HeaderFresh /\ HeaderTyped
    BY DEF TuiInit, HeaderFresh, HeaderOf, HeaderTyped
  <2> QED
    BY <2>2, <2>3 DEF TuiInit, ScreenInv, ScreenTypes, HiddenMeansBusy, HideMeansBusy,
                      BusyMeansRunning
<1>2. TuiSpec => []OrchInv
  BY TuiImplementsOrchestrator, OrchInvariant
<1> QED
  BY <1>1, <1>2, ScreenStep, PTL DEF TuiSpec

\* Every variable of the interface keeps its type; the count of turns never
\* passes the number of submitted lines.
THEOREM TuiTyping == TuiSpec => []TuiTypeOK
<1>1. ScreenInv /\ OrchInv => TuiTypeOK
  <2> SUFFICES ASSUME ScreenInv, OrchInv PROVE TuiTypeOK
    OBVIOUS
  <2>1. turnCount \in 0 .. Cardinality(Runs)
    BY OverCounted DEF ScreenInv, ScreenTypes
  <2> QED
    BY <2>1 DEF ScreenInv, ScreenTypes, HeaderTyped, OrchInv, TuiTypeOK
<1>2. TuiSpec => []OrchInv
  BY TuiImplementsOrchestrator, OrchInvariant
<1> QED
  BY <1>1, <1>2, ScreenInvariant, PTL

\* The header is never stale when no refresh of it is queued.
THEOREM HeaderNotStale == TuiSpec => []HeaderFresh
<1>1. ScreenInv => HeaderFresh
  BY DEF ScreenInv
<1> QED
  BY <1>1, ScreenInvariant, PTL

\* The input line is hidden only while a task runs or its return is queued.
THEOREM InputNotLost == TuiSpec => []HiddenMeansBusy
<1>1. ScreenInv => HiddenMeansBusy
  BY DEF ScreenInv
<1> QED
  BY <1>1, ScreenInvariant, PTL

\* Each submitted line is counted once, when its task is over, and runs in the
\* interface exactly while it runs in the orchestrator.
THEOREM EveryTaskCounted == TuiSpec => []TasksAccounted
<1>1. ScreenInv => TasksAccounted
  BY DEF ScreenInv
<1> QED
  BY <1>1, ScreenInvariant, PTL

\* The interface says it is at work only while a task runs, or after a text that
\* could not be shown.
THEOREM BusyIsTrue == TuiSpec => []BusyMeansRunning
<1>1. ScreenInv => BusyMeansRunning
  BY DEF ScreenInv
<1> QED
  BY <1>1, ScreenInvariant, PTL
=============================================================================
