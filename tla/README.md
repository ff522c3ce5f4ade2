# NoMan: a TLA+ model of the agent runtime

NoMan is a command line coding agent.  A Textual screen (or the one-shot
command) hands a task to an `Orchestrator`, which talks to a language model
through an adapter, executes the tool calls the model asks for, and goes on
until the model answers.  This directory holds TLA+ modules of the runtime, the
TLC configurations that check them on small instances, and proofs, checked by
TLAPS, of what is said for every instance.

Paths below are relative to the repository's root (`src/`).

## 1. The system

| Component | Source | State it keeps | Operations |
|---|---|---|---|
| Circuit breaker | `core/errors/circuit_breaker.py` | `_state`, `_failures`, `_last_failure_time`, `_half_open_calls`, a lock | `call` (admission, outcome), `_transition_to` |
| Retry | `core/utils/retry.py` | the attempt of a running `execute` | `execute` |
| Orchestrator | `core/orchestrator/core.py` | `_state`, `_current_session`, the sessions' turns; per run: messages, iteration, stuck count | `run`, `_resilient_chat`, `_execute_turn_with_tools`, `_parse_response`, `_flatten_tool_calls`, `_save_debug` |
| Terminal interface | `cli/tui.py` | metrics (state, turn count), widgets, queued callbacks | submit, cancel, `run_task`, `update_status`, `hide_input`, `show_input` |
| Rate limiter, quotas | `core/utils/rate_limiter.py` | timestamps, tokens per day, slots, counts per tool and session | `acquire`, `release`, `async with`, `check_tool_call`, `check_turn` |
| Context manager | `core/context/manager.py` | symbol index, centrality, JIT cache of file ranges | `index_repo`, `get_context`, `read_lines`, `read_symbol`, `invalidate` |
| Tool bus | `core/tools/bus.py` | registered tools | `register`, `execute` |
| Tool handlers | `core/tools/__init__.py`, `core/tools/git.py` | `EDIT_HISTORY` (and the files, git, docker, the shell) | some fifty synchronous functions |
| Guards | `core/utils/{budget_guard,action_cache,step_pruner,token_counter}.py` | tokens and turns used; cached results; recent calls | `check`, `consume`, `get`, `set`, `invalidate`, `should_execute` |
| Memory | `core/memory/store.py` | a SQLite table of facts | `remember`, `recall`, `forget`, `cleanup_expired` |
| Adapters | `core/adapters/*.py` | the HTTP client, the registry, the roles, the capability cache | `chat`, `close`, `negotiate`, `configure_role`, `close_all` |
| Security checks, signing, guardrails | `core/security/*.py`, `core/selfimprove/safety_guardrails.py` | none | predicates |
| Command line, configuration | `cli/main.py`, `cli/parser.py`, `cli/config_validator.py` | none | start-up |

How they interact.

* Everything runs on one asyncio event loop.  A coroutine gives way only where
  it really suspends: at the HTTP request of a chat, at the sleep between two
  attempts, at the start of a task.  Tool handlers are synchronous, and so is
  everything the orchestrator does between the answer of the model and the next
  request.  That decides the grain of atomicity of every module here.
* `NoManTUI.action_submit` creates a task per submitted line.  It does not ask
  whether one is running, and `action_cancel` cancels none, so several
  `Orchestrator.run` coroutines may be live on one orchestrator.  They share
  `_current_session`, `_state`, the breaker, the screen and its metrics.
* `_resilient_chat` puts the retry loop *inside* one call of the breaker.  All
  its failures become `None`, which `run` answers with an apology.
* Tool calls come out of a response by two paths (the adapter's `tool_calls`
  and a JSON content) and in several shapes; one path normalises them.
* The tool bus asks a `QuotaManager` before each tool call when it has one;
  `create_toolbus` builds it without.
* The adapters suspend in httpx only: while a request is out, and while a client
  closes its connections.  `RoleRouter` and `AdapterRegistry` hand out and close
  the same adapter objects.
* Other processes share the files the tools edit and the SQLite file of the
  memories; the memory tools open a connection of their own per call.
* Textual queues `call_next` callbacks and runs them between handlers; the
  status line and the input line change when they run, not when they are queued.

What is hard.  Outcomes of calls that were admitted in an earlier state of the
breaker; retries that go on after the breaker opened; runs that overtake each
other at the await; several counters (attempts, iterations, replies without
calls, probes, slots) whose resets depend on the path; callbacks that run in
another order than they were caused; clients that are closed while other tasks
use them; text written back over what another program saved; cached text and cached line numbers over
files that other programs edit; failures halfway (a debug file that cannot be
written, a malformed call, a history file, a write that fails after the file was
emptied).  `PROJECT.json` lists them
("hazards") at their lines, with the properties that cover each.

What makes each part correct.

* Breaker: state and count agree; probes are limited; a half-open breaker is
  always decided; probing begins only after a quiet period.
* Chat: every chat ends; traffic to the provider while the breaker is open is
  bounded; the breaker sees one call per chat.
* Orchestrator: every run ends; a structured response with calls is not taken for an
  answer; a run is given up only when it deserves it; each run is recorded once.
* Screen: the header is fresh, the prompt comes back, tasks are counted once.
* Limiter: the windows hold, slots are conserved, the limiter recovers.
* Context manager: what it serves is not older than the last `invalidate`,
  views fit their budget.
* Tool bus: nothing runs that was not paid for, nothing is paid for and lost.
* File tools: a file that a failed call leaves empty is not passed over in silence.
* Adapters: nobody is handed a closed client, no client is lost.
* Budget, repeats: what the budget refused stays refused; a call is repeated at most
  so often, and other calls are still let through.
* Memory: what was forgotten stays forgotten.

## 2. The modules

| Module | Models | Composes |
|---|---|---|
| `CircuitBreaker` | the breaker, as an abstract specification of what a guarded call is | |
| `ResilientChat` | the retry loop inside the breaker | EXTENDS `CircuitBreaker`; `ImplementsBreaker` is the refinement |
| `ResilientChatProofs` | theorems about both, and the refinement | |
| `Orchestrator` | the ReAct loop with overlapping runs | |
| `OrchestratorProofs` | its theorems | |
| `Tui` | the screen and its tasks | EXTENDS `Orchestrator`: the end of a task is one step of both |
| `TuiProofs` | that the screen implements the orchestrator, and its own theorems | EXTENDS `OrchestratorProofs` |
| `RateLimiter` | limiter and quota manager | |
| `ToolBus` | the tool bus and its calls | EXTENDS `RateLimiter`: a call of the bus takes the limiter's step |
| `ToolBusProofs` | theorems about both, and that the bus implements the limiter | |
| `Adapters` | HTTP clients of the adapters, registry and router | |
| `AdaptersProofs` | its theorems | |
| `Files` | the tools that change files, and `EDIT_HISTORY` | |
| `BudgetGuard` | the token budget, asked and charged in any order | |
| `StepPruner` | the filter for repeated calls | |
| `Memory` | the memories in a shared SQLite file | |
| `Toolkit` | the four before it | EXTENDS them, one behaviour at a time |
| `ToolkitProofs` | theorems about the four | |
| `Context` | the symbol index and the JIT cache over files edited from outside | |
| `ContextProofs` | its theorems | |
| `Inductions` | facts the proofs share: induction and recursive functions | |

`MC...` modules give the constants their small values.  `Toolkit` holds four
components that share no state: a behaviour of it is one of `Files`, of
`BudgetGuard`, of `StepPruner` or of `Memory`, chosen in the first state.  A
definition marked "variant" is its neighbour with a plausible bug; no
specification uses it.  It is there to show that the properties can fail: put in
its neighbour's place, it breaks the property it is paired with in
`PROJECT.json` ("mutants").

### CircuitBreaker

`call` has three sections under the lock, and none suspends inside, so each is
one action: `AdmitClosed`, `AdmitFirstProbe`, `AdmitProbe` and `Refuse` are the
branches of admission, `Fail` and `Succeed` the two outcomes.  Between admission
and outcome the caller is in `inCall`.  `_last_failure_time` is kept as its
age `elapsed`, saturated at the timeout, and `Tick` lets time pass; `_failures`
saturates at `MaxFailures` (the code's integer is unbounded; nothing
distinguishes counts above the threshold, because it only decreases one at a
time while CLOSED, where it is below the threshold).  `probes` and
`sinceFailure` are history variables for the properties.  Cancellation is not
modelled: no part of the program cancels a task (`asyncio.CancelledError` would
bypass `except Exception` and leave a half-open breaker without a decision).

### ResilientChat

`phase` is where the task is: no chat, awaiting the adapter, or in the sleep
between attempts.  `BackOff` and `Resend` are the loop of
`RetryManager.execute`; they leave the breaker's variables unchanged, which is
what the refinement says.  `Exhaust` is a retryable error of the last attempt,
`GiveUp` any other error: the orchestrator configures the builtin
`ConnectionError` and `TimeoutError` as retryable, the adapters raise httpx's own
classes, so an ordinary HTTP failure takes `GiveUp` at the first attempt
(`docs/ARCHITECTURE.md:433` speaks of retries with back-off).  `openSends` is
history: the requests each task has sent since the breaker last opened.

### Orchestrator

A run is `idle`, awaiting the model (`chat`) or `done`.  Everything from a
response to the next request is one action, because nothing in between
suspends: `Final`, `GiveUpStuck`, `Reprompt`, `RunTools`, `BrokenCall` by what
the response brings, `NoAnswer` for `None`, `DebugFails` for the exception of
`_save_debug` in the `finally` clause.  `Begin` is `run` up to its first
request; `probe_capabilities` and the prompt do not suspend.

A response is abstracted to what the control tells apart: content absent, text
that is no JSON object, or an object with its flag and its own calls; and a set
of call *shapes* beside it.  Order and number of calls in a batch are left out:
they run in turn, without suspension, and no guard looks at how many there are.
The shapes are those the code treats differently: the schema with a registered tool
(`function`), with arguments that are no JSON (`unreadable`), with an unknown tool
(`stranger`) or with a "function" that is no object (`broken`); the short forms
`named` and `input`; `nested` calls; and entries that are no calls (`shapeless`,
`scalar`).  `Flatten` is `_flatten_tool_calls`: it rewrites the short forms, unfolds
`nested` and drops the rest, and only calls that come with a JSON object go through
it.  A call in the wrong form on the other path is executed as an unknown tool
(`RunTools`) or raises (`BrokenCall`), with part of the calls executed.
`resultSeen` is the test of line 254-257: whether any user message contains
"Result:".  It is a choice in `Begin` (the task's text) and in `RunTools` (a
tool's output), as the code takes either for the mark of an executed tool.
Messages with that mark are otherwise only written for session turns, of which a
new session has none, so the stuck rule applies only when some text contains it.

`lost` and `idleReplies` are history.  `lost` says in which ways the last step lost
calls, and every way the code has is in it: calls beside plain text (`text`,
`core.py:336`), calls embedded in an object that comes with others (`beside`, `:343`),
a shape the loop cannot read (`shape`, `:298`), arguments that are no JSON
(`arguments`, `:304`), and calls after a broken one (`broken`).  `skipped`, calls the
parser knows in a structured response that is treated as if it had none, is the one
that never happens (`AnswerOwesNothing`); `text` and `shape` are what two documents
deny (`NoCallDropped`, `CallsNormalised`).  Of the others no document speaks.

### Tui

The module shares the variables of `Orchestrator`: a step of a task in the loop is
a step of its run, and every other handler leaves the orchestrator alone, which is
what `TuiImplementsOrchestrator` says.  `task` is the asyncio task; `Submit` creates it, `StartTask` runs it to the await
inside `Orchestrator.run`, `Think` is an iteration of the loop, `EndTask` its end
with the rest of `run_task`.  The callbacks queued by `call_next` are kept as two
facts, the last request about the input line and whether a header refresh is
queued: `Flush` runs the whole queue, and of several requests only the last one
shows.  `INITIALIZING` is set and overwritten before anything can show it.  A line
that was typed (`draft`) can be submitted after the input line was hidden.  A TUI
without an orchestrator is never started by `cli/main.py` and left out.

The line and the answer are shown as markup, which raises on a tag that closes
nothing; the except clause then shows the message, which quotes the tag, and raises
again before it sets `ERROR`.  Such a task is `garbled`: it leaves the state
`INITIALIZING` (`StartFails`, the orchestrator is never asked) or as it was
(`ResultGarbled`), so the header may go on saying that a turn runs.  The finally
clause still counts the turn and shows the input line.  `BusyMeansRunning` says
that this is the only way to a state that is busy with nothing.

### RateLimiter

A timestamp is kept as its age.  `Enter`/`Exit` are `async with` (or `acquire`
and `release`), `CheckToolCall` and `CheckTurn` the quota manager's acquires.
`recent` (what was granted in the last hour) and `checked` (checks that passed)
are history.  The wall clock is assumed not to step back.

### ToolBus

`execute` awaits the quota check, whose lock is never contended, and then calls
the handler, so it does not suspend before the handler and has nothing to do after
it: look-up, quota, argument check and call are one action, in this order
(`ExecuteUnknown`, `ExecuteWithQuota`, `ExecuteFreely`).  A call whose arguments
are incomplete has paid for them.  `Register` replaces a tool of the same name;
with a signer it refuses a signature that does not verify, and lets an
unsigned tool through.  The initial states are the bus of `create_toolbus`, with
every tool and neither signer nor quotas, and empty buses with any of the two.
`Beside` is what else uses the limiter.  `ran` and `misfit` are history.

### Adapters

An adapter makes its client when it needs one (`GetClient`), and `close` awaits
`aclose` and then sets `_client` to `None`, whatever it holds by then.  `job` is
what a task is suspended in: a request, a stream that nobody has iterated yet (the
generator holds the client it was given), or an `aclose`.  From httpx the model
takes three facts: `aclose` marks the client closed before it suspends; a request
on a closed client raises at once; a second `aclose` returns at once.
`CloseOn` is the loop of `close_all` from one suspension to the next; a dict
that has grown meanwhile raises, an `aclose` that raises ends the loop with the
other adapters open.  `twice`, `failed`, `due` and `quiet` are history.
The two adapters have the same life of a client.  `create_adapter` makes an
object, the negotiator is used by `RoleRouter.capabilities` only, which nobody
calls; both are left out.

### Files

Handlers do not overlap each other, but other programs save files between their
system calls (`Save`), and a call may fail (`WriteFails`, `EditOpenFails`).
`write_text` truncates and then writes, so `write_file`, `edit_file` and
`copy_file` are two or three steps with `call` in between.  A move is a rename, one
step, or, to another file system, a copy and the removal of the source, each of which
may fail (`MoveAcross`, `MoveUnlinks`, `MoveKeepsSource`).  `append_file` is one step:
it does not close its file, so the text is written when the file object is collected,
and a failure there is reported as a success (`AppendFile` may change nothing).
`edit_file` writes back a text it computed from its read, over anything saved since.
`torn` (emptied by a tool and written by nobody since) and `told` are history.
`write_file`, `copy_file` and `move_file` answer with an error text, `edit_file`
raises, and `execute` passes both on: `Told`.

### BudgetGuard and StepPruner

`check` counts its turn before it compares, also when it raises, and `consume` adds
what it is given.  The class ties neither to the other, and nothing in the repository
uses it, so both come with any count in any order.  What the guard then promises is
not a bound on the tokens charged but that a refusal is final (`RefusalIsFinal`).
`passed` and `refused` are history.
`should_execute` of the pruner looks at the last `2 * max_repeats` calls and keeps
`max_history`; a refused call leaves no trace (`Block`).

### Memory

`writer` is the connection whose transaction holds SQLite's write lock, `working`
the table it sees.  The first write statement of `forget` and `cleanup_expired`
begins the transaction (`Begin`), `commit` ends it, and a connection may die
between the two (`Disconnect`), which rolls back.  `Remember` changes nothing: its
INSERT names nine columns and gives ten placeholders (`store.py:121-122`), which
raises `OperationalError`, and the handler catches only `IntegrityError`.  So the
table's rows come from a file written by another release (`MemoryInit`).
`recall` does not look at `expires_at`, so an expired memory is recalled until a
clean-up deletes it.  `ForgetIsDurable` depends on that failure of `remember`: were
its INSERT repaired, a second `remember` of a forgotten key would set `is_valid` again
(`store.py:126-131`), as it should, and the property would have to except it.

### Context

A file is a sequence of lines, each as `_extract_skeletons` sees it: a class, a
def, a constant or other text.  All methods are synchronous, so they never
overlap, but other programs edit the files: `Edit` may come between any two
methods and between two files of one walk, which is why `index_repo` is
`StartIndex`, one `IndexFile` per file and `FinishIndex`.  A read caches the lines
it took; the key is the path as it was given and the two line numbers.
`invalidate` drops every key that starts with the path, hence also those of longer
paths (`StartsWith`), and leaves the index alone; its comment, "needs re-indexing",
describes what the caller has to do.  The skeleton cache is never filled.
`GetContext` and `TruncatedTo` only read, so they appear in `ViewsFit` alone.
`Lines` is the constant set of lines the contents are made of.
`Slice` follows Python: a start below 1 would count from the end.  As in the
code, `current_class` is never reset, so a function below a class is a "method".
`since` and `during` are history: what each file held since it was last
invalidated, and since the last walk began.  In the program as shipped the only
caller is `explain_code`, which makes a new manager for each call and indexes
nothing; the model is of the class, in any order of calls.

## 3. What TLC checks

| Run | Instance | Shows |
|---|---|---|
| `chat` | 3 tasks, threshold 2, timeout 2 ticks, 1 counted probe, 2 attempts | `ClosedIffBelowThreshold`, `ProbesBounded`, `HalfOpenHasCallOut`, `OpenTraffic`, `ProbeOnlyAfterQuiet`, `HalfOpenResolves`, `ChatEnds`, and that chats implement the breaker |
| `half_open_limit` | the same | violated: one call more than `half_open_max_calls` goes through |
| `turns` | 2 runs, 5 iterations, three batches of calls beside the content and three inside it | `AnswerOwesNothing`, `GivesUpOnlyWhenStuck`, `TurnRecordedOnce`, `RunEnds` |
| `dropped_calls` | 2 runs, calls beside the content and short forms inside it | violated: calls beside plain text are dropped |
| `anthropic_calls` | 2 runs, the Anthropic adapter's shape | violated: its calls do not reach their tools |
| `tui` | 2 tasks, 2 iterations | `HeaderFresh`, `HiddenMeansBusy`, `TasksAccounted`, `BusyMeansRunning`, `InputReturns` |
| `one_turn` | the same | violated: a turn is recorded in another run's session |
| `quota` | a bus of one tool, 2 clients, a session, minute 2 and hour 4 ticks | `CallsArePaid`, `WindowsRespected`, `SlotConservation`, `KeepsGranting` |
| `quota_idle` | the limiter alone, with more calls per tool than slots | violated: an idle limiter refuses a tool call for ever |
| `context` | 2 files (one path a prefix of the other), 2 contents or absent, 2 edits, 2 cached ranges, window of 1 line | `ServedSinceInvalidate`, `SymbolShown`, `IndexFromOneWalk`, `ViewsFit` |
| `adapters` | 2 tasks, 2 adapters, 2 names, a role, 2 clients per adapter | `ClosedClientIsClosing`, `LeaksNeedOverlap`, `CloseAllClosesAll` |
| `toolkit` | 2 paths, 2 marks, texts up to 2, 2 edits; 3 token counts, 5 turns, 10 tokens; 3 calls, 2 repeats; 2 connections, 2 memories | `EmptiedIsTold`, `RefusalIsFinal`, `RepeatsBounded`, `ForgetIsDurable` |

Every passing run also checks the type invariant of its module.

Why the bounds are enough for what they are to show:

* `chat`: three tasks are the fewest with one probe in the half-open period,
  one that is counted and a late outcome of a call admitted before; threshold 2
  tells "first failure" from "failure that opens", `MaxFailures` = 3 lets late
  failures pass the threshold, two attempts give one retry after the breaker opened.
* `turns`: five iterations leave room for a tool call, three replies without
  calls and one more, so that the stuck rule, its reset and the cap all happen;
  two runs overtake each other in both orders.  The batches hold, between them, every
  shape a chat with the OpenAI adapter may bring: none, calls that run, calls of which
  one raises, entries that are no calls, and nested ones; a batch is a set, and each of
  its shapes is treated alone, so two or three in a batch are enough.
* `tui`: two tasks overlap, with a cancel anywhere; the screen does not read how
  many iterations a run has, so two (one to go on, one to end) are enough.
* `quota`: a minute below an hour, with limits 2 and 3, makes each window refuse
  while the other grants; three slots let two clients and one check hold them, and
  the limits per tool and session together (4) exceed them.  One tool is enough for
  the bus: tools share nothing but the limiter, which the session's checks and the
  clients contend for as well; its signature changes while its count stays.
* `adapters`: two tasks are the fewest that overlap, and two clients per adapter the
  fewest with one made after a close began; two names make a `close_all` with
  something left to do, over one adapter or two, and a dict that grows.  The tasks are
  interchangeable, so they are a symmetry set; no liveness is checked in this run.
* `toolkit`: two paths for copies and renames, a text of two marks for an old
  text that occurs once, twice or not at all, requests of one, three and six tokens
  for sums on both sides of and exactly at the hard stop at nine, charges up to twelve to
  pass it, a history of exactly `2 * max_repeats` calls, the shortest the
  pruner's window allows, so that the cut matters, and two connections for a transaction
  of one that the other sees before, during and after.
* `context`: two edits give a file three contents, so text can be two versions old;
  two cached ranges are two of one file, or one of each of two paths; a window
  of one line meets both edges of files of two and four lines.

Fairness, and why the code justifies it:

* a request ends: both HTTP clients are made with a timeout (60 s), and a sleep
  between attempts is finite (`FairChat`; `FairSpec` of the breaker and of the
  orchestrator, which says that a run that awaits the model takes a step in the end, of
  whichever kind);
* the event loop runs every ready task and every queued callback (`Fairness` of
  `Tui`);
* time passes, days change and the body of an `async with` ends (`FairSpec` of
  `RateLimiter`).

No fairness is assumed of users, of a new submission, of the model's wish to
answer, or of success.

## 4. What is proved

The theorems hold for every value of the constants that the named assumptions
allow: any number of callers and runs, thresholds, timeouts, limits, batches.

* `ResilientChatProofs`, the breaker.  `Typing`, `CountAgrees`, `ProbeLimit`,
  `DecisionPending`, `QuietBeforeProbe` are conjuncts of one inductive invariant
  or follow from it.  The properties are not inductive alone: that
  a half-open breaker has a call out needs that every outcome leaves HALF_OPEN, and
  a failure does so only because the count is still at the threshold, which is
  `ClosedIffBelowThreshold`; the limit on probes needs
  `probes = halfOpenCalls + 1` in HALF_OPEN; the quiet period needs that
  `elapsed` never exceeds `sinceFailure` while OPEN.
* `ResilientChatProofs`, the chat.  `ChatImplementsBreaker`: each action of the chat is
  an action of the breaker or leaves its variables alone.  `ChatSafety` carries
  the breaker's theorems over; `ChatTyping` is proved from the typing of the
  breaker and relates `inCall` to `phase`.  `OpenTrafficBounded` needs `SendsInv`: a
  task still in its loop has sent, since the breaker opened, at most the attempts
  before its current one, and the task whose failure opened the breaker is out of its
  loop and stays silent, because an open breaker admits nobody.
* `OrchestratorProofs`.  The invariant `OrchInv` is a predicate `RunInv` for each
  run.  `OthersKept` says that a step which touches one run and keeps a session
  current preserves it for all others; each action then has one lemma about the
  run that takes it.  `OrchTyping`, `CallsBeforeAnswer` and `StuckIsEarned` follow;
  typing is among the consequences, not the premises: `stuck <= 2` holds because
  the third counted reply leaves the loop, `idleReplies < iteration` because every
  reply costs a request.  `RecordedOnce` has an invariant of its own on top:
  the sessions that hold a run are none before it is done and one after, by
  cardinality.  `CallsBeforeAnswer` compares two descriptions of the parser, the
  forms it knows (`Usable`) and what it makes of a batch (`Flatten`):
  `FlattenDropsTheRest` says that flattening leaves nothing exactly of batches without a
  known form, and `OtherWays` that no other loss is mistaken for a skipped call.
* `TuiProofs`.  `TuiImplementsOrchestrator`: each handler is a step of the loop or
  leaves it alone, so `LoopSafeUnderTui` carries the loop's theorems to the runs a
  user starts.  The screen's properties are conjuncts of `ScreenInv`, which needs one
  fact more: a queued request to *hide* the input belongs to a task that is running
  (`HideMeansBusy`), so the last task to end cannot leave its own hide behind its
  show.  `TasksAccounted` counts a set that gains one task per step, by cardinality,
  and needs the loop's invariant: a task that ends has an outcome.
* `ToolBusProofs`, the limiter.  `SlotsAccounted` and `ChecksRunOut`: slots are those of
  clients inside and of checks that ever passed, so checks run out.
  `WindowsAreRespected` rests on `WindowInv`: what is kept, pruned once more to the
  hour, is what was granted in the last hour.  `Younger` is a recursive function over
  the list, so its lemmas (it keeps the young, pruning twice is pruning once to the
  smaller window, ageing before or after pruning is the same) are inductions over
  the length.  A refused request prunes too, and an acquire prunes before it counts;
  both are the same lemma.
* `ToolBusProofs`, the bus.  `BusImplementsLimiter`: each action of the bus is an action
  of the limiter or leaves its variables alone, so `BusSlotsAccounted` and
  `BusWindowsRespected` carry slots and windows over.
  `EveryCallPaid` follows from the typing of the three counters: a check counts the
  tool once, and only then is the call dispatched, which counts it once as well.
* `AdaptersProofs`.  The invariant is about the clients that are *alive*: open, or with
  a task suspended in their `aclose`.  An adapter's client is alive or has failed to
  close (`KnownInv`), and of the others at most `twice` are alive (`LostInv`).  Leaks
  alone are not inductive: it is the close still suspended that will forget, and
  so leak, a client made since, and it has to be counted from the moment its adapter
  forgets its client.  Every action does one of four things to an adapter
  (`Moves`), and `MoveKeeps` shows once that each keeps the account: ending the close of
  one client makes up for forgetting another.  `Swept` sums up what a piece
  of the `close_all` loop does, whatever registry it runs over.
  `CloseAllKeepsItsWord` is about a whole loop with suspensions in it.  `LoopOf` says
  of each `close_all` under way that what it owes is closed, or belongs to an adapter
  with overlapping closes, or is ahead of it in the registry.  The loop cannot pass an
  open client by: without overlap an adapter's open client is the one it has
  (`LostInv` again), and that one the loop closes at the adapter's first name.
* `ToolkitProofs`.  `EmptyingReported`: emptied files are told or being written; the invariant
  adds which stage the call is in.  `ForgottenForGood` needs that a forgotten memory
  is dead in the writer's table too, and that no forget is under way
  without a writer.  `RefusedForGood`: the invariant says that what was refused does
  not pass now, which stays so because neither the tokens charged nor the turns ever
  decrease, and that the checks that passed are no more than the turns counted.
  `RepeatsAreBounded` has an invariant that the pruner's history ends as the calls let through end; what was
  let through last is then that window and the call that found room in it, and two
  blocked calls fill the window.  `ToolkitImplementsParts`
  carries all four to the composition that is checked.
* `ContextProofs`.  `CacheNotStale`: every cached text is a part of something its file
  held since the file's last `invalidate`.  The property is inductive with the fact
  that what is on disk is in the history: an edit adds to the history, a miss takes
  what is on disk, and `invalidate` drops every key of the path, because a string
  starts with itself.  `IndexIsOfOneWalk`: `ExtractFinds` shows, by induction over
  the lines, that the scan with its running `current_class` finds exactly `Defines`,
  which is stated without a scan; `WalkInv` then says what the symbols are that a walk
  has found so far.  `SymbolIsShown` puts the index and the cache together: if the file is
  what both of them saw, the line the index names is in the window, cut at
  either edge of the file.  `ViewsFitBudgets` is arithmetic on two divisions and two
  cuts.
* Types.  `ChatTyping`, `OrchTyping`, `TuiTyping`, `BusTyped`, `AdaptersTyping`,
  `ToolkitTyped` and `ContextTyping` state the type invariant of every run.
* `Inductions`.  The library's induction theorems take an operator as a parameter,
  which the installed provers cannot instantiate.  Induction for a *set* of numbers
  follows from the theorem that the order of the naturals is well founded (a non-empty
  set has a least element), and with it the existence of functions defined by
  recursion.  So the recursive functions of the models (`Younger`, `Extract`, `Weights`)
  can be reasoned about.

Every safety property of every passing run is stated by a theorem.  Only
model-checked: liveness (`ChatEnds`, `HalfOpenResolves`, `RunEnds`,
`InputReturns`, `KeepsGranting`), because fairness and ENABLED are beyond the prover.

The assumptions are those of the modules, and each says what the code needs or
enforces: limits are naturals, with a threshold, an attempt, an iteration and a repeat
of at least one; an hour is no shorter than a minute, which is longer than nothing; the
pruner's history is no shorter than its window, as with its defaults; clients of
the limiter and submitted lines are finitely many, so that they can be counted; a path starts with
itself.  `MaxFailures`, `MaxClients`, `MaxLength`, `MaxHistory`, `MaxUsed` and `MaxCalls` bound
what TLC explores; the theorems hold for every value of them.

What the proofs and runs assume of the outside: httpx and SQLite behave as described in
`Adapters` and `Memory`; another program that saves a file writes it in one step.

## 5. Where the code and its documents disagree

`PROJECT.json` ("findings") quotes the lines.

1. A half-open breaker admits `half_open_max_calls + 1` calls (`half_open_limit`).
2. Tool calls beside a plain text are dropped, though the document of the
   orchestrator says a response completes a task only without calls (`dropped_calls`).
3. The calls of the Anthropic adapter are not in the schema the orchestrator
   reads (`anthropic_calls`).
4. Turns may overlap, and are then recorded in the wrong session (`one_turn`).
5. The checks of the `QuotaManager` take slots that nothing gives back (`quota_idle`).

Seen while modelling, and too plain to need a run:

* `MemoryStore.remember` raises for every memory (`core/memory/store.py:121`: nine
  columns, ten placeholders).
* `edit_file` "replaces content atomically"
  (`docs/superpowers/specs/2026-04-25-diff-preview-design.md:16`); it reads, then
  truncates, then writes, and what another program saves in between is lost without a
  word.  `EmptiedIsTold` states what does hold.
* `append_file` reports a success although the write failed, if it fails when the file
  is closed, which nobody does (`core/tools/__init__.py:360`).
* `_parse_response` also loses calls that no document speaks of: those embedded in an
  object that comes with others, and those after one that raises (`lost` of
  `Orchestrator`).
* `ActionCache.invalidate` compares a tool's name with keys that are hashes
  (`core/utils/action_cache.py:46`), so it drops nothing.

## 6. Plan

Done, in this order: the breaker, the chat that refines it, the loop, the screen over
it, the limiter, the context manager, the tool bus over the limiter, the adapters, the
file tools, the guards and the memories.  Left:

1. Proofs beyond the runs: that a `close_all` visits every name; what `recall` may
   answer while a transaction is open; the converse of `EmptiedIsTold`, that a failure is
   reported only of a file that a tool opened.
2. The capability cache with its time to live, once something in the program asks for
   capabilities; quotas and budget around the turns, once `create_toolbus` or the
   orchestrator installs them.

## 7. Not modelled

* Tool handlers other than those of `Files`: synchronous calls into git, docker,
  processes, the shell and the web, and directories.  In `Orchestrator` a handler
  returns or raises inside the loop's `try`; what it does outside the program is not
  the program's state.  The git tools ask for the branch in one process and act
  in the next (`core/tools/git.py:70`); the branch is changed by others in between, if at
  all.
* `ActionCache`: a dictionary nothing uses, whose `invalidate` has no effect.  The
  token counter: a pure function of an external tokenizer.
* `create_adapter`, capability probing and the negotiator: nothing asks for
  capabilities.
* Prompt text and its token budget: the session is always new, so only the task
  reaches the loop.
* Rendering, themes, the diff view, expanding, model switching and saving in the TUI.
* `ErrorBoundary`: used by tests only, it turns an exception into a default.
* Security predicates, signing and guardrails: stateless functions of strings
  with direct unit tests.
* Start-up and configuration: straight-line code.
* Who uses the guards: `create_toolbus` installs no `QuotaManager`, which the unit tests
  exercise; nothing in the repository, no test either, uses `BudgetGuard`, `ActionCache`
  or `StepPruner`.  Their models are of the classes, with calls in any
  order.
* The weak references asyncio keeps to tasks: that a task nobody refers to may be
  collected while it is suspended is the runtime's affair.
