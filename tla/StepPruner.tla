------------------------------ MODULE StepPruner ------------------------------
(***************************************************************************)
(* core/utils/step_pruner.py: the history of tool calls that keeps a model *)
(* from repeating itself.  A call is its fingerprint, of tool and          *)
(* arguments.                                                              *)
(***************************************************************************)
EXTENDS Integers, Sequences, FiniteSets

CONSTANTS Calls, MaxRepeats, MaxCallHistory    \* max_repeats, max_history

ASSUME PrunerAssumption ==
    /\ MaxRepeats \in Nat \ {0}
    /\ MaxCallHistory \in Nat /\ MaxCallHistory >= 2 * MaxRepeats

VARIABLES callHistory,   \* _history
          uniqueCalls,   \* _unique_calls
          letThrough     \* history: the last 2 * MaxRepeats + 1 calls let through

prunerVars == <<callHistory, uniqueCalls, letThrough>>

Window == 2 * MaxRepeats

PrunerTypeOK ==
    /\ callHistory \in Seq(Calls) /\ Len(callHistory) <= MaxCallHistory
    /\ uniqueCalls \subseteq Calls
    /\ letThrough \in Seq(Calls) /\ Len(letThrough) <= Window + 1

PrunerInit ==
    /\ callHistory = << >>
    /\ uniqueCalls = {}
    /\ letThrough = << >>

\* The last n elements, as the slice [-n:] takes them.
LastOf(seq, n) == SubSeq(seq, IF Len(seq) > n THEN Len(seq) - n + 1 ELSE 1, Len(seq))

Kept(seq, call, n) == Append(seq, call)             \* variant: nothing dropped

\* The newest n elements of a history with one more.
Push(seq, call, n) == LastOf(Append(seq, call), n)

Count(seq, call) == Cardinality({i \in DOMAIN seq : seq[i] = call})

LastRepeats == LastOf(callHistory, MaxRepeats)      \* variant: half the window

Recent == LastOf(callHistory, Window)

Blocked(call) == Count(Recent, call) >= MaxRepeats

\* should_execute, answering True.
Execute(call) ==
    /\ ~Blocked(call)
    /\ callHistory' = Push(callHistory, call, MaxCallHistory)
    /\ uniqueCalls' = uniqueCalls \cup {call}
    /\ letThrough' = Push(letThrough, call, Window + 1)

\* should_execute, answering False: the refused call leaves no trace.
Block(call) == Blocked(call) /\ UNCHANGED prunerVars

Reset == callHistory' = << >> /\ uniqueCalls' = {} /\ letThrough' = << >>

PrunerNext == (\E call \in Calls : Execute(call) \/ Block(call)) \/ Reset

PrunerSpec == PrunerInit /\ [][PrunerNext]_prunerVars

-----------------------------------------------------------------------------

\* Among any 2 * MaxRepeats + 1 calls let through in a row none occurs more than
\* MaxRepeats times, although the history is cut, and although a refused call
\* stays refused until others are let through no more than two calls are refused
\* at a time: a model with a third call to make is not stopped.
RepeatsBounded ==
    /\ \A call \in Calls : Count(letThrough, call) <= MaxRepeats
    /\ Cardinality({call \in Calls : Blocked(call)}) <= 2
=============================================================================
