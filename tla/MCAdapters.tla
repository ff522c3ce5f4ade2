------------------------------ MODULE MCAdapters ------------------------------
(***************************************************************************)
(* Instance of Adapters for TLC: two tasks over two adapters, registered   *)
(* under up to two names, with one role besides the default.               *)
(***************************************************************************)
EXTENDS Adapters, TLC

CONSTANTS t1, t2, openai, anthropic, fast, smart, planner

TwoTasks    == {t1, t2}
TwoAdapters == {openai, anthropic}
TwoNames    == {fast, smart}
OneRole     == {planner}

TasksAlike == Permutations(TwoTasks)
=============================================================================
