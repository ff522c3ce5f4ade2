-------------------------------- MODULE MCTui ---------------------------------
(***************************************************************************)
(* Instance of Tui for TLC: two submitted tasks, runs of at most two       *)
(* requests and an adapter with or without a tool call.                    *)
(***************************************************************************)
EXTENDS Tui

CONSTANTS t1, t2

TwoTasks   == {t1, t2}
OneCall    == {{}, {"function"}}
NoneInside == {{}}
=============================================================================
