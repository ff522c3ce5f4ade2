------------------------------ MODULE MCToolkit -------------------------------
(***************************************************************************)
(* Instance of Toolkit for TLC: two files, three request sizes, three      *)
(* calls, two connections to two memories.                                 *)
(***************************************************************************)
EXTENDS Toolkit

CONSTANTS p1, p2, x, y, look, edit, test, session, tool, fact, skill

TwoPaths       == {p1, p2}
TwoMarks       == {x, y}
RequestSizes   == {1, 3, 6}
ThreeCalls     == {look, edit, test}
TwoConnections == {session, tool}
TwoMemories    == {fact, skill}
=============================================================================
