------------------------------ MODULE MCToolBus -------------------------------
(***************************************************************************)
(* Instance of ToolBus for TLC: the limiter of MCRateLimiter, and two      *)
(* calls of a tool on a bus without quotas.                                *)
(***************************************************************************)
EXTENDS ToolBus

CONSTANTS c1, c2, read, main

TwoClients == {c1, c2}
OneTool    == {read}
OneSession == {main}
FreeOrOne  == {0, 1}
=============================================================================
