---------------------------- MODULE MCRateLimiter -----------------------------
(***************************************************************************)
(* Instance of RateLimiter for TLC: a minute of two ticks, an hour of      *)
(* four, two clients, one tool and one session.                            *)
(***************************************************************************)
EXTENDS RateLimiter

CONSTANTS c1, c2, read, main

TwoClients == {c1, c2}
OneTool    == {read}
OneSession == {main}
FreeOrOne  == {0, 1}
=============================================================================
