--------------------------- MODULE MCResilientChat ----------------------------
(***************************************************************************)
(* Instance of ResilientChat for TLC: three tasks, a breaker that opens at *)
(* two failures and lets one counted call through when half-open, and a    *)
(* retry loop of two attempts.                                             *)
(***************************************************************************)
EXTENDS ResilientChat

CONSTANTS c1, c2, c3

ThreeCallers == {c1, c2, c3}
=============================================================================
