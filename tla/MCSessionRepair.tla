-------------------------- MODULE MCSessionRepair ----------------------------
(***************************************************************************)
(* The log with two call ids, a turn or two, and a few crashes.            *)
(***************************************************************************)
EXTENDS SessionRepair

CONSTANTS c1, c2
MCCall == {c1, c2}
=============================================================================
