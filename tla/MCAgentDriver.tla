--------------------------- MODULE MCAgentDriver ---------------------------
(***************************************************************************)
(* The driver on a small instance: a few messages, one step beyond the     *)
(* first that may call tools or bring context.                             *)
(***************************************************************************)
EXTENDS AgentDriver

CONSTANTS m1, m2, m3
MCMsg == {m1, m2, m3}
=============================================================================
