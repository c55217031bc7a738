------------------------------- MODULE MCInbox -------------------------------
(***************************************************************************)
(* The inbox over a few identities and a short log.                        *)
(***************************************************************************)
EXTENDS Inbox, TLC

CONSTANTS m1, m2, m3
MCMsg == {m1, m2, m3}
MCSymmetry == Permutations(MCMsg)
=============================================================================
