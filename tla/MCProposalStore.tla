--------------------------- MODULE MCProposalStore ---------------------------
(* Two tool calls of two senders, whose call ids may be the same: alone, each *)
(* run twice and with one power loss, and beside an editor.                   *)
EXTENDS ProposalStore, TLC

CONSTANTS c1, c2, ann, bob, x, y, ed

MCCalls == {c1, c2}
MCAccounts == {ann, bob}
MCCallIds == {1, 2}
MCTexts == {x, y}
MCEditors == {ed}
MCDesks == {[editors |-> {}, tries |-> 2, losses |-> 1], [editors |-> {ed}, tries |-> 2, losses |-> 0]}
MCSymmetry == Permutations(MCCalls) \cup Permutations(MCAccounts) \cup Permutations(MCTexts)
=============================================================================
