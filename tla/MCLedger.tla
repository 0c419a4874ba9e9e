------------------------------ MODULE MCLedger ------------------------------
(* Two processes, two keys and two operations: a key reused for another     *)
(* operation, a retry by the other process after a crash, and a third       *)
(* fault after both are within the bounds.                                  *)
EXTENDS Ledger, TLC

CONSTANTS p1, p2, k1, k2, o1, o2

MCProcesses == {p1, p2}
MCKeys == {k1, k2}
MCOps == {o1, o2}
MCSymmetry == Permutations(MCProcesses) \cup Permutations(MCKeys) \cup Permutations(MCOps)
=============================================================================
