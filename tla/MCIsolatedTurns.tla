-------------------------- MODULE MCIsolatedTurns ---------------------------
(* A small instance: one owner who talks, resets and forgets.                *)
EXTENDS IsolatedTurns

CONSTANTS o1, talk1, forget1, reset1, n1, n2

MCOwners == {o1}
MCEvents == {talk1, forget1, reset1}
MCOwnerOf == [e \in Events |-> o1]
MCCommandOf == [e \in Events |-> CASE e = forget1 -> "forget" [] e = reset1 -> "reset" [] OTHER -> "talk"]
MCNames == {n1, n2}
=============================================================================
