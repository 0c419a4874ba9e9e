---------------------------- MODULE MCNoriUpdate ----------------------------
(* Two merges, of which the first may build a release that never becomes    *)
(* healthy.  A world is what its counters begin with: one with two failures *)
(* of the updater and a manual run, one with two failures of the reporter   *)
(* and an answer of GitHub that changes.                                    *)
EXTENDS Reporter

MCBroken == {1}

Worlds == {
  [faults |-> 0, manuals |-> 0, misses |-> 2, github |-> 1],
  [faults |-> 2, manuals |-> 1, misses |-> 0, github |-> 0]}

MCInit ==
  /\ ReporterBegin
  /\ \E w \in Worlds : /\ faults = w.faults /\ manuals = w.manuals
                       /\ misses = w.misses /\ github = w.github

MCSpec == MCInit /\ [][Next]_allVars /\ Fairness
=============================================================================
