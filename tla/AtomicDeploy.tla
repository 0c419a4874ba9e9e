---------------------------- MODULE AtomicDeploy ----------------------------
(***************************************************************************)
(* What deploy/nori-update.py promises to the users of the service: one    *)
(* live release, replaced in one step by a newer one that came up healthy. *)
(***************************************************************************)
EXTENDS Naturals

CONSTANTS Revisions, Broken

VARIABLE live

Init == live = 0

Deploy(r) ==
  /\ r > live
  /\ r \notin Broken
  /\ live' = r

Next == \E r \in Revisions : Deploy(r)

Spec == Init /\ [][Next]_live
=============================================================================
