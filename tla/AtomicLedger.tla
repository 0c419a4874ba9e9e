---------------------------- MODULE AtomicLedger ----------------------------
(***************************************************************************)
(* What ledger.ts promises to the gateway processes that share a file: a   *)
(* log of transactions, at most one per idempotency key, of which a power  *)
(* loss may take back a tail, but never a transaction that was            *)
(* acknowledged to the caller that committed it.                           *)
(***************************************************************************)
EXTENDS Naturals, Sequences

CONSTANTS Keys, Ops

VARIABLES
  log,     \* the committed transactions, oldest first
  kept,    \* the lengths a power loss may cut the log to
  acked    \* keys acknowledged to the caller that committed them

vars == <<log, kept, acked>>

Init == log = <<>> /\ kept = {0} /\ acked = {}

Commit(k, o) ==
  /\ \A i \in DOMAIN log : log[i].key # k
  /\ log' = Append(log, [key |-> k, op |-> o, revision |-> Len(log) + 1])
  /\ kept' = kept \cup {Len(log) + 1}
  /\ UNCHANGED acked

\* The log reaches the disk, and the caller of its last transaction hears so.
Acknowledge ==
  /\ log # <<>>
  /\ kept' = {Len(log)}
  /\ acked' = acked \cup {log[Len(log)].key}
  /\ UNCHANGED log

Lose(n) ==
  /\ n \in kept
  /\ log' = SubSeq(log, 1, n)
  /\ kept' = {n}
  /\ UNCHANGED acked

Next ==
  \/ \E k \in Keys, o \in Ops : Commit(k, o)
  \/ Acknowledge
  \/ \E n \in kept : Lose(n)

Spec == Init /\ [][Next]_vars
=============================================================================
