------------------------------- MODULE Ledger -------------------------------
(***************************************************************************)
(* The rehearsal ledger of plugins/rein-operations/ledger.ts: one JSON     *)
(* file with projections, receipts and audit, replaced by an atomic rename *)
(* under an exclusive lock directory.                                      *)
(*                                                                         *)
(* transact() is synchronous, so the interleaving is between gateway       *)
(* processes: each file-system call of transact() is one step.  Processes  *)
(* crash between any two of them, any write, rename or fsync may fail, and *)
(* a power loss may undo a rename whose directory was not yet fsynced.     *)
(***************************************************************************)
EXTENDS Naturals, Sequences

CONSTANTS
  Processes,   \* gateway processes that share the ledger file
  Keys,        \* idempotency keys
  Ops,         \* (actor, action) pairs a key can be used with
  NoReceipt,   \* the value of a key without a receipt
  MaxFaults,        \* bound on crashes and failed calls
  MaxPowerLosses    \* bound on power losses

ASSUME ConstantsAssumption ==
  /\ NoReceipt \notin [op : Ops, revision : Nat]
  /\ MaxFaults \in Nat
  /\ MaxPowerLosses \in Nat

VARIABLES
  file,        \* the content read() returns: revision, records, receipts, audit
  survivors,   \* the contents a power loss may leave behind
  lock,        \* the lock directory: "free", "held" or "stale" (its maker died)
  pc,          \* where each process is inside transact()
  request,     \* the key and operation each process transacts
  next,        \* the `next` object each process built from what it read
  promised,    \* per key, the receipt returned by the transact() that wrote it
  replayed,    \* per key, the receipts returned by a transact() that found it
  faults,      \* crashes and failed calls so far
  powerLosses  \* power losses so far

vars == <<file, survivors, lock, pc, request, next, promised, replayed,
          faults, powerLosses>>

Receipts == [op : Ops, revision : Nat]
Entries  == [key : Keys, op : Ops, revision : Nat]
Contents == [revision : Nat, records : [Keys -> Nat],
             receipts : [Keys -> Receipts \cup {NoReceipt}], audit : Seq(Entries)]

\* The program points at which the process holds the lock directory.
Critical == {"locked", "staged", "written", "renamed", "closing"}

Empty == [revision |-> 0, records |-> [k \in Keys |-> 0],
          receipts |-> [k \in Keys |-> NoReceipt], audit |-> <<>>]

TypeOK ==
  /\ file \in Contents
  /\ survivors \in SUBSET Contents
  /\ lock \in {"free", "held", "stale"}
  /\ pc \in [Processes -> Critical \cup {"idle"}]
  /\ request \in [Processes -> [key : Keys, op : Ops]]
  /\ next \in [Processes -> Contents]
  /\ promised \in [Keys -> Receipts \cup {NoReceipt}]
  /\ replayed \in [Keys -> SUBSET Receipts]
  /\ faults \in 0..MaxFaults
  /\ powerLosses \in 0..MaxPowerLosses

Init ==
  /\ file = Empty
  /\ survivors = {Empty}
  /\ lock = "free"
  /\ pc = [p \in Processes |-> "idle"]
  /\ request \in [Processes -> [key : Keys, op : Ops]]
  /\ next = [p \in Processes |-> Empty]
  /\ promised = [k \in Keys |-> NoReceipt]
  /\ replayed = [k \in Keys |-> {}]
  /\ faults = 0
  /\ powerLosses = 0

-----------------------------------------------------------------------------
(* transact(), one action per file-system call.  A caller that finds the   *)
(* lock directory gets EEXIST and nothing changes: no action is needed.    *)

\* Mutant: mkdir without the exclusive creation, an existing directory is fine.
AcquireNotExclusive(p, k, o) ==
  /\ pc[p] = "idle"
  /\ lock' = "held"
  /\ pc' = [pc EXCEPT ![p] = "locked"]
  /\ request' = [request EXCEPT ![p] = [key |-> k, op |-> o]]
  /\ UNCHANGED <<file, survivors, next, promised, replayed, faults, powerLosses>>

\* mkdirSync(lock): exclusive creation of the lock directory.
Acquire(p, k, o) ==
  /\ pc[p] = "idle"
  /\ lock = "free"
  /\ lock' = "held"
  /\ pc' = [pc EXCEPT ![p] = "locked"]
  /\ request' = [request EXCEPT ![p] = [key |-> k, op |-> o]]
  /\ UNCHANGED <<file, survivors, next, promised, replayed, faults, powerLosses>>

Receipt(p) == file.receipts[request[p].key]

\* The key has a receipt of the same operation: the caller gets it back.
Replay(p) ==
  /\ pc[p] = "locked"
  /\ Receipt(p) # NoReceipt
  /\ Receipt(p).op = request[p].op
  /\ replayed' = [replayed EXCEPT ![request[p].key] = @ \cup {Receipt(p)}]
  /\ pc' = [pc EXCEPT ![p] = "closing"]
  /\ UNCHANGED <<file, survivors, lock, request, next, promised, faults, powerLosses>>

\* The key belongs to another operation: idempotency_conflict.
Conflict(p) ==
  /\ pc[p] = "locked"
  /\ Receipt(p) # NoReceipt
  /\ Receipt(p).op # request[p].op
  /\ pc' = [pc EXCEPT ![p] = "closing"]
  /\ UNCHANGED <<file, survivors, lock, request, next, promised, replayed, faults, powerLosses>>

\* Mutant: the receipt is stamped with the revision that was read.
NextContentStale(c, r) ==
  [revision |-> c.revision + 1,
   records  |-> [c.records EXCEPT ![r.key] = @ + 1],
   receipts |-> [c.receipts EXCEPT ![r.key] = [op |-> r.op, revision |-> c.revision]],
   audit    |-> Append(c.audit, [key |-> r.key, op |-> r.op, revision |-> c.revision + 1])]

\* The `next` object: what apply() made of a clone of the records, the
\* receipt of this transaction and its audit entry.
NextContent(c, r) ==
  [revision |-> c.revision + 1,
   records  |-> [c.records EXCEPT ![r.key] = @ + 1],
   receipts |-> [c.receipts EXCEPT ![r.key] = [op |-> r.op, revision |-> c.revision + 1]],
   audit    |-> Append(c.audit, [key |-> r.key, op |-> r.op, revision |-> c.revision + 1])]

Apply(p) ==
  /\ pc[p] = "locked"
  /\ Receipt(p) = NoReceipt
  /\ next' = [next EXCEPT ![p] = NextContent(file, request[p])]
  /\ pc' = [pc EXCEPT ![p] = "staged"]
  /\ UNCHANGED <<file, survivors, lock, request, promised, replayed, faults, powerLosses>>

\* apply() throws: the clone is dropped and the lock released.
ApplyThrows(p) ==
  /\ pc[p] = "locked"
  /\ Receipt(p) = NoReceipt
  /\ pc' = [pc EXCEPT ![p] = "closing"]
  /\ UNCHANGED <<file, survivors, lock, request, next, promised, replayed, faults, powerLosses>>

\* The temporary file is written and fsynced under a name of its own.
WriteTemp(p) ==
  /\ pc[p] = "staged"
  /\ pc' = [pc EXCEPT ![p] = "written"]
  /\ UNCHANGED <<file, survivors, lock, request, next, promised, replayed, faults, powerLosses>>

\* renameSync(temp, file): visible at once, durable only after the fsync.
Rename(p) ==
  /\ pc[p] = "written"
  /\ file' = next[p]
  /\ survivors' = survivors \cup {next[p]}
  /\ pc' = [pc EXCEPT ![p] = "renamed"]
  /\ UNCHANGED <<lock, request, next, promised, replayed, faults, powerLosses>>

\* Mutant: the receipt is returned without the fsync of the directory.
SyncDirectorySkipped(p) ==
  /\ pc[p] = "renamed"
  /\ promised' = [promised EXCEPT ![request[p].key] = Receipt(p)]
  /\ pc' = [pc EXCEPT ![p] = "closing"]
  /\ UNCHANGED <<file, survivors, lock, request, next, replayed, faults, powerLosses>>

\* fsync of the directory; the call then returns the receipt to its caller.
SyncDirectory(p) ==
  /\ pc[p] = "renamed"
  /\ survivors' = {file}
  /\ promised' = [promised EXCEPT ![request[p].key] = Receipt(p)]
  /\ pc' = [pc EXCEPT ![p] = "closing"]
  /\ UNCHANGED <<file, lock, request, next, replayed, faults, powerLosses>>

\* The outer finally removes the lock directory.
Release(p) ==
  /\ pc[p] = "closing"
  /\ lock' = "free"
  /\ pc' = [pc EXCEPT ![p] = "idle"]
  /\ UNCHANGED <<file, survivors, request, next, promised, replayed, faults, powerLosses>>

-----------------------------------------------------------------------------
(* Faults.                                                                 *)

\* A write, rename or fsync throws: both finally blocks run.  After the
\* rename the caller gets an error although the transaction is in the file.
CallFails(p) ==
  /\ faults < MaxFaults
  /\ pc[p] \in {"staged", "written", "renamed"}
  /\ pc' = [pc EXCEPT ![p] = "closing"]
  /\ faults' = faults + 1
  /\ UNCHANGED <<file, survivors, lock, request, next, promised, replayed, powerLosses>>

\* The process dies inside transact(): no finally runs, the lock stays.
Crash(p) ==
  /\ faults < MaxFaults
  /\ pc[p] \in Critical
  /\ pc' = [pc EXCEPT ![p] = "idle"]
  /\ lock' = "stale"
  /\ faults' = faults + 1
  /\ UNCHANGED <<file, survivors, request, next, promised, replayed, powerLosses>>

\* An operator inspects a stale lock and removes it.
ClearStaleLock ==
  /\ lock = "stale"
  /\ lock' = "free"
  /\ UNCHANGED <<file, survivors, pc, request, next, promised, replayed, faults, powerLosses>>

\* Every process dies and the file system comes back with one of the
\* contents it may have kept; the lock directory may or may not be there.
PowerLoss ==
  /\ powerLosses < MaxPowerLosses
  /\ powerLosses' = powerLosses + 1
  /\ \E c \in survivors : file' = c /\ survivors' = {c}
  /\ lock' \in {"free", "stale"}
  /\ pc' = [p \in Processes |-> "idle"]
  /\ UNCHANGED <<request, next, promised, replayed, faults>>

Step(p) ==
  \/ Replay(p) \/ Conflict(p) \/ Apply(p) \/ ApplyThrows(p)
  \/ WriteTemp(p) \/ Rename(p) \/ SyncDirectory(p) \/ Release(p)

Next ==
  \/ \E p \in Processes, k \in Keys, o \in Ops : Acquire(p, k, o)
  \/ \E p \in Processes : Step(p) \/ CallFails(p) \/ Crash(p)
  \/ ClearStaleLock
  \/ PowerLoss

Spec == Init /\ [][Next]_vars

-----------------------------------------------------------------------------
(* Properties.                                                             *)

\* Two processes are never inside the locked section of transact() together.
MutualExclusion ==
  \A p, q \in Processes : pc[p] \in Critical /\ pc[q] \in Critical => p = q

\* A lock directory nobody is using was left by a crash: an error path of
\* transact() never leaks it.
LockNotLeaked == (lock = "held") <=> (\E p \in Processes : pc[p] \in Critical)

\* One content is consistent: revision, receipts, audit and the effect of
\* apply() on the records tell the same story.
Consistent(c) ==
  /\ c.revision = Len(c.audit)
  /\ \A i \in DOMAIN c.audit :
       /\ c.audit[i].revision = i
       /\ c.receipts[c.audit[i].key] = [op |-> c.audit[i].op, revision |-> i]
  /\ \A k \in Keys :
       /\ c.receipts[k] # NoReceipt =>
            /\ c.receipts[k].revision \in DOMAIN c.audit
            /\ c.audit[c.receipts[k].revision].key = k
       /\ c.records[k] = IF c.receipts[k] = NoReceipt THEN 0 ELSE 1

\* "A completed transaction cannot leave them at different revisions"
\* (ledger.ts:13): what is in the file, and whatever a power loss may leave,
\* is consistent, and every key was applied exactly once.
FileConsistent == \A c \in survivors \cup {file} : Consistent(c)

\* A receipt returned by a committing transact() is never lost, whatever
\* crashes, failed calls or power losses follow.
PromiseKept ==
  \A c \in survivors \cup {file}, k \in Keys :
    promised[k] # NoReceipt => c.receipts[k] = promised[k]

-----------------------------------------------------------------------------
(* Refinement.  The audit is the log; the promised keys are acknowledged.  *)

Atomic == INSTANCE AtomicLedger WITH
  log   <- file.audit,
  kept  <- {c.revision : c \in survivors},
  acked <- {k \in Keys : promised[k] # NoReceipt}

\* The locked, renamed and fsynced file implements the atomic ledger.
AtomicSpec == Atomic!Spec
=============================================================================
