---------------------------- MODULE LedgerProofs ----------------------------
(***************************************************************************)
(* Proofs about the rehearsal ledger, for every set of processes, keys and *)
(* operations and any number of faults.                                    *)
(***************************************************************************)
EXTENDS Ledger, TLAPS

\* A content the disk may have kept is a prefix of the file.
SurvivorsBehind ==
  /\ file \in survivors
  /\ \A c \in survivors : \A i \in DOMAIN c.audit :
       i \in DOMAIN file.audit /\ file.audit[i] = c.audit[i]

\* Between reading the file and renaming, nobody else has changed it.
NextFresh ==
  \A p \in Processes : pc[p] \in {"staged", "written"} =>
    /\ file.receipts[request[p].key] = NoReceipt
    /\ next[p] = NextContent(file, request[p])

\* After the rename, the last transaction of the file is the process's own.
RenamedOwn ==
  \A p \in Processes : pc[p] = "renamed" =>
    /\ file.audit # <<>>
    /\ file.audit[Len(file.audit)].key = request[p].key

IInv ==
  /\ TypeOK
  /\ MutualExclusion
  /\ LockNotLeaked
  /\ SurvivorsBehind
  /\ NextFresh
  /\ RenamedOwn
  /\ FileConsistent
  /\ PromiseKept

-----------------------------------------------------------------------------

\* What one transaction makes of a consistent content is a consistent content
\* whose audit is the old one and one entry more.
LEMMA NextContentConsistent ==
  ASSUME NEW c \in Contents, Consistent(c),
         NEW r \in [key : Keys, op : Ops],
         c.receipts[r.key] = NoReceipt
  PROVE  LET n == NextContent(c, r)
         IN  /\ n \in Contents
             /\ Consistent(n)
             /\ Len(n.audit) = Len(c.audit) + 1
             /\ n.audit = Append(c.audit, [key |-> r.key, op |-> r.op, revision |-> Len(c.audit) + 1])
             /\ n.audit[Len(n.audit)].key = r.key
             /\ \A i \in DOMAIN c.audit : n.audit[i] = c.audit[i]
             /\ \A k \in Keys : c.receipts[k] # NoReceipt => n.receipts[k] = c.receipts[k]
<1> DEFINE n == NextContent(c, r)
           e == [key |-> r.key, op |-> r.op, revision |-> c.revision + 1]
<1>1. c.audit \in Seq(Entries) /\ c.revision \in Nat /\ e \in Entries /\ c.revision = Len(c.audit)
  BY DEF Contents, Entries, Consistent
<1>2. n.audit = Append(c.audit, e) /\ n.audit \in Seq(Entries) /\ Len(n.audit) = Len(c.audit) + 1
  BY <1>1 DEF NextContent
<1>3. n.audit[Len(n.audit)] = e /\ (\A i \in DOMAIN c.audit : n.audit[i] = c.audit[i])
  BY <1>1, <1>2
<1>4. [op |-> r.op, revision |-> c.revision + 1] \in Receipts
  BY <1>1 DEF Receipts
<1>5. n.receipts \in [Keys -> Receipts \cup {NoReceipt}] /\ n.records \in [Keys -> Nat]
  BY <1>4 DEF NextContent, Contents
<1>6. n \in Contents
  BY <1>1, <1>2, <1>5 DEF NextContent, Contents
<1>7. \A k \in Keys : k # r.key => n.receipts[k] = c.receipts[k] /\ n.records[k] = c.records[k]
  BY DEF NextContent, Contents
<1>8. n.receipts[r.key] = [op |-> r.op, revision |-> c.revision + 1] /\ n.records[r.key] = c.records[r.key] + 1
  BY DEF NextContent, Contents
<1>9. Consistent(n)
  <2>1. n.revision = Len(n.audit)
    BY <1>1, <1>2 DEF NextContent
  <2>2. ASSUME NEW i \in DOMAIN n.audit
        PROVE  /\ n.audit[i].revision = i
               /\ n.receipts[n.audit[i].key] = [op |-> n.audit[i].op, revision |-> i]
    <3>1. CASE i \in DOMAIN c.audit
      <4>1. n.audit[i] = c.audit[i] /\ c.audit[i] \in Entries
        BY <3>1, <1>1, <1>3
      <4>2. c.audit[i].revision = i /\ c.receipts[c.audit[i].key] = [op |-> c.audit[i].op, revision |-> i]
        BY <3>1 DEF Consistent
      <4>3. [op |-> c.audit[i].op, revision |-> i] \in Receipts
        BY <3>1, <4>1, <1>1 DEF Receipts, Entries
      <4>4. c.audit[i].key # r.key /\ c.audit[i].key \in Keys
        BY <4>1, <4>2, <4>3, ConstantsAssumption DEF Entries, Receipts
      <4> QED
        BY <4>1, <4>2, <4>4, <1>7
    <3>2. CASE i = Len(n.audit)
      BY <3>2, <1>1, <1>2, <1>3, <1>8
    <3> QED
      BY <3>1, <3>2, <1>1, <1>2
  <2>3. ASSUME NEW k \in Keys
        PROVE  /\ n.receipts[k] # NoReceipt =>
                    /\ n.receipts[k].revision \in DOMAIN n.audit
                    /\ n.audit[n.receipts[k].revision].key = k
               /\ n.records[k] = IF n.receipts[k] = NoReceipt THEN 0 ELSE 1
    <3>1. CASE k = r.key
      BY <3>1, <1>1, <1>2, <1>3, <1>4, <1>8, ConstantsAssumption DEF Consistent, Receipts
    <3>2. CASE k # r.key
      BY <3>2, <1>1, <1>2, <1>3, <1>7 DEF Consistent
    <3> QED
      BY <3>1, <3>2
  <2> QED
    BY <2>1, <2>2, <2>3 DEF Consistent
<1> QED
  BY <1>1, <1>2, <1>3, <1>6, <1>7, <1>9

LEMMA InitInv == Init => IInv
<1> SUFFICES ASSUME Init PROVE IInv
  OBVIOUS
<1> USE ConstantsAssumption
<1>1. Empty \in Contents /\ Consistent(Empty)
  BY DEF Empty, Contents, Consistent, Receipts
<1>2. TypeOK
  BY <1>1 DEF Init, TypeOK
<1>3. MutualExclusion /\ LockNotLeaked /\ NextFresh /\ RenamedOwn
  BY DEF Init, MutualExclusion, LockNotLeaked, NextFresh, RenamedOwn, Critical
<1>4. SurvivorsBehind /\ FileConsistent /\ PromiseKept
  BY <1>1 DEF Init, SurvivorsBehind, FileConsistent, PromiseKept
<1> QED
  BY <1>2, <1>3, <1>4 DEF IInv

LEMMA StepInv == IInv /\ [Next]_vars => IInv'
<1> SUFFICES ASSUME IInv, [Next]_vars PROVE IInv'
  OBVIOUS
<1> USE ConstantsAssumption DEF IInv
<1>1. ASSUME NEW p \in Processes, NEW k \in Keys, NEW o \in Ops, Acquire(p, k, o)
      PROVE  IInv'
  <2> USE <1>1 DEF Acquire
  <2>1. TypeOK'
    BY DEF TypeOK, Critical
  <2>2. \A q \in Processes : pc[q] \notin Critical
    BY DEF LockNotLeaked
  <2>3. \A q \in Processes : q # p => pc'[q] = pc[q] /\ request'[q] = request[q]
    BY DEF TypeOK
  <2>4. MutualExclusion' /\ LockNotLeaked'
    BY <2>2 DEF MutualExclusion, LockNotLeaked, Critical, TypeOK
  <2>5. NextFresh' /\ RenamedOwn'
    BY <2>3 DEF NextFresh, RenamedOwn, TypeOK
  <2>6. SurvivorsBehind' /\ FileConsistent' /\ PromiseKept'
    BY DEF SurvivorsBehind, FileConsistent, PromiseKept
  <2> QED
    BY <2>1, <2>4, <2>5, <2>6
<1>2. ASSUME NEW p \in Processes, Replay(p)
      PROVE  IInv'
  <2> USE <1>2 DEF Replay
  <2>1. Receipt(p) \in Receipts
    BY DEF Receipt, TypeOK, Contents
  <2>2. TypeOK'
    BY <2>1 DEF TypeOK, Critical
  <2>3. \A q \in Processes : q # p => pc'[q] = pc[q]
    BY DEF TypeOK
  <2>4. MutualExclusion' /\ LockNotLeaked'
    BY DEF MutualExclusion, LockNotLeaked, Critical, TypeOK
  <2>5. NextFresh' /\ RenamedOwn'
    BY <2>3 DEF NextFresh, RenamedOwn, TypeOK
  <2>6. SurvivorsBehind' /\ FileConsistent' /\ PromiseKept'
    BY DEF SurvivorsBehind, FileConsistent, PromiseKept
  <2> QED
    BY <2>2, <2>4, <2>5, <2>6
<1>3. ASSUME NEW p \in Processes, Conflict(p) \/ ApplyThrows(p) \/ CallFails(p)
      PROVE  IInv'
  <2> USE <1>3 DEF Conflict, ApplyThrows, CallFails
  <2>1. TypeOK'
    BY DEF TypeOK, Critical
  <2>2. \A q \in Processes : q # p => pc'[q] = pc[q]
    BY DEF TypeOK
  <2>3. MutualExclusion' /\ LockNotLeaked'
    BY DEF MutualExclusion, LockNotLeaked, Critical, TypeOK
  <2>4. NextFresh' /\ RenamedOwn'
    BY <2>2 DEF NextFresh, RenamedOwn, TypeOK
  <2>5. SurvivorsBehind' /\ FileConsistent' /\ PromiseKept'
    BY DEF SurvivorsBehind, FileConsistent, PromiseKept
  <2> QED
    BY <2>1, <2>3, <2>4, <2>5
<1>4. ASSUME NEW p \in Processes, Apply(p)
      PROVE  IInv'
  <2> USE <1>4 DEF Apply
  <2>1. file \in Contents /\ Consistent(file) /\ request[p] \in [key : Keys, op : Ops]
    BY DEF TypeOK, FileConsistent
  <2>2. NextContent(file, request[p]) \in Contents
    BY <2>1, NextContentConsistent DEF Receipt
  <2>3. TypeOK'
    BY <2>2 DEF TypeOK, Critical
  <2>4. \A q \in Processes : q # p => pc'[q] = pc[q] /\ next'[q] = next[q]
    BY DEF TypeOK
  <2>5. MutualExclusion' /\ LockNotLeaked'
    BY DEF MutualExclusion, LockNotLeaked, Critical, TypeOK
  <2>6. NextFresh' /\ RenamedOwn'
    BY <2>4 DEF NextFresh, RenamedOwn, TypeOK, Receipt
  <2>7. SurvivorsBehind' /\ FileConsistent' /\ PromiseKept'
    BY DEF SurvivorsBehind, FileConsistent, PromiseKept
  <2> QED
    BY <2>3, <2>5, <2>6, <2>7
<1>5. ASSUME NEW p \in Processes, WriteTemp(p)
      PROVE  IInv'
  <2> USE <1>5 DEF WriteTemp
  <2>1. TypeOK'
    BY DEF TypeOK, Critical
  <2>2. \A q \in Processes : q # p => pc'[q] = pc[q]
    BY DEF TypeOK
  <2>3. MutualExclusion' /\ LockNotLeaked'
    BY DEF MutualExclusion, LockNotLeaked, Critical, TypeOK
  <2>4. NextFresh' /\ RenamedOwn'
    BY <2>2 DEF NextFresh, RenamedOwn, TypeOK
  <2>5. SurvivorsBehind' /\ FileConsistent' /\ PromiseKept'
    BY DEF SurvivorsBehind, FileConsistent, PromiseKept
  <2> QED
    BY <2>1, <2>3, <2>4, <2>5
<1>6. ASSUME NEW p \in Processes, Rename(p)
      PROVE  IInv'
  <2> USE <1>6 DEF Rename
  <2>1. file \in Contents /\ Consistent(file) /\ request[p] \in [key : Keys, op : Ops]
    BY DEF TypeOK, FileConsistent
  <2>2. file.receipts[request[p].key] = NoReceipt /\ file' = NextContent(file, request[p])
    BY DEF NextFresh
  <2>3. /\ file' \in Contents /\ Consistent(file')
        /\ Len(file'.audit) = Len(file.audit) + 1
        /\ file'.audit = Append(file.audit, [key |-> request[p].key, op |-> request[p].op,
                                             revision |-> Len(file.audit) + 1])
        /\ file'.audit[Len(file'.audit)].key = request[p].key
        /\ \A i \in DOMAIN file.audit : file'.audit[i] = file.audit[i]
        /\ \A k \in Keys : file.receipts[k] # NoReceipt => file'.receipts[k] = file.receipts[k]
    BY <2>1, <2>2, NextContentConsistent
  <2>4. file.audit \in Seq(Entries) /\ file'.audit \in Seq(Entries)
    BY <2>1, <2>3 DEF Contents
  <2>5. TypeOK'
    BY <2>3 DEF TypeOK, Critical
  <2>6. MutualExclusion' /\ LockNotLeaked'
    BY DEF MutualExclusion, LockNotLeaked, Critical, TypeOK
  <2>7. \A q \in Processes : q # p => pc'[q] = pc[q] /\ pc[q] \notin Critical
    BY DEF MutualExclusion, Critical, TypeOK
  <2>8. NextFresh'
    BY <2>7 DEF NextFresh, Critical, TypeOK
  <2>9. RenamedOwn'
    BY <2>3, <2>4, <2>7 DEF RenamedOwn, Critical, TypeOK
  <2>10. SurvivorsBehind'
    BY <2>3, <2>4 DEF SurvivorsBehind
  <2>11. FileConsistent'
    BY <2>3 DEF FileConsistent
  <2>12. PromiseKept'
    BY <2>3 DEF PromiseKept
  <2> QED
    BY <2>5, <2>6, <2>8, <2>9, <2>10, <2>11, <2>12
<1>7. ASSUME NEW p \in Processes, SyncDirectory(p)
      PROVE  IInv'
  <2> USE <1>7 DEF SyncDirectory
  <2>1. file \in Contents /\ Consistent(file) /\ request[p] \in [key : Keys, op : Ops]
    BY DEF TypeOK, FileConsistent
  <2>2. Receipt(p) \in Receipts \cup {NoReceipt}
    BY <2>1 DEF Receipt, Contents
  <2>3. TypeOK'
    BY <2>1, <2>2 DEF TypeOK, Critical
  <2>4. \A q \in Processes : q # p => pc'[q] = pc[q]
    BY DEF TypeOK
  <2>5. MutualExclusion' /\ LockNotLeaked'
    BY DEF MutualExclusion, LockNotLeaked, Critical, TypeOK
  <2>6. NextFresh' /\ RenamedOwn'
    BY <2>4 DEF NextFresh, RenamedOwn, TypeOK
  <2>7. SurvivorsBehind' /\ FileConsistent'
    BY <2>1 DEF SurvivorsBehind, FileConsistent
  <2>8. PromiseKept'
    BY DEF PromiseKept, Receipt, TypeOK
  <2> QED
    BY <2>3, <2>5, <2>6, <2>7, <2>8
<1>8. ASSUME NEW p \in Processes, Release(p) \/ Crash(p)
      PROVE  IInv'
  <2> USE <1>8 DEF Release, Crash
  <2>1. TypeOK'
    BY DEF TypeOK, Critical
  <2>2. \A q \in Processes : q # p => pc'[q] = pc[q] /\ pc[q] \notin Critical
    BY DEF MutualExclusion, Critical, TypeOK
  <2>3. pc'[p] = "idle"
    BY DEF TypeOK
  <2>4. MutualExclusion' /\ LockNotLeaked'
    BY <2>2, <2>3 DEF MutualExclusion, LockNotLeaked, Critical
  <2>5. NextFresh' /\ RenamedOwn'
    BY <2>2, <2>3 DEF NextFresh, RenamedOwn, Critical
  <2>6. SurvivorsBehind' /\ FileConsistent' /\ PromiseKept'
    BY DEF SurvivorsBehind, FileConsistent, PromiseKept
  <2> QED
    BY <2>1, <2>4, <2>5, <2>6
<1>9. CASE ClearStaleLock
  BY <1>9 DEF ClearStaleLock, TypeOK, MutualExclusion, LockNotLeaked, SurvivorsBehind,
              NextFresh, RenamedOwn, FileConsistent, PromiseKept
<1>10. CASE PowerLoss
  <2> USE <1>10 DEF PowerLoss
  <2>1. PICK c \in survivors : file' = c /\ survivors' = {c}
    OBVIOUS
  <2>2. c \in Contents /\ Consistent(c)
    BY DEF TypeOK, FileConsistent
  <2>3. \A q \in Processes : pc'[q] = "idle"
    OBVIOUS
  <2>4. TypeOK'
    BY <2>1, <2>2 DEF TypeOK
  <2>5. MutualExclusion' /\ LockNotLeaked' /\ NextFresh' /\ RenamedOwn'
    BY <2>3 DEF MutualExclusion, LockNotLeaked, NextFresh, RenamedOwn, Critical
  <2>6. SurvivorsBehind' /\ FileConsistent' /\ PromiseKept'
    BY <2>1, <2>2 DEF SurvivorsBehind, FileConsistent, PromiseKept
  <2> QED
    BY <2>4, <2>5, <2>6
<1>11. CASE UNCHANGED vars
  BY <1>11 DEF vars, TypeOK, MutualExclusion, LockNotLeaked, SurvivorsBehind,
               NextFresh, RenamedOwn, FileConsistent, PromiseKept
<1> QED
  BY <1>1, <1>2, <1>3, <1>4, <1>5, <1>6, <1>7, <1>8, <1>9, <1>10, <1>11 DEF Next, Step

-----------------------------------------------------------------------------

THEOREM Invariance == Spec => []IInv
<1>1. Init => IInv
  BY InitInv
<1>2. IInv /\ [Next]_vars => IInv'
  BY StepInv
<1> QED
  BY <1>1, <1>2, PTL DEF Spec

\* Every variable of the ledger keeps its type.
THEOREM TypeCorrect == Spec => []TypeOK
<1>1. IInv => TypeOK
  BY DEF IInv
<1> QED
  BY <1>1, Invariance, PTL

\* The lock directory keeps the sections of transact() apart, and only a
\* crash or a power loss leaves it behind without a live holder.
THEOREM Exclusion == Spec => [](MutualExclusion /\ LockNotLeaked)
<1>1. IInv => MutualExclusion /\ LockNotLeaked
  BY DEF IInv
<1> QED
  BY <1>1, Invariance, PTL

\* The file, and every content a power loss may leave in its place, holds
\* projections, receipts and audit of one and the same revision, with every
\* key applied exactly once.
THEOREM Consistency == Spec => []FileConsistent
<1>1. IInv => FileConsistent
  BY DEF IInv
<1> QED
  BY <1>1, Invariance, PTL

\* The receipt a committing transact() returned stays in the file for ever.
THEOREM Durability == Spec => []PromiseKept
<1>1. IInv => PromiseKept
  BY DEF IInv
<1> QED
  BY <1>1, Invariance, PTL

-----------------------------------------------------------------------------

LEMMA InitRefines == Init => Atomic!Init
<1> SUFFICES ASSUME Init PROVE Atomic!Init
  OBVIOUS
<1>1. file.audit = <<>>
  BY DEF Init, Empty
<1>2. {c.revision : c \in survivors} = {0}
  BY DEF Init, Empty
<1>3. {k \in Keys : promised[k] # NoReceipt} = {}
  BY DEF Init
<1> QED
  BY <1>1, <1>2, <1>3 DEF Atomic!Init

LEMMA StepRefines == IInv /\ [Next]_vars => [Atomic!Next]_(Atomic!vars)
<1> DEFINE kept == {c.revision : c \in survivors}
           acked == {k \in Keys : promised[k] # NoReceipt}
<1> SUFFICES ASSUME IInv, [Next]_vars PROVE [Atomic!Next]_(Atomic!vars)
  OBVIOUS
<1> USE ConstantsAssumption
<1>1. file \in Contents /\ Consistent(file) /\ file.audit \in Seq(Entries)
  BY DEF IInv, TypeOK, FileConsistent, Contents
<1>2. ASSUME file' = file, survivors' = survivors, promised' = promised
      PROVE  UNCHANGED Atomic!vars
  BY <1>2 DEF Atomic!vars
<1>3. ASSUME NEW p \in Processes, Rename(p)
      PROVE  Atomic!Next
  <2> USE <1>3 DEF Rename
  <2> DEFINE r == request[p]
  <2>1. r \in [key : Keys, op : Ops]
    BY DEF IInv, TypeOK
  <2>2. file.receipts[r.key] = NoReceipt /\ file' = NextContent(file, r) /\ next[p] = file'
    BY DEF IInv, NextFresh
  <2>3. file'.audit = Append(file.audit, [key |-> r.key, op |-> r.op, revision |-> Len(file.audit) + 1])
    BY <1>1, <2>1, <2>2, NextContentConsistent
  <2>4. \A i \in DOMAIN file.audit : file.audit[i].key # r.key
    <3> SUFFICES ASSUME NEW i \in DOMAIN file.audit, file.audit[i].key = r.key PROVE FALSE
      OBVIOUS
    <3>1. file.receipts[r.key] = [op |-> file.audit[i].op, revision |-> i]
      BY <1>1 DEF Consistent
    <3>2. file.audit[i] \in Entries /\ i \in Nat
      BY <1>1
    <3>3. [op |-> file.audit[i].op, revision |-> i] \in Receipts
      BY <3>2 DEF Entries, Receipts
    <3> QED
      BY <2>2, <3>1, <3>3 DEF Receipts
  <2>5. file'.revision = Len(file.audit) + 1
    BY <1>1, <2>2 DEF NextContent, Consistent
  <2>6. kept' = kept \cup {Len(file.audit) + 1}
    BY <2>2, <2>5
  <2>7. r.key \in Keys /\ r.op \in Ops
    BY <2>1
  <2>8. \E k \in Keys, o \in Ops : Atomic!Commit(k, o)
    BY <2>3, <2>4, <2>6, <2>7 DEF Atomic!Commit
  <2> QED
    BY <2>8 DEF Atomic!Next
<1>4. ASSUME NEW p \in Processes, SyncDirectory(p)
      PROVE  Atomic!Next
  <2> USE <1>4 DEF SyncDirectory
  <2> DEFINE r == request[p]
  <2>1. r \in [key : Keys, op : Ops] /\ promised \in [Keys -> Receipts \cup {NoReceipt}]
    BY DEF IInv, TypeOK
  <2>2. file.audit # <<>> /\ file.audit[Len(file.audit)].key = r.key
    BY DEF IInv, RenamedOwn
  <2>3. Len(file.audit) \in DOMAIN file.audit
    BY <1>1, <2>2
  <2>4. file.receipts[r.key] = [op |-> file.audit[Len(file.audit)].op, revision |-> Len(file.audit)]
    BY <1>1, <2>2, <2>3 DEF Consistent
  <2>5. [op |-> file.audit[Len(file.audit)].op, revision |-> Len(file.audit)] \in Receipts
    <3>1. file.audit[Len(file.audit)] \in Entries /\ Len(file.audit) \in Nat
      BY <1>1, <2>3
    <3> QED
      BY <3>1 DEF Entries, Receipts
  <2>6. Receipt(p) # NoReceipt
    BY <2>4, <2>5 DEF Receipt, Receipts
  <2>7. acked' = acked \cup {r.key}
    BY <2>1, <2>6
  <2>8. kept' = {Len(file.audit)}
    BY <1>1 DEF Consistent
  <2>9. Atomic!Acknowledge
    BY <2>2, <2>7, <2>8 DEF Atomic!Acknowledge
  <2> QED
    BY <2>9 DEF Atomic!Next
<1>5. CASE PowerLoss
  <2> USE <1>5 DEF PowerLoss
  <2>1. PICK c \in survivors : file' = c /\ survivors' = {c}
    OBVIOUS
  <2>2. c \in Contents /\ Consistent(c) /\ c.audit \in Seq(Entries)
    BY DEF IInv, TypeOK, FileConsistent, Contents
  <2>3. \A i \in DOMAIN c.audit : i \in DOMAIN file.audit /\ file.audit[i] = c.audit[i]
    BY DEF IInv, SurvivorsBehind
  <2>4. c.revision = Len(c.audit) /\ Len(c.audit) <= Len(file.audit)
    BY <1>1, <2>2, <2>3 DEF Consistent
  <2>5. c.audit = SubSeq(file.audit, 1, c.revision)
    BY <1>1, <2>2, <2>3, <2>4
  <2>6. c.revision \in kept /\ kept' = {c.revision}
    BY <2>1
  <2>7. Atomic!Lose(c.revision)
    BY <2>1, <2>5, <2>6 DEF Atomic!Lose
  <2> QED
    BY <2>6, <2>7 DEF Atomic!Next
<1>6. ASSUME NEW p \in Processes, NEW k \in Keys, NEW o \in Ops, Acquire(p, k, o)
      PROVE  UNCHANGED Atomic!vars
  BY <1>2, <1>6 DEF Acquire
<1>7. ASSUME NEW p \in Processes,
             Replay(p) \/ Conflict(p) \/ Apply(p) \/ ApplyThrows(p) \/ WriteTemp(p)
               \/ Release(p) \/ CallFails(p) \/ Crash(p)
      PROVE  UNCHANGED Atomic!vars
  BY <1>2, <1>7 DEF Replay, Conflict, Apply, ApplyThrows, WriteTemp, Release, CallFails, Crash
<1>8. CASE ClearStaleLock
  BY <1>2, <1>8 DEF ClearStaleLock
<1>9. CASE UNCHANGED vars
  BY <1>2, <1>9 DEF vars
<1> QED
  BY <1>3, <1>4, <1>5, <1>6, <1>7, <1>8, <1>9 DEF Next, Step

\* The ledger implements the atomic log: at most one transaction per key, and
\* no fault takes back one that was acknowledged to its committer.
THEOREM Refinement == Spec => AtomicSpec
<1>1. Init => Atomic!Init
  BY InitRefines
<1>2. IInv /\ [Next]_vars => [Atomic!Next]_(Atomic!vars)
  BY StepRefines
<1> QED
  BY <1>1, <1>2, Invariance, PTL DEF Spec, AtomicSpec, Atomic!Spec
=============================================================================
