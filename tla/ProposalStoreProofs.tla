------------------------- MODULE ProposalStoreProofs -------------------------
(***************************************************************************)
(* Proofs about the proposal store, for any number of calls, accounts,     *)
(* editors, retries and power losses.                                      *)
(***************************************************************************)
EXTENDS ProposalStore, TLAPS

Versions == [by : Accounts \cup Editors, text : Texts]
States   == Seq(Seq(Versions))

Keys ==
  (Accounts \X Actions \X CallIds) \cup ({"save"} \X Nat \X States)

Transactions ==
  [key : Keys, revision : Nat,
   op : [ask : Asks \cup {None},
         label : (Actions \X ((1..MaxDrafts) \cup {None}) \X Texts) \cup {<<"save">>},
         ok : BOOLEAN, draft : Nat \cup {None}, version : Nat \cup {None}, drafts : States]]

-----------------------------------------------------------------------------
(* A log of states, each with every version of those before it.            *)

Begins(s, t) == Len(s) <= Len(t) /\ \A i \in 1..Len(s) : s[i] = t[i]
Later(s, t)  == \A d \in DOMAIN s : d \in DOMAIN t /\ Begins(s[d], t[d])
Has(s, d, v) == d \in DOMAIN s /\ v \in DOMAIN s[d]

\* A transaction of a tool call: its receipt, and the version it made.
Called(t) ==
  /\ t.op.ask \in Asks /\ t.key = Key(t.op.ask) /\ t.op.label = Label(t.op.ask)
  /\ t.op.ok => /\ Has(t.op.drafts, t.op.draft, t.op.version)
                /\ t.op.drafts[t.op.draft][t.op.version] = Version(t.op.ask)

\* One of save(): the state is part of its key.
Saved(t) == t.key = <<"save", t.key[2], t.op.drafts>>

\* Every transaction has a key of its own and every version of those before it, and
\* the version a call made is in none of those.
Chain(l) ==
  /\ \A i \in DOMAIN l : Called(l[i]) \/ Saved(l[i])
  /\ \A i, j \in DOMAIN l : l[i].key = l[j].key => i = j
  /\ \A i, j \in DOMAIN l : i <= j => Later(l[i].op.drafts, l[j].op.drafts)
  /\ \A i, j \in DOMAIN l : i < j /\ Called(l[j]) /\ l[j].op.ok =>
       ~ Has(l[i].op.drafts, l[j].op.draft, l[j].op.version)

LedgerInv ==
  /\ log \in Seq(Transactions)
  /\ kept \in SUBSET (0..Len(log))
  /\ losses \in Nat
  /\ Chain(log)

-----------------------------------------------------------------------------
(* The callers                                                             *)

CallsInv ==
  /\ calls \in [Calls -> [pc : {"idle", "asked", "written", "failed", "over"}, tries : Nat, ask : Asks \cup {None}]]
  /\ \A c \in Calls : calls[c].pc \in {"asked", "written", "failed"} => calls[c].ask \in Asks

\* The holder of the lock wrote the last transaction.
HolderInv ==
  /\ holder \in Callers \cup {None}
  /\ holder # None => log # <<>>
  /\ holder \in Calls => Called(log[Len(log)]) /\ calls[holder].pc = "written"

Copies == [pc : {"unloaded", "loaded", "edited", "failed", "refused", "over"}, revision : Nat, drafts : States]

\* A copy has every version of the state it was loaded from.
CopiesInv ==
  /\ copy \in [Editors -> Copies]
  /\ \A e \in Editors :
       /\ copy[e].revision <= Len(log)
       /\ copy[e].revision > 0 => Later(log[copy[e].revision].op.drafts, copy[e].drafts)

-----------------------------------------------------------------------------
(* The answers                                                             *)

\* The transaction an answer names is there, and is what it says.
Recorded(answer) ==
  /\ answer.revision \in DOMAIN log
  /\ answer.by \in Editors => log[answer.revision].op.drafts = answer.drafts
  /\ answer.by \in Calls =>
       LET t == log[answer.revision] IN
         /\ Called(t)
         /\ answer.ask = t.op.ask /\ answer.ok = t.op.ok
         /\ answer.draft = t.op.draft /\ answer.version = t.op.version

\* A first answer is given of what no power loss takes back.
ToldInv ==
  \A answer \in told :
    /\ answer.replayed \in BOOLEAN
    /\ losses = 0 => Recorded(answer)
    /\ ~ answer.replayed => Recorded(answer) /\ \A n \in kept : answer.revision <= n

StoreInv == LedgerInv /\ CallsInv /\ HolderInv /\ CopiesInv /\ ToldInv

-----------------------------------------------------------------------------
(* States, and the core on them                                            *)

LEMMA LaterReflexive ==
  ASSUME NEW s \in States
  PROVE  Later(s, s)
BY DEF Later, Begins, States

LEMMA LaterTransitive ==
  ASSUME NEW s \in States, NEW t \in States, NEW u \in States, Later(s, t), Later(t, u)
  PROVE  Later(s, u)
<1> SUFFICES ASSUME NEW d \in DOMAIN s
             PROVE  d \in DOMAIN u /\ Begins(s[d], u[d])
  BY DEF Later
<1>1. d \in DOMAIN t /\ d \in DOMAIN u /\ Begins(s[d], t[d]) /\ Begins(t[d], u[d])
  BY DEF Later
<1>2. s[d] \in Seq(Versions) /\ t[d] \in Seq(Versions) /\ u[d] \in Seq(Versions)
  BY <1>1 DEF States
<1> QED
  BY <1>1, <1>2 DEF Begins

LEMMA LaterHas ==
  ASSUME NEW s \in States, NEW t \in States, Later(s, t), NEW d, NEW v, Has(s, d, v)
  PROVE  Has(t, d, v) /\ t[d][v] = s[d][v]
<1>1. d \in DOMAIN s /\ d \in DOMAIN t /\ Begins(s[d], t[d]) /\ v \in DOMAIN s[d]
  BY DEF Later, Has
<1>2. s[d] \in Seq(Versions) /\ t[d] \in Seq(Versions)
  BY <1>1 DEF States
<1> QED
  BY <1>1, <1>2 DEF Begins, Has

\* A draft more at the end.
LEMMA AppendLater ==
  ASSUME NEW s \in States, NEW draft \in Seq(Versions)
  PROVE  Append(s, draft) \in States /\ Later(s, Append(s, draft))
<1>1. Append(s, draft) \in States
  BY DEF States
<1>2. \A d \in DOMAIN s : d \in DOMAIN Append(s, draft) /\ Append(s, draft)[d] = s[d]
  BY DEF States
<1>3. \A d \in DOMAIN s : Begins(s[d], s[d])
  BY DEF States, Begins
<1> QED
  BY <1>1, <1>2, <1>3 DEF Later

\* The core keeps every version there is, and what it makes is the call's.
LEMMA RunGrows ==
  ASSUME NEW ask \in Asks, NEW s \in States, NEW ran, ran = Run(ask, s)
  PROVE  /\ ran.ok \in BOOLEAN /\ ran.drafts \in States
         /\ ran.draft \in Nat \cup {None} /\ ran.version \in Nat \cup {None}
         /\ Later(s, ran.drafts)
         /\ ran.ok => /\ Has(ran.drafts, ran.draft, ran.version)
                      /\ ran.drafts[ran.draft][ran.version] = Version(ask)
                      /\ ~ Has(s, ran.draft, ran.version)
<1>1. Version(ask) \in Versions
  BY DEF Asks, Version, Versions
<1>2. CASE ask.action = "create"
  <2>1. /\ ran.ok /\ ran.draft = Len(s) + 1 /\ ran.version = 1
        /\ ran.drafts = Append(s, <<Version(ask)>>)
    BY <1>2 DEF Run, RunCreate
  <2>2. <<Version(ask)>> \in Seq(Versions)
    BY <1>1
  <2>3. ran.drafts \in States /\ Later(s, ran.drafts)
    BY <2>1, <2>2, AppendLater
  <2>4. ran.draft \in DOMAIN ran.drafts /\ ran.drafts[ran.draft] = <<Version(ask)>> /\ ran.draft \notin DOMAIN s
    BY <2>1, <2>2 DEF States
  <2> QED
    BY <2>1, <2>3, <2>4 DEF Has, States
<1>3. CASE ask.action = "revise" /\ ask.draft \in DOMAIN s /\ Owner(s, ask.draft) = ask.account
  <2> DEFINE d == ask.draft
  <2>1. /\ ran.ok /\ ran.draft = d /\ ran.version = Len(s[d]) + 1
        /\ ran.drafts = [s EXCEPT ![d] = Append(s[d], Version(ask))]
    BY <1>3 DEF Run, RunRevise
  <2>2. d \in DOMAIN s /\ d \in Nat /\ s[d] \in Seq(Versions)
    BY <1>3 DEF States
  <2>3. ran.drafts[d] = Append(s[d], Version(ask)) /\ ran.drafts[d] \in Seq(Versions)
    BY <1>1, <2>1, <2>2
  <2>4. ran.drafts \in States /\ DOMAIN ran.drafts = DOMAIN s
    BY <2>1, <2>2, <2>3 DEF States
  <2>5. \A x \in DOMAIN s : x # d => ran.drafts[x] = s[x]
    BY <2>1
  <2>6. Begins(s[d], ran.drafts[d])
    BY <1>1, <2>2, <2>3 DEF Begins
  <2>7. \A x \in DOMAIN s : Begins(s[x], s[x])
    BY DEF States, Begins
  <2>8. Later(s, ran.drafts)
    BY <2>4, <2>5, <2>6, <2>7 DEF Later
  <2>9. /\ ran.version \in Nat /\ ran.version \in DOMAIN ran.drafts[d]
        /\ ran.drafts[d][ran.version] = Version(ask) /\ ran.version \notin DOMAIN s[d]
    BY <1>1, <2>1, <2>2, <2>3
  <2> QED
    BY <2>1, <2>2, <2>4, <2>8, <2>9 DEF Has
<1>4. CASE /\ ask.action # "create"
           /\ ~ (ask.action = "revise" /\ ask.draft \in DOMAIN s /\ Owner(s, ask.draft) = ask.account)
  BY <1>4, LaterReflexive DEF Run, Refusal
<1> QED
  BY <1>2, <1>3, <1>4

-----------------------------------------------------------------------------
(* Chains                                                                  *)

LEMMA Drafted ==
  ASSUME NEW t \in Transactions
  PROVE  t.op.drafts \in States
<1>1. t.op \in [ask : Asks \cup {None},
              label : (Actions \X ((1..MaxDrafts) \cup {None}) \X Texts) \cup {<<"save">>},
              ok : BOOLEAN, draft : Nat \cup {None}, version : Nat \cup {None}, drafts : States]
  BY DEF Transactions
<1> QED
  BY <1>1

LEMMA ChainGrows ==
  ASSUME NEW l \in Seq(Transactions), Chain(l), NEW t \in Transactions,
         Called(t) \/ Saved(t),
         \A i \in DOMAIN l : l[i].key # t.key,
         l # <<>> => Later(l[Len(l)].op.drafts, t.op.drafts),
         Called(t) /\ t.op.ok /\ l # <<>> => ~ Has(l[Len(l)].op.drafts, t.op.draft, t.op.version)
  PROVE  Chain(Append(l, t))
<1> DEFINE m == Append(l, t)
<1>1. /\ m \in Seq(Transactions) /\ DOMAIN m = DOMAIN l \cup {Len(l) + 1} /\ DOMAIN l = 1..Len(l)
      /\ m[Len(l) + 1] = t /\ \A i \in DOMAIN l : m[i] = l[i]
  OBVIOUS
<1>2. \A i \in DOMAIN m : m[i].op.drafts \in States
  BY <1>1, Drafted
<1>3. \A i \in DOMAIN l : Later(l[i].op.drafts, t.op.drafts)
  <2> SUFFICES ASSUME NEW i \in DOMAIN l PROVE Later(l[i].op.drafts, t.op.drafts)
    OBVIOUS
  <2>1. i <= Len(l) /\ Len(l) \in DOMAIN l /\ l # <<>>
    OBVIOUS
  <2>2. Later(l[i].op.drafts, l[Len(l)].op.drafts)
    BY <2>1 DEF Chain
  <2>3. {l[i].op.drafts, l[Len(l)].op.drafts, t.op.drafts} \subseteq States
    BY <2>1, Drafted
  <2> QED
    BY <2>1, <2>2, <2>3, LaterTransitive
<1>4. \A i \in DOMAIN l : Called(t) /\ t.op.ok => ~ Has(l[i].op.drafts, t.op.draft, t.op.version)
  <2> SUFFICES ASSUME NEW i \in DOMAIN l, Called(t), t.op.ok, Has(l[i].op.drafts, t.op.draft, t.op.version)
               PROVE  FALSE
    OBVIOUS
  <2>1. i <= Len(l) /\ Len(l) \in DOMAIN l /\ l # <<>>
    OBVIOUS
  <2>2. Later(l[i].op.drafts, l[Len(l)].op.drafts)
    BY <2>1 DEF Chain
  <2>3. {l[i].op.drafts, l[Len(l)].op.drafts} \subseteq States
    BY <2>1, Drafted
  <2> QED
    BY <2>1, <2>2, <2>3, LaterHas
<1>5. \A i \in DOMAIN m : Called(m[i]) \/ Saved(m[i])
  BY <1>1 DEF Chain
<1>6. \A i, j \in DOMAIN m : m[i].key = m[j].key => i = j
  BY <1>1 DEF Chain
<1>7. ASSUME NEW i \in DOMAIN m, NEW j \in DOMAIN m, i <= j
      PROVE  Later(m[i].op.drafts, m[j].op.drafts)
  <2>1. CASE j \in DOMAIN l
    BY <1>1, <1>7, <2>1 DEF Chain
  <2>2. CASE j = Len(l) + 1
    BY <1>1, <1>2, <1>3, <2>2, LaterReflexive
  <2> QED
    BY <1>1, <2>1, <2>2
<1>8. ASSUME NEW i \in DOMAIN m, NEW j \in DOMAIN m, i < j, Called(m[j]), m[j].op.ok
      PROVE  ~ Has(m[i].op.drafts, m[j].op.draft, m[j].op.version)
  <2>1. i \in DOMAIN l /\ m[i] = l[i]
    BY <1>1, <1>8
  <2>2. CASE j \in DOMAIN l
    BY <1>1, <1>8, <2>1, <2>2 DEF Chain
  <2>3. CASE j = Len(l) + 1
    BY <1>1, <1>4, <1>8, <2>1, <2>3
  <2> QED
    BY <1>1, <2>2, <2>3
<1> QED
  BY <1>5, <1>6, <1>7, <1>8 DEF Chain

LEMMA ChainCut ==
  ASSUME NEW l \in Seq(Transactions), Chain(l), NEW n \in 0..Len(l)
  PROVE  Chain(SubSeq(l, 1, n))
<1>1. SubSeq(l, 1, n) \in Seq(Transactions) /\ DOMAIN SubSeq(l, 1, n) \subseteq DOMAIN l
  OBVIOUS
<1>2. \A i \in DOMAIN SubSeq(l, 1, n) : SubSeq(l, 1, n)[i] = l[i]
  OBVIOUS
<1> QED
  BY <1>1, <1>2 DEF Chain


-----------------------------------------------------------------------------
(* The steps                                                               *)

USE DEF Log!Init, Log!Commit, Log!Acknowledge, Log!Lose

\* The slot has the state of the last transaction.
LEMMA LastDrafts ==
  ASSUME LedgerInv
  PROVE  /\ Drafts \in States
         /\ \A i \in DOMAIN log : log[i] \in Transactions /\ Later(log[i].op.drafts, Drafts)
<1>1. CASE log = <<>>
  BY <1>1 DEF Drafts, States
<1>2. CASE log # <<>>
  <2>1. Len(log) \in DOMAIN log /\ (\A i \in DOMAIN log : log[i] \in Transactions /\ i <= Len(log))
    BY <1>2 DEF LedgerInv
  <2>2. Drafts = log[Len(log)].op.drafts
    BY <1>2 DEF Drafts
  <2> QED
    BY <2>1, <2>2, Drafted DEF LedgerInv, Chain
<1> QED
  BY <1>1, <1>2

LEMMA CommitGrows ==
  ASSUME LedgerInv, NEW t \in Transactions, log' = Append(log, t), kept' = kept \cup {Len(log) + 1},
         UNCHANGED losses, Called(t) \/ Saved(t),
         \A i \in DOMAIN log : log[i].key # t.key,
         Later(Drafts, t.op.drafts),
         Called(t) /\ t.op.ok => ~ Has(Drafts, t.op.draft, t.op.version)
  PROVE  LedgerInv'
<1>1. log' \in Seq(Transactions) /\ Len(log') = Len(log) + 1
  BY DEF LedgerInv
<1>2. kept' \in SUBSET (0..Len(log'))
  <2>1. Len(log) \in Nat /\ \A n \in kept : n \in 0..Len(log)
    BY DEF LedgerInv
  <2> QED
    BY <1>1, <2>1
<1>3. log # <<>> => Drafts = log[Len(log)].op.drafts
  BY DEF Drafts
<1>4. Chain(Append(log, t))
  BY <1>3, ChainGrows DEF LedgerInv
<1> QED
  BY <1>1, <1>2, <1>4 DEF LedgerInv

\* What a tool call writes.
LEMMA CallWrites ==
  ASSUME LedgerInv, CallsInv, NEW c \in Calls, CommitCall(c)
  PROVE  \E t \in Transactions :
           /\ log' = Append(log, t) /\ kept' = kept \cup {Len(log) + 1}
           /\ Called(t) /\ (\A i \in DOMAIN log : log[i].key # t.key)
           /\ Later(Drafts, t.op.drafts)
           /\ t.op.ok => ~ Has(Drafts, t.op.draft, t.op.version)
<1> DEFINE ask == Ask(c)
           ran == Run(ask, Drafts)
           op  == [ask |-> ask, label |-> Label(ask), ok |-> ran.ok, draft |-> ran.draft,
                   version |-> ran.version, drafts |-> ran.drafts]
           t   == [key |-> Key(ask), op |-> op, revision |-> Len(log) + 1]
<1>1. ask \in Asks
  BY DEF CommitCall, At, Ask, CallsInv
<1>2. log' = Append(log, t) /\ kept' = kept \cup {Len(log) + 1} /\ (\A i \in DOMAIN log : log[i].key # Key(ask))
  BY DEF CommitCall
<1> HIDE DEF ask
<1>3. Drafts \in States
  BY LastDrafts
<1>4. /\ ran.ok \in BOOLEAN /\ ran.drafts \in States
      /\ ran.draft \in Nat \cup {None} /\ ran.version \in Nat \cup {None}
      /\ Later(Drafts, ran.drafts)
      /\ ran.ok => /\ Has(ran.drafts, ran.draft, ran.version)
                   /\ ran.drafts[ran.draft][ran.version] = Version(ask)
                   /\ ~ Has(Drafts, ran.draft, ran.version)
  BY <1>1, <1>3, RunGrows
<1> HIDE DEF ran
<1>5. Key(ask) \in Keys
  BY <1>1 DEF Asks, Key, Keys, Actions
<1>6. Label(ask) \in Actions \X ((1..MaxDrafts) \cup {None}) \X Texts
  BY <1>1 DEF Asks, Label, Actions
<1>7. Len(log) + 1 \in Nat
  BY DEF LedgerInv
<1>8. t \in Transactions
  BY <1>1, <1>4, <1>5, <1>6, <1>7 DEF Transactions
<1>9. Called(t)
  BY <1>1, <1>4 DEF Called
<1> QED
  BY <1>2, <1>4, <1>8, <1>9

\* What save() writes.
LEMMA SaveWrites ==
  ASSUME LedgerInv, CopiesInv, NEW e \in Editors, CommitSave(e)
  PROVE  \E t \in Transactions :
           /\ log' = Append(log, t) /\ kept' = kept \cup {Len(log) + 1}
           /\ Saved(t) /\ ~ Called(t) /\ (\A i \in DOMAIN log : log[i].key # t.key)
           /\ Later(Drafts, t.op.drafts)
<1> DEFINE op == [ask |-> None, label |-> <<"save">>, ok |-> TRUE, draft |-> None, version |-> None,
                  drafts |-> copy[e].drafts]
           t  == [key |-> SaveKey(e), op |-> op, revision |-> Len(log) + 1]
<1>1. log' = Append(log, t) /\ kept' = kept \cup {Len(log) + 1} /\ (\A i \in DOMAIN log : log[i].key # SaveKey(e))
  BY DEF CommitSave
<1>2. copy[e].drafts \in States /\ copy[e].revision \in Nat /\ copy[e].revision = Len(log)
  BY DEF CommitSave, Expected, Revision, CopiesInv, Copies
<1>3. SaveKey(e) \in Keys
  BY <1>2 DEF SaveKey, Keys
<1>4. t \in Transactions
  BY <1>2, <1>3 DEF Transactions
<1>5. Saved(t)
  BY DEF Saved, SaveKey
<1>6. ~ Called(t)
  <2>1. t.key[1] = "save"
    BY DEF SaveKey
  <2>2. \A ask \in Asks : Key(ask)[1] \in Accounts
    BY DEF Asks, Key
  <2> QED
    BY <2>1, <2>2, StoreAssumption DEF Called
<1>7. Later(Drafts, copy[e].drafts)
  <2>1. CASE log = <<>>
    BY <2>1 DEF Drafts, Later
  <2>2. CASE log # <<>>
    BY <1>2, <2>2 DEF CopiesInv, Drafts, LedgerInv
  <2> QED
    BY <2>1, <2>2
<1> QED
  BY <1>1, <1>4, <1>5, <1>6, <1>7

Commits == (\E c \in Calls : CommitCall(c)) \/ (\E e \in Editors : CommitSave(e))
Answers == \E c \in Callers : AnswerCommit(c)

\* Every other step leaves the ledger alone.
LEMMA Quiet ==
  ASSUME [Next]_vars, ~ Commits, ~ Answers, ~ PowerLoss
  PROVE  UNCHANGED <<ledger, losses>>
BY DEF Next, Commits, Answers, vars, Invoke, Retry, EndTurn, ReplayCall, FailCall, LoseAnswer, Load, Edit,
       ReplaySave, RefuseSave

\* A commit adds one transaction to the chain.
LEMMA CommitWrites ==
  ASSUME StoreInv, Commits
  PROVE  /\ LedgerInv' /\ UNCHANGED <<losses, told>>
         /\ \E t \in Transactions : log' = Append(log, t) /\ Later(Drafts, t.op.drafts)
         /\ kept' = kept \cup {Len(log) + 1}
<1>1. UNCHANGED <<losses, told>>
  BY DEF Commits, CommitCall, CommitSave
<1>2. ASSUME NEW c \in Calls, CommitCall(c)
      PROVE  /\ LedgerInv' /\ kept' = kept \cup {Len(log) + 1}
             /\ \E t \in Transactions : log' = Append(log, t) /\ Later(Drafts, t.op.drafts)
  BY <1>1, <1>2, CallWrites, CommitGrows DEF StoreInv
<1>3. ASSUME NEW e \in Editors, CommitSave(e)
      PROVE  /\ LedgerInv' /\ kept' = kept \cup {Len(log) + 1}
             /\ \E t \in Transactions : log' = Append(log, t) /\ Later(Drafts, t.op.drafts)
  BY <1>1, <1>3, SaveWrites, CommitGrows DEF StoreInv
<1> QED
  BY <1>1, <1>2, <1>3 DEF Commits

LEMMA NextLedger == StoreInv /\ [Next]_vars => LedgerInv'
<1> SUFFICES ASSUME StoreInv, [Next]_vars PROVE LedgerInv'
  OBVIOUS
<1> USE DEF StoreInv
<1>1. CASE Commits
  BY <1>1, CommitWrites
<1>2. CASE Answers
  BY <1>2 DEF Answers, AnswerCommit, LedgerInv
<1>3. CASE PowerLoss
  <2>1. PICK n \in kept : log' = SubSeq(log, 1, n) /\ kept' = {n}
    BY <1>3 DEF PowerLoss
  <2>2. n \in 0..Len(log) /\ log \in Seq(Transactions) /\ Chain(log)
    BY DEF LedgerInv
  <2>3. Chain(SubSeq(log, 1, n))
    BY <2>2, ChainCut
  <2>4. log' \in Seq(Transactions) /\ Len(log') = n
    BY <2>1, <2>2
  <2>5. losses' \in Nat
    BY <1>3 DEF PowerLoss, LedgerInv
  <2> QED
    BY <2>1, <2>2, <2>3, <2>4, <2>5 DEF LedgerInv
<1>4. CASE ~ Commits /\ ~ Answers /\ ~ PowerLoss
  BY <1>4, Quiet DEF LedgerInv, ledger
<1> QED
  BY <1>1, <1>2, <1>3, <1>4


-----------------------------------------------------------------------------
(* Calls, the lock, and copies                                             *)

\* A commit keeps the transactions there are.
LEMMA LogKept ==
  ASSUME StoreInv, Commits
  PROVE  /\ DOMAIN log' = 1..Len(log') /\ Len(log') = Len(log) + 1 /\ Len(log) \in Nat
         /\ \A i \in DOMAIN log : log'[i] = log[i] /\ i \in DOMAIN log'
<1>1. PICK t \in Transactions : log' = Append(log, t)
  BY CommitWrites
<1> QED
  BY <1>1 DEF StoreInv, LedgerInv

LEMMA NextCalls == StoreInv /\ [Next]_vars => CallsInv'
<1> SUFFICES ASSUME StoreInv, [Next]_vars PROVE CallsInv'
  OBVIOUS
<1> USE DEF StoreInv, CallsInv
<1>1. ASSUME NEW c \in Calls
      PROVE  /\ (\E ask \in Asks : Invoke(c, ask)) => CallsInv'
             /\ Retry(c) => CallsInv'
             /\ Goes(c, "written") /\ At(c, "asked") => CallsInv'
             /\ Goes(c, "failed") /\ (At(c, "asked") \/ At(c, "written")) => CallsInv'
             /\ Goes(c, "over") => CallsInv'
  <2>1. ASSUME NEW ask \in Asks, Invoke(c, ask) PROVE CallsInv'
    BY <2>1 DEF Invoke
  <2>2. CASE Retry(c)
    BY <2>2 DEF Retry, At
  <2>3. CASE Goes(c, "written") /\ At(c, "asked")
    BY <2>3 DEF Goes, At
  <2>4. CASE Goes(c, "failed") /\ (At(c, "asked") \/ At(c, "written"))
    BY <2>4 DEF Goes, At
  <2>5. CASE Goes(c, "over")
    BY <2>5 DEF Goes, Over
  <2> QED
    BY <2>1, <2>2, <2>3, <2>4, <2>5
<1>2. ASSUME NEW c \in Callers, AnswerCommit(c) \/ LoseAnswer(c), calls' # calls
      PROVE  CallsInv'
  <2>1. c \in Calls /\ calls[c].pc = "written" /\ (Goes(c, "over") \/ Goes(c, "failed"))
    BY <1>2 DEF AnswerCommit, LoseAnswer, Reported, HolderInv
  <2> QED
    BY <1>1, <2>1 DEF At
<1>3. CASE PowerLoss
  BY <1>3 DEF PowerLoss
<1>4. CASE UNCHANGED calls
  BY <1>4
<1> QED
  BY <1>1, <1>2, <1>3, <1>4
     DEF Next, EndTurn, ReplayCall, CommitCall, FailCall, Edit, Load, ReplaySave, CommitSave, RefuseSave, vars

LEMMA NextHolder == StoreInv /\ [Next]_vars => HolderInv'
<1> SUFFICES ASSUME StoreInv, [Next]_vars PROVE HolderInv'
  OBVIOUS
<1> USE StoreAssumption DEF StoreInv, HolderInv, Callers
<1>1. ASSUME NEW c \in Calls, CommitCall(c)
      PROVE  HolderInv'
  <2>1. PICK t \in Transactions : log' = Append(log, t) /\ Called(t)
    BY <1>1, CallWrites
  <2>2. log' # <<>> /\ log'[Len(log')] = t
    BY <2>1 DEF LedgerInv
  <2>3. holder' = c /\ calls'[c].pc = "written"
    BY <1>1 DEF CommitCall, Goes, CallsInv
  <2> QED
    BY <2>1, <2>2, <2>3
<1>2. ASSUME NEW e \in Editors, CommitSave(e)
      PROVE  HolderInv'
  <2>1. PICK t \in Transactions : log' = Append(log, t)
    BY <1>2, SaveWrites
  <2>2. log' # <<>> /\ holder' = e
    BY <1>2, <2>1 DEF LedgerInv, CommitSave
  <2> QED
    BY <2>2
<1>3. CASE Answers \/ (\E c \in Callers : LoseAnswer(c)) \/ PowerLoss
  BY <1>3 DEF Answers, AnswerCommit, LoseAnswer, PowerLoss
<1>4. ASSUME NEW c \in Calls,
             \/ \E ask \in Asks : Invoke(c, ask)
             \/ Retry(c) \/ EndTurn(c) \/ ReplayCall(c) \/ FailCall(c)
      PROVE  HolderInv'
  <2>1. UNCHANGED <<holder, log>>
    BY <1>4 DEF Invoke, Retry, EndTurn, ReplayCall, FailCall, ledger
  <2>2. \A o \in Calls : calls[o].pc = "written" => calls'[o] = calls[o]
    BY <1>4 DEF Invoke, Retry, EndTurn, ReplayCall, FailCall, Goes, At, CallsInv
  <2> QED
    BY <2>1, <2>2
<1>5. CASE UNCHANGED <<holder, log, calls>>
  BY <1>5
<1> QED
  BY <1>1, <1>2, <1>3, <1>4, <1>5 DEF Next, Answers, Edit, Load, ReplaySave, RefuseSave, vars, ledger

\* One draft more is a version more, and the copy keeps the rest.
LEMMA EditTypes ==
  ASSUME CopiesInv, NEW e \in Editors, NEW text \in Texts, Edit(e, text)
  PROVE  LET s == Append(copy[e].drafts, <<[by |-> e, text |-> text]>>) IN
           /\ s \in States /\ Later(copy[e].drafts, s)
           /\ copy' \in [Editors -> Copies]
           /\ copy'[e] = [pc |-> "edited", revision |-> copy[e].revision, drafts |-> s]
           /\ \A x \in Editors : x # e => copy'[x] = copy[x]
<1> DEFINE s == Append(copy[e].drafts, <<[by |-> e, text |-> text]>>)
<1>1. copy[e] = [pc |-> copy[e].pc, revision |-> copy[e].revision, drafts |-> copy[e].drafts]
      /\ copy[e].drafts \in States
  BY DEF CopiesInv, Copies
<1>2. <<[by |-> e, text |-> text]>> \in Seq(Versions)
  BY DEF Versions
<1>3. s \in States /\ Later(copy[e].drafts, s)
  BY <1>1, <1>2, AppendLater
<1>4. copy' = [copy EXCEPT ![e].pc = "edited",
                           ![e].drafts = RunCreate([account |-> e, text |-> text], @).drafts]
  BY DEF Edit
<1>5. \A d \in States : RunCreate([account |-> e, text |-> text], d).drafts = Append(d, <<[by |-> e, text |-> text]>>)
  BY DEF RunCreate, Version
<1>6. copy'[e] = [pc |-> "edited", revision |-> copy[e].revision, drafts |-> s]
  BY <1>1, <1>4, <1>5 DEF CopiesInv
<1>7. copy' = [copy EXCEPT ![e] = copy'[e]]
  BY <1>4 DEF CopiesInv
<1>8. copy'[e] \in Copies
  BY <1>3, <1>6 DEF Copies, CopiesInv
<1>9. copy' \in [Editors -> Copies] /\ \A x \in Editors : x # e => copy'[x] = copy[x]
  BY <1>7, <1>8 DEF CopiesInv
<1> QED
  BY <1>3, <1>6, <1>9


LEMMA NextCopies == StoreInv /\ [Next]_vars => CopiesInv'
<1> SUFFICES ASSUME StoreInv, [Next]_vars PROVE CopiesInv'
  OBVIOUS
<1> USE DEF StoreInv
<1>1. CASE Commits
  <2>1. UNCHANGED copy
    BY <1>1 DEF Commits, CommitCall, CommitSave
  <2>2. \A e \in Editors : copy[e].revision \in Nat
    BY DEF CopiesInv, Copies
  <2> QED
    BY <1>1, <2>1, <2>2, LogKept DEF CopiesInv, LedgerInv
<1>2. CASE PowerLoss
  <2>1. Unloaded \in Copies
    BY DEF Unloaded, Copies, States
  <2>2. copy' = [e \in Editors |-> Unloaded]
    BY <1>2 DEF PowerLoss
  <2>3. 0 <= Len(log')
    BY NextLedger DEF LedgerInv
  <2> QED
    BY <2>1, <2>2, <2>3 DEF CopiesInv, Unloaded
<1>3. ASSUME NEW e \in Editors, NEW text \in Texts, Edit(e, text)
      PROVE  CopiesInv'
  <2> DEFINE s == Append(copy[e].drafts, <<[by |-> e, text |-> text]>>)
  <2>1. /\ s \in States /\ Later(copy[e].drafts, s)
        /\ copy' \in [Editors -> Copies]
        /\ copy'[e] = [pc |-> "edited", revision |-> copy[e].revision, drafts |-> s]
        /\ \A x \in Editors : x # e => copy'[x] = copy[x]
    BY <1>3, EditTypes
  <2>2. log' = log
    BY <1>3 DEF Edit, ledger
  <2>3. copy[e].revision \in Nat /\ copy[e].drafts \in States /\ copy[e].revision <= Len(log)
    BY DEF CopiesInv, Copies
  <2>4. copy[e].revision > 0 => Later(log[copy[e].revision].op.drafts, s)
    <3>1. SUFFICES ASSUME copy[e].revision > 0 PROVE Later(log[copy[e].revision].op.drafts, s)
      OBVIOUS
    <3>2. log[copy[e].revision] \in Transactions
      BY <2>3, <3>1 DEF LedgerInv
    <3>3. Later(log[copy[e].revision].op.drafts, copy[e].drafts)
      BY <3>1 DEF CopiesInv
    <3> QED
      BY <2>1, <2>3, <3>2, <3>3, Drafted, LaterTransitive
  <2>5. copy'[e].revision = copy[e].revision /\ copy'[e].drafts = s
    BY <2>1
  <2> HIDE DEF s
  <2>6. ASSUME NEW x \in Editors
        PROVE  /\ copy'[x].revision <= Len(log')
               /\ copy'[x].revision > 0 => Later(log'[copy'[x].revision].op.drafts, copy'[x].drafts)
    <3>1. CASE x = e
      BY <2>2, <2>3, <2>4, <2>5, <3>1
    <3>2. CASE x # e
      BY <2>1, <2>2, <3>2 DEF CopiesInv
    <3> QED
      BY <3>1, <3>2
  <2> QED
    BY <2>1, <2>6 DEF CopiesInv
<1>4. ASSUME NEW e \in Editors, Load(e)
      PROVE  CopiesInv'
  <2>1. copy' = [copy EXCEPT ![e] = [pc |-> "loaded", revision |-> Len(log), drafts |-> Drafts]] /\ log' = log
    BY <1>4 DEF Load, Revision, ledger
  <2>2. Len(log) \in Nat /\ (Len(log) > 0 => Len(log) \in DOMAIN log)
    BY DEF LedgerInv
  <2>3. Drafts \in States /\ \A i \in DOMAIN log : Later(log[i].op.drafts, Drafts)
    BY LastDrafts
  <2> QED
    BY <2>1, <2>2, <2>3 DEF CopiesInv, Copies
<1>5. ASSUME UNCHANGED log, copy' = copy \/ \E e \in Editors, pc \in {"failed", "refused", "over"} :
                                               copy' = [copy EXCEPT ![e].pc = pc]
      PROVE  CopiesInv'
  BY <1>5 DEF CopiesInv, Copies
<1>6. ASSUME NEW c \in Callers, AnswerCommit(c) \/ LoseAnswer(c)
      PROVE  CopiesInv'
  <2>1. UNCHANGED log
    BY <1>6 DEF AnswerCommit, LoseAnswer, ledger
  <2>2. copy' = copy \/ \E e \in Editors, pc \in {"failed", "refused", "over"} : copy' = [copy EXCEPT ![e].pc = pc]
    BY <1>6 DEF AnswerCommit, LoseAnswer, Reported, Callers
  <2> QED
    BY <1>5, <2>1, <2>2
<1>7. ASSUME NEW e \in Editors, ReplaySave(e) \/ RefuseSave(e)
      PROVE  CopiesInv'
  BY <1>5, <1>7 DEF ReplaySave, RefuseSave, ledger
<1>8. CASE UNCHANGED <<log, copy>>
  BY <1>5, <1>8
<1> QED
  BY <1>1, <1>2, <1>3, <1>4, <1>6, <1>7, <1>8
     DEF Next, Commits, Invoke, Retry, EndTurn, ReplayCall, FailCall, vars, ledger

-----------------------------------------------------------------------------
(* Answers                                                                 *)

\* An answer stays recorded while its transaction is there.
LEMMA RecordedStays ==
  ASSUME NEW answer, Recorded(answer), answer.revision \in DOMAIN log',
         log'[answer.revision] = log[answer.revision]
  PROVE  Recorded(answer)'
BY DEF Recorded

\* The key and the label of a receipt say what was asked.
LEMMA SameAsk ==
  ASSUME NEW a \in Asks, NEW b \in Asks, Key(a) = Key(b), Label(a) = Label(b)
  PROVE  a = b
BY DEF Asks, Key, Label

LEMMA ReceiptRecorded ==
  ASSUME LedgerInv, NEW c \in Calls, NEW ask \in Asks, NEW i \in DOMAIN log,
         log[i].key = Key(ask), log[i].op.label = Label(ask)
  PROVE  Recorded([Answer(c, i, TRUE) EXCEPT !.ask = ask])
<1> DEFINE op     == log[i].op
           answer == [Answer(c, i, TRUE) EXCEPT !.ask = ask]
<1>1. /\ answer.by = c /\ answer.revision = i /\ answer.ask = ask
      /\ answer.ok = op.ok /\ answer.draft = op.draft /\ answer.version = op.version
  BY DEF Answer
<1> HIDE DEF answer
<1>2. Called(log[i])
  <2>1. ask.account \in Accounts /\ log[i].key[1] = ask.account
    BY DEF Asks, Key
  <2>2. log[i].key[1] # "save"
    BY <2>1, StoreAssumption
  <2> QED
    BY <2>2 DEF LedgerInv, Chain, Saved
<1>3. op.ask = ask
  BY <1>2, SameAsk DEF Called
<1>4. c \notin Editors
  BY StoreAssumption
<1>5. Recorded(answer)
  BY <1>1, <1>2, <1>3, <1>4 DEF Recorded
<1> QED
  BY <1>5 DEF answer

LEMMA SaveRecorded ==
  ASSUME LedgerInv, NEW e \in Editors, NEW i \in DOMAIN log, NEW n, NEW s, log[i].key = <<"save", n, s>>
  PROVE  Recorded([Answer(e, i, TRUE) EXCEPT !.drafts = s])
<1> DEFINE op     == log[i].op
           answer == [Answer(e, i, TRUE) EXCEPT !.drafts = s]
<1>1. answer.by = e /\ answer.revision = i /\ answer.drafts = s
  BY DEF Answer
<1> HIDE DEF answer
<1>2. Saved(log[i])
  <2>1. log[i].key[1] = "save"
    OBVIOUS
  <2>2. \A ask \in Asks : Key(ask)[1] \in Accounts
    BY DEF Asks, Key
  <2> QED
    BY <2>1, <2>2, StoreAssumption DEF LedgerInv, Chain, Called
<1>3. op.drafts = s
  <2>1. log[i].key[3] = op.drafts /\ log[i].key[3] = s
    BY <1>2 DEF Saved
  <2> QED
    BY <2>1
<1>4. e \notin Calls
  BY StoreAssumption
<1>5. Recorded(answer)
  BY <1>1, <1>3, <1>4 DEF Recorded
<1> QED
  BY <1>5 DEF answer

LEMMA NextTold == StoreInv /\ [Next]_vars => ToldInv'
<1> SUFFICES ASSUME StoreInv, [Next]_vars PROVE ToldInv'
  OBVIOUS
<1> USE DEF StoreInv
<1>1. CASE Commits
  <2>1. UNCHANGED <<told, losses>> /\ kept' = kept \cup {Len(log) + 1}
    BY <1>1, CommitWrites
  <2>2. ASSUME NEW answer \in told, Recorded(answer)
        PROVE  Recorded(answer)' /\ answer.revision <= Len(log) + 1
    <3>1. answer.revision \in DOMAIN log /\ answer.revision <= Len(log) + 1
      BY <2>2 DEF Recorded, LedgerInv
    <3>2. answer.revision \in DOMAIN log' /\ log'[answer.revision] = log[answer.revision]
      BY <1>1, <3>1, LogKept
    <3> QED
      BY <2>2, <3>1, <3>2, RecordedStays
  <2> QED
    BY <2>1, <2>2 DEF ToldInv
<1>2. ASSUME NEW c \in Callers, AnswerCommit(c)
      PROVE  ToldInv'
  <2> DEFINE first == Answer(c, Len(log), FALSE)
  <2>1. /\ told' = told \cup {first} /\ kept' = {Len(log)} /\ log' = log /\ losses' = losses
        /\ holder = c /\ log # <<>>
    BY <1>2 DEF AnswerCommit
  <2>2. Len(log) \in DOMAIN log /\ Len(log) \in Nat
    BY <2>1 DEF LedgerInv
  <2>3. Recorded(first) /\ first.revision = Len(log) /\ first.replayed = FALSE
    BY <2>1, <2>2 DEF Recorded, Answer, HolderInv
  <2>4. \A answer : Recorded(answer) => Recorded(answer)' /\ answer.revision <= Len(log)
    BY <2>1 DEF Recorded, LedgerInv
  <2> QED
    BY <2>1, <2>2, <2>3, <2>4 DEF ToldInv
<1>3. CASE PowerLoss
  <2>1. PICK n \in kept : log' = SubSeq(log, 1, n) /\ kept' = {n}
    BY <1>3 DEF PowerLoss
  <2>2. n \in 0..Len(log) /\ log \in Seq(Transactions)
    BY DEF LedgerInv
  <2>3. losses' # 0 /\ told' = told
    BY <1>3 DEF PowerLoss, LedgerInv
  <2>4. ASSUME NEW answer \in told, ~ answer.replayed
        PROVE  Recorded(answer)' /\ answer.revision <= n
    <3>1. Recorded(answer) /\ answer.revision \in DOMAIN log /\ answer.revision <= n
      BY <2>4 DEF ToldInv, Recorded
    <3>2. answer.revision \in DOMAIN log' /\ log'[answer.revision] = log[answer.revision]
      BY <2>1, <2>2, <3>1
    <3> QED
      BY <3>1, <3>2, RecordedStays
  <2> QED
    BY <2>1, <2>3, <2>4 DEF ToldInv
<1>4. ASSUME UNCHANGED <<ledger, losses>>,
             \/ told' = told
             \/ \E answer : told' = told \cup {answer} /\ Recorded(answer) /\ answer.replayed = TRUE
      PROVE  ToldInv'
  <2>1. \A answer : Recorded(answer) => Recorded(answer)'
    BY <1>4 DEF Recorded, ledger
  <2> QED
    BY <1>4, <2>1 DEF ToldInv, ledger
<1>5. ASSUME NEW c \in Calls, ReplayCall(c)
      PROVE  ToldInv'
  <2>1. PICK i \in DOMAIN log : /\ log[i].key = Key(Ask(c)) /\ log[i].op.label = Label(Ask(c))
                                /\ told' = told \cup {[Answer(c, i, TRUE) EXCEPT !.ask = Ask(c)]}
    BY <1>5 DEF ReplayCall, ReceiptOf
  <2>2. Ask(c) \in Asks
    BY <1>5 DEF ReplayCall, At, Ask, CallsInv
  <2>3. Recorded([Answer(c, i, TRUE) EXCEPT !.ask = Ask(c)])
    BY <2>1, <2>2, ReceiptRecorded
  <2>4. [Answer(c, i, TRUE) EXCEPT !.ask = Ask(c)].replayed = TRUE
    BY DEF Answer
  <2>5. UNCHANGED <<ledger, losses>>
    BY <1>5 DEF ReplayCall
  <2> QED
    BY <1>4, <2>1, <2>3, <2>4, <2>5
<1>6. ASSUME NEW e \in Editors, ReplaySave(e)
      PROVE  ToldInv'
  <2>1. PICK i \in DOMAIN log : /\ log[i].key = <<"save", copy[e].revision, copy[e].drafts>>
                                /\ told' = told \cup {[Answer(e, i, TRUE) EXCEPT !.drafts = copy[e].drafts]}
    BY <1>6 DEF ReplaySave, ReceiptOf, SaveKey
  <2>2. Recorded([Answer(e, i, TRUE) EXCEPT !.drafts = copy[e].drafts])
    BY <2>1, SaveRecorded
  <2>3. [Answer(e, i, TRUE) EXCEPT !.drafts = copy[e].drafts].replayed = TRUE
    BY DEF Answer
  <2>4. UNCHANGED <<ledger, losses>>
    BY <1>6 DEF ReplaySave
  <2> QED
    BY <1>4, <2>1, <2>2, <2>3, <2>4
<1>7. CASE UNCHANGED <<ledger, losses, told>>
  BY <1>4, <1>7
<1> QED
  BY <1>1, <1>2, <1>3, <1>5, <1>6, <1>7
     DEF Next, Commits, Invoke, Retry, EndTurn, FailCall, LoseAnswer, Load, Edit, RefuseSave, vars

-----------------------------------------------------------------------------
(* Theorems                                                                *)

LEMMA InitStore == Init => StoreInv
<1> SUFFICES ASSUME Init PROVE StoreInv
  OBVIOUS
<1>1. LedgerInv
  BY DEF Init, LedgerInv, Chain
<1>2. CallsInv /\ HolderInv /\ ToldInv
  BY StoreAssumption DEF Init, CallsInv, Idle, HolderInv, Callers, ToldInv
<1>3. CopiesInv
  BY DEF Init, CopiesInv, Copies, Unloaded, States
<1> QED
  BY <1>1, <1>2, <1>3 DEF StoreInv

LEMMA StoreInvariance == Spec => []StoreInv
<1>1. StoreInv /\ [Next]_vars => StoreInv'
  BY NextLedger, NextCalls, NextHolder, NextCopies, NextTold DEF StoreInv
<1> QED
  BY InitStore, <1>1, PTL DEF Spec


\* What the store told the caller of a first attempt is in the persisted state for
\* good, and a replayed answer is as true while no power loss came: write() of the
\* bridge on top of the ledger, and save() beside it.
THEOREM AlwaysAnswersHold == Spec => []AnswersHold
<1>1. StoreInv => AnswersHold
  <2> SUFFICES ASSUME StoreInv PROVE AnswersHold
    OBVIOUS
  <2>1. ASSUME NEW answer, Recorded(answer) PROVE Holds(answer)
    <3> DEFINE t == log[answer.revision]
    <3>1. /\ answer.revision \in DOMAIN log /\ t \in Transactions
          /\ Drafts \in States /\ Later(t.op.drafts, Drafts) /\ t.op.drafts \in States
      BY <2>1, LastDrafts, Drafted DEF Recorded, StoreInv
    <3>2. ASSUME answer.by \in Calls, answer.ok
          PROVE  /\ Has(Drafts, answer.draft, answer.version)
                 /\ Drafts[answer.draft][answer.version] = Version(answer.ask)
      <4>1. /\ Has(t.op.drafts, answer.draft, answer.version)
            /\ t.op.drafts[answer.draft][answer.version] = Version(answer.ask)
        BY <2>1, <3>2 DEF Recorded, Called
      <4> QED
        BY <3>1, <4>1, LaterHas
    <3> QED
      BY <2>1, <3>1, <3>2 DEF Holds, Recorded, Has
  <2> QED
    BY <2>1 DEF AnswersHold, StoreInv, ToldInv
<1> QED
  BY <1>1, StoreInvariance, PTL

\* However often a call ran, failed or lost its answer, and whatever other calls and
\* editors did, the versions told are one for each call: the receipt under the
\* call's own key, and the slot that every transaction starts from.
THEOREM AlwaysOneVersion == Spec => []OneVersionPerCall
<1>1. StoreInv => OneVersionPerCall
  <2> SUFFICES ASSUME StoreInv, losses = 0,
                      NEW x \in told, x.by \in Calls, x.ok, NEW y \in told, y.by \in Calls, y.ok
               PROVE  (x.draft = y.draft /\ x.version = y.version) <=> x.ask = y.ask
    BY DEF OneVersionPerCall
  <2> DEFINE i == x.revision
             j == y.revision
  <2>1. /\ i \in DOMAIN log /\ Called(log[i]) /\ log[i].op.ok /\ x.ask = log[i].op.ask
        /\ x.draft = log[i].op.draft /\ x.version = log[i].op.version
    BY DEF StoreInv, ToldInv, Recorded
  <2>2. /\ j \in DOMAIN log /\ Called(log[j]) /\ log[j].op.ok /\ y.ask = log[j].op.ask
        /\ y.draft = log[j].op.draft /\ y.version = log[j].op.version
    BY DEF StoreInv, ToldInv, Recorded
  <2> HIDE DEF i, j
  <2>3. ASSUME x.ask = y.ask PROVE x.draft = y.draft /\ x.version = y.version
    <3>1. log[i].key = log[j].key
      BY <2>1, <2>2, <2>3 DEF Called
    <3>2. i = j
      BY <2>1, <2>2, <3>1 DEF StoreInv, LedgerInv, Chain
    <3> QED
      BY <2>1, <2>2, <3>2
  <2>4. ASSUME x.draft = y.draft, x.version = y.version PROVE x.ask = y.ask
    <3>1. \A a, b \in DOMAIN log :
            a < b /\ Called(log[a]) /\ log[a].op.ok /\ Called(log[b]) /\ log[b].op.ok
              => ~ (log[a].op.draft = log[b].op.draft /\ log[a].op.version = log[b].op.version)
      BY DEF StoreInv, LedgerInv, Chain, Called
    <3>2. ~ (i < j) /\ ~ (j < i)
      BY <2>1, <2>2, <2>4, <3>1
    <3>3. i \in Nat /\ j \in Nat
      BY <2>1, <2>2 DEF StoreInv, LedgerInv
    <3>4. i = j
      BY <3>2, <3>3
    <3> QED
      BY <2>1, <2>2, <3>4
  <2> QED
    BY <2>3, <2>4
<1> QED
  BY <1>1, StoreInvariance, PTL

\* One draft with the same versions is a prefix of one with more.
LEMMA BeginsPrefix ==
  ASSUME NEW s \in Seq(Versions), NEW t \in Seq(Versions), Begins(s, t)
  PROVE  IsPrefix(s, t)
<1>1. Len(s) <= Len(t) /\ Len(s) \in Nat
  BY DEF Begins
<1>2. SubSeq(s, 1, Len(s)) = SubSeq(t, 1, Len(s))
  BY <1>1 DEF Begins
<1> QED
  BY <1>1, <1>2 DEF IsPrefix

\* No step but a power loss takes a version back or renumbers a draft: a tool call
\* starts from the slot, and save() writes on the revision it expects only.
THEOREM AlwaysNothingLost == Spec => NothingLost
<1>1. StoreInv /\ [Next]_vars => [losses' = losses =>
        \A d \in DOMAIN Drafts : d \in DOMAIN Drafts' /\ IsPrefix(Drafts[d], Drafts'[d])]_vars
  <2> SUFFICES ASSUME StoreInv, [Next]_vars, losses' = losses,
                      NEW d \in DOMAIN Drafts
               PROVE  d \in DOMAIN Drafts' /\ IsPrefix(Drafts[d], Drafts'[d])
    OBVIOUS
  <2>1. Drafts \in States /\ Drafts' \in States
    <3>1. log' \in Seq(Transactions)
      BY NextLedger DEF LedgerInv
    <3>2. CASE log' = <<>>
      BY <3>2, LastDrafts DEF StoreInv, Drafts, States
    <3>3. CASE log' # <<>>
      <4>1. log'[Len(log')] \in Transactions
        BY <3>1, <3>3
      <4>2. Drafts' = log'[Len(log')].op.drafts
        BY <3>3 DEF Drafts
      <4> QED
        BY <4>1, <4>2, LastDrafts, Drafted DEF StoreInv
    <3> QED
      BY <3>2, <3>3
  <2>2. Later(Drafts, Drafts')
    <3>1. CASE Commits
      <4>1. PICK t \in Transactions : log' = Append(log, t) /\ Later(Drafts, t.op.drafts)
        BY <3>1, CommitWrites
      <4>2. log' # <<>> /\ log'[Len(log')] = t
        BY <4>1 DEF StoreInv, LedgerInv
      <4>3. Drafts' = t.op.drafts
        BY <4>2 DEF Drafts
      <4> QED
        BY <4>1, <4>3
    <3>2. CASE UNCHANGED log
      <4>1. Drafts' = Drafts
        BY <3>2 DEF Drafts
      <4> QED
        BY <2>1, <4>1, LaterReflexive
    <3>3. ~ PowerLoss
      BY DEF PowerLoss, StoreInv, LedgerInv
    <3> QED
      BY <3>1, <3>2, <3>3, Quiet DEF Answers, AnswerCommit, ledger
  <2>3. d \in DOMAIN Drafts' /\ Begins(Drafts[d], Drafts'[d])
    BY <2>2 DEF Later
  <2>4. Drafts[d] \in Seq(Versions) /\ Drafts'[d] \in Seq(Versions)
    BY <2>1, <2>3 DEF States
  <2> QED
    BY <2>3, <2>4, BeginsPrefix
<1> QED
  BY <1>1, StoreInvariance, PTL DEF Spec, NothingLost
=============================================================================
