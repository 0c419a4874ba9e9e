---------------------------- MODULE ProposalStore ----------------------------
(* proposal-store.ts and the chat tools of proposal-tool-bridge.ts on top of  *)
(* the ledger: the proposal core is rebuilt from the ledger's slot, run, and  *)
(* written back with a receipt; a caller that holds a whole state may save it *)
(* instead. The ledger is the abstract one, AtomicLedger, which Ledger is     *)
(* shown to implement: it may lose an answer, and power may take back what    *)
(* was never acknowledged. A tool call is one synchronous step of its process *)
(* up to the rename, and a second one up to its answer.                       *)
EXTENDS Naturals, Sequences, SequencesExt, FiniteSets

CONSTANTS
  Calls,      \* tool calls the host makes
  Accounts,   \* trusted senders, one per turn
  CallIds,    \* the host's tool call ids
  Texts,      \* field values and statements
  Editors,    \* callers of save()
  None,
  MaxDrafts,  \* bound: drafts a caller may name
  MaxLog,     \* bound: transactions
  Desks       \* what may meet in one behaviour: [editors, tries, losses], the
              \* editors at work, how often the host runs a call, and how often
              \* power is lost

\* The keys of save() begin otherwise than those of a tool call (proposal-store.ts:341,
\* proposal-tool-bridge.ts:317).
ASSUME StoreAssumption ==
  /\ None \notin Calls \cup Editors /\ Calls \cap Editors = {}
  /\ "save" \notin Accounts

VARIABLES
  log, kept, acked,   \* the ledger, of AtomicLedger
  holder,   \* the call that holds the ledger's lock directory, or None
  calls,    \* the tool calls
  stale,    \* the calls whose turn is no longer current
  desk,     \* the behaviour's bounds
  copy,     \* the snapshot an editor holds, with its changes
  told,     \* history: the answers given
  losses    \* history: power losses

ledger == <<log, kept, acked>>
vars == <<ledger, holder, calls, stale, desk, copy, told, losses>>

Callers == Calls \cup Editors
Idle == [pc |-> "idle", tries |-> 0, ask |-> None]
Over == [pc |-> "over", tries |-> 0, ask |-> None]   \* of a call that is over nothing is kept
Unloaded == [pc |-> "unloaded", revision |-> 0, drafts |-> <<>>]

\* What a tool call asks: create and revise name the text they carry, confirm
\* and submit the version they are about.
Asks ==
  LET Of(action, drafts) ==
        [account : Accounts, action : {action}, id : CallIds, draft : drafts, text : Texts]
  IN Of("create", {None}) \cup Of("revise", 1..MaxDrafts) \cup Of("confirm", 1..MaxDrafts)

Actions == {"create", "revise", "confirm", "save"}
Log == INSTANCE AtomicLedger WITH Keys <- {}, Ops <- {}

Init ==
  /\ Log!Init /\ holder = None
  /\ calls = [c \in Calls |-> Idle] /\ stale = {}
  /\ desk \in Desks
  /\ copy = [e \in Editors |-> Unloaded]
  /\ told = {} /\ losses = 0

-----------------------------------------------------------------------------
(* The slot of the ledger, and the proposal core that runs on it             *)

\* hydrateProposalState, readSlot: the state of the last transaction, or empty.
Drafts == IF log = <<>> THEN <<>> ELSE log[Len(log)].op.drafts
Revision == Len(log)

Version(ask) == [by |-> ask.account, text |-> ask.text]
Owner(drafts, d) == drafts[d][1].by

\* createDraft: the counter of the persisted state numbers the proposals.
RunCreate(ask, drafts) ==
  [ok |-> TRUE, draft |-> Len(drafts) + 1, version |-> 1, drafts |-> Append(drafts, <<Version(ask)>>)]

\* reviseDraft by the owner: nobody is linked to a member here, so no draft has a lead.
RunRevise(ask, drafts) ==
  [ok |-> TRUE, draft |-> ask.draft, version |-> Len(drafts[ask.draft]) + 1,
   drafts |-> [drafts EXCEPT ![ask.draft] = Append(@, Version(ask))]]

Refusal(drafts) == [ok |-> FALSE, draft |-> None, version |-> None, drafts |-> drafts]

\* A refusal of the core is a result like any other. An account without a
\* member gets confirm and submit refused.
Run(ask, drafts) ==
  CASE ask.action = "create" -> RunCreate(ask, drafts)
    [] ask.action = "revise" /\ ask.draft \in DOMAIN drafts /\ Owner(drafts, ask.draft) = ask.account ->
         RunRevise(ask, drafts)
    [] OTHER -> Refusal(drafts)

-----------------------------------------------------------------------------
(* write() of the bridge: one transaction under the key of its tool call     *)

\* Mutant: the key forgets the call id.
KeyPerAction(ask) == <<ask.account, ask.action>>

Key(ask) == <<ask.account, ask.action, ask.id>>

\* Mutant: the label leaves out what the call asks for.
LabelOfAction(ask) == <<ask.action>>

\* The action label carries a fingerprint of the arguments.
Label(ask) == <<ask.action, ask.draft, ask.text>>

ReceiptOf(key) == {i \in DOMAIN log : log[i].key = key}
Ask(c) == calls[c].ask
At(c, pc) == calls[c].pc = pc
Goes(c, pc) == calls' = [calls EXCEPT ![c] = IF pc = "over" THEN Over ELSE [@ EXCEPT !.pc = pc]]

\* The host makes a call, or runs a failed one again.
Invoke(c, ask) ==
  /\ At(c, "idle")
  /\ calls' = [calls EXCEPT ![c] = [pc |-> "asked", tries |-> 1, ask |-> ask]]
  /\ UNCHANGED <<ledger, holder, stale, copy, told, losses, desk>>

Retry(c) ==
  /\ At(c, "failed") /\ calls[c].tries < desk.tries
  /\ calls' = [calls EXCEPT ![c].pc = "asked", ![c].tries = @ + 1]
  /\ UNCHANGED <<ledger, holder, stale, copy, told, losses, desk>>

EndTurn(c) ==
  /\ At(c, "asked") /\ stale' = stale \cup {c}
  /\ UNCHANGED <<ledger, holder, calls, copy, told, losses, desk>>

Answer(by, i, replayed) ==
  LET op == log[i].op IN
    [by |-> by, ask |-> op.ask, ok |-> op.ok, draft |-> op.draft, version |-> op.version,
     revision |-> i, drafts |-> op.drafts, replayed |-> replayed]

\* A receipt of the same action answers, whatever has become of the turn.
ReplayCall(c) ==
  /\ At(c, "asked") /\ holder = None
  /\ \E i \in ReceiptOf(Key(Ask(c))) :
       /\ log[i].op.label = Label(Ask(c))
       /\ told' = told \cup {[Answer(c, i, TRUE) EXCEPT !.ask = Ask(c)]}
  /\ Goes(c, "over")
  /\ UNCHANGED <<ledger, holder, stale, copy, losses, desk>>

\* The core runs on the slot and the ledger file is replaced, inside the lock.
CommitCall(c) ==
  /\ At(c, "asked") /\ holder = None /\ c \notin stale /\ Len(log) < MaxLog
  /\ LET ran == Run(Ask(c), Drafts) IN
       Log!Commit(Key(Ask(c)), [ask |-> Ask(c), label |-> Label(Ask(c)), ok |-> ran.ok, draft |-> ran.draft,
                                version |-> ran.version, drafts |-> ran.drafts])
  /\ holder' = c /\ Goes(c, "written")
  /\ UNCHANGED <<stale, copy, told, losses, desk>>

\* The lock is taken, the turn is stale, the key was used for something else,
\* or the file system failed before the rename: the call reports a failure.
FailCall(c) ==
  /\ At(c, "asked") /\ Goes(c, "failed")
  /\ UNCHANGED <<ledger, holder, stale, copy, told, losses, desk>>

-----------------------------------------------------------------------------
(* After the rename: the directory is synced and the caller answered         *)

Reported(c, at) == IF c \in Calls THEN Goes(c, at) /\ UNCHANGED copy
                                  ELSE copy' = [copy EXCEPT ![c].pc = at] /\ UNCHANGED calls

AnswerCommit(c) ==
  /\ holder = c /\ Log!Acknowledge
  /\ told' = told \cup {Answer(c, Len(log), FALSE)}
  /\ holder' = None /\ Reported(c, "over")
  /\ UNCHANGED <<stale, losses, desk>>

\* The sync failed, or the process died: the caller does not know.
LoseAnswer(c) ==
  /\ holder = c /\ holder' = None /\ Reported(c, "failed")
  /\ UNCHANGED <<ledger, stale, told, losses, desk>>

\* Power is lost outside a transaction (a held lock would stay behind), and
\* with it the processes: their calls fail, their copies are gone.
PowerLoss ==
  /\ holder = None /\ losses < desk.losses
  /\ \E n \in kept : Log!Lose(n)
  /\ calls' = [c \in Calls |-> [calls[c] EXCEPT !.pc = IF @ = "asked" THEN "failed" ELSE @]]
  /\ copy' = [e \in Editors |-> Unloaded]
  /\ losses' = losses + 1
  /\ UNCHANGED <<holder, stale, told, desk>>

-----------------------------------------------------------------------------
(* save(): a whole state replaces the slot                                   *)

Load(e) ==
  /\ e \in desk.editors /\ copy[e].pc \in {"unloaded", "refused"}
  /\ copy' = [copy EXCEPT ![e] = [pc |-> "loaded", revision |-> Revision, drafts |-> Drafts]]
  /\ UNCHANGED <<ledger, holder, calls, stale, told, losses, desk>>

\* The editor runs its own core on the copy: one draft more.
Edit(e, text) ==
  /\ copy[e].pc = "loaded"
  /\ copy' = [copy EXCEPT ![e].pc = "edited",
                          ![e].drafts = RunCreate([account |-> e, text |-> text], @).drafts]
  /\ UNCHANGED <<ledger, holder, calls, stale, told, losses, desk>>

\* The derived key names the revision expected and the state written.
SaveKey(e) == <<"save", copy[e].revision, copy[e].drafts>>
Saving(e) == copy[e].pc \in {"edited", "failed"} /\ holder = None

ReplaySave(e) ==
  /\ Saving(e)
  /\ \E i \in ReceiptOf(SaveKey(e)) : told' = told \cup {[Answer(e, i, TRUE) EXCEPT !.drafts = copy[e].drafts]}
  /\ copy' = [copy EXCEPT ![e].pc = "over"]
  /\ UNCHANGED <<ledger, holder, calls, stale, losses, desk>>

\* Mutant: the expected revision is not compared with the slot's.
ExpectedAny(e) == TRUE

Expected(e) == copy[e].revision = Revision

CommitSave(e) ==
  /\ Saving(e) /\ Expected(e) /\ Len(log) < MaxLog
  /\ Log!Commit(SaveKey(e), [ask |-> None, label |-> <<"save">>, ok |-> TRUE, draft |-> None, version |-> None,
                             drafts |-> copy[e].drafts])
  /\ holder' = e
  /\ UNCHANGED <<calls, stale, copy, told, losses, desk>>

\* storage_conflict: the editor has to load the state again.
RefuseSave(e) ==
  /\ Saving(e) /\ ReceiptOf(SaveKey(e)) = {} /\ ~ Expected(e)
  /\ copy' = [copy EXCEPT ![e].pc = "refused"]
  /\ UNCHANGED <<ledger, holder, calls, stale, told, losses, desk>>

-----------------------------------------------------------------------------
Next ==
  \/ \E c \in Calls, ask \in Asks : Invoke(c, ask)
  \/ \E c \in Calls : Retry(c) \/ EndTurn(c) \/ ReplayCall(c) \/ CommitCall(c) \/ FailCall(c)
  \/ \E c \in Callers : AnswerCommit(c) \/ LoseAnswer(c)
  \/ PowerLoss
  \/ \E e \in Editors, text \in Texts : Edit(e, text)
  \/ \E e \in Editors : Load(e) \/ ReplaySave(e) \/ CommitSave(e) \/ RefuseSave(e)

Spec == Init /\ [][Next]_vars

-----------------------------------------------------------------------------
(* Properties                                                                *)

\* What an answer says is so: the version it names is its asker's and has the
\* text the call asked for; a save holds the state it was given.
Holds(answer) ==
  /\ answer.revision \in DOMAIN log
  /\ answer.by \in Editors => log[answer.revision].op.drafts = answer.drafts
  /\ answer.by \in Calls /\ answer.ok =>
       /\ answer.draft \in DOMAIN Drafts /\ answer.version \in DOMAIN Drafts[answer.draft]
       /\ Drafts[answer.draft][answer.version] = Version(answer.ask)

\* The first answer to a call stays true through retries, restarts, other
\* writers and power losses; a replayed one is true when it is given.
AnswersHold ==
  /\ \A answer \in told : ~ answer.replayed => Holds(answer)
  /\ losses = 0 => \A answer \in told : Holds(answer)

\* One call, one version: no two calls are told the same version of a draft,
\* and no call is told two, however often it ran, failed or lost its answer.
OneVersionPerCall ==
  losses = 0 => \A x, y \in {answer \in told : answer.by \in Calls /\ answer.ok} :
    (x.draft = y.draft /\ x.version = y.version) <=> (x.ask = y.ask)

\* Only a power loss takes a version back or renumbers a draft: a writer with a
\* stale copy of the whole state never overwrites one it has not seen.
NothingLost ==
  [][losses' = losses => \A d \in DOMAIN Drafts : d \in DOMAIN Drafts' /\ IsPrefix(Drafts[d], Drafts'[d])]_vars
=============================================================================
