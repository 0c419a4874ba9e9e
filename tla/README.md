# Verification of rein-agent

TLA+ models of the rein-agent repository, the TLC configurations that check
them on small instances, and theorems about them that TLAPS checks for every
instance. Paths below are relative to the repository (`src/` in `PROJECT.json`).

To check one instance: `tlc -config MCLedger.cfg MCLedger.tla`; to check the
proofs: `tlapm LedgerProofs.tla`, and so for each of the eight `...Proofs` modules.
`PROJECT.json` lists the runs, the source lines every definition stands for, the hazards the properties are aimed at, and for
each property a mutant of the code (an operator beside the original, marked
`Mutant:`) that breaks it.

## 1. The system

rein-agent is a set of plugins for an upstream agent host (OpenClaw, an empty
submodule here), which run a community's operations assistant: members talk to
it in Slack or Discord, it drafts proposals, runs votes and polls, and keeps its
records in a local ledger and a remote foundation database. Around it are a
router to language models and an automatic deployment.

| Component | Where | State it keeps | Operations |
|---|---|---|---|
| Ledger | `plugins/rein-operations/ledger.ts` | one JSON file: revision, records, receipts, audit; a lock directory | `read`, `transact` |
| Proposal core | `.../proposals.ts` | members, identities, zero-budget policy, proposals, receipts | record/revoke member, link/revoke identity, authorize/revoke policy, draft, revise, confirm, submit, hold, resume, withdraw, copy |
| Proposal store, tool bridge | `.../proposal-store.ts`, `proposal-tool-bridge.ts`, `request-context.ts` | one slot of the ledger's records with a revision of its own | transact with expected revision, replay; tools that write as the requester |
| Governance engine | `.../governance.ts`, `vote-tally.ts`, `vote-type-resolve.ts` | a frozen snapshot, ballots, recusals | open, cast, replace, recuse, tally, allocate, match a type |
| Post-vote revision rules | `.../proposal-revision-rules.ts` | none: the caller passes the snapshot of the decision and the current version | classify, decide |
| Ingress proofs, backend runtime | `.../ingress-proof.ts`, `backend-runtime.ts`, `backend-transport.ts` | a bounded map of proofs by run and scope; contexts in flight | record, resolve, evict, expire; mint a proof, call a tool |
| Operations tools | `.../*-tools.ts`, `proposal-draft.ts`, `proposal-confirmation.ts` | none: sealed tokens carry drafts and confirmations to the member and back | collect, submit, open, vote, result, suggest, approve, apply; status, funds, candidates, resolve, search, get, bind |
| Database adapter | `.../backend-db-adapter.ts`, the promises in `scripts/foundation-db-writer.ts` | none | one request per operation, with a proof |
| Reply guards | `.../poll-reply-guard.ts`, `vote-reply-guard.ts`, `proposal-collect-reply-guard.ts` | per run: which tool results the reply may speak of | before/after tool call, before reply |
| Isolated conversations | `plugins/rein-isolation/*` | seen events, a queue per owner, active turns, notes and a generation per owner (SQLite) | receive, /new, /reset, /forget, dispatch, deliver, memory tools |
| Channel adapters | `plugins/rein-discord/*`, `plugins/rein-slack/*` | connection, pending admissions | admit, acknowledge, verify, send |
| Model router | `plugins/rein-router/*` | an entry per run, provenance, a child process with its profile lock | resolve, attempt, tool call, settle; start, stop, clean up |
| Automatic deployment | `deploy/nori-webhook.py`, `deploy/nori-update.py` | event queue, transaction journal, status, release directories, report outbox | accept, drain, build, activate, recover |
| Deployment reporter | `deploy/nori-report.py` | reports/ and reported/ | deliver |
| Scripts, web, templates, evals | `scripts/`, `web/`, `templates/`, `evals/` | none of their own | launch, show, test |

How they interact. A message reaches a channel adapter, which admits it and
hands it to the isolated receiver; that opens a turn and calls the host. During
the turn the host calls tools: memory tools, proposal tools (bridge, store,
ledger, core, all synchronous inside one `transact`), and backend tools (the
runtime mints a proof over HTTP for each call, then the adapter calls the
foundation database with it). Reply guards watch the results of the tools and may
put a fixed sentence in the place of the reply. Before a run and each attempt of it
the host asks the router which model it may use; some routes go through a managed
gateway, a child process of the plugin. The governance engine and the revision
rules are pure: who calls them keeps the state. Several gateway
processes may share the ledger file. The deployment is separate: the webhook
server and the updater share two directories, the updater and the reporter two
others.

What is hard:

* **Crashes between durable steps**: a rename before the fsync of its directory
  (ledger), two directory renames under a journal (deployment), a receipt
  before the removal of its event.
* **Interleaving**: gateway processes on one file; webhook and updater on one
  queue; turns, forgets and restarts of a receiver; `start` and `stop` of the
  managed gateway at every await.
* **Retries**: idempotency keys at three levels (ledger, store, core),
  redelivered webhook events, restarted runs.
* **Long legal sequences**: revise, confirm, hold, resume, submit and submit
  again in any order, while roles, links and policies expire.
* **Answers that come late or never**: a tool call is several requests; its turn
  may end, its host may give up and run it again, and the rights and records it
  read may change before its last one; the router's hooks outlive the patience of
  the host.
* **Limits**: the owner queue, the seen set, the stores of the reply guards, the
  router's entries.

What makes each component correct, in a line: the ledger is an atomic durable
log with one receipt per key; a formal proposal version is the one its lead
confirmed, nothing that asks for funds is approved by the agent, and selection
holds no event twice; a deployment is one atomic switch to a healthy release
which survives any crash, and every event is settled once, in the end; a tally
counts what stands, once each; a write request carries the proof of its own call,
and what is stored was confirmed by its author; what a tool tells
was so during the call and is shown to who may see it; the sentence in the place of
a reply is that of the run's own last calls; nothing forgotten is spoken of; a
reserved route is earned by the resolution that is current; at most one child
process runs per profile.

## 2. Modules

| Module | Models | Status |
|---|---|---|
| `AtomicLedger` | the promise of the ledger: a log that grows by one entry for a fresh key, what is acknowledged is kept | abstract specification |
| `Ledger` | `transact()` call by file-system call, in any number of processes | complete |
| `LedgerProofs` | its inductive invariant and the refinement of `AtomicLedger` | proved |
| `Proposals` | the operations of `createProposalCore` | complete up to field contents |
| `ProposalsProofs` | its inductive invariant | proved |
| `ProposalStore` | store and tool bridge over an instance of `AtomicLedger` | complete up to confirm and submit, which the plugin refuses |
| `ProposalStoreProofs` | its inductive invariant and an action property | proved |
| `Governance` | rounds, ballots, recusals, tally, allocation | complete |
| `Feedback` | `tallyVote()` and `decidePostVoteFeedback()` | the decisions; no comments |
| `Operations` | the eight tools that write, the proof of a call, the database behind them | complete up to wording |
| `OperationsProofs` | three inductive invariants of `Operations` | proved |
| `Answers` | the nine tools that only ask or bind, and `resolveVoteTypePhrase()` | complete up to wording |
| `GovernanceProofs` | the inductive invariants of `Governance`, `Feedback`, `Answers` and `ReplyGuards`, and an action property | proved |
| `ReplyGuards` | the three guards and their stores | complete up to wording |
| `IsolatedTurns` | receivers, owner queues, turns, memory tools, restarts of the gateway | complete for Slack up to admission |
| `IsolatedTurnsProofs` | its inductive invariant | proved |
| `ManagedGateway` | profile lock, bridge, manager and process tree of the child process | complete |
| `Router` | composes `ManagedGateway` with the hooks of the router | routes and rights; no accounting |
| `RouterProofs` | the inductive invariants of `ManagedGateway` and `Router` | proved |
| `AtomicDeploy` | the promise of the deployment: the live release is replaced in one step by a newer one that is healthy | abstract specification |
| `NoriUpdate` | webhook, queue, updater, journal, recovery, report outbox | complete up to the build itself |
| `Reporter` | composes `NoriUpdate` with the reporter | complete up to the text |
| `ReporterProofs` | the inductive invariants of `NoriUpdate` and `Reporter`, and the refinement of `AtomicDeploy` | proved |
| `MC...` | instances for TLC, one for each module that is run (`MCNoriUpdate` runs `Reporter`, `MCRouter` runs `Router`, `MCRules` runs `Governance` and `Feedback`, each alone in its behaviours) | |

Each component module has the same layout: constants with their named assumption,
variables, `Init`, one action per operation or per stretch of code between two
awaits, `Next`, and the properties last. History variables are marked in their
declaration and read by properties only.

### Ledger

State and code: `file` is what `read()` returns; `survivors` are the contents
the disk may show after a power loss (the last fsynced one and every one renamed
in since); `lock` is the lock directory; `pc[p]` is the point process `p` has
reached, `next[p]` the object it built. `transact()` is synchronous, so two calls
in one process do not interleave: a process is the unit of concurrency. `mkdir` is
`Acquire`; a second `mkdir` throws and changes nothing, so it is no action. The
lookup of the receipt gives `Replay`, `Conflict` or `Apply`; then `WriteTemp`, `Rename`,
`SyncDirectory`, `Release` (the `finally`). `promised` and `replayed` are history: what
callers were given.

Faults: `CallFails` is an exception of a file-system call (the two `finally` blocks
run), `Crash` the death of a process (they do not, and the lock stays until an
operator removes it, `ClearStaleLock`), `PowerLoss` a reset of the host. `apply()` is a
counter per key: it shows whether a key was applied never, once or twice.

### Proposals

`proposals` is the list of `state.proposals`; a proposal keeps its `versions`
(contents), `confirmed` (`confirmedVersion`), `lead`, `confirmations`, `state`, `pending`
(`materialChangesPending` is not empty), `duplicateOf` and `approval`. Contents are
records of what the code decides on: complete information or not, funding asked
for or not, itemised or not, no further costs confirmed or not, event type, title and
start; of these, amount, confirmations and start are material, and the required
information, which holds fields of both kinds, is taken as not material. The registry (`members`, `identities`,
`policy`) changes and time passes between any two operations.

An operation that is refused leaves everything as it is and is not an action;
one that leaves a receipt of the refusal is (`SubmitRefused`). `copyProposal` shares
the receipts of `createDraft`, as in the code.

### ProposalStore

The ledger is `Log == INSTANCE AtomicLedger`, so the module rests on the refinement
proved of `Ledger` and not on its file-system calls: an entry of `log` is a
transaction whose operation is the new state of the slot, `holder` is the lock
directory. `CommitCall` is `load`, the rebuilt core, its operation and the write, in
one synchronous step under the lock; `AnswerCommit` and `LoseAnswer` are what
follows the rename. `Key` and `Label` are the receipt key and the fingerprinted
action of the bridge. An editor is a caller of `save()`: it loads, edits a copy, and
saves it with the revision it expects.

A refusal of the core is committed with a receipt, as in the code, and a receipt
answers a call whose turn has become stale. The plugin hands the bridge no
authority, so confirm and submit are refused in the core; they take part as calls
that leave a receipt.

### Governance and Feedback

The engine is pure and its caller passes every time, so `at` is an input and does not
grow. `createRound`, `castBallot` and `declareRecusal` are actions on the record the caller
keeps, `tallyProposal` and `tallyRound` are operators on it (`Status`, `Allocated`,
`Decision`). `ValidInput` and `ValidRules` are all that `createRound` asks of its input; a ranking
beside a rule that ignores it is let through, as in the code. A refused call returns its input and is a stutter. `acknowledged` is
history: the keyed calls that were answered as accepted. The only caller in the
plugin is `rein_simulate_vote` of `index.ts`.

`Feedback` folds `Count` over the ballots as the loop of `tallyVote` does, and takes
the decision to `decidePostVoteFeedback`: `Accepted` is its sequence of refusals,
`Revise` the version its caller stores, `ChangeBoard` a roster that changes between
two calls. How a tally becomes a decision is not in the repository; here a unique
winner is approved. Only tests call these two cores.

### Operations and OperationsProofs

A call goes `idle` -> `minting` -> `reading` -> `deciding` -> `sent` -> `over`, or `failed`, which
its host may run again in the same turn. Each arrow is an await: between two of them
`EndTurn` makes turns stale, `Tick` moves the clock, others' calls run. `proof[t]` is
`proofByContext` for the context of turn `t`; `Enter` and `Leave` are the two ends of
`wrapExecute`. A write request enters `wire` with the proof the context holds at that moment
(`Send`), and is served later (`ServeSubmit`, `ServeOpen`, `ServeVote`, `ServeResult`,
`ServeSuggest`, `ServeApprove`, `ServeApply`), also after its host has given it up. `tokens` and
`drafts` are the sealed tokens that were handed out; their sealing is not modelled, their
binding, expiry and turn are. A confirmation token comes back as it was `issued` or `respelled`
(`Presented`): `ReadEnvelope` trims it and reads its expiry as a number, while `NextTurn` compares
the string. `ConfirmedText` therefore asks for a later turn only of a token that came back as it
was issued (section 4).

The database is not in this repository: the `Serve` actions are external and promise
what `foundation-db-writer.ts` states of it (a record is written once under its id, a
poll is finalised once, a revision waits for approval when the tool says it is material).
Sender roles do not change during a behaviour; an explicit null that clears a field of
`collect`, cancelled rounds and rounds that open in the future are left out.

### Answers

A call asks for its proof (`minting`), then makes one to three requests (`asking`, `heard`),
then answers. `world` is what the backend holds and changes by anybody's hand
(`Change`, external); a request may be lost before or after it was served. A body without its
envelope, its status or its list is read as no answer. A resolved body that lacks a part is
read all the same (`ReadAs`, `ReadInPart`): a missing or garbled role flag as false, a
missing contact as null, the missing figure of a snapshot as null, and the tools tell a
missing role, `identity_link_required` or a snapshot without a figure. `missing[t]` is history,
the parts (`Parts`) that the bodies of the call lacked, and `ToldTrue` holds up to these parts and
no others. `span[t]` is history, too: every state of the backend since the
call of turn `t` began, so that a property can say what was so during the call. One
decision operator per tool says what it makes of each answer. `Matches` is
`resolveVoteTypePhrase` on phrases with their normal forms. The elements of the lists
(types, candidates, catalog entries) and the optional fields of a profile are not told apart,
so a list with a garbled element is left out.

### ReplyGuards

`collect`, `vote` and `poll` are the three stores, sets of entries; the `age` of an entry is how
many were set since, which is the insertion order of the code's `Map`. `Sweep` expires
and evicts the oldest, as every hook does first. A call is reported under the
tool's name (`FirstReport`) and on some hosts again inside the dispatcher's envelope
(`SecondReport`); `ReplyPayloadSending` is the hook before a final payload, on which the guards
are applied in the order of their registration. Runs interleave at every hook. A
call is a tag of its answer: which answers verify, and how the sentence is worded, is
abstracted to `answer`, `round`, `count` and the host's `error`. Within a run calls come
one after the other, and both reports of a call come before the next.

### IsolatedTurns

Everything is one event loop, so an action is the code between two awaits. `queue[r][o]`
is the promise chain of `createOwnerQueue` for receiver `r` and owner `o`; its first event
is the running task, and `task[r][o]` says where that is: not begun, resolving the
ingress, in a turn, posting the rest of a reply, posting its confirmation, about to settle.
`turns` is the map of `turn-control.mjs`, which all receivers of the process share; `generation`
and `notes` are the SQLite tables. `forgotten`, `reply`, `committed`, `acked` and `unsent` are
history.

`Receive` is what happens synchronously at receipt; `Skip`, `Reset`, `Forget` and `Admit` are
the ways a task begins, `OpenTurn` and `Refuse` what follows the ingress, `EndTurn` the
`finally` around `dispatch`, `Finish` the `finally` of the queue. A reset, a committed `/forget` and
a turn that asked for a deletion then await the post of their fixed text: `Confirm` is its end.
The post may fail (`send` throws, the gateway logs it, nothing sends the text again), and a
failure is kept in `unsent`; so `DeletionConfirmed` says that a sender is told of a committed
deletion unless the receiver is stopped or that one post fails. What it excludes is a
deletion that nobody tries to confirm. A post that fails inside a turn leaves out the rest
of the reply (`NextChunk`).
The host is not in this repository. During a turn it may call a memory tool or deliver a
reply at any time and in any order; assumed is that it does not call a tool of a turn
while it waits for that turn's final reply to be posted. `Stop` aborts the receiver's
signal and leaves its tasks running, `Start` begins another receiver, `Crash` keeps
only the database.

### ManagedGateway and Router

`profile` is the lock file, `registry` and `bridge` are what `service-bridge.mjs` keeps for a host
process, `manager[i]` is where `start()` and `stop()` of instance `i` have come to, `tree` the live
operating-system processes and `ancestry` who forked whom of them. Each await of `start` is an
action, and a stop may come between any two; a child and its clients fork (`Fork`), and they
and whole host processes die at any time (`Dies`, `Crash`); a parent that dies takes its
edges with it, as its children then belong to init. The cleanup looks at the tree twice
(`Snapshot`, `Recheck`) and finds what the edges lead to from the root (`Descendants`).
Two kinds of client escape it, and both are history variables of the model: those
forked after the second look (`late`), and those whose line to the root had died out
before it and that the first look had not captured (`orphans`). `NoOverlap` counts neither
(section 4). A lock file that cannot be read or removed stays behind (`Release`, `Import`).

`Router` extends this with `entry`, the map of the router by run. A hook is a pending record in
`hooks` that reads rights and decisions at its awaits and may answer after the host has
gone on, for nothing ties an `Attempt` to a pending hook; so an older resolution can finish
after a newer one. `ValidRouterConfig` is what the validation of the configuration admits and
`SelectRoute` the choice. `truth`, `passes` and `allowed` are history. A message with attachments, one from
another channel or a requester who gives no leave to pay is one outcome, a decision
without a route; providers of others, the evidence of `wrapStreamFn` and simple
completions are left out.

### NoriUpdate

Revisions are numbered in the order they reach `main`, and a delivery is named by
the revision whose merge it reports. `job` is the updater process: `job.at` is the
point in `drain_events`, `run`, `recover` or `activate`; each durable step (a journal
or status write, a rename, a service command, a receipt, the removal of an event) is
an action. `root` and `previous` are the release directories, `serving` is what the
services run. The lock `update.lock` makes the updater single, so there is one job.
Webhook acceptance is two steps, because between its look at `pending/` and its look
at `received/` the updater may move the event.

Failures: every step may raise (`LatestFails`, `Defer`, `Fail`, `JournalUnsure`,
`ActivateFails`, `ActivateFailsLate`, `RecoverFails`) or the process or host may stop
(`Crash`). SIGTERM is an exception in this program, so it is the same actions.

### Reporter

`courier` is the reporter process, `slip[r]` the file of report `r` with what was saved in it
(GitHub's answers, the payload, the Slack receipt), `backend` and `posts` are what the two
services hold. Each request and each save is an action, and `Miss` breaks any of them
off before or after it took effect, by an error or a kill. `github` is the answer GitHub
would give now; it changes between two questions. `unsure` counts the interruptions between a
Slack post and the save of its receipt: they are the only reason for a second post.
Ranges with more commits or pull requests than the reporter handles, whose files stay
until somebody looks, are not offered.

## 3. Runs

| Run | Instance | States | Shows |
|---|---|---|---|
| `ledger` | 2 processes, 2 keys, 2 operations, 2 faults, 2 power losses | 0.7 M | consistent file, durable receipts, refinement of `AtomicLedger` |
| `proposals` | 2 Contributors with 2 proposals over a registry that stands still; 1 with 1 proposal, 5 contents, 2 registry changes, 2 instants | 0.9 M | confirmed formal versions, no duplicates in selection, duplicate chains end |
| `proposal_store` | 2 calls of 2 accounts, alone with a power loss and beside an editor | 0.7 M | an answer holds, one call makes one version, no version is overwritten unseen |
| `rules` | rounds of 2 or 3 members, 1 to 3 proposals, seven sets of rules, 3 ballots; or 3 people of whom 2 are eligible, 3 ballots, 3 versions | 0.3 M | the tally counts what stands; one ballot per key; the electorate is frozen; no budget is spent twice; the first valid ballots of a vote count; no material field moves without an approval for that revision |
| `operations` | seven desks of 2 or 3 calls of 5 turns | 0.9 M | confirmed text (with the exception of section 4), answers that stay true, a proof per call, no material revision unapproved |
| `collect_resume` | the same | | **finding**: a draft that carries a type cannot be resumed |
| `answers` | 3 turns, 2 desks, 6 phrases, 2 changes of the backend, bodies in part | 1.5 M | what is told was so (up to what a body lacked), is shown to who may see it, and leaves for a current turn only |
| `reply_guards` | 2 runs, stores of 1 entry, 3 calls of 9 kinds, 1 tick, 2 payloads per run | 2.4 M | every accepted ballot is said, nothing else is, the sentence is of the run's last calls |
| `isolated_turns` | 1 owner, one event each to talk, reset and forget, 2 notes, 2 receivers, 4 deliveries | 1.5 M | nothing of an ended session is spoken or written, and no deletion is confirmed that did not happen |
| `isolated_progress` | the same with 1 note and 3 deliveries | 66 k | every committed deletion is confirmed or its confirmation fails; queues drain |
| `router` | 5 routes, 2 runs and room for 1, 3 instances in 2 processes, 3 starts, 1 crash, 2 forks | 1.8 M | reserved routes are earned, moves go down the fallbacks, one child per profile (up to what the cleanup cannot find) |
| `nori_update` | 2 merges, one unhealthy; 2 failures and a manual run of the updater, or 2 failures of the reporter and an edit on GitHub | 0.6 M | releases, events and reports survive, each settled once and in the end; refinement of `AtomicDeploy` |

Why the bounds are enough.

* *Ledger*: two processes and two keys give every overlap and every conflict; two
  faults allow a failure inside the recovery from the first one, two power losses a
  loss of what the first one restored.
* *Proposals*: every property speaks of one proposal and its history or of two
  proposals; two versions give each order of revise and confirm. The instance starts
  from registries that registry operations can reach.
* *ProposalStore*: two calls give a race, a reused call id, and a retry around another
  call; one power loss is enough to take an unacknowledged entry back, and it meets a
  retry. `MaxLog` 3 leaves room for both calls and a save.
* *Governance*, *Feedback*: the smallest rosters on which weights, recusals, ties and
  participation differ, and all sequences of three ballots: one may replace
  another, repeat its key and meet a recusal.
* *Operations*: three calls are a preview, its confirmation, and a rival; or two
  ballots and the result. Two calls of two tries let a lost answer, a retry and
  another turn's call meet. The clock reaches the expiry of a token (`Ttl` 1) and the
  closing of a poll. A desk says which tools meet, so that each behaviour stays small;
  tools of different desks share no record in the code but the proposals they are given.
* *Answers*: in one desk every tool once while the backend changes twice; in the
  other the binding, whose session outlives a call. Three turns are a director in a
  channel approved for both audiences, and one account in a proposal channel and in
  one approved for nothing.
* *ReplyGuards*: stores of one entry make two runs evict each other, one tick expires
  an entry; three calls are the longest sequence a guard distinguishes (a read,
  a ballot, and what disqualifies them).
* *IsolatedTurns*: owners share nothing but the total of the queue, so one is enough;
  two receivers are an old one and its successor; three deliveries put a forget or a
  reset between two messages and fill the queue, the fourth is an event pushed out of the seen set.
* *Router*: two resolutions of one run are enough for a late one, five attempts
  walk down the whole ladder, two runs with room for one overload it. Three starts
  in two host processes are an instance, its reload and a rival; two forks are a client
  and its client, the least that can lose its line to the root.
* *NoriUpdate*, *Reporter*: two merges are the least that can supersede a build, one
  broken revision forces the rollback, two faults crash the recovery of a crash. The
  two worlds of `MCNoriUpdate` are starting values of the counters of faults.

Counters are bounded in the guards of the actions that raise them (the constants named
`Max...`, and the fields `calls`, `tries`, `changes`, `until`, `losses`, `resolve`, `attempt`,
`tool`, `change` of a desk); `MCProposals` also has the constraint `OneProposal`. `CHECK_DEADLOCK FALSE` stands where
an instance has nothing left to do at its bounds; `ledger` and `nori_update` are
checked for deadlock. Symmetry is used where values are interchangeable and the run
has no liveness property; where people belong together with their turns or their
accounts, only the permutations that respect it are taken.

Fairness. Only the liveness properties need any.

* `UpdateFairness` of `NoriUpdate` assumes that the updater runs on (`WF_vars(Step)`) and that it
  is started again while it is idle (`WF_vars(StartDrain)`): `deploy/` installs a systemd path
  unit for the event directory and the service restarts on failure, and at boot.
* `Fairness` of `Reporter` adds the same for the reporter (`WF_allVars(CourierStep)`,
  `WF_allVars(Wake)`): its path unit is `PathExistsGlob` on the reports, its service has
  `Restart=on-failure`, `RestartSec=60` and `StartLimitIntervalSec=0`. Nothing is assumed
  of merges, GitHub, Slack or the administrator. Failures are bounded, so the
  properties read: after the last failure every event gets its receipt
  (`EventsSettled`) and every report leaves the queue (`ReportsArrive`).
* `FairSpec` of `IsolatedTurns` assumes that promises settle (`WF_vars(Proceed(r, o))`: each is a
  continuation the event loop runs, also after a post that failed) and that the host ends every turn
  (`SF_vars(EndTurn(r, o))`: strong, because the turn is left and entered again for every
  reply in between, and justified because `dispatch` returns or throws, at the latest on
  the abort signal it is given). A host that never returned would block the owner.

## 4. Findings

One is shown by a run. `collect_resume`: `proposal-collect-tools.ts:668-670` passes an
empty list of types when the draft carries one, and `resolveVoteType()` refuses every
type that is not in its list. The comment at 666 says the carried type "is already
configured, so it needs no second read of the table".

Three are exceptions that a property names, because the code does not keep what its comments
say. The models take the step; no run is there only to show it.

* `ConfirmedText`: `governance-write-tools.ts:987-990` looks for the raw string of
  a confirmation token among those the turn issued, while `proposal-confirmation.ts:290` and `295`
  trim the token and read its expiry as a number, so that the turn's own token in another
  spelling is confirmed in the turn that prepared it. The comment at 982 says that "a turn
  that prepared this very token cannot be the turn that confirms it", `docs/setup.md:433` that the
  two "must occur in separate inbound turns", and `tests/governance-write-tools.test.mjs:917`
  that 'a same-turn confirmation never reaches the writer'; the test repeats the string as it was.
* `ToldTrue`: `readAvailableFunds` takes the status of the body as it is and reads a figure that is
  missing or not a number as null (`backend-db-adapter.ts:267-272`), and `rein_funds` answers
  with `ok` for every status `snapshot`. Its description (`governance-read-tools.ts:476`) says that the funds
  are reported "as explicitly unknown when no usable snapshot exists", and
  `docs/integration-contracts.md:140` that "an absent or unusable snapshot must be reported as
  explicitly unknown"; the status `unknown` exists (`foundation-db-reader.ts:44`).
* `NoOverlap`: `descendantPids` (`process-tree.mjs:21-38`) follows the parents' pids of live
  processes from the root, so a client whose parent had exited before the first look is
  neither captured nor verified; the cleanup still reports that it is complete, and
  `managed-gateway.mjs:165-166` gives the lock back while that client runs. The comment at
  `managed-gateway.mjs:161-162` keeps the lock because "an unverified detached native client must
  not overlap a second service or an offline credential import".

Other places where the code does not do what a comment, a document or a test says of
it, or where a reader may expect more than it does. They came up while modelling; the
models take the code's side and the properties are stated so that they hold of it.

Ledger, store and core:

* `ledger.ts:38` returns a receipt without making it durable: after a death between
  `renameSync` and the fsync of the directory, a second process replays a receipt that
  a power loss then takes back. Acknowledged commits are durable (`PromiseKept`).
* `proposals.ts:640` overwrites `materialChangesPending` with the changes of the last
  patch; the comment at 675-676 wants a material change acknowledged "rather than absorbed".
* `proposals.ts:785`: an approved proposal that is submitted again becomes `duplicate`
  of a similar later draft; `tests/proposals.test.mjs:602` names approved proposals
  "protected from silent change".
* `proposals.ts:458`: `revokeMemberRole()` ends the first active grant only;
  `proposals.ts:926`: `copyProposal()` shares the receipts of `createDraft()`.
* `save()` with an explicit key answers a later save of the same state from the first
  receipt. Confirm and submit are always refused in the plugin, and refusals, too, are
  replayed.

Engine and rules: `requireNonAbstainingVote` is validated and never read by
`tallyProposal`; a revision id that is used twice lets its approvals count twice.

Chat tools:

* "a stale turn cannot commit" is so of what is sent: a request on its way is served.
* `recorded: false` on a transport error, also of `bind_complete`, does not say that
  nothing was recorded.
* `poll_open` run again after a lost answer finds its own frozen candidates missing from
  the pool and is refused.
* A role flag or a contact that is missing from a resolved body is told as a missing role or
  link (`backend-db-adapter.ts:236`, `243-244`), not as an outage; `ToldTrue` holds up to it.
* `proposal-feedback-tools.ts:375` answers an identity lookup that failed as
  `identity_link_required`.
* Refusals and the identity tools answer without looking at the turn again; standing
  and pool are read at different moments.

Channel turns: the confirmation of a committed deletion is posted once; a post that fails is
logged (`gateway.mjs:90`) and not tried again, so a deletion can stay unconfirmed.

Reply guards:

* Of the writes, only a submit clears the collect guard: a question it is armed with
  can still replace the reply about a later vote, poll or feedback write. The poll guard is
  cleared by each of them (`index.ts:90-92`: "a write outcome is delivered as the model
  wrote it").
* The poll guard ignores a provisional read whose host error is "failed", so an
  earlier sentence about a closed round stays.
* A disqualified entry of the vote guard is forgotten when it expires, is evicted or
  consumed; a later ballot of the run can then arm it, although "a second tool call
  in the same run disqualifies the run" (`index.ts:81-82`).

Router:

* The first attempt may be any fallback, when the host skips the selected route.
* A run the router has no room for is taken as a manual one when its attempt comes
  (against the comment at `runtime.mjs:294`); `ChosenFirst` excepts it.
* `beforeAgentRun` after the settlement makes a new entry.
* A lock file is left by a host that dies or cannot write it, and every later start is
  refused as `profile_busy` until somebody removes it; so is a lock that its owner fails to
  remove, for the failure is swallowed (`managed-gateway.mjs:77`). A client forked after the
  second snapshot outlives the cleanup; `NoOverlap` does not count it.
* Only the moves of a run are ordered: a fallback that is the route of the first attempt may
  be attempted again further down (`LadderFollowed`).

Deployment: `nori-update.py:420-428`: an exception inside the `try` after
`journal.unlink()` finds no journal, and `run()` records `failed` for the deployed
revision, against the comment at 423-424. `nori-update.py:460`: a SIGTERM during a
build fails the revision like any other error.

## 5. Proofs

One module of proofs per component; `MCNoriUpdate` and `ReporterProofs` cover `NoriUpdate`
together with `Reporter`, `MCRouter` and `RouterProofs` cover `ManagedGateway` with `Router`, and `GovernanceProofs`
covers `Governance`, `Feedback`, `Answers` and `ReplyGuards`, which share no variable.
All are laid out alike: the inductive invariant as named conjuncts, a lemma per action
or group of actions, the theorem that it is invariant, and the properties as
consequences. The theorems hold for any values of the constants under the named
`ASSUME`s of the model, which TLC evaluates in every run. The invariants of `NoriUpdate`, `Proposals`
and `ProposalStore` were themselves checked by TLC on the instances of section 3 before they
were proved.

### LedgerProofs

For any processes, keys, operations and bounds, under `ConstantsAssumption` (`NoReceipt` is not a
receipt; the bounds are naturals):

| Theorem | States |
|---|---|
| `TypeCorrect` | `Spec => []TypeOK` |
| `Exclusion` | one process in the section; the lock is held exactly while one is |
| `Consistency` | revision, receipts, audit and records agree in the file and in whatever may survive |
| `Durability` | a promised receipt is in the file and in whatever may survive |
| `Refinement` | `Spec => AtomicSpec` |

The argument. The properties are not inductive: a step of `Rename` puts `next[p]` into
the file, so something must be known of `next[p]`, and of the file it was made from.
`IInv` adds: while a process is between `Apply` and `Rename`, its `next` is
`NextContent` of the *current* file and its key has no receipt there (nobody else can
have changed the file, by exclusion); a renamed process finds its own key in the
file's last entry; and every content in `survivors` is a prefix of the file's log
(`SurvivorsBehind`, `NextFresh`, `RenamedOwn`). `NextContentConsistent` is the lemma on data: `NextContent` of a
consistent content is consistent, extends its log by one entry and keeps its
receipts. `StepInv` has one step per action. For the refinement, the log is
`file.audit`, the kept lengths are the revisions of `survivors`, the acknowledged keys
are the promised ones: `Rename` is the abstract commit, `SyncDirectory` the abstract
acknowledgement, `PowerLoss` the abstract loss of a tail, and everything else stutters.
`TypeOK`, `MutualExclusion` and `LockNotLeaked` are there for the proofs; no run lists them.

### OperationsProofs

For any turns, roles, texts, desks and bounds, under `ConstantsAssumption` of `Operations` (every
sender has a role, every channel a kind; what a desk starts with is what the code can
have stored: a proposal is filed under its author and text, its polls are open and nobody
has voted in them; `None` is no director):

| Theorem | States |
|---|---|
| `ProofAlwaysOwn` | `Spec => []ProofOwn`: a request on the wire carries the proof minted for its own call and was sent in a current turn |
| `AlwaysConfirmedText` | `Spec => []ConfirmedText`: what is stored was confirmed by its author on a live token for that text, in another turn than the preview's when the token came back as it was issued, and is stored once |
| `AlwaysAnswerKept` | `Spec => []AnswerKept`: what a tool told stays true in the database |
| `AlwaysApproved` | `Spec => []MaterialApproved`: a material revision takes effect only with a director's approval, and no two revisions of a proposal take the same version |

The first is not inductive because `Send` takes whatever proof the context holds. `OwnInv`
adds why that is the call's own: calls are typed (`CallsOK`), a turn has at most one call
in flight (`OneInFlight`), the proof a context holds belongs to that call (`ProofHeld`), and a request on
the wire is from a call that was made (`WireCalls`). The lemmas follow the life of a call:
`EnterOwn`, `MintOwn`, `MoveOn`, `SendOwn`, `LeaveOwn`, then `CallOwn` and `ServeOwn` over all actions.

The second needs what is known of a request before it is served: `SaidInv` says that every
submit on the wire is backed by a confirmation in `pronounced` under the id its contact and
text derive (`SubmitSaid`) and that a stored proposal is either of the desk or so backed (`StoredSaid`). `ConfirmSaid`
is the step in which the confirmation is checked, `NoSubmit` and `OtherSend` dispose of every
step that sends no submit, `ServeSaid` carries the fact from the wire to the table.

The other two are about reads that grow old: between the request in which a call saw a
record and the one in which it writes, others write too. `BooksInv` says of each thing a call
holds why age does not matter: a request on the wire (`Requests`), the record a call works
on (`Jobs`) and what it has read of it (`Sights`) stay true, because the tables only grow and a
closed round or an approved revision never changes (`Grows`, an action lemma). `Recounted` ties
a closed poll to the ballots of its time, `VersionsOnce` and `TopVersion` say that two
revisions of a proposal never take the same version; `EffectiveOnly` is what an applied
revision needed. `Answered` then carries each answer over every later step.

### IsolatedTurnsProofs

For any owners, events, names of notes and limits (all positive), under
`IsolatedAssumption`:

| Theorem | States |
|---|---|
| `TypeCorrect` | `Spec => []TypeInvariant` |
| `RepliesCurrent` | `Spec => []NoStaleReply`: no reply is delivered into a later session than its message's |
| `Forgotten` | `Spec => []ForgottenForGood`: what a committed deletion removed does not come back |

A task may sleep in any await while its receiver is stopped and another one runs, so
neither property is inductive. `IInv` adds: at most one receiver is live and one that was
never started has nothing to do (`OneLive`); a task is that of the first event of its queue
(`TaskHasEvent`); while the receiver lives and its turn has committed no deletion, the session
of the task is the owner's current generation (`SessionCurrent`) - the reason why a late `Deliver`
is in time; a session that forgot a note is over once the deletion commits (`GenerationAhead`); a turn
that says "committed" is right (`OutcomeTrue`).

### RouterProofs

For any instances and host processes (`OwnersAssumption`: the three marks of the lock are no
instances), and for any catalog that the validation and the assertions at the start of the
plugin admit (`CatalogAssumption`; the default may be of low effort, and a choice that then needs
a capable one is an error of the hook), any requesters, desks and rights (`DeskAssumption`):

| Theorem | States |
|---|---|
| `OneGateway` | `Spec => []NoOverlap`: one child at a time uses the profile, and none during an import, `late` and `orphans` excepted |
| `RoutesEarned` | `Spec => []EarnedRoute`: a reserved route passes on what the last resolution established of the same requester |
| `ChoiceFirst` | `Spec => []ChosenFirst`: an automatic run attempts what was chosen for it or a declared fallback |
| `ToolsFresh` | `Spec => []DevelopmentFresh`: a development tool is for who had both rights during the decision |
| `MovesDown` | `Spec => []LadderFollowed`: a named run stays with its route, every move of an automatic one is further down the declared fallbacks than its earlier moves |

`OneGateway` is about managers between any two awaits of `start` and `stop`. `GatewayInv` says
what each of their points knows (`Fits`: from the lock to the spawn the lock is this
manager's unless a stop crossed it; a stop that has signalled has captured every client of the
child but the `late` ones and the `orphans`), and that whatever runs is the child of the lock's owner or the lock is an orphan
for good (`Guarded`). The three after it rest on the numbering of resolutions: `Numbered` (a
resolution has one hook), `HooksCurrent` (a hook that can still write an entry is that of the last
resolution of the run, and what it found out its requester had meanwhile), `EntryEarned` and
`ChoiceMade` (what an entry says, the last resolution found out), `ToolsAsked` (the same for a
tool call being decided).

`MovesDown` compares any two moves of a run, the entry keeps a cursor, and the ladder the
cursor counts in is the fallbacks without the route that was requested, which another
resolution may change under it. `LadderInv` says how far down the cursor is whatever the
request was: no move went further than to the place after the cursor, and there only
if the run is there still (`Reached`). `RungPlace` is the fact on data: rung `c + 1` of the ladder
is fallback `c + 1` or `c + 2`. `ResolveLadder`, `AttemptLadder` and `SettleLadder` are the steps that
touch the entry.

### GovernanceProofs

For any round, roster, number of ballots, fields, revisions, turns, changes of the
backend, runs, calls, sizes of the stores and times, under `NoneAssumption` of `Governance` (`None` is no
number), `FieldsAssumption` of `Feedback` (material and minor fields are disjoint, there
is a candidate, a Board and at least one approval per voter, and the candidates are an array
and so finitely many) and
`ConstantsAssumption` of `Answers` (every phrase has a normal form, the states of the backend are such
states); `ReplyGuards` needs none:

| Theorem | States |
|---|---|
| `OneBallotPerKey` | `Spec => []KeyCreatesOne` |
| `TallyOfTheStanding` | `Spec => []CountedStand`: the tally counts exactly the ballots that no later one replaces |
| `FrozenElectorate` | `Spec => ElectorateFrozen`, an action property: after the first ballot on a proposal nothing moves its electorate |
| `BudgetByRank` | `Spec => []AllocationRespectsRank`: the budget is never exceeded and no rank is jumped, however many proposals compete |
| `NoWeightTwice` | `Spec => []TalliedOnce`: the weights of the three choices add up to that of the participants, who are eligible, and nothing passes without participation and an approval |
| `FirstBallotsCount` | `FeedbackSpec => []FirstValidCounts`: however many ballots, the first well-formed one of each member counts and nothing else, and the winner leads each of the others |
| `AlwaysWarranted` | `FeedbackSpec => []RevisionsWarranted`: a material field moves only with an approval of that revision by the Board of then |
| `AlwaysToldTrue` | `AnswersSpec => []ToldTrue`: what a tool tells was so at some moment of its call, up to the parts a body lacked |
| `AlwaysEntitled` | `AnswersSpec => []Entitled`: it is shown to who had the standing for it during the call |
| `AlwaysFresh` | `AnswersSpec => []FreshForCurrent` |
| `AlwaysSaid` | `GuardsSpec => []BallotSaid`: who is told that a ballot is recorded has just recorded it |
| `AlwaysHeard` | `GuardsSpec => []BallotHeard`: a recorded ballot is said, whichever channels its calls were reported on |
| `AlwaysCurrent` | `GuardsSpec => []SentenceCurrent`: the sentence is that of the run's last calls, and is used once |

`CountedStand` compares the filter of the tally, which looks for the *latest* ballot of a
member, with the chain of replacements, which is built one ballot at a time. `GovernanceInv`
has both sides: a ballot replaces an earlier one of the same member on the same proposal
(`Chained`), whatever is not the latest has been replaced (`Superseded`), and the latest exists
(`Latest`); and that a member with a ballot stays entitled (`StillEntitled`), as a recusal is
refused after the vote. `AnswersRecorded` and `KeysOnce` are the record behind an answer.

`AllocationRespectsRank`, `TalliedOnce` and `FirstValidCounts` speak of what a fold or a sum
computes, for data of any size. The library defines both by `CHOOSE` of the function that satisfies a
recursive equation, so the module begins with the induction that shows there is one: `LeastOf`
and `CountUp` for natural numbers, from the well-foundedness of `<` in the form that takes sets,
`BuildUp` over the subsets of a finite set, `FoldDefined` for a fold in any order of the elements. `SumAnyOrder`,
`SumAdd`, `SumDisjoint` and `SumGrows` are what follows for sums. `RankedSteps` and `TallySteps` then give
the fold back as the loop of the code, step by step:

* `RankKept` is the invariant of the loop over the ranking: what is spent and what is left are
  the budget, only places passed so far are funded, and each proposal that waits has its
  reason, which later places do not change (`EarlierPlaces`, because a ranking names nobody twice).
  `RoundSound` is what `createRound` has checked. That proof needs the rule to be
  `explicit_ranking`, since another rule may come with a ranking it ignores; the property says so, and
  the run has such a round.
* `CountsFirst` is the invariant of the loop over the ballots: the members entered, the counts and the
  number of refusals are those of the first valid ballots so far. `NextCounted` shows that the
  loop's own test, which knows only the members entered, refuses exactly the others; `WinnerLeads`
  that one leader among the maxima is who has more than each of the others.
* `TalliedOnce` is defined in `GovernanceProofs` and no run lists it (on the instance of `rules` TLC
  finds no violation); it follows from `CountedBallot` and `VotersApart`
  (the latest ballot of a member is one, so nobody is among the voters of two choices).

`FeedbackInv` says that each version is warranted by what was true when it was stored;
`AcceptedWarranted` reads that off the decision. `ChatInv` says of a call, between any two of its
requests, which role its earlier answers have established (`Cleared`) and that what it just
heard is what the backend would have said at some moment since it began (`HeardTrue`);
`OtherCall` is why this survives every change: the span of a call only grows. `AlwaysEntitled`
for the catalog rests on the backend calling an account linked exactly if it is a
member (`governance-read-tools.ts:464`, `Standings`).

`GuardsInv` relates what a guard keeps of a run, a phase and a signature, to the calls the
run has made since its last final payload (`Window`). While the run was never swept, the phase
tells apart a lone read, an accepted sequence and everything else (`PhaseFits`); after a
sweep the entry still has the last ballot (`LastBallot`), which is why the first half of
`BallotSaid` holds of swept runs too and the second does not. A call that is reported twice is counted
once because the entry knows the signature the second report will have (`VoteFits`),
and `ReportedCalls` is what the guard has been shown in the meantime. `PollFits` and `CollectFits` say the
same of the other two stores, `TextFits` of every payload already sent. Other runs disturb
a run only by having its entries swept (`OtherRun`). `NextPhaseFits`, `VoteDirect` and `VoteDispatched`
are the steps where a phase moves.

### ReporterProofs

For any number of merges, manual runs, faults and edits, under `NoriAssumption` and
`ReporterAssumption` (`None` is neither a transaction, an outcome, nor an entry of the backend):

| Theorem | States |
|---|---|
| `AlwaysReleaseKept` | `Spec => []ReleaseKept` |
| `AtomicDeployment` | `Spec => AtomicSpec`: the journal with its crashes and recoveries implements `AtomicDeploy` |
| `AlwaysSettledForGood` | `Spec => []SettledForGood` |
| `AlwaysReportedOnce` | `Spec => []ReportedOnce` |

Four invariants, each resting on those before it. `DiskInv`: what is on disk in each phase of a
transaction (`OnDisk`), between transactions (`Resting`), and what every program point knows of it
(`InTransaction`, the part that makes it inductive: the recovery is entered from every
point at which a process can die). `AtomicDeployment` follows from it: the live release of the
abstract specification is the journal's target once it is committed and the old one
before; the write of the committed phase is the abstract step and everything else stutters.
`EventsInv`: a run with a batch is about a revision that contains every merge of the batch
(`BatchCovered`), and the status says so when receipts are written (`StatusTold`). `OutboxInv`: a
committed deployment is in the outbox or its transaction still is under way, and `reports` and
`reported` are disjoint. `CourierInv`: what each request of the reporter builds on (`Delivering`) and
that a deployment is announced at most once more than its doubts, and then only when
that is on record or about to be (`Announced`).

### ProposalsProofs

For any accounts, members, contents, keys and any number of proposals, under
`ProposalsAssumption` (types of the constants; `None` is neither a member nor a key):

| Theorem | States |
|---|---|
| `AlwaysConfirmed` | `Spec => []FormalVersionConfirmed` |
| `AlwaysSingle` | `Spec => []NoDuplicateInSelection` |
| `ChainsEnd` | `Spec => []DuplicateChainsEnd` |

`CoreInv` has what is known of each proposal alone (`Sound`: the current version is confirmed by its
lead or none is; a formal state has a confirmed version; an approved one asks for
nothing and rests on a policy for its type) and the two relations between proposals. Most
operations place no proposal in selection or among the duplicates, and `NonePlaced` disposes of
them; submission and resumption, which do, are proved apart. A chain ends because a submission only ever points to a proposal that is no
duplicate (`DuplicateKeeps`), and a step that ends a duplicate only shortens chains.

### ProposalStoreProofs

For any calls, accounts, editors, texts, retries and power losses, under `StoreAssumption` (`"save"`
is no account: the keys of `save()` and of the bridge begin differently, `proposal-store.ts:341`,
`proposal-tool-bridge.ts:317`):

| Theorem | States |
|---|---|
| `AlwaysAnswersHold` | `Spec => []AnswersHold` |
| `AlwaysOneVersion` | `Spec => []OneVersionPerCall` |
| `AlwaysNothingLost` | `Spec => NothingLost`, an action property: no step but a power loss takes a version back |

`StoreInv` is about the log as a whole (`Chain`: each transaction has a key of its own, every
version of those before it, and a version of its own that none of those has), the holder of
the lock, the editors' copies (a copy has every version of the state it was loaded from,
which is why a save that meets the expected revision loses nothing) and the answers told. The
lemmas on `Later` and `Begins` say when one state has every version of another. That the ledger
below is an `AtomicLedger` is the theorem `Refinement`.

### Only model-checked

`EventsSettled`, `ReportsArrive`, `DeletionConfirmed` and `QueueDrains` are liveness under fairness, out of
the prover's reach.

## 6. Not modelled

`PROJECT.json` lists every component and what is left out of it.

* Of the channel adapters: the admission lane of Slack, the copy of the receiver that
  Discord has with its `/model` command, the verification of events.
* Of the router: provenance, quotas, spending policy, synchronisation of the catalog,
  the rewriting of upstream errors. They report on a run and decide nothing of it.
* Of the operations plugin: the parsing of the backend configuration; `ingress-proof.ts`,
  which only tests use; `rein_status` and the two simulations of `index.ts`, which keep nothing;
  comments and the audit trail of the revision rules; diagnostics and wording everywhere.
* Of the deployment: the validation of the configuration, logs, and the commands of a build
  (it succeeds, fails, or yields a release that never becomes healthy).
* Operator scripts, Slack test tooling, the web console, workspace, templates and
  evaluations: process and file I/O, presentation, prompt text and fixtures.

The ledger assumes what POSIX promises of `mkdir`, `rename` and `fsync`; the foundation
database, GitHub, Slack, systemd and the agent host are external and appear as what the
code relies on.

## 7. Plan

Done: every component that keeps state or decides on it, with the exceptions above.

Next: the admission lane of Slack and the `/model` command of Discord, in `IsolatedTurns`.
