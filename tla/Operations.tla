----------------------------- MODULE Operations -----------------------------
(* The chat tools that write governance records, over a backend that may     *)
(* answer late or not at all: collect and submit a proposal, open a poll,    *)
(* vote and read its result, suggest, approve and apply a revision.          *)
(*   backend-runtime.ts          one proof per call, one call per turn       *)
(*   governance-write-tools.ts   submit, poll_open, poll_vote, poll_result   *)
(*   proposal-collect-tools.ts   collect                                     *)
(*   proposal-feedback-tools.ts  comment_suggest, approve, apply             *)
(* A call is a sequence of awaits. Between two of them its turn may end, its *)
(* host may give up (and retry), other calls run, and the clock moves; what  *)
(* the code does after the last await up to the write request is one step.   *)
(* The database is not in this repository: its operations are external and   *)
(* promise what foundation-db-writer.ts says of them.                        *)
EXTENDS Integers, FiniteSetsExt

CONSTANTS
  Turns,         \* inbound turns: one create(ctx) of the tool factories each
  SenderOf,      \* [Turns -> contact], the record behind the trusted sender
  ChannelOf,     \* [Turns -> {"proposal", "board"}], the trusted channel
  Contributors,  \* contacts that are active Contributors
  Directors,     \* contacts that are current directors
  None,
  Texts,         \* proposal texts, as [title, type]
  Types,         \* proposal types a caller may name
  Configured,    \* those the operator's table holds
  Cap,           \* maxCandidates of the stored vote type
  MaxApprovals,  \* maxApprovalsPerVoter of the stored vote type
  Material,      \* revision fields that need a director's approval
  Ordinary,      \* revision fields that do not
  Values,        \* new values a field may be given
  Desks,         \* what may meet in one behaviour: [tools, turns], how many calls
                 \* are made and how often the host runs each, [calls, tries], how
                 \* far the clock goes, [until], and the proposals and polls that
                 \* are already stored, [stored, polls]
  Ttl,           \* lifetime of confirmation and draft tokens
  MaxCalls,      \* bound: tool calls of the busiest desk
  MaxTime        \* bound: the clock of any desk

ASSUME ConstantsAssumption ==
  /\ SenderOf \in [Turns -> Contributors \cup Directors]
  /\ ChannelOf \in [Turns -> {"proposal", "board"}]
  /\ Configured \subseteq Types
  /\ {Cap, MaxApprovals, Ttl, MaxCalls, MaxTime} \subseteq Nat
  /\ None \notin Directors
  /\ \A d \in Desks :
       /\ d.turns \subseteq Turns
       /\ d.tools \subseteq {"collect", "submit", "open", "vote", "result", "suggest", "approve", "apply"}
       /\ \A p \in DOMAIN d.stored : p = <<d.stored[p].contact, d.stored[p].text>>
       /\ \A p \in DOMAIN d.polls :   \* nobody has voted in them yet
            d.polls[p] \in [candidates : SUBSET DOMAIN d.stored, closes : Nat, status : {"open"}, winner : {{}}]

VARIABLES
  now, desk,
  ended,       \* turns that are no longer current
  calls,       \* the tool calls, each in its turn
  proof,       \* proofByContext: the call whose proof a turn's context holds, or 0
  tokens,      \* confirmation tokens handed out, with the turn that minted them
  drafts,      \* draft tokens handed out
  wire,        \* write requests sent and not yet served
  stored, polls, ballots, revisions,   \* the database
  told,        \* history: the writes the tools reported as recorded
  pronounced,  \* history: the confirmations that led to a submit
  refused      \* history: the types collect refused as not configured

database == <<stored, polls, ballots, revisions>>
handed == <<tokens, drafts>>
history == <<told, pronounced, refused>>
vars == <<now, desk, ended, calls, proof, wire, database, handed, history>>

Calls == 1..MaxCalls
Ids == 0..MaxCalls
NoCall(pc) == [pc |-> pc, tries |-> 0, turn |-> None, job |-> None, seen |-> None]
Nobody == NoCall("idle")
Over == NoCall("over")   \* of a call that is over nothing is kept

Init ==
  /\ now = 0 /\ desk \in Desks /\ ended = {}
  /\ calls = [c \in Calls |-> Nobody] /\ proof = [t \in Turns |-> 0]
  /\ tokens = {} /\ drafts = {} /\ wire = {}
  /\ stored = desk.stored /\ polls = desk.polls /\ ballots = {} /\ revisions = <<>>
  /\ told = {} /\ pronounced = {} /\ refused = {}

Active(c) == calls[c].pc \in {"minting", "reading", "deciding", "sent"}
Turn(c) == calls[c].turn
Contact(c) == SenderOf[Turn(c)]
Job(c) == calls[c].job
Current(c) == Turn(c) \notin ended

\* The call c, moved to pc with what its last await answered.
Moved(c, pc, seen) == [pc |-> pc, tries |-> calls[c].tries, turn |-> Turn(c), job |-> Job(c), seen |-> seen]

-----------------------------------------------------------------------------
(* What a caller may ask of each tool: any token it was ever handed, or none *)

\* Fields the proposer has given: an argument that is left out is None.
Titles == {x.title : x \in Texts} \cup {None}
Given == [title : Titles, type : Types \cup {None}]

CollectJobs == [tool : {"collect"}, on : drafts \cup {None}, given : Given]

\* A confirmation token comes back as it was issued or spelled otherwise: with
\* blanks around it, or with its expiry written as another numeral.
Spellings == {"issued", "respelled"}
Presented == [token : tokens, spelling : Spellings]

SubmitJobs == [tool : {"submit"}, on : Presented \cup {None}, given : Texts]

\* A round is opened for a type and a deadline; the candidates are not the caller's.
OpenJobs == [tool : {"open"}, on : {None}, given : 1..MaxTime]

\* The ballots of a round, with more approvals than it allows or one outside it.
Slates(p) == SUBSET polls[p].candidates \cup {{x} : x \in DOMAIN stored \ polls[p].candidates}

VoteJobs == UNION {[tool : {"vote"}, on : {p}, given : Slates(p)] : p \in DOMAIN polls}

ResultJobs == [tool : {"result"}, on : DOMAIN polls, given : {None}]

\* changedFields: known names, each once. Every field that is named has a new
\* value, and no other has; a suggestion that names none is a comment.
FieldSets == SUBSET (Material \cup Ordinary)
Suggestions == UNION {[fields -> Values] : fields \in FieldSets}

SuggestJobs == [tool : {"suggest"}, on : DOMAIN stored, given : Suggestions]

RevisionJobs(tool) == [tool : {tool}, on : DOMAIN revisions, given : {None}]

\* No argument names an account, a weight or a rule.
JobsOf(tool) ==
  CASE tool = "collect" -> CollectJobs
    [] tool = "submit"  -> SubmitJobs
    [] tool = "open"    -> OpenJobs
    [] tool = "vote"    -> VoteJobs
    [] tool = "result"  -> ResultJobs
    [] tool = "suggest" -> SuggestJobs
    [] tool \in {"approve", "apply"} -> RevisionJobs(tool)

\* The approved channel and the current record each tool asks for; the three
\* tool modules have a requester each.
ProposalRequester(c) == ChannelOf[Turn(c)] = "proposal" /\ Contact(c) \in Contributors
CollectRequester(c) == ChannelOf[Turn(c)] = "proposal" /\ Contact(c) \in Contributors
BoardRequester(c) == ChannelOf[Turn(c)] = "board" /\ Contact(c) \in Directors
FeedbackRequester(c) == ChannelOf[Turn(c)] = "board" /\ Contact(c) \in Directors

Admitted(c) ==
  CASE Job(c).tool = "collect" -> CollectRequester(c)
    [] Job(c).tool = "submit"  -> ProposalRequester(c)
    [] Job(c).tool \in {"open", "vote", "result"}      -> BoardRequester(c)
    [] Job(c).tool \in {"suggest", "approve", "apply"} -> FeedbackRequester(c)

-----------------------------------------------------------------------------
(* wrapExecute: a turn runs one call at a time and a call has its own proof  *)

\* Mutant: a turn may run two calls at once.
FreeAnyCall(t) == t \notin ended

Free(t) == t \notin ended /\ ~ \E d \in Calls : Active(d) /\ Turn(d) = t

Enter(c, t, job) ==
  /\ Free(t)
  /\ calls' = [calls EXCEPT ![c] = [pc |-> "minting", tries |-> calls[c].tries + 1, turn |-> t,
                                    job |-> job, seen |-> None]]
  /\ UNCHANGED <<now, desk, ended, proof, wire, database, handed, history>>

Begin(c, t, job) ==
  /\ calls[c] = Nobody /\ \A d \in 1..(c - 1) : calls[d] # Nobody
  /\ Enter(c, t, job)

\* The host may run a failed call again, in the same turn and with its call id.
Retry(c) ==
  /\ calls[c].pc = "failed"
  /\ Enter(c, Turn(c), Job(c))

Mint(c) ==
  /\ calls[c].pc = "minting" /\ Current(c)
  /\ proof' = [proof EXCEPT ![Turn(c)] = c]
  /\ calls' = [calls EXCEPT ![c] = Moved(c, "reading", None)]
  /\ UNCHANGED <<now, desk, ended, wire, database, handed, history>>

\* The finally of wrapExecute. A call that failed is over when its host does not
\* run it again.
Leave(c, left) ==
  /\ calls' = [calls EXCEPT ![c] = left]
  /\ proof' = [proof EXCEPT ![Turn(c)] = 0]

\* Any await may time out or be refused; a request that was sent stays sent.
Fail(c) ==
  /\ Active(c)
  /\ Leave(c, IF calls[c].tries < desk.tries THEN Moved(c, "failed", None) ELSE Over)
  /\ UNCHANGED <<now, desk, ended, wire, database, handed, history>>

-----------------------------------------------------------------------------
(* The reads of a call: the backend answers them from its state of then      *)

Frozen == UNION {polls[p].candidates : p \in {q \in DOMAIN polls : polls[q].status = "open"}}
Pool == {p \in DOMAIN stored : stored[p].status # "selected"} \ Frozen

\* listCandidateProposals returns as many of the pool as the limit allows.
Listed == {L \in SUBSET Pool : Cardinality(L) = Min({Cap, Cardinality(Pool)})}

VoteTypes == {Configured}
StoredPoll(p) == {polls[p]}
StoredProposal(p) == {stored[p]}
StoredRevision(v) == {revisions[v]}

Answers(job) ==
  CASE job.tool = "collect"              -> VoteTypes
    [] job.tool = "submit"               -> VoteTypes
    [] job.tool = "open"                 -> Listed
    [] job.tool \in {"vote", "result"}   -> StoredPoll(job.on)
    [] job.tool = "suggest"              -> StoredProposal(job.on)
    [] job.tool \in {"approve", "apply"} -> StoredRevision(job.on)

Read(c) ==
  /\ calls[c].pc = "reading" /\ proof[Turn(c)] # 0 /\ Admitted(c)
  /\ Job(c).tool = "open" => Job(c).given > now
  /\ \E answer \in Answers(Job(c)) :
       calls' = [calls EXCEPT ![c] = Moved(c, "deciding", answer)]
  /\ UNCHANGED <<now, desk, ended, proof, wire, database, handed, history>>

Deciding(c, tool) == calls[c].pc = "deciding" /\ Job(c).tool = tool
Seen(c) == calls[c].seen

\* A request carries the proof the context holds when it is sent, and a record
\* that remembers whether its turn was still current.
Send(c, op, id, on, body) ==
  /\ proof[Turn(c)] # 0
  /\ wire' = wire \cup {[call |-> c, try |-> calls[c].tries, turn |-> Turn(c), by |-> proof[Turn(c)], current |-> Current(c),
                         op |-> op, id |-> id, on |-> on, body |-> body]}
  /\ calls' = [calls EXCEPT ![c] = Moved(c, "sent", None)]
  /\ UNCHANGED <<now, desk, ended, proof, database>>

\* The writes of the adapter.
SubmitProposal(c, id, text)       == Send(c, "submit", id, None, text)
CreatePoll(c, id, closes, listed) == Send(c, "open", id, closes, listed)
CastBallot(c, poll, approved)     == Send(c, "vote", poll, None, approved)
FinalizePoll(c, poll)             == Send(c, "result", poll, None, {})
RecordRevision(c, id, of, values) == Send(c, "suggest", id, of, values)
ApproveRevision(c, revision)      == Send(c, "approve", revision, None, {})
ApplyRevision(c, revision)        == Send(c, "apply", revision, None, {})

\* mintedIds: one identifier per tool call of a turn, the same for its retries.
RecordId(c) == c
RevisionId(c) == c

-----------------------------------------------------------------------------
(* What each tool does with its last answer. A refusal of the tool itself is *)
(* Fail, except where it leaves a trace.                                     *)

Finish(c) == Leave(c, Over) /\ UNCHANGED <<now, desk, ended, wire, database>>

\* rein_proposal_collect: an argument that is left out keeps the carried value.
Merged(given, carried) == IF given = None THEN carried ELSE given

Carried(token) == IF token = None THEN [title |-> None, type |-> None]
                                  ELSE [title |-> token.title, type |-> token.type]

\* A draft token is sealed to the account it was handed to, with its expiry.
DraftToken(c, title, type) ==
  [contact |-> Contact(c), title |-> title, type |-> type, expires |-> now + Ttl]

OpensDraft(c, token) == token.contact = Contact(c)

ValidDraft(c, token) == token # None => OpensDraft(c, token) /\ token.expires > now

\* The names the type is checked against: none are read for a carried type.
CheckedAgainst(type, carried, configured) == IF type # None /\ type = carried THEN {} ELSE configured

KnownType(type, names) == type = None \/ type \in names

Collect(c) ==
  /\ Deciding(c, "collect") /\ ValidDraft(c, Job(c).on)
  /\ LET carried == Carried(Job(c).on)
         title == Merged(Job(c).given.title, carried.title)
         type  == Merged(Job(c).given.type, carried.type)
         known == KnownType(type, CheckedAgainst(type, carried.type, Seen(c)))
     IN \/ /\ ~ known
           /\ refused' = refused \cup {type}
           /\ UNCHANGED drafts
        \/ /\ known /\ Current(c)
           /\ drafts' = drafts \cup {DraftToken(c, title, type)}
           /\ UNCHANGED refused
  /\ Finish(c)
  /\ UNCHANGED <<tokens, told, pronounced>>

\* The title, summary and request of a submit, well formed, with its type.
Submitted(c) == Job(c).given

\* A confirmation token is sealed to the account it was handed to, with its expiry.
ConfirmationToken(c) ==
  [contact |-> Contact(c), text |-> Submitted(c), expires |-> now + Ttl, turn |-> Turn(c)]

OpensConfirmation(c, token) == token.contact = Contact(c)

ConfiguredType(c) == Submitted(c).type \in Seen(c)

\* rein_governance_proposal_submit without a token: nothing is written.
Prepare(c) ==
  /\ Deciding(c, "submit") /\ Job(c).on = None
  /\ ConfiguredType(c)
  /\ tokens' = tokens \cup {ConfirmationToken(c)}
  /\ Finish(c)
  /\ UNCHANGED <<drafts, history>>

\* Mutant: a turn has no record of the tokens it issued.
NextTurnAny(c, presented) == TRUE

\* issuedConfirmationTokens holds strings: a turn does not confirm what it
\* prepared itself, as long as it gets the very string it issued.
NextTurn(c, presented) == presented.spelling = "issued" => presented.token.turn # Turn(c)

\* readEnvelope trims the token and reads its expiry as a number: every
\* spelling of it is the same token.
ReadEnvelope(presented) == presented.token

Verified(c, token) ==
  /\ token.expires > now
  /\ OpensConfirmation(c, token)
  /\ token.text = Submitted(c)

\* The identifier is a function of the proposer and the confirmed text.
ProposalId(c, token) == <<token.contact, token.text>>

Confirm(c) ==
  /\ Deciding(c, "submit") /\ Job(c).on # None
  /\ ConfiguredType(c)
  /\ LET token == ReadEnvelope(Job(c).on) IN
       /\ NextTurn(c, Job(c).on) /\ Verified(c, token)
       /\ Current(c)
       /\ pronounced' = pronounced \cup {[turn |-> Turn(c), token |-> token,
                                          spelling |-> Job(c).on.spelling, at |-> now]}
       /\ SubmitProposal(c, ProposalId(c, token), token.text)
  /\ UNCHANGED <<handed, told, refused>>

OpenPoll(c) ==
  /\ Deciding(c, "open") /\ Seen(c) # {} /\ Current(c)
  /\ CreatePoll(c, RecordId(c), Job(c).given, Seen(c))
  /\ UNCHANGED <<handed, history>>

ReadOpen(c) == Seen(c).status = "open" /\ now < Seen(c).closes

Vote(c) ==
  /\ Deciding(c, "vote") /\ ReadOpen(c)
  /\ Job(c).given \subseteq Seen(c).candidates /\ Cardinality(Job(c).given) <= MaxApprovals
  /\ Current(c)
  /\ CastBallot(c, Job(c).on, Job(c).given)
  /\ UNCHANGED <<handed, history>>

\* provisionalResult: no outcome, no count and no voter is told.
TellNothing(c) == Finish(c) /\ UNCHANGED <<handed, history>>

\* rein_poll_result before the deadline publishes no outcome.
Provisional(c) ==
  /\ Deciding(c, "result") /\ ReadOpen(c) /\ Current(c)
  /\ TellNothing(c)

Result(c) ==
  /\ Deciding(c, "result") /\ ~ ReadOpen(c) /\ Current(c)
  /\ FinalizePoll(c, Job(c).on)
  /\ UNCHANGED <<handed, history>>

Suggest(c) ==
  /\ Deciding(c, "suggest") /\ Seen(c).status = "selected" /\ Current(c)
  /\ RecordRevision(c, RevisionId(c), Job(c).on, Job(c).given)
  /\ UNCHANGED <<handed, history>>

ChangedFields(revision) == DOMAIN revision.values
MaterialFields(fields) == fields \cap Material

\* readFeedbackTarget and the two states both tools refuse by name.
Pending(revision) ==
  /\ stored[revision.of].status = "selected"
  /\ ChangedFields(revision) # {} /\ revision.version = 0

Approve(c) ==
  /\ Deciding(c, "approve") /\ Pending(Seen(c)) /\ Current(c)
  /\ ApproveRevision(c, Job(c).on)
  /\ UNCHANGED <<handed, history>>

\* Mutant: only a revision that names nothing else is gated.
GateIfAllMaterial(revision) == ChangedFields(revision) \subseteq Material => revision.approver # None

\* The gate of a material revision, on the revision as it was read.
Gate(revision) == MaterialFields(ChangedFields(revision)) # {} => revision.approver # None

Apply(c) ==
  /\ Deciding(c, "apply") /\ Pending(Seen(c)) /\ Gate(Seen(c)) /\ Current(c)
  /\ ApplyRevision(c, Job(c).on)
  /\ UNCHANGED <<handed, history>>

-----------------------------------------------------------------------------
(* The backend (external): it serves a request at most once, takes the actor *)
(* from the proof and never from the input, and refuses what is not current. *)

Actor(r) == SenderOf[r.turn]

Put(f, key, value) == [x \in DOMAIN f \cup {key} |-> IF x = key THEN value ELSE f[x]]

\* The outcome a tally of equal weights names: its one leader, or nobody.
Approvals(p, x) == Cardinality({b \in ballots : b.poll = p /\ x \in b.approved})
Winner(p) ==
  {x \in polls[p].candidates : /\ Approvals(p, x) > 0
                               /\ \A y \in polls[p].candidates \ {x} : Approvals(p, y) < Approvals(p, x)}

\* Mutant: an answer with a record in it is read as recorded.
ReplyRead(r, ok, value) ==
  /\ wire' = wire \ {r}
  /\ \/ UNCHANGED <<calls, proof, told>>
     \/ /\ calls[r.call].pc = "sent" /\ calls[r.call].tries = r.try
        /\ Leave(r.call, Over)
        /\ told' = told \cup {[tool |-> r.op, id |-> r.id, actor |-> Actor(r), value |-> value]}
  /\ UNCHANGED <<now, desk, ended, handed, pronounced, refused>>

\* The request leaves the wire; its answer arrives, unless nobody waits for it.
Reply(r, ok, value) ==
  /\ wire' = wire \ {r}
  /\ \/ UNCHANGED <<calls, proof, told>>
     \/ /\ calls[r.call].pc = "sent" /\ calls[r.call].tries = r.try
        /\ Leave(r.call, Over)
        /\ told' = IF ok THEN told \cup {[tool |-> r.op, id |-> r.id, actor |-> Actor(r), value |-> value]}
                         ELSE told
  /\ UNCHANGED <<now, desk, ended, handed, pronounced, refused>>

ServeSubmit(r) ==
  /\ r.op = "submit"
  /\ LET record == [contact |-> Actor(r), text |-> r.body, status |-> "submitted"]
         free == r.id \notin DOMAIN stored
         same == ~ free /\ stored[r.id].contact = Actor(r) /\ stored[r.id].text = r.body
     IN /\ stored' = IF free THEN Put(stored, r.id, record) ELSE stored
        /\ Reply(r, free \/ same, {})
  /\ UNCHANGED <<polls, ballots, revisions>>

ServeOpen(r) ==
  /\ r.op = "open"
  /\ LET free == r.id \notin DOMAIN polls /\ r.body \cap Frozen = {}
         same == r.id \in DOMAIN polls /\ polls[r.id].candidates = r.body
         record == [candidates |-> r.body, closes |-> r.on, status |-> "open", winner |-> {}]
     IN /\ polls' = IF free THEN Put(polls, r.id, record) ELSE polls
        /\ Reply(r, free \/ same, r.body)
  /\ UNCHANGED <<stored, ballots, revisions>>

ServeVote(r) ==
  /\ r.op = "vote"
  /\ LET ballot == [poll |-> r.id, voter |-> Actor(r), approved |-> r.body]
         open == polls[r.id].status = "open" /\ now < polls[r.id].closes
         first == ~ \E b \in ballots : b.poll = r.id /\ b.voter = Actor(r)
     IN /\ ballots' = IF open /\ first THEN ballots \cup {ballot} ELSE ballots
        /\ Reply(r, open /\ (first \/ ballot \in ballots), r.body)
  /\ UNCHANGED <<stored, polls, revisions>>

ServeResult(r) ==
  /\ r.op = "result"
  /\ IF polls[r.id].status = "open"
     THEN /\ polls' = [polls EXCEPT ![r.id].status = "closed", ![r.id].winner = Winner(r.id)]
          /\ stored' = [p \in DOMAIN stored |->
                          IF p \in Winner(r.id)
                          THEN [contact |-> stored[p].contact, text |-> stored[p].text, status |-> "selected"]
                          ELSE stored[p]]
     ELSE UNCHANGED <<polls, stored>>
  /\ now >= polls[r.id].closes
  /\ Reply(r, TRUE, polls'[r.id].winner)
  /\ UNCHANGED <<ballots, revisions>>

ServeSuggest(r) ==
  /\ r.op = "suggest"
  /\ LET free == r.id \notin DOMAIN revisions
         same == ~ free /\ revisions[r.id].author = Actor(r) /\ revisions[r.id].values = r.body
         record == [of |-> r.on, author |-> Actor(r), values |-> r.body, approver |-> None, version |-> 0]
     IN /\ revisions' = IF free THEN Put(revisions, r.id, record) ELSE revisions
        /\ Reply(r, free \/ same, r.body)
  /\ UNCHANGED <<stored, polls, ballots>>

ServeApprove(r) ==
  /\ r.op = "approve"
  /\ LET held == revisions[r.id].approver
         open == held = None /\ revisions[r.id].version = 0
     IN /\ revisions' = IF open THEN [revisions EXCEPT ![r.id].approver = Actor(r)] ELSE revisions
        /\ Reply(r, open \/ held = Actor(r), {})
  /\ UNCHANGED <<stored, polls, ballots>>

Versions(p) == {0} \cup {revisions[v].version : v \in {w \in DOMAIN revisions : revisions[w].of = p}}

\* Whether a material revision may take effect is left to the tool here.
ServeApply(r) ==
  /\ r.op = "apply"
  /\ LET first == revisions[r.id].version = 0
     IN /\ revisions' = IF first THEN [revisions EXCEPT ![r.id].version = Max(Versions(revisions[r.id].of)) + 1]
                                 ELSE revisions
        /\ Reply(r, first, {})
  /\ UNCHANGED <<stored, polls, ballots>>

Serve(r) ==
  \/ ServeSubmit(r) \/ ServeOpen(r) \/ ServeVote(r) \/ ServeResult(r)
  \/ ServeSuggest(r) \/ ServeApprove(r) \/ ServeApply(r)

-----------------------------------------------------------------------------
(* A newer message of the conversation makes its turn stale; the clock moves *)

EndTurn(t) ==
  /\ t \notin ended /\ \E c \in Calls : Active(c) /\ Turn(c) = t
  /\ ended' = ended \cup {t}
  /\ UNCHANGED <<now, desk, calls, proof, wire, database, handed, history>>

Tick ==
  /\ now < desk.until /\ now' = now + 1
  /\ UNCHANGED <<desk, ended, calls, proof, wire, database, handed, history>>

Call(c) ==
  \/ /\ c <= desk.calls
     /\ \E t \in desk.turns : \E tool \in desk.tools : \E job \in JobsOf(tool) : Begin(c, t, job)
  \/ Retry(c) \/ Mint(c) \/ Read(c) \/ Fail(c)
  \/ Collect(c) \/ Prepare(c) \/ Confirm(c)
  \/ OpenPoll(c) \/ Vote(c) \/ Provisional(c) \/ Result(c)
  \/ Suggest(c) \/ Approve(c) \/ Apply(c)

Next ==
  \/ \E c \in Calls : Call(c)
  \/ \E r \in wire : Serve(r)
  \/ \E t \in Turns : EndTurn(t)
  \/ Tick

Spec == Init /\ [][Next]_vars

-----------------------------------------------------------------------------
(* Properties *)

\* A proposal is in the database only because its author pronounced that very
\* text, on a token of theirs that had not expired and that, if it came back as
\* it was issued, another turn had prepared; and confirming a text again, or
\* retrying, never stores it twice.
Pronounces(said, contact, text) ==
  /\ said.token.contact = contact /\ said.token.text = text
  /\ SenderOf[said.turn] = contact
  /\ said.spelling = "issued" => said.turn # said.token.turn
  /\ said.at < said.token.expires

ConfirmedText ==
  \A p \in DOMAIN stored \ DOMAIN desk.stored :
    /\ \E said \in pronounced : Pronounces(said, stored[p].contact, stored[p].text)
    /\ \A q \in DOMAIN stored :
         stored[q].contact = stored[p].contact /\ stored[q].text = stored[p].text => q = p

\* What a tool reported as recorded is what the database holds, for good: the
\* proposal, the frozen candidates, the ballot, the outcome (which is still the
\* recount of the ballots), the revision, its approver and its version. A lost
\* answer and a retry of the call change none of it.
Kept(answer) ==
  CASE answer.tool = "submit"  -> answer.id \in DOMAIN stored /\ stored[answer.id].contact = answer.actor
    [] answer.tool = "open"    -> answer.id \in DOMAIN polls /\ polls[answer.id].candidates = answer.value
    [] answer.tool = "vote"    -> [poll |-> answer.id, voter |-> answer.actor, approved |-> answer.value] \in ballots
    [] answer.tool = "result"  -> /\ polls[answer.id].status = "closed" /\ now >= polls[answer.id].closes
                                  /\ polls[answer.id].winner = answer.value /\ Winner(answer.id) = answer.value
    [] answer.tool = "suggest" -> /\ answer.id \in DOMAIN revisions
                                  /\ revisions[answer.id].author = answer.actor
                                  /\ revisions[answer.id].values = answer.value
    [] answer.tool = "approve" -> revisions[answer.id].approver = answer.actor
    [] answer.tool = "apply"   -> revisions[answer.id].version > 0

AnswerKept == \A answer \in told : Kept(answer)

\* Every write request carries the proof minted for its own call, and was sent
\* while its turn was current, whatever else the turn ran and however it ended.
ProofOwn == \A r \in wire : r.by = r.call /\ r.current

\* An effective revision of a proposal moves a material field only with a
\* director's approval on record, is no comment, and has a version of its own.
MaterialApproved ==
  \A v \in DOMAIN revisions : revisions[v].version > 0 =>
    /\ ChangedFields(revisions[v]) # {}
    /\ MaterialFields(ChangedFields(revisions[v])) # {} => revisions[v].approver \in Directors
    /\ stored[revisions[v].of].status = "selected"
    /\ \A w \in DOMAIN revisions :
         revisions[w].of = revisions[v].of /\ revisions[w].version = revisions[v].version => w = v

\* proposal-collect-tools.ts: "A carried type is already configured, so it
\* needs no second read of the table." No configured type is ever refused.
CarriedOn == refused \cap Configured = {}
=============================================================================
