----------------------------- MODULE Proposals ------------------------------
(***************************************************************************)
(* The identity and proposal core of plugins/rein-operations/proposals.ts: *)
(* one state object, changed by synchronous operations in any order.       *)
(*                                                                         *)
(* The fields of a proposal are abstracted to what decides its path: is    *)
(* the required information given, does it ask for funding, is the amount  *)
(* itemised, is it confirmed that nothing else is owed, its event type,    *)
(* its title and its start.  Amount, confirmations and date are material   *)
(* fields; title and type are not (MATERIAL_FIELD_PATHS).  The information *)
(* holds fields of both kinds and changes between versions as one that is  *)
(* not material.                                                           *)
(***************************************************************************)
EXTENDS Naturals, Sequences

CONSTANTS
  Accounts,      \* platform accounts
  Members,       \* authoritative member records
  None,          \* no member, no identity, no policy, no approval, no key
  Contents,      \* the fields a proposal can have
  Grants,        \* lists of Contributor grants a member can be recorded with
  Policies,      \* zero-budget policies: sets of routine event types
  Keys,          \* idempotency keys
  Blank,         \* a title without letters or digits
  MaxTime, MaxProposals, MaxVersion, MaxConfirmations, MaxRegistryChanges  \* bounds

Times == 0..MaxTime

ASSUME ProposalsAssumption ==
  /\ None \notin Members /\ None \notin Keys
  /\ \A c \in Contents : {c.given, c.funded, c.itemised, c.assured} \subseteq BOOLEAN /\ c.start \in Nat
  /\ MaxTime \in Nat /\ MaxProposals \in Nat /\ MaxVersion \in Nat
  /\ MaxConfirmations \in Nat /\ MaxRegistryChanges \in Nat
  /\ Grants \subseteq Seq([active : BOOLEAN, expires : Nat])

VARIABLES
  now,         \* the `at` of the next operation
  members,     \* state.members: status and Contributor grants, or None
  identities,  \* state.identities: linked member and link status, or None
  policy,      \* state.zeroBudgetPolicy: event types and active flag, or None
  proposals,   \* state.proposals, in the order they were created
  receipts,    \* state.receipts: the action and proposal of each key, or None
  changes      \* registry and policy operations so far

vars == <<now, members, identities, policy, proposals, receipts, changes>>
registry == <<members, identities, policy>>

Frozen == {"approved", "awaiting_governance"}

Init ==
  /\ now = 0
  /\ members = [m \in Members |-> None]
  /\ identities = [a \in Accounts |-> None]
  /\ policy = None
  /\ proposals = <<>>
  /\ receipts = [k \in Keys |-> None]
  /\ changes = 0

-----------------------------------------------------------------------------
(* The authoritative registry and the zero-budget policy.                  *)

RegistryChange ==
  /\ changes < MaxRegistryChanges
  /\ changes' = changes + 1
  /\ UNCHANGED <<now, proposals, receipts>>

\* recordMember: overwrites whatever was recorded.
RecordMember(m, active, grants) ==
  /\ RegistryChange
  /\ members' = [members EXCEPT ![m] = [active |-> active, grants |-> grants]]
  /\ UNCHANGED <<identities, policy>>

\* revokeMemberRole("contributor"): the first grant of the role is revoked.
RevokeMemberRole(m) ==
  /\ RegistryChange
  /\ members[m] # None /\ members[m].grants # <<>>
  /\ members' = [members EXCEPT ![m].grants[1].active = FALSE]
  /\ UNCHANGED <<identities, policy>>

\* linkIdentity: a known member, and an account not linked to another one;
\* a revoked link becomes verified again.
LinkIdentity(a, m) ==
  /\ RegistryChange
  /\ members[m] # None
  /\ identities[a] \in {None, [member |-> m, verified |-> FALSE]}
  /\ identities' = [identities EXCEPT ![a] = [member |-> m, verified |-> TRUE]]
  /\ UNCHANGED <<members, policy>>

RevokeIdentity(a) ==
  /\ RegistryChange
  /\ identities[a] # None
  /\ identities' = [identities EXCEPT ![a].verified = FALSE]
  /\ UNCHANGED <<members, policy>>

AuthorizeZeroBudgetPolicy(scope) ==
  /\ RegistryChange
  /\ policy' = [scope |-> scope, active |-> TRUE]
  /\ UNCHANGED <<members, identities>>

RevokeZeroBudgetPolicy ==
  /\ RegistryChange
  /\ policy # None
  /\ policy' = [policy EXCEPT !.active = FALSE]
  /\ UNCHANGED <<members, identities>>

Tick ==
  /\ now < MaxTime
  /\ now' = now + 1
  /\ UNCHANGED <<members, identities, policy, proposals, receipts, changes>>

-----------------------------------------------------------------------------
(* Decisions over the state.                                               *)

\* memberFor: the linked member, whatever the status of the link.
MemberFor(a) == IF identities[a] = None THEN None ELSE identities[a].member

\* checkContributorEligibility: a verified link to an active member whose
\* first active Contributor grant has not expired.
Eligible(a) ==
  /\ identities[a] # None /\ identities[a].verified
  /\ LET member == members[identities[a].member]
     IN  /\ member # None /\ member.active
         /\ \E i \in DOMAIN member.grants :
              /\ member.grants[i].active
              /\ \A j \in 1..(i - 1) : ~member.grants[j].active
              /\ member.grants[i].expires > now

Version(p) == Len(p.versions)
Fields(p)  == p.versions[Len(p.versions)]

\* detectMaterialChanges: amount, confirmations and date.
Material(old, new) == old.funded # new.funded \/ old.assured # new.assured \/ old.start # new.start

\* checkCompleteness: the required information; of an amount its currency, items
\* and assumptions; of none that no cost, reimbursement or contract is behind it.
Complete(c) == c.given /\ IF c.funded THEN c.itemised ELSE c.assured

ValidSchedule(c) == c.start > now

\* Mutant: a duplicate can point to another duplicate.
DuplicatesOfAny(id) ==
  {d \in DOMAIN proposals \ {id} :
     LET p == proposals[id] q == proposals[d] IN
       /\ q.state # "withdrawn"
       /\ Fields(p).title # Blank
       /\ Fields(q).title = Fields(p).title
       /\ Fields(q).start = Fields(p).start
       /\ q.lead \in {None, p.lead}}

\* Mutant: approved proposals are no longer searched.
DuplicatesUndecided(id) ==
  {d \in DuplicatesOfAny(id) : proposals[d].state \notin {"duplicate", "approved"}}

\* findDuplicateProposal: other proposals that are not withdrawn or duplicates,
\* with the same title and start, and not of another lead.
Duplicates(id) ==
  {d \in DOMAIN proposals \ {id} :
     LET p == proposals[id] q == proposals[d] IN
       /\ q.state \notin {"withdrawn", "duplicate"}
       /\ Fields(p).title # Blank
       /\ Fields(q).title = Fields(p).title
       /\ Fields(q).start = Fields(p).start
       /\ q.lead \in {None, p.lead}}

\* routeProcessingPath, as the state a submission without duplicate ends in.
Route(c) ==
  CASE ~Complete(c) \/ ~ValidSchedule(c) -> "needs_information"
    [] Complete(c) /\ ValidSchedule(c) /\ c.funded -> "awaiting_governance"
    [] OTHER -> IF policy # None /\ policy.active /\ c.type \in policy.scope
                THEN "approved" ELSE "needs_exception"

-----------------------------------------------------------------------------
(* Proposal operations.  An operation that is refused, or that a key         *)
(* replays, leaves the state as it is and is not an action; copyProposal is  *)
(* the one that changes state on a replay.                                   *)

Fresh(k) == k # None => receipts[k] = None
Remember(k, action, id) ==
  receipts' = IF k = None THEN receipts
              ELSE [receipts EXCEPT ![k] = [action |-> action, id |-> id]]
Update(id, p) == proposals' = [proposals EXCEPT ![id] = p]

Draft(a, c) ==
  [owner |-> a, lead |-> None, state |-> "draft", versions |-> <<c>>,
   confirmed |-> 0, pending |-> FALSE, confirmations |-> <<>>, duplicateOf |-> 0,
   approval |-> None, copied |-> FALSE]

CreateDraft(a, c, k) ==
  /\ Len(proposals) < MaxProposals
  /\ Fresh(k)
  /\ proposals' = Append(proposals, Draft(a, c))
  /\ Remember(k, "create_draft", Len(proposals) + 1)
  /\ UNCHANGED <<now, members, identities, policy, changes>>

OwnerOrLead(a, p) == a = p.owner \/ (MemberFor(a) # None /\ MemberFor(a) = p.lead)

ReviseDraft(id, a, c, k) ==
  LET p == proposals[id] IN
  /\ p.state \notin Frozen \cup {"withdrawn"}
  /\ OwnerOrLead(a, p)
  /\ Version(p) < MaxVersion
  /\ Fresh(k)
  /\ LET wasConfirmed == p.confirmed = Version(p) IN
     Update(id, [p EXCEPT
       !.versions    = Append(@, c),
       !.pending     = Material(Fields(p), c),
       !.duplicateOf = 0,
       !.confirmed   = IF wasConfirmed THEN 0 ELSE @,
       !.state       = IF wasConfirmed THEN "needs_reconfirmation" ELSE "draft"])
  /\ Remember(k, "revise_draft", id)
  /\ UNCHANGED <<now, members, identities, policy, changes>>

\* confirmLeadVersion: an eligible Contributor, the lead if there is one,
\* confirms the current version; pending material changes need acknowledging.
ConfirmLeadVersion(id, a, version, acknowledged) ==
  LET p == proposals[id] IN
  /\ p.state \notin Frozen \cup {"withdrawn"}
  /\ version = Version(p)
  /\ Eligible(a)
  /\ p.lead \in {None, MemberFor(a)}
  /\ ~(p.confirmed = version /\ p.state = "confirmed" /\ p.lead = MemberFor(a))
  /\ p.pending => acknowledged
  /\ Len(p.confirmations) < MaxConfirmations
  /\ Update(id, [p EXCEPT
       !.lead = MemberFor(a), !.confirmed = version, !.state = "confirmed",
       !.pending = FALSE,
       !.confirmations = Append(@, [version |-> version, member |-> MemberFor(a),
                                    acknowledged |-> p.pending /\ acknowledged])])
  /\ UNCHANGED <<now, members, identities, policy, receipts, changes>>

\* submitForAssessment: the confirmed lead submits the confirmed version; a
\* refusal leaves only its receipt.  A proposal can be submitted again in
\* every state that keeps its version confirmed.
Submittable(id, a) ==
  LET p == proposals[id] IN
  /\ p.state # "withdrawn"
  /\ p.confirmed = Version(p)
  /\ Eligible(a) /\ MemberFor(a) = p.lead

SubmitRefused(id, a, k) ==
  /\ k # None /\ Fresh(k)
  /\ ~Submittable(id, a)
  /\ Remember(k, "submit_for_assessment", id)
  /\ UNCHANGED <<now, members, identities, policy, proposals, changes>>

SubmitDuplicate(id, a, k) ==
  /\ Fresh(k)
  /\ Submittable(id, a)
  /\ \E d \in Duplicates(id) :
       /\ \A e \in Duplicates(id) : d <= e
       /\ Update(id, [proposals[id] EXCEPT !.state = "duplicate", !.duplicateOf = d])
  /\ Remember(k, "submit_for_assessment", id)
  /\ UNCHANGED <<now, members, identities, policy, changes>>

SubmitRouted(id, a, k) ==
  LET route == Route(Fields(proposals[id])) IN
  /\ Fresh(k)
  /\ Submittable(id, a)
  /\ Duplicates(id) = {}
  /\ Update(id, [proposals[id] EXCEPT
       !.state = route, !.duplicateOf = 0,
       !.approval = IF route = "approved" THEN policy ELSE @])
  /\ Remember(k, "submit_for_assessment", id)
  /\ UNCHANGED <<now, members, identities, policy, changes>>

WithdrawProposal(id, a) ==
  /\ OwnerOrLead(a, proposals[id])
  /\ proposals[id].state # "withdrawn"
  /\ Update(id, [proposals[id] EXCEPT !.state = "withdrawn"])
  /\ UNCHANGED <<now, members, identities, policy, receipts, changes>>

HoldProposal(id) ==
  /\ proposals[id].state \notin Frozen \cup {"withdrawn"}
  /\ Update(id, [proposals[id] EXCEPT !.state = "on_hold"])
  /\ UNCHANGED <<now, members, identities, policy, receipts, changes>>

\* Mutant: a valid schedule is enough to be confirmed again.
ResumeUnconfirmed(id) ==
  LET p == proposals[id] IN
  /\ p.state = "on_hold"
  /\ Update(id, [p EXCEPT !.state =
       IF ValidSchedule(Fields(p)) THEN "confirmed" ELSE "needs_information"])
  /\ UNCHANGED <<now, members, identities, policy, receipts, changes>>

ResumeProposal(id) ==
  LET p == proposals[id] IN
  /\ p.state = "on_hold"
  /\ Update(id, [p EXCEPT !.state =
       IF p.confirmed = Version(p) /\ ValidSchedule(Fields(p))
       THEN "confirmed" ELSE "needs_information"])
  /\ UNCHANGED <<now, members, identities, policy, receipts, changes>>

\* copyProposal: createDraft with the fields of the source, then the copy is
\* marked.  With a key createDraft has seen, the marked proposal is the old one.
CopyProposal(id, a, k) ==
  /\ \/ /\ Fresh(k)
        /\ Len(proposals) < MaxProposals
        /\ proposals' = Append(proposals,
             [Draft(a, Fields(proposals[id])) EXCEPT !.copied = TRUE])
        /\ Remember(k, "create_draft", Len(proposals) + 1)
     \/ /\ k # None /\ receipts[k] # None
        /\ receipts[k].action = "create_draft"
        /\ proposals' = [proposals EXCEPT ![receipts[k].id].copied = TRUE]
        /\ UNCHANGED receipts
  /\ UNCHANGED <<now, members, identities, policy, changes>>

-----------------------------------------------------------------------------

RegistryNext(Ms, As) ==
  \/ \E m \in Ms, active \in BOOLEAN, grants \in Grants : RecordMember(m, active, grants)
  \/ \E m \in Ms : RevokeMemberRole(m)
  \/ \E a \in As, m \in Ms : LinkIdentity(a, m)
  \/ \E a \in As : RevokeIdentity(a)
  \/ \E scope \in Policies : AuthorizeZeroBudgetPolicy(scope)
  \/ RevokeZeroBudgetPolicy
  \/ Tick

ProposalNext(As, Cs, Ks) ==
  \/ \E a \in As, c \in Cs, k \in Ks \cup {None} : CreateDraft(a, c, k)
  \/ \E id \in DOMAIN proposals, a \in As, k \in Ks \cup {None} :
       \/ \E c \in Cs : ReviseDraft(id, a, c, k)
       \/ SubmitRefused(id, a, k) \/ SubmitDuplicate(id, a, k) \/ SubmitRouted(id, a, k)
       \/ CopyProposal(id, a, k)
  \/ \E id \in DOMAIN proposals, a \in As :
       \/ \E version \in 1..MaxVersion, acknowledged \in BOOLEAN :
            ConfirmLeadVersion(id, a, version, acknowledged)
       \/ WithdrawProposal(id, a)
  \/ \E id \in DOMAIN proposals : HoldProposal(id) \/ ResumeProposal(id)

Next == RegistryNext(Members, Accounts) \/ ProposalNext(Accounts, Contents, Keys)

Spec == Init /\ [][Next]_vars

-----------------------------------------------------------------------------
(* Properties.                                                             *)

\* A formal version carries its lead's own confirmation, through every detour
\* over holds, duplicates, revisions and copies (confirmLeadVersion, R05); and what
\* is approved asks for nothing, states it all, and is of a type some policy
\* allowed: "every funding request enters Board selection and is never approved by
\* the Agent" (tests/proposals.test.mjs:499), whatever happened to it since.
FormalVersionConfirmed ==
  \A id \in DOMAIN proposals : LET p == proposals[id] IN
    /\ p.state \in Frozen \cup {"confirmed"} =>
         /\ p.confirmed = Version(p)
         /\ p.confirmations # <<>>
         /\ p.confirmations[Len(p.confirmations)].version = Version(p)
         /\ p.confirmations[Len(p.confirmations)].member = p.lead
    /\ p.state = "approved" =>
         /\ ~Fields(p).funded /\ Complete(Fields(p))
         /\ p.approval # None /\ Fields(p).type \in p.approval.scope

\* Selection never holds the same event of the same lead twice
\* (submitForAssessment and findDuplicateProposal, R05).
NoDuplicateInSelection ==
  \A i, j \in DOMAIN proposals : LET p == proposals[i] q == proposals[j] IN
    /\ i # j
    /\ p.state \in Frozen /\ q.state \in Frozen
    /\ p.lead = q.lead
    /\ Fields(p).title # Blank
    => Fields(p).title # Fields(q).title \/ Fields(p).start # Fields(q).start

\* The chain of records a duplicate points to ends at one that is not a
\* duplicate: the lead is never sent round in a circle (duplicateOf).
DuplicateChainsEnd ==
  LET D == {i \in DOMAIN proposals : proposals[i].state = "duplicate"}
  IN  \A S \in (SUBSET D) \ {{}} : \E i \in S : proposals[i].duplicateOf \notin S
=============================================================================
