------------------------------- MODULE Feedback -------------------------------
(* The two pure cores around a vote that no tool calls yet: the approval      *)
(* tally of vote-tally.ts and the decision on revisions after the vote of     *)
(* proposal-revision-rules.ts. Their caller keeps the ballots, the versions   *)
(* and the Board roster between two calls, in any order and with any times;   *)
(* how it turns the tally into the snapshot's decision is not in the code and *)
(* is the obvious thing here: a unique winner is approved.                    *)
EXTENDS Naturals, FiniteSetsExt, SequencesExt

CONSTANTS
  People,       \* people who send ballots, revisions and approvals
  Roster,       \* the frozen roster of the round
  Candidates,   \* the frozen candidates of the round
  Nameable,     \* proposals a ballot may name
  MaxApprovals, \* maxApprovalsPerVoter
  Minor,        \* MINOR_FIELDS
  MaterialSet,  \* MATERIAL_FIELDS
  Lead,         \* the material field that names the lead
  Values,       \* what a field may hold; a lead is one of the People
  RevisionIds,
  Voted,        \* what the proposal that was voted on may hold
  Unset,
  MaxCast,      \* bound: ballots of a round
  MaxVersions   \* bound: versions of a proposal

ASSUME FieldsAssumption ==
  /\ Minor \cap MaterialSet = {} /\ Lead \in MaterialSet /\ Values \subseteq People
  /\ Candidates # {} /\ IsFiniteSet(Candidates) /\ Roster # {} /\ MaxApprovals \in Nat \ {0}
  /\ Voted \subseteq [Minor \cup MaterialSet -> Values]

VARIABLES
  cast,      \* the ballots, in the order they are counted
  outcome,   \* the decision: None, "approved" or "no_winner"
  board,     \* the verified Board roster as the caller knows it now
  versions   \* the versions of the proposal, with who was on the Board then

feedbackVars == <<cast, outcome, board, versions>>

Fields == Minor \cup MaterialSet

\* A ballot lists approvals: one may come twice, name anything, or be missing.
Ballots == [member : People, approved : BoundedSeq(Nameable, MaxApprovals + 1)]

-----------------------------------------------------------------------------
(* tallyVote()                                                               *)

\* Why a ballot is not counted.
Refused(b, counted) ==
  \/ b.member \notin Roster
  \/ ~ IsInjective(b.approved) \/ Len(b.approved) > MaxApprovals \/ ~ (Range(b.approved) \subseteq Candidates)
  \/ b.member \in counted

NothingCounted == [members |-> {}, counts |-> [x \in Candidates |-> 0], abstained |-> 0, rejected |-> 0]

\* Mutant: a member is entered as soon as they are found on the roster.
CountEager(acc, b) ==
  LET entered == [acc EXCEPT !.members = @ \cup ({b.member} \cap Roster)]
  IN IF Refused(b, acc.members) THEN [entered EXCEPT !.rejected = @ + 1]
     ELSE [entered EXCEPT !.counts = [x \in Candidates |-> @[x] + (IF x \in Range(b.approved) THEN 1 ELSE 0)],
                          !.abstained = @ + (IF b.approved = <<>> THEN 1 ELSE 0)]

\* One ballot of the loop.
Count(acc, b) ==
  IF Refused(b, acc.members) THEN [acc EXCEPT !.rejected = @ + 1]
  ELSE [members   |-> acc.members \cup {b.member},
        counts    |-> [x \in Candidates |-> acc.counts[x] + (IF x \in Range(b.approved) THEN 1 ELSE 0)],
        abstained |-> acc.abstained + (IF b.approved = <<>> THEN 1 ELSE 0),
        rejected  |-> acc.rejected]

Tally == FoldLeft(Count, NothingCounted, cast)

Leaders(counts) == {x \in Candidates : counts[x] = Max({counts[y] : y \in Candidates})}

\* Nobody leads with nothing, and a tie has no official winner.
WinnerOf(counts) ==
  LET leaders == Leaders(counts)
  IN IF Cardinality(leaders) = 1 /\ \A x \in leaders : counts[x] > 0 THEN leaders ELSE {}

-----------------------------------------------------------------------------
(* classifyRevision() and decidePostVoteFeedback()                           *)

Patches == UNION {[F -> Values] : F \in SUBSET Fields}
Patched(fields, patch) == [f \in Fields |-> IF f \in DOMAIN patch THEN patch[f] ELSE fields[f]]

Effective == versions[Len(versions)]

\* Mutant: a patch is compared with what was voted for.
ChangedSinceVote(patch) == {f \in DOMAIN patch : patch[f] # versions[1].fields[f]}

\* A named field that already has its value is no change.
Changed(patch) == {f \in DOMAIN patch : patch[f] # Effective.fields[f]}

Material(patch) == Changed(patch) \cap MaterialSet

Authorized(actor) == actor = Effective.fields[Lead] \/ actor \in board

\* Approvals are [member, revision] pairs; a repeated one counts once.
CountedApprovals(approvals, id) == {a.member : a \in {a \in approvals : a.member \in board /\ a.revision = id}}

\* The instants before and after the decision are told apart, nothing more.
Accepted(at, actor, patch, approvers) ==
  /\ at = "after" /\ outcome = "approved" /\ Authorized(actor) /\ Changed(patch) # {}
  /\ Material(patch) # {} => approvers # {}

Revise(at, id, actor, patch, approvals) ==
  LET approvers == CountedApprovals(approvals, id) IN
    /\ Accepted(at, actor, patch, approvers)
    /\ versions' = Append(versions, [fields |-> Patched(Effective.fields, patch), by |-> actor, revision |-> id,
                                     approvedBy |-> approvers, board |-> board, approvals |-> approvals])
    /\ UNCHANGED <<cast, outcome, board>>

-----------------------------------------------------------------------------
(* The caller: collects ballots, decides, and keeps the roster current       *)

FeedbackInit ==
  /\ cast = <<>> /\ outcome = Unset /\ versions = <<>>
  /\ board \in (SUBSET Roster) \ {{}}

Collect(b) ==
  /\ outcome = Unset /\ Len(cast) < MaxCast
  /\ cast' = Append(cast, b)
  /\ UNCHANGED <<outcome, board, versions>>

\* The snapshot of a candidate starts with the version that was voted on. The
\* ballots are done with.
Decide(proposal, fields) ==
  /\ outcome = Unset
  /\ outcome' = IF proposal \in WinnerOf(Tally.counts) THEN "approved" ELSE "no_winner"
  /\ versions' = <<[fields |-> fields, by |-> Unset, revision |-> Unset, approvedBy |-> {}, board |-> board,
                    approvals |-> {}]>>
  /\ cast' = <<>>
  /\ UNCHANGED board

\* readSnapshot refuses an empty roster.
ChangeBoard(members) ==
  /\ outcome = "approved" /\ members # board /\ members # {}
  /\ board' = members
  /\ UNCHANGED <<cast, outcome, versions>>

Approvals == [member : People, revision : RevisionIds]

FeedbackNext ==
  \/ \E b \in Ballots : Collect(b)
  \/ \E x \in Candidates, fields \in Voted : Decide(x, fields)
  \/ \E members \in SUBSET Roster : ChangeBoard(members)
  \/ /\ outcome # Unset /\ Len(versions) < MaxVersions
     /\ \E at \in {"before", "after"}, id \in RevisionIds, actor \in People, patch \in Patches,
          approvals \in UNION {kSubset(n, Approvals) : n \in 0..1} : Revise(at, id, actor, patch, approvals)

FeedbackSpec == FeedbackInit /\ [][FeedbackNext]_feedbackVars

-----------------------------------------------------------------------------
(* Properties                                                                *)

\* A ballot as the rules of the round describe it, whatever came before it.
WellFormed(b) ==
  /\ b.member \in Roster /\ Len(b.approved) <= MaxApprovals
  /\ Range(b.approved) \subseteq Candidates /\ Cardinality(Range(b.approved)) = Len(b.approved)

\* The loop counts, of every member, the first well-formed ballot and nothing
\* else: ballots that are refused use nobody's vote up, and no later ballot
\* changes a count. A winner is what each of the others has fewer approvals than.
FirstValidCounts ==
  LET valid == {i \in DOMAIN cast : WellFormed(cast[i])}
      first == {i \in valid : \A j \in valid : j < i => cast[j].member # cast[i].member}
      given == [x \in Candidates |-> Cardinality({i \in first : x \in Range(cast[i].approved)})]
      tally == Tally
  IN /\ tally.counts = given
     /\ tally.members = {cast[i].member : i \in first}
     /\ tally.rejected + Cardinality(first) = Len(cast)
     /\ WinnerOf(tally.counts) =
          {x \in Candidates : given[x] > 0 /\ \A y \in Candidates \ {x} : given[y] < given[x]}

\* Whatever the order of minor and material revisions and of changes of the
\* Board: a material field of an approved proposal moves from one version to
\* the next only with the approval, naming that revision, of somebody who is on
\* the Board at that time; and each revision comes from the lead of the version
\* it replaces or from that Board.
RevisionsWarranted ==
  \A i \in 2..Len(versions) :
    LET before == versions[i - 1]
        now    == versions[i]
    IN /\ (\E f \in MaterialSet : now.fields[f] # before.fields[f]) =>
            \E m \in now.approvedBy : /\ m \in now.board
                                      /\ [member |-> m, revision |-> now.revision] \in now.approvals
       /\ now.by = before.fields[Lead] \/ now.by \in now.board
       /\ outcome = "approved" /\ now.fields # before.fields
=============================================================================
