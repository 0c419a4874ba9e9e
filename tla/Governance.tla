----------------------------- MODULE Governance -----------------------------
(***************************************************************************)
(* The weighted-voting engine of plugins/rein-operations/governance.ts: a  *)
(* frozen round, recusals and ballots in any order, the tally of a         *)
(* proposal and the allocation of the round's budget.                      *)
(*                                                                         *)
(* The engine is pure: its caller keeps the state and passes every time,   *)
(* so the times of two calls need not grow.  A refused call returns the    *)
(* state it was given and is a stuttering step here.                       *)
(***************************************************************************)
EXTENDS Naturals, FiniteSetsExt, SequencesExt

CONSTANTS
  Inputs,      \* round inputs, well-formed or not
  Members,     \* people who may ask for a ballot, on the roster or not
  Proposals,   \* proposals they may ask about, in the round or not
  Keys,        \* idempotency keys
  None,        \* no round, no key, no budget, no earlier ballot
  Times,       \* the instants callers pass
  MaxBallots   \* bound on recorded ballots

\* `replaces: null' is told apart from every sequence number.
ASSUME NoneAssumption == None \notin Nat

VARIABLES
  round,        \* the frozen snapshot
  ballots,      \* the recorded ballots; a ballot's sequence is its place
  recusals,     \* recusals declared during the round
  acknowledged  \* keyed calls answered as accepted, with the ballot named

vars == <<round, ballots, recusals, acknowledged>>

Choices3 == {"approve", "reject", "abstain"}
Asks == [proposal : Proposals, member : Members, choice : Choices3, key : Keys \cup {None}]

Init ==
  /\ round = None
  /\ ballots = <<>>
  /\ recusals = {}
  /\ acknowledged = {}

-----------------------------------------------------------------------------
(* createRound()                                                           *)

\* prdR14DiscussionDefaultRules(), which no round takes unless its caller says so.
Half == [num |-> 1, den |-> 2]
Defaults == [memberShare |-> Half, weightShare |-> Half, majority |-> Half,
             tie |-> "not_passed", replacement |-> TRUE,
             allocation |-> "no_auto_allocation", ranking |-> <<>>, exhaustion |-> "none"]

ValidFraction(f) == f.num \in Nat /\ f.den \in Nat \ {0} /\ f.num <= f.den

\* What Array.isArray() tells apart.
IsSequence(s) == s \in Seq(Range(s))

\* The counting rules are complete; an explicit ranking orders the frozen
\* proposals, all of them and nothing else, once each. A ranking that comes with
\* the other rule is not looked at.
ValidRules(rules, ids) ==
  /\ ValidFraction(rules.memberShare)
  /\ ValidFraction(rules.weightShare)
  /\ ValidFraction(rules.majority)
  /\ rules.tie \in {"not_passed", "passed", "defer_to_revote"}
  /\ rules.allocation \in {"no_auto_allocation", "explicit_ranking"}
  /\ rules.allocation = "explicit_ranking" =>
       /\ rules.exhaustion \in {"stop_at_first_unfundable", "continue_to_next_fitting"}
       /\ IsSequence(rules.ranking)
       /\ IsInjective(rules.ranking)
       /\ Range(rules.ranking) = ids

\* Every member and proposal once, recusals of members of the roster only;
\* weights, amounts and the budget, if it is known, are natural numbers.
ValidInput(input) ==
  LET roster == {input.roster[i].member : i \in DOMAIN input.roster}
      ids    == {input.proposals[i].id : i \in DOMAIN input.proposals}
  IN /\ input.opensAt < input.closesAt
     /\ input.budget \in Nat \cup {None}
     /\ IsSequence(input.roster) /\ \A i \in DOMAIN input.roster : input.roster[i].weight \in Nat
     /\ IsSequence(input.proposals) /\ \A i \in DOMAIN input.proposals : input.proposals[i].amount \in Nat
     /\ \A i, j \in DOMAIN input.roster : input.roster[i].member = input.roster[j].member => i = j
     /\ \A i, j \in DOMAIN input.proposals : input.proposals[i].id = input.proposals[j].id => i = j
     /\ \A i \in DOMAIN input.proposals : input.proposals[i].recused \subseteq roster
     /\ ValidRules(input.rules, ids)

\* The snapshot: roster and proposals by their ids, detached from the input.
Snapshot(input) ==
  LET at(seq, Key(_), k) == seq[CHOOSE i \in DOMAIN seq : Key(seq[i]) = k]
      Member(m) == m.member
      Id(p)     == p.id
  IN [opensAt  |-> input.opensAt,
      closesAt |-> input.closesAt,
      budget   |-> input.budget,
      rules    |-> input.rules,
      weight   |-> [m \in {Member(input.roster[i]) : i \in DOMAIN input.roster} |->
                      at(input.roster, Member, m).weight],
      amount   |-> [p \in {Id(input.proposals[i]) : i \in DOMAIN input.proposals} |->
                      at(input.proposals, Id, p).amount],
      recused  |-> [p \in {Id(input.proposals[i]) : i \in DOMAIN input.proposals} |->
                      at(input.proposals, Id, p).recused]]

CreateRound(input) ==
  /\ round = None
  /\ ValidInput(input)
  /\ round' = Snapshot(input)
  /\ UNCHANGED <<ballots, recusals, acknowledged>>

-----------------------------------------------------------------------------
(* castBallot() and declareRecusal()                                       *)

\* Only the frozen proposals can be voted on, and only by the frozen roster.
IsProposalEligible(p) == p \in DOMAIN round.amount
IsVoterEligible(m) == m \in DOMAIN round.weight

\* The frozen recusals of a proposal and those declared since.
Recused(p) == round.recused[p] \cup {r.member : r \in {r \in recusals : r.proposal = p}}

\* The window includes its start and not its end.
Open(at) == round.opensAt <= at /\ at < round.closesAt

BallotsOf(p, m) == {i \in DOMAIN ballots : ballots[i].proposal = p /\ ballots[i].member = m}

\* Mutant: only ballots that no other one has replaced are looked up.
UnderKeyCounted(k) ==
  {i \in DOMAIN ballots : ballots[i].key = k /\ \A j \in DOMAIN ballots : ballots[j].replaces # i}

\* The recorded ballot of an idempotency key, if there is one.
UnderKey(k) == {i \in DOMAIN ballots : ballots[i].key = k}

SameBallot(b, ask) ==
  b.proposal = ask.proposal /\ b.member = ask.member /\ b.choice = ask.choice

Acknowledge(ask, i) ==
  acknowledged' = IF ask.key = None THEN acknowledged
                  ELSE acknowledged \cup {[ask |-> ask, sequence |-> i]}

\* The key has recorded this very ballot: the answer names it, whatever else
\* has changed since.  The same key for another ballot is refused.
ReplayBallot(ask) ==
  /\ round # None
  /\ ask.key # None
  /\ \E i \in UnderKey(ask.key) :
       /\ SameBallot(ballots[i], ask)
       /\ Acknowledge(ask, i)
  /\ UNCHANGED <<round, ballots, recusals>>

\* A new ballot.  It replaces the latest one of its member on the proposal.
CastBallot(ask, at) ==
  LET p == ask.proposal
      m == ask.member
      earlier == BallotsOf(p, m)
  IN /\ round # None
     /\ Len(ballots) < MaxBallots
     /\ ask.key # None => UnderKey(ask.key) = {}
     /\ IsVoterEligible(m)
     /\ IsProposalEligible(p)
     /\ m \notin Recused(p)
     /\ Open(at)
     /\ earlier = {} \/ round.rules.replacement
     /\ ballots' = Append(ballots,
          [proposal |-> p, member |-> m, choice |-> ask.choice, key |-> ask.key,
           replaces |-> IF earlier = {} THEN None ELSE Max(earlier)])
     /\ Acknowledge(ask, Len(ballots) + 1)
     /\ UNCHANGED <<round, recusals>>

\* Mutant: only the member's own ballots stand in the way of a recusal.
DeclareRecusalUnlessVoted(p, m, at) ==
  /\ round # None
  /\ IsVoterEligible(m)
  /\ IsProposalEligible(p)
  /\ m \notin Recused(p)
  /\ Open(at)
  /\ BallotsOf(p, m) = {}
  /\ recusals' = recusals \cup {[proposal |-> p, member |-> m]}
  /\ UNCHANGED <<round, ballots, acknowledged>>

\* A recusal is taken only while the proposal has no ballot at all.
DeclareRecusal(p, m, at) ==
  /\ round # None
  /\ IsVoterEligible(m)
  /\ IsProposalEligible(p)
  /\ m \notin Recused(p)
  /\ Open(at)
  /\ \A i \in DOMAIN ballots : ballots[i].proposal # p
  /\ recusals' = recusals \cup {[proposal |-> p, member |-> m]}
  /\ UNCHANGED <<round, ballots, acknowledged>>

-----------------------------------------------------------------------------
(* tallyProposal()                                                         *)

CeilDiv(a, b) == (a + b - 1) \div b

WeightOf(S) == SumFunctionOnSet(round.weight, S)

Eligible(p) == DOMAIN round.weight \ Recused(p)

\* Mutant: the first ballot of a member counts.
CountedFirst(p) ==
  {Min(BallotsOf(p, m)) : m \in {m \in Eligible(p) : BallotsOf(p, m) # {}}}

\* The ballots that count: the latest one of every member who is not recused.
Counted(p) ==
  {Max(BallotsOf(p, m)) : m \in {m \in Eligible(p) : BallotsOf(p, m) # {}}}

Voters(p, choice) ==
  {ballots[i].member : i \in {i \in Counted(p) : ballots[i].choice = choice}}

Approving(p)    == WeightOf(Voters(p, "approve"))
Rejecting(p)    == WeightOf(Voters(p, "reject"))
Participants(p) == UNION {Voters(p, choice) : choice \in Choices3}

MembersMet(p) ==
  LET share == round.rules.memberShare
  IN Cardinality(Participants(p)) >= CeilDiv(Cardinality(Eligible(p)) * share.num, share.den)

WeightMet(p) ==
  LET share == round.rules.weightShare
  IN WeightOf(Participants(p)) * share.den >= WeightOf(Eligible(p)) * share.num

\* The majority is taken of those who approved or rejected.
Majority(p) ==
  Approving(p) * round.rules.majority.den
    > (Approving(p) + Rejecting(p)) * round.rules.majority.num

TieStatus ==
  CASE round.rules.tie = "passed"          -> "passed"
    [] round.rules.tie = "defer_to_revote" -> "deferred_for_revote"
    [] round.rules.tie = "not_passed"      -> "not_passed"

Status(p) ==
  LET met     == MembersMet(p) /\ WeightMet(p)
      approve == Approving(p)
      reject  == Rejecting(p)
  IN CASE ~met                                     -> "insufficient_participation_deferred"
       [] met /\ approve + reject = 0              -> "not_passed"
       [] met /\ approve = reject /\ reject > 0    -> TieStatus
       [] met /\ approve # reject /\ Majority(p)   -> "passed"
       [] met /\ approve # reject /\ ~Majority(p)  -> "not_passed"

-----------------------------------------------------------------------------
(* tallyRound(): what each passed proposal is allocated                    *)

Passed == {p \in DOMAIN round.amount : Status(p) = "passed"}

Requested(passed) == SumFunctionOnSet(round.amount, passed)

BudgetStatus(passed) ==
  CASE passed = {}                             -> "not_requested"
    [] passed # {} /\ round.budget = None      -> "available_funds_unknown"
    [] passed # {} /\ round.budget # None /\ Requested(passed) <= round.budget -> "fully_covered"
    [] passed # {} /\ round.budget # None /\ Requested(passed) > round.budget  -> "shortfall"

\* Mutant: `remaining` is compared and not reduced.
RankedUnreduced(acc, p) ==
  IF p \notin acc.passed \/ round.amount[p] = 0 THEN acc
  ELSE IF ~acc.blocked /\ acc.left >= round.amount[p]
    THEN [acc EXCEPT !.funded = @ \cup {p}]
    ELSE [acc EXCEPT !.blocked = @ \/ round.rules.exhaustion = "stop_at_first_unfundable"]

\* One proposal of the ranking: funded when it fits and nothing blocks it; the
\* first one that does not fit blocks the rest if the rules say so.
Ranked(acc, p) ==
  IF p \notin acc.passed \/ round.amount[p] = 0 THEN acc
  ELSE IF ~acc.blocked /\ acc.left >= round.amount[p]
    THEN [acc EXCEPT !.left = @ - round.amount[p], !.funded = @ \cup {p}]
    ELSE [acc EXCEPT !.blocked = @ \/ round.rules.exhaustion = "stop_at_first_unfundable"]

\* Of the passed proposals, those that are allocated what they asked for.
Allocated(passed) ==
  CASE BudgetStatus(passed) = "fully_covered" -> {p \in passed : round.amount[p] > 0}
    [] BudgetStatus(passed) = "shortfall" /\ round.rules.allocation = "explicit_ranking" ->
         FoldLeft(Ranked, [passed |-> passed, left |-> round.budget, blocked |-> FALSE, funded |-> {}],
                  round.rules.ranking).funded
    [] OTHER -> {}

\* The decision on each passed proposal.
Decision(passed, p) ==
  CASE round.amount[p] = 0 -> "passed_no_funding_required"
    [] round.amount[p] > 0 /\ p \in Allocated(passed) -> "allocated"
    [] OTHER -> "awaiting_funding_allocation"

Awaiting(passed) == {p \in passed : Decision(passed, p) = "awaiting_funding_allocation"}

-----------------------------------------------------------------------------
Next ==
  \/ \E input \in Inputs : CreateRound(input)
  \/ \E ask \in Asks : ReplayBallot(ask)
  \/ \E ask \in Asks, at \in Times : CastBallot(ask, at)
  \/ \E p \in Proposals, m \in Members, at \in Times : DeclareRecusal(p, m, at)

Spec == Init /\ [][Next]_vars

-----------------------------------------------------------------------------
(* Properties                                                              *)

\* Whatever the order of ballots, replacements and recusals, the tally counts
\* exactly the recorded ballots that no later ballot names as replaced, one of
\* each member: no recusal takes a vote away, and none counts twice
\* (castBallot's chain of replacements against tallyProposal's own choice).
CountedStand ==
  round # None => \A p \in DOMAIN round.amount :
    LET standing == {i \in DOMAIN ballots :
                       /\ ballots[i].proposal = p
                       /\ \A j \in DOMAIN ballots : ballots[j].replaces # i}
    IN /\ Counted(p) = standing
       /\ \A i, j \in standing : ballots[i].member = ballots[j].member => i = j

\* The bar a proposal has to reach does not move once somebody has voted on
\* it: recusals after the first ballot would change the electorate that the
\* ballots already cast are measured against.
ElectorateFrozen ==
  [][round # None => \A p \in DOMAIN round.amount :
       (\E i \in DOMAIN ballots : ballots[i].proposal = p) => Eligible(p)' = Eligible(p)]_vars

\* A keyed call creates one ballot: every answer under a key, also one given
\* after the window closed or the ballot was replaced, names the same ballot,
\* and that ballot is what the call asked for.
KeyCreatesOne ==
  /\ \A a \in acknowledged : SameBallot(ballots[a.sequence], a.ask)
  /\ \A a, b \in acknowledged : a.ask.key = b.ask.key => a.sequence = b.sequence
  /\ \A i, j \in DOMAIN ballots : ballots[i].key = ballots[j].key /\ i # j => ballots[i].key = None

\* Competing demands never spend the budget twice and never jump the ranking:
\* what is allocated was passed and fits the budget; under a ranking a proposal
\* waits only if it no longer fits after the better ranked ones that are funded,
\* or, under "stop", if a better ranked one waits that did not fit.
AllocationRespectsRank ==
  round # None =>
    LET passed  == Passed
        funded  == Allocated(passed)
        waiting == Awaiting(passed)
        ranking == round.rules.ranking
        above(i) == {ranking[h] : h \in 1..(i - 1)} \cap funded
        fits(i)  == Requested(above(i)) + round.amount[ranking[i]] <= round.budget
    IN /\ funded \subseteq passed
       /\ funded # {} => Requested(funded) <= round.budget
       /\ BudgetStatus(passed) = "shortfall" /\ round.rules.allocation = "explicit_ranking" =>
            \A i \in DOMAIN ranking : ranking[i] \in waiting =>
              \/ ~fits(i)
              \/ /\ round.rules.exhaustion = "stop_at_first_unfundable"
                 /\ \E h \in 1..(i - 1) : ranking[h] \in waiting /\ ~fits(h)
=============================================================================
