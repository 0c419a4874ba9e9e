------------------------------ MODULE MCRules -------------------------------
(* The two pure rule engines, which share no state: a behaviour is either a *)
(* round of the governance engine or an informal vote and its revisions.    *)
(* Three kinds of round.  Board: three members of unequal weight, one       *)
(* proposal, votes may be replaced, the discussion defaults.  Ranking: two  *)
(* members and three proposals that ask for more than there is, with each   *)
(* answer to an exhausted budget.  Ties: even weights, no replacement, and  *)
(* a two-thirds majority with participation of a third.                     *)
(* Of the vote: two eligible members and an outsider, two candidates and an *)
(* unknown one, one approval each; three versions of a proposal of a minor  *)
(* field, an amount and a lead.                                             *)
EXTENDS Governance, Feedback, TLC

CONSTANTS m1, m2, m3, outsider, k1, ann, bob, out, x, y, z, r1, r2

MCMembers == {m1, m2, m3, outsider}
MCProposals == {"a", "b", "c"}
MCKeys == {k1}
MCTimes == {1, 3}

Third == [num |-> 1, den |-> 3]
TwoThirds == [num |-> 2, den |-> 3]

Seat(m, w) == [member |-> m, weight |-> w]
Item(p, amount, recused) == [id |-> p, amount |-> amount, recused |-> recused]

Board ==
  [opensAt |-> 1, closesAt |-> 3, budget |-> 5, rules |-> Defaults,
   roster |-> <<Seat(m1, 2), Seat(m2, 1), Seat(m3, 1)>>,
   proposals |-> <<Item("a", 5, {})>>]

RankedRules(exhaustion) ==
  [Defaults EXCEPT !.allocation = "explicit_ranking", !.ranking = <<"b", "a", "c">>,
                   !.exhaustion = exhaustion, !.replacement = FALSE]

Ranking(exhaustion) ==
  [opensAt |-> 1, closesAt |-> 3, budget |-> 5, rules |-> RankedRules(exhaustion),
   roster |-> <<Seat(m1, 1), Seat(m2, 1)>>,
   proposals |-> <<Item("a", 4, {m2}), Item("b", 3, {}), Item("c", 1, {})>>]

Ties(tie) ==
  [opensAt |-> 1, closesAt |-> 3, budget |-> None,
   rules |-> [Defaults EXCEPT !.memberShare = Third, !.majority = TwoThirds,
                              !.tie = tie, !.replacement = FALSE],
   roster |-> <<Seat(m1, 1), Seat(m2, 1)>>, proposals |-> <<Item("a", 0, {}), Item("b", 2, {m1})>>]

\* Inputs createRound() refuses: a window of no length, a member twice, a
\* recused outsider, an amount that is no number, a ranking with a gap, no
\* ranking for the rule that needs one.
RefusedInputs ==
  {[Board EXCEPT !.closesAt = 1],
   [Board EXCEPT !.roster = @ \o <<Seat(m1, 3)>>],
   [Board EXCEPT !.proposals = <<Item("a", 5, {outsider})>>],
   [Board EXCEPT !.proposals = <<Item("a", None, {})>>],
   [Ranking("stop_at_first_unfundable") EXCEPT !.rules.ranking = <<"b", "a">>],
   [Ranking("stop_at_first_unfundable") EXCEPT !.rules.ranking = <<>>]}

\* A ranking beside the rule that ignores it.
Ignored == [Ranking("stop_at_first_unfundable") EXCEPT !.rules.allocation = "no_auto_allocation"]

MCInputs ==
  RefusedInputs \cup {Board, Ignored} \cup {Ranking(e) : e \in {"stop_at_first_unfundable", "continue_to_next_fitting"}}
    \cup {Ties(t) : t \in {"not_passed", "passed", "defer_to_revote"}}

-----------------------------------------------------------------------------
MCPeople == {ann, bob, out}
MCRoster == {ann, bob}
MCCandidates == {x, y}
MCNameable == {x, y, z}
MCMinor == {"title"}
MCMaterial == {"amount", "lead"}
MCValues == {ann, out}
MCRevisions == {r1, r2}
MCVoted == {[f \in MCMinor \cup MCMaterial |-> ann]}
MCSymmetry == Permutations(MCCandidates) \cup Permutations(MCRevisions)

RulesInit == Init /\ FeedbackInit

\* Whichever engine moves first is the one of the behaviour; a round has one Board.
RulesNext ==
  \/ Next /\ cast = <<>> /\ outcome = Unset /\ board = Roster /\ UNCHANGED feedbackVars
  \/ FeedbackNext /\ round = None /\ UNCHANGED vars

RulesSpec == RulesInit /\ [][RulesNext]_<<vars, feedbackVars>>
=============================================================================
