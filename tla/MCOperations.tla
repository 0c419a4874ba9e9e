---------------------------- MODULE MCOperations ----------------------------
(* Two or three calls of the turns of two proposers and two directors.       *)
EXTENDS Operations, TLC

CONSTANTS ann, ben, dee, eve, p1, p2, p3, b1, b2, a, b

MCTurns == {p1, p2, p3, b1, b2}
MCSenderOf == [t \in MCTurns |-> CASE t = b1 -> dee [] t = b2 -> eve [] t = p3 -> ben [] OTHER -> ann]
MCChannelOf == [t \in MCTurns |-> IF t \in {b1, b2} THEN "board" ELSE "proposal"]

Text(title) == [title |-> title, type |-> "event"]
MCTexts == {Text("new"), [title |-> "new", type |-> "odd"]}

Id(title) == <<ben, Text(title)>>
Proposal(title, status) == Id(title) :> [contact |-> ben, text |-> Text(title), status |-> status]
NoPoll == [p \in {} |-> None]
NoProposal == NoPoll

\* Proposers start from nothing.
Intake(tools, n, k) ==
  [tools |-> tools, turns |-> {p1, p2, p3}, calls |-> n, tries |-> k, until |-> 1,
   stored |-> NoProposal, polls |-> NoPoll]

\* A round over two proposals is open and closes at 1; a third proposal is free.
Voting(tools, n, k) ==
  [tools |-> tools, turns |-> {b1, b2}, calls |-> n, tries |-> k, until |-> 1,
   stored |-> Proposal(a, "submitted") @@ Proposal(b, "submitted") @@ Proposal("c", "submitted"),
   polls |-> 0 :> [candidates |-> {Id(a), Id(b)}, closes |-> 1, status |-> "open", winner |-> {}]]

\* One proposal was selected; another may be there that was not. No tool of
\* this desk reads the clock.
Feedback(n, k, others) ==
  [tools |-> {"suggest", "approve", "apply"}, turns |-> {b1, b2}, calls |-> n, tries |-> k, until |-> 0,
   stored |-> Proposal("d", "selected") @@ others, polls |-> NoPoll]

MCDesks ==
  {Intake({"collect"}, 2, 2), Intake({"submit"}, 2, 2), Intake({"submit"}, 3, 1),
   Voting({"open", "vote", "result"}, 2, 2), Voting({"vote", "result"}, 3, 1),
   Feedback(2, 2, Proposal("c", "submitted")), Feedback(3, 1, NoProposal)}

\* The two directors can be exchanged, each with their turn, the two turns of
\* one proposer, and the two proposals of the open round.
Boards == {p \in Permutations({dee, eve, b1, b2}) : \A t \in {b1, b2} : p[t] \in {b1, b2} /\ p[SenderOf[t]] = SenderOf[p[t]]}
MCSymmetry == Boards \cup Permutations({a, b}) \cup Permutations({p1, p2})
=============================================================================
