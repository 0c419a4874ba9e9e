--------------------------- MODULE MCReplyGuards ----------------------------
(* Two runs that share stores of one entry, so each pushes the other's out; *)
(* three calls in all, one tick and two final payloads per run.             *)
EXTENDS ReplyGuards, TLC

CONSTANTS r1, r2, q1, q2

MCRuns == {r1, r2}

Of(tool, answer) == [tool |-> tool, answer |-> answer, round |-> Absent, count |-> 0, error |-> "none"]
Ballot(q, n)     == [Of("poll_vote", "recorded") EXCEPT !.round = q, !.count = n]
Read(q, e)       == [Of("poll_result", "provisional") EXCEPT !.round = q, !.error = e]

\* Ballots on two rounds; open reads of one round and of none, under the codes
\* hosts stamp on them, and one too long to be told; a closed round; a collection,
\* a submit and a tool of the host.
MCCalls ==
  {Ballot(q1, 1), Ballot(q2, 0),
   Read(q1, "provisional"), Read(Absent, "failed"), [Read(q2, "none") EXCEPT !.answer = "unsayable"],
   [Of("poll_result", "final") EXCEPT !.round = q1],
   Of("collect", "collecting"), Of("submit", "done"), Of("other", "done")}

MCSymmetry == Permutations(MCRuns)
=============================================================================
