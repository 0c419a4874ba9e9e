----------------------------- MODULE MCAnswers -----------------------------
(* A director in a channel approved for both audiences, and an account with  *)
(* a turn in a proposal channel and one in a channel approved for neither.   *)
EXTENDS Answers

CONSTANTS ann, dee, b, p, o, event, gone, x

MCTurns == {b, p, o}
MCSenderOf == [t \in MCTurns |-> IF t = b THEN dee ELSE ann]
MCScopeOf == [t \in MCTurns |-> CASE t = b -> {"board", "proposal"} [] t = p -> {"proposal"} [] t = o -> {}]

MCTypes == {event, gone}
\* "known" is spelled two ways; both types claim "both"; nobody stored the type that
\* "stale" names; " " says nothing.
MCPhrases == {"known", "KNOWN", "both", "stale", "other", " "}
MCNormalOf == [s \in MCPhrases |-> CASE s = "KNOWN" -> "known" [] s = " " -> Nothing [] OTHER -> s]
MCLabels == [type \in MCTypes |-> IF type = event THEN [name |-> "KNOWN", aliases |-> {"both"}]
                                                 ELSE [name |-> "both", aliases |-> {"stale"}]]

MCWorlds ==
  {[standing |-> [a \in {ann, dee} |-> IF a = dee THEN {"member", "director"} ELSE s],
    types |-> {event}, held |-> {x},
    session |-> [a \in {ann, dee} |-> IF a = ann /\ s = {} THEN "email_verified" ELSE "none"]]
     : s \in {{}, {"member", "contributor"}}}

\* Every tool once, while the backend changes twice; the binding of an account,
\* next to a tool that reads its link.
MCDesks == {[tools |-> Tools, calls |-> 1, changes |-> 2],
            [tools |-> Binding \cup {"status"}, calls |-> 2, changes |-> 1]}
=============================================================================
