---------------------------- MODULE MCProposals -----------------------------
(* A small instance of the proposal core.  It starts where one account or   *)
(* two are linked to Contributors and a policy is in force, states Init     *)
(* reaches by registry operations.                                          *)
EXTENDS Proposals, TLC

CONSTANTS a1, a2, m1, m2, k1

MCAccounts == {a1, a2}
MCMembers == {m1, m2}
MCKeys == {k1}

\* A complete zero-budget event and what differs from it: funding; start (which
\* is material) and type; information and title; the confirmations.
Event == [given |-> TRUE, funded |-> FALSE, itemised |-> FALSE, assured |-> TRUE,
          type |-> "reading", title |-> "t1", start |-> 2]
Funded == [Event EXCEPT !.funded = TRUE, !.itemised = TRUE, !.assured = FALSE]
MCRoutes == {Event, Funded, [Event EXCEPT !.start = 1, !.type = "gala"],
             [Event EXCEPT !.given = FALSE, !.title = "blank"],
             [Funded EXCEPT !.funded = FALSE]}
MCTwoContents == {Event, Funded}

Active(t) == [active |-> TRUE, expires |-> t]
MCRenewedGrants == {<<>>, <<Active(1)>>, <<Active(1), Active(3)>>}
MCPolicies == {{"reading"}}

\* The account of each Contributor, and the accounts that are on record.
MemberOf == a1 :> m1 @@ a2 :> m2
Present == {a \in Accounts : members[MemberOf[a]] # None}

Linked(As, grants) ==
  LET Ms == {MemberOf[a] : a \in As}
  IN /\ members = [m \in Members |-> IF m \in Ms THEN [active |-> TRUE, grants |-> grants] ELSE None]
     /\ identities = [a \in Accounts |-> IF a \in As THEN [member |-> MemberOf[a], verified |-> TRUE] ELSE None]
     /\ policy = [scope |-> {"reading"}, active |-> TRUE]
     /\ now = 0 /\ proposals = <<>> /\ changes = 0
     /\ receipts = [k \in Keys |-> None]

\* A behaviour lives in one of two worlds.  Where both are on record they meet
\* over two proposals and the registry stands still; where one is, registry,
\* policy, clock and a retry key move around its one proposal.
Settled == Present = Accounts

Worlds ==
  \/ Linked(Accounts, <<Active(3)>>)
  \/ \E a \in Accounts, grants \in Grants : Linked({a}, grants)

WorldNext ==
  \/ Settled /\ ProposalNext(Accounts, MCTwoContents, {})
  \/ ~Settled /\ RegistryNext({MemberOf[a] : a \in Present}, Present)
  \/ ~Settled /\ ProposalNext(Present, Contents, Keys)

OneProposal == ~Settled => Len(proposals) <= 1

MCSpec == Worlds /\ [][WorldNext]_vars

\* The two Contributors can be exchanged, each with its account.
MCSymmetry ==
  {p \in Permutations({a1, a2, m1, m2}) : \A a \in Accounts : p[a] \in Accounts /\ p[MemberOf[a]] = MemberOf[p[a]]}
=============================================================================
