--------------------------- MODULE ProposalsProofs ---------------------------
(***************************************************************************)
(* Proofs about the proposal core, for any number of accounts, members,    *)
(* proposals, versions and keys.                                           *)
(***************************************************************************)
EXTENDS Proposals, TLAPS

States == {"draft", "needs_reconfirmation", "confirmed", "needs_information", "needs_exception",
           "awaiting_governance", "approved", "duplicate", "on_hold", "withdrawn"}

Grounds == [scope : Policies, active : BOOLEAN]

Confirmations == [version : Nat, member : Members \cup {None}, acknowledged : BOOLEAN]

Records ==
  [owner : Accounts, lead : Members \cup {None}, state : States, versions : Seq(Contents),
   confirmed : Nat, pending : BOOLEAN, confirmations : Seq(Confirmations), duplicateOf : Nat,
   approval : Grounds \cup {None}, copied : BOOLEAN]

RegistryTypes ==
  /\ identities \in [Accounts -> [member : Members, verified : BOOLEAN] \cup {None}]
  /\ policy \in Grounds \cup {None}

-----------------------------------------------------------------------------
(* One proposal                                                            *)

\* The current version is confirmed or none is, and a confirmed one has the
\* lead's own confirmation as the last.
ConfirmedByLead(p) ==
  /\ p.versions # <<>>
  /\ p.confirmed \in {0, Version(p)}
  /\ p.confirmed = Version(p) =>
       /\ p.confirmations # <<>>
       /\ p.confirmations[Len(p.confirmations)].version = Version(p)
       /\ p.confirmations[Len(p.confirmations)].member = p.lead

\* The states a submission or a resumption reaches need a confirmed version.
Formal(p) == p.state \in Frozen \cup {"confirmed"} => p.confirmed = Version(p)

\* An approval rests on a policy for the type of an event that asks for nothing.
Approvable(p) ==
  p.state = "approved" =>
    /\ ~ Fields(p).funded /\ Complete(Fields(p))
    /\ p.approval # None /\ Fields(p).type \in p.approval.scope

Sound(p) == p \in Records /\ ConfirmedByLead(p) /\ Formal(p) /\ Approvable(p)

CoreInv ==
  /\ RegistryTypes
  /\ proposals \in Seq(Records)
  /\ \A id \in DOMAIN proposals : Sound(proposals[id])
  /\ NoDuplicateInSelection
  /\ DuplicateChainsEnd


-----------------------------------------------------------------------------
(* What a step leaves as it was                                            *)

\* In selection, or told to be a duplicate: what the two relations are about.
Placed == Frozen \cup {"duplicate"}

Same(p, q) ==
  /\ q.state = p.state /\ q.versions = p.versions
  /\ q.lead = p.lead /\ q.duplicateOf = p.duplicateOf

\* A step that places no proposal keeps both relations.
LEMMA NonePlaced ==
  ASSUME CoreInv, RegistryTypes', proposals' \in Seq(Records),
         \A i \in DOMAIN proposals' : Sound(proposals'[i]),
         \A i \in DOMAIN proposals' : proposals'[i].state \in Placed =>
           i \in DOMAIN proposals /\ Same(proposals[i], proposals'[i])
  PROVE  CoreInv'
<1>1. NoDuplicateInSelection'
  <2> SUFFICES ASSUME NEW i \in DOMAIN proposals', NEW j \in DOMAIN proposals', i # j,
                      proposals'[i].state \in Frozen, proposals'[j].state \in Frozen,
                      proposals'[i].lead = proposals'[j].lead,
                      Fields(proposals'[i]).title # Blank
               PROVE  \/ Fields(proposals'[i]).title # Fields(proposals'[j]).title
                      \/ Fields(proposals'[i]).start # Fields(proposals'[j]).start
    BY DEF NoDuplicateInSelection
  <2>1. /\ i \in DOMAIN proposals /\ Same(proposals[i], proposals'[i])
        /\ j \in DOMAIN proposals /\ Same(proposals[j], proposals'[j])
    BY DEF Placed
  <2> QED
    <3>1. NoDuplicateInSelection /\ proposals[i].state \in Frozen /\ proposals[j].state \in Frozen
      BY <2>1 DEF CoreInv, Same
    <3>2. /\ Fields(proposals'[i]) = Fields(proposals[i]) /\ Fields(proposals'[j]) = Fields(proposals[j])
          /\ proposals[i].lead = proposals[j].lead
      BY <2>1 DEF Same, Fields
    <3> QED
      BY <2>1, <3>1, <3>2 DEF NoDuplicateInSelection
<1>2. DuplicateChainsEnd'
  <2> SUFFICES ASSUME NEW S \in (SUBSET {i \in DOMAIN proposals' : proposals'[i].state = "duplicate"}) \ {{}}
               PROVE  \E i \in S : proposals'[i].duplicateOf \notin S
    BY DEF DuplicateChainsEnd
  <2>1. \A i \in S : i \in DOMAIN proposals /\ Same(proposals[i], proposals'[i])
    BY DEF Placed
  <2>2. S \in SUBSET {i \in DOMAIN proposals : proposals[i].state = "duplicate"}
    BY <2>1 DEF Same
  <2>3. PICK i \in S : proposals[i].duplicateOf \notin S
    BY <2>2 DEF CoreInv, DuplicateChainsEnd
  <2> QED
    BY <2>1, <2>3 DEF Same
<1> QED
  BY <1>1, <1>2 DEF CoreInv

\* One proposal is written again.
LEMMA Written ==
  ASSUME CoreInv, NEW id \in DOMAIN proposals, NEW q, Sound(q), Update(id, q)
  PROVE  /\ proposals' \in Seq(Records) /\ DOMAIN proposals' = DOMAIN proposals
         /\ proposals'[id] = q
         /\ \A i \in DOMAIN proposals : i # id => proposals'[i] = proposals[i]
         /\ \A i \in DOMAIN proposals' : Sound(proposals'[i])
<1>1. proposals' = [proposals EXCEPT ![id] = q] /\ q \in Records /\ proposals \in Seq(Records)
  BY DEF Update, Sound, CoreInv
<1>2. proposals' \in Seq(Records) /\ DOMAIN proposals' = DOMAIN proposals
  BY <1>1
<1>3. proposals'[id] = q /\ \A i \in DOMAIN proposals : i # id => proposals'[i] = proposals[i]
  BY <1>1
<1> QED
  BY <1>2, <1>3 DEF CoreInv

\* One proposal is written, and not placed or placed as it was.
LEMMA WrittenFree ==
  ASSUME CoreInv, RegistryTypes', NEW id \in DOMAIN proposals, NEW q, Sound(q), Update(id, q),
         q.state \in Placed => Same(proposals[id], q)
  PROVE  CoreInv'
<1>1. \A i \in DOMAIN proposals : Same(proposals[i], proposals[i])
  BY DEF Same
<1> QED
  BY <1>1, Written, NonePlaced

\* One proposal more.
LEMMA Added ==
  ASSUME CoreInv, RegistryTypes', NEW q, Sound(q), q.state \notin Placed,
         proposals' = Append(proposals, q)
  PROVE  CoreInv'
<1>1. q \in Records /\ proposals \in Seq(Records)
  BY DEF Sound, CoreInv
<1>2. /\ proposals' \in Seq(Records) /\ DOMAIN proposals' = DOMAIN proposals \cup {Len(proposals) + 1}
      /\ proposals'[Len(proposals) + 1] = q
      /\ \A i \in DOMAIN proposals : proposals'[i] = proposals[i]
  BY <1>1
<1>3. \A i \in DOMAIN proposals' : Sound(proposals'[i])
  BY <1>2 DEF CoreInv
<1> QED
  BY <1>2, <1>3, NonePlaced DEF Same

LEMMA Typed ==
  ASSUME CoreInv, NEW id \in DOMAIN proposals
  PROVE  /\ Sound(proposals[id]) /\ proposals[id] \in Records
         /\ proposals[id].versions \in Seq(Contents) /\ proposals[id].versions # <<>>
         /\ proposals[id].confirmations \in Seq(Confirmations)
         /\ Version(proposals[id]) \in Nat \ {0}
<1>1. Sound(proposals[id])
  BY DEF CoreInv
<1>2. proposals[id].versions \in Seq(Contents) /\ proposals[id].confirmations \in Seq(Confirmations)
  BY <1>1 DEF Sound, Records
<1> QED
  BY <1>1, <1>2 DEF Sound, ConfirmedByLead, Version

-----------------------------------------------------------------------------
(* The operations                                                          *)

LEMMA DraftSound ==
  ASSUME NEW a \in Accounts, NEW c \in Contents, NEW copied \in BOOLEAN
  PROVE  Sound([Draft(a, c) EXCEPT !.copied = copied]) /\ Sound(Draft(a, c))
<1> DEFINE d == Draft(a, c)
           q == [d EXCEPT !.copied = copied]
<1>1. d = [owner |-> a, lead |-> None, state |-> "draft", versions |-> <<c>>,
           confirmed |-> 0, pending |-> FALSE, confirmations |-> <<>>, duplicateOf |-> 0,
           approval |-> None, copied |-> FALSE]
  BY DEF Draft
<1>2. <<c>> \in Seq(Contents) /\ <<c>> # <<>>
  OBVIOUS
<1> HIDE DEF d
<1>3. d \in Records /\ d.versions # <<>> /\ d.versions \in Seq(Contents) /\ d.confirmed = 0 /\ d.state = "draft"
  BY <1>1, <1>2 DEF Records, States
<1>4. q \in Records /\ q.versions = d.versions /\ q.confirmed = 0 /\ q.state = "draft"
  BY <1>3 DEF Records
<1> HIDE DEF q
<1>5. Sound(d) /\ Sound(q)
  BY <1>3, <1>4 DEF Sound, ConfirmedByLead, Formal, Frozen, Approvable, Version
<1> QED
  BY <1>5 DEF d, q

LEMMA CreateKeeps ==
  ASSUME CoreInv, NEW a \in Accounts, NEW c \in Contents, NEW k \in Keys \cup {None}, CreateDraft(a, c, k)
  PROVE  CoreInv'
<1>1. RegistryTypes' /\ proposals' = Append(proposals, Draft(a, c))
  BY DEF CreateDraft, CoreInv, RegistryTypes
<1>2. Sound(Draft(a, c)) /\ Draft(a, c).state \notin Placed
  BY DraftSound DEF Draft, Placed, Frozen
<1> QED
  BY <1>1, <1>2, Added

LEMMA ReviseKeeps ==
  ASSUME CoreInv, NEW id \in DOMAIN proposals, NEW a \in Accounts, NEW c \in Contents,
         NEW k \in Keys \cup {None}, ReviseDraft(id, a, c, k)
  PROVE  CoreInv'
<1> DEFINE p == proposals[id]
           wasConfirmed == p.confirmed = Version(p)
           q == [p EXCEPT
                  !.versions    = Append(@, c),
                  !.pending     = Material(Fields(p), c),
                  !.duplicateOf = 0,
                  !.confirmed   = IF wasConfirmed THEN 0 ELSE @,
                  !.state       = IF wasConfirmed THEN "needs_reconfirmation" ELSE "draft"]
<1>1. RegistryTypes' /\ Update(id, q)
  BY DEF ReviseDraft, CoreInv, RegistryTypes
<1>2. /\ Sound(p) /\ p \in Records /\ p.versions \in Seq(Contents) /\ Version(p) \in Nat \ {0}
      /\ p.confirmed \in {0, Version(p)}
  BY Typed DEF Sound, ConfirmedByLead
<1>3. Material(Fields(p), c) \in BOOLEAN
  BY DEF Material
<1> HIDE DEF p
<1>4. Append(p.versions, c) \in Seq(Contents) /\ Len(Append(p.versions, c)) = Version(p) + 1
  BY <1>2 DEF Version
<1>5. q.versions = Append(p.versions, c) /\ q.confirmed = 0 /\ q.state \in {"needs_reconfirmation", "draft"}
  BY <1>2 DEF Records
<1>6. q \in Records
  BY <1>2, <1>3, <1>4 DEF Records, States
<1> HIDE DEF q
<1>7. Sound(q) /\ q.state \notin Placed
  BY <1>2, <1>4, <1>5, <1>6 DEF Sound, ConfirmedByLead, Formal, Frozen, Approvable, Version, Placed
<1> QED
  BY <1>1, <1>7, WrittenFree

LEMMA ConfirmKeeps ==
  ASSUME CoreInv, NEW id \in DOMAIN proposals, NEW a \in Accounts, NEW version \in 1..MaxVersion,
         NEW acknowledged \in BOOLEAN, ConfirmLeadVersion(id, a, version, acknowledged)
  PROVE  CoreInv'
<1> DEFINE p == proposals[id]
           m == MemberFor(a)
           note == [version |-> version, member |-> m, acknowledged |-> p.pending /\ acknowledged]
           q == [p EXCEPT
                  !.lead = m, !.confirmed = version, !.state = "confirmed", !.pending = FALSE,
                  !.confirmations = Append(@, note)]
<1>1. RegistryTypes' /\ Update(id, q) /\ version = Version(p)
  BY DEF ConfirmLeadVersion, CoreInv, RegistryTypes
<1>2. /\ Sound(p) /\ p \in Records /\ p.confirmations \in Seq(Confirmations)
      /\ p.versions # <<>> /\ Version(p) \in Nat \ {0}
  BY Typed
<1>3. m \in Members \cup {None}
  BY DEF MemberFor, CoreInv, RegistryTypes
<1> HIDE DEF p, m
<1>4. note \in Confirmations
  BY <1>1, <1>2, <1>3 DEF Confirmations, Records
<1>5. note.version = version /\ note.member = m
  OBVIOUS
<1> HIDE DEF note
<1>6. /\ Append(p.confirmations, note) \in Seq(Confirmations) /\ Append(p.confirmations, note) # <<>>
      /\ Append(p.confirmations, note)[Len(Append(p.confirmations, note))] = note
  BY <1>2, <1>4
<1>7. /\ q.versions = p.versions /\ q.confirmed = version /\ q.state = "confirmed" /\ q.lead = m
      /\ q.confirmations = Append(p.confirmations, note)
  BY <1>2 DEF Records
<1>8. q \in Records
  BY <1>1, <1>2, <1>3, <1>6 DEF Records, States
<1> HIDE DEF q
<1>9. Sound(q) /\ q.state \notin Placed
  BY <1>1, <1>2, <1>5, <1>6, <1>7, <1>8
     DEF Sound, ConfirmedByLead, Formal, Frozen, Approvable, Version, Placed
<1> QED
  BY <1>1, <1>9, WrittenFree


\* routeProcessingPath approves an event that asks for nothing and states it all,
\* of a type the policy in force allows.
LEMMA RouteApproves ==
  ASSUME NEW c \in Contents
  PROVE  /\ Route(c) \in {"needs_information", "awaiting_governance", "approved", "needs_exception"}
         /\ Route(c) = "approved" =>
              ~ c.funded /\ Complete(c) /\ policy # None /\ c.type \in policy.scope
<1>1. CASE ~Complete(c) \/ ~ValidSchedule(c)
  BY <1>1 DEF Route
<1>2. CASE Complete(c) /\ ValidSchedule(c) /\ c.funded
  BY <1>2 DEF Route
<1>3. CASE Complete(c) /\ ValidSchedule(c) /\ ~ c.funded
  BY <1>3 DEF Route
<1> QED
  BY <1>1, <1>2, <1>3

\* What a submission writes keeps the confirmation it needed.
LEMMA SubmittedSound ==
  ASSUME CoreInv, NEW id \in DOMAIN proposals, NEW a \in Accounts, Submittable(id, a), NEW q \in Records,
         q.versions = proposals[id].versions, q.lead = proposals[id].lead,
         q.confirmed = proposals[id].confirmed, q.confirmations = proposals[id].confirmations,
         q.state = "approved" =>
           /\ ~ Fields(proposals[id]).funded /\ Complete(Fields(proposals[id]))
           /\ q.approval # None /\ Fields(proposals[id]).type \in q.approval.scope
  PROVE  Sound(q)
<1>1. Sound(proposals[id]) /\ proposals[id].confirmed = Version(proposals[id])
  BY Typed DEF Submittable
<1>2. Fields(q) = Fields(proposals[id]) /\ Version(q) = Version(proposals[id])
  BY DEF Fields, Version
<1> QED
  BY <1>1, <1>2 DEF Sound, ConfirmedByLead, Formal, Approvable

\* A submission found to be a duplicate points to a proposal that is not one, so
\* it closes no circle.
LEMMA DuplicateKeeps ==
  ASSUME CoreInv, NEW id \in DOMAIN proposals, NEW a \in Accounts, NEW k \in Keys \cup {None},
         SubmitDuplicate(id, a, k)
  PROVE  CoreInv'
<1> DEFINE p == proposals[id]
<1>1. PICK d \in Duplicates(id) : Update(id, [p EXCEPT !.state = "duplicate", !.duplicateOf = d])
  BY DEF SubmitDuplicate
<1>2. RegistryTypes' /\ Submittable(id, a)
  BY DEF SubmitDuplicate, CoreInv, RegistryTypes
<1>3. d \in DOMAIN proposals /\ d # id /\ proposals[d].state # "duplicate" /\ d \in Nat
  BY DEF Duplicates, CoreInv
<1> DEFINE q == [p EXCEPT !.state = "duplicate", !.duplicateOf = d]
<1>4. /\ q \in Records /\ q.state = "duplicate" /\ q.duplicateOf = d
      /\ q.versions = p.versions /\ q.lead = p.lead
      /\ q.confirmed = p.confirmed /\ q.confirmations = p.confirmations
  BY <1>3, Typed DEF Records, States
<1>5. Sound(q)
  BY <1>2, <1>4, SubmittedSound
<1>6. /\ proposals' \in Seq(Records) /\ DOMAIN proposals' = DOMAIN proposals
      /\ proposals'[id] = q
      /\ \A i \in DOMAIN proposals : i # id => proposals'[i] = proposals[i]
      /\ \A i \in DOMAIN proposals' : Sound(proposals'[i])
  BY <1>1, <1>5, Written
<1>7. proposals'[id].state = "duplicate" /\ proposals'[id].duplicateOf = d
  BY <1>4, <1>6
<1> HIDE DEF p, q
<1>8. NoDuplicateInSelection'
  <2> SUFFICES ASSUME NEW i \in DOMAIN proposals', NEW j \in DOMAIN proposals', i # j,
                      proposals'[i].state \in Frozen, proposals'[j].state \in Frozen,
                      proposals'[i].lead = proposals'[j].lead,
                      Fields(proposals'[i]).title # Blank
               PROVE  \/ Fields(proposals'[i]).title # Fields(proposals'[j]).title
                      \/ Fields(proposals'[i]).start # Fields(proposals'[j]).start
    BY DEF NoDuplicateInSelection
  <2>1. /\ i # id /\ i \in DOMAIN proposals /\ proposals'[i] = proposals[i]
        /\ j # id /\ j \in DOMAIN proposals /\ proposals'[j] = proposals[j]
    BY <1>6, <1>7 DEF Frozen
  <2>2. NoDuplicateInSelection
    BY DEF CoreInv
  <2> QED
    BY <2>1, <2>2 DEF NoDuplicateInSelection
<1>9. DuplicateChainsEnd'
  <2> SUFFICES ASSUME NEW S \in (SUBSET {i \in DOMAIN proposals' : proposals'[i].state = "duplicate"}) \ {{}}
               PROVE  \E i \in S : proposals'[i].duplicateOf \notin S
    BY DEF DuplicateChainsEnd
  <2>1. CASE id \in S
    <3>1. d \notin S
      BY <1>3, <1>6
    <3> QED
      BY <1>7, <2>1, <3>1
  <2>2. CASE id \notin S
    <3>1. \A i \in S : i \in DOMAIN proposals /\ proposals'[i] = proposals[i]
      BY <1>6, <2>2
    <3>2. S \in (SUBSET {i \in DOMAIN proposals : proposals[i].state = "duplicate"}) \ {{}}
      BY <3>1
    <3>3. PICK i \in S : proposals[i].duplicateOf \notin S
      BY <3>2 DEF CoreInv, DuplicateChainsEnd
    <3> QED
      BY <3>1, <3>3
  <2> QED
    BY <2>1, <2>2
<1> QED
  BY <1>2, <1>6, <1>8, <1>9 DEF CoreInv

\* One that goes on has no like in selection.
LEMMA RoutedKeeps ==
  ASSUME CoreInv, NEW id \in DOMAIN proposals, NEW a \in Accounts, NEW k \in Keys \cup {None},
         SubmitRouted(id, a, k)
  PROVE  CoreInv'
<1> DEFINE p == proposals[id]
           route == Route(Fields(p))
           approval == IF route = "approved" THEN policy ELSE p.approval
           q == [p EXCEPT !.state = route, !.duplicateOf = 0, !.approval = approval]
<1>1. Update(id, q)
  BY DEF SubmitRouted
<1>2. RegistryTypes' /\ Submittable(id, a) /\ Duplicates(id) = {}
  BY DEF SubmitRouted, CoreInv, RegistryTypes
<1>3. p \in Records /\ p.versions \in Seq(Contents) /\ p.versions # <<>>
  BY Typed
<1>4. Fields(p) \in Contents
  BY <1>3 DEF Fields
<1>5. /\ route \in {"needs_information", "awaiting_governance", "approved", "needs_exception"}
      /\ route = "approved" =>
           ~ Fields(p).funded /\ Complete(Fields(p)) /\ policy # None /\ Fields(p).type \in policy.scope
  BY <1>4, RouteApproves
<1> HIDE DEF route
<1>6. approval \in Grounds \cup {None}
  BY <1>3 DEF CoreInv, RegistryTypes, Records
<1>7. route = "approved" =>
        /\ ~ Fields(p).funded /\ Complete(Fields(p))
        /\ approval # None /\ Fields(p).type \in approval.scope
  BY <1>5
<1> HIDE DEF approval
<1>8. Sound(q) /\ q.state = route /\ q.duplicateOf = 0 /\ q.versions = p.versions /\ q.lead = p.lead
  <2>1. /\ q \in Records /\ q.state = route /\ q.duplicateOf = 0 /\ q.approval = approval
        /\ q.versions = p.versions /\ q.lead = p.lead
        /\ q.confirmed = p.confirmed /\ q.confirmations = p.confirmations
    <3> HIDE DEF p
    <3> QED
      BY <1>3, <1>5, <1>6 DEF Records, States
  <2> HIDE DEF q
  <2> QED
    BY <1>2, <1>7, <2>1, SubmittedSound
<1> HIDE DEF q
<1>9. /\ proposals' \in Seq(Records) /\ DOMAIN proposals' = DOMAIN proposals
      /\ proposals'[id] = q
      /\ \A i \in DOMAIN proposals : i # id => proposals'[i] = proposals[i]
      /\ \A i \in DOMAIN proposals' : Sound(proposals'[i])
  BY <1>1, <1>8, Written
<1>10. Fields(proposals'[id]) = Fields(p) /\ proposals'[id].lead = p.lead
  BY <1>8, <1>9 DEF Fields
<1>11. ASSUME NEW j \in DOMAIN proposals, j # id, proposals[j].state \in Frozen,
              p.lead = proposals[j].lead, Fields(p).title # Blank,
              Fields(proposals[j]).title = Fields(p).title,
              Fields(proposals[j]).start = Fields(p).start
       PROVE  FALSE
  BY <1>2, <1>11 DEF Duplicates, Frozen
<1> HIDE DEF p
<1>12. NoDuplicateInSelection'
  <2> SUFFICES ASSUME NEW i \in DOMAIN proposals', NEW j \in DOMAIN proposals', i # j,
                      proposals'[i].state \in Frozen, proposals'[j].state \in Frozen,
                      proposals'[i].lead = proposals'[j].lead,
                      Fields(proposals'[i]).title # Blank,
                      Fields(proposals'[i]).title = Fields(proposals'[j]).title,
                      Fields(proposals'[i]).start = Fields(proposals'[j]).start
               PROVE  FALSE
    BY DEF NoDuplicateInSelection
  <2>1. CASE i = id
    <3>1. j \in DOMAIN proposals /\ j # id /\ proposals'[j] = proposals[j]
      BY <1>9, <2>1
    <3> QED
      BY <1>10, <1>11, <2>1, <3>1
  <2>2. CASE j = id
    <3>1. i \in DOMAIN proposals /\ i # id /\ proposals'[i] = proposals[i]
      BY <1>9, <2>2
    <3> QED
      BY <1>10, <1>11, <2>2, <3>1
  <2>3. CASE i # id /\ j # id
    <3>1. /\ i \in DOMAIN proposals /\ proposals'[i] = proposals[i]
          /\ j \in DOMAIN proposals /\ proposals'[j] = proposals[j]
      BY <1>9, <2>3
    <3>2. NoDuplicateInSelection
      BY DEF CoreInv
    <3> QED
      BY <3>1, <3>2 DEF NoDuplicateInSelection
  <2> QED
    BY <2>1, <2>2, <2>3
<1>13. DuplicateChainsEnd'
  <2> SUFFICES ASSUME NEW S \in (SUBSET {i \in DOMAIN proposals' : proposals'[i].state = "duplicate"}) \ {{}}
               PROVE  \E i \in S : proposals'[i].duplicateOf \notin S
    BY DEF DuplicateChainsEnd
  <2>1. id \notin S
    BY <1>5, <1>8, <1>9
  <2>2. \A i \in S : i \in DOMAIN proposals /\ proposals'[i] = proposals[i]
    BY <1>9, <2>1
  <2>3. S \in (SUBSET {i \in DOMAIN proposals : proposals[i].state = "duplicate"}) \ {{}}
    BY <2>2
  <2>4. PICK i \in S : proposals[i].duplicateOf \notin S
    BY <2>3 DEF CoreInv, DuplicateChainsEnd
  <2> QED
    BY <2>2, <2>4
<1> QED
  BY <1>2, <1>9, <1>12, <1>13 DEF CoreInv

LEMMA StateKeeps ==
  ASSUME CoreInv, NEW id \in DOMAIN proposals, NEW a \in Accounts,
         WithdrawProposal(id, a) \/ HoldProposal(id) \/ ResumeProposal(id)
  PROVE  CoreInv'
<1> DEFINE p == proposals[id]
<1>1. PICK state \in {"withdrawn", "on_hold", "confirmed", "needs_information"} :
        /\ Update(id, [p EXCEPT !.state = state])
        /\ state = "confirmed" => p.confirmed = Version(p)
  BY DEF WithdrawProposal, HoldProposal, ResumeProposal
<1> DEFINE q == [p EXCEPT !.state = state]
<1>2. RegistryTypes'
  BY DEF WithdrawProposal, HoldProposal, ResumeProposal, CoreInv, RegistryTypes
<1>3. Sound(p) /\ p \in Records
  BY Typed
<1> HIDE DEF p
<1>4. /\ q \in Records /\ q.state = state /\ q.versions = p.versions /\ q.lead = p.lead
      /\ q.confirmed = p.confirmed /\ q.confirmations = p.confirmations
  BY <1>3 DEF Records, States
<1> HIDE DEF q
<1>5. Sound(q) /\ q.state \notin Placed
  BY <1>1, <1>3, <1>4 DEF Sound, ConfirmedByLead, Formal, Approvable, Version, Frozen, Placed
<1> QED
  BY <1>1, <1>2, <1>5, WrittenFree DEF p, q

\* A copy starts as a draft; one that a key answers is the old one, marked.
LEMMA CopyKeeps ==
  ASSUME CoreInv, NEW id \in DOMAIN proposals, NEW a \in Accounts, NEW k \in Keys \cup {None},
         CopyProposal(id, a, k)
  PROVE  CoreInv'
<1>1. RegistryTypes'
  BY DEF CopyProposal, CoreInv, RegistryTypes
<1>2. CASE proposals' = Append(proposals, [Draft(a, Fields(proposals[id])) EXCEPT !.copied = TRUE])
  <2>1. Fields(proposals[id]) \in Contents
    BY Typed DEF Fields
  <2>2. Sound([Draft(a, Fields(proposals[id])) EXCEPT !.copied = TRUE])
    BY <2>1, DraftSound
  <2>3. [Draft(a, Fields(proposals[id])) EXCEPT !.copied = TRUE].state = "draft"
    BY DEF Draft
  <2> QED
    BY <1>1, <1>2, <2>2, <2>3, Added DEF Placed, Frozen
<1>3. ASSUME NEW old, proposals' = [proposals EXCEPT ![old].copied = TRUE]
      PROVE  CoreInv'
  <2>1. CASE old \in DOMAIN proposals
    <3> DEFINE p == proposals[old]
               q == [p EXCEPT !.copied = TRUE]
    <3>1. Update(old, q)
      BY <1>3, <2>1 DEF Update, CoreInv
    <3>2. Sound(p) /\ p \in Records
      BY <2>1, Typed
    <3> HIDE DEF p
    <3>3. /\ q \in Records /\ Same(p, q) /\ q.confirmed = p.confirmed /\ q.approval = p.approval
          /\ q.confirmations = p.confirmations
      BY <3>2 DEF Records, Same
    <3> HIDE DEF q
    <3>4. Sound(q)
      BY <3>2, <3>3 DEF Sound, ConfirmedByLead, Formal, Approvable, Version, Fields, Same
    <3> QED
      BY <1>1, <2>1, <3>1, <3>3, <3>4, WrittenFree DEF p, q
  <2>2. CASE old \notin DOMAIN proposals
    <3>1. proposals' = proposals
      BY <1>3, <2>2 DEF CoreInv
    <3> QED
      BY <1>1, <3>1, NonePlaced DEF CoreInv, Same
  <2> QED
    BY <2>1, <2>2
<1> QED
  BY <1>2, <1>3 DEF CopyProposal


\* The registry, the policy and the clock move around the proposals.
LEMMA RegistryKeeps ==
  ASSUME CoreInv, RegistryNext(Members, Accounts)
  PROVE  CoreInv'
<1>1. proposals' = proposals
  BY DEF RegistryNext, RegistryChange, RecordMember, RevokeMemberRole, LinkIdentity, RevokeIdentity,
         AuthorizeZeroBudgetPolicy, RevokeZeroBudgetPolicy, Tick
<1>2. RegistryTypes'
  <2> USE DEF CoreInv, RegistryTypes
  <2>1. CASE UNCHANGED <<identities, policy>>
    BY <2>1
  <2>2. ASSUME NEW a \in Accounts, NEW m \in Members, LinkIdentity(a, m)
        PROVE  RegistryTypes'
    BY <2>2 DEF LinkIdentity
  <2>3. ASSUME NEW a \in Accounts, RevokeIdentity(a)
        PROVE  RegistryTypes'
    BY <2>3 DEF RevokeIdentity
  <2>4. ASSUME NEW scope \in Policies, AuthorizeZeroBudgetPolicy(scope)
        PROVE  RegistryTypes'
    BY <2>4 DEF AuthorizeZeroBudgetPolicy, Grounds
  <2>5. CASE RevokeZeroBudgetPolicy
    BY <2>5 DEF RevokeZeroBudgetPolicy, Grounds
  <2> QED
    BY <2>1, <2>2, <2>3, <2>4, <2>5 DEF RegistryNext, RecordMember, RevokeMemberRole, Tick
<1> QED
  BY <1>1, <1>2, NonePlaced DEF CoreInv, Same

-----------------------------------------------------------------------------
(* Theorems                                                                *)

LEMMA InitCore == Init => CoreInv
<1> SUFFICES ASSUME Init PROVE CoreInv
  OBVIOUS
<1>1. RegistryTypes /\ proposals = <<>>
  BY DEF Init, RegistryTypes
<1>2. DuplicateChainsEnd
  BY <1>1 DEF DuplicateChainsEnd
<1> QED
  BY <1>1, <1>2 DEF CoreInv, NoDuplicateInSelection

LEMMA NextCore == CoreInv /\ [Next]_vars => CoreInv'
<1> SUFFICES ASSUME CoreInv, [Next]_vars PROVE CoreInv'
  OBVIOUS
<1>1. CASE RegistryNext(Members, Accounts)
  BY <1>1, RegistryKeeps
<1>2. CASE ProposalNext(Accounts, Contents, Keys)
  <2>1. ASSUME NEW id \in DOMAIN proposals, NEW a \in Accounts, NEW k \in Keys \cup {None}, SubmitRefused(id, a, k)
        PROVE  CoreInv'
    <3>1. UNCHANGED <<identities, policy, proposals>>
      BY <2>1 DEF SubmitRefused
    <3> QED
      BY <3>1, NonePlaced DEF CoreInv, RegistryTypes, Same
  <2>2. ASSUME NEW id \in DOMAIN proposals, HoldProposal(id) \/ ResumeProposal(id)
        PROVE  CoreInv'
    <3>1. proposals[id].owner \in Accounts
      BY Typed DEF Records
    <3> QED
      BY <2>2, <3>1, StateKeeps
  <2> QED
    BY <1>2, <2>1, <2>2, CreateKeeps, ReviseKeeps, DuplicateKeeps, RoutedKeeps, CopyKeeps, ConfirmKeeps,
       StateKeeps DEF ProposalNext
<1>3. CASE UNCHANGED vars
  <2>1. UNCHANGED <<identities, policy, proposals>>
    BY <1>3 DEF vars
  <2> QED
    BY <2>1, NonePlaced DEF CoreInv, RegistryTypes, Same
<1> QED
  BY <1>1, <1>2, <1>3 DEF Next

LEMMA CoreInvariance == Spec => []CoreInv
BY InitCore, NextCore, PTL DEF Spec

\* A formal version always has the last confirmation of its lead, and what is
\* approved asks for nothing, states it all and is of a type some policy allowed:
\* confirmLeadVersion, submitForAssessment and every operation around them.
THEOREM AlwaysConfirmed == Spec => []FormalVersionConfirmed
<1>1. CoreInv => FormalVersionConfirmed
  <2> SUFFICES ASSUME CoreInv, NEW id \in DOMAIN proposals
               PROVE  LET p == proposals[id] IN
                 /\ p.state \in Frozen \cup {"confirmed"} =>
                      /\ p.confirmed = Version(p)
                      /\ p.confirmations # <<>>
                      /\ p.confirmations[Len(p.confirmations)].version = Version(p)
                      /\ p.confirmations[Len(p.confirmations)].member = p.lead
                 /\ p.state = "approved" =>
                      /\ ~Fields(p).funded /\ Complete(Fields(p))
                      /\ p.approval # None /\ Fields(p).type \in p.approval.scope
    BY DEF FormalVersionConfirmed
  <2> QED
    BY Typed DEF Sound, ConfirmedByLead, Formal, Approvable
<1> QED
  BY <1>1, CoreInvariance, PTL

\* The same event of the same lead is in selection once: findDuplicateProposal
\* before every submission, whatever was revised, resumed or withdrawn between.
THEOREM AlwaysSingle == Spec => []NoDuplicateInSelection
BY CoreInvariance, PTL DEF CoreInv

\* Every chain of duplicates ends: a submission points to a proposal that is no
\* duplicate then, and what becomes one later points on.
THEOREM ChainsEnd == Spec => []DuplicateChainsEnd
BY CoreInvariance, PTL DEF CoreInv
=============================================================================
