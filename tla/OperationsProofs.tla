-------------------------- MODULE OperationsProofs --------------------------
(***************************************************************************)
(* Proofs about the governance write tools, for any number of calls, turns *)
(* and retries, any desks, and a backend that loses or delays any answer.  *)
(***************************************************************************)
EXTENDS Operations, TLAPS

Pcs == {"idle", "minting", "reading", "deciding", "sent", "failed", "over"}

\* A call has a turn once it has begun and until it is over.
CallsOK ==
  /\ desk \in Desks
  /\ calls = [c \in Calls |-> calls[c]]
  /\ proof = [t \in Turns |-> proof[t]]
  /\ \A c \in Calls :
       /\ calls[c].pc \in Pcs
       /\ calls[c].pc \notin {"idle", "over"} => Turn(c) \in Turns

\* A turn's context is in flight for one call at a time.
OneInFlight ==
  \A c, d \in Calls : Active(c) /\ Active(d) /\ Turn(c) = Turn(d) => c = d

\* From its minting to its answer, a call finds its own proof in its context.
ProofHeld ==
  \A c \in Calls : calls[c].pc \in {"reading", "deciding", "sent"} => proof[Turn(c)] = c

WireCalls == \A r \in wire : r.call \in Calls

OwnInv == CallsOK /\ OneInFlight /\ ProofHeld /\ WireCalls /\ ProofOwn

-----------------------------------------------------------------------------

\* The calls are numbered from one, so none of them is the absent proof.
LEMMA CallsPositive == \A c \in Calls : c \in Int /\ c # 0
BY ConstantsAssumption DEF Calls

LEMMA InitOwn == Init => OwnInv
<1> SUFFICES ASSUME Init PROVE OwnInv
  OBVIOUS
<1>1. \A c \in Calls : calls[c] = Nobody
  BY DEF Init
<1>2. CallsOK
  BY <1>1 DEF Init, CallsOK, Nobody, NoCall, Pcs
<1>3. OneInFlight /\ ProofHeld
  BY <1>1 DEF OneInFlight, ProofHeld, Active, Nobody, NoCall
<1>4. WireCalls /\ ProofOwn
  BY DEF Init, WireCalls, ProofOwn
<1> QED
  BY <1>2, <1>3, <1>4 DEF OwnInv

Becomes(c, to) == calls' = [calls EXCEPT ![c] = to]

\* A call that moves on within its turn, its proof where it was, disturbs none
\* of this.
LEMMA MoveOn ==
  ASSUME OwnInv, NEW c \in Calls, NEW to, to.pc \in {"deciding", "sent"}, to.turn = Turn(c),
         calls[c].pc \in {"reading", "deciding"},
         Becomes(c, to),
         UNCHANGED desk, UNCHANGED proof
  PROVE  CallsOK' /\ OneInFlight' /\ ProofHeld'
<1>1. calls'[c] = to
  BY DEF Becomes, OwnInv, CallsOK
<1>2. \A d \in Calls : d # c => calls'[d] = calls[d]
  BY DEF Becomes, OwnInv, CallsOK
<1>3. calls' = [d \in Calls |-> calls'[d]]
  BY DEF Becomes, OwnInv, CallsOK
<1>4. CallsOK'
  BY <1>1, <1>2, <1>3 DEF OwnInv, CallsOK, Pcs, Turn
<1>5. OneInFlight'
  BY <1>1, <1>2 DEF OwnInv, OneInFlight, Active, Turn
<1>6. ProofHeld'
  BY <1>1, <1>2 DEF OwnInv, ProofHeld, Turn
<1> QED
  BY <1>4, <1>5, <1>6

\* So does a call that begins in a free turn,
LEMMA EnterOwn ==
  ASSUME OwnInv, NEW c \in Calls, NEW t \in Turns, NEW job, Enter(c, t, job), ~ Active(c)
  PROVE  OwnInv'
<1>1. calls'[c] = [pc |-> "minting", tries |-> calls[c].tries + 1, turn |-> t, job |-> job, seen |-> None]
  BY DEF Enter, OwnInv, CallsOK
<1>2. \A d \in Calls : d # c => calls'[d] = calls[d]
  BY DEF Enter, OwnInv, CallsOK
<1>3. calls' = [d \in Calls |-> calls'[d]]
  BY DEF Enter, OwnInv, CallsOK
<1>4. CallsOK'
  BY <1>1, <1>2, <1>3 DEF Enter, OwnInv, CallsOK, Pcs, Turn
<1>5. OneInFlight'
  <2>1. \A d \in Calls : Active(d) => Turn(d) # t
    BY DEF Enter, Free
  <2> QED
    BY <1>1, <1>2, <2>1 DEF OwnInv, OneInFlight, Active, Turn
<1>6. ProofHeld'
  BY <1>1, <1>2 DEF Enter, OwnInv, ProofHeld, Turn
<1>7. WireCalls' /\ ProofOwn'
  BY DEF Enter, OwnInv, WireCalls, ProofOwn
<1> QED
  BY <1>4, <1>5, <1>6, <1>7 DEF OwnInv

\* and one that leaves: the proof it removes is nobody else's.
LEMMA LeaveOwn ==
  ASSUME OwnInv, NEW c \in Calls, NEW left, Active(c), Leave(c, left), UNCHANGED desk,
         \/ left = Over
         \/ left = Moved(c, "failed", None)
  PROVE  CallsOK' /\ OneInFlight' /\ ProofHeld'
<1>1. calls'[c] = left /\ \A d \in Calls : d # c => calls'[d] = calls[d]
  BY DEF Leave, OwnInv, CallsOK
<1>2. calls' = [d \in Calls |-> calls'[d]] /\ proof' = [t \in Turns |-> proof'[t]]
  BY DEF Leave, OwnInv, CallsOK
<1>3. Turn(c) \in Turns
  BY DEF OwnInv, CallsOK, Active
<1>4. \/ left = [pc |-> "over", tries |-> 0, turn |-> None, job |-> None, seen |-> None]
      \/ left = [pc |-> "failed", tries |-> calls[c].tries, turn |-> calls[c].turn,
                 job |-> calls[c].job, seen |-> None]
  BY DEF Over, NoCall, Moved, Turn, Job
<1>5. CallsOK'
  BY <1>1, <1>2, <1>3, <1>4 DEF OwnInv, CallsOK, Pcs, Turn
<1>6. OneInFlight'
  BY <1>1, <1>4 DEF OwnInv, OneInFlight, Active, Turn
<1>7. ProofHeld'
  <2> SUFFICES ASSUME NEW d \in Calls, calls'[d].pc \in {"reading", "deciding", "sent"}
               PROVE  proof'[calls'[d].turn] = d
    BY DEF ProofHeld, Turn
  <2>1. d # c /\ calls'[d] = calls[d]
    BY <1>1, <1>4
  <2>2. Turn(d) \in Turns /\ Turn(d) # Turn(c) /\ proof[Turn(d)] = d
    BY <2>1 DEF OwnInv, CallsOK, OneInFlight, ProofHeld, Active
  <2> QED
    BY <2>1, <2>2, <1>3 DEF Leave, OwnInv, CallsOK, Turn
<1> QED
  BY <1>5, <1>6, <1>7

LEMMA MintOwn ==
  ASSUME OwnInv, NEW c \in Calls, Mint(c)
  PROVE  OwnInv'
<1>1. calls'[c] = [pc |-> "reading", tries |-> calls[c].tries, turn |-> calls[c].turn,
                   job |-> calls[c].job, seen |-> None]
  BY DEF Mint, OwnInv, CallsOK, Moved, Turn, Job
<1>2. \A d \in Calls : d # c => calls'[d] = calls[d]
  BY DEF Mint, OwnInv, CallsOK
<1>3. calls' = [d \in Calls |-> calls'[d]] /\ proof' = [t \in Turns |-> proof'[t]]
  BY DEF Mint, OwnInv, CallsOK
<1>4. Turn(c) \in Turns /\ Active(c)
  BY DEF Mint, OwnInv, CallsOK, Active
<1>5. CallsOK'
  BY <1>1, <1>2, <1>3, <1>4 DEF Mint, OwnInv, CallsOK, Pcs, Turn
<1>6. OneInFlight'
  BY <1>1, <1>2, <1>4 DEF OwnInv, OneInFlight, Active, Turn
<1>7. ProofHeld'
  <2> SUFFICES ASSUME NEW d \in Calls, calls'[d].pc \in {"reading", "deciding", "sent"}
               PROVE  proof'[calls'[d].turn] = d
    BY DEF ProofHeld, Turn
  <2>1. CASE d = c
    BY <2>1, <1>1, <1>4 DEF Mint, OwnInv, CallsOK, Turn
  <2>2. CASE d # c
    <3>1. calls'[d] = calls[d] /\ Turn(d) # Turn(c) /\ Turn(d) \in Turns /\ proof[Turn(d)] = d
      BY <2>2, <1>2, <1>4 DEF OwnInv, CallsOK, OneInFlight, ProofHeld, Active
    <3> QED
      BY <3>1, <1>4 DEF Mint, OwnInv, CallsOK, Turn
  <2> QED
    BY <2>1, <2>2
<1>8. WireCalls' /\ ProofOwn'
  BY DEF Mint, OwnInv, WireCalls, ProofOwn
<1> QED
  BY <1>5, <1>6, <1>7, <1>8 DEF OwnInv

\* A request is sent with the sender's own proof.
LEMMA SendOwn ==
  ASSUME OwnInv, NEW c \in Calls, NEW op, NEW id, NEW on, NEW body,
         calls[c].pc = "deciding", Current(c), Send(c, op, id, on, body)
  PROVE  OwnInv'
<1>1. proof[Turn(c)] = c
  BY DEF OwnInv, ProofHeld
<1>2. CallsOK' /\ OneInFlight' /\ ProofHeld'
  <2>1. PICK to : Becomes(c, to) /\ to = Moved(c, "sent", None)
    BY DEF Send, Becomes
  <2>2. to.pc = "sent" /\ to.turn = Turn(c) /\ UNCHANGED desk /\ UNCHANGED proof
    BY <2>1 DEF Moved, Send
  <2> QED
    BY <2>1, <2>2, MoveOn
<1>3. WireCalls' /\ ProofOwn'
  <2> DEFINE r0 == [call |-> c, try |-> calls[c].tries, turn |-> Turn(c), by |-> proof[Turn(c)],
                    current |-> Current(c), op |-> op, id |-> id, on |-> on, body |-> body]
  <2>1. wire' = wire \cup {r0}
    BY DEF Send
  <2>2. r0.by = proof[Turn(c)] /\ r0.call = c
    OBVIOUS
  <2>3. r0.current = Current(c)
    BY Zenon
  <2> HIDE DEF r0
  <2>4. r0.current
    BY <2>3
  <2> QED
    BY <2>1, <2>2, <2>4, <1>1, Zenon DEF OwnInv, WireCalls, ProofOwn
<1> QED
  BY <1>2, <1>3 DEF OwnInv

\* The steps of one call.
LEMMA CallOwn ==
  ASSUME OwnInv, NEW c \in Calls, Call(c)
  PROVE  OwnInv'
<1>1. ASSUME c <= desk.calls, NEW t \in desk.turns, NEW tool \in desk.tools, NEW job \in JobsOf(tool),
             Begin(c, t, job)
      PROVE  OwnInv'
  <2>1. t \in Turns
    BY <1>1, ConstantsAssumption DEF OwnInv, CallsOK
  <2>2. ~ Active(c)
    BY <1>1 DEF Begin, Nobody, NoCall, Active
  <2> QED
    BY <1>1, <2>1, <2>2, EnterOwn DEF Begin
<1>2. CASE Retry(c)
  <2>1. Turn(c) \in Turns /\ ~ Active(c)
    BY <1>2 DEF Retry, OwnInv, CallsOK, Active
  <2> QED
    BY <1>2, <2>1, EnterOwn DEF Retry
<1>3. CASE Mint(c)
  BY <1>3, MintOwn
<1>4. CASE Read(c)
  <2>1. PICK to : Becomes(c, to) /\ \E answer : to = Moved(c, "deciding", answer)
    BY <1>4 DEF Read, Becomes
  <2>2. calls[c].pc = "reading" /\ UNCHANGED desk /\ UNCHANGED proof /\ UNCHANGED wire
    BY <1>4 DEF Read
  <2>3. to.pc = "deciding" /\ to.turn = Turn(c)
    BY <2>1 DEF Moved
  <2>4. CallsOK' /\ OneInFlight' /\ ProofHeld'
    BY <2>1, <2>2, <2>3, MoveOn
  <2> QED
    BY <2>2, <2>4 DEF OwnInv, WireCalls, ProofOwn
<1>5. CASE Fail(c)
  <2>1. PICK left : Leave(c, left) /\ left \in {Over, Moved(c, "failed", None)}
    BY <1>5 DEF Fail
  <2>2. Active(c) /\ UNCHANGED <<desk, wire>>
    BY <1>5 DEF Fail
  <2>3. CallsOK' /\ OneInFlight' /\ ProofHeld'
    BY <2>1, <2>2, LeaveOwn
  <2> QED
    BY <2>2, <2>3 DEF OwnInv, WireCalls, ProofOwn
<1>6. ASSUME calls[c].pc = "deciding", Finish(c)
      PROVE  OwnInv'
  <2>1. Active(c) /\ Leave(c, Over) /\ UNCHANGED <<desk, wire>>
    BY <1>6 DEF Finish, Active
  <2>2. CallsOK' /\ OneInFlight' /\ ProofHeld'
    BY <2>1, LeaveOwn
  <2> QED
    BY <2>1, <2>2 DEF OwnInv, WireCalls, ProofOwn
<1>7. CASE Collect(c) \/ Prepare(c) \/ Provisional(c)
  BY <1>6, <1>7 DEF Collect, Prepare, Provisional, TellNothing, Deciding
<1>8. CASE Confirm(c) \/ OpenPoll(c) \/ Vote(c) \/ Result(c) \/ Suggest(c) \/ Approve(c) \/ Apply(c)
  <2>1. CASE Confirm(c)
    BY <2>1, SendOwn DEF Confirm, SubmitProposal, Deciding
  <2>2. CASE OpenPoll(c)
    BY <2>2, SendOwn DEF OpenPoll, CreatePoll, Deciding
  <2>3. CASE Vote(c)
    BY <2>3, SendOwn DEF Vote, CastBallot, Deciding
  <2>4. CASE Result(c)
    BY <2>4, SendOwn DEF Result, FinalizePoll, Deciding
  <2>5. CASE Suggest(c)
    BY <2>5, SendOwn DEF Suggest, RecordRevision, Deciding
  <2>6. CASE Approve(c)
    BY <2>6, SendOwn DEF Approve, ApproveRevision, Deciding
  <2>7. CASE Apply(c)
    BY <2>7, SendOwn DEF Apply, ApplyRevision, Deciding
  <2> QED
    BY <1>8, <2>1, <2>2, <2>3, <2>4, <2>5, <2>6, <2>7
<1> QED
  BY <1>1, <1>2, <1>3, <1>4, <1>5, <1>7, <1>8 DEF Call

\* An answer, heard or not, takes its request off the wire and its call out.
LEMMA ServeOwn ==
  ASSUME OwnInv, NEW r \in wire, Serve(r)
  PROVE  OwnInv'
<1>1. PICK ok, value : Reply(r, ok, value)
  BY DEF Serve, ServeSubmit, ServeOpen, ServeVote, ServeResult, ServeSuggest, ServeApprove, ServeApply
<1>2. UNCHANGED desk /\ wire' \subseteq wire
  BY <1>1 DEF Reply
<1>3. CallsOK' /\ OneInFlight' /\ ProofHeld'
  <2>1. CASE UNCHANGED <<calls, proof, told>>
    BY <1>2, <2>1 DEF OwnInv, CallsOK, OneInFlight, ProofHeld, Active, Turn
  <2>2. CASE calls[r.call].pc = "sent" /\ Leave(r.call, Over)
    BY <1>2, <2>2, LeaveOwn DEF Active, OwnInv, WireCalls
  <2> QED
    BY <1>1, <2>1, <2>2 DEF Reply
<1> QED
  BY <1>2, <1>3 DEF OwnInv, WireCalls, ProofOwn

LEMMA NextOwn == OwnInv /\ [Next]_vars => OwnInv'
<1> SUFFICES ASSUME OwnInv, [Next]_vars PROVE OwnInv'
  OBVIOUS
<1>1. CASE \E c \in Calls : Call(c)
  BY <1>1, CallOwn
<1>2. CASE \E r \in wire : Serve(r)
  BY <1>2, ServeOwn
<1>3. CASE (\E t \in Turns : EndTurn(t)) \/ Tick \/ UNCHANGED vars
  <2>1. UNCHANGED desk /\ UNCHANGED calls /\ UNCHANGED proof /\ UNCHANGED wire
    BY <1>3 DEF EndTurn, Tick, vars
  <2> QED
    BY <2>1 DEF OwnInv, CallsOK, OneInFlight, ProofHeld, WireCalls, ProofOwn, Active, Turn
<1> QED
  BY <1>1, <1>2, <1>3 DEF Next

\* Every write request carries the proof minted for its own call and is sent in
\* a current turn: wrapExecute (backend-runtime.ts) and the final authority
\* checks of the tools, for any number of overlapping turns, calls and retries.
THEOREM ProofAlwaysOwn == Spec => []ProofOwn
<1>1. OwnInv => ProofOwn
  BY DEF OwnInv
<1> QED
  BY InitOwn, NextOwn, <1>1, PTL DEF Spec

-----------------------------------------------------------------------------

\* The contact pronounced the text, by a confirmation that was in order.
Said(contact, text) ==
  \E said \in pronounced : Pronounces(said, contact, text)

SubmitSaid ==
  \A r \in wire : r.op = "submit" => Said(Actor(r), r.body) /\ r.id = <<Actor(r), r.body>>

\* A stored proposal is found under its proposer and its text.
StoredSaid ==
  \A p \in DOMAIN stored :
    /\ p = <<stored[p].contact, stored[p].text>>
    /\ p \notin DOMAIN desk.stored => Said(stored[p].contact, stored[p].text)

SaidInv == desk \in Desks /\ SubmitSaid /\ StoredSaid

LEMMA InitSaid == Init => SaidInv
BY ConstantsAssumption DEF Init, SaidInv, SubmitSaid, StoredSaid

\* What was said stays said.
LEMMA SaidStays ==
  ASSUME pronounced \subseteq pronounced', NEW contact, NEW text, Said(contact, text)
  PROVE  Said(contact, text)'
BY DEF Said

\* A step that sends no submit and stores nothing disturbs none of it.
LEMMA NoSubmit ==
  ASSUME SaidInv, UNCHANGED desk, UNCHANGED stored, pronounced \subseteq pronounced',
         \A r \in wire' : r \in wire \/ r.op # "submit"
  PROVE  SaidInv'
BY SaidStays DEF SaidInv, SubmitSaid, StoredSaid, Actor, Said

\* The request of another tool,
LEMMA OtherSend ==
  ASSUME SaidInv, NEW c \in Calls, NEW op, op # "submit", NEW id, NEW on, NEW body,
         Send(c, op, id, on, body), UNCHANGED pronounced
  PROVE  SaidInv'
<1>1. UNCHANGED desk /\ UNCHANGED stored /\ pronounced \subseteq pronounced'
  BY DEF Send, database
<1>2. \A r \in wire' : r \in wire \/ r.op # "submit"
  BY DEF Send
<1> QED
  BY <1>1, <1>2, NoSubmit

\* and that of a confirmation: it pronounces the text it sends.
LEMMA ConfirmSaid ==
  ASSUME SaidInv, NEW c \in Calls, Confirm(c)
  PROVE  SaidInv'
<1>1. PICK presented, token, said :
        /\ presented.spelling = "issued" => token.turn # Turn(c)
        /\ token.expires > now /\ token.contact = SenderOf[Turn(c)]
        /\ said = [turn |-> Turn(c), token |-> token, spelling |-> presented.spelling, at |-> now]
        /\ pronounced' = pronounced \cup {said}
        /\ Send(c, "submit", <<token.contact, token.text>>, None, token.text)
  BY DEF Confirm, SubmitProposal, NextTurn, ReadEnvelope, Verified, OpensConfirmation, Submitted, Contact,
         ProposalId
<1>2. said.token = token /\ said.turn = Turn(c) /\ said.at = now /\ said.spelling = presented.spelling
  BY <1>1
<1>3. said.at < token.expires /\ (said.spelling = "issued" => said.turn # token.turn) /\ SenderOf[said.turn] = token.contact
  BY <1>1, <1>2
<1>4. Said(token.contact, token.text)'
  <2>1. said \in pronounced' /\ said.token.contact = token.contact /\ said.token.text = token.text
    BY <1>1, <1>2
  <2> QED
    BY <1>2, <1>3, <2>1 DEF Said, Pronounces
<1>5. UNCHANGED desk /\ UNCHANGED stored /\ pronounced \subseteq pronounced'
  BY <1>1 DEF Send, database
<1>6. \A r \in wire' : r \in wire \/ (SenderOf[r.turn] = token.contact /\ r.body = token.text
                                     /\ r.id = <<token.contact, token.text>>)
  BY <1>1 DEF Send
<1>7. SubmitSaid'
  <2> SUFFICES ASSUME NEW r \in wire', r.op = "submit"
               PROVE  Said(Actor(r), r.body)' /\ r.id = <<Actor(r), r.body>>
    BY DEF SubmitSaid, Actor
  <2>1. CASE r \in wire
    BY <2>1, <1>5 DEF SaidInv, SubmitSaid, Said, Actor
  <2>2. CASE r \notin wire
    BY <2>2, <1>4, <1>6 DEF Actor
  <2> QED
    BY <2>1, <2>2
<1>8. StoredSaid'
  BY <1>5 DEF SaidInv, StoredSaid, Said
<1> QED
  BY <1>5, <1>7, <1>8 DEF SaidInv

LEMMA CallSaid ==
  ASSUME SaidInv, NEW c \in Calls, Call(c)
  PROVE  SaidInv'
<1>1. CASE Confirm(c)
  BY <1>1, ConfirmSaid
<1>2. CASE OpenPoll(c) \/ Vote(c) \/ Result(c) \/ Suggest(c) \/ Approve(c) \/ Apply(c)
  <2>1. PICK op, id, on, body : /\ op \in {"open", "vote", "result", "suggest", "approve", "apply"}
                                 /\ Send(c, op, id, on, body)
                                 /\ UNCHANGED pronounced
    BY <1>2 DEF OpenPoll, Vote, Result, Suggest, Approve, Apply, history, CreatePoll, CastBallot,
                  FinalizePoll, RecordRevision, ApproveRevision, ApplyRevision
  <2> QED
    BY <2>1, OtherSend
<1>3. ASSUME UNCHANGED <<desk, stored, wire, pronounced>>
      PROVE  SaidInv'
  BY <1>3, NoSubmit
<1>4. ASSUME NEW t, NEW job, Begin(c, t, job)
      PROVE  SaidInv'
  BY <1>3, <1>4 DEF Begin, Enter, database, history
<1>5. CASE Retry(c) \/ Mint(c) \/ Read(c) \/ Fail(c)
  BY <1>3, <1>5 DEF Retry, Enter, Mint, Read, Fail, database, history
<1>6. CASE Collect(c) \/ Prepare(c) \/ Provisional(c)
  BY <1>3, <1>6 DEF Collect, Prepare, Provisional, TellNothing, Finish, database, history
<1> QED
  BY <1>1, <1>2, <1>4, <1>5, <1>6 DEF Call

\* The backend stores a submitted text under the actor of its request.
LEMMA ServeSaid ==
  ASSUME SaidInv, NEW r \in wire, Serve(r)
  PROVE  SaidInv'
<1>1. PICK ok, value : Reply(r, ok, value)
  BY DEF Serve, ServeSubmit, ServeOpen, ServeVote, ServeResult, ServeSuggest, ServeApprove, ServeApply
<1>2. UNCHANGED desk /\ UNCHANGED pronounced /\ wire' \subseteq wire
  BY <1>1 DEF Reply
<1>3. SubmitSaid'
  BY <1>2 DEF SaidInv, SubmitSaid, Actor, Said
<1>4. CASE ServeSubmit(r) /\ r.id \notin DOMAIN stored
  <2> DEFINE record == [contact |-> Actor(r), text |-> r.body, status |-> "submitted"]
  <2>1. stored' = Put(stored, r.id, record) /\ r.op = "submit"
    BY <1>4 DEF ServeSubmit
  <2>2. record.contact = Actor(r) /\ record.text = r.body
    OBVIOUS
  <2> HIDE DEF record
  <2>3. DOMAIN stored' = DOMAIN stored \cup {r.id} /\ stored'[r.id] = record
        /\ \A p \in DOMAIN stored : stored'[p] = stored[p]
    BY <1>4, <2>1 DEF Put
  <2>4. Said(Actor(r), r.body) /\ r.id = <<Actor(r), r.body>>
    BY <2>1 DEF SaidInv, SubmitSaid
  <2>5. StoredSaid'
    BY <1>2, <2>2, <2>3, <2>4 DEF SaidInv, StoredSaid, Said
  <2> QED
    BY <1>2, <1>3, <2>5 DEF SaidInv
<1>5. CASE ServeResult(r)
  <2>1. DOMAIN stored' = DOMAIN stored
        /\ \A p \in DOMAIN stored : stored'[p].contact = stored[p].contact /\ stored'[p].text = stored[p].text
    BY <1>5 DEF ServeResult
  <2>2. StoredSaid'
    BY <1>2, <2>1 DEF SaidInv, StoredSaid, Said
  <2> QED
    BY <1>2, <1>3, <2>2 DEF SaidInv
<1>6. CASE UNCHANGED stored
  BY <1>2, <1>3, <1>6 DEF SaidInv, StoredSaid, Said
<1> QED
  BY <1>4, <1>5, <1>6 DEF Serve, ServeSubmit, ServeOpen, ServeVote, ServeSuggest, ServeApprove, ServeApply

LEMMA NextSaid == SaidInv /\ [Next]_vars => SaidInv'
<1> SUFFICES ASSUME SaidInv, [Next]_vars PROVE SaidInv'
  OBVIOUS
<1>1. CASE \E c \in Calls : Call(c)
  BY <1>1, CallSaid
<1>2. CASE \E r \in wire : Serve(r)
  BY <1>2, ServeSaid
<1>3. CASE (\E t \in Turns : EndTurn(t)) \/ Tick \/ UNCHANGED vars
  <2>1. UNCHANGED desk /\ UNCHANGED stored /\ UNCHANGED wire /\ UNCHANGED pronounced
    BY <1>3 DEF EndTurn, Tick, vars, database, history
  <2> QED
    BY <2>1, NoSubmit
<1> QED
  BY <1>1, <1>2, <1>3 DEF Next

\* A proposal is stored only as its author confirmed it, on a token that had
\* not expired and, if it came back as it was issued, that another turn had
\* prepared, and only once: the two phases of rein_governance_proposal_submit,
\* whatever answers are lost.
THEOREM AlwaysConfirmedText == Spec => []ConfirmedText
<1>1. SaidInv => ConfirmedText
  BY DEF SaidInv, StoredSaid, Said, ConfirmedText
<1> QED
  BY InitSaid, NextSaid, <1>1, PTL DEF Spec

-----------------------------------------------------------------------------
(* What the database holds, what of it a call has read, and what is asked.   *)

IsPoll(x) ==
  /\ x = [candidates |-> x.candidates, closes |-> x.closes, status |-> x.status, winner |-> x.winner]
  /\ x.closes \in Nat /\ x.status \in {"open", "closed"}

IsRevision(x) ==
  /\ x = [of |-> x.of, author |-> x.author, values |-> x.values, approver |-> x.approver, version |-> x.version]
  /\ x.approver \in Directors \cup {None} /\ x.version \in Nat

Selected(p) == p \in DOMAIN stored /\ stored[p].status = "selected"

PollRecords == now \in Nat /\ \A p \in DOMAIN polls : IsPoll(polls[p])

RevisionRecords ==
  \A v \in DOMAIN revisions : IsRevision(revisions[v]) /\ Selected(revisions[v].of)

\* A round is closed once its time is up, and names the winner of its ballots.
Recounted ==
  \A p \in DOMAIN polls : polls[p].status = "closed" => polls[p].winner = Winner(p) /\ now >= polls[p].closes

\* What a revision must be to take effect.
Effective(x) ==
  /\ ChangedFields(x) # {}
  /\ MaterialFields(ChangedFields(x)) # {} => x.approver \in Directors

EffectiveOnly == \A v \in DOMAIN revisions : revisions[v].version > 0 => Effective(revisions[v])

VersionsOnce ==
  \A v, w \in DOMAIN revisions :
    /\ revisions[v].of = revisions[w].of /\ revisions[v].version = revisions[w].version
    /\ revisions[v].version > 0
    => v = w

\* The versions of a proposal have a highest one.
TopVersion == \A p : \E k \in Versions(p) : \A n \in Versions(p) : n <= k

\* What a request on the wire relies on,
RequestOK(r) ==
  /\ r.op = "open" => r.on \in Nat
  /\ r.op = "result" => r.id \in DOMAIN polls
  /\ r.op = "suggest" => Selected(r.on)
  /\ r.op = "approve" => r.id \in DOMAIN revisions /\ Actor(r) \in Directors
  /\ r.op = "apply" => r.id \in DOMAIN revisions /\ Effective(revisions[r.id])

Requests == \A r \in wire : RequestOK(r)

\* what a job relies on, for as long as it is a call's job,
JobOK(job) ==
  /\ job.tool = "open" => job.given \in Nat
  /\ job.tool = "result" => job.on \in DOMAIN polls
  /\ job.tool = "suggest" => job.on \in DOMAIN stored
  /\ job.tool \in {"approve", "apply"} => job.on \in DOMAIN revisions

Jobs == \A c \in Calls : calls[c].pc \notin {"idle", "over"} => JobOK(calls[c].job)

\* and what is still true of that which a call has read.
SightOK(call) ==
  /\ call.job.tool \in {"suggest", "approve", "apply"} => SenderOf[call.turn] \in Directors
  /\ call.job.tool = "suggest" => (call.seen.status = "selected" => Selected(call.job.on))
  /\ call.job.tool = "apply" =>
       /\ call.seen.values = revisions[call.job.on].values
       /\ call.seen.approver # None => revisions[call.job.on].approver \in Directors

Sights == \A c \in Calls : calls[c].pc = "deciding" => SightOK(calls[c])

Tools == {"submit", "open", "vote", "result", "suggest", "approve", "apply"}

\* The record an answer names is there.
Held(answer) ==
  /\ answer.tool \in Tools
  /\ answer.tool = "submit" => answer.id \in DOMAIN stored /\ stored[answer.id].contact = answer.actor
  /\ answer.tool = "open" => answer.id \in DOMAIN polls /\ polls[answer.id].candidates = answer.value
  /\ answer.tool = "vote" => [poll |-> answer.id, voter |-> answer.actor, approved |-> answer.value] \in ballots
  /\ answer.tool = "result" =>
       /\ answer.id \in DOMAIN polls
       /\ polls[answer.id].status = "closed" /\ polls[answer.id].winner = answer.value
  /\ answer.tool = "suggest" =>
       /\ answer.id \in DOMAIN revisions
       /\ revisions[answer.id].author = answer.actor /\ revisions[answer.id].values = answer.value
  /\ answer.tool = "approve" =>
       /\ answer.id \in DOMAIN revisions /\ answer.actor \in Directors
       /\ revisions[answer.id].approver = answer.actor
  /\ answer.tool = "apply" => answer.id \in DOMAIN revisions /\ revisions[answer.id].version > 0

Answered == \A answer \in told : Held(answer)

\* The database as such, and what the calls hold of it.
PollsInv == PollRecords /\ Recounted
RevisionsInv == RevisionRecords /\ EffectiveOnly /\ VersionsOnce /\ TopVersion
ClaimsInv == Requests /\ Jobs /\ Sights
BooksInv == PollsInv /\ RevisionsInv /\ ClaimsInv /\ Answered

-----------------------------------------------------------------------------
(* The database only grows: what is decided in it stays.                     *)

Grows ==
  /\ \A p \in DOMAIN stored :
       /\ p \in DOMAIN stored' /\ stored'[p].contact = stored[p].contact
       /\ stored[p].status = "selected" => stored'[p].status = "selected"
  /\ \A p \in DOMAIN polls :
       /\ p \in DOMAIN polls' /\ polls'[p].candidates = polls[p].candidates
       /\ polls[p].status = "closed" => polls'[p].status = "closed" /\ polls'[p].winner = polls[p].winner
  /\ ballots \subseteq ballots'
  /\ \A v \in DOMAIN revisions :
       /\ v \in DOMAIN revisions' /\ revisions'[v].of = revisions[v].of
       /\ revisions'[v].author = revisions[v].author /\ revisions'[v].values = revisions[v].values
       /\ revisions[v].approver \in Directors => revisions'[v].approver = revisions[v].approver
       /\ revisions[v].version > 0 => revisions'[v].version > 0

LEMMA HeldStays ==
  ASSUME Grows, NEW answer, Held(answer)
  PROVE  Held(answer)'
BY DEF Grows, Held

LEMMA SelectedStays ==
  ASSUME Grows, NEW p, Selected(p)
  PROVE  Selected(p)'
BY DEF Grows, Selected

LEMMA RequestStays ==
  ASSUME Grows, NEW r, RequestOK(r)
  PROVE  RequestOK(r)'
<1>1. r.op = "suggest" => Selected(r.on)'
  BY SelectedStays DEF RequestOK
<1>2. r.op \in {"approve", "apply"} => r.id \in DOMAIN revisions'
  BY DEF RequestOK, Grows
<1>3. r.op = "apply" => Effective(revisions'[r.id])
  BY DEF RequestOK, Grows, Effective, ChangedFields
<1>4. r.op = "result" => r.id \in DOMAIN polls'
  BY DEF RequestOK, Grows
<1> QED
  BY <1>1, <1>2, <1>3, <1>4 DEF RequestOK, Effective, Actor

LEMMA JobStays ==
  ASSUME Grows, NEW job, JobOK(job)
  PROVE  JobOK(job)'
BY DEF Grows, JobOK

LEMMA SightStays ==
  ASSUME Grows, NEW call, JobOK(call.job), SightOK(call)
  PROVE  SightOK(call)'
<1>1. call.job.tool = "suggest" => (call.seen.status = "selected" => Selected(call.job.on)')
  BY SelectedStays DEF SightOK
<1>2. call.job.tool = "apply" =>
        /\ call.seen.values = revisions'[call.job.on].values
        /\ call.seen.approver # None => revisions'[call.job.on].approver \in Directors
  BY DEF SightOK, JobOK, Grows
<1> QED
  BY <1>1, <1>2 DEF SightOK

-----------------------------------------------------------------------------

LEMMA InitBooks == Init => BooksInv
<1> SUFFICES ASSUME Init PROVE BooksInv
  OBVIOUS
<1>1. DOMAIN revisions = {} /\ wire = {} /\ told = {} /\ now = 0
  BY DEF Init
<1>2. \A c \in Calls : calls[c].pc = "idle"
  BY DEF Init, Nobody, NoCall
<1>3. \A p \in DOMAIN polls :
        polls[p] \in [candidates : SUBSET DOMAIN desk.stored, closes : Nat, status : {"open"}, winner : {{}}]
  BY ConstantsAssumption DEF Init
<1>4. PollsInv
  <2>1. PollRecords
    BY <1>1, <1>3 DEF PollRecords, IsPoll
  <2>2. \A p \in DOMAIN polls : polls[p].status = "open"
    BY <1>3
  <2>3. Recounted
    BY <2>2 DEF Recounted
  <2> QED
    BY <2>1, <2>3 DEF PollsInv
<1>5. RevisionsInv
  <2>1. \A p : Versions(p) = {0}
    BY <1>1 DEF Versions
  <2>2. TopVersion
    BY <2>1 DEF TopVersion
  <2> QED
    BY <1>1, <2>2 DEF RevisionsInv, RevisionRecords, EffectiveOnly, VersionsOnce
<1>6. ClaimsInv /\ Answered
  BY <1>1, <1>2 DEF ClaimsInv, Requests, Jobs, Sights, Answered
<1> QED
  BY <1>4, <1>5, <1>6 DEF BooksInv

\* The rounds and the revisions are two halves of the database.
LEMMA SamePolls ==
  ASSUME PollsInv, UNCHANGED <<polls, ballots>>, now' \in Nat, now <= now'
  PROVE  PollsInv'
<1>1. PollRecords'
  BY DEF PollsInv, PollRecords, IsPoll
<1>2. \A p : Winner(p)' = Winner(p)
  BY DEF Winner, Approvals
<1>3. Recounted'
  BY <1>2 DEF PollsInv, PollRecords, IsPoll, Recounted
<1> QED
  BY <1>1, <1>3 DEF PollsInv

LEMMA SameRevisions ==
  ASSUME RevisionsInv, UNCHANGED revisions, Grows
  PROVE  RevisionsInv'
<1>1. RevisionRecords'
  BY SelectedStays DEF RevisionsInv, RevisionRecords, IsRevision
<1>2. EffectiveOnly' /\ VersionsOnce'
  BY DEF RevisionsInv, EffectiveOnly, VersionsOnce, Effective, ChangedFields
<1>3. TopVersion'
  BY DEF RevisionsInv, TopVersion, Versions
<1> QED
  BY <1>1, <1>2, <1>3 DEF RevisionsInv

-----------------------------------------------------------------------------
(* A step of a call leaves the database alone and asks for what it has read. *)

LEMMA CallClaims ==
  ASSUME OwnInv, ClaimsInv, NEW c \in Calls, NEW to, Becomes(c, to),
         UNCHANGED <<stored, polls, revisions>>,
         to.pc \notin {"idle", "over"} => JobOK(to.job),
         to.pc = "deciding" => SightOK(to),
         \A r \in wire' : r \in wire \/ RequestOK(r)
  PROVE  ClaimsInv'
<1>1. calls'[c] = to /\ \A d \in Calls : d # c => calls'[d] = calls[d]
  BY DEF Becomes, OwnInv, CallsOK
<1>2. \A job : JobOK(job)' <=> JobOK(job)
  BY DEF JobOK
<1>3. \A call : SightOK(call)' <=> SightOK(call)
  BY DEF SightOK, Selected
<1>4. \A r : RequestOK(r)' <=> RequestOK(r)
  BY DEF RequestOK, Selected, Effective, ChangedFields, Actor
<1>5. Jobs'
  BY <1>1, <1>2 DEF ClaimsInv, Jobs
<1>6. Sights'
  BY <1>1, <1>3 DEF ClaimsInv, Sights
<1>7. Requests'
  BY <1>4 DEF ClaimsInv, Requests
<1> QED
  BY <1>5, <1>6, <1>7 DEF ClaimsInv

LEMMA EnterClaims ==
  ASSUME OwnInv, ClaimsInv, NEW c \in Calls, NEW t, NEW job, Enter(c, t, job), JobOK(job)
  PROVE  ClaimsInv'
<1>1. PICK to : Becomes(c, to) /\ to = [pc |-> "minting", tries |-> calls[c].tries + 1, turn |-> t,
                                       job |-> job, seen |-> None]
  BY DEF Enter, Becomes
<1>2. to.pc = "minting" /\ to.job = job
  BY <1>1
<1>3. UNCHANGED <<stored, polls, revisions>> /\ UNCHANGED wire
  BY DEF Enter, database
<1> QED
  BY <1>1, <1>2, <1>3, CallClaims

\* A caller names records that are there.
LEMMA JobsOK ==
  ASSUME NEW tool, NEW job \in JobsOf(tool),
         tool \in {"collect", "submit", "open", "vote", "result", "suggest", "approve", "apply"}
  PROVE  JobOK(job)
<1>1. CASE tool \in {"collect", "submit"}
  BY <1>1 DEF JobsOf, CollectJobs, SubmitJobs, JobOK
<1>2. CASE tool = "open"
  BY <1>2, ConstantsAssumption DEF JobsOf, OpenJobs, JobOK
<1>3. CASE tool = "vote"
  BY <1>3 DEF JobsOf, VoteJobs, JobOK
<1>4. CASE tool = "result"
  BY <1>4 DEF JobsOf, ResultJobs, JobOK
<1>5. CASE tool = "suggest"
  BY <1>5 DEF JobsOf, SuggestJobs, JobOK
<1>6. CASE tool \in {"approve", "apply"}
  BY <1>6 DEF JobsOf, RevisionJobs, JobOK
<1> QED
  BY <1>1, <1>2, <1>3, <1>4, <1>5, <1>6

\* What is read is what the database holds at that moment.
LEMMA ReadClaims ==
  ASSUME OwnInv, RevisionsInv, ClaimsInv, NEW c \in Calls, Read(c)
  PROVE  ClaimsInv'
<1>1. PICK to, answer : /\ answer \in Answers(Job(c))
                        /\ Becomes(c, to) /\ to = Moved(c, "deciding", answer)
  BY DEF Read, Becomes
<1>2. to.pc = "deciding" /\ to.job = Job(c) /\ to.turn = Turn(c) /\ to.seen = answer
  BY <1>1 DEF Moved
<1>3. UNCHANGED <<stored, polls, revisions>> /\ UNCHANGED wire
  BY DEF Read, database
<1>4. JobOK(Job(c))
  BY DEF Read, ClaimsInv, Jobs, Job
<1>5. SightOK(to)
  <2>1. Job(c).tool \in {"suggest", "approve", "apply"} => SenderOf[Turn(c)] \in Directors
    BY DEF Read, Admitted, FeedbackRequester, Contact
  <2>2. Job(c).tool = "suggest" => answer = stored[Job(c).on] /\ Job(c).on \in DOMAIN stored
    BY <1>1, <1>4 DEF Answers, StoredProposal, JobOK
  <2>3. Job(c).tool = "apply" => answer = revisions[Job(c).on] /\ Job(c).on \in DOMAIN revisions
    BY <1>1, <1>4 DEF Answers, StoredRevision, JobOK
  <2>4. Job(c).tool = "apply" => revisions[Job(c).on].approver \in Directors \cup {None}
    BY <2>3 DEF RevisionsInv, RevisionRecords, IsRevision
  <2> QED
    BY <1>2, <2>1, <2>2, <2>3, <2>4 DEF SightOK, Selected
<1> QED
  BY <1>1, <1>2, <1>3, <1>4, <1>5, CallClaims

\* A request is sent for what the call has read.
LEMMA SendClaims ==
  ASSUME OwnInv, ClaimsInv, NEW c \in Calls, NEW op, NEW id, NEW on, NEW body,
         calls[c].pc = "deciding", Send(c, op, id, on, body),
         op = "open" => on \in Nat,
         op = "result" => id \in DOMAIN polls,
         op = "suggest" => Selected(on),
         op = "approve" => id \in DOMAIN revisions /\ Contact(c) \in Directors,
         op = "apply" => id \in DOMAIN revisions /\ Effective(revisions[id])
  PROVE  ClaimsInv'
<1>1. PICK to : Becomes(c, to) /\ to = Moved(c, "sent", None)
  BY DEF Send, Becomes
<1>2. to.pc = "sent" /\ to.job = Job(c)
  BY <1>1 DEF Moved
<1>3. UNCHANGED <<stored, polls, revisions>>
  BY DEF Send, database
<1>4. JobOK(Job(c))
  BY DEF ClaimsInv, Jobs, Job
<1>5. \A r \in wire' : r \in wire \/ RequestOK(r)
  <2>1. ASSUME NEW r \in wire', r \notin wire
        PROVE  r.op = op /\ r.id = id /\ r.on = on /\ r.turn = Turn(c)
    BY <2>1 DEF Send
  <2> QED
    BY <2>1 DEF RequestOK, Actor, Contact
<1> QED
  BY <1>1, <1>2, <1>3, <1>4, <1>5, CallClaims

LEMMA WriteClaims ==
  ASSUME OwnInv, RevisionsInv, ClaimsInv, NEW c \in Calls,
         \/ Confirm(c) \/ OpenPoll(c) \/ Vote(c) \/ Result(c)
         \/ Suggest(c) \/ Approve(c) \/ Apply(c)
  PROVE  ClaimsInv'
<1>1. JobOK(Job(c)) /\ SightOK(calls[c]) /\ calls[c].pc = "deciding"
  BY DEF Confirm, OpenPoll, Vote, Result, Suggest, Approve, Apply, Deciding, ClaimsInv, Jobs, Sights, Job
<1>2. CASE Confirm(c)
  <2>1. PICK id, text : Send(c, "submit", id, None, text)
    BY <1>2 DEF Confirm, SubmitProposal
  <2> QED
    BY <1>1, <2>1, SendClaims
<1>3. CASE OpenPoll(c)
  <2>1. Send(c, "open", RecordId(c), Job(c).given, Seen(c)) /\ Job(c).given \in Nat
    BY <1>1, <1>3 DEF OpenPoll, CreatePoll, Deciding, JobOK
  <2> QED
    BY <1>1, <2>1, SendClaims
<1>4. CASE Vote(c)
  <2>1. Send(c, "vote", Job(c).on, None, Job(c).given)
    BY <1>4 DEF Vote, CastBallot
  <2> QED
    BY <1>1, <2>1, SendClaims
<1>5. CASE Result(c)
  <2>1. Send(c, "result", Job(c).on, None, {}) /\ Job(c).on \in DOMAIN polls
    BY <1>1, <1>5 DEF Result, FinalizePoll, Deciding, JobOK
  <2> QED
    BY <1>1, <2>1, SendClaims
<1>6. CASE Suggest(c)
  <2>1. Send(c, "suggest", RevisionId(c), Job(c).on, Job(c).given) /\ Selected(Job(c).on)
    BY <1>1, <1>6 DEF Suggest, RecordRevision, Deciding, SightOK, Seen, Job
  <2> QED
    BY <1>1, <2>1, SendClaims
<1>7. CASE Approve(c)
  <2>1. /\ Send(c, "approve", Job(c).on, None, {})
        /\ Job(c).on \in DOMAIN revisions /\ Contact(c) \in Directors
    BY <1>1, <1>7 DEF Approve, ApproveRevision, Deciding, JobOK, SightOK, Contact, Job, Turn
  <2> QED
    BY <1>1, <2>1, SendClaims
<1>8. CASE Apply(c)
  <2>1. Send(c, "apply", Job(c).on, None, {}) /\ Job(c).on \in DOMAIN revisions
    BY <1>1, <1>8 DEF Apply, ApplyRevision, Deciding, JobOK
  <2>2. /\ Seen(c).values = revisions[Job(c).on].values
        /\ Seen(c).approver # None => revisions[Job(c).on].approver \in Directors
    BY <1>1, <1>8 DEF Apply, Deciding, SightOK, Seen, Job
  <2>3. /\ ChangedFields(Seen(c)) # {}
        /\ MaterialFields(ChangedFields(Seen(c))) # {} => Seen(c).approver # None
    BY <1>8 DEF Apply, Pending, Gate
  <2>4. Effective(revisions[Job(c).on])
    BY <2>2, <2>3 DEF Effective, ChangedFields
  <2> QED
    BY <1>1, <2>1, <2>4, SendClaims
<1> QED
  BY <1>2, <1>3, <1>4, <1>5, <1>6, <1>7, <1>8

\* A call that leaves takes nothing with it.
LEMMA LeaveClaims ==
  ASSUME OwnInv, ClaimsInv, NEW c \in Calls, NEW left, Active(c), Leave(c, left),
         left \in {Over, Moved(c, "failed", None)}, UNCHANGED database, UNCHANGED wire
  PROVE  ClaimsInv'
<1>1. Becomes(c, left)
  BY DEF Leave, Becomes
<1>2. left.pc = "over" \/ (left.pc = "failed" /\ left.job = Job(c))
  BY DEF Over, NoCall, Moved
<1>3. JobOK(Job(c))
  BY DEF Active, ClaimsInv, Jobs, Job
<1>4. UNCHANGED <<stored, polls, revisions>>
  BY DEF database
<1> QED
  BY <1>1, <1>2, <1>3, <1>4, CallClaims

LEMMA CallBooks ==
  ASSUME OwnInv, BooksInv, NEW c \in Calls, Call(c)
  PROVE  BooksInv'
<1>1. UNCHANGED now /\ UNCHANGED database /\ UNCHANGED told
  BY DEF Call, Begin, Retry, Enter, Mint, Read, Fail, Collect, Prepare, Provisional, TellNothing, Finish,
         Confirm, OpenPoll, Vote, Result, Suggest, Approve, Apply, Send, history,
         SubmitProposal, CreatePoll, CastBallot, FinalizePoll, RecordRevision, ApproveRevision, ApplyRevision
<1>2. PollsInv'
  BY <1>1, SamePolls DEF BooksInv, database, PollsInv, PollRecords
<1>3. Grows
  BY <1>1 DEF Grows, database
<1>4. RevisionsInv' /\ Answered'
  BY <1>1, <1>3, SameRevisions, HeldStays DEF BooksInv, Answered, database
<1>5. ClaimsInv'
  <2>1. ASSUME NEW t \in desk.turns, NEW tool \in desk.tools, NEW job \in JobsOf(tool), Begin(c, t, job)
        PROVE  ClaimsInv'
    <3>1. JobOK(job)
      BY JobsOK, ConstantsAssumption DEF OwnInv, CallsOK
    <3> QED
      BY <2>1, <3>1, EnterClaims DEF Begin, BooksInv
  <2>2. CASE Retry(c)
    <3>1. JobOK(Job(c))
      BY <2>2 DEF Retry, BooksInv, ClaimsInv, Jobs, Job
    <3> QED
      BY <2>2, <3>1, EnterClaims DEF Retry, BooksInv
  <2>3. CASE Mint(c)
    <3>1. PICK to : Becomes(c, to) /\ to = Moved(c, "reading", None)
      BY <2>3 DEF Mint, Becomes
    <3>2. to.pc = "reading" /\ to.job = Job(c) /\ UNCHANGED wire
      BY <2>3, <3>1 DEF Mint, Moved
    <3>3. JobOK(Job(c))
      BY <2>3 DEF Mint, BooksInv, ClaimsInv, Jobs, Job
    <3> QED
      BY <1>1, <3>1, <3>2, <3>3, CallClaims DEF BooksInv, database
  <2>4. CASE Read(c)
    BY <2>4, ReadClaims DEF BooksInv
  <2>5. CASE Fail(c)
    <3>1. PICK left : Leave(c, left) /\ left \in {Over, Moved(c, "failed", None)}
      BY <2>5 DEF Fail
    <3> QED
      BY <1>1, <2>5, <3>1, LeaveClaims DEF Fail, BooksInv
  <2>6. CASE Collect(c) \/ Prepare(c) \/ Provisional(c)
    <3>1. Leave(c, Over) /\ UNCHANGED wire /\ Active(c)
      BY <2>6 DEF Collect, Prepare, Provisional, TellNothing, Finish, Deciding, Active
    <3> QED
      BY <1>1, <3>1, LeaveClaims DEF BooksInv
  <2>7. CASE \/ Confirm(c) \/ OpenPoll(c) \/ Vote(c) \/ Result(c)
             \/ Suggest(c) \/ Approve(c) \/ Apply(c)
    BY <2>7, WriteClaims DEF BooksInv
  <2> QED
    BY <2>1, <2>2, <2>3, <2>4, <2>5, <2>6, <2>7 DEF Call
<1> QED
  BY <1>2, <1>4, <1>5 DEF BooksInv

-----------------------------------------------------------------------------
(* A served request changes one record and disturbs no claim to another.     *)

LEMMA ServeClaims ==
  ASSUME OwnInv, ClaimsInv, Grows, NEW r \in wire, NEW ok, NEW value, Reply(r, ok, value)
  PROVE  ClaimsInv'
<1>1. \A c \in Calls : calls'[c] = calls[c] \/ calls'[c].pc = "over"
  <2>1. r.call \in Calls
    BY DEF OwnInv, WireCalls
  <2> QED
    BY <2>1 DEF Reply, Leave, OwnInv, CallsOK, Over, NoCall
<1>2. wire' \subseteq wire
  BY DEF Reply
<1>3. Requests'
  BY <1>2, RequestStays DEF ClaimsInv, Requests
<1>4. Jobs'
  BY <1>1, JobStays DEF ClaimsInv, Jobs
<1>5. Sights'
  <2>1. ASSUME NEW c \in Calls, NEW call, call = calls'[c], call.pc = "deciding"
        PROVE  SightOK(call)'
    <3>1. call = calls[c]
      BY <1>1, <2>1
    <3>2. JobOK(call.job) /\ SightOK(call)
      BY <2>1, <3>1 DEF ClaimsInv, Jobs, Sights
    <3> QED
      BY <3>2, SightStays
  <2> QED
    BY <2>1 DEF Sights, SightOK, Selected
<1> QED
  BY <1>3, <1>4, <1>5 DEF ClaimsInv

\* The record is reported only when the answer says so.
LEMMA ReplyTold ==
  ASSUME Answered, Grows, NEW r, NEW ok \in BOOLEAN, NEW value, Reply(r, ok, value),
         \A answer : ok /\ answer.tool = r.op /\ answer.id = r.id /\ answer.actor = Actor(r)
                        /\ answer.value = value
                     => Held(answer)'
  PROVE  Answered'
<1> SUFFICES ASSUME NEW answer \in told' PROVE Held(answer)'
  BY DEF Answered
<1>1. CASE answer \in told
  BY <1>1, HeldStays DEF Answered
<1>2. CASE answer \notin told
  <2>1. ok /\ answer = [tool |-> r.op, id |-> r.id, actor |-> Actor(r), value |-> value]
    BY <1>2 DEF Reply
  <2> QED
    BY <2>1
<1> QED
  BY <1>1, <1>2

\* The rest of the invariant, once the record is in.
LEMMA Served ==
  ASSUME OwnInv, BooksInv, NEW r \in wire, Grows, PollsInv', RevisionsInv',
         NEW ok \in BOOLEAN, NEW value, Reply(r, ok, value),
         \A answer : ok /\ answer.tool = r.op /\ answer.id = r.id /\ answer.actor = Actor(r)
                        /\ answer.value = value
                     => Held(answer)'
  PROVE  BooksInv'
BY ServeClaims, ReplyTold DEF BooksInv

LEMMA SubmitBooks ==
  ASSUME OwnInv, BooksInv, NEW r \in wire, ServeSubmit(r)
  PROVE  BooksInv'
<1> DEFINE record == [contact |-> Actor(r), text |-> r.body, status |-> "submitted"]
           free == r.id \notin DOMAIN stored
           same == ~ free /\ stored[r.id].contact = Actor(r) /\ stored[r.id].text = r.body
<1>1. /\ r.op = "submit" /\ UNCHANGED <<polls, ballots, revisions, now>>
      /\ stored' = IF free THEN Put(stored, r.id, record) ELSE stored
      /\ Reply(r, free \/ same, {})
  BY DEF ServeSubmit, Reply
<1>2. record.contact = Actor(r) /\ record.status = "submitted"
  OBVIOUS
<1> HIDE DEF record
<1>3. /\ \A p \in DOMAIN stored : p \in DOMAIN stored' /\ stored'[p] = stored[p]
      /\ free => r.id \in DOMAIN stored' /\ stored'[r.id] = record
  BY <1>1 DEF Put
<1>4. Grows
  BY <1>1, <1>3 DEF Grows
<1>5. PollsInv'
  BY <1>1, SamePolls DEF BooksInv, PollsInv, PollRecords
<1>6. RevisionsInv'
  BY <1>1, <1>4, SameRevisions DEF BooksInv
<1>7. free \/ same => r.id \in DOMAIN stored' /\ stored'[r.id].contact = Actor(r)
  BY <1>2, <1>3
<1>8. \A answer : (free \/ same) /\ answer.tool = r.op /\ answer.id = r.id /\ answer.actor = Actor(r)
                    /\ answer.value = {}
                  => Held(answer)'
  BY <1>1, <1>7 DEF Held, Tools
<1> QED
  BY <1>1, <1>4, <1>5, <1>6, <1>8, Served

\* A new round is open, and it has no winner yet.
LEMMA OpenBooks ==
  ASSUME OwnInv, BooksInv, NEW r \in wire, ServeOpen(r)
  PROVE  BooksInv'
<1> DEFINE free == r.id \notin DOMAIN polls /\ r.body \cap Frozen = {}
           same == r.id \in DOMAIN polls /\ polls[r.id].candidates = r.body
<1>1. PICK record : record = [candidates |-> r.body, closes |-> r.on, status |-> "open", winner |-> {}]
  OBVIOUS
<1>2. /\ r.op = "open" /\ UNCHANGED <<stored, ballots, revisions, now>>
      /\ polls' = IF free THEN Put(polls, r.id, record) ELSE polls
      /\ Reply(r, free \/ same, r.body)
  BY <1>1 DEF ServeOpen, Reply
<1>3. IsPoll(record) /\ record.status = "open"
  <2>1. r.on \in Nat
    BY <1>2 DEF BooksInv, ClaimsInv, Requests, RequestOK
  <2> QED
    BY <1>1, <2>1 DEF IsPoll
<1>4. /\ \A p \in DOMAIN polls : p \in DOMAIN polls' /\ polls'[p] = polls[p]
      /\ \A p \in DOMAIN polls' : p \in DOMAIN polls \/ (p = r.id /\ polls'[p] = record)
      /\ free => r.id \in DOMAIN polls' /\ polls'[r.id] = record
  BY <1>2 DEF Put
<1>5. Grows
  BY <1>2, <1>4 DEF Grows
<1>6. PollsInv'
  <2>1. PollRecords'
    BY <1>2, <1>3, <1>4 DEF BooksInv, PollsInv, PollRecords, IsPoll
  <2>2. ASSUME NEW p \in DOMAIN polls', polls'[p].status = "closed"
        PROVE  polls'[p].winner = Winner(p)' /\ now' >= polls'[p].closes
    <3>1. p \in DOMAIN polls /\ polls'[p] = polls[p]
      BY <1>3, <1>4, <2>2
    <3>2. Winner(p)' = Winner(p)
      BY <1>2, <3>1 DEF Winner, Approvals
    <3> QED
      BY <1>2, <2>2, <3>1, <3>2 DEF BooksInv, PollsInv, Recounted
  <2> QED
    BY <2>1, <2>2 DEF PollsInv, Recounted
<1>7. RevisionsInv'
  BY <1>2, <1>5, SameRevisions DEF BooksInv
<1>8. free \/ same => r.id \in DOMAIN polls' /\ polls'[r.id].candidates = r.body
  BY <1>1, <1>4
<1>9. \A answer : (free \/ same) /\ answer.tool = r.op /\ answer.id = r.id /\ answer.actor = Actor(r)
                    /\ answer.value = r.body
                  => Held(answer)'
  BY <1>2, <1>8 DEF Held, Tools
<1> QED
  BY <1>2, <1>5, <1>6, <1>7, <1>9, Served

\* A ballot is of an open round: no round that is closed is recounted.
LEMMA VoteBooks ==
  ASSUME OwnInv, BooksInv, NEW r \in wire, ServeVote(r)
  PROVE  BooksInv'
<1> DEFINE open == polls[r.id].status = "open" /\ now < polls[r.id].closes
           first == ~ \E b \in ballots : b.poll = r.id /\ b.voter = Actor(r)
<1>1. PICK ballot : ballot = [poll |-> r.id, voter |-> Actor(r), approved |-> r.body]
  OBVIOUS
<1>2. /\ r.op = "vote" /\ UNCHANGED <<stored, polls, revisions, now>>
      /\ ballots' = IF open /\ first THEN ballots \cup {ballot} ELSE ballots
      /\ Reply(r, open /\ (first \/ ballot \in ballots), r.body)
  BY <1>1 DEF ServeVote, Reply
<1>3. Grows
  BY <1>2 DEF Grows
<1>4. PollsInv'
  <2>1. PollRecords'
    BY <1>2 DEF BooksInv, PollsInv, PollRecords, IsPoll
  <2>2. ASSUME NEW p \in DOMAIN polls, polls[p].status = "closed"
        PROVE  Winner(p)' = Winner(p)
    <3>1. \A b \in ballots' : b \in ballots \/ b.poll # p
      BY <1>1, <1>2, <2>2
    <3>2. \A x : {b \in ballots' : b.poll = p /\ x \in b.approved} = {b \in ballots : b.poll = p /\ x \in b.approved}
      BY <1>2, <3>1
    <3>3. \A x : Approvals(p, x)' = Approvals(p, x)
      BY <3>2 DEF Approvals
    <3> QED
      BY <1>2, <3>3 DEF Winner
  <2>3. Recounted'
    BY <1>2, <2>2 DEF BooksInv, PollsInv, Recounted
  <2> QED
    BY <2>1, <2>3 DEF PollsInv
<1>5. RevisionsInv'
  BY <1>2, <1>3, SameRevisions DEF BooksInv
<1>6. open /\ (first \/ ballot \in ballots) => ballot \in ballots'
  BY <1>2
<1>7. \A answer : open /\ (first \/ ballot \in ballots) /\ answer.tool = r.op /\ answer.id = r.id
                    /\ answer.actor = Actor(r) /\ answer.value = r.body
                  => Held(answer)'
  BY <1>1, <1>2, <1>6 DEF Held, Tools
<1>8. (open /\ (first \/ ballot \in ballots)) \in BOOLEAN
  OBVIOUS
<1> QED
  BY <1>2, <1>3, <1>4, <1>5, <1>7, <1>8, Served

\* A round that is closed names the winner of the ballots it has then.
LEMMA ResultBooks ==
  ASSUME OwnInv, BooksInv, NEW r \in wire, ServeResult(r)
  PROVE  BooksInv'
<1>1. /\ r.op = "result" /\ UNCHANGED <<ballots, revisions, now>>
      /\ now >= polls[r.id].closes
      /\ Reply(r, TRUE, polls'[r.id].winner)
  BY DEF ServeResult, Reply
<1>2. r.id \in DOMAIN polls
  BY <1>1 DEF BooksInv, ClaimsInv, Requests, RequestOK
<1>3. PICK q : q = r.id
  OBVIOUS
<1>4. IsPoll(polls[q])
  BY <1>2, <1>3 DEF BooksInv, PollsInv, PollRecords
<1>5. CASE polls[q].status = "open"
  <2>1. PICK record : record = [candidates |-> polls[q].candidates, closes |-> polls[q].closes,
                                status |-> "closed", winner |-> Winner(q)]
    OBVIOUS
  <2>2. polls' = [polls EXCEPT ![q] = record]
    BY <1>3, <1>4, <1>5, <2>1 DEF ServeResult, IsPoll
  <2>3. /\ DOMAIN polls' = DOMAIN polls /\ polls'[q] = record
        /\ \A p \in DOMAIN polls : p # q => polls'[p] = polls[p]
    BY <1>2, <1>3, <2>2
  <2>4. /\ DOMAIN stored' = DOMAIN stored
        /\ \A p \in DOMAIN stored : /\ stored'[p].contact = stored[p].contact
                                    /\ stored[p].status = "selected" => stored'[p].status = "selected"
    BY <1>3, <1>5 DEF ServeResult
  <2>5. Grows
    BY <1>1, <1>5, <2>1, <2>3, <2>4 DEF Grows
  <2>6. PollsInv'
    <3>1. IsPoll(record)
      BY <1>4, <2>1 DEF IsPoll
    <3>2. PollRecords'
      BY <1>1, <2>3, <3>1 DEF BooksInv, PollsInv, PollRecords, IsPoll
    <3>3. ASSUME NEW p \in DOMAIN polls PROVE Winner(p)' = Winner(p)
      <4>1. polls'[p].candidates = polls[p].candidates
        BY <2>1, <2>3
      <4> QED
        BY <1>1, <4>1 DEF Winner, Approvals
    <3>4. ASSUME NEW p \in DOMAIN polls, polls'[p].status = "closed"
          PROVE  polls'[p].winner = Winner(p)' /\ now' >= polls'[p].closes
      <4>1. CASE p = q
        BY <1>1, <1>3, <2>1, <2>3, <3>3, <4>1
      <4>2. CASE p # q
        BY <1>1, <2>3, <3>3, <3>4, <4>2 DEF BooksInv, PollsInv, Recounted
      <4> QED
        BY <4>1, <4>2
    <3> QED
      BY <2>3, <3>2, <3>4 DEF PollsInv, Recounted
  <2>7. RevisionsInv'
    BY <1>1, <2>5, SameRevisions DEF BooksInv
  <2>8. \A answer : answer.tool = r.op /\ answer.id = r.id /\ answer.actor = Actor(r)
                      /\ answer.value = polls'[r.id].winner
                    => Held(answer)'
    BY <1>1, <1>2, <1>3, <2>1, <2>3 DEF Held, Tools
  <2> QED
    BY <1>1, <2>5, <2>6, <2>7, <2>8, Served
<1>6. CASE polls[q].status # "open"
  <2>1. UNCHANGED <<polls, stored>> /\ polls[q].status = "closed"
    BY <1>3, <1>4, <1>6 DEF ServeResult, IsPoll
  <2>2. Grows
    BY <1>1, <2>1 DEF Grows
  <2>3. PollsInv'
    BY <1>1, <2>1, SamePolls DEF BooksInv, PollsInv, PollRecords
  <2>4. RevisionsInv'
    BY <1>1, <2>2, SameRevisions DEF BooksInv
  <2>5. \A answer : answer.tool = r.op /\ answer.id = r.id /\ answer.actor = Actor(r)
                      /\ answer.value = polls'[r.id].winner
                    => Held(answer)'
    BY <1>1, <1>2, <1>3, <2>1 DEF Held, Tools
  <2> QED
    BY <1>1, <2>2, <2>3, <2>4, <2>5, Served
<1> QED
  BY <1>5, <1>6

\* The maximum of a set that has one.
LEMMA MaxIs ==
  ASSUME NEW S \in SUBSET Nat, NEW k \in S, \A j \in S : j <= k
  PROVE  Max(S) = k
<1>1. \A x \in S : (\A y \in S : x >= y) => x = k
  OBVIOUS
<1>2. \A y \in S : k >= y
  OBVIOUS
<1> QED
  BY <1>1, <1>2 DEF Max

\* A new revision takes no effect yet, and adds no version to its proposal.
LEMMA SuggestBooks ==
  ASSUME OwnInv, BooksInv, NEW r \in wire, ServeSuggest(r)
  PROVE  BooksInv'
<1> DEFINE free == r.id \notin DOMAIN revisions
           same == ~ free /\ revisions[r.id].author = Actor(r) /\ revisions[r.id].values = r.body
<1>1. PICK record : record = [of |-> r.on, author |-> Actor(r), values |-> r.body,
                              approver |-> None, version |-> 0]
  OBVIOUS
<1>2. /\ r.op = "suggest" /\ UNCHANGED <<stored, polls, ballots, now>>
      /\ revisions' = IF free THEN Put(revisions, r.id, record) ELSE revisions
      /\ Reply(r, free \/ same, r.body)
  BY <1>1 DEF ServeSuggest, Reply
<1>3. /\ \A v \in DOMAIN revisions : v \in DOMAIN revisions' /\ revisions'[v] = revisions[v]
      /\ \A v \in DOMAIN revisions' : v \in DOMAIN revisions \/ (v = r.id /\ revisions'[v] = record)
      /\ free => r.id \in DOMAIN revisions' /\ revisions'[r.id] = record
  BY <1>2 DEF Put
<1>4. IsRevision(record) /\ record.version = 0 /\ Selected(record.of)
  BY <1>1, <1>2 DEF IsRevision, BooksInv, ClaimsInv, Requests, RequestOK
<1>5. Grows
  BY <1>2, <1>3 DEF Grows
<1>6. PollsInv'
  BY <1>2, SamePolls DEF BooksInv, PollsInv, PollRecords
<1>7. RevisionsInv'
  <2>1. RevisionRecords'
    BY <1>2, <1>3, <1>4 DEF BooksInv, RevisionsInv, RevisionRecords, IsRevision, Selected
  <2>2. ASSUME NEW v \in DOMAIN revisions', revisions'[v].version > 0
        PROVE  v \in DOMAIN revisions /\ revisions'[v] = revisions[v]
    BY <1>3, <1>4, <2>2
  <2>3. EffectiveOnly'
    BY <2>2 DEF BooksInv, RevisionsInv, EffectiveOnly, Effective, ChangedFields
  <2>4. VersionsOnce'
    BY <2>2 DEF BooksInv, RevisionsInv, VersionsOnce
  <2>5. ASSUME NEW p PROVE Versions(p)' = Versions(p)
    BY <1>3, <1>4 DEF Versions
  <2>6. TopVersion'
    BY <2>5 DEF BooksInv, RevisionsInv, TopVersion
  <2> QED
    BY <2>1, <2>3, <2>4, <2>6 DEF RevisionsInv
<1>8. free \/ same =>
        r.id \in DOMAIN revisions' /\ revisions'[r.id].author = Actor(r) /\ revisions'[r.id].values = r.body
  BY <1>1, <1>3
<1>9. \A answer : (free \/ same) /\ answer.tool = r.op /\ answer.id = r.id /\ answer.actor = Actor(r)
                    /\ answer.value = r.body
                  => Held(answer)'
  BY <1>2, <1>8 DEF Held, Tools
<1> QED
  BY <1>2, <1>5, <1>6, <1>7, <1>9, Served

\* An approver is put on record once, and is a director.
LEMMA ApproveBooks ==
  ASSUME OwnInv, BooksInv, NEW r \in wire, ServeApprove(r)
  PROVE  BooksInv'
<1> DEFINE held == revisions[r.id].approver
           open == held = None /\ revisions[r.id].version = 0
<1>1. /\ r.op = "approve" /\ UNCHANGED <<stored, polls, ballots, now>>
      /\ revisions' = IF open THEN [revisions EXCEPT ![r.id].approver = Actor(r)] ELSE revisions
      /\ Reply(r, open \/ held = Actor(r), {})
  BY DEF ServeApprove, Reply
<1>2. r.id \in DOMAIN revisions /\ Actor(r) \in Directors
  BY <1>1 DEF BooksInv, ClaimsInv, Requests, RequestOK
<1>3. IsRevision(revisions[r.id])
  BY <1>2 DEF BooksInv, RevisionsInv, RevisionRecords
<1>4. PICK record : record = [of |-> revisions[r.id].of, author |-> revisions[r.id].author,
                              values |-> revisions[r.id].values, approver |-> Actor(r),
                              version |-> revisions[r.id].version]
  OBVIOUS
<1>5. open => revisions' = [revisions EXCEPT ![r.id] = record]
  <2>1. [revisions[r.id] EXCEPT !.approver = Actor(r)] = record
    BY <1>3, <1>4 DEF IsRevision
  <2> QED
    BY <1>1, <2>1
<1>6. /\ DOMAIN revisions' = DOMAIN revisions
      /\ \A v \in DOMAIN revisions : revisions'[v] = revisions[v] \/ (v = r.id /\ open /\ revisions'[v] = record)
      /\ open => revisions'[r.id] = record
      /\ ~ open => revisions' = revisions
  BY <1>1, <1>2, <1>5
<1>7. \A v \in DOMAIN revisions : /\ revisions'[v].of = revisions[v].of
                                  /\ revisions'[v].author = revisions[v].author
                                  /\ revisions'[v].values = revisions[v].values
                                  /\ revisions'[v].version = revisions[v].version
  BY <1>4, <1>6
<1>8. \A v \in DOMAIN revisions : revisions[v].approver \in Directors => revisions'[v].approver = revisions[v].approver
  BY <1>6, ConstantsAssumption
<1>9. Grows
  BY <1>1, <1>6, <1>7, <1>8 DEF Grows
<1>10. PollsInv'
  BY <1>1, SamePolls DEF BooksInv, PollsInv, PollRecords
<1>11. RevisionsInv'
  <2>1. IsRevision(record)
    BY <1>2, <1>3, <1>4 DEF IsRevision
  <2>2. RevisionRecords'
    BY SMTT(30), <1>1, <1>6, <1>7, <2>1 DEF BooksInv, RevisionsInv, RevisionRecords, IsRevision, Selected
  <2>3. EffectiveOnly'
    BY <1>6, <1>7, <1>8 DEF BooksInv, RevisionsInv, EffectiveOnly, Effective, ChangedFields
  <2>4. VersionsOnce'
    BY <1>6, <1>7 DEF BooksInv, RevisionsInv, VersionsOnce
  <2>5. ASSUME NEW p PROVE Versions(p)' = Versions(p)
    BY <1>6, <1>7 DEF Versions
  <2>6. TopVersion'
    BY <2>5 DEF BooksInv, RevisionsInv, TopVersion
  <2> QED
    BY <2>2, <2>3, <2>4, <2>6 DEF RevisionsInv
<1>12. open \/ held = Actor(r) => revisions'[r.id].approver = Actor(r)
  BY <1>4, <1>6
<1>13. \A answer : (open \/ held = Actor(r)) /\ answer.tool = r.op /\ answer.id = r.id /\ answer.actor = Actor(r)
                     /\ answer.value = {}
                   => Held(answer)'
  BY <1>1, <1>2, <1>6, <1>12 DEF Held, Tools
<1> QED
  BY <1>1, <1>9, <1>10, <1>11, <1>13, Served

\* A revision that takes effect has the version after the highest one.
LEMMA ApplyBooks ==
  ASSUME OwnInv, BooksInv, NEW r \in wire, ServeApply(r)
  PROVE  BooksInv'
<1>1. PICK q : q = r.id
  OBVIOUS
<1>2. PICK of : of = revisions[q].of
  OBVIOUS
<1>3. PICK top \in Versions(of) : \A n \in Versions(of) : n <= top
  BY DEF BooksInv, RevisionsInv, TopVersion
<1>4. Versions(of) \in SUBSET Nat
  BY DEF BooksInv, RevisionsInv, RevisionRecords, IsRevision, Versions
<1>5. Max(Versions(of)) = top /\ top \in Nat
  BY <1>3, <1>4, MaxIs
<1> DEFINE first == revisions[q].version = 0
<1>6. /\ r.op = "apply" /\ UNCHANGED <<stored, polls, ballots, now>>
      /\ revisions' = IF first THEN [revisions EXCEPT ![q].version = top + 1] ELSE revisions
      /\ Reply(r, first, {})
  BY <1>1, <1>2, <1>5 DEF ServeApply, Reply
<1>7. q \in DOMAIN revisions /\ Effective(revisions[q])
  BY <1>1, <1>6 DEF BooksInv, ClaimsInv, Requests, RequestOK
<1>8. IsRevision(revisions[q])
  BY <1>7 DEF BooksInv, RevisionsInv, RevisionRecords
<1>9. PICK record : record = [of |-> of, author |-> revisions[q].author, values |-> revisions[q].values,
                              approver |-> revisions[q].approver, version |-> top + 1]
  OBVIOUS
<1>10. first => revisions' = [revisions EXCEPT ![q] = record]
  <2>1. [revisions[q] EXCEPT !.version = top + 1] = record
    BY <1>2, <1>8, <1>9 DEF IsRevision
  <2> QED
    BY <1>6, <2>1
<1>11. /\ DOMAIN revisions' = DOMAIN revisions
       /\ \A v \in DOMAIN revisions : v # q => revisions'[v] = revisions[v]
       /\ first => revisions'[q] = record
       /\ ~ first => revisions' = revisions
  BY <1>6, <1>7, <1>10
<1>12. \A v \in DOMAIN revisions : /\ revisions'[v].of = revisions[v].of
                                   /\ revisions'[v].author = revisions[v].author
                                   /\ revisions'[v].values = revisions[v].values
                                   /\ revisions'[v].approver = revisions[v].approver
  BY <1>2, <1>9, <1>11
<1>13. \A v \in DOMAIN revisions : revisions[v].version > 0 => revisions'[v].version > 0
  BY <1>5, <1>9, <1>11
<1>14. Grows
  BY <1>6, <1>11, <1>12, <1>13 DEF Grows
<1>15. PollsInv'
  BY <1>6, SamePolls DEF BooksInv, PollsInv, PollRecords
<1>16. CASE first
  <2>1. IsRevision(record)
    BY <1>2, <1>5, <1>8, <1>9 DEF IsRevision
  <2>2. RevisionRecords'
    BY <1>6, <1>11, <1>12, <1>16, <2>1 DEF BooksInv, RevisionsInv, RevisionRecords, IsRevision, Selected
  <2>3. EffectiveOnly'
    <3>1. \A v \in DOMAIN revisions : Effective(revisions'[v]) <=> Effective(revisions[v])
      BY <1>12 DEF Effective, ChangedFields
    <3>2. \A v \in DOMAIN revisions : revisions'[v].version > 0 => Effective(revisions[v])
      BY <1>7, <1>11 DEF BooksInv, RevisionsInv, EffectiveOnly
    <3>3. \A v \in DOMAIN revisions' : revisions'[v].version > 0 => Effective(revisions'[v])
      BY <1>11, <3>1, <3>2
    <3> QED
      BY <3>3 DEF EffectiveOnly, Effective, ChangedFields
  <2>4. \A v \in DOMAIN revisions : revisions[v].of = of => revisions[v].version <= top
    BY <1>3 DEF Versions
  <2>5. VersionsOnce'
    <3> SUFFICES ASSUME NEW v \in DOMAIN revisions, NEW w \in DOMAIN revisions,
                        revisions'[v].of = revisions'[w].of, revisions'[v].version = revisions'[w].version,
                        revisions'[v].version > 0
                 PROVE  v = w
      BY <1>11 DEF VersionsOnce
    <3>1. CASE v # q /\ w # q
      BY <1>11, <3>1 DEF BooksInv, RevisionsInv, VersionsOnce
    <3>2. CASE v = q /\ w # q
      BY <1>2, <1>5, <1>9, <1>11, <1>12, <1>16, <2>4, <3>2
    <3>3. CASE v # q /\ w = q
      BY <1>2, <1>5, <1>9, <1>11, <1>12, <1>16, <2>4, <3>3
    <3> QED
      BY <3>1, <3>2, <3>3
  <2>6. TopVersion'
    <3> SUFFICES ASSUME NEW p
                 PROVE  \E k \in Versions(p)' : \A n \in Versions(p)' : n <= k
      BY DEF TopVersion
    <3>1. CASE p = of
      <4>1. top + 1 \in Versions(p)'
        BY <1>7, <1>9, <1>11, <1>16, <3>1 DEF Versions
      <4>2. ASSUME NEW n \in Versions(p)' PROVE n <= top + 1
        <5>1. n = 0 \/ \E v \in DOMAIN revisions : revisions'[v].of = of /\ n = revisions'[v].version
          BY <1>11, <3>1, <4>2 DEF Versions
        <5>2. ASSUME NEW v \in DOMAIN revisions, revisions'[v].of = of PROVE revisions'[v].version <= top + 1
          <6>1. CASE v = q
            BY <1>5, <1>9, <1>11, <1>16, <6>1
          <6>2. CASE v # q
            <7>1. revisions[v].version \in Nat
              BY DEF BooksInv, RevisionsInv, RevisionRecords, IsRevision
            <7> QED
              BY <1>5, <1>11, <2>4, <5>2, <6>2, <7>1
          <6> QED
            BY <6>1, <6>2
        <5> QED
          BY <1>5, <5>1, <5>2
      <4> QED
        BY <4>1, <4>2
    <3>2. CASE p # of
      <4>1. Versions(p)' = Versions(p)
        BY <1>2, <1>11, <1>12, <3>2 DEF Versions
      <4> QED
        BY <4>1 DEF BooksInv, RevisionsInv, TopVersion
    <3> QED
      BY <3>1, <3>2
  <2>7. \A answer : first /\ answer.tool = r.op /\ answer.id = r.id /\ answer.actor = Actor(r)
                      /\ answer.value = {}
                    => Held(answer)'
    BY <1>1, <1>5, <1>6, <1>7, <1>9, <1>11, <1>16 DEF Held, Tools
  <2>8. RevisionsInv'
    BY <2>2, <2>3, <2>5, <2>6 DEF RevisionsInv
  <2> QED
    BY <1>6, <1>14, <1>15, <2>7, <2>8, Served
<1>17. CASE ~ first
  <2>1. RevisionsInv'
    BY <1>11, <1>14, <1>17, SameRevisions DEF BooksInv
  <2>2. \A answer : first /\ answer.tool = r.op /\ answer.id = r.id /\ answer.actor = Actor(r)
                      /\ answer.value = {}
                    => Held(answer)'
    BY <1>17
  <2> QED
    BY <1>6, <1>14, <1>15, <2>1, <2>2, Served
<1> QED
  BY <1>16, <1>17

-----------------------------------------------------------------------------

LEMMA NextBooks == OwnInv /\ BooksInv /\ [Next]_vars => BooksInv'
<1> SUFFICES ASSUME OwnInv, BooksInv, [Next]_vars PROVE BooksInv'
  OBVIOUS
<1>1. CASE \E c \in Calls : Call(c)
  BY <1>1, CallBooks
<1>2. CASE \E r \in wire : Serve(r)
  BY <1>2, SubmitBooks, OpenBooks, VoteBooks, ResultBooks, SuggestBooks, ApproveBooks, ApplyBooks DEF Serve
<1>3. CASE (\E t \in Turns : EndTurn(t)) \/ Tick \/ UNCHANGED vars
  <2>1. UNCHANGED <<calls, wire, told, stored, polls, ballots, revisions>>
    BY <1>3 DEF EndTurn, Tick, vars, database, history
  <2>2. now \in Nat /\ (now' = now \/ now' = now + 1)
    BY <1>3 DEF EndTurn, Tick, vars, BooksInv, PollsInv, PollRecords
  <2>3. PollsInv'
    BY <2>1, <2>2, SamePolls DEF BooksInv
  <2>4. Grows
    BY <2>1 DEF Grows
  <2>5. RevisionsInv' /\ Answered'
    BY <2>1, <2>4, SameRevisions, HeldStays DEF BooksInv, Answered
  <2>6. Requests'
    BY <2>1, <2>4, RequestStays DEF BooksInv, ClaimsInv, Requests
  <2>7. Jobs' /\ Sights'
    BY <2>1 DEF BooksInv, ClaimsInv, Jobs, Sights, JobOK, SightOK, Selected
  <2> QED
    BY <2>3, <2>5, <2>6, <2>7 DEF BooksInv, ClaimsInv
<1> QED
  BY <1>1, <1>2, <1>3 DEF Next

LEMMA AlwaysBooks == Spec => [](OwnInv /\ BooksInv)
BY InitOwn, NextOwn, InitBooks, NextBooks, PTL DEF Spec

\* What a tool has reported as recorded stays in the database, for every record
\* the tools write and whatever answers are lost and retried: the writes of
\* governance-write-tools.ts and proposal-feedback-tools.ts against the
\* promises of foundation-db-writer.ts.
THEOREM AlwaysAnswerKept == Spec => []AnswerKept
<1>1. BooksInv => AnswerKept
  <2> SUFFICES ASSUME BooksInv, NEW answer \in told PROVE Kept(answer)
    BY DEF AnswerKept
  <2>1. Held(answer)
    BY DEF BooksInv, Answered
  <2>2. answer.tool = "result" =>
          /\ now >= polls[answer.id].closes /\ Winner(answer.id) = answer.value
    BY <2>1 DEF Held, BooksInv, PollsInv, Recounted
  <2> QED
    BY <2>1, <2>2 DEF Held, Tools, Kept
<1> QED
  BY <1>1, AlwaysBooks, PTL

\* A revision that moves a material field takes effect only with a director's
\* approval on record, and under a version of its own: the gate of the apply
\* tool, on a revision that was read before others approved or applied it.
THEOREM AlwaysApproved == Spec => []MaterialApproved
<1>1. BooksInv => MaterialApproved
  <2> SUFFICES ASSUME BooksInv, NEW v \in DOMAIN revisions, revisions[v].version > 0
               PROVE  /\ ChangedFields(revisions[v]) # {}
                      /\ MaterialFields(ChangedFields(revisions[v])) # {} => revisions[v].approver \in Directors
                      /\ stored[revisions[v].of].status = "selected"
                      /\ \A w \in DOMAIN revisions :
                           revisions[w].of = revisions[v].of /\ revisions[w].version = revisions[v].version => w = v
    BY DEF MaterialApproved
  <2>1. Effective(revisions[v]) /\ Selected(revisions[v].of)
    BY DEF BooksInv, RevisionsInv, EffectiveOnly, RevisionRecords
  <2> QED
    BY <2>1 DEF BooksInv, RevisionsInv, VersionsOnce, Effective, Selected
<1> QED
  BY <1>1, AlwaysBooks, PTL
=============================================================================
