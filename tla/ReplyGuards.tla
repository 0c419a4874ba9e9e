---------------------------- MODULE ReplyGuards -----------------------------
(***************************************************************************)
(* The three outbound reply guards of plugins/rein-operations: each one    *)
(* remembers, per run, what the observed tool calls allow the run's final  *)
(* Slack reply to be replaced with (proposal-collect-reply-guard.ts,       *)
(* vote-reply-guard.ts, poll-reply-guard.ts).                              *)
(*                                                                         *)
(* The host reports a call under the tool's own name, and on a live        *)
(* Gateway a second time inside the Tool Search envelope.  Runs interleave *)
(* at every report; the hooks themselves are synchronous.                  *)
(***************************************************************************)
EXTENDS Naturals, FiniteSets, SequencesExt

CONSTANTS
  Runs,        \* runs of the model
  Calls,       \* the calls a run can make: tool, answer, round, count and host error
  Absent,      \* no entry, no round, no signature
  MaxEntries,  \* bound of a store (64 in the code)
  Ttl,         \* how long an entry stays replaceable (five minutes)
  MaxTime,     \* bound on the clock
  MaxCalls,    \* bound on the calls of all runs together
  MaxReplies   \* bound on the final payloads of a run

VARIABLES
  now,
  reports,              \* the channels this host reports a call on
  collect, vote, poll,  \* the three stores: entries; "age" counts what was set since
  calls,                \* the calls each run made
  owed,                 \* the reports of its last call the host has still to make
  said,                 \* the texts of the run's final payloads
  forgotten             \* history: runs whose entry the vote guard swept

guardsVars == <<now, reports, collect, vote, poll, calls, owed, said, forgotten>>

Writes == {"submit", "poll_open", "poll_vote", "comment_suggest", "revision_approve", "revision_apply"}
Channels == {"direct", "dispatched"}

GuardsInit ==
  /\ now = 0
  /\ reports \in {{"direct"}, Channels}
  /\ collect = {} /\ vote = {} /\ poll = {}
  /\ calls = [r \in Runs |-> <<>>]
  /\ owed = [r \in Runs |-> {}]
  /\ said = [r \in Runs |-> <<>>]
  /\ forgotten = {}

-----------------------------------------------------------------------------
(* The store of a guard                                                    *)

RunsOf(store) == {e.run : e \in store}

\* Expired entries go, then the oldest ones while there are too many.
Sweep(store) ==
  LET live == {e \in store : e.expires > now}
  IN {e \in live : Cardinality({newer \in live : newer.age < e.age}) < MaxEntries}

Entry(store, r) == CHOOSE e \in store : e.run = r

Delete(store, r) == {e \in store : e.run # r}

\* delete and set: the entry becomes the newest one.
Put(store, r, what) ==
  {[e EXCEPT !.age = @ + 1] : e \in Delete(store, r)}
  \cup {[run |-> r, age |-> 0, expires |-> now + Ttl, what |-> what]}

\* The runs whose entry is expired or surplus when a hook runs.
Swept(store) == RunsOf(store) \ RunsOf(Sweep(store))

NoteSwept == forgotten' = forgotten \cup Swept(vote)

-----------------------------------------------------------------------------
(* What a guard does when a call is reported                               *)

\* The fields of a collecting answer can be repeated back; "ready" is one with
\* nothing left to ask.
Collected(c) == c.tool = "collect" /\ c.answer \in {"collecting", "ready"} /\ c.error = "none"

\* proposal-collect-reply-guard: a clean collecting answer arms, a submit
\* clears, whatever came of it.
CollectAfterCall(r, c) ==
  IF c.tool = "submit" THEN Delete(collect, r)
  ELSE IF Collected(c) THEN Put(Sweep(collect), r, c.answer)
  ELSE collect

\* An open round's own answer, under the one code it may come with; "unsayable"
\* is one whose clarification would be too long.
Provisional(c) ==
  /\ c.tool = "poll_result" /\ c.answer \in {"provisional", "unsayable"}
  /\ c.error \in {"none", "provisional"}

\* A closed round's sentence that agrees with the figures it was built from.
Final(c) == c.tool = "poll_result" /\ c.answer = "final" /\ c.error = "none"

\* poll-reply-guard: an observed write clears the run, and so does an open round
\* that cannot be told; a provisional read, also one the host flags with the
\* tool's own code, and a vouched-for final sentence arm it; any other answer
\* leaves what was armed.
PollAfterCall(r, c) ==
  IF c.tool \in Writes \/ (Provisional(c) /\ c.answer = "unsayable") THEN Delete(poll, r)
  ELSE IF Provisional(c) \/ Final(c)
    THEN Put(Sweep(poll), r, [kind |-> c.answer, round |-> c.round])
    ELSE poll

\* A recorded ballot without any error.
Recorded(c) == c.tool = "poll_vote" /\ c.answer = "recorded" /\ c.error = "none"

\* A provisional read under one of the codes a host stamps on it.
OpenRead(c) ==
  /\ c.tool = "poll_result" /\ c.answer \in {"provisional", "unsayable"}
  /\ c.error \in {"none", "provisional", "failed"}

\* The verified step a report carries, if any.
Signature(c) ==
  CASE Recorded(c) -> [step |-> "vote", round |-> c.round, count |-> c.count]
    [] OpenRead(c) -> [step |-> "read", round |-> c.round, count |-> 0]
    [] OTHER -> Absent

\* Mutant: the channel is not looked at.
SameCallAnyChannel(e, signature, channel) ==
  signature # Absent /\ e.signature = signature /\ ~e.paired

\* Mutant: every report is a call of its own.
SameCallNever(e, signature, channel) == FALSE

\* The other channel's report of the call that was counted last.
SameCall(e, signature, channel) ==
  signature # Absent /\ e.signature = signature /\ e.channel # channel /\ ~e.paired

SamePoll(p, q) == p = Absent \/ q = Absent \/ p = q

\* The phase a counted call leaves the run in, from what is remembered of it.
FirstPhase(signature) ==
  CASE signature = Absent                            -> "disqualified"
    [] signature # Absent /\ signature.step = "vote" -> "armed"
    [] signature # Absent /\ signature.step = "read" -> "provisional"

NextPhase(e, signature) ==
  IF /\ e.phase = "provisional" /\ e.count = 1
     /\ signature # Absent /\ signature.step = "vote"
     /\ SamePoll(e.signature.round, signature.round)
  THEN "armed" ELSE "disqualified"

\* The vote guard observes every tool of the plugin under its own name, and
\* everything that comes through the dispatcher.
Observed(c, channel) == c.tool # "other" \/ channel = "dispatched"

\* vote-reply-guard: one provisional read of the same round and one recorded
\* ballot, or the ballot alone; every other sequence disqualifies the run.
VoteAfterCall(r, c, channel) ==
  LET store     == Sweep(vote)
      signature == Signature(c)
      known     == r \in RunsOf(store)
      e         == Entry(store, r).what
  IN IF ~Observed(c, channel) THEN vote
     ELSE IF known /\ SameCall(e, signature, channel)
     THEN Put(store, r, [e EXCEPT !.paired = TRUE])
     ELSE Put(store, r, [phase     |-> IF known THEN NextPhase(e, signature) ELSE FirstPhase(signature),
                         count     |-> IF known THEN e.count + 1 ELSE 1,
                         channel   |-> channel,
                         signature |-> signature,
                         paired    |-> FALSE])

-----------------------------------------------------------------------------
(* The runs                                                                *)

Total == FoldFunction(LAMBDA made, n : Len(made) + n, 0, calls)

\* after_tool_call: the three guards judge one report of a call.
Judge(r, c, channel) ==
  /\ collect' = CollectAfterCall(r, c)
  /\ vote' = VoteAfterCall(r, c, channel)
  /\ poll' = PollAfterCall(r, c)
  /\ NoteSwept
  /\ UNCHANGED <<now, reports, said>>

\* A tool call ends and is reported under the tool's own name.
FirstReport(r, c) ==
  /\ Total < MaxCalls
  /\ Len(said[r]) < MaxReplies
  /\ owed[r] = {}
  /\ calls' = [calls EXCEPT ![r] = Append(@, c)]
  /\ owed' = [owed EXCEPT ![r] = reports \ {"direct"}]
  /\ Judge(r, c, "direct")

\* The dispatcher's own call ends: the same call again, in its envelope, before
\* the run goes on.
SecondReport(r, channel) ==
  /\ channel \in owed[r]
  /\ owed' = [owed EXCEPT ![r] = {}]
  /\ Judge(r, Last(calls[r]), channel)
  /\ UNCHANGED calls

\* Mutant: a payload's text is replaced and the entry stays.
ConsumeKept(store, r) == Sweep(store)

\* An entry is used once, whether or not it replaces anything.
Consume(store, r) == Delete(Sweep(store), r)

\* The text as the model wrote it.
Plain == [by |-> "model", kind |-> "none", round |-> Absent, count |-> 0]

\* What the guards make of a text, in the order they are registered: the last
\* one that replaces it wins.
Replaced(r) ==
  LET in(store) == r \in RunsOf(Sweep(store))
  IN CASE in(poll) -> [Plain EXCEPT !.by = "poll", !.kind = Entry(poll, r).what.kind,
                                !.round = Entry(poll, r).what.round]
       [] ~in(poll) /\ in(vote) /\ Entry(vote, r).what.phase = "armed" ->
            [Plain EXCEPT !.by = "vote", !.count = Entry(vote, r).what.signature.count]
       [] ~in(poll) /\ ~(in(vote) /\ Entry(vote, r).what.phase = "armed")
            /\ in(collect) /\ Entry(collect, r).what = "collecting" ->
            [Plain EXCEPT !.by = "collect"]
       [] OTHER -> Plain

\* reply_payload_sending of the run's final Slack payload.  One without a text
\* consumes the entries and is left alone.
ReplyPayloadSending(r) ==
  /\ calls[r] # <<>> /\ owed[r] = {}
  /\ Len(said[r]) < MaxReplies
  /\ \E text \in {Replaced(r), [Plain EXCEPT !.by = "none"]} :
       said' = [said EXCEPT ![r] = Append(@, [text |-> text, after |-> Len(calls[r])])]
  /\ collect' = Consume(collect, r)
  /\ vote' = Consume(vote, r)
  /\ poll' = Consume(poll, r)
  /\ NoteSwept
  /\ UNCHANGED <<now, reports, calls, owed>>

Tick ==
  /\ now < MaxTime
  /\ now' = now + 1
  /\ UNCHANGED <<reports, collect, vote, poll, calls, owed, said, forgotten>>

GuardsNext ==
  \/ \E r \in Runs, c \in Calls : FirstReport(r, c)
  \/ \E r \in Runs, channel \in Channels : SecondReport(r, channel)
  \/ \E r \in Runs : ReplyPayloadSending(r)
  \/ Tick

GuardsSpec == GuardsInit /\ [][GuardsNext]_guardsVars

-----------------------------------------------------------------------------
(* Properties                                                              *)

\* The calls a run made between its previous final payload and payload i, by position.
Made(r, i) == (IF i = 1 THEN 1 ELSE said[r][i - 1].after + 1)..said[r][i].after

\* ... and of these the ones the vote guard was shown.
MadeSeen(r, i) == {k \in Made(r, i) : \E channel \in reports : Observed(calls[r][k], channel)}

IsStep(m, kind) == Signature(m) # Absent /\ Signature(m).step = kind

\* The two sequences of calls a ballot's sentence may stand for: of the calls s, those
\* at the positions "made".
BallotAlone(s, made) == \E k \in made : made = {k} /\ IsStep(s[k], "vote")
ReadThenBallot(s, made) ==
  \E j, k \in made :
    /\ made = {j, k} /\ j < k
    /\ IsStep(s[j], "read") /\ IsStep(s[k], "vote") /\ SamePoll(s[j].round, s[k].round)

\* A reply that says a ballot is recorded stands for one: the last call of the
\* run recorded a ballot with just that number of approvals, and as long as
\* the run's entry was not swept, nothing but one provisional read of the same
\* round came before it.
BallotSaid ==
  \A r \in Runs : \A i \in DOMAIN said[r] : said[r][i].text.by = "vote" =>
    LET made == MadeSeen(r, i)
    IN /\ \E k \in made : /\ \A j \in made : j <= k
                          /\ IsStep(calls[r][k], "vote") /\ calls[r][k].count = said[r][i].text.count
       /\ r \notin forgotten => BallotAlone(calls[r], made) \/ ReadThenBallot(calls[r], made)

\* A recorded ballot is not left to the model's own prose: a run of one of the
\* two accepted sequences, whichever channels its calls were reported on, is
\* answered with the ballot's sentence unless its entry was swept.
BallotHeard ==
  \A r \in Runs : \A i \in DOMAIN said[r] :
    /\ said[r][i].text.by # "none"
    /\ r \notin forgotten
    /\ BallotAlone(calls[r], MadeSeen(r, i)) \/ ReadThenBallot(calls[r], MadeSeen(r, i))
    => said[r][i].text.by = "vote"

\* The sentence about a round or about a collection is what the run's calls
\* since its last reply ended with: the round was read and nothing written
\* since, nor another answer about a round; the fields were collected and nothing
\* submitted since; and a sentence used once is not used again.
SentenceCurrent ==
  \A r \in Runs : \A i \in DOMAIN said[r] :
    LET made == Made(r, i)
        text == said[r][i].text
        Later(j) == {calls[r][k] : k \in {k \in made : k > j}}
    IN /\ text.by = "poll" => \E j \in made :
            /\ calls[r][j].tool = "poll_result"
            /\ calls[r][j].answer = text.kind /\ calls[r][j].round = text.round
            /\ \A c \in Later(j) : c.tool \notin Writes /\ ~ Provisional(c) /\ ~ Final(c)
       /\ text.by = "collect" => \E j \in made :
            /\ calls[r][j].tool = "collect" /\ calls[r][j].answer = "collecting"
            /\ \A c \in Later(j) : c.tool # "submit"

=============================================================================
