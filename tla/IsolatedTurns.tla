--------------------------- MODULE IsolatedTurns ----------------------------
(***************************************************************************)
(* Isolated conversations (plugins/rein-isolation): a channel receiver     *)
(* queues the events of each owner, opens a turn for each message, and the *)
(* memory tools of that turn read, write and forget the owner's notes.     *)
(*                                                                         *)
(* Everything runs in one event loop, so an action is the code between two *)
(* awaits.  A gateway restart aborts the receiver and starts another while *)
(* tasks of the old one are still running: they share turns and memory.    *)
(* What the host does during a turn (tool calls, one at a time, and final  *)
(* replies, in any order) is nondeterministic.                             *)
(***************************************************************************)
EXTENDS Naturals, Sequences, FiniteSets, SequencesExt

CONSTANTS
  Owners,         \* senders in one conversation and audience
  Events,         \* the events a channel delivers
  OwnerOf,        \* the owner of each event
  CommandOf,      \* "talk", "reset" or "forget" for each event
  Names,          \* names of notes
  None,           \* no note, no turn
  SeenLimit, OwnerLimit, TotalLimit, NoteLimit,   \* limits of the code
  MaxReceivers, MaxDeliveries, MaxChunks          \* bounds of the model

Receivers == 1..MaxReceivers

ASSUME IsolatedAssumption ==
  /\ OwnerOf \in [Events -> Owners]
  /\ CommandOf \in [Events -> {"talk", "reset", "forget"}]
  /\ None \notin Nat
  /\ {SeenLimit, OwnerLimit, TotalLimit, NoteLimit,
      MaxReceivers, MaxDeliveries, MaxChunks} \subseteq Nat \ {0}

VARIABLES
  started,     \* receivers started so far; the last one may be running
  aborted,     \* receivers whose signal is aborted
  seen,        \* per receiver, the events it has seen, oldest first
  queue,       \* per receiver and owner, the queued events; the first is running
  task,        \* per receiver and owner, where the running event is
  turns,       \* active turns: the receiver that opened each session, or None
  generation,  \* per owner, scopes.generation
  notes,       \* per owner and name, the session that wrote the note, or None
  forgotten,   \* per owner and name, the first session after its last deletion
  reply,       \* the last reply posted: its session, the generation then, or None
  committed,   \* <<receiver, event>> whose deletion was committed
  acked,       \* <<receiver, event>> whose deletion was confirmed to the sender
  unsent,      \* <<receiver, event>> whose confirmation could not be posted
  deliveries   \* events delivered so far

channel == <<started, aborted, seen, queue, deliveries>>
memory  == <<generation, notes, forgotten, committed>>
told == <<acked, unsent>>
vars == <<channel, memory, task, turns, reply, told>>

\* outcome is turn.forgetOutcome, and what /forget came to; left is what remains to post of a reply.
NoTask == [at |-> "none", session |-> 0, outcome |-> "none", left |-> 0]
Init ==
  /\ started = 0 /\ aborted = {} /\ deliveries = 0
  /\ seen = [r \in Receivers |-> <<>>]
  /\ queue = [r \in Receivers |-> [o \in Owners |-> <<>>]]
  /\ task = [r \in Receivers |-> [o \in Owners |-> NoTask]]
  /\ turns = [o \in Owners |-> [s \in 0..MaxDeliveries |-> None]]
  /\ generation = [o \in Owners |-> 0]
  /\ notes = [o \in Owners |-> [n \in Names |-> None]]
  /\ forgotten = [o \in Owners |-> [n \in Names |-> 0]]
  /\ reply = None /\ committed = {} /\ acked = {} /\ unsent = {}

-----------------------------------------------------------------------------
(* The gateway: startAccount runs until its signal is aborted, and does    *)
(* not wait for the tasks it leaves behind.                                *)

Start ==
  /\ started < MaxReceivers /\ aborted = 1..started
  /\ started' = started + 1
  /\ UNCHANGED <<aborted, seen, queue, deliveries, memory, task, turns, reply, told>>

Stop ==
  /\ started \notin aborted /\ started > 0
  /\ aborted' = aborted \cup {started}
  /\ UNCHANGED <<started, seen, queue, deliveries, memory, task, turns, reply, told>>

\* The process dies: only the notes and generations are in SQLite.
Crash ==
  /\ started > 0
  /\ aborted' = 1..started
  /\ queue' = [r \in Receivers |-> [o \in Owners |-> <<>>]]
  /\ task' = [r \in Receivers |-> [o \in Owners |-> NoTask]]
  /\ turns' = [o \in Owners |-> [s \in 0..MaxDeliveries |-> None]]
  /\ UNCHANGED <<started, seen, deliveries, memory, reply, told>>

\* createIsolatedReceiver, synchronously at receipt: an event seen before is
\* dropped; the set forgets its oldest entry; a full queue refuses the event.
Receive(r, e) ==
  LET o == OwnerOf[e]
      total == FoldFunction(LAMBDA q, n : Len(q) + n, 0, queue[r])
      recorded == Append(seen[r], e) IN
  /\ r \in 1..started \ aborted
  /\ deliveries < MaxDeliveries
  /\ e \notin ToSet(seen[r])
  /\ seen' = [seen EXCEPT ![r] = IF Len(recorded) > SeenLimit THEN Tail(recorded) ELSE recorded]
  /\ queue' = IF Len(queue[r][o]) < OwnerLimit /\ total < TotalLimit
              THEN [queue EXCEPT ![r][o] = Append(@, e)] ELSE queue
  /\ deliveries' = deliveries + 1
  /\ UNCHANGED <<started, aborted, memory, task, turns, reply, told>>

-----------------------------------------------------------------------------
(* The task of the first event in an owner's queue.                        *)

Head1(r, o) == queue[r][o][1]
Waiting(r, o) == queue[r][o] # <<>> /\ task[r][o].at = "none"
Goto(r, o, t) == task' = [task EXCEPT ![r][o] = t]
Close(r, o) == Goto(r, o, [NoTask EXCEPT !.at = "closing"])

\* The task awaits the post of its fixed confirmation.
AwaitConfirmation(r, o, outcome) ==
  Goto(r, o, [NoTask EXCEPT !.at = "confirming", !.outcome = outcome])

\* advanceGeneration and the deletion commit in one transaction.
Advance(o) == generation' = [generation EXCEPT ![o] = @ + 1]
Delete(o, names) ==
  /\ Advance(o)
  /\ notes' = [notes EXCEPT ![o] = [n \in Names |-> IF n \in names THEN None ELSE @[n]]]
  /\ forgotten' = [forgotten EXCEPT ![o] =
                     [n \in Names |-> IF n \in names THEN generation[o] + 1 ELSE @[n]]]

\* The signal was aborted before the task ran.
Skip(r, o) ==
  /\ Waiting(r, o) /\ r \in aborted
  /\ Close(r, o)
  /\ UNCHANGED <<channel, memory, turns, reply, told>>

Reset(r, o) ==
  /\ Waiting(r, o) /\ r \notin aborted
  /\ CommandOf[Head1(r, o)] = "reset"
  /\ Advance(o)
  /\ AwaitConfirmation(r, o, "none")
  /\ UNCHANGED <<channel, notes, forgotten, committed, turns, reply, told>>

\* /forget: the deletion, then its confirmation is sent off; a transaction
\* that fails ends the task without one.
Forget(r, o) ==
  /\ Waiting(r, o) /\ r \notin aborted
  /\ CommandOf[Head1(r, o)] = "forget"
  /\ \/ /\ Delete(o, Names)
        /\ committed' = committed \cup {<<r, Head1(r, o)>>}
        /\ AwaitConfirmation(r, o, "committed")
     \/ UNCHANGED memory /\ Close(r, o)
  /\ UNCHANGED <<channel, turns, reply, told>>

\* The post of a confirmation is accepted or fails. A failure ends the task
\* with an error that the gateway logs; nothing sends the confirmation again.
Confirm(r, o) ==
  LET deletion == IF task[r][o].outcome = "committed" THEN {<<r, Head1(r, o)>>} ELSE {} IN
  /\ task[r][o].at = "confirming"
  /\ \/ acked' = acked \cup deletion /\ UNCHANGED unsent
     \/ unsent' = unsent \cup deletion /\ UNCHANGED acked
  /\ Close(r, o)
  /\ UNCHANGED <<channel, memory, turns, reply>>

\* A message: its session is chosen, then the ingress is resolved.
Admit(r, o) ==
  /\ Waiting(r, o) /\ r \notin aborted
  /\ CommandOf[Head1(r, o)] = "talk"
  /\ Goto(r, o, [NoTask EXCEPT !.at = "ingress", !.session = generation[o]])
  /\ UNCHANGED <<channel, memory, turns, reply, told>>

\* turns.open: refused while the session has an active turn.
OpenTurn(r, o) ==
  LET s == task[r][o].session IN
  /\ task[r][o].at = "ingress"
  /\ IF r \notin aborted /\ turns[o][s] = None
     THEN /\ turns' = [turns EXCEPT ![o][s] = r]
          /\ Goto(r, o, [task[r][o] EXCEPT !.at = "turn"])
     ELSE Close(r, o) /\ UNCHANGED turns
  /\ UNCHANGED <<channel, memory, reply, told>>

\* The ingress is not admitted, or its resolution fails.
Refuse(r, o) ==
  /\ task[r][o].at = "ingress"
  /\ Close(r, o)
  /\ UNCHANGED <<channel, memory, turns, reply, told>>

-----------------------------------------------------------------------------
(* The turn: memory tools and replies.                                     *)

\* assertCurrent of the tools: the generation is the one of the session.
Current(r, o) == task[r][o].at = "turn" /\ generation[o] = task[r][o].session

\* Mutant: the tool trusts the invocation and does not look at the generation.
RememberStale(r, o, n) ==
  /\ task[r][o].at = "turn"
  /\ notes[o][n] = None => Cardinality({m \in Names : notes[o][m] # None}) < NoteLimit
  /\ notes' = [notes EXCEPT ![o][n] = task[r][o].session]
  /\ UNCHANGED <<channel, generation, forgotten, committed, task, turns, reply, told>>

Remember(r, o, n) ==
  /\ Current(r, o)
  /\ notes[o][n] = None => Cardinality({m \in Names : notes[o][m] # None}) < NoteLimit
  /\ notes' = [notes EXCEPT ![o][n] = task[r][o].session]
  /\ UNCHANGED <<channel, generation, forgotten, committed, task, turns, reply, told>>

\* The forget tool needs a turn that is current: not aborted, not forgotten.
MayForget(r, o) ==
  /\ Current(r, o)
  /\ turns[o][task[r][o].session] = r
  /\ r \notin aborted /\ task[r][o].outcome = "none"

ForgetTool(r, o, names) ==
  /\ MayForget(r, o)
  /\ Delete(o, names)
  /\ committed' = committed \cup {<<r, Head1(r, o)>>}
  /\ Goto(r, o, [task[r][o] EXCEPT !.outcome = "committed"])
  /\ UNCHANGED <<channel, turns, reply, told>>

ForgetToolFails(r, o) ==
  /\ MayForget(r, o)
  /\ Goto(r, o, [task[r][o] EXCEPT !.outcome = "failed"])
  /\ UNCHANGED <<channel, memory, turns, reply, told>>

Post(r, o) ==
  reply' = [owner |-> o, session |-> task[r][o].session, generation |-> generation[o]]

\* deliver: a final text, posted in chunks, unless the turn has forgotten.
Deliver(r, o, chunks) ==
  /\ task[r][o].at = "turn" /\ task[r][o].outcome = "none"
  /\ r \notin aborted
  /\ Post(r, o)
  /\ Goto(r, o, [task[r][o] EXCEPT !.at = IF chunks = 1 THEN "turn" ELSE "sending", !.left = chunks - 1])
  /\ UNCHANGED <<channel, memory, turns, told>>

\* Mutant: the signal is looked at before the first chunk only.
NextChunkAnyway(r, o) ==
  LET t == task[r][o] IN
  /\ t.at = "sending"
  /\ Post(r, o)
  /\ Goto(r, o, [t EXCEPT !.at = IF t.left = 1 THEN "turn" ELSE "sending", !.left = @ - 1])
  /\ UNCHANGED <<channel, memory, turns, told>>

\* send: the signal is looked at before every chunk; a stopped receiver, or a
\* post that failed, leaves out the rest.
NextChunk(r, o) ==
  LET t == task[r][o] IN
  /\ t.at = "sending"
  /\ \/ Goto(r, o, [t EXCEPT !.at = "turn", !.left = 0]) /\ UNCHANGED reply
     \/ /\ r \notin aborted
        /\ Post(r, o)
        /\ Goto(r, o, [t EXCEPT !.at = IF t.left = 1 THEN "turn" ELSE "sending", !.left = @ - 1])
  /\ UNCHANGED <<channel, memory, turns, told>>

\* Mutant: the turn that has forgotten was aborted, and ends without a word.
EndTurnSilent(r, o) ==
  LET t == task[r][o] IN
  /\ t.at = "turn"
  /\ turns' = [turns EXCEPT ![o][t.session] = IF @ = r THEN None ELSE @]
  /\ Close(r, o)
  /\ UNCHANGED <<channel, memory, reply, told>>

\* dispatch returns or throws: the turn is closed, and a turn that asked for a
\* deletion sends its fixed confirmation unless the receiver was stopped.
EndTurn(r, o) ==
  LET t == task[r][o] IN
  /\ t.at = "turn"
  /\ turns' = [turns EXCEPT ![o][t.session] = IF @ = r THEN None ELSE @]
  /\ IF t.outcome # "none" /\ r \notin aborted
     THEN AwaitConfirmation(r, o, t.outcome) ELSE Close(r, o)
  /\ UNCHANGED <<channel, memory, reply, told>>

\* Mutant: a stopped receiver leaves its task in the queue.
FinishUnlessStopped(r, o) ==
  /\ task[r][o].at = "closing" /\ r \notin aborted
  /\ queue' = [queue EXCEPT ![r][o] = Tail(@)]
  /\ Goto(r, o, NoTask)
  /\ UNCHANGED <<started, aborted, seen, deliveries, memory, turns, reply, told>>

\* The queue goes on with the owner's next event, whatever became of this one.
Finish(r, o) ==
  /\ task[r][o].at = "closing"
  /\ queue' = [queue EXCEPT ![r][o] = Tail(@)]
  /\ Goto(r, o, NoTask)
  /\ UNCHANGED <<started, aborted, seen, deliveries, memory, turns, reply, told>>

-----------------------------------------------------------------------------

Proceed(r, o) ==
  \/ Skip(r, o) \/ Reset(r, o) \/ Forget(r, o) \/ Admit(r, o)
  \/ Confirm(r, o) \/ OpenTurn(r, o) \/ Refuse(r, o) \/ NextChunk(r, o) \/ Finish(r, o)

Host(r, o) ==
  \/ \E n \in Names : Remember(r, o, n) \/ ForgetTool(r, o, {n})
  \/ ForgetTool(r, o, Names) \/ ForgetToolFails(r, o)
  \/ \E chunks \in 1..MaxChunks : Deliver(r, o, chunks)

Next ==
  \/ Start \/ Stop \/ Crash
  \/ \E r \in Receivers, e \in Events : Receive(r, e)
  \/ \E r \in Receivers, o \in Owners : Proceed(r, o) \/ Host(r, o) \/ EndTurn(r, o)

Spec == Init /\ [][Next]_vars

\* Promises settle, a post to the channel with or without success, and the
\* host ends every turn.
FairSpec ==
  Spec /\ \A r \in Receivers, o \in Owners :
            WF_vars(Proceed(r, o)) /\ SF_vars(EndTurn(r, o))

-----------------------------------------------------------------------------
(* Properties.                                                             *)

\* "suppresses old-context output" (docs/channel-user-isolation.md:42): no
\* reply of a session is posted after the session was reset or forgotten, by
\* its own turn or by a receiver started since.
NoStaleReply == reply # None => reply.session = reply.generation

\* A note is never written, or written again, by a session that began before
\* the note was deleted; and nobody is told of a deletion that did not happen.
ForgottenForGood ==
  /\ \A o \in Owners, n \in Names :
       notes[o][n] # None => notes[o][n] >= forgotten[o][n]
  /\ acked \subseteq committed

\* The sender of a committed deletion is told of it, unless the receiver is
\* stopped or the post of the confirmation fails: in particular a turn that
\* was aborted because it forgot something does not end without a word.
DeletionConfirmed ==
  \A r \in Receivers, e \in Events :
    <<r, e>> \in committed ~> (<<r, e>> \in acked \cup unsent \/ r \in aborted)

\* No event blocks the events queued behind it.
QueueDrains ==
  \A r \in Receivers, o \in Owners : (queue[r][o] # <<>>) ~> (queue[r][o] = <<>>)
=============================================================================
