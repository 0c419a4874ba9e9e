------------------------ MODULE IsolatedTurnsProofs -------------------------
(***************************************************************************)
(* Proofs about isolated conversations, for any owners, events and names   *)
(* of notes, any limits, and any number of restarts and deliveries.        *)
(***************************************************************************)
EXTENDS IsolatedTurns, TLAPS

Ats == {"none", "ingress", "turn", "sending", "confirming", "closing"}
Tasks == [at : Ats, session : Nat, outcome : {"none", "committed", "failed"}, left : Nat]

\* The types of the variables.
ChannelOK ==
  /\ started \in 0..MaxReceivers
  /\ aborted \subseteq 1..started
  /\ seen \in [Receivers -> Seq(Events)]
  /\ queue \in [Receivers -> [Owners -> Seq(Events)]]
  /\ deliveries \in 0..MaxDeliveries

TasksOK ==
  /\ task \in [Receivers -> [Owners -> Tasks]]
  /\ \A r \in Receivers, o \in Owners : task[r][o].at = "sending" => task[r][o].left > 0
  /\ turns \in [Owners -> [0..MaxDeliveries -> Receivers \cup {None}]]

MemoryOK ==
  /\ generation \in [Owners -> Nat]
  /\ notes \in [Owners -> [Names -> Nat \cup {None}]]
  /\ forgotten \in [Owners -> [Names -> Nat]]
  /\ committed \subseteq Receivers \X Events

TypeInvariant ==
  /\ ChannelOK /\ TasksOK /\ MemoryOK
  /\ reply \in [owner : Owners, session : Nat, generation : Nat] \cup {None}
  /\ acked \subseteq Receivers \X Events /\ unsent \subseteq Receivers \X Events

\* A receiver is started when every earlier one is aborted, and one that was
\* never started has nothing to do.
OneLive ==
  /\ \A r \in 1..started : r < started => r \in aborted
  /\ \A r \in Receivers, o \in Owners :
       queue[r][o] # <<>> \/ task[r][o].at # "none" => r <= started

\* A task runs for the first event of its queue.
TaskHasEvent ==
  \A r \in Receivers, o \in Owners : task[r][o].at # "none" => queue[r][o] # <<>>

\* As long as the receiver lives and the turn has not forgotten anything, the
\* owner is still in the session the turn was opened for.
SessionCurrent ==
  \A r \in Receivers, o \in Owners :
    /\ task[r][o].at \in {"ingress", "sending"} => task[r][o].outcome = "none"
    /\ /\ r \notin aborted
       /\ task[r][o].at \in {"ingress", "turn", "sending"}
       /\ task[r][o].outcome = "none"
       => task[r][o].session = generation[o]

\* A session that forgets a note is over when the deletion commits.
GenerationAhead == \A o \in Owners, n \in Names : forgotten[o][n] <= generation[o]

\* A turn, or a confirmation, that says its deletion is committed is right.
OutcomeTrue ==
  \A r \in Receivers, o \in Owners :
    task[r][o].at \in {"turn", "confirming"} /\ task[r][o].outcome = "committed" =>
      <<r, Head1(r, o)>> \in committed

IInv ==
  /\ TypeInvariant /\ OneLive /\ TaskHasEvent
  /\ SessionCurrent /\ GenerationAhead /\ OutcomeTrue
  /\ NoStaleReply /\ ForgottenForGood

-----------------------------------------------------------------------------

LEMMA Limits ==
  /\ MaxReceivers \in Nat /\ MaxDeliveries \in Nat /\ MaxChunks \in Nat
  /\ Receivers \subseteq Nat /\ None \notin Nat
BY IsolatedAssumption DEF Receivers

LEMMA InitInv == Init => IInv
<1> SUFFICES ASSUME Init PROVE IInv
  OBVIOUS
<1> USE Limits
<1>1. TypeInvariant
  BY DEF Init, TypeInvariant, ChannelOK, TasksOK, MemoryOK, NoTask, Tasks, Ats
<1>2. OneLive /\ TaskHasEvent /\ SessionCurrent /\ GenerationAhead /\ OutcomeTrue
  BY DEF Init, NoTask, OneLive, TaskHasEvent, SessionCurrent, GenerationAhead, OutcomeTrue
<1>3. NoStaleReply /\ ForgottenForGood
  BY DEF Init, NoStaleReply, ForgottenForGood
<1> QED
  BY <1>1, <1>2, <1>3 DEF IInv

LEMMA StartInv == IInv /\ Start => IInv'
<1> SUFFICES ASSUME IInv, Start PROVE IInv'
  OBVIOUS
<1> USE Limits DEF IInv, Start
<1>1. UNCHANGED <<queue, seen, deliveries, generation, notes, forgotten, committed, task, turns, reply, acked, unsent, aborted>>
  BY DEF memory, told
<1>2. TypeInvariant'
  BY <1>1 DEF TypeInvariant, ChannelOK, TasksOK, MemoryOK
<1>3. OneLive'
  <2>1. started \in Nat /\ started' = started + 1 /\ aborted = 1..started
    BY DEF TypeInvariant, ChannelOK
  <2>2. \A r \in 1..started' : r < started' => r \in aborted'
    BY <1>1, <2>1
  <2>3. \A r \in Receivers, o \in Owners :
          queue'[r][o] # <<>> \/ task'[r][o].at # "none" => r <= started'
    <3>1. \A r \in Receivers, o \in Owners :
            queue[r][o] # <<>> \/ task[r][o].at # "none" => r <= started
      BY DEF OneLive
    <3> QED
      BY <1>1, <2>1, <3>1
  <2> QED
    BY <2>2, <2>3 DEF OneLive
<1> QED
  BY <1>1, <1>2, <1>3 DEF TaskHasEvent, SessionCurrent, GenerationAhead, OutcomeTrue, Head1,
       NoStaleReply, ForgottenForGood

LEMMA StopInv == IInv /\ Stop => IInv'
<1> SUFFICES ASSUME IInv, Stop PROVE IInv'
  OBVIOUS
<1> USE Limits DEF IInv, Stop
<1>1. UNCHANGED <<queue, seen, deliveries, generation, notes, forgotten, committed, task, turns, reply, acked, unsent, started>>
  BY DEF memory, told
<1>2. TypeInvariant'
  BY <1>1 DEF TypeInvariant, ChannelOK, TasksOK, MemoryOK
<1>3. OneLive' /\ SessionCurrent'
  BY <1>1 DEF OneLive, SessionCurrent
<1> QED
  BY <1>1, <1>2, <1>3 DEF TaskHasEvent, GenerationAhead, OutcomeTrue, Head1,
       NoStaleReply, ForgottenForGood

LEMMA CrashInv == IInv /\ Crash => IInv'
<1> SUFFICES ASSUME IInv, Crash PROVE IInv'
  OBVIOUS
<1> USE Limits DEF IInv, Crash
<1>1. UNCHANGED <<seen, deliveries, generation, notes, forgotten, committed, reply, acked, unsent, started>>
  BY DEF memory, told
<1>2. \A r \in Receivers, o \in Owners : queue'[r][o] = <<>> /\ task'[r][o] = NoTask
  OBVIOUS
<1>3. TypeInvariant'
  BY <1>1 DEF TypeInvariant, ChannelOK, TasksOK, MemoryOK, NoTask, Tasks, Ats
<1>4. OneLive' /\ SessionCurrent' /\ TaskHasEvent' /\ OutcomeTrue'
  BY <1>1, <1>2 DEF OneLive, SessionCurrent, TaskHasEvent, OutcomeTrue, NoTask
<1> QED
  BY <1>1, <1>3, <1>4 DEF GenerationAhead, NoStaleReply, ForgottenForGood

\* A queue that takes an event keeps its first one.
LEMMA ReceiveInv ==
  ASSUME IInv, NEW r \in Receivers, NEW e \in Events, Receive(r, e)
  PROVE  IInv'
<1> DEFINE o == OwnerOf[e]
<1> USE Limits DEF IInv
<1>1. o \in Owners
  BY IsolatedAssumption
<1>2. /\ UNCHANGED <<started, aborted, generation, notes, forgotten, committed, task, turns, reply, acked, unsent>>
      /\ r \in 1..started
      /\ deliveries < MaxDeliveries /\ deliveries' = deliveries + 1
  BY DEF Receive, memory, told
<1>3. \/ queue' = queue
      \/ queue' = [queue EXCEPT ![r][o] = Append(@, e)]
  BY DEF Receive
<1>4. queue \in [Receivers -> [Owners -> Seq(Events)]] /\ seen \in [Receivers -> Seq(Events)]
  BY DEF TypeInvariant, ChannelOK
<1>5. queue' \in [Receivers -> [Owners -> Seq(Events)]]
  <2> DEFINE longer == Append(queue[r][o], e)
  <2>1. longer \in Seq(Events)
    BY <1>1, <1>4
  <2>2. queue' = queue \/ queue' = [queue EXCEPT ![r][o] = longer]
    BY <1>1, <1>3, <1>4
  <2> HIDE DEF longer, o
  <2>3. [queue[r] EXCEPT ![o] = longer] \in [Owners -> Seq(Events)]
    BY <2>1, <1>1, <1>4
  <2> QED
    BY <2>2, <2>3, <1>4
<1>6. seen' \in [Receivers -> Seq(Events)]
  <2> DEFINE recorded == Append(seen[r], e)
  <2>0. seen[r] \in Seq(Events)
    BY <1>4
  <2>1. recorded \in Seq(Events) /\ recorded # <<>>
    BY <2>0
  <2>2. Tail(recorded) \in Seq(Events)
    BY <2>1
  <2>3. seen' = [seen EXCEPT ![r] = recorded] \/ seen' = [seen EXCEPT ![r] = Tail(recorded)]
    BY DEF Receive
  <2> HIDE DEF recorded
  <2> QED
    BY <2>1, <2>2, <2>3, <1>4
<1>7. TypeInvariant'
  BY <1>2, <1>5, <1>6 DEF TypeInvariant, ChannelOK, TasksOK, MemoryOK
<1>8. ASSUME NEW q \in Receivers, NEW p \in Owners
      PROVE  /\ queue[q][p] # <<>> => queue'[q][p] # <<>> /\ Head1(q, p)' = Head1(q, p)
             /\ queue'[q][p] # <<>> => queue[q][p] # <<>> \/ q = r
  <2>1. CASE queue'[q][p] = queue[q][p]
    BY <2>1 DEF Head1
  <2>2. CASE queue'[q][p] # queue[q][p]
    <3>1. q = r /\ queue'[q][p] = Append(queue[q][p], e) /\ queue[q][p] \in Seq(Events)
      BY <2>2, <1>1, <1>3, <1>4
    <3> QED
      BY <3>1 DEF Head1
  <2> QED
    BY <2>1, <2>2
<1>9. OneLive' /\ TaskHasEvent' /\ OutcomeTrue'
  BY <1>2, <1>8 DEF OneLive, TaskHasEvent, OutcomeTrue
<1> QED
  BY <1>2, <1>7, <1>9 DEF SessionCurrent, GenerationAhead, NoStaleReply, ForgottenForGood

-----------------------------------------------------------------------------
(* The steps of a task.                                                    *)

\* Only the receiver that lives can be the one a step that ends a session
\* belongs to.
LEMMA SameReceiver ==
  ASSUME OneLive, ChannelOK,
         NEW r \in Receivers, r \notin aborted, r <= started,
         NEW q \in Receivers, q \notin aborted, q <= started
  PROVE  q = r
BY Limits DEF OneLive, ChannelOK, Receivers

LEMMA GotoEffect ==
  ASSUME TasksOK, NEW r \in Receivers, NEW o \in Owners, NEW t \in Tasks, Goto(r, o, t)
  PROVE  /\ task' \in [Receivers -> [Owners -> Tasks]]
         /\ task'[r][o] = t
         /\ \A q \in Receivers, p \in Owners : q # r \/ p # o => task'[q][p] = task[q][p]
<1>1. [task[r] EXCEPT ![o] = t] \in [Owners -> Tasks]
  BY DEF TasksOK
<1> QED
  BY <1>1 DEF TasksOK, Goto

\* A task goes on with the queues as they are: what it has to bring with it.
LEMMA TaskStep ==
  ASSUME IInv, NEW r \in Receivers, NEW o \in Owners, NEW t \in Tasks,
         Goto(r, o, t), UNCHANGED channel,
         queue[r][o] # <<>>,
         TasksOK => turns' \in [Owners -> [0..MaxDeliveries -> Receivers \cup {None}]],
         t.at = "sending" => t.left > 0,
         t.at \in {"ingress", "sending"} => t.outcome = "none",
         \A p \in Owners : p # o => generation'[p] = generation[p],
         generation'[o] # generation[o] => r \notin aborted,
         /\ r \notin aborted
         /\ t.at \in {"ingress", "turn", "sending"}
         /\ t.outcome = "none"
         => t.session = generation'[o],
         committed \subseteq committed',
         t.at \in {"turn", "confirming"} /\ t.outcome = "committed" => <<r, Head1(r, o)>> \in committed'
  PROVE  ChannelOK' /\ TasksOK' /\ OneLive' /\ TaskHasEvent' /\ SessionCurrent' /\ OutcomeTrue'
<1> USE Limits DEF IInv, TypeInvariant
<1>1. UNCHANGED <<started, aborted, seen, queue, deliveries>>
  BY DEF channel
<1>2. /\ task' \in [Receivers -> [Owners -> Tasks]]
      /\ task'[r][o] = t
      /\ \A q \in Receivers, p \in Owners : q # r \/ p # o => task'[q][p] = task[q][p]
  BY GotoEffect
<1>3. ChannelOK' /\ TasksOK'
  BY ZenonT(60), <1>1, <1>2 DEF ChannelOK, TasksOK
<1>4. OneLive' /\ TaskHasEvent'
  <2>1. r <= started
    BY DEF OneLive
  <2>2. OneLive'
    BY <2>1, <1>1, <1>2 DEF OneLive
  <2>3. TaskHasEvent'
    BY <1>1, <1>2 DEF TaskHasEvent
  <2> QED
    BY <2>2, <2>3
<1>5. OutcomeTrue'
  BY ZenonT(60), <1>1, <1>2 DEF OutcomeTrue, Head1
<1>6. ASSUME NEW q \in Receivers, NEW p \in Owners,
             q \notin aborted',
             task'[q][p].at \in {"ingress", "turn", "sending"},
             task'[q][p].outcome = "none"
      PROVE  task'[q][p].session = generation'[p]
  <2>1. CASE q = r /\ p = o
    BY <2>1, <1>1, <1>2, <1>6
  <2>2. CASE ~(q = r /\ p = o)
    <3>1. task'[q][p] = task[q][p] /\ task[q][p].session = generation[p]
      BY <2>2, <1>1, <1>2, <1>6 DEF SessionCurrent
    <3>2. CASE p = o /\ generation'[o] # generation[o]
      <4>1. q <= started /\ r <= started
        BY <3>1, <1>6 DEF OneLive
      <4> QED
        BY <4>1, <3>2, <2>2, <1>1, <1>6, SameReceiver
    <3> QED
      BY <3>1, <3>2
  <2> QED
    BY <2>1, <2>2
<1>7. SessionCurrent'
  <2>1. ASSUME NEW q \in Receivers, NEW p \in Owners, task'[q][p].at \in {"ingress", "sending"}
        PROVE  task'[q][p].outcome = "none"
    <3>1. CASE q = r /\ p = o
      BY <3>1, <2>1, <1>2
    <3>2. CASE ~(q = r /\ p = o)
      <4>1. task'[q][p] = task[q][p]
        BY <3>2, <1>2
      <4> QED
        BY <4>1, <2>1 DEF SessionCurrent
    <3> QED
      BY <3>1, <3>2
  <2> QED
    BY <2>1, <1>6 DEF SessionCurrent
<1> QED
  BY <1>3, <1>4, <1>5, <1>7

\* A step that leaves the memory alone and posts nothing needs no more.
LEMMA QuietStep ==
  ASSUME IInv, NEW r \in Receivers, NEW o \in Owners, NEW t \in Tasks,
         Goto(r, o, t), UNCHANGED channel, UNCHANGED memory, UNCHANGED reply,
         queue[r][o] # <<>>,
         TasksOK => turns' \in [Owners -> [0..MaxDeliveries -> Receivers \cup {None}]],
         t.at # "sending",
         t.at = "ingress" => t.outcome = "none",
         /\ r \notin aborted
         /\ t.at \in {"ingress", "turn"}
         /\ t.outcome = "none"
         => t.session = generation[o],
         t.at \in {"turn", "confirming"} /\ t.outcome = "committed" => <<r, Head1(r, o)>> \in committed,
         acked' \subseteq committed, unsent' \subseteq Receivers \X Events
  PROVE  IInv'
<1> USE DEF IInv
<1>1. UNCHANGED <<generation, notes, forgotten, committed>>
  BY DEF memory, told
<1>2. ChannelOK' /\ TasksOK' /\ OneLive' /\ TaskHasEvent' /\ SessionCurrent' /\ OutcomeTrue'
  BY <1>1, TaskStep
<1>3. TypeInvariant'
  BY <1>1, <1>2 DEF TypeInvariant, MemoryOK
<1> QED
  BY <1>1, <1>2, <1>3 DEF GenerationAhead, NoStaleReply, ForgottenForGood
\* A task that waits, and one that has begun, have an event.
LEMMA TaskFacts ==
  ASSUME IInv, NEW r \in Receivers, NEW o \in Owners
  PROVE  /\ task[r][o] \in Tasks
         /\ Waiting(r, o) \/ task[r][o].at # "none" => queue[r][o] # <<>>
         /\ <<r, Head1(r, o)>> \in Receivers \X Events \/ queue[r][o] = <<>>
<1>1. task[r][o] \in Tasks /\ queue[r][o] \in Seq(Events)
  BY DEF IInv, TypeInvariant, TasksOK, ChannelOK
<1>2. queue[r][o] # <<>> => queue[r][o][1] \in Events
  BY <1>1
<1> QED
  BY <1>1, <1>2 DEF IInv, TaskHasEvent, Waiting, Head1

LEMMA ClosingTask == [NoTask EXCEPT !.at = "closing"] \in Tasks
BY DEF NoTask, Tasks, Ats

\* A task that awaits its confirmation.
LEMMA ConfirmingTask ==
  ASSUME NEW outcome \in {"none", "committed", "failed"}
  PROVE  LET t == [NoTask EXCEPT !.at = "confirming", !.outcome = outcome]
         IN  t \in Tasks /\ t.at = "confirming" /\ t.outcome = outcome
BY DEF NoTask, Tasks, Ats

\* The deletion of some notes of an owner whose receiver lives.
LEMMA DeleteEffect ==
  ASSUME IInv, NEW o \in Owners, NEW names \in SUBSET Names, Delete(o, names),
         NEW c \in Receivers \X Events, committed' = committed \cup {c}
  PROVE  /\ MemoryOK' /\ GenerationAhead'
         /\ \A p \in Owners : p # o => generation'[p] = generation[p]
         /\ \A p \in Owners, n \in Names :
              notes'[p][n] # None => notes'[p][n] >= forgotten'[p][n]
<1> USE Limits DEF IInv
<1>1. MemoryOK
  BY DEF TypeInvariant
<1>2. generation' = [generation EXCEPT ![o] = @ + 1] /\ generation' \in [Owners -> Nat]
  BY <1>1 DEF Delete, Advance, MemoryOK
<1> DEFINE kept == [n \in Names |-> IF n \in names THEN None ELSE notes[o][n]]
           last == [n \in Names |-> IF n \in names THEN generation[o] + 1 ELSE forgotten[o][n]]
<1>3. notes' = [notes EXCEPT ![o] = kept] /\ forgotten' = [forgotten EXCEPT ![o] = last]
  BY <1>1 DEF Delete, MemoryOK
<1>4. kept \in [Names -> Nat \cup {None}] /\ last \in [Names -> Nat]
  BY <1>1 DEF MemoryOK
<1>5. MemoryOK'
  BY <1>1, <1>2, <1>3, <1>4 DEF MemoryOK
<1>6. ASSUME NEW p \in Owners, NEW n \in Names
      PROVE  /\ forgotten'[p][n] <= generation'[p]
             /\ notes'[p][n] # None => notes'[p][n] >= forgotten'[p][n]
  <2>1. CASE p = o
    BY <2>1, <1>1, <1>2, <1>3 DEF MemoryOK, GenerationAhead, ForgottenForGood
  <2>2. CASE p # o
    <3>1. forgotten'[p] = forgotten[p] /\ notes'[p] = notes[p] /\ generation'[p] = generation[p]
      BY <2>2, <1>1, <1>2, <1>3 DEF MemoryOK
    <3> QED
      BY <3>1 DEF GenerationAhead, ForgottenForGood
  <2> QED
    BY <2>1, <2>2
<1> QED
  BY <1>1, <1>2, <1>5, <1>6 DEF GenerationAhead, MemoryOK

LEMMA SkipInv ==
  ASSUME IInv, NEW r \in Receivers, NEW o \in Owners, Skip(r, o)
  PROVE  IInv'
<1> DEFINE t == [NoTask EXCEPT !.at = "closing"]
<1>1. t \in Tasks /\ Goto(r, o, t) /\ t.at = "closing" /\ queue[r][o] # <<>>
  BY ClosingTask, TaskFacts DEF Skip, Close, NoTask
<1>2. UNCHANGED channel /\ UNCHANGED memory /\ UNCHANGED reply /\ turns' = turns /\ acked' = acked /\ unsent' = unsent
  BY DEF told, Skip
<1>3. acked \subseteq committed /\ unsent \subseteq Receivers \X Events
  BY DEF IInv, ForgottenForGood, TypeInvariant
<1> HIDE DEF t
<1> QED
  BY <1>1, <1>2, <1>3, QuietStep DEF TasksOK

LEMMA ResetInv ==
  ASSUME IInv, NEW r \in Receivers, NEW o \in Owners, Reset(r, o)
  PROVE  IInv'
<1> DEFINE t == [NoTask EXCEPT !.at = "confirming", !.outcome = "none"]
<1>1. t \in Tasks /\ Goto(r, o, t) /\ t.at = "confirming" /\ t.outcome = "none" /\ queue[r][o] # <<>> /\ r \notin aborted
  BY ConfirmingTask, TaskFacts DEF Reset, AwaitConfirmation
<1>2. UNCHANGED channel /\ UNCHANGED <<notes, forgotten, committed, turns, reply, acked, unsent>> /\ Advance(o)
  BY DEF Reset, told
<1>3. MemoryOK
  BY DEF IInv, TypeInvariant
<1>4. /\ MemoryOK'
      /\ \A p \in Owners : generation'[p] >= generation[p]
      /\ \A p \in Owners : p # o => generation'[p] = generation[p]
  BY <1>2, <1>3 DEF MemoryOK, Advance
<1> HIDE DEF t
<1>5. ChannelOK' /\ TasksOK' /\ OneLive' /\ TaskHasEvent' /\ SessionCurrent' /\ OutcomeTrue'
  BY <1>1, <1>2, <1>4, TaskStep DEF TasksOK
<1>6. GenerationAhead'
  BY <1>2, <1>3, <1>4 DEF GenerationAhead, IInv, MemoryOK
<1> QED
  BY <1>2, <1>4, <1>5, <1>6 DEF IInv, TypeInvariant, NoStaleReply, ForgottenForGood

LEMMA ForgetInv ==
  ASSUME IInv, NEW r \in Receivers, NEW o \in Owners, Forget(r, o)
  PROVE  IInv'
<1> DEFINE closing    == [NoTask EXCEPT !.at = "closing"]
           confirming == [NoTask EXCEPT !.at = "confirming", !.outcome = "committed"]
           c == <<r, Head1(r, o)>>
<1>1. queue[r][o] # <<>> /\ r \notin aborted
  BY TaskFacts DEF Forget
<1>2. UNCHANGED channel /\ turns' = turns /\ reply' = reply /\ acked' = acked /\ unsent' = unsent
  BY DEF Forget, told
<1>3. acked \subseteq committed /\ unsent \subseteq Receivers \X Events
  BY DEF IInv, ForgottenForGood, TypeInvariant
<1>4. c \in Receivers \X Events
  BY <1>1, TaskFacts
<1>5. CASE UNCHANGED memory /\ Goto(r, o, closing)
  <2>1. closing \in Tasks /\ closing.at = "closing"
    BY ClosingTask DEF NoTask
  <2> HIDE DEF closing
  <2> QED
    BY <1>1, <1>2, <1>3, <1>5, <2>1, QuietStep DEF TasksOK
<1>6. CASE Delete(o, Names) /\ committed' = committed \cup {c} /\ Goto(r, o, confirming)
  <2>1. confirming \in Tasks /\ confirming.at = "confirming" /\ confirming.outcome = "committed"
    BY ConfirmingTask
  <2>2. /\ MemoryOK' /\ GenerationAhead'
        /\ \A p \in Owners : p # o => generation'[p] = generation[p]
        /\ \A p \in Owners, n \in Names :
             notes'[p][n] # None => notes'[p][n] >= forgotten'[p][n]
    BY <1>4, <1>6, DeleteEffect
  <2>3. <<r, Head1(r, o)>> \in committed' /\ committed \subseteq committed'
    BY <1>6
  <2> HIDE DEF confirming, c
  <2>4. ChannelOK' /\ TasksOK' /\ OneLive' /\ TaskHasEvent' /\ SessionCurrent' /\ OutcomeTrue'
    BY <1>1, <1>2, <1>6, <2>1, <2>2, <2>3, TaskStep DEF TasksOK
  <2>5. TypeInvariant'
    BY <1>2, <2>2, <2>4 DEF IInv, TypeInvariant
  <2>6. ForgottenForGood' /\ NoStaleReply'
    BY <1>2, <1>3, <2>2, <2>3 DEF IInv, NoStaleReply, ForgottenForGood
  <2> QED
    BY <2>2, <2>4, <2>5, <2>6 DEF IInv
<1> QED
  BY <1>5, <1>6 DEF Forget, Close, AwaitConfirmation

\* The confirmation of a deletion tells of one that was committed.
LEMMA ConfirmInv ==
  ASSUME IInv, NEW r \in Receivers, NEW o \in Owners, Confirm(r, o)
  PROVE  IInv'
<1> DEFINE t == [NoTask EXCEPT !.at = "closing"]
           deletion == IF task[r][o].outcome = "committed" THEN {<<r, Head1(r, o)>>} ELSE {}
<1>1. /\ t \in Tasks /\ Goto(r, o, t) /\ t.at = "closing" /\ queue[r][o] # <<>>
      /\ task[r][o].at = "confirming"
  BY ClosingTask, TaskFacts DEF Confirm, Close, NoTask
<1>2. UNCHANGED channel /\ UNCHANGED memory /\ UNCHANGED reply /\ turns' = turns
  BY DEF Confirm
<1>3. deletion \subseteq committed /\ committed \subseteq Receivers \X Events
  BY <1>1 DEF IInv, OutcomeTrue, TypeInvariant, MemoryOK
<1>4. /\ acked' = acked \/ acked' = acked \cup deletion
      /\ unsent' = unsent \/ unsent' = unsent \cup deletion
  BY DEF Confirm
<1>5. acked' \subseteq committed /\ unsent' \subseteq Receivers \X Events
  BY <1>3, <1>4 DEF IInv, ForgottenForGood, TypeInvariant
<1> HIDE DEF t
<1> QED
  BY <1>1, <1>2, <1>5, QuietStep DEF TasksOK

LEMMA AdmitInv ==
  ASSUME IInv, NEW r \in Receivers, NEW o \in Owners, Admit(r, o)
  PROVE  IInv'
<1> DEFINE t == [NoTask EXCEPT !.at = "ingress", !.session = generation[o]]
<1>1. generation[o] \in Nat
  BY DEF IInv, TypeInvariant, MemoryOK
<1>2. /\ t \in Tasks /\ Goto(r, o, t) /\ queue[r][o] # <<>>
      /\ t.at = "ingress" /\ t.session = generation[o] /\ t.outcome = "none"
  BY <1>1, TaskFacts DEF Admit, NoTask, Tasks, Ats
<1>3. UNCHANGED channel /\ UNCHANGED memory /\ UNCHANGED reply /\ turns' = turns /\ acked' = acked /\ unsent' = unsent
  BY DEF told, Admit
<1>4. acked \subseteq committed /\ unsent \subseteq Receivers \X Events
  BY DEF IInv, ForgottenForGood, TypeInvariant
<1> HIDE DEF t
<1> QED
  BY <1>2, <1>3, <1>4, QuietStep DEF TasksOK

LEMMA OpenTurnInv ==
  ASSUME IInv, NEW r \in Receivers, NEW o \in Owners, OpenTurn(r, o)
  PROVE  IInv'
<1> DEFINE closing == [NoTask EXCEPT !.at = "closing"]
           opened  == [task[r][o] EXCEPT !.at = "turn"]
<1>1. /\ task[r][o] \in Tasks /\ queue[r][o] # <<>>
      /\ task[r][o].at = "ingress" /\ task[r][o].outcome = "none"
  BY TaskFacts DEF OpenTurn, IInv, SessionCurrent
<1>2. UNCHANGED channel /\ UNCHANGED memory /\ UNCHANGED reply /\ acked' = acked /\ unsent' = unsent
  BY DEF told, OpenTurn
<1>3. acked \subseteq committed /\ unsent \subseteq Receivers \X Events
  BY DEF IInv, ForgottenForGood, TypeInvariant
<1>4. CASE Goto(r, o, opened) /\ turns' = [turns EXCEPT ![o][task[r][o].session] = r]
  <2>1. /\ opened \in Tasks /\ opened.at = "turn"
        /\ opened.session = task[r][o].session /\ opened.outcome = "none"
    BY <1>1, <1>4 DEF Tasks, Ats
  <2>2. r \notin aborted => opened.session = generation[o]
    BY <1>1, <1>4, <2>1 DEF IInv, SessionCurrent
  <2>3. TasksOK => turns' \in [Owners -> [0..MaxDeliveries -> Receivers \cup {None}]]
    BY <1>4 DEF TasksOK
  <2> HIDE DEF opened
  <2> QED
    BY <1>1, <1>2, <1>3, <1>4, <2>1, <2>2, <2>3, QuietStep
<1>5. CASE Goto(r, o, closing) /\ UNCHANGED turns
  <2>1. closing \in Tasks /\ closing.at = "closing"
    BY ClosingTask DEF NoTask
  <2> HIDE DEF closing
  <2> QED
    BY <1>1, <1>2, <1>3, <1>5, <2>1, QuietStep DEF TasksOK
<1> QED
  BY <1>4, <1>5 DEF OpenTurn, Close

LEMMA RefuseInv ==
  ASSUME IInv, NEW r \in Receivers, NEW o \in Owners, Refuse(r, o)
  PROVE  IInv'
<1> DEFINE t == [NoTask EXCEPT !.at = "closing"]
<1>1. t \in Tasks /\ Goto(r, o, t) /\ t.at = "closing" /\ queue[r][o] # <<>>
  BY ClosingTask, TaskFacts DEF Refuse, Close, NoTask
<1>2. UNCHANGED channel /\ UNCHANGED memory /\ UNCHANGED reply /\ turns' = turns /\ acked' = acked /\ unsent' = unsent
  BY DEF told, Refuse
<1>3. acked \subseteq committed /\ unsent \subseteq Receivers \X Events
  BY DEF IInv, ForgottenForGood, TypeInvariant
<1> HIDE DEF t
<1> QED
  BY <1>1, <1>2, <1>3, QuietStep DEF TasksOK

\* A task that posts while its receiver lives posts in its owner's session.
LEMMA PostStep ==
  ASSUME IInv, NEW r \in Receivers, NEW o \in Owners, NEW t \in Tasks,
         Post(r, o), Goto(r, o, t), UNCHANGED <<channel, memory, turns, told>>,
         r \notin aborted,
         task[r][o].at \in {"turn", "sending"}, task[r][o].outcome = "none",
         t.at \in {"turn", "sending"}, t.at = "sending" => t.left > 0,
         t.outcome = "none", t.session = task[r][o].session
  PROVE  IInv'
<1> USE DEF IInv
<1>1. UNCHANGED <<generation, notes, forgotten, committed, turns, acked, unsent>> /\ UNCHANGED channel
  BY DEF memory, told
<1>2. task[r][o] \in Tasks /\ task[r][o].session = generation[o] /\ queue[r][o] # <<>>
  BY TaskFacts DEF SessionCurrent
<1>3. ChannelOK' /\ TasksOK' /\ OneLive' /\ TaskHasEvent' /\ SessionCurrent' /\ OutcomeTrue'
  BY <1>1, <1>2, TaskStep DEF TasksOK
<1>4. reply' = [owner |-> o, session |-> generation[o], generation |-> generation[o]] /\ generation[o] \in Nat
  BY <1>2 DEF Post, TypeInvariant, MemoryOK
<1>5. TypeInvariant' /\ NoStaleReply'
  BY <1>1, <1>3, <1>4 DEF TypeInvariant, MemoryOK, NoStaleReply
<1> QED
  BY <1>1, <1>3, <1>5 DEF GenerationAhead, ForgottenForGood

LEMMA DeliverInv ==
  ASSUME IInv, NEW r \in Receivers, NEW o \in Owners,
         NEW chunks \in 1..MaxChunks, Deliver(r, o, chunks)
  PROVE  IInv'
<1> DEFINE a == IF chunks = 1 THEN "turn" ELSE "sending"
           l == chunks - 1
           t == [task[r][o] EXCEPT !.at = a, !.left = l]
<1>1. task[r][o] \in Tasks /\ a \in Ats /\ l \in Nat /\ a \in {"turn", "sending"} /\ (a = "sending" => l > 0)
  <2>1. task[r][o] \in Tasks
    BY TaskFacts
  <2>2. chunks \in Nat /\ chunks > 0
    BY Limits
  <2> QED
    BY <2>1, <2>2 DEF Ats
<1>2. /\ t \in Tasks /\ t.at = a /\ t.left = l
      /\ t.session = task[r][o].session /\ t.outcome = task[r][o].outcome
  <2> DEFINE k == task[r][o]
  <2>1. t = [k EXCEPT !.at = a, !.left = l] /\ k \in Tasks
    BY <1>1
  <2> HIDE DEF a, l, t, k
  <2>2. t.at = a /\ t.left = l /\ t.session = k.session /\ t.outcome = k.outcome /\ t \in Tasks
    BY <1>1, <2>1 DEF Tasks
  <2> QED
    BY <2>2 DEF k
<1>3. /\ Post(r, o) /\ Goto(r, o, t) /\ UNCHANGED <<channel, memory, turns, told>>
      /\ r \notin aborted /\ task[r][o].at = "turn" /\ task[r][o].outcome = "none"
  BY DEF Deliver
<1> HIDE DEF t, a, l
<1> QED
  BY <1>1, <1>2, <1>3, PostStep

LEMMA NextChunkInv ==
  ASSUME IInv, NEW r \in Receivers, NEW o \in Owners, NextChunk(r, o)
  PROVE  IInv'
<1> DEFINE stopped == [task[r][o] EXCEPT !.at = "turn", !.left = 0]
           a == IF task[r][o].left = 1 THEN "turn" ELSE "sending"
           l == task[r][o].left - 1
           t == [task[r][o] EXCEPT !.at = a, !.left = l]
<1>1. /\ task[r][o] \in Tasks /\ queue[r][o] # <<>> /\ task[r][o].at = "sending"
      /\ task[r][o].outcome = "none" /\ task[r][o].left > 0
  BY TaskFacts DEF NextChunk, IInv, SessionCurrent, TypeInvariant, TasksOK
<1>2. /\ UNCHANGED <<channel, memory, turns, told>> /\ acked' = acked /\ unsent' = unsent
      /\ acked \subseteq committed /\ unsent \subseteq Receivers \X Events
  BY DEF NextChunk, told, IInv, ForgottenForGood, TypeInvariant
<1>3. CASE Goto(r, o, stopped) /\ reply' = reply
  <2>1. /\ stopped \in Tasks /\ stopped.at = "turn" /\ stopped.outcome = "none"
        /\ stopped.session = task[r][o].session
    BY <1>1 DEF Tasks, Ats
  <2>2. r \notin aborted => stopped.session = generation[o]
    BY <1>1, <2>1 DEF IInv, SessionCurrent
  <2> HIDE DEF stopped
  <2> QED
    BY <1>1, <1>2, <1>3, <2>1, <2>2, QuietStep DEF TasksOK
<1>4. CASE r \notin aborted /\ Post(r, o) /\ Goto(r, o, t)
  <2>1. a \in Ats /\ l \in Nat /\ a \in {"turn", "sending"} /\ (a = "sending" => l > 0)
    BY <1>1 DEF Tasks, Ats
  <2>2. /\ t \in Tasks /\ t.at = a /\ t.left = l
        /\ t.session = task[r][o].session /\ t.outcome = task[r][o].outcome
    <3> DEFINE k == task[r][o]
    <3>1. t = [k EXCEPT !.at = a, !.left = l] /\ k \in Tasks
      BY <1>1
    <3> HIDE DEF a, l, t, k
    <3>2. t.at = a /\ t.left = l /\ t.session = k.session /\ t.outcome = k.outcome /\ t \in Tasks
      BY <2>1, <3>1 DEF Tasks
    <3> QED
      BY <3>2 DEF k
  <2> HIDE DEF t, a, l
  <2> QED
    BY <1>1, <1>2, <1>4, <2>1, <2>2, PostStep
<1> QED
  BY <1>3, <1>4 DEF NextChunk

LEMMA FinishInv ==
  ASSUME IInv, NEW r \in Receivers, NEW o \in Owners, Finish(r, o)
  PROVE  IInv'
<1> USE Limits DEF IInv
<1>1. /\ UNCHANGED <<started, aborted, seen, deliveries, turns, reply, acked, unsent>>
      /\ UNCHANGED <<generation, notes, forgotten, committed>>
      /\ task[r][o].at = "closing"
  BY DEF Finish, memory, told
<1>2. /\ task' \in [Receivers -> [Owners -> Tasks]]
      /\ task'[r][o] = NoTask
      /\ \A q \in Receivers, p \in Owners : q # r \/ p # o => task'[q][p] = task[q][p]
  <2>1. NoTask \in Tasks
    BY DEF NoTask, Tasks, Ats
  <2> QED
    BY <2>1, GotoEffect DEF Finish, TypeInvariant
<1> DEFINE rest == Tail(queue[r][o])
<1>3. queue[r][o] \in Seq(Events) /\ queue[r][o] # <<>>
  BY <1>1 DEF TypeInvariant, ChannelOK, TaskHasEvent
<1>4. rest \in Seq(Events) /\ queue' = [queue EXCEPT ![r][o] = rest]
  BY <1>3 DEF Finish
<1> HIDE DEF rest
<1>5. /\ queue' \in [Receivers -> [Owners -> Seq(Events)]]
      /\ \A q \in Receivers, p \in Owners : q # r \/ p # o => queue'[q][p] = queue[q][p]
  <2>1. queue \in [Receivers -> [Owners -> Seq(Events)]]
    BY DEF TypeInvariant, ChannelOK
  <2>2. [queue[r] EXCEPT ![o] = rest] \in [Owners -> Seq(Events)]
    BY <2>1, <1>4
  <2> QED
    BY <2>1, <2>2, <1>4
<1>6. TypeInvariant'
  <2>1. ASSUME NEW q \in Receivers, NEW p \in Owners, task'[q][p].at = "sending"
        PROVE  task'[q][p].left > 0
    <3>1. task'[q][p] = task[q][p]
      BY <2>1, <1>2 DEF NoTask
    <3> QED
      BY <3>1, <2>1 DEF TypeInvariant, TasksOK
  <2> QED
    BY <2>1, <1>1, <1>2, <1>5 DEF TypeInvariant, ChannelOK, TasksOK, MemoryOK
<1>7. OneLive' /\ TaskHasEvent'
  <2>1. r <= started
    BY <1>3 DEF OneLive
  <2>2. OneLive'
    BY <2>1, <1>1, <1>2, <1>5 DEF OneLive
  <2>3. ASSUME NEW q \in Receivers, NEW p \in Owners, task'[q][p].at # "none"
        PROVE  queue'[q][p] # <<>>
    <3>1. q # r \/ p # o
      BY <2>3, <1>2 DEF NoTask
    <3>2. task'[q][p] = task[q][p] /\ queue'[q][p] = queue[q][p]
      BY <3>1, <1>2, <1>5
    <3> QED
      BY <3>2, <2>3 DEF TaskHasEvent
  <2> QED
    BY <2>2, <2>3 DEF TaskHasEvent
<1>8. SessionCurrent'
  BY <1>1, <1>2 DEF SessionCurrent, NoTask
<1>9. OutcomeTrue'
  <2> SUFFICES ASSUME NEW q \in Receivers, NEW p \in Owners,
                      task'[q][p].at \in {"turn", "confirming"}, task'[q][p].outcome = "committed"
               PROVE  <<q, Head1(q, p)'>> \in committed'
    BY DEF OutcomeTrue
  <2>1. q # r \/ p # o
    BY <1>2 DEF NoTask
  <2>2. Head1(q, p)' = Head1(q, p) /\ task'[q][p] = task[q][p]
    BY <2>1, <1>2, <1>5 DEF Head1
  <2> QED
    BY <2>2, <1>1 DEF OutcomeTrue
<1> QED
  BY <1>1, <1>6, <1>7, <1>8, <1>9 DEF GenerationAhead, NoStaleReply, ForgottenForGood

-----------------------------------------------------------------------------
(* The memory tools, and the end of a turn.                                *)

LEMMA RememberInv ==
  ASSUME IInv, NEW r \in Receivers, NEW o \in Owners, NEW n \in Names, Remember(r, o, n)
  PROVE  IInv'
<1> USE DEF IInv
<1>1. /\ UNCHANGED <<generation, forgotten, committed, task, turns, reply, acked, unsent>>
      /\ UNCHANGED <<started, aborted, seen, queue, deliveries>>
      /\ task[r][o].session = generation[o]
  BY DEF Remember, Current, channel, told
<1>2. generation[o] \in Nat /\ forgotten[o][n] \in Nat /\ forgotten[o][n] <= generation[o]
  BY DEF TypeInvariant, MemoryOK, GenerationAhead
<1> DEFINE kept == [notes[o] EXCEPT ![n] = generation[o]]
<1>3. kept \in [Names -> Nat \cup {None}] /\ notes' = [notes EXCEPT ![o] = kept]
  BY <1>1, <1>2 DEF Remember, TypeInvariant, MemoryOK
<1>4. kept[n] = generation[o] /\ \A m \in Names : m # n => kept[m] = notes[o][m]
  BY DEF TypeInvariant, MemoryOK
<1> HIDE DEF kept
<1>5. notes' \in [Owners -> [Names -> Nat \cup {None}]]
  BY <1>3 DEF TypeInvariant, MemoryOK
<1>6. TypeInvariant'
  BY <1>1, <1>5 DEF TypeInvariant, MemoryOK, ChannelOK, TasksOK
<1>7. ASSUME NEW p \in Owners, NEW m \in Names, notes'[p][m] # None
      PROVE  notes'[p][m] >= forgotten'[p][m]
  <2>1. CASE p = o /\ m = n
    BY <2>1, <1>1, <1>2, <1>3, <1>4 DEF TypeInvariant, MemoryOK
  <2>2. CASE ~(p = o /\ m = n)
    <3>1. notes'[p][m] = notes[p][m]
      BY <2>2, <1>3, <1>4 DEF TypeInvariant, MemoryOK
    <3> QED
      BY <3>1, <1>1, <1>7 DEF ForgottenForGood
  <2> QED
    BY <2>1, <2>2
<1>8. OneLive' /\ TaskHasEvent' /\ SessionCurrent' /\ OutcomeTrue' /\ GenerationAhead' /\ NoStaleReply'
  BY <1>1 DEF OneLive, TaskHasEvent, SessionCurrent, OutcomeTrue, GenerationAhead, NoStaleReply, Head1
<1> QED
  BY <1>1, <1>6, <1>7, <1>8 DEF ForgottenForGood

LEMMA ForgetToolInv ==
  ASSUME IInv, NEW r \in Receivers, NEW o \in Owners, NEW names \in SUBSET Names,
         ForgetTool(r, o, names)
  PROVE  IInv'
<1> DEFINE t == [task[r][o] EXCEPT !.outcome = "committed"]
           c == <<r, Head1(r, o)>>
<1>1. task[r][o] \in Tasks /\ task[r][o].at = "turn" /\ queue[r][o] # <<>> /\ r \notin aborted
  BY TaskFacts DEF ForgetTool, MayForget, Current
<1>2. t \in Tasks /\ t.at = "turn" /\ t.outcome = "committed"
  BY <1>1 DEF Tasks
<1>3. /\ Goto(r, o, t) /\ Delete(o, names) /\ committed' = committed \cup {c}
      /\ UNCHANGED channel /\ turns' = turns /\ reply' = reply /\ acked' = acked /\ unsent' = unsent
  BY DEF told, ForgetTool
<1>4. c \in Receivers \X Events
  BY <1>1, TaskFacts
<1> HIDE DEF t, c
<1>5. /\ MemoryOK' /\ GenerationAhead'
      /\ \A p \in Owners : p # o => generation'[p] = generation[p]
      /\ \A p \in Owners, n \in Names :
           notes'[p][n] # None => notes'[p][n] >= forgotten'[p][n]
  BY <1>3, <1>4, DeleteEffect
<1>6. <<r, Head1(r, o)>> \in committed'
  BY <1>3 DEF c
<1>7. ChannelOK' /\ TasksOK' /\ OneLive' /\ TaskHasEvent' /\ SessionCurrent' /\ OutcomeTrue'
  BY <1>1, <1>2, <1>3, <1>5, <1>6, TaskStep DEF TasksOK
<1>8. TypeInvariant'
  BY <1>3, <1>5, <1>7 DEF IInv, TypeInvariant
<1>9. ForgottenForGood' /\ NoStaleReply'
  BY <1>3, <1>5 DEF IInv, NoStaleReply, ForgottenForGood
<1> QED
  BY <1>5, <1>7, <1>8, <1>9 DEF IInv

LEMMA ForgetToolFailsInv ==
  ASSUME IInv, NEW r \in Receivers, NEW o \in Owners, ForgetToolFails(r, o)
  PROVE  IInv'
<1> DEFINE t == [task[r][o] EXCEPT !.outcome = "failed"]
<1>1. task[r][o] \in Tasks /\ task[r][o].at = "turn" /\ queue[r][o] # <<>>
  BY TaskFacts DEF ForgetToolFails, MayForget, Current
<1>2. t \in Tasks /\ t.at = "turn" /\ t.outcome = "failed" /\ Goto(r, o, t)
  BY <1>1 DEF Tasks, ForgetToolFails
<1>3. UNCHANGED channel /\ UNCHANGED memory /\ UNCHANGED reply /\ turns' = turns /\ acked' = acked /\ unsent' = unsent
  BY DEF told, ForgetToolFails
<1>4. acked \subseteq committed /\ unsent \subseteq Receivers \X Events
  BY DEF IInv, ForgottenForGood, TypeInvariant
<1> HIDE DEF t
<1> QED
  BY <1>1, <1>2, <1>3, <1>4, QuietStep DEF TasksOK

LEMMA EndTurnInv ==
  ASSUME IInv, NEW r \in Receivers, NEW o \in Owners, EndTurn(r, o)
  PROVE  IInv'
<1> DEFINE closing    == [NoTask EXCEPT !.at = "closing"]
           confirming == [NoTask EXCEPT !.at = "confirming", !.outcome = task[r][o].outcome]
<1>1. task[r][o] \in Tasks /\ queue[r][o] # <<>> /\ task[r][o].at = "turn"
  BY TaskFacts DEF EndTurn
<1>2. UNCHANGED channel /\ UNCHANGED memory /\ UNCHANGED reply /\ acked' = acked /\ unsent' = unsent
  BY DEF EndTurn, told
<1>3. TasksOK => turns' \in [Owners -> [0..MaxDeliveries -> Receivers \cup {None}]]
  BY DEF EndTurn, TasksOK
<1>4. acked \subseteq committed /\ unsent \subseteq Receivers \X Events
  BY DEF IInv, ForgottenForGood, TypeInvariant
<1>5. CASE Goto(r, o, closing)
  <2>1. closing \in Tasks /\ closing.at = "closing"
    BY ClosingTask DEF NoTask
  <2> HIDE DEF closing
  <2> QED
    BY <1>1, <1>2, <1>3, <1>4, <1>5, <2>1, QuietStep
<1>6. CASE Goto(r, o, confirming)
  <2>1. task[r][o].outcome \in {"none", "committed", "failed"}
    BY <1>1 DEF Tasks
  <2>2. /\ confirming \in Tasks /\ confirming.at = "confirming"
        /\ confirming.outcome = task[r][o].outcome
    BY <2>1, ConfirmingTask
  <2>3. confirming.outcome = "committed" => <<r, Head1(r, o)>> \in committed
    BY <1>1, <2>2 DEF IInv, OutcomeTrue
  <2> HIDE DEF confirming
  <2> QED
    BY <1>1, <1>2, <1>3, <1>4, <1>6, <2>2, <2>3, QuietStep
<1> QED
  BY <1>5, <1>6 DEF EndTurn, Close, AwaitConfirmation

-----------------------------------------------------------------------------

LEMMA StepInv == IInv /\ [Next]_vars => IInv'
<1> SUFFICES ASSUME IInv, [Next]_vars PROVE IInv'
  OBVIOUS
<1>1. ASSUME NEW r \in Receivers, NEW o \in Owners, Proceed(r, o)
      PROVE  IInv'
  BY <1>1, SkipInv, ResetInv, ForgetInv, ConfirmInv, AdmitInv, OpenTurnInv, RefuseInv, NextChunkInv, FinishInv
  DEF Proceed
<1>2. ASSUME NEW r \in Receivers, NEW o \in Owners, Host(r, o)
      PROVE  IInv'
  <2>1. Names \in SUBSET Names /\ \A n \in Names : {n} \in SUBSET Names
    OBVIOUS
  <2> QED
    BY <1>2, <2>1, RememberInv, ForgetToolInv, ForgetToolFailsInv, DeliverInv DEF Host
<1>3. CASE UNCHANGED vars
  <2>1. /\ UNCHANGED <<started, aborted, seen, queue, deliveries, generation, notes, forgotten>>
        /\ UNCHANGED <<committed, task, turns, reply, acked, unsent>>
    BY <1>3 DEF vars, channel, memory, told
  <2>2. TypeInvariant'
    BY <2>1 DEF IInv, TypeInvariant, ChannelOK, TasksOK, MemoryOK
  <2>3. OneLive' /\ TaskHasEvent' /\ SessionCurrent' /\ GenerationAhead' /\ OutcomeTrue'
    BY <2>1 DEF IInv, OneLive, TaskHasEvent, SessionCurrent, GenerationAhead, OutcomeTrue, Head1
  <2> QED
    BY <2>1, <2>2, <2>3 DEF IInv, NoStaleReply, ForgottenForGood
<1> QED
  BY <1>1, <1>2, <1>3, StartInv, StopInv, CrashInv, ReceiveInv, EndTurnInv DEF Next

THEOREM Invariance == Spec => []IInv
BY InitInv, StepInv, PTL DEF Spec

\* The variables of the conversations keep their types; in particular a
\* receiver is only aborted after it was started.
THEOREM TypeCorrect == Spec => []TypeInvariant
<1>1. IInv => TypeInvariant
  BY DEF IInv
<1> QED
  BY <1>1, Invariance, PTL

\* No reply is posted for a session that was reset or forgotten since, however
\* many receivers were started while its turn was running: turn.forgetOutcome
\* and the receiver's signal are looked at before every post.
THEOREM RepliesCurrent == Spec => []NoStaleReply
<1>1. IInv => NoStaleReply
  BY DEF IInv
<1> QED
  BY <1>1, Invariance, PTL

\* A deleted note is never written again by a session that began before the
\* deletion, and nobody is told of a deletion that was not committed.
THEOREM Forgotten == Spec => []ForgottenForGood
<1>1. IInv => ForgottenForGood
  BY DEF IInv
<1> QED
  BY <1>1, Invariance, PTL

=============================================================================
