------------------------------ MODULE Reporter ------------------------------
(***************************************************************************)
(* deploy/nori-report.py beside the updater: it takes the files of         *)
(* reports/ one by one, asks GitHub what was deployed, records it in the   *)
(* foundation backend, announces it in Slack, leaves the Slack receipt in  *)
(* the backend and moves the file to reported/.  Any request or write may  *)
(* fail, before or after it took effect, and the process may be killed.    *)
(*                                                                         *)
(* report.lock keeps reporters apart, so there is one.  What GitHub says   *)
(* of a deployment can change between two questions.  Ranges with too many *)
(* commits or pull requests, whose reports stay in the queue until somebody *)
(* handles them, are not offered.                                          *)
(***************************************************************************)
EXTENDS NoriUpdate, Sequences

CONSTANTS
  Questions,   \* the requests GitHub has to answer for one report
  MaxEdits,    \* bound on changes of what GitHub answers
  MaxMisses    \* bound on failed steps and crashes of the reporter

ASSUME ReporterAssumption ==
  /\ Questions \in Nat \ {0} /\ {MaxEdits, MaxMisses} \subseteq Nat
  /\ None \notin [payload : Seq(Nat), sent : BOOLEAN]

VARIABLES
  github,    \* the answer GitHub gives now, a number
  slip,      \* the files: cached answers, the payload, the Slack receipt
  backend,   \* rein_deployments: the payload of each deployment and its receipt
  posts,     \* how often each deployment was announced in Slack
  courier,   \* the reporter: where it is, its report, the reports it still has
  unsure,    \* interruptions after an announcement was sent and before it was saved
  misses     \* failed steps and crashes of the reporter so far

reporterVars == <<github, slip, backend, posts, courier, unsure, misses>>
deliveryVars == <<events, release, status, deployed, job, faults, manuals>>

Asleep == [at |-> "idle", report |-> None, todo |-> {}]
Bare   == [answers |-> <<>>, payload |-> None, sent |-> FALSE]

ReporterBegin ==
  /\ Begin
  /\ slip = [r \in Merges |-> Bare]
  /\ backend = [r \in Merges |-> None]
  /\ posts = [r \in Merges |-> 0]
  /\ courier = Asleep
  /\ unsure = [r \in Merges |-> 0]

ReporterInit == ReporterBegin /\ faults = 0 /\ manuals = 0 /\ misses = 0 /\ github = 0

-----------------------------------------------------------------------------
(* main() and deliver()                                                    *)

\* deliver() reads the file and goes on from what it holds.
Resumes(r) == IF slip[r].payload = None THEN "ask" ELSE "record"

\* The reports of the list it made, in the order of their random names.
Onward(todo) ==
  IF todo = {} THEN courier' = Asleep
  ELSE \E r \in todo : courier' = [at |-> Resumes(r), report |-> r, todo |-> todo \ {r}]

\* systemd starts the reporter for a file in reports/ and after a failure.
Wake ==
  /\ courier.at = "idle" /\ reports # {}
  /\ Onward(reports)
  /\ UNCHANGED <<vars, github, slip, backend, posts, unsure, misses>>

\* What a step of deliver() does to the report r, wherever the process goes on.

\* metadata(): one answer is asked for and saved, so that none is asked for again.
Asks(r) ==
  /\ courier.at = "ask" /\ Len(slip[r].answers) < Questions
  /\ slip' = [slip EXCEPT ![r].answers = Append(@, github)]
  /\ UNCHANGED <<reports, reported, backend, posts>>

Composes(r) ==
  /\ courier.at = "ask" /\ Len(slip[r].answers) = Questions
  /\ slip' = [slip EXCEPT ![r].payload = slip[r].answers]
  /\ UNCHANGED <<reports, reported, backend, posts>>

\* Mutant: a deployment the backend has already is taken for a conflict.
ConflictAny(r) == backend[r] # None

\* The backend takes a deployment once, and afterwards only the same again: 409.
Conflict(r) == backend[r] # None /\ backend[r].payload # slip[r].payload

Records(r) ==
  /\ courier.at = "record" /\ ~Conflict(r)
  /\ backend' = IF backend[r] = None
                THEN [backend EXCEPT ![r] = [payload |-> slip[r].payload, sent |-> FALSE]] ELSE backend
  /\ UNCHANGED <<reports, reported, slip, posts>>

Posts(r) ==
  /\ courier.at = "post"
  /\ posts' = [posts EXCEPT ![r] = @ + 1]
  /\ UNCHANGED <<reports, reported, slip, backend>>

Saves(r) ==
  /\ courier.at = "save"
  /\ slip' = [slip EXCEPT ![r].sent = TRUE]
  /\ UNCHANGED <<reports, reported, backend, posts>>

Receipts(r) ==
  /\ courier.at = "receipt"
  /\ backend' = [backend EXCEPT ![r].sent = TRUE]
  /\ UNCHANGED <<reports, reported, slip, posts>>

Moves(r) ==
  /\ courier.at = "move"
  /\ reports' = reports \ {r} /\ reported' = reported \cup {r}
  /\ UNCHANGED <<slip, backend, posts>>

Effect(r) ==
  Asks(r) \/ Composes(r) \/ Records(r) \/ Posts(r) \/ Saves(r) \/ Receipts(r) \/ Moves(r)

\* Mutant: the Slack receipt is saved with the move of the file only.
AfterUnsaved(r) ==
  CASE courier.at = "ask"     -> IF slip'[r].payload = None THEN "ask" ELSE "record"
    [] courier.at = "record"  -> IF slip[r].sent \/ backend'[r].sent THEN "receipt" ELSE "post"
    [] courier.at = "post"    -> "receipt"
    [] OTHER                  -> "move"

\* Where deliver() goes on: a receipt, in the file or in the backend's answer,
\* stands for an announcement that was made.
After(r) ==
  CASE courier.at = "ask"     -> IF slip'[r].payload = None THEN "ask" ELSE "record"
    [] courier.at = "record"  -> IF slip[r].sent \/ backend'[r].sent THEN "receipt" ELSE "post"
    [] courier.at = "post"    -> "save"
    [] courier.at = "save"    -> "receipt"
    [] OTHER                  -> "move"

Deliver(r) ==
  /\ courier.report = r
  /\ Effect(r)
  /\ IF courier.at = "move" THEN Onward(courier.todo) ELSE courier' = [courier EXCEPT !.at = After(r)]
  /\ UNCHANGED <<deliveryVars, github, unsure, misses>>

Miss == misses < MaxMisses /\ misses' = misses + 1

GiveUp(r) ==
  /\ Onward(courier.todo)
  /\ unsure' = [unsure EXCEPT ![r] =
       IF courier.at = "save" \/ posts'[r] # posts[r] THEN @ + 1 ELSE @]

\* A step raises, having taken effect or not; the next report is taken.
DeliveryFails(r) ==
  /\ courier.report = r
  /\ \/ Miss /\ (Effect(r) \/ UNCHANGED <<reports, reported, slip, backend, posts>>)
     \/ courier.at = "record" /\ Conflict(r)
        /\ UNCHANGED <<misses, reports, reported, slip, backend, posts>>
  /\ GiveUp(r)
  /\ UNCHANGED <<deliveryVars, github>>

\* Killed; the lock goes with the process.
CourierCrash ==
  /\ Miss /\ courier.at # "idle"
  /\ courier' = Asleep
  /\ unsure' = IF courier.at = "save" THEN [unsure EXCEPT ![courier.report] = @ + 1] ELSE unsure
  /\ UNCHANGED <<deliveryVars, reports, reported, github, slip, backend, posts>>

\* A pull request gets another title, or is associated with a commit.
Edit ==
  /\ github < MaxEdits
  /\ github' = github + 1
  /\ UNCHANGED <<vars, slip, backend, posts, courier, unsure, misses>>

-----------------------------------------------------------------------------

CourierStep == \E r \in Merges : Deliver(r)

Next ==
  \/ UpdateNext /\ UNCHANGED reporterVars
  \/ Wake \/ CourierStep \/ CourierCrash \/ Edit
  \/ \E r \in Merges : DeliveryFails(r)

allVars == <<vars, reporterVars>>

\* The units of systemd: the path unit wakes the reporter while a file is in
\* reports/, Restart=on-failure with no start limit after a failed one.
Fairness == UpdateFairness /\ WF_allVars(CourierStep) /\ WF_allVars(Wake)

Spec == ReporterInit /\ [][Next]_allVars /\ Fairness

-----------------------------------------------------------------------------
(* Properties                                                              *)

\* One report per committed deployment, none for what was rolled back: the outbox
\* lags behind the commits only while a journal will repair it (queue_report). A
\* deployment is announced after the backend has it, and again only if an
\* interruption left in doubt whether it was: a receipt that reached the disk keeps
\* later attempts silent. What left the queue was announced, and the backend has
\* its receipt (docs/auto-update-zh.md:184-188).
ReportedOnce ==
  /\ reports \cap reported = {}
  /\ reports \cup reported \subseteq deployed
  /\ \A r \in deployed \ (reports \cup reported) :
       journal # None /\ journal.phase = "committed" /\ journal.target = r
  /\ \A r \in Merges :
       /\ posts[r] > 0 => r \in deployed /\ backend[r] # None
       /\ posts[r] <= 1 + unsure[r]
       /\ r \in reported => posts[r] > 0 /\ backend[r].sent

\* The queue of reports empties again, after any finite number of failures and
\* whatever GitHub answers meanwhile: the payload the backend took first is the one it gets again.
ReportsArrive == []<>(reports = {})
=============================================================================
