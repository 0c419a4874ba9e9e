----------------------------- MODULE NoriUpdate ------------------------------
(***************************************************************************)
(* Automatic deployment: deploy/nori-webhook.py queues one file per merged *)
(* pull request, deploy/nori-update.py drains the queue, builds main and   *)
(* switches the release directory under a transaction journal.             *)
(*                                                                         *)
(* Revisions are numbered in the order they reach main, and the delivery   *)
(* of a merge is named by its revision.  The updater holds update.lock, so *)
(* there is at most one; every durable write, rename or service command of *)
(* it is one step, and it may be killed or interrupted between any two.    *)
(* The files it writes are fsynced before the next step, so a restart of   *)
(* the host finds them: what it changes is which release the services run. *)
(***************************************************************************)
EXTENDS Naturals

CONSTANTS
  MaxRevision,   \* bound on the revisions of main
  Broken,        \* revisions that build and then never become healthy
  None,          \* no directory, no journal, no webhook request
  MaxFaults,     \* bound on failed steps and crashes
  MaxManuals     \* bound on runs an administrator starts

Revisions == 0..MaxRevision
Merges    == 1..MaxRevision

ASSUME NoriAssumption ==
  /\ MaxRevision \in Nat /\ MaxFaults \in Nat /\ MaxManuals \in Nat
  /\ Broken \subseteq Merges
  /\ None \notin Revisions
  /\ None \notin [phase : {"prepared", "switching", "committed"},
                  target : Revisions, old : Revisions]
  /\ None \notin [state : STRING, revision : Revisions]

VARIABLES
  main,      \* the head of the deployed branch
  hook,      \* the delivery the webhook server has not found in pending/, or None
  accepted,  \* deliveries GitHub got a success for
  pending,   \* pending/*.json
  received,  \* received/*.json: the outcome written for each delivery, or None
  root,      \* the revision in the live directory, None when it is not there
  previous,  \* the revision in previous-<ident> of the transaction, or None
  serving,   \* the revision the services run, None when they are stopped
  journal,   \* transaction.json, or None
  status,    \* status.json
  reports,   \* revisions with a file in reports/
  reported,  \* revisions with a file in reported/
  deployed,  \* revisions whose transaction was committed
  job,       \* the local state of the updater process
  faults,    \* failed steps and crashes so far
  manuals    \* manual runs so far

events  == <<main, hook, accepted, pending, received>>
outbox  == <<reports, reported, deployed>>
release == <<root, previous, serving, journal>>
vars == <<events, release, status, outbox, job, faults, manuals>>

Settled == {"failed", "rolled_back", "blocked"}

\* The program points inside run(), recover() and activate().
RecoverPoints == {"recover", "stop", "set_aside", "restore", "restart",
                  "probe", "record", "unlink", "report", "record_commit"}
ActivatePoints == {"stop_old", "switching", "move_old", "move_new", "start_new",
                   "probe_new", "commit", "report_new", "record_new", "unlink_new"}

\* batch: the deliveries to acknowledge; caller: who called recover();
\* recorded: status.json was written since the batch was read.
Idle == [at |-> "idle", mode |-> "drain", caller |-> "drain", revision |-> 0,
         batch |-> {}, recorded |-> FALSE]

Begin ==
  /\ main = 0 /\ hook = None /\ accepted = {} /\ pending = {}
  /\ received = [d \in Merges |-> None]
  /\ root = 0 /\ previous = None /\ serving = 0 /\ journal = None
  /\ status = [state |-> "up_to_date", revision |-> 0]
  /\ reports = {} /\ reported = {} /\ deployed = {}
  /\ job = Idle

Init == Begin /\ faults = 0 /\ manuals = 0

-----------------------------------------------------------------------------
(* The branch, and accept() of the webhook server: pending/ is looked at   *)
(* before received/, and the event file is renamed in and fsynced before    *)
(* GitHub gets its answer.  GitHub may deliver an event again at any time.  *)

Merge ==
  /\ main < MaxRevision
  /\ main' = main + 1
  /\ UNCHANGED <<hook, accepted, pending, received, release, status, outbox, job, faults, manuals>>

FindPending(d) ==
  /\ hook = None
  /\ d <= main
  /\ IF d \in pending
     THEN accepted' = accepted \cup {d} /\ UNCHANGED hook
     ELSE hook' = d /\ UNCHANGED accepted
  /\ UNCHANGED <<main, pending, received, release, status, outbox, job, faults, manuals>>

QueueUnlessReceived ==
  /\ hook # None
  /\ pending' = IF received[hook] = None THEN pending \cup {hook} ELSE pending
  /\ accepted' = accepted \cup {hook}
  /\ hook' = None
  /\ UNCHANGED <<main, received, release, status, outbox, job, faults, manuals>>

\* An OSError before the rename, or after it: GitHub gets a 503.
RefuseDelivery ==
  /\ hook # None
  /\ \/ UNCHANGED pending
     \/ received[hook] = None /\ pending' = pending \cup {hook}
  /\ hook' = None
  /\ UNCHANGED <<main, accepted, received, release, status, outbox, job, faults, manuals>>

Webhook == (\E d \in Merges : FindPending(d)) \/ QueueUnlessReceived \/ RefuseDelivery

-----------------------------------------------------------------------------
(* Local steps of the updater.                                             *)

Goto(point) == job' = [job EXCEPT !.at = point]

\* record(): status.json is replaced.
Record(state, revision, point) ==
  /\ status' = [state |-> state, revision |-> revision]
  /\ job' = [job EXCEPT !.at = point, !.recorded = TRUE]

Fault == faults < MaxFaults /\ faults' = faults + 1

\* systemd starts the drain at boot, for pending events and after a failure.
StartDrain ==
  /\ job.at = "idle"
  /\ job' = [Idle EXCEPT !.at = "recover"]
  /\ UNCHANGED <<events, release, status, outbox, faults, manuals>>

\* An administrator runs the updater, with --retry or without it.
StartManual(mode) ==
  /\ job.at = "idle" /\ manuals < MaxManuals
  /\ job' = [Idle EXCEPT !.at = "recover", !.mode = mode, !.caller = "run"]
  /\ manuals' = manuals + 1
  /\ UNCHANGED <<events, release, status, outbox, faults>>

\* queue_report(): the file is in reports/, then in reported/, never in
\* both, and they are looked at in that order.
QueueReport ==
  /\ reports' = reports \cup ({journal.target} \ reported)
  /\ UNCHANGED <<reported, deployed>>

-----------------------------------------------------------------------------
(* recover().                                                              *)

RecoverNothing ==
  /\ job.at = "recover" /\ journal = None /\ job.caller # "activate"
  /\ Goto(IF job.caller = "drain" THEN "batch" ELSE "latest")
  /\ UNCHANGED <<events, release, status, outbox, faults, manuals>>

\* activate() was interrupted after its journal was removed: recover() finds
\* nothing, the interruption is raised again and run() records a failure.
RecoverTooLate ==
  /\ job.at = "recover" /\ journal = None /\ job.caller = "activate"
  /\ Record("failed", job.revision, "raised")
  /\ UNCHANGED <<events, release, outbox, faults, manuals>>

RecoverCommitted ==
  /\ job.at = "recover" /\ journal # None
  /\ journal.phase = "committed"
  /\ Goto("report")
  /\ UNCHANGED <<events, release, status, outbox, faults, manuals>>

RecoverReport ==
  /\ job.at = "report"
  /\ QueueReport
  /\ Goto("record_commit")
  /\ UNCHANGED <<events, release, status, faults, manuals>>

RecoverRecordCommit ==
  /\ job.at = "record_commit"
  /\ Record("updated", journal.target, "unlink")
  /\ UNCHANGED <<events, release, outbox, faults, manuals>>

\* Mutant: recovery rolls back whatever the phase of the transaction is.
RollBackAnyPhase ==
  /\ job.at = "recover" /\ journal # None
  /\ Record("rolling_back", journal.target, "stop")
  /\ UNCHANGED <<events, release, outbox, faults, manuals>>

\* Mutant: a transaction that moved nothing yet needs a manual recovery.
RollBackOnlyMoved ==
  /\ job.at = "recover" /\ journal # None
  /\ journal.phase # "committed"
  /\ previous = journal.old /\ root \in {None, journal.target}
  /\ Record("rolling_back", journal.target, "stop")
  /\ UNCHANGED <<events, release, outbox, faults, manuals>>

\* The directories must be the ones the transaction named.
RollBack ==
  /\ job.at = "recover" /\ journal # None
  /\ journal.phase # "committed"
  /\ previous # None => previous = journal.old /\ root \in {None, journal.target}
  /\ Record("rolling_back", journal.target, "stop")
  /\ UNCHANGED <<events, release, outbox, faults, manuals>>

StopServices ==
  /\ job.at = "stop"
  /\ serving' = None
  /\ Goto("set_aside")
  /\ UNCHANGED <<events, root, previous, journal, status, outbox, faults, manuals>>

\* The new release, if it was moved in, becomes failed-<ident>.
SetAside ==
  /\ job.at = "set_aside"
  /\ root' = IF previous = None THEN root ELSE None
  /\ Goto(IF previous = None THEN "restart" ELSE "restore")
  /\ UNCHANGED <<events, previous, serving, journal, status, outbox, faults, manuals>>

Restore ==
  /\ job.at = "restore"
  /\ root' = previous /\ previous' = None
  /\ Goto("restart")
  /\ UNCHANGED <<events, serving, journal, status, outbox, faults, manuals>>

Restart ==
  /\ job.at = "restart"
  /\ root # None
  /\ serving' = root
  /\ Goto("probe")
  /\ UNCHANGED <<events, root, previous, journal, status, outbox, faults, manuals>>

Probe ==
  /\ job.at = "probe"
  /\ serving \notin Broken
  /\ Goto("record")
  /\ UNCHANGED <<events, release, status, outbox, faults, manuals>>

RecordRollback ==
  /\ job.at = "record"
  /\ Record("rolled_back", journal.target, "unlink")
  /\ UNCHANGED <<events, release, outbox, faults, manuals>>

\* recover() returns True; activate() then returns or raises again.
RemoveJournal ==
  /\ job.at = "unlink"
  /\ journal' = None
  /\ Goto(CASE job.caller = "drain" -> "batch"
            [] job.caller = "run" -> "returned"
            [] OTHER -> IF journal.phase = "committed" THEN "returned" ELSE "raised")
  /\ UNCHANGED <<events, root, previous, serving, status, outbox, faults, manuals>>

Recover ==
  \/ RecoverNothing \/ RecoverTooLate \/ RecoverCommitted \/ RecoverReport
  \/ RecoverRecordCommit \/ RollBack \/ StopServices \/ SetAside \/ Restore
  \/ Restart \/ Probe \/ RecordRollback \/ RemoveJournal

-----------------------------------------------------------------------------
(* run(), up to the activation.                                            *)

UpToDate ==
  /\ job.at = "latest"
  /\ main = root
  /\ Record("up_to_date", main, "returned")
  /\ UNCHANGED <<events, release, outbox, faults, manuals>>

Blocked == job.mode # "retry" /\ status.revision = main /\ status.state \in Settled

Refuse ==
  /\ job.at = "latest"
  /\ main # root /\ Blocked
  /\ Record("blocked", main, "returned")
  /\ UNCHANGED <<events, release, outbox, faults, manuals>>

\* The checkout is clean, its services are active and healthy.
Preflight ==
  /\ job.at = "latest"
  /\ main # root /\ ~Blocked
  /\ serving = root /\ root \notin Broken
  /\ status' = [state |-> "building", revision |-> main]
  /\ job' = [job EXCEPT !.at = "build", !.revision = main, !.recorded = TRUE]
  /\ UNCHANGED <<events, release, outbox, faults, manuals>>

Build ==
  /\ job.at = "build"
  /\ Goto("recheck")
  /\ UNCHANGED <<events, release, status, outbox, faults, manuals>>

Superseded ==
  /\ job.at = "recheck"
  /\ main # job.revision
  /\ Record("superseded", job.revision, "returned")
  /\ UNCHANGED <<events, release, outbox, faults, manuals>>

StillLatest ==
  /\ job.at = "recheck"
  /\ main = job.revision
  /\ Goto("journal")
  /\ UNCHANGED <<events, release, status, outbox, faults, manuals>>

Run == UpToDate \/ Refuse \/ Preflight \/ Build \/ Superseded \/ StillLatest

-----------------------------------------------------------------------------
(* activate().                                                             *)

BeginTransaction ==
  /\ job.at = "journal"
  /\ journal' = [phase |-> "prepared", target |-> job.revision, old |-> root]
  /\ previous' = None
  /\ Goto("stop_old")
  /\ UNCHANGED <<events, root, serving, status, outbox, faults, manuals>>

\* The services stop, and their private state is copied to the candidate.
StopOld ==
  /\ job.at = "stop_old"
  /\ serving' = None
  /\ Goto("switching")
  /\ UNCHANGED <<events, root, previous, journal, status, outbox, faults, manuals>>

Switching ==
  /\ job.at = "switching"
  /\ journal' = [journal EXCEPT !.phase = "switching"]
  /\ Goto("move_old")
  /\ UNCHANGED <<events, root, previous, serving, status, outbox, faults, manuals>>

MoveOld ==
  /\ job.at = "move_old"
  /\ previous' = root /\ root' = None
  /\ Goto("move_new")
  /\ UNCHANGED <<events, serving, journal, status, outbox, faults, manuals>>

MoveNew ==
  /\ job.at = "move_new"
  /\ root' = job.revision
  /\ Goto("start_new")
  /\ UNCHANGED <<events, previous, serving, journal, status, outbox, faults, manuals>>

StartNew ==
  /\ job.at = "start_new"
  /\ serving' = root
  /\ Goto("probe_new")
  /\ UNCHANGED <<events, root, previous, journal, status, outbox, faults, manuals>>

\* Mutant: the services are started and not probed.
ProbeNewSkipped ==
  /\ job.at = "probe_new"
  /\ Goto("commit")
  /\ UNCHANGED <<events, release, status, outbox, faults, manuals>>

ProbeNew ==
  /\ job.at = "probe_new"
  /\ job' = [job EXCEPT !.at = IF serving \in Broken THEN "recover" ELSE "commit",
                        !.caller = IF serving \in Broken THEN "activate" ELSE @]
  /\ UNCHANGED <<events, release, status, outbox, faults, manuals>>

Commit ==
  /\ job.at = "commit"
  /\ journal' = [journal EXCEPT !.phase = "committed"]
  /\ deployed' = deployed \cup {journal.target}
  /\ Goto("report_new")
  /\ UNCHANGED <<events, root, previous, serving, status, reports, reported, faults, manuals>>

ReportNew ==
  /\ job.at = "report_new"
  /\ QueueReport
  /\ Goto("record_new")
  /\ UNCHANGED <<events, release, status, faults, manuals>>

RecordNew ==
  /\ job.at = "record_new"
  /\ Record("updated", job.revision, "unlink_new")
  /\ UNCHANGED <<events, release, outbox, faults, manuals>>

EndTransaction ==
  /\ job.at = "unlink_new"
  /\ journal' = None
  /\ Goto("returned")
  /\ UNCHANGED <<events, root, previous, serving, status, outbox, faults, manuals>>

Activate ==
  \/ BeginTransaction \/ StopOld \/ Switching \/ MoveOld \/ MoveNew \/ StartNew
  \/ ProbeNew \/ Commit \/ ReportNew \/ RecordNew \/ EndTransaction

-----------------------------------------------------------------------------
(* drain_events().                                                         *)

\* Pending files that have a receipt are left over from a crash.
ReadBatch ==
  LET left == {d \in pending : received[d] = None} IN
  /\ job.at = "batch"
  /\ pending' = left
  /\ job' = IF left = {} THEN Idle
            ELSE [Idle EXCEPT !.at = "recover", !.caller = "run", !.batch = left]
  /\ UNCHANGED <<main, hook, accepted, received, release, status, outbox, faults, manuals>>

Returned ==
  /\ job.at = "returned"
  /\ job' = CASE job.mode # "drain" -> Idle
              [] job.mode = "drain" /\ status.state = "superseded" -> [job EXCEPT !.at = "batch"]
              [] OTHER -> [job EXCEPT !.at = "ack"]
  /\ UNCHANGED <<events, release, status, outbox, faults, manuals>>

\* Mutant: a status that was settled before the run counts as its result.
RaisedAnySettled ==
  /\ job.at = "raised"
  /\ job' = IF job.mode = "drain" /\ journal = None /\ status.state \in Settled
            THEN [job EXCEPT !.at = "ack"] ELSE Idle
  /\ UNCHANGED <<events, release, status, outbox, faults, manuals>>

\* run() raised: only a revision that is settled takes its events along.
Raised ==
  /\ job.at = "raised"
  /\ job' = IF /\ job.mode = "drain" /\ journal = None
               /\ job.recorded /\ status.state \in Settled
            THEN [job EXCEPT !.at = "ack"] ELSE Idle
  /\ UNCHANGED <<events, release, status, outbox, faults, manuals>>

Acknowledge(d) ==
  /\ job.at = "ack" /\ d \in job.batch
  /\ received' = [received EXCEPT ![d] = status]
  /\ Goto("unqueue")
  /\ UNCHANGED <<main, hook, accepted, pending, release, status, outbox, faults, manuals>>

Unqueue(d) ==
  /\ job.at = "unqueue" /\ d \in job.batch /\ received[d] # None
  /\ pending' = pending \ {d}
  /\ job' = [job EXCEPT !.at = "ack", !.batch = @ \ {d}]
  /\ UNCHANGED <<main, hook, accepted, received, release, status, outbox, faults, manuals>>

NextBatch ==
  /\ job.at = "ack" /\ job.batch = {}
  /\ Goto("batch")
  /\ UNCHANGED <<events, release, status, outbox, faults, manuals>>

Drain ==
  \/ ReadBatch \/ Returned \/ Raised \/ NextBatch
  \/ \E d \in Merges : Acknowledge(d) \/ Unqueue(d)

-----------------------------------------------------------------------------
(* Failures: a step of the updater raises, or SIGTERM raises in its place.  *)

LatestFails ==
  /\ Fault /\ job.at = "latest"
  /\ Goto("raised")
  /\ UNCHANGED <<events, release, status, outbox, manuals>>

\* Preflight, a fetch of the source, or the check after the build.
Defer ==
  /\ Fault /\ job.at \in {"latest", "build", "recheck"}
  /\ job.at = "latest" => main # root /\ ~Blocked
  /\ Record("deferred", IF job.at = "latest" THEN main ELSE job.revision, "raised")
  /\ UNCHANGED <<events, release, outbox, manuals>>

\* The build, or the first write of the journal.
Fail ==
  /\ Fault /\ job.at \in {"build", "journal"}
  /\ Record("failed", job.revision, "raised")
  /\ UNCHANGED <<events, release, outbox, manuals>>

\* The journal is in place and its fsync raises: outside the try of activate().
JournalUnsure ==
  /\ Fault /\ job.at = "journal"
  /\ journal' = [phase |-> "prepared", target |-> job.revision, old |-> root]
  /\ previous' = None
  /\ Goto("raised")
  /\ UNCHANGED <<events, root, serving, status, outbox, manuals>>

ActivateFails ==
  /\ Fault /\ job.at \in ActivatePoints
  /\ job' = [job EXCEPT !.at = "recover", !.caller = "activate"]
  /\ UNCHANGED <<events, release, status, outbox, manuals>>

\* The journal is removed, and the interruption arrives inside the try.
ActivateFailsLate ==
  /\ Fault /\ job.at = "unlink_new"
  /\ journal' = None
  /\ job' = [job EXCEPT !.at = "recover", !.caller = "activate"]
  /\ UNCHANGED <<events, root, previous, serving, status, outbox, manuals>>

\* The journal stays, and the process ends with an error.
RecoverFails ==
  /\ Fault /\ job.at \in RecoverPoints /\ journal # None
  /\ job' = Idle
  /\ UNCHANGED <<events, release, status, outbox, manuals>>

\* Killed, or the host restarts and its services with it.
Crash ==
  /\ Fault /\ job.at # "idle"
  /\ job' = Idle
  /\ serving' \in {serving, root}
  /\ UNCHANGED <<events, root, previous, journal, status, outbox, manuals>>

Failure ==
  \/ LatestFails \/ Defer \/ Fail \/ JournalUnsure
  \/ ActivateFails \/ ActivateFailsLate \/ RecoverFails \/ Crash

-----------------------------------------------------------------------------

Step == Recover \/ Run \/ Activate \/ Drain

UpdateNext ==
  \/ Merge \/ Webhook
  \/ StartDrain \/ (\E mode \in {"manual", "retry"} : StartManual(mode))
  \/ Step
  \/ Failure

\* The updater runs on, and systemd starts it while there is work: the path
\* unit for pending events, Restart=on-failure after a failed run.
UpdateFairness == WF_vars(Step) /\ WF_vars(StartDrain)

-----------------------------------------------------------------------------
(* Properties.                                                             *)

\* Until a transaction is committed the release it replaces is on disk, in
\* the live directory or beside it, and afterwards the new one is live; and
\* between transactions the services run the release in the live directory:
\* no failure path leaves them stopped or the directory away.
ReleaseKept ==
  IF journal = None THEN root # None /\ serving = root
  ELSE IF journal.phase = "committed" THEN root = journal.target
  ELSE journal.old \in {root, previous}

\* A receipt speaks of the merge or of a newer one, and says it is settled:
\* deferred, superseded and interrupted runs take no event along. And what it
\* calls deployed stays deployed: the newest release that is certain to be
\* kept has it, whatever later transactions do.
SettledForGood ==
  \A d \in Merges : received[d] # None =>
    /\ received[d].revision >= d
    /\ received[d].state \in Settled \cup {"updated", "up_to_date"}
    /\ received[d].state \notin Settled =>
         \/ root # None /\ root >= d /\ (journal # None => journal.old >= d \/ journal.phase = "committed")
         \/ previous # None /\ previous >= d

\* "no event is lost" (tests/fixtures/nori_webhook_tests.py:93): what GitHub got a
\* success for, and whatever is queued, is settled in the end, after any finite
\* number of failures, crashes, repeated deliveries and newer merges.
EventsSettled == []<>(\A d \in accepted \cup pending : received[d] # None)

-----------------------------------------------------------------------------
(* Refinement: the release in force is the new one from the commit on.     *)

Live == IF journal # None /\ journal.phase # "committed" THEN journal.old ELSE root

Atomic == INSTANCE AtomicDeploy WITH live <- Live

\* Directory moves, journal, rollback and recovery implement one atomic,
\* health-checked replacement of the live release.
AtomicSpec == Atomic!Spec
=============================================================================
