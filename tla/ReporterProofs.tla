--------------------------- MODULE ReporterProofs ---------------------------
(***************************************************************************)
(* Proofs about automatic deployment and its reports, for any number of    *)
(* merges, failures, crashes and manual runs.                              *)
(***************************************************************************)
EXTENDS Reporter, TLAPS

\* Where the updater is between its transactions: there is no journal,
Between == {"latest", "build", "recheck", "journal", "batch", "returned", "ack", "unqueue"}

\* and where it need not be: it may have died, or recovery may come.
Anywhere == {"idle", "recover", "raised"}

Points == Between \cup Anywhere \cup RecoverPoints \cup ActivatePoints

Transactions == [phase : {"prepared", "switching", "committed"}, target : Revisions, old : Revisions]

States == {"up_to_date", "building", "superseded", "deferred", "failed", "blocked",
           "rolling_back", "rolled_back", "updated"}

Outcomes == [state : States, revision : Revisions]

Jobs == [at : Points, mode : {"drain", "manual", "retry"}, caller : {"drain", "run", "activate"},
         revision : Revisions, batch : SUBSET Merges, recorded : BOOLEAN]

UpdateTypes ==
  /\ main \in Revisions
  /\ hook \in Merges \cup {None}
  /\ pending \in SUBSET Merges
  /\ received \in [Merges -> Outcomes \cup {None}]
  /\ root \in Revisions \cup {None}
  /\ previous \in Revisions \cup {None}
  /\ journal \in Transactions \cup {None}
  /\ status \in Outcomes
  /\ job \in Jobs

\* Events are of merges that have happened.
Happened ==
  /\ hook # None => hook <= main
  /\ \A d \in pending \cup job.batch : d <= main

-----------------------------------------------------------------------------
(* The release directory under the transaction journal.                    *)

\* Between transactions the live release is in place and runs.
Resting == journal = None => root # None /\ root <= main /\ serving = root

\* What is on disk in each phase of a transaction: it moves on to a newer
\* release, and once it is committed that one is healthy, in place and running.
OnDisk ==
  journal # None =>
    /\ journal.old < journal.target /\ journal.target <= main
    /\ journal.phase = "prepared" => previous = None /\ root = journal.old
    /\ journal.phase = "switching" =>
         \/ previous = None /\ root = journal.old
         \/ previous = journal.old /\ root \in {None, journal.target}
    /\ journal.phase = "committed" =>
         /\ root = journal.target /\ previous = journal.old /\ serving = root
         /\ journal.target \notin Broken

\* What each program point knows of it.
InTransaction ==
  /\ job.at \in Between => journal = None
  /\ job.at \in (RecoverPoints \ {"recover"}) \cup ActivatePoints => journal # None
  /\ job.at \in {"build", "recheck", "journal"} => root < job.revision /\ job.revision <= main
  /\ job.at \in ActivatePoints => journal.target = job.revision
  /\ job.at \in {"stop_old", "switching"} => journal.phase = "prepared"
  /\ job.at \in {"move_old", "move_new", "start_new", "probe_new", "commit"} => journal.phase = "switching"
  /\ job.at = "move_old" => previous = None
  /\ job.at = "move_new" => previous # None /\ root = None
  /\ job.at \in {"start_new", "probe_new", "commit"} => previous # None /\ root = journal.target
  /\ job.at \in {"probe_new", "commit"} => serving = root
  /\ job.at = "commit" => serving \notin Broken
  /\ job.at \in {"report_new", "record_new", "unlink_new", "report", "record_commit"} =>
       journal.phase = "committed"
  /\ job.at \in {"stop", "set_aside", "restore", "restart", "probe", "record"} =>
       journal.phase # "committed"
  /\ job.at = "restore" => previous # None /\ root = None
  /\ job.at \in {"restart", "probe", "record"} => previous = None
  /\ job.at = "unlink" /\ journal.phase # "committed" => previous = None
  /\ job.at \in {"probe", "record", "unlink"} => serving = root

DiskInv == UpdateTypes /\ Resting /\ OnDisk /\ InTransaction

-----------------------------------------------------------------------------
(* The events a run acknowledges.                                          *)

Ahead(revision) == \A d \in job.batch : d <= revision

\* A run with a batch is about a revision that has every merge of the batch.
BatchCovered ==
  /\ job.caller = "drain" => job.batch = {}
  /\ job.at \in RecoverPoints /\ journal # None /\ job.caller # "activate" => job.batch = {}
  /\ journal # None => Ahead(journal.target)
  /\ \/ job.at \in {"build", "recheck", "journal"} \cup ActivatePoints
     \/ job.caller = "activate"
     => Ahead(job.revision)
  /\ job.recorded => Ahead(status.revision)

Reached == {"updated", "up_to_date"}

\* What the status says when a run returns, and while its events get receipts.
StatusTold ==
  /\ job.at = "unlink" =>
       /\ job.recorded
       /\ status = [state |-> IF journal.phase = "committed" THEN "updated" ELSE "rolled_back",
                    revision |-> journal.target]
  /\ job.at = "unlink_new" => job.recorded /\ status = [state |-> "updated", revision |-> job.revision]
  /\ job.at = "returned" /\ job.batch # {} =>
       /\ job.recorded
       /\ status.state \in Settled \cup Reached \cup {"superseded"}
       /\ status.state \in Reached => Ahead(Live)
  /\ job.at \in {"ack", "unqueue"} /\ job.batch # {} =>
       /\ job.recorded
       /\ status.state \in Settled \cup Reached
       /\ status.state \in Reached => Ahead(Live)

\* A receipt is of the merge or a newer one, and what it calls deployed is live.
Receipted ==
  \A d \in Merges : received[d] # None =>
    /\ received[d].revision >= d
    /\ received[d].state \in Settled \cup Reached
    /\ received[d].state \in Reached => Live >= d

EventsInv == Happened /\ BatchCovered /\ StatusTold /\ Receipted

-----------------------------------------------------------------------------
(* The outbox and the reporter.                                            *)

OutboxInv ==
  /\ deployed \subseteq Merges
  /\ reports \cap reported = {}
  /\ reports \cup reported \subseteq deployed
  /\ journal # None /\ journal.phase = "committed" => journal.target \in deployed
  /\ \A r \in deployed \ (reports \cup reported) :
       journal # None /\ journal.phase = "committed" /\ journal.target = r
  /\ job.at \in {"record_commit", "unlink", "record_new", "unlink_new"}
       /\ journal.phase = "committed" => journal.target \in reports \cup reported

Slips == [answers : Seq(Nat), payload : Seq(Nat) \cup {None}, sent : BOOLEAN]
Entries == [payload : Seq(Nat), sent : BOOLEAN]

CourierTypes ==
  /\ github \in Nat
  /\ slip \in [Merges -> Slips]
  /\ backend \in [Merges -> Entries \cup {None}]
  /\ posts \in [Merges -> Nat]
  /\ unsure \in [Merges -> Nat]

\* The reporter is at a report of the queue, and has others of it to come.
Underway ==
  /\ courier = [at |-> courier.at, report |-> courier.report, todo |-> courier.todo]
  /\ courier.at \in {"idle", "ask", "record", "post", "save", "receipt", "move"}
  /\ courier.at = "idle" => courier.report = None
  /\ courier.at # "idle" =>
       /\ courier.report \in reports
       /\ courier.todo \subseteq reports \ {courier.report}

\* The announcement of r is on record, in the file or in the backend.
Noted(r) == slip[r].sent \/ (backend[r] # None /\ backend[r].sent)

\* The reporter has announced r and has not saved it yet.
Saving(r) == courier.at = "save" /\ courier.report = r

\* What each step of deliver() builds on.
DeliveringOf(at, r) ==
  /\ at = "record" => slip[r].payload # None
  /\ at \in {"post", "save", "receipt", "move"} => backend[r] # None
  /\ at = "post" => ~ Noted(r)
  /\ at \in {"save", "receipt", "move"} => posts[r] > 0
  /\ at = "move" => backend[r].sent

Delivering == courier.at # "idle" => DeliveringOf(courier.at, courier.report)

\* One announcement more than the doubts, and only when it is on record.
AnnouncedOf(r) ==
  /\ posts[r] > 0 => r \in deployed /\ backend[r] # None
  /\ posts[r] <= unsure[r] + (IF Noted(r) \/ Saving(r) THEN 1 ELSE 0)
  /\ Noted(r) => posts[r] > 0
  /\ r \in reported => backend[r] # None /\ backend[r].sent

Announced == \A r \in Merges : AnnouncedOf(r)

CourierInv == CourierTypes /\ Underway /\ Delivering /\ Announced

-----------------------------------------------------------------------------
(* Types                                                                   *)

LEMMA GotoTypes ==
  ASSUME job \in Jobs, NEW point \in Points, Goto(point)
  PROVE  job' \in Jobs
BY DEF Goto, Jobs

LEMMA RecordTypes ==
  ASSUME job \in Jobs, NEW state \in States, NEW revision \in Revisions, NEW point \in Points,
         Record(state, revision, point)
  PROVE  job' \in Jobs /\ status' \in Outcomes
BY DEF Record, Jobs, Outcomes

LEMMA IdleTypes == Idle \in Jobs /\ 0 \in Revisions
BY NoriAssumption DEF Idle, Jobs, Points, Anywhere, Revisions

\* A program point that ends in record() names a state and a revision.
LEMMA RecordingTypes ==
  ASSUME DiskInv,
         \/ RecoverTooLate \/ RecoverRecordCommit \/ RollBack \/ RecordRollback
         \/ UpToDate \/ Refuse \/ Superseded \/ RecordNew \/ Defer \/ Fail
  PROVE  UpdateTypes'
<1>1. \E state \in States, revision \in Revisions, point \in Points : Record(state, revision, point)
  <2> USE DEF DiskInv, UpdateTypes, InTransaction, States, Transactions, Jobs, Points, Between, Anywhere,
              RecoverPoints, ActivatePoints
  <2>1. CASE RecoverTooLate
    BY <2>1 DEF RecoverTooLate
  <2>2. CASE RecoverRecordCommit
    BY <2>2 DEF RecoverRecordCommit
  <2>3. CASE RollBack
    BY <2>3 DEF RollBack
  <2>4. CASE RecordRollback
    BY <2>4 DEF RecordRollback
  <2>5. CASE UpToDate
    BY <2>5 DEF UpToDate
  <2>6. CASE Refuse
    BY <2>6 DEF Refuse
  <2>7. CASE Superseded
    BY <2>7 DEF Superseded
  <2>8. CASE RecordNew
    BY <2>8 DEF RecordNew
  <2>9. CASE Defer
    BY <2>9 DEF Defer
  <2>10. CASE Fail
    BY <2>10 DEF Fail
  <2> QED
    BY <2>1, <2>2, <2>3, <2>4, <2>5, <2>6, <2>7, <2>8, <2>9, <2>10
<1>2. job' \in Jobs /\ status' \in Outcomes
  BY <1>1, RecordTypes DEF DiskInv, UpdateTypes
<1>3. UNCHANGED <<events, release>>
  BY DEF RecoverTooLate, RecoverRecordCommit, RollBack, RecordRollback, UpToDate, Refuse, Superseded,
         RecordNew, Defer, Fail
<1> QED
  BY <1>2, <1>3 DEF DiskInv, UpdateTypes, events, release

\* One that goes on without it changes at most where the releases are.
LEMMA MovingTypes ==
  ASSUME DiskInv,
         \/ RecoverNothing \/ RecoverCommitted \/ RecoverReport \/ StopServices \/ SetAside \/ Restore
         \/ Restart \/ Probe \/ RemoveJournal \/ Preflight \/ Build \/ StillLatest
         \/ BeginTransaction \/ StopOld \/ Switching \/ MoveOld \/ MoveNew \/ StartNew \/ ProbeNew
         \/ Commit \/ ReportNew \/ EndTransaction
  PROVE  UpdateTypes'
<1> USE DEF DiskInv, UpdateTypes, InTransaction
<1>1. job' \in Jobs
  <2> USE DEF Jobs, Points, Between, Anywhere, RecoverPoints, ActivatePoints, Goto
  <2>1. CASE RecoverNothing \/ RecoverCommitted \/ RecoverReport \/ StopServices \/ SetAside \/ Restore
             \/ Restart \/ Probe \/ RemoveJournal
    BY <2>1 DEF RecoverNothing, RecoverCommitted, RecoverReport, StopServices, SetAside, Restore, Restart,
                Probe, RemoveJournal
  <2>2. CASE Build \/ StillLatest \/ BeginTransaction \/ StopOld \/ Switching
    BY <2>2 DEF Build, StillLatest, BeginTransaction, StopOld, Switching
  <2>3. CASE MoveOld \/ MoveNew \/ StartNew \/ Commit \/ ReportNew \/ EndTransaction
    BY <2>3 DEF MoveOld, MoveNew, StartNew, Commit, ReportNew, EndTransaction
  <2>4. CASE Preflight
    BY <2>4 DEF Preflight
  <2>5. CASE ProbeNew
    BY <2>5 DEF ProbeNew
  <2> QED
    BY <2>1, <2>2, <2>3, <2>4, <2>5
<1>2. status' \in Outcomes
  BY DEF RecoverNothing, RecoverCommitted, RecoverReport, StopServices, SetAside, Restore, Restart, Probe,
         RemoveJournal, Preflight, Build, StillLatest, BeginTransaction, StopOld, Switching, MoveOld,
         MoveNew, StartNew, ProbeNew, Commit, ReportNew, EndTransaction, Outcomes, States
<1>3. journal' \in Transactions \cup {None}
  <2>1. CASE BeginTransaction
    BY <2>1 DEF BeginTransaction, Resting, Transactions, Jobs, Between
  <2>2. CASE Switching \/ Commit
    BY <2>2 DEF Switching, Commit, Transactions, ActivatePoints
  <2>3. CASE RemoveJournal \/ EndTransaction
    BY <2>3 DEF RemoveJournal, EndTransaction
  <2>4. CASE UNCHANGED journal
    BY <2>4
  <2> QED
    BY <2>1, <2>2, <2>3, <2>4
       DEF RecoverNothing, RecoverCommitted, RecoverReport, StopServices, SetAside, Restore, Restart, Probe,
           Preflight, Build, StillLatest, StopOld, MoveOld, MoveNew, StartNew, ProbeNew, ReportNew, release
<1>4. root' \in Revisions \cup {None} /\ previous' \in Revisions \cup {None}
  BY DEF RecoverNothing, RecoverCommitted, RecoverReport, StopServices, SetAside, Restore, Restart, Probe,
         RemoveJournal, Preflight, Build, StillLatest, BeginTransaction, StopOld, Switching, MoveOld,
         MoveNew, StartNew, ProbeNew, Commit, ReportNew, EndTransaction, release, Jobs
<1>5. UNCHANGED events
  BY DEF RecoverNothing, RecoverCommitted, RecoverReport, StopServices, SetAside, Restore, Restart, Probe,
         RemoveJournal, Preflight, Build, StillLatest, BeginTransaction, StopOld, Switching, MoveOld,
         MoveNew, StartNew, ProbeNew, Commit, ReportNew, EndTransaction
<1> QED
  BY <1>1, <1>2, <1>3, <1>4, <1>5 DEF events

\* The queue, and the failures that record nothing.
LEMMA DrainTypes ==
  ASSUME DiskInv, Drain
  PROVE  UpdateTypes'
<1> USE IdleTypes DEF DiskInv, UpdateTypes, events, release
<1>1. CASE ReadBatch
  <2>1. {d \in pending : received[d] = None} \in SUBSET Merges
    OBVIOUS
  <2>2. job' \in Jobs
    BY <1>1, <2>1 DEF ReadBatch, Jobs, Points, Anywhere
  <2> QED
    BY <1>1, <2>1, <2>2 DEF ReadBatch
<1>2. CASE Returned \/ Raised \/ NextBatch
  <2>1. job' \in Jobs
    BY <1>2 DEF Returned, Raised, NextBatch, Goto, Jobs, Points, Between
  <2> QED
    BY <1>2, <2>1 DEF Returned, Raised, NextBatch
<1>3. ASSUME NEW d \in Merges, Acknowledge(d) \/ Unqueue(d)
      PROVE  UpdateTypes'
  <2>1. job' \in Jobs
    BY ZenonT(60), <1>3 DEF Acknowledge, Unqueue, Goto, Jobs, Points, Between
  <2>2. pending' \in SUBSET Merges /\ received' \in [Merges -> Outcomes \cup {None}]
    BY <1>3 DEF Acknowledge, Unqueue
  <2> QED
    BY <1>3, <2>1, <2>2 DEF Acknowledge, Unqueue
<1> QED
  BY <1>1, <1>2, <1>3 DEF Drain

LEMMA FailureTypes ==
  ASSUME DiskInv, Failure
  PROVE  UpdateTypes'
<1> USE IdleTypes DEF DiskInv, UpdateTypes, events, release
<1>1. CASE Defer \/ Fail
  BY <1>1, RecordingTypes
<1>2. CASE LatestFails \/ ActivateFails \/ ActivateFailsLate \/ RecoverFails \/ Crash
  <2>1. job' \in Jobs
    BY <1>2 DEF LatestFails, ActivateFails, ActivateFailsLate, RecoverFails, Crash, Goto, Jobs, Points, Anywhere,
                RecoverPoints
  <2> QED
    BY <1>2, <2>1 DEF LatestFails, ActivateFails, ActivateFailsLate, RecoverFails, Crash
<1>3. CASE JournalUnsure
  <2>1. job' \in Jobs
    BY <1>3 DEF JournalUnsure, Goto, Jobs, Points, Anywhere
  <2>2. journal' \in Transactions
    BY <1>3 DEF JournalUnsure, InTransaction, Resting, Transactions, Jobs, Between
  <2> QED
    BY <1>3, <2>1, <2>2 DEF JournalUnsure
<1> QED
  BY <1>1, <1>2, <1>3 DEF Failure

-----------------------------------------------------------------------------
(* Releases and journal                                                    *)

\* recover() runs at the start, and after a transaction that was interrupted.
LEMMA RecoverDisk ==
  ASSUME DiskInv, Recover
  PROVE  Resting' /\ OnDisk' /\ InTransaction'
<1> USE NoriAssumption DEF DiskInv, UpdateTypes, Resting, OnDisk, InTransaction, Goto, Record, release, events,
      Jobs, Transactions, Between, Anywhere, Points, RecoverPoints, ActivatePoints, Idle, Revisions, Merges
<1>1. CASE RecoverNothing
  BY <1>1 DEF RecoverNothing
<1>2. CASE RecoverTooLate
  BY <1>2 DEF RecoverTooLate
<1>3. CASE RecoverCommitted
  BY <1>3 DEF RecoverCommitted
<1>4. CASE RecoverReport
  BY <1>4 DEF RecoverReport
<1>5. CASE RecoverRecordCommit
  BY <1>5 DEF RecoverRecordCommit
<1>6. CASE RollBack
  BY <1>6 DEF RollBack
<1>7. CASE StopServices
  BY <1>7 DEF StopServices
<1>8. CASE SetAside
  BY <1>8 DEF SetAside
<1>9. CASE Restore
  BY <1>9 DEF Restore
<1>10. CASE Restart
  BY <1>10 DEF Restart
<1>11. CASE Probe
  BY <1>11 DEF Probe
<1>12. CASE RecordRollback
  BY <1>12 DEF RecordRollback
<1>13. CASE RemoveJournal
  BY <1>13 DEF RemoveJournal
<1> QED
  BY <1>1, <1>2, <1>3, <1>4, <1>5, <1>6, <1>7, <1>8, <1>9, <1>10, <1>11, <1>12, <1>13 DEF Recover

\* run() up to the activation changes no release.
LEMMA RunDisk ==
  ASSUME DiskInv, Run
  PROVE  Resting' /\ OnDisk' /\ InTransaction'
<1> USE NoriAssumption DEF DiskInv, UpdateTypes, Resting, OnDisk, InTransaction, Goto, Record, release, events,
      Jobs, Transactions, Between, Anywhere, Points, RecoverPoints, ActivatePoints, Idle, Revisions, Merges
<1>1. CASE UpToDate
  BY <1>1 DEF UpToDate
<1>2. CASE Refuse
  BY <1>2 DEF Refuse
<1>3. CASE Preflight
  BY <1>3 DEF Preflight
<1>4. CASE Build
  BY <1>4 DEF Build
<1>5. CASE Superseded
  BY <1>5 DEF Superseded
<1>6. CASE StillLatest
  BY <1>6 DEF StillLatest
<1> QED
  BY <1>1, <1>2, <1>3, <1>4, <1>5, <1>6 DEF Run

\* activate(): journal, old release aside, new one in, probe, commit.
LEMMA ActivateDisk ==
  ASSUME DiskInv, Activate
  PROVE  Resting' /\ OnDisk' /\ InTransaction'
<1> USE NoriAssumption DEF DiskInv, UpdateTypes, Resting, OnDisk, InTransaction, Goto, Record, release, events,
      Jobs, Transactions, Between, Anywhere, Points, RecoverPoints, ActivatePoints, Idle, Revisions, Merges
<1>1. CASE BeginTransaction
  BY <1>1 DEF BeginTransaction
<1>2. CASE StopOld
  BY <1>2 DEF StopOld
<1>3. CASE Switching
  BY <1>3 DEF Switching
<1>4. CASE MoveOld
  BY <1>4 DEF MoveOld
<1>5. CASE MoveNew
  BY <1>5 DEF MoveNew
<1>6. CASE StartNew
  BY <1>6 DEF StartNew
<1>7. CASE ProbeNew
  BY <1>7 DEF ProbeNew
<1>8. CASE Commit
  BY <1>8 DEF Commit
<1>9. CASE ReportNew
  BY <1>9 DEF ReportNew
<1>10. CASE RecordNew
  BY <1>10 DEF RecordNew
<1>11. CASE EndTransaction
  BY <1>11 DEF EndTransaction
<1> QED
  BY <1>1, <1>2, <1>3, <1>4, <1>5, <1>6, <1>7, <1>8, <1>9, <1>10, <1>11 DEF Activate

\* drain_events() touches the queue only.
LEMMA DrainDisk ==
  ASSUME DiskInv, Drain
  PROVE  Resting' /\ OnDisk' /\ InTransaction'
<1> USE NoriAssumption DEF DiskInv, UpdateTypes, Resting, OnDisk, InTransaction, Goto, Record, release, events,
      Jobs, Transactions, Between, Anywhere, Points, RecoverPoints, ActivatePoints, Idle, Revisions, Merges
<1>1. CASE ReadBatch
  BY <1>1 DEF ReadBatch
<1>2. CASE Returned
  BY <1>2 DEF Returned
<1>3. CASE Raised
  BY <1>3 DEF Raised
<1>4. CASE NextBatch
  BY <1>4 DEF NextBatch
<1>5. ASSUME NEW d \in Merges, Acknowledge(d) \/ Unqueue(d)
      PROVE  Resting' /\ OnDisk' /\ InTransaction'
  <2>1. UNCHANGED <<main, root, previous, serving, journal>> /\ job'.at \in {"ack", "unqueue"} /\ journal = None
    BY ZenonT(60), <1>5 DEF Acknowledge, Unqueue
  <2> QED
    BY <2>1
<1> QED
  BY <1>1, <1>2, <1>3, <1>4, <1>5 DEF Drain

\* A failure or a crash at any point.
LEMMA FailureDisk ==
  ASSUME DiskInv, Failure
  PROVE  Resting' /\ OnDisk' /\ InTransaction'
<1> USE NoriAssumption DEF DiskInv, UpdateTypes, Resting, OnDisk, InTransaction, Goto, Record, release, events,
      Jobs, Transactions, Between, Anywhere, Points, RecoverPoints, ActivatePoints, Idle, Revisions, Merges
<1>1. CASE LatestFails
  BY <1>1 DEF LatestFails
<1>2. CASE Defer
  BY <1>2 DEF Defer
<1>3. CASE Fail
  BY <1>3 DEF Fail
<1>4. CASE JournalUnsure
  BY <1>4 DEF JournalUnsure
<1>5. CASE ActivateFails
  BY <1>5 DEF ActivateFails
<1>6. CASE ActivateFailsLate
  BY <1>6 DEF ActivateFailsLate
<1>7. CASE RecoverFails
  BY <1>7 DEF RecoverFails
<1>8. CASE Crash
  BY <1>8 DEF Crash
<1> QED
  BY <1>1, <1>2, <1>3, <1>4, <1>5, <1>6, <1>7, <1>8 DEF Failure

\* The branch and the webhook server; the starts of the updater.
LEMMA WorldTypes ==
  ASSUME DiskInv, Merge \/ Webhook \/ StartDrain \/ (\E mode \in {"manual", "retry"} : StartManual(mode))
  PROVE  UpdateTypes'
<1> USE NoriAssumption, IdleTypes DEF DiskInv, UpdateTypes, events, release
<1>1. CASE Merge
  BY <1>1 DEF Merge, Revisions
<1>2. CASE Webhook
  <2>1. UNCHANGED <<main, received, release, status, job>>
    BY <1>2 DEF Webhook, FindPending, QueueUnlessReceived, RefuseDelivery
  <2>2. hook' \in Merges \cup {None} /\ pending' \in SUBSET Merges
    BY <1>2 DEF Webhook, FindPending, QueueUnlessReceived, RefuseDelivery
  <2> QED
    BY <2>1, <2>2
<1>3. CASE StartDrain \/ (\E mode \in {"manual", "retry"} : StartManual(mode))
  <2>1. CASE StartDrain
    <3>1. job' = [Idle EXCEPT !.at = "recover"] /\ UNCHANGED <<events, release, status>>
      BY <2>1 DEF StartDrain
    <3>2. job' \in Jobs
      BY <3>1 DEF Jobs, Points, Anywhere
    <3> QED
      BY <3>1, <3>2
  <2>2. ASSUME NEW mode \in {"manual", "retry"}, StartManual(mode)
        PROVE  UpdateTypes'
    <3>1. /\ job' = [Idle EXCEPT !.at = "recover", !.mode = mode, !.caller = "run"]
          /\ UNCHANGED <<events, release, status>>
      BY <2>2 DEF StartManual
    <3>2. job' \in Jobs
      BY <3>1 DEF Jobs, Points, Anywhere
    <3> QED
      BY <3>1, <3>2
  <2> QED
    BY <1>3, <2>1, <2>2
<1> QED
  BY <1>1, <1>2, <1>3

LEMMA WorldDisk ==
  ASSUME DiskInv, Merge \/ Webhook \/ StartDrain \/ (\E mode \in {"manual", "retry"} : StartManual(mode))
  PROVE  Resting' /\ OnDisk' /\ InTransaction'
<1> USE NoriAssumption DEF DiskInv, UpdateTypes, Resting, OnDisk, InTransaction, release, events,
      Jobs, Transactions, Between, RecoverPoints, ActivatePoints, Idle, Revisions
<1>1. CASE Merge
  BY <1>1 DEF Merge
<1>2. CASE Webhook
  <2>1. UNCHANGED <<main, release, job>>
    BY <1>2 DEF Webhook, FindPending, QueueUnlessReceived, RefuseDelivery
  <2> QED
    BY <2>1
<1>3. CASE StartDrain \/ (\E mode \in {"manual", "retry"} : StartManual(mode))
  <2>1. UNCHANGED <<main, release>> /\ job'.at = "recover"
    BY ZenonT(60), <1>3 DEF StartDrain, StartManual
  <2> QED
    BY <2>1
<1> QED
  BY <1>1, <1>2, <1>3

LEMMA InitDisk == ReporterInit => DiskInv
BY NoriAssumption, IdleTypes DEF ReporterInit, ReporterBegin, Begin, DiskInv, UpdateTypes, Resting, OnDisk,
   InTransaction, Idle, Outcomes, States, Merges, Revisions, Between, RecoverPoints, ActivatePoints

\* The reporter and GitHub leave all of this alone.
LEMMA SameDisk ==
  ASSUME DiskInv, UNCHANGED <<events, release, status, job>>
  PROVE  DiskInv'
BY DEF DiskInv, UpdateTypes, Resting, OnDisk, InTransaction, events, release

LEMMA ReporterSteps ==
  ASSUME Wake \/ CourierStep \/ CourierCrash \/ Edit \/ (\E r \in Merges : DeliveryFails(r)) \/ UNCHANGED allVars
  PROVE  UNCHANGED <<events, release, status, deployed, job>>
BY DEF Wake, CourierStep, Deliver, CourierCrash, Edit, DeliveryFails, deliveryVars, allVars, vars, outbox

LEMMA NextDisk == DiskInv /\ [Next]_allVars => DiskInv'
<1> SUFFICES ASSUME DiskInv, [Next]_allVars PROVE DiskInv'
  OBVIOUS
<1>1. CASE UpdateNext
  <2>1. UpdateTypes'
    BY <1>1, WorldTypes, RecordingTypes, MovingTypes, DrainTypes, FailureTypes
       DEF UpdateNext, Step, Recover, Run, Activate
  <2>2. Resting' /\ OnDisk' /\ InTransaction'
    BY <1>1, WorldDisk, RecoverDisk, RunDisk, ActivateDisk, DrainDisk, FailureDisk DEF UpdateNext, Step
  <2> QED
    BY <2>1, <2>2 DEF DiskInv
<1>2. CASE ~ UpdateNext
  BY <1>2, ReporterSteps, SameDisk DEF Next
<1> QED
  BY <1>1, <1>2

LEMMA AlwaysDisk == Spec => []DiskInv
BY InitDisk, NextDisk, PTL DEF Spec

\* Until a transaction is committed the release it replaces is on disk, and
\* between transactions the live release is there and runs: activate() and
\* recover(), interrupted between any two of their durable steps.
THEOREM AlwaysReleaseKept == Spec => []ReleaseKept
<1>1. DiskInv => ReleaseKept
  BY DEF DiskInv, UpdateTypes, Resting, OnDisk, ReleaseKept, Transactions
<1> QED
  BY <1>1, AlwaysDisk, PTL

-----------------------------------------------------------------------------
(* The refinement: the commit is the one step that replaces the release.    *)

LEMMA LiveOnly ==
  ASSUME DiskInv, UpdateNext, ~ Commit
  PROVE  Live' = Live
<1> USE DEF DiskInv, UpdateTypes, Resting, OnDisk, InTransaction, Live, Goto, Record, release, events,
      Transactions, Between, RecoverPoints, ActivatePoints
<1>1. CASE Merge \/ Webhook \/ StartDrain \/ (\E mode \in {"manual", "retry"} : StartManual(mode))
  <2>1. UNCHANGED release
    BY <1>1 DEF Merge, Webhook, FindPending, QueueUnlessReceived, RefuseDelivery, StartDrain, StartManual
  <2> QED
    BY <2>1
<1>2. CASE Recover
  <2>1. CASE RemoveJournal
    BY <2>1, NoriAssumption DEF RemoveJournal
  <2>2. CASE StopServices \/ SetAside \/ Restore \/ Restart
    BY <2>2 DEF StopServices, SetAside, Restore, Restart
  <2>3. CASE UNCHANGED release
    BY <2>3
  <2> QED
    BY <1>2, <2>1, <2>2, <2>3 DEF Recover, RecoverNothing, RecoverTooLate, RecoverCommitted, RecoverReport,
         RecoverRecordCommit, RollBack, Probe, RecordRollback
<1>3. CASE Run \/ Drain
  BY <1>3 DEF Run, UpToDate, Refuse, Preflight, Build, Superseded, StillLatest,
              Drain, ReadBatch, Returned, Raised, NextBatch, Acknowledge, Unqueue
<1>4. CASE Activate
  <2>1. CASE BeginTransaction
    BY <2>1 DEF BeginTransaction
  <2>2. CASE EndTransaction
    BY <2>2 DEF EndTransaction
  <2>3. CASE Switching \/ MoveOld \/ MoveNew
    BY <2>3 DEF Switching, MoveOld, MoveNew
  <2>4. CASE UNCHANGED <<root, journal>>
    BY <2>4
  <2> QED
    BY <1>4, <2>1, <2>2, <2>3, <2>4 DEF Activate, StopOld, StartNew, ProbeNew, ReportNew, RecordNew
<1>5. CASE Failure
  BY <1>5 DEF Failure, LatestFails, Defer, Fail, JournalUnsure, ActivateFails, ActivateFailsLate, RecoverFails, Crash
<1> QED
  BY <1>1, <1>2, <1>3, <1>4, <1>5 DEF UpdateNext, Step

LEMMA CommitDeploys ==
  ASSUME DiskInv, Commit
  PROVE  \E r \in Revisions : r > Live /\ r \notin Broken /\ Live' = r
<1>1. /\ journal # None /\ journal.phase = "switching"
      /\ root = journal.target /\ serving = root /\ serving \notin Broken
      /\ journal.old < journal.target /\ journal \in Transactions
  BY DEF Commit, DiskInv, UpdateTypes, OnDisk, InTransaction, ActivatePoints
<1>2. Live = journal.old
  BY <1>1 DEF Live
<1>3. journal'.phase = "committed" /\ UNCHANGED root
  BY <1>1 DEF Commit, Transactions
<1>4. Live' = root
  BY <1>3 DEF Live
<1> QED
  BY <1>1, <1>2, <1>4 DEF Transactions, Revisions

\* Directory moves, journal, rollback and recovery implement one atomic
\* replacement of the live release by a newer one that came up healthy.
THEOREM AtomicDeployment == Spec => AtomicSpec
<1>1. ReporterInit => Atomic!Init
  BY DEF ReporterInit, ReporterBegin, Begin, Atomic!Init, Live
<1>2. DiskInv /\ [Next]_allVars => [Atomic!Next]_Live
  <2> SUFFICES ASSUME DiskInv, [Next]_allVars PROVE Atomic!Next \/ Live' = Live
    OBVIOUS
  <2>1. CASE UpdateNext /\ ~ Commit
    BY <2>1, LiveOnly
  <2>2. CASE Commit
    BY <2>2, CommitDeploys DEF Atomic!Next, Atomic!Deploy
  <2>3. CASE ~ UpdateNext
    <3>1. UNCHANGED release
      BY <2>3, ReporterSteps DEF Next
    <3> QED
      BY <3>1 DEF release, Live
  <2> QED
    BY <2>1, <2>2, <2>3
<1> QED
  BY <1>1, <1>2, AlwaysDisk, PTL DEF Spec, AtomicSpec, Atomic!Spec

-----------------------------------------------------------------------------
(* Receipts: what a run answers the queue.                                 *)

LEMMA RecoverEvents ==
  ASSUME DiskInv, EventsInv, Recover
  PROVE  EventsInv'
<1> USE NoriAssumption DEF DiskInv, UpdateTypes, Resting, OnDisk, InTransaction, Goto, Record, release, events,
      Jobs, Transactions, Between, Anywhere, Points, RecoverPoints, ActivatePoints, Idle, Revisions, Merges,
      EventsInv, Happened, BatchCovered, Ahead, StatusTold, Receipted, Live, Settled, Reached, Outcomes, States
<1>1. CASE RecoverNothing
  BY <1>1 DEF RecoverNothing
<1>2. CASE RecoverTooLate
  BY <1>2 DEF RecoverTooLate
<1>3. CASE RecoverCommitted
  BY <1>3 DEF RecoverCommitted
<1>4. CASE RecoverReport
  BY <1>4 DEF RecoverReport
<1>5. CASE RecoverRecordCommit
  BY <1>5 DEF RecoverRecordCommit
<1>6. CASE RollBack
  BY <1>6 DEF RollBack
<1>7. CASE StopServices
  BY <1>7 DEF StopServices
<1>8. CASE SetAside
  BY <1>8 DEF SetAside
<1>9. CASE Restore
  BY <1>9 DEF Restore
<1>10. CASE Restart
  BY <1>10 DEF Restart
<1>11. CASE Probe
  BY <1>11 DEF Probe
<1>12. CASE RecordRollback
  BY <1>12 DEF RecordRollback
<1>13. CASE RemoveJournal
  BY <1>13 DEF RemoveJournal
<1> QED
  BY <1>1, <1>2, <1>3, <1>4, <1>5, <1>6, <1>7, <1>8, <1>9, <1>10, <1>11, <1>12, <1>13 DEF Recover

LEMMA RunEvents ==
  ASSUME DiskInv, EventsInv, Run
  PROVE  EventsInv'
<1> USE NoriAssumption DEF DiskInv, UpdateTypes, Resting, OnDisk, InTransaction, Goto, Record, release, events,
      Jobs, Transactions, Between, Anywhere, Points, RecoverPoints, ActivatePoints, Idle, Revisions, Merges,
      EventsInv, Happened, BatchCovered, Ahead, StatusTold, Receipted, Live, Settled, Reached, Outcomes, States
<1>1. CASE UpToDate
  BY <1>1 DEF UpToDate
<1>2. CASE Refuse
  BY <1>2 DEF Refuse
<1>3. CASE Preflight
  BY <1>3 DEF Preflight
<1>4. CASE Build
  BY <1>4 DEF Build
<1>5. CASE Superseded
  BY <1>5 DEF Superseded
<1>6. CASE StillLatest
  BY <1>6 DEF StillLatest
<1> QED
  BY <1>1, <1>2, <1>3, <1>4, <1>5, <1>6 DEF Run

LEMMA ActivateEvents ==
  ASSUME DiskInv, EventsInv, Activate
  PROVE  EventsInv'
<1> USE NoriAssumption DEF DiskInv, UpdateTypes, Resting, OnDisk, InTransaction, Goto, Record, release, events,
      Jobs, Transactions, Between, Anywhere, Points, RecoverPoints, ActivatePoints, Idle, Revisions, Merges,
      EventsInv, Happened, BatchCovered, Ahead, StatusTold, Receipted, Live, Settled, Reached, Outcomes, States
<1>1. CASE BeginTransaction
  BY <1>1 DEF BeginTransaction
<1>2. CASE StopOld
  BY <1>2 DEF StopOld
<1>3. CASE Switching
  BY <1>3 DEF Switching
<1>4. CASE MoveOld
  BY <1>4 DEF MoveOld
<1>5. CASE MoveNew
  BY <1>5 DEF MoveNew
<1>6. CASE StartNew
  BY <1>6 DEF StartNew
<1>7. CASE ProbeNew
  BY <1>7 DEF ProbeNew
<1>8. CASE Commit
  BY <1>8 DEF Commit
<1>9. CASE ReportNew
  BY <1>9 DEF ReportNew
<1>10. CASE RecordNew
  BY <1>10 DEF RecordNew
<1>11. CASE EndTransaction
  BY <1>11 DEF EndTransaction
<1> QED
  BY <1>1, <1>2, <1>3, <1>4, <1>5, <1>6, <1>7, <1>8, <1>9, <1>10, <1>11 DEF Activate

LEMMA DrainEvents ==
  ASSUME DiskInv, EventsInv, Drain
  PROVE  EventsInv'
<1> USE NoriAssumption DEF DiskInv, UpdateTypes, Resting, OnDisk, InTransaction, Goto, Record, release, events,
      Jobs, Transactions, Between, Anywhere, Points, RecoverPoints, ActivatePoints, Idle, Revisions, Merges,
      EventsInv, Happened, BatchCovered, Ahead, StatusTold, Receipted, Live, Settled, Reached, Outcomes, States
<1>1. CASE ReadBatch
  BY <1>1 DEF ReadBatch
<1>2. CASE Returned
  BY <1>2 DEF Returned
<1>3. CASE Raised
  BY <1>3 DEF Raised
<1>4. CASE NextBatch
  BY <1>4 DEF NextBatch
<1>5. ASSUME NEW d \in Merges, Acknowledge(d) \/ Unqueue(d)
      PROVE  EventsInv'
  <2>1. CASE Acknowledge(d)
    <3>1. /\ UNCHANGED <<main, hook, pending, release, status>>
          /\ job' = [job EXCEPT !.at = "unqueue"] /\ job.at = "ack" /\ d \in job.batch
          /\ received' = [received EXCEPT ![d] = status]
      BY <2>1 DEF Acknowledge
    <3>2. Happened' /\ BatchCovered' /\ StatusTold'
      BY <3>1
    <3>3. status.revision >= d /\ status.state \in Settled \cup Reached
          /\ status.state \in Reached => Live >= d
      BY <3>1
    <3>4. Receipted'
      BY <3>1, <3>3
    <3> QED
      BY <3>2, <3>4
  <2>2. CASE Unqueue(d)
    <3>1. /\ UNCHANGED <<main, hook, received, release, status>>
          /\ job' = [job EXCEPT !.at = "ack", !.batch = @ \ {d}] /\ job.at = "unqueue"
          /\ pending' \subseteq pending
      BY <2>2 DEF Unqueue
    <3> QED
      BY <3>1
  <2> QED
    BY <1>5, <2>1, <2>2
<1> QED
  BY <1>1, <1>2, <1>3, <1>4, <1>5 DEF Drain

LEMMA FailureEvents ==
  ASSUME DiskInv, EventsInv, Failure
  PROVE  EventsInv'
<1> USE NoriAssumption DEF DiskInv, UpdateTypes, Resting, OnDisk, InTransaction, Goto, Record, release, events,
      Jobs, Transactions, Between, Anywhere, Points, RecoverPoints, ActivatePoints, Idle, Revisions, Merges,
      EventsInv, Happened, BatchCovered, Ahead, StatusTold, Receipted, Live, Settled, Reached, Outcomes, States
<1>1. CASE LatestFails
  BY <1>1 DEF LatestFails
<1>2. CASE Defer
  BY <1>2 DEF Defer
<1>3. CASE Fail
  BY <1>3 DEF Fail
<1>4. CASE JournalUnsure
  BY <1>4 DEF JournalUnsure
<1>5. CASE ActivateFails
  BY <1>5 DEF ActivateFails
<1>6. CASE ActivateFailsLate
  BY <1>6 DEF ActivateFailsLate
<1>7. CASE RecoverFails
  BY <1>7 DEF RecoverFails
<1>8. CASE Crash
  BY <1>8 DEF Crash
<1> QED
  BY <1>1, <1>2, <1>3, <1>4, <1>5, <1>6, <1>7, <1>8 DEF Failure

\* A delivery that is queued again changes no receipt.
LEMMA WorldEvents ==
  ASSUME DiskInv, EventsInv, Merge \/ Webhook \/ StartDrain \/ (\E mode \in {"manual", "retry"} : StartManual(mode))
  PROVE  EventsInv'
<1> USE NoriAssumption DEF EventsInv, Happened, BatchCovered, Ahead, StatusTold, Receipted, release, events
<1>1. CASE Merge
  BY <1>1 DEF Merge, Live, DiskInv, UpdateTypes, Revisions, Merges, Jobs
<1>2. CASE Webhook
  <2>1. UNCHANGED <<main, received, root, previous, journal, status, job>>
    BY <1>2 DEF Webhook, FindPending, QueueUnlessReceived, RefuseDelivery
  <2>2. (hook' # None => hook' <= main) /\ \A d \in pending' : d <= main
    BY <1>2 DEF Webhook, FindPending, QueueUnlessReceived, RefuseDelivery
  <2> QED
    BY <2>1, <2>2 DEF Live
<1>3. CASE StartDrain \/ (\E mode \in {"manual", "retry"} : StartManual(mode))
  <2>1. /\ UNCHANGED <<main, hook, pending, received, root, previous, journal, status>>
        /\ job'.at = "recover" /\ job'.batch = {} /\ job'.caller # "activate"
    BY <1>3 DEF StartDrain, StartManual, Idle
  <2> QED
    BY <2>1 DEF Live, RecoverPoints, ActivatePoints
<1> QED
  BY <1>1, <1>2, <1>3

LEMMA InitEvents == ReporterInit => EventsInv
BY NoriAssumption DEF ReporterInit, ReporterBegin, Begin, EventsInv, Happened, BatchCovered, Ahead, StatusTold,
   Receipted, Idle, Merges, ActivatePoints

LEMMA NextEvents == DiskInv /\ EventsInv /\ [Next]_allVars => EventsInv'
<1> SUFFICES ASSUME DiskInv, EventsInv, [Next]_allVars PROVE EventsInv'
  OBVIOUS
<1>1. CASE UpdateNext
  BY <1>1, WorldEvents, RecoverEvents, RunEvents, ActivateEvents, DrainEvents, FailureEvents
     DEF UpdateNext, Step
<1>2. CASE ~ UpdateNext
  <2>1. UNCHANGED <<events, release, status, deployed, job>>
    BY <1>2, ReporterSteps DEF Next
  <2> QED
    BY <2>1 DEF EventsInv, Happened, BatchCovered, Ahead, StatusTold, Receipted, Live, events, release
<1> QED
  BY <1>1, <1>2

\* A receipt speaks of the merge or of a newer one, says it is settled, and
\* what it calls deployed stays deployed: drain_events() and the status that
\* run() left, whatever failed and whichever deliveries came again.
THEOREM AlwaysSettledForGood == Spec => []SettledForGood
<1>1. DiskInv /\ EventsInv => SettledForGood
  <2> SUFFICES ASSUME DiskInv, EventsInv, NEW d \in Merges, received[d] # None
               PROVE  /\ received[d].revision >= d
                      /\ received[d].state \in Settled \cup {"updated", "up_to_date"}
                      /\ received[d].state \notin Settled =>
                           \/ root # None /\ root >= d /\ (journal # None => journal.old >= d \/ journal.phase = "committed")
                           \/ previous # None /\ previous >= d
    BY DEF SettledForGood
  <2>1. /\ received[d].revision >= d /\ received[d].state \in Settled \cup Reached
        /\ received[d].state \notin Settled => Live >= d
    BY DEF EventsInv, Receipted
  <2>2. Live >= d =>
          \/ root # None /\ root >= d /\ (journal # None => journal.old >= d \/ journal.phase = "committed")
          \/ previous # None /\ previous >= d
    BY NoriAssumption DEF Live, DiskInv, UpdateTypes, Resting, OnDisk, Transactions
  <2> QED
    BY <2>1, <2>2 DEF Reached
<1> QED
  BY <1>1, AlwaysDisk, InitEvents, NextEvents, PTL DEF Spec

-----------------------------------------------------------------------------
(* The outbox: one report of each committed transaction.                   *)

LEMMA RecoverOutbox ==
  ASSUME DiskInv, OutboxInv, Recover
  PROVE  OutboxInv'
<1> USE NoriAssumption DEF DiskInv, UpdateTypes, Resting, OnDisk, InTransaction, Goto, Record, release, events,
      Jobs, Transactions, Between, Anywhere, Points, RecoverPoints, ActivatePoints, Idle, Revisions, Merges,
      OutboxInv, QueueReport, outbox
<1>1. CASE RecoverNothing
  BY <1>1 DEF RecoverNothing
<1>2. CASE RecoverTooLate
  BY <1>2 DEF RecoverTooLate
<1>3. CASE RecoverCommitted
  BY <1>3 DEF RecoverCommitted
<1>4. CASE RecoverReport
  BY <1>4 DEF RecoverReport
<1>5. CASE RecoverRecordCommit
  BY <1>5 DEF RecoverRecordCommit
<1>6. CASE RollBack
  BY <1>6 DEF RollBack
<1>7. CASE StopServices
  BY <1>7 DEF StopServices
<1>8. CASE SetAside
  BY <1>8 DEF SetAside
<1>9. CASE Restore
  BY <1>9 DEF Restore
<1>10. CASE Restart
  BY <1>10 DEF Restart
<1>11. CASE Probe
  BY <1>11 DEF Probe
<1>12. CASE RecordRollback
  BY <1>12 DEF RecordRollback
<1>13. CASE RemoveJournal
  BY <1>13 DEF RemoveJournal
<1> QED
  BY <1>1, <1>2, <1>3, <1>4, <1>5, <1>6, <1>7, <1>8, <1>9, <1>10, <1>11, <1>12, <1>13 DEF Recover

LEMMA RunOutbox ==
  ASSUME DiskInv, OutboxInv, Run
  PROVE  OutboxInv'
<1> USE NoriAssumption DEF DiskInv, UpdateTypes, Resting, OnDisk, InTransaction, Goto, Record, release, events,
      Jobs, Transactions, Between, Anywhere, Points, RecoverPoints, ActivatePoints, Idle, Revisions, Merges,
      OutboxInv, QueueReport, outbox
<1>1. CASE UpToDate
  BY <1>1 DEF UpToDate
<1>2. CASE Refuse
  BY <1>2 DEF Refuse
<1>3. CASE Preflight
  BY <1>3 DEF Preflight
<1>4. CASE Build
  BY <1>4 DEF Build
<1>5. CASE Superseded
  BY <1>5 DEF Superseded
<1>6. CASE StillLatest
  BY <1>6 DEF StillLatest
<1> QED
  BY <1>1, <1>2, <1>3, <1>4, <1>5, <1>6 DEF Run

LEMMA ActivateOutbox ==
  ASSUME DiskInv, OutboxInv, Activate
  PROVE  OutboxInv'
<1> USE NoriAssumption DEF DiskInv, UpdateTypes, Resting, OnDisk, InTransaction, Goto, Record, release, events,
      Jobs, Transactions, Between, Anywhere, Points, RecoverPoints, ActivatePoints, Idle, Revisions, Merges,
      OutboxInv, QueueReport, outbox
<1>1. CASE BeginTransaction
  BY <1>1 DEF BeginTransaction
<1>2. CASE StopOld
  BY <1>2 DEF StopOld
<1>3. CASE Switching
  BY <1>3 DEF Switching
<1>4. CASE MoveOld
  BY <1>4 DEF MoveOld
<1>5. CASE MoveNew
  BY <1>5 DEF MoveNew
<1>6. CASE StartNew
  BY <1>6 DEF StartNew
<1>7. CASE ProbeNew
  BY <1>7 DEF ProbeNew
<1>8. CASE Commit
  BY <1>8 DEF Commit
<1>9. CASE ReportNew
  BY <1>9 DEF ReportNew
<1>10. CASE RecordNew
  BY <1>10 DEF RecordNew
<1>11. CASE EndTransaction
  BY <1>11 DEF EndTransaction
<1> QED
  BY <1>1, <1>2, <1>3, <1>4, <1>5, <1>6, <1>7, <1>8, <1>9, <1>10, <1>11 DEF Activate

LEMMA DrainOutbox ==
  ASSUME DiskInv, OutboxInv, Drain
  PROVE  OutboxInv'
<1> USE NoriAssumption DEF DiskInv, UpdateTypes, Resting, OnDisk, InTransaction, Goto, Record, release, events,
      Jobs, Transactions, Between, Anywhere, Points, RecoverPoints, ActivatePoints, Idle, Revisions, Merges,
      OutboxInv, QueueReport, outbox
<1>1. CASE ReadBatch
  BY <1>1 DEF ReadBatch
<1>2. CASE Returned
  BY <1>2 DEF Returned
<1>3. CASE Raised
  BY <1>3 DEF Raised
<1>4. CASE NextBatch
  BY <1>4 DEF NextBatch
<1>5. ASSUME NEW d \in Merges, Acknowledge(d) \/ Unqueue(d)
      PROVE  OutboxInv'
  BY ZenonT(60), <1>5 DEF Acknowledge, Unqueue
<1> QED
  BY <1>1, <1>2, <1>3, <1>4, <1>5 DEF Drain

LEMMA FailureOutbox ==
  ASSUME DiskInv, OutboxInv, Failure
  PROVE  OutboxInv'
<1> USE NoriAssumption DEF DiskInv, UpdateTypes, Resting, OnDisk, InTransaction, Goto, Record, release, events,
      Jobs, Transactions, Between, Anywhere, Points, RecoverPoints, ActivatePoints, Idle, Revisions, Merges,
      OutboxInv, QueueReport, outbox
<1>1. CASE LatestFails
  BY <1>1 DEF LatestFails
<1>2. CASE Defer
  BY <1>2 DEF Defer
<1>3. CASE Fail
  BY <1>3 DEF Fail
<1>4. CASE JournalUnsure
  BY <1>4 DEF JournalUnsure
<1>5. CASE ActivateFails
  BY <1>5 DEF ActivateFails
<1>6. CASE ActivateFailsLate
  BY <1>6 DEF ActivateFailsLate
<1>7. CASE RecoverFails
  BY <1>7 DEF RecoverFails
<1>8. CASE Crash
  BY <1>8 DEF Crash
<1> QED
  BY <1>1, <1>2, <1>3, <1>4, <1>5, <1>6, <1>7, <1>8 DEF Failure

LEMMA WorldOutbox ==
  ASSUME OutboxInv, Merge \/ Webhook \/ StartDrain \/ (\E mode \in {"manual", "retry"} : StartManual(mode))
  PROVE  OutboxInv'
<1>1. UNCHANGED <<release, outbox>> /\ (UNCHANGED job \/ job'.at = "recover")
  BY DEF Merge, Webhook, FindPending, QueueUnlessReceived, RefuseDelivery, StartDrain, StartManual, Idle
<1> QED
  BY <1>1 DEF OutboxInv, release, outbox

\* The updater takes no report away.
LEMMA UpdaterReports ==
  ASSUME UpdateNext
  PROVE  reports \subseteq reports' /\ deployed \subseteq deployed' /\ UNCHANGED reported
<1>1. CASE Commit
  BY <1>1 DEF Commit
<1>2. CASE ReportNew \/ RecoverReport
  BY <1>2 DEF ReportNew, RecoverReport, QueueReport
<1>3. CASE UNCHANGED outbox
  BY <1>3 DEF outbox
<1>4. CASE Merge \/ Webhook \/ StartDrain \/ (\E mode \in {"manual", "retry"} : StartManual(mode))
  BY <1>3, <1>4 DEF Merge, Webhook, FindPending, QueueUnlessReceived, RefuseDelivery, StartDrain, StartManual
<1>5. CASE Recover
  BY <1>2, <1>3, <1>5 DEF Recover, RecoverNothing, RecoverTooLate, RecoverCommitted, RecoverRecordCommit,
     RollBack, StopServices, SetAside, Restore, Restart, Probe, RecordRollback, RemoveJournal
<1>6. CASE Run \/ Drain
  BY <1>3, <1>6 DEF Run, UpToDate, Refuse, Preflight, Build, Superseded, StillLatest,
     Drain, ReadBatch, Returned, Raised, NextBatch, Acknowledge, Unqueue
<1>7. CASE Activate
  BY <1>1, <1>2, <1>3, <1>7 DEF Activate, BeginTransaction, StopOld, Switching, MoveOld, MoveNew, StartNew,
     ProbeNew, RecordNew, EndTransaction
<1>8. CASE Failure
  BY <1>3, <1>8 DEF Failure, LatestFails, Defer, Fail, JournalUnsure, ActivateFails, ActivateFailsLate,
     RecoverFails, Crash
<1> QED
  BY <1>4, <1>5, <1>6, <1>7, <1>8 DEF UpdateNext, Step

\* Of the reporter's steps only the move of a file touches the outbox.
LEMMA MoveOutbox ==
  ASSUME OutboxInv, UNCHANGED <<release, deployed, job>>, NEW r \in reports,
         \/ UNCHANGED <<reports, reported>>
         \/ reports' = reports \ {r} /\ reported' = reported \cup {r}
  PROVE  OutboxInv'
BY DEF OutboxInv, release

-----------------------------------------------------------------------------
(* The reporter                                                            *)

\* The next report is one of the list, at the first or the second step.
LEMMA OnwardGoes ==
  ASSUME NEW todo, todo \subseteq reports', Onward(todo),
         \A r \in todo : slip[r].payload # None => slip'[r].payload # None
  PROVE  /\ Underway'
         /\ courier'.at \in {"idle", "ask", "record"}
         /\ Delivering'
<1>1. CASE todo = {}
  <2>1. courier' = [at |-> "idle", report |-> None, todo |-> {}]
    BY <1>1 DEF Onward, Asleep
  <2> QED
    BY <2>1 DEF Underway, Delivering
<1>2. CASE todo # {}
  <2>1. PICK r \in todo : courier' = [at |-> Resumes(r), report |-> r, todo |-> todo \ {r}]
    BY <1>2 DEF Onward
  <2>2. courier'.at = Resumes(r) /\ courier'.report = r /\ courier'.todo = todo \ {r}
    BY <2>1
  <2>3. Resumes(r) \in {"ask", "record"} /\ (Resumes(r) = "record" => slip[r].payload # None)
    BY DEF Resumes
  <2>4. Underway'
    BY <2>1, <2>2, <2>3 DEF Underway
  <2>5. /\ courier'.at \in {"ask", "record"}
        /\ courier'.at = "record" => slip'[courier'.report].payload # None
    BY <2>2, <2>3
  <2>6. Delivering'
    BY <2>5 DEF Delivering, DeliveringOf
  <2> QED
    BY <2>4, <2>5, <2>6
<1> QED
  BY <1>1, <1>2


\* The updater only adds to the queue and to the commits.
LEMMA UpdaterCourier ==
  ASSUME CourierInv, UpdateNext, UNCHANGED reporterVars
  PROVE  CourierInv'
<1> USE DEF CourierInv, reporterVars
<1>1. CourierTypes'
  BY DEF CourierTypes
<1>2. Underway'
  BY UpdaterReports DEF Underway
<1>3. Delivering'
  BY DEF Delivering, DeliveringOf, Noted
<1>4. Announced'
  BY UpdaterReports DEF Announced, AnnouncedOf, Noted, Saving
<1> QED
  BY <1>1, <1>2, <1>3, <1>4

Kept == UNCHANGED <<reports, reported, slip, backend, posts>>

\* A step of deliver() concerns its own report, ...
LEMMA EffectOthers ==
  ASSUME CourierInv, NEW r \in Merges, Effect(r) \/ Kept, NEW q \in Merges, q # r
  PROVE  /\ slip'[q] = slip[q] /\ backend'[q] = backend[q] /\ posts'[q] = posts[q]
         /\ q \in reported' <=> q \in reported
         /\ q \in reports' <=> q \in reports
BY DEF CourierInv, CourierTypes, Effect, Kept, Asks, Composes, Records, Posts, Saves, Receipts, Moves

\* ... whose records keep their types
LEMMA EffectTypes ==
  ASSUME CourierInv, NEW r \in Merges, courier.report = r, Effect(r) \/ Kept
  PROVE  /\ slip' \in [Merges -> Slips]
         /\ backend' \in [Merges -> Entries \cup {None}]
         /\ posts' \in [Merges -> Nat]
<1> USE DEF CourierInv, CourierTypes
<1>1. slip' \in [Merges -> Slips]
  <2>1. CASE Asks(r)
    <3>1. Append(slip[r].answers, github) \in Seq(Nat)
      BY DEF Slips
    <3>2. slip'[r] = [slip[r] EXCEPT !.answers = Append(slip[r].answers, github)]
      BY <2>1 DEF Asks
    <3>3. slip'[r] \in Slips
      BY ZenonT(60), <3>1, <3>2 DEF Slips
    <3> QED
      BY <2>1, <3>3 DEF Asks
  <2>2. CASE Composes(r)
    <3>1. slip'[r] = [slip[r] EXCEPT !.payload = slip[r].answers]
      BY <2>2 DEF Composes
    <3>2. slip'[r] \in Slips
      BY ZenonT(60), <3>1 DEF Slips
    <3> QED
      BY <2>2, <3>2 DEF Composes
  <2>3. CASE Saves(r)
    <3>1. slip'[r] = [slip[r] EXCEPT !.sent = TRUE]
      BY <2>3 DEF Saves
    <3>2. slip'[r] \in Slips
      BY ZenonT(60), <3>1 DEF Slips
    <3> QED
      BY <2>3, <3>2 DEF Saves
  <2> QED
    BY <2>1, <2>2, <2>3 DEF Effect, Kept, Records, Posts, Receipts, Moves
<1>2. backend' \in [Merges -> Entries \cup {None}]
  <2>1. CASE Records(r)
    <3>1. slip[r].payload \in Seq(Nat)
      BY <2>1 DEF Records, Underway, Delivering, DeliveringOf, Slips
    <3>2. [payload |-> slip[r].payload, sent |-> FALSE] \in Entries
      BY <3>1 DEF Entries
    <3> QED
      BY <2>1, <3>2 DEF Records
  <2>2. CASE Receipts(r)
    <3>1. backend[r] \in Entries
      BY <2>2 DEF Receipts, Delivering, DeliveringOf
    <3>2. backend'[r] = [backend[r] EXCEPT !.sent = TRUE]
      BY <2>2 DEF Receipts
    <3>3. backend'[r] \in Entries
      BY <3>1, <3>2 DEF Entries
    <3> QED
      BY <2>2, <3>3 DEF Receipts
  <2> QED
    BY <2>1, <2>2 DEF Effect, Kept, Asks, Composes, Posts, Saves, Moves
<1>3. posts' \in [Merges -> Nat]
  BY DEF Effect, Kept, Asks, Composes, Records, Posts, Saves, Receipts, Moves
<1> QED
  BY <1>1, <1>2, <1>3

\* ... and only grow: a deployment stays recorded and an announcement noted, at
\* the steps for them alone.
LEMMA EffectGrows ==
  ASSUME CourierInv, NEW r \in Merges, courier.report = r, Effect(r) \/ Kept
  PROVE  /\ backend[r] # None => backend'[r] # None
         /\ backend[r] # None /\ backend[r].sent => backend'[r].sent
         /\ slip[r].sent => slip'[r].sent
         /\ backend'[r] # None /\ backend'[r].sent /\ courier.at # "receipt" =>
              backend[r] # None /\ backend[r].sent
         /\ slip'[r].sent /\ courier.at # "save" => slip[r].sent
         /\ posts'[r] # posts[r] => courier.at = "post" /\ posts'[r] = posts[r] + 1
<1> USE DEF CourierInv, CourierTypes
<1>1. CASE Asks(r)
  <2>1. slip'[r] = [slip[r] EXCEPT !.answers = Append(slip[r].answers, github)]
    BY <1>1 DEF Asks
  <2>2. slip'[r].sent = slip[r].sent
    BY <2>1 DEF Slips
  <2> QED
    BY <1>1, <2>2 DEF Asks
<1>2. CASE Composes(r)
  <2>1. slip'[r] = [slip[r] EXCEPT !.payload = slip[r].answers]
    BY <1>2 DEF Composes
  <2>2. slip'[r].sent = slip[r].sent
    BY <2>1 DEF Slips
  <2> QED
    BY <1>2, <2>2 DEF Composes
<1>3. CASE Records(r)
  <2>1. CASE backend[r] = None
    <3>1. slip[r].payload \in Seq(Nat)
      BY <1>3 DEF Records, Delivering, DeliveringOf, Slips
    <3>2. backend'[r] = [payload |-> slip[r].payload, sent |-> FALSE]
      BY <1>3, <2>1 DEF Records
    <3>3. backend'[r] \in Entries /\ ~ backend'[r].sent
      BY <3>1, <3>2 DEF Entries
    <3> QED
      BY <1>3, <2>1, <3>3, ReporterAssumption DEF Records, Entries
  <2>2. CASE backend[r] # None
    BY <1>3, <2>2 DEF Records
  <2> QED
    BY <2>1, <2>2
<1>4. CASE Saves(r)
  <2>1. slip'[r] = [slip[r] EXCEPT !.sent = TRUE]
    BY <1>4 DEF Saves
  <2>2. slip'[r].sent
    BY <2>1 DEF Slips
  <2> QED
    BY <1>4, <2>2 DEF Saves
<1>5. CASE Receipts(r)
  <2>1. backend[r] \in Entries
    BY <1>5 DEF Receipts, Delivering, DeliveringOf
  <2>2. backend'[r] = [backend[r] EXCEPT !.sent = TRUE]
    BY <1>5 DEF Receipts
  <2>3. backend'[r] \in Entries /\ backend'[r].sent
    BY <2>1, <2>2 DEF Entries
  <2> QED
    BY <1>5, <2>3, ReporterAssumption DEF Receipts, Entries
<1>6. CASE Posts(r)
  BY <1>6 DEF Posts
<1>7. CASE Moves(r) \/ Kept
  BY <1>7 DEF Moves, Kept
<1> QED
  BY <1>1, <1>2, <1>3, <1>4, <1>5, <1>6, <1>7 DEF Effect


\* The backend has what it was given.
LEMMA RecordsTaken ==
  ASSUME CourierInv, NEW r \in Merges, courier.report = r, Records(r)
  PROVE  backend'[r] # None
<1>1. CASE backend[r] = None
  <2>1. slip[r].payload \in Seq(Nat)
    BY DEF CourierInv, CourierTypes, Records, Delivering, DeliveringOf, Slips
  <2>2. backend'[r] = [payload |-> slip[r].payload, sent |-> FALSE]
    BY <1>1 DEF Records, CourierInv, CourierTypes
  <2>3. backend'[r] \in Entries
    BY <2>1, <2>2 DEF Entries
  <2> QED
    BY <2>3, ReporterAssumption DEF Entries
<1>2. CASE backend[r] # None
  BY <1>2 DEF Records
<1> QED
  BY <1>1, <1>2

LEMMA ReceiptSent ==
  ASSUME CourierInv, NEW r \in Merges, courier.report = r, Receipts(r)
  PROVE  backend'[r].sent
<1>1. backend[r] \in Entries
  BY DEF CourierInv, CourierTypes, Receipts, Delivering, DeliveringOf
<1>2. backend'[r] = [backend[r] EXCEPT !.sent = TRUE]
  BY DEF Receipts, CourierInv, CourierTypes
<1> QED
  BY <1>1, <1>2 DEF Entries


\* An announcement more is on record, or being saved, or a doubt more.
LEMMA AnnouncedStays ==
  ASSUME CourierInv, OutboxInv, NEW r \in Merges, courier.at # "idle", courier.report = r,
         Effect(r) \/ Kept, UNCHANGED deployed, unsure' \in [Merges -> Nat],
         \A q \in Merges : unsure'[q] >= unsure[q],
         (courier.at = "save" /\ ~ slip'[r].sent) \/ posts'[r] # posts[r] =>
           unsure'[r] > unsure[r] \/ (courier'.at = "save" /\ courier'.report = r)
  PROVE  Announced'
<1> USE DEF CourierInv, CourierTypes
<1>1. ASSUME NEW q \in Merges, q # r PROVE AnnouncedOf(q)'
  <2>1. /\ slip'[q] = slip[q] /\ backend'[q] = backend[q] /\ posts'[q] = posts[q]
        /\ q \in reported' <=> q \in reported
    BY <1>1, EffectOthers
  <2>2. Noted(q)' <=> Noted(q)
    BY <2>1 DEF Noted
  <2>3. ~ Saving(q) /\ unsure'[q] >= unsure[q] /\ {posts[q], unsure[q], unsure'[q]} \subseteq Nat
    BY <1>1 DEF Saving
  <2> QED
    BY <2>1, <2>2, <2>3 DEF AnnouncedOf, Announced
<1>2. AnnouncedOf(r)'
  <2>1. AnnouncedOf(r) /\ r \in reports /\ r \in deployed /\ r \notin reported
    BY DEF Announced, Underway, OutboxInv
  <2>2. {posts[r], posts'[r], unsure[r], unsure'[r]} \subseteq Nat /\ unsure'[r] >= unsure[r]
    BY EffectTypes
  <2>3. Noted(r) => Noted(r)'
    BY EffectGrows DEF Noted
  <2>4. Noted(r)' /\ ~ Noted(r) => courier.at \in {"save", "receipt"}
    BY EffectGrows DEF Noted
  <2>5. posts'[r] # posts[r] => courier.at = "post" /\ posts'[r] = posts[r] + 1
    BY EffectGrows
  <2>6. DeliveringOf(courier.at, r)
    BY DEF Delivering
  <2>7. posts'[r] > 0 => r \in deployed' /\ backend'[r] # None
    BY <2>1, <2>2, <2>5, <2>6, EffectGrows DEF AnnouncedOf, DeliveringOf
  <2>8. Noted(r)' => posts'[r] > 0
    BY <2>1, <2>2, <2>4, <2>5, <2>6 DEF AnnouncedOf, DeliveringOf
  <2>9. posts'[r] <= unsure'[r] + (IF Noted(r)' \/ Saving(r)' THEN 1 ELSE 0)
    <3>1. CASE posts'[r] # posts[r]
      <4>1. posts[r] <= unsure[r]
        BY <2>1, <2>5, <2>6, <3>1 DEF AnnouncedOf, DeliveringOf, Saving
      <4> QED
        BY <2>2, <2>5, <3>1, <4>1 DEF Saving
    <3>2. CASE posts'[r] = posts[r] /\ courier.at = "save"
      <4>1. posts[r] <= unsure[r] + 1
        BY <2>1, <2>2 DEF AnnouncedOf
      <4>2. Noted(r)' \/ unsure'[r] > unsure[r] \/ Saving(r)'
        BY <3>2 DEF Noted, Saving
      <4> QED
        BY <2>2, <3>2, <4>1, <4>2
    <3>3. CASE posts'[r] = posts[r] /\ courier.at # "save"
      BY <2>1, <2>2, <2>3, <3>3 DEF AnnouncedOf, Saving
    <3> QED
      BY <3>1, <3>2, <3>3
  <2>10. r \in reported' => backend'[r] # None /\ backend'[r].sent
    <3>1. CASE Moves(r)
      BY <2>6, <3>1 DEF Moves, DeliveringOf
    <3>2. CASE ~ Moves(r)
      BY <2>1, <3>2 DEF Effect, Kept, Asks, Composes, Records, Posts, Saves, Receipts
    <3> QED
      BY <3>1, <3>2
  <2> QED
    BY <2>7, <2>8, <2>9, <2>10 DEF AnnouncedOf
<1> QED
  BY <1>1, <1>2 DEF Announced

\* The next report is one of those deliver() has not touched.
LEMMA OnwardAfter ==
  ASSUME CourierInv, OutboxInv, NEW r \in Merges, courier.at # "idle", courier.report = r,
         Effect(r) \/ Kept, Onward(courier.todo)
  PROVE  /\ Underway'
         /\ courier'.at \in {"idle", "ask", "record"}
         /\ Delivering'
<1>1. courier.todo \subseteq reports'
  BY DEF CourierInv, Underway, Effect, Kept, Asks, Composes, Records, Posts, Saves, Receipts, Moves
<1>2. \A q \in courier.todo : slip[q].payload # None => slip'[q].payload # None
  BY EffectOthers DEF CourierInv, Underway, OutboxInv
<1> QED
  BY <1>1, <1>2, OnwardGoes

\* At work the reporter has a report.
LEMMA AtWork ==
  ASSUME CourierInv, NEW r \in Merges, courier.report = r
  PROVE  courier.at # "idle"
BY NoriAssumption DEF CourierInv, Underway, Merges, Revisions

LEMMA FailsCourier ==
  ASSUME CourierInv, OutboxInv, NEW r \in Merges, DeliveryFails(r)
  PROVE  CourierInv'
<1>1. courier.report = r /\ courier.at # "idle" /\ (Effect(r) \/ Kept) /\ Onward(courier.todo)
  BY AtWork DEF DeliveryFails, GiveUp, Kept
<1>2. /\ unsure' = [unsure EXCEPT ![r] = IF courier.at = "save" \/ posts'[r] # posts[r] THEN @ + 1 ELSE @]
      /\ UNCHANGED <<deployed, github>>
  BY DEF DeliveryFails, GiveUp, deliveryVars
<1>3. unsure' \in [Merges -> Nat] /\ \A q \in Merges : unsure'[q] >= unsure[q]
  BY <1>2 DEF CourierInv, CourierTypes
<1>4. courier.at = "save" \/ posts'[r] # posts[r] => unsure'[r] > unsure[r]
  BY <1>2 DEF CourierInv, CourierTypes
<1>5. Announced'
  BY <1>1, <1>2, <1>3, <1>4, AnnouncedStays
<1>6. CourierTypes'
  BY <1>1, <1>2, <1>3, EffectTypes DEF CourierInv, CourierTypes
<1> QED
  BY <1>1, <1>5, <1>6, OnwardAfter DEF CourierInv

LEMMA DeliverCourier ==
  ASSUME CourierInv, OutboxInv, NEW r \in Merges, Deliver(r)
  PROVE  CourierInv'
<1>1. courier.report = r /\ courier.at # "idle" /\ Effect(r)
  BY AtWork DEF Deliver
<1>2. UNCHANGED <<deployed, github, unsure>>
  BY DEF Deliver, deliveryVars
<1>3. CourierTypes'
  BY <1>1, <1>2, EffectTypes DEF CourierInv, CourierTypes
<1>4. CASE courier.at = "move"
  <2>1. Onward(courier.todo)
    BY <1>4 DEF Deliver
  <2>2. posts' = posts
    BY <1>1, <1>4 DEF Effect, Asks, Composes, Records, Posts, Saves, Receipts, Moves
  <2>3. Announced'
    BY <1>1, <1>2, <1>4, <2>2, AnnouncedStays DEF CourierInv, CourierTypes
  <2> QED
    BY <1>1, <1>3, <2>1, <2>3, OnwardAfter DEF CourierInv
<1>5. CASE courier.at # "move"
  <2>1. courier' = [courier EXCEPT !.at = After(r)]
    BY <1>5 DEF Deliver
  <2>2. courier' = [at |-> After(r), report |-> r, todo |-> courier.todo]
    BY <1>1, <2>1 DEF CourierInv, Underway
  <2>3. UNCHANGED <<reports, reported>>
    BY <1>1, <1>5 DEF Effect, Asks, Composes, Records, Posts, Saves, Receipts, Moves
  <2>4. After(r) \in {"ask", "record", "post", "save", "receipt", "move"}
    BY DEF After
  <2>5. Underway'
    BY <1>1, <2>2, <2>3, <2>4 DEF CourierInv, Underway
  <2>6. /\ courier.at = "save" => slip'[r].sent
        /\ courier.at = "post" => courier'.at = "save" /\ courier'.report = r
    <3>1. courier.at = "save" => Saves(r)
      BY <1>1 DEF Effect, Asks, Composes, Records, Posts, Saves, Receipts, Moves
    <3>2. Saves(r) => slip'[r].sent
      BY DEF Saves, CourierInv, CourierTypes, Slips
    <3> QED
      BY <2>2, <3>1, <3>2 DEF After
  <2>7. Announced'
    BY <1>1, <1>2, <2>6, AnnouncedStays, EffectGrows DEF CourierInv, CourierTypes
  <2>8. Delivering'
    <3>1. DeliveringOf(courier.at, r) /\ AnnouncedOf(r)'
      BY <1>1, <2>7 DEF CourierInv, Delivering, Announced
    <3>2. courier'.at = After(r) /\ courier'.report = r
      BY <2>2
    <3>3. CASE courier.at = "ask"
      BY <3>2, <3>3 DEF After, Delivering, DeliveringOf
    <3>4. CASE courier.at = "record"
      <4>1. backend'[r] # None /\ slip' = slip
        BY <1>1, <3>4, RecordsTaken DEF Effect, Asks, Composes, Records, Posts, Saves, Receipts, Moves
      <4>2. CASE slip[r].sent \/ backend'[r].sent
        <5>1. courier'.at = "receipt" /\ Noted(r)'
          BY <3>2, <3>4, <4>1, <4>2 DEF After, Noted
        <5> QED
          BY <3>1, <3>2, <4>1, <5>1 DEF Delivering, DeliveringOf, AnnouncedOf
      <4>3. CASE ~ (slip[r].sent \/ backend'[r].sent)
        <5>1. courier'.at = "post" /\ ~ Noted(r)'
          BY <3>2, <3>4, <4>1, <4>3 DEF After, Noted
        <5> QED
          BY <3>2, <4>1, <5>1 DEF Delivering, DeliveringOf, Noted
      <4> QED
        BY <4>2, <4>3
    <3>5. CASE courier.at = "post"
      <4>1. Posts(r) /\ courier'.at = "save"
        BY <1>1, <3>2, <3>5 DEF After, Effect, Asks, Composes, Records, Posts, Saves, Receipts, Moves
      <4>2. posts'[r] > 0 /\ backend'[r] # None
        BY <3>1, <3>5, <4>1 DEF Posts, DeliveringOf, CourierInv, CourierTypes
      <4> QED
        BY <3>2, <4>1, <4>2 DEF Delivering, DeliveringOf
    <3>6. CASE courier.at = "save"
      <4>1. Saves(r) /\ courier'.at = "receipt"
        BY <1>1, <3>2, <3>6 DEF After, Effect, Asks, Composes, Records, Posts, Saves, Receipts, Moves
      <4> QED
        BY <3>1, <3>2, <3>6, <4>1 DEF Saves, Delivering, DeliveringOf
    <3>7. CASE courier.at = "receipt"
      <4>1. Receipts(r) /\ courier'.at = "move"
        BY <1>1, <3>2, <3>7 DEF After, Effect, Asks, Composes, Records, Posts, Saves, Receipts, Moves
      <4>2. backend'[r] # None /\ backend'[r].sent /\ posts'[r] > 0
        BY <1>1, <3>1, <3>7, <4>1, EffectGrows, ReceiptSent DEF Receipts, DeliveringOf
      <4> QED
        BY <3>2, <4>1, <4>2 DEF Delivering, DeliveringOf
    <3> QED
      BY <1>1, <1>5, <3>3, <3>4, <3>5, <3>6, <3>7 DEF CourierInv, Underway
  <2> QED
    BY <1>3, <2>5, <2>7, <2>8 DEF CourierInv
<1> QED
  BY <1>4, <1>5


LEMMA CrashCourier ==
  ASSUME CourierInv, OutboxInv, CourierCrash
  PROVE  CourierInv'
<1> DEFINE r == courier.report
<1>1. r \in Merges /\ courier.at # "idle" /\ Kept /\ UNCHANGED <<deployed, github>>
  BY DEF CourierCrash, CourierInv, Underway, OutboxInv, Kept, deliveryVars
<1>2. /\ unsure' \in [Merges -> Nat] /\ \A q \in Merges : unsure'[q] >= unsure[q]
      /\ courier.at = "save" => unsure'[r] > unsure[r]
  BY <1>1 DEF CourierCrash, CourierInv, CourierTypes
<1>3. Announced'
  BY <1>1, <1>2, AnnouncedStays DEF Kept
<1>4. CourierTypes'
  BY <1>1, <1>2 DEF CourierInv, CourierTypes, Kept
<1>5. courier' = [at |-> "idle", report |-> None, todo |-> {}]
  BY DEF CourierCrash, Asleep
<1> QED
  BY <1>3, <1>4, <1>5 DEF CourierInv, Underway, Delivering

\* A reporter that starts has announced nothing it did not save.
LEMMA WakeCourier ==
  ASSUME CourierInv, OutboxInv, Wake
  PROVE  CourierInv'
<1>1. Onward(reports) /\ UNCHANGED <<reports, reported, deployed, github, slip, backend, posts, unsure>>
  BY DEF Wake, vars, outbox
<1>2. Underway' /\ courier'.at \in {"idle", "ask", "record"} /\ Delivering'
  BY <1>1, OnwardGoes
<1>3. Announced'
  BY <1>1, <1>2 DEF Wake, CourierInv, Announced, AnnouncedOf, Noted, Saving
<1>4. CourierTypes'
  BY <1>1 DEF CourierInv, CourierTypes
<1> QED
  BY <1>2, <1>3, <1>4 DEF CourierInv

LEMMA SameCourier ==
  ASSUME CourierInv, github' \in Nat,
         UNCHANGED <<reports, reported, deployed, slip, backend, posts, unsure, courier>>
  PROVE  CourierInv'
BY DEF CourierInv, CourierTypes, Underway, Delivering, DeliveringOf, Announced, AnnouncedOf, Noted, Saving

-----------------------------------------------------------------------------

LEMMA InitReports == ReporterInit => OutboxInv /\ CourierInv
<1> SUFFICES ASSUME ReporterInit PROVE OutboxInv /\ CourierInv
  OBVIOUS
<1> USE DEF ReporterInit, ReporterBegin, Begin
<1>1. OutboxInv
  BY DEF OutboxInv, Idle
<1>2. CourierTypes
  <2>1. Bare \in Slips
    BY DEF Bare, Slips
  <2> QED
    BY <2>1 DEF CourierTypes
<1>3. Underway /\ Delivering
  BY DEF Underway, Delivering, Asleep
<1>4. Announced
  BY DEF Announced, AnnouncedOf, Noted, Saving, Bare, Asleep
<1> QED
  BY <1>1, <1>2, <1>3, <1>4 DEF CourierInv

\* What a step of the reporter does to the queue.
LEMMA DeliveryMoves ==
  ASSUME CourierInv, NEW r \in Merges, Deliver(r) \/ DeliveryFails(r)
  PROVE  /\ r \in reports
         /\ \/ UNCHANGED <<reports, reported>>
            \/ reports' = reports \ {r} /\ reported' = reported \cup {r}
<1>1. courier.report = r /\ courier.at # "idle" /\ (Effect(r) \/ Kept)
  BY AtWork DEF Deliver, DeliveryFails, Kept
<1>2. r \in reports
  BY <1>1 DEF CourierInv, Underway
<1> QED
  BY <1>1, <1>2 DEF Effect, Kept, Asks, Composes, Records, Posts, Saves, Receipts, Moves

LEMMA NextReports == DiskInv /\ OutboxInv /\ CourierInv /\ [Next]_allVars => OutboxInv' /\ CourierInv'
<1> SUFFICES ASSUME DiskInv, OutboxInv, CourierInv, [Next]_allVars PROVE OutboxInv' /\ CourierInv'
  OBVIOUS
<1>1. CASE UpdateNext /\ UNCHANGED reporterVars
  <2>1. OutboxInv'
    BY <1>1, WorldOutbox, RecoverOutbox, RunOutbox, ActivateOutbox, DrainOutbox, FailureOutbox
       DEF UpdateNext, Step
  <2> QED
    BY <1>1, <2>1, UpdaterCourier
<1>2. ASSUME NEW r \in Merges, Deliver(r) \/ DeliveryFails(r)
      PROVE  OutboxInv' /\ CourierInv'
  <2>1. UNCHANGED <<release, deployed, job>>
    BY <1>2, ReporterSteps DEF CourierStep
  <2>2. OutboxInv'
    BY <1>2, <2>1, DeliveryMoves, MoveOutbox
  <2> QED
    BY <1>2, <2>2, DeliverCourier, FailsCourier
<1>3. CASE Wake \/ CourierCrash \/ Edit \/ UNCHANGED allVars
  <2>1. UNCHANGED <<release, deployed, job, reports, reported>>
    BY <1>3 DEF Wake, CourierCrash, Edit, allVars, deliveryVars, vars, outbox
  <2>2. OutboxInv'
    BY <2>1 DEF OutboxInv, release
  <2>3. CASE Edit \/ UNCHANGED allVars
    BY <2>2, <2>3, SameCourier DEF CourierInv, CourierTypes, Edit, allVars, reporterVars, vars, outbox
  <2> QED
    BY <1>3, <2>2, <2>3, WakeCourier, CrashCourier
<1> QED
  BY <1>1, <1>2, <1>3 DEF Next, CourierStep

LEMMA AlwaysReports == Spec => [](OutboxInv /\ CourierInv)
BY InitReports, NextReports, AlwaysDisk, PTL DEF Spec

\* One report per committed deployment and none for what was rolled back, a file
\* in one directory only, an announcement made after the backend has the deployment
\* and again only if an interruption left it in doubt, and moved away only with its
\* receipt in the backend: queue_report() and deliver() with every crash between.
THEOREM AlwaysReportedOnce == Spec => []ReportedOnce
<1>1. OutboxInv /\ CourierInv => ReportedOnce
  <2> SUFFICES ASSUME OutboxInv, CourierInv PROVE ReportedOnce
    OBVIOUS
  <2>1. ASSUME NEW r \in Merges
        PROVE  /\ posts[r] > 0 => r \in deployed /\ backend[r] # None
               /\ posts[r] <= 1 + unsure[r]
               /\ r \in reported => posts[r] > 0 /\ backend[r].sent
    <3>1. AnnouncedOf(r) /\ posts[r] \in Nat /\ unsure[r] \in Nat
      BY DEF CourierInv, CourierTypes, Announced
    <3>2. posts[r] <= 1 + unsure[r]
      BY <3>1 DEF AnnouncedOf
    <3>3. r \in reported => posts[r] > 0 /\ backend[r].sent
      BY <3>1 DEF AnnouncedOf, Noted
    <3> QED
      BY <3>1, <3>2, <3>3 DEF AnnouncedOf
  <2> QED
    BY <2>1 DEF OutboxInv, ReportedOnce
<1> QED
  BY <1>1, AlwaysReports, PTL
=============================================================================
