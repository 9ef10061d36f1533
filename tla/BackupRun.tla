------------------------------ MODULE BackupRun ------------------------------
(***************************************************************************)
(* One admitted BackupJob, from the creation of its target Job to its end. *)
(*                                                                         *)
(*   - the BackupJob worker: a pass reads the cached run (view) and Jobs   *)
(*     (seen), creates or deletes Jobs, enqueues commands and then updates *)
(*     the run; an update based on an outdated copy is refused, what the   *)
(*     pass did before it stays done;                                      *)
(*   - the ControlEventApplier, writing reported events to the run;        *)
(*   - serve-target, which takes commands from the command log;            *)
(*   - one send-source per source;                                         *)
(*   - the CSI driver, making VolumeSnapshots ready and binding claims.    *)
(* Admission, the target guard and other runs are in TargetGuard.          *)
(***************************************************************************)
EXTENDS Naturals, Sequences

CONSTANTS
    Sources,      \* BackupSources of the machine
    Direct,       \* ... with consistency.capture Direct
    AutoCapture,  \* ... with Auto; the others ask for VolumeSnapshot
    MaxFaults,    \* bound on faults: lost reports, failed transfers, API
                  \* errors, crashes, discovery errors
    MaxTime       \* bound on distinct finalize timestamps (seconds)

ASSUME SourcesAssumption == /\ Direct \subseteq Sources /\ AutoCapture \subseteq Sources
                            /\ Direct \cap AutoCapture = {}
                            /\ Sources # {}
                            /\ {"none", "finalize"} \cap Sources = {}
ASSUME BoundsAssumption  == MaxFaults \in Nat /\ MaxTime \in Nat \ {0}

VARIABLES
    run,          \* the BackupJob's status in the API server
    view,         \* ... as the informer cache shows it
    stale,        \* the run was written since the cache caught up
    job,          \* source Jobs and their pods
    target,       \* the target Job and its pod
    seen,         \* Jobs as the informer cache shows them
    discovered,   \* the VolumeSnapshot API answers discovery
    capture,      \* VolumeSnapshot and temporary claim of each source
    service,      \* the target's Service and credentials exist
    whole,        \* sources whose data is whole below .partial
    counted,      \* sources the target's receiver has counted as completed
    log,          \* command log of the run in the control service
    taken,        \* commands of the log the target has taken
    stamp,        \* timestamp of the finalize command it took
    final,        \* timestamp of the snapshot it promoted, 0 before
    hub,          \* reported events the applier has not applied
    now,          \* wall clock, in seconds
    faults

vars == <<run, view, stale, job, target, seen, discovered, capture, service,
          whole, counted, log, taken, stamp, final, hub, now, faults>>

object    == <<run, view, stale>>
pods      == <<job, target>>
snapshots == <<discovered, capture>>
data      == <<whole, counted>>
commands  == <<log, taken, stamp, final>>

RunPhases == {"Preparing", "Running", "Finalizing", "Succeeded", "Failed"}
Terminal  == {"Succeeded", "Failed"}

\* status.lastCommand: id is "none", "finalize" or the source a RecoverSpace is
\* for; sent is 0 without sentAt (a RecoverSpace's sentAt is never read).
NoCommand == [id |-> "none", sent |-> 0, acked |-> FALSE]

\* status.transfers[s]: note is what later passes read from message and exit
\* code: "full" (out of space), "retrying" (after target space recovery).
TransferPhases == {"none", "Preparing", "Running", "Succeeded", "Failed", "Skipped"}
Transfer == [phase : TransferPhases, note : {"none", "full", "retrying"}]

BackupJob == [phase : RunPhases,
              targetPhase : {"none", "Ready", "Completed", "Failed"},
              last : [id : Sources \cup {"none", "finalize"}, sent : 0..MaxTime,
                      acked : BOOLEAN],
              path : 0..MaxTime, transfer : [Sources -> Transfer]]

\* late: the Job was created after the last RecoverSpace was acknowledged.
SourceJob == [status : {"none", "created", "sending", "complete", "failed"},
              late : BOOLEAN]
NoJob     == [status |-> "none", late |-> FALSE]

\* What the informer cache holds of a source Job.
CachedJob == [status : {"none", "running", "complete", "failed"}, late : BOOLEAN]

Captures == {"none", "snapshot", "snapshotReady", "claimed", "binding", "bound", "failed"}

TargetCommands == [id : Sources \cup {"finalize"}, time : 0..MaxTime]

\* Reports of the target, its acknowledgements, and reports of the sources.
Events == [kind : {"Ready", "Completed", "TargetFailed"}, id : {"none"}]
          \cup [kind : {"ack"}, id : Sources \cup {"finalize"}]
          \cup [kind : {"Running", "Succeeded", "Failed", "Full"}, id : Sources]

jobFailed(j)   == j.status = "failed"
jobComplete(j) == j.status = "complete"

\* What the status of a Job tells of its pod.
JobStatus(pod) == IF pod \in {"none", "complete", "failed"} THEN pod ELSE "running"

Jobs == [target |-> JobStatus(target),
         source |-> [s \in Sources |-> [job[s] EXCEPT !.status = JobStatus(@)]]]

Init ==
    /\ run = [phase |-> "Preparing", targetPhase |-> "none", last |-> NoCommand, path |-> 0,
              transfer |-> [s \in Sources |-> [phase |-> "none", note |-> "none"]]]
    /\ view = run /\ stale = FALSE
    /\ job = [s \in Sources |-> NoJob]
    /\ target = "starting"
    /\ seen = Jobs
    /\ discovered = TRUE
    /\ capture = [s \in Sources |-> "none"]
    /\ service = TRUE
    /\ whole = {} /\ counted = {}
    /\ log = <<>> /\ taken = 0 /\ stamp = 0 /\ final = 0
    /\ hub = <<>>
    /\ now = 0
    /\ faults = 0

Fault == faults < MaxFaults /\ faults' = faults + 1

-----------------------------------------------------------------------------
(* BackupJob worker                                                        *)

\* Mutant: the update is a patch that carries no resourceVersion.
StatusPatch(status, cleanup) ==
    /\ run' = status /\ stale' = TRUE
    /\ service' = (service /\ ~cleanup)
    /\ UNCHANGED <<view, faults>>

\* Status().Update at the end of a pass: accepted, refused (conflict), or failed.
\* Only an accepted update is followed by the removal of Service and secrets.
StatusUpdate(status, cleanup) ==
    IF status = view THEN UNCHANGED <<object, service, faults>>
    ELSE \/ /\ ~stale
            /\ run' = status /\ stale' = TRUE
            /\ service' = (service /\ ~cleanup)
            /\ UNCHANGED <<view, faults>>
         \/ stale /\ UNCHANGED <<object, service, faults>>
         \/ ~stale /\ Fault /\ UNCHANGED <<object, service>>

\* mergeBackupJobTransferStatus: a terminal phase only gives way to Failed; an
\* empty message changes nothing; the exit code of a full target stays.
mergeTransfer(t, phase, message) ==
    [phase |-> IF phase = "Failed" \/ t.phase \notin {"Succeeded", "Failed"}
               THEN phase ELSE t.phase,
     note  |-> IF message /\ t.note = "retrying" THEN "none" ELSE t.note]

\* markSourceJobSucceeded for each source of set.
markSucceeded(transfer, set) ==
    [s \in Sources |-> IF s \in set /\ transfer[s].phase # "Succeeded"
                       THEN mergeTransfer(transfer[s], "Succeeded", TRUE)
                       ELSE transfer[s]]

\* How a pass ends: an unchanged phase writes only changed transfers.
Outcome(phase, transfer, last, path) ==
    IF phase = view.phase /\ transfer = view.transfer THEN view
    ELSE [view EXCEPT !.phase = phase, !.transfer = transfer,
                      !.last = last, !.path = path]

StayIn(phase, transfer) == Outcome(phase, transfer, view.last, view.path)

FailRun(transfer) == StayIn("Failed", transfer)

\* Terminal runs: the Service and the snapshot resources are removed.  A Failed
\* run whose target recovered space for a transfer goes back to Running.
Retrying == [phase |-> "Preparing", note |-> "retrying"]

Recovered == /\ view.last.id \in Sources /\ view.last.acked
             /\ \E s \in Sources : view.transfer[s] = Retrying

resumeRecoveredBackupJob ==
    /\ view.phase = "Failed" /\ Recovered
    /\ StatusUpdate([view EXCEPT !.phase = "Running"], FALSE)
    /\ UNCHANGED <<pods, seen, snapshots, data, commands, hub, now>>

ReconcileTerminal ==
    /\ view.phase \in Terminal
    /\ ~(view.phase = "Failed" /\ Recovered)
    /\ service' = FALSE
    /\ capture' = [s \in Sources |-> "none"]
    /\ UNCHANGED <<object, pods, seen, discovered, data, commands, hub, now, faults>>

Active == view.phase \notin Terminal

\* Control.EnqueueTargetCommand: deduplicated by command id.
Enqueued(command) == \A i \in DOMAIN log : log[i].id # command.id

EnqueueTargetCommand(command) ==
    log' = IF Enqueued(command) THEN Append(log, command) ELSE log

\* A failed source Job whose transfer reports a full target: wait for recovery,
\* send the command, or delete the Job and retry.
reconcileRecoverableSourceJobFailure(s, transfer) ==
    /\ transfer[s].note = "full"
    /\ \/ /\ view.last.id = s /\ ~view.last.acked
          /\ UNCHANGED <<object, service, job, log, faults>>
       \/ /\ view.last.id = s /\ view.last.acked
          /\ ~seen.source[s].late
          /\ job' = [job EXCEPT ![s] = NoJob]
          /\ StatusUpdate([view EXCEPT !.phase = "Running",
                           !.transfer = [transfer EXCEPT ![s] = Retrying]], FALSE)
          /\ UNCHANGED log
       \/ /\ view.last.id # s
          /\ EnqueueTargetCommand([id |-> s, time |-> 0])
          /\ StatusUpdate([view EXCEPT !.last = [id |-> s, sent |-> 0, acked |-> FALSE],
                                       !.transfer = transfer], FALSE)
          /\ UNCHANGED job

\* Some Job of the cached list failed; the Jobs listed before it were complete or
\* running.  The list has no order, so the failed Job may be the target's ...
ReconcileFailedTarget ==
    /\ Active
    /\ seen.target = "failed"
    /\ \E marked \in SUBSET {s \in Sources : jobComplete(seen.source[s])} :
          StatusUpdate(FailRun(markSucceeded(view.transfer, marked)), TRUE)
    /\ UNCHANGED <<pods, seen, snapshots, data, commands, hub, now>>

\* ... or that of a source, which fails the run unless it can be retried.
ReconcileFailedSource(s) ==
    /\ Active
    /\ jobFailed(seen.source[s])
    /\ \E marked \in SUBSET {q \in Sources : jobComplete(seen.source[q])} :
       LET transfer == markSucceeded(view.transfer, marked) IN
       \/ reconcileRecoverableSourceJobFailure(s, transfer)
       \/ /\ transfer[s].note = "full" =>
                view.last.id = s /\ view.last.acked /\ seen.source[s].late
          /\ StatusUpdate(FailRun(transfer), TRUE)
          /\ UNCHANGED <<job, log>>
    /\ UNCHANGED <<target, seen, snapshots, data, taken, stamp, final, hub, now>>

NoneFailed == seen.target # "failed" /\ \A s \in Sources : ~jobFailed(seen.source[s])
Listed == {s \in Sources : seen.source[s].status # "none"}

\* Mutant: the last Job of the list decides whether all are complete.
LastDone == \E s \in Listed : jobComplete(seen.source[s])

AllDone == \A s \in Listed : jobComplete(seen.source[s])

\* The transfers as a pass over Jobs that have not failed leaves them.
Marked == markSucceeded(view.transfer, {s \in Listed : jobComplete(seen.source[s])})

ReconcileUnfinished ==
    /\ Active /\ NoneFailed
    /\ \/ Listed # {} /\ ~AllDone /\ StatusUpdate(StayIn("Running", Marked), FALSE)
       \/ /\ Listed = {} /\ seen.target # "complete" /\ view.targetPhase # "Ready"
          /\ StatusUpdate(StayIn("Preparing", Marked), FALSE)
    /\ UNCHANGED <<pods, seen, snapshots, data, commands, hub, now>>

-----------------------------------------------------------------------------
(* createSourceJobs                                                        *)

NeedsSources ==
    /\ Active /\ NoneFailed
    /\ IF Listed = {} THEN seen.target = "complete" \/ view.targetPhase = "Ready"
       ELSE AllDone /\ Listed # Sources

\* DecideCaptureMode and the fallbacks of Auto to a direct copy.
Unusable(s) == ~discovered \/ capture[s] = "failed"
FromClaim(s) == s \notin Direct /\ discovered /\ capture[s] = "bound"
Prepared(s) == s \in Direct \/ FromClaim(s) \/ (s \in AutoCapture /\ Unusable(s))

Upsert(transfer, s, phase, message) ==
    [transfer EXCEPT ![s] = IF @.phase = "none" THEN [phase |-> phase, note |-> "none"]
                            ELSE mergeTransfer(@, phase, message)]

\* The first loop of createSourceJobs over the sources of set, in whatever order they
\* are listed: what it records of those that are ready.  A capture that failed under
\* Auto is Skipped; direct copies are recorded by the second loop only.
Considered(set) ==
    LET marked == Marked
    IN  [s \in Sources |->
           IF s \notin set \ Direct THEN marked[s]
           ELSE IF discovered /\ capture[s] = "failed"
           THEN Upsert(marked, s, "Skipped", TRUE)[s]
           ELSE Upsert(marked, s, "Preparing", TRUE)[s]]

\* The second loop, over the sources of set: a source without a temporary claim is
\* Preparing, the Skipped ones too.
Created(set) ==
    LET considered == Considered(Sources)
    IN  [s \in Sources |->
           IF s \in set /\ ~FromClaim(s)
           THEN Upsert(considered, s, "Preparing", FALSE)[s]
           ELSE considered[s]]

\* How a pass through createSourceJobs ends.  In an unchanged phase the run is written
\* when the pass changed a transfer or a condition: messages and conditions, which are
\* not modelled, may have changed when the transfers here have not.
SourcesOutcomes(phase, transfer) ==
    {StayIn(phase, transfer)}
    \cup {status \in {view} : phase = view.phase /\ transfer = Marked}

\* Some source is not ready: its VolumeSnapshot, then its temporary claim is created
\* and waited for.  The sources listed before it are ready.  No source Job is created
\* meanwhile.
WaitForCapture(s, before) ==
    /\ NeedsSources
    /\ \A q \in before : Prepared(q)
    /\ ~Prepared(s) /\ ~Unusable(s)
    /\ capture[s] # "claimed"
    /\ capture' = [capture EXCEPT ![s] = CASE @ = "none"          -> "snapshot"
                                           [] @ = "snapshotReady" -> "claimed"
                                           [] OTHER               -> @]
    /\ \E status \in SourcesOutcomes(view.phase,
                                     Upsert(Considered(before), s, "Preparing", TRUE)) :
          StatusUpdate(status, FALSE)
    /\ UNCHANGED <<pods, seen, discovered, data, commands, hub, now>>

\* The capture fails the run: a VolumeSnapshot that failed or timed out, a claim
\* that did not bind, the API not discovered, or a claim created but not yet in
\* the cache it is read from.
CaptureFails(s, before) ==
    /\ NeedsSources
    /\ \A q \in before : Prepared(q)
    /\ s \notin Direct
    /\ \/ /\ s \notin AutoCapture /\ Unusable(s)
          /\ StatusUpdate(FailRun(Upsert(Considered(before), s, "Failed", TRUE)), FALSE)
          /\ UNCHANGED capture
       \/ /\ ~Unusable(s) /\ capture[s] \in {"snapshotReady", "claimed"}
          /\ capture' = [capture EXCEPT ![s] = "claimed"]
          /\ StatusUpdate(FailRun(Considered(before)), FALSE)
    /\ UNCHANGED <<pods, seen, discovered, data, commands, hub, now>>

Missing == {s \in Sources : seen.source[s].status = "none"}
Absent  == {s \in Missing : job[s].status = "none"}

CreateJobs(set) ==
    job' = [s \in Sources |->
              IF s \in set THEN [status |-> "created", late |-> run.last.acked] ELSE job[s]]

\* Every source is ready: the missing Jobs are created.
createSourceJobs ==
    /\ NeedsSources
    /\ \A s \in Sources : Prepared(s)
    /\ Missing = Absent
    /\ CreateJobs(Missing)
    /\ \E status \in SourcesOutcomes("Running", Created(Sources)) : StatusUpdate(status, FALSE)
    /\ UNCHANGED <<target, seen, snapshots, data, commands, hub, now>>

\* A Job missing from the cache but already created: Create answers
\* AlreadyExists, which fails the run.  The Jobs listed before it are created.
CreateConflicts ==
    /\ NeedsSources
    /\ \A s \in Sources : Prepared(s)
    /\ \E s \in Missing \ Absent, before \in SUBSET (Sources \ (Missing \ Absent)) :
          /\ CreateJobs(before \cap Absent)
          /\ StatusUpdate(FailRun(Created(before \cup {s})), FALSE)
    /\ UNCHANGED <<target, seen, snapshots, data, commands, hub, now>>

-----------------------------------------------------------------------------
(* Finalization                                                            *)

FinalizeDue == Active /\ NoneFailed /\ Listed = Sources /\ AllDone

FinalizeSent(last) == last.id = "finalize" /\ last.sent # 0

\* Mutant: a finalize command that was sent counts as carried out.
SucceededWhenSent == FinalizeDue /\ FinalizeSent(view.last)

SucceededDue == FinalizeDue /\ seen.target = "complete" /\ FinalizeSent(view.last)

\* MarkFinalizeCommandSent keeps an acknowledgement of the same command.
MarkSent(t) == IF view.last.id = "finalize" THEN [view.last EXCEPT !.sent = t]
               ELSE [id |-> "finalize", sent |-> t, acked |-> FALSE]

\* The command carries the recorded timestamp, or the current time.
enqueueFinalizeCommand ==
    /\ FinalizeDue
    /\ ~SucceededDue
    /\ \E t \in IF FinalizeSent(view.last) THEN {view.last.sent}
                ELSE {now, now + 1} \cap 1..MaxTime :
          LET command == [id |-> "finalize", time |-> t]
              last == IF ~Enqueued(command) /\ view.last.id = "finalize" THEN view.last
                      ELSE MarkSent(t)
          IN  /\ now' = IF t > now THEN t ELSE now
              /\ EnqueueTargetCommand(command)
              /\ StatusUpdate(Outcome("Finalizing", Marked, last, view.path), FALSE)
    /\ UNCHANGED <<pods, seen, snapshots, data, taken, stamp, final, hub>>

\* All Jobs are complete: Succeeded, with the path derived from sentAt when the
\* target did not report one.
ReconcileSucceeded ==
    /\ SucceededDue
    /\ StatusUpdate(Outcome("Succeeded", Marked, view.last,
                            IF view.path = 0 THEN view.last.sent ELSE view.path), TRUE)
    /\ UNCHANGED <<pods, seen, snapshots, data, commands, hub, now>>

Pass ==
    \/ ReconcileFailedTarget
    \/ \E s \in Sources : ReconcileFailedSource(s)
    \/ ReconcileUnfinished
    \/ \E s \in Sources : \E before \in SUBSET (Sources \ {s}) :
          WaitForCapture(s, before) \/ CaptureFails(s, before)
    \/ createSourceJobs
    \/ CreateConflicts
    \/ enqueueFinalizeCommand
    \/ ReconcileSucceeded
    \/ ReconcileTerminal
    \/ resumeRecoveredBackupJob

-----------------------------------------------------------------------------
(* ControlEventApplier                                                     *)

\* Mutant: the reported path is dropped, the worker derives it from sentAt.
DropPath(status) ==
    [status EXCEPT !.phase = "Succeeded", !.targetPhase = "Completed"]

ApplyCompleted(status) ==
    [status EXCEPT !.phase = "Succeeded", !.targetPhase = "Completed", !.path = final]

ApplyTargetEventToBackupJob(status, kind) ==
    CASE kind = "Ready" -> [status EXCEPT !.targetPhase = "Ready",
                              !.phase = IF @ = "Preparing" THEN "Running" ELSE @]
      [] kind = "Completed" -> ApplyCompleted(status)
      [] kind = "TargetFailed" ->
            [status EXCEPT !.phase = "Failed", !.targetPhase = "Failed"]

ApplyTargetCommandAckToBackupJob(status, id) ==
    [status EXCEPT !.last = IF @ = NoCommand
                            THEN [id |-> id, sent |-> 0, acked |-> TRUE]
                            ELSE IF @.id = id THEN [@ EXCEPT !.acked = TRUE] ELSE @]

\* Mutant: the reported phase is recorded as it is.
RecordReportedPhase(status, s, kind) ==
    [status EXCEPT !.transfer[s].phase = kind]

\* updateTransfer: only a non-empty message replaces the recorded one.
ApplySourceEventToBackupJob(status, s, kind) ==
    [status EXCEPT !.transfer[s] =
        [phase |-> IF kind = "Full" THEN "Failed" ELSE kind,
         note  |-> CASE kind = "Full" -> "full" [] kind = "Failed" -> "none"
                     [] OTHER -> @.note]]

Applied(status, event) ==
    CASE event.kind = "ack" -> ApplyTargetCommandAckToBackupJob(status, event.id)
      [] event.kind # "ack" /\ event.id \in Sources ->
            ApplySourceEventToBackupJob(status, event.id, event.kind)
      [] OTHER -> ApplyTargetEventToBackupJob(status, event.kind)

NoneLate(jobs) == [s \in Sources |-> [jobs[s] EXCEPT !.late = FALSE]]

\* Conflicts are retried until the cache the applier reads has caught up.
ApplyEvent ==
    /\ hub # <<>>
    /\ ~stale
    /\ LET event == Head(hub) IN
       /\ run' = Applied(run, event)
       /\ stale' = (run' # run)
       /\ IF event.kind = "ack" /\ run' # run
          THEN /\ job' = NoneLate(job)
               /\ seen' = [seen EXCEPT !.source = NoneLate(@)]
          ELSE UNCHANGED <<job, seen>>
    /\ hub' = Tail(hub)
    /\ UNCHANGED <<view, target, snapshots, service, data, commands, now, faults>>

-----------------------------------------------------------------------------
(* serve-target and send-source                                            *)

\* reportTarget and reportSource only log an error, and a full subscriber buffer
\* drops events: a report may be lost.
Report(events) ==
    \/ hub' = hub \o events /\ UNCHANGED faults
    \/ /\ Fault
       /\ \E i \in DOMAIN events :
             hub' = hub \o SubSeq(events, 1, i - 1) \o SubSeq(events, i + 1, Len(events))

Event(kind) == [kind |-> kind, id |-> "none"]
SourceEvent(s, kind) == [kind |-> kind, id |-> s]
Ack(id) == [kind |-> "ack", id |-> id]

control == <<object, seen, snapshots, service, log, now>>

TargetReady ==
    /\ target = "starting"
    /\ target' = "serving"
    /\ Report(<<Event("Ready")>>)
    /\ UNCHANGED <<control, job, data, taken, stamp, final>>

TakesCommand == target = "serving" /\ taken < Len(log)
Command      == log[taken + 1]

\* RecoverSpace: space is freed, reported and acknowledged; or it fails, and
\* the target with it, as when the acknowledgement is not delivered.
TargetRecovers ==
    /\ TakesCommand /\ Command.id \in Sources
    /\ taken' = taken + 1
    /\ \/ Report(<<Event("Ready"), Ack(Command.id)>>) /\ UNCHANGED target
       \/ Fault /\ target' = "failed" /\ hub' = Append(hub, Event("TargetFailed"))
    /\ UNCHANGED <<control, job, data, stamp, final>>

TargetTakesFinalize ==
    /\ TakesCommand /\ Command.id = "finalize"
    /\ taken' = taken + 1 /\ stamp' = Command.time
    /\ target' = "finalizing"
    /\ UNCHANGED <<control, job, data, final, hub, faults>>

\* Promotion waits for the receiver to have counted every source.
TargetPromotes ==
    /\ target = "finalizing"
    /\ counted = Sources
    /\ \/ /\ target' = "promoted" /\ final' = stamp
          /\ UNCHANGED <<hub, faults>>
       \/ /\ Fault /\ target' = "failed" /\ hub' = Append(hub, Event("TargetFailed"))
          /\ UNCHANGED final
    /\ UNCHANGED <<control, job, data, taken, stamp>>

\* The rest of FinalizeBackup and the Completed report; or latest, tiers or retention
\* fail, and Failed is reported although the snapshot is promoted.
TargetReports ==
    /\ target = "promoted"
    /\ \/ target' = "reported" /\ Report(<<Event("Completed")>>)
       \/ Fault /\ target' = "failed" /\ hub' = Append(hub, Event("TargetFailed"))
    /\ UNCHANGED <<control, job, data, taken, stamp, final>>

\* The acknowledgement of the finalize command, whose loss is ignored, and the exit.
TargetCompletes ==
    /\ target = "reported"
    /\ target' = "complete"
    /\ Report(<<Ack("finalize")>>)
    /\ UNCHANGED <<control, job, data, taken, stamp, final>>

\* Mutant: Jobs without a deadline, whose pods are never evicted.
TargetLivesOn == FALSE

\* activeDeadlineSeconds, an eviction or a node failure ends the pod.
TargetDies ==
    /\ target \in {"starting", "serving", "finalizing", "promoted", "reported"}
    /\ target' = "failed"
    /\ UNCHANGED <<control, job, data, commands, hub, faults>>

SourceStarts(s) ==
    /\ job[s].status = "created"
    /\ job' = [job EXCEPT ![s].status = "sending"]
    /\ Report(<<SourceEvent(s, "Running")>>)
    /\ UNCHANGED <<control, target, data, taken, stamp, final>>

Receiving == service /\ target \in {"serving", "finalizing"} /\ counted # Sources

\* The receiver counts a connection that ends without an error, whether or not
\* rsync succeeded on its other end.
SourceSends(s) ==
    /\ job[s].status = "sending"
    /\ Receiving
    /\ \/ /\ job' = [job EXCEPT ![s].status = "complete"]
          /\ whole' = whole \cup {s} /\ counted' = counted \cup {s}
          /\ Report(<<SourceEvent(s, "Succeeded")>>)
       \/ /\ Fault
          /\ job' = [job EXCEPT ![s].status = "complete"]
          /\ whole' = whole \cup {s} /\ UNCHANGED counted
          /\ hub' = Append(hub, SourceEvent(s, "Succeeded"))
       \/ /\ Fault
          /\ job' = [job EXCEPT ![s].status = "failed"]
          /\ whole' = whole \ {s} /\ counted' \in {counted, counted \cup {s}}
          /\ hub' \in {hub} \cup {Append(hub, SourceEvent(s, k)) : k \in {"Full", "Failed"}}
    /\ UNCHANGED <<control, target, taken, stamp, final>>

\* No receiver to connect to: the send fails, which may look like a full target.
SourceRefused(s) ==
    /\ job[s].status = "sending"
    /\ ~Receiving
    /\ job' = [job EXCEPT ![s].status = "failed"]
    /\ \/ Report(<<SourceEvent(s, "Failed")>>)
       \/ Fault /\ hub' = Append(hub, SourceEvent(s, "Full"))
    /\ UNCHANGED <<control, target, data, taken, stamp, final>>

-----------------------------------------------------------------------------
(* CSI driver, informers, crashes                                          *)

\* A VolumeSnapshot becomes ready, fails or times out; a claim appears in the
\* cache, then binds or times out.
CaptureSteps(state) ==
    CASE state = "snapshot" -> {"snapshotReady", "failed"}
      [] state = "claimed"  -> {"binding"}
      [] state = "binding"  -> {"bound", "failed"}
      [] OTHER              -> {}

CaptureProgresses(s) ==
    /\ \E next \in CaptureSteps(capture[s]) : capture' = [capture EXCEPT ![s] = next]
    /\ UNCHANGED <<object, pods, seen, discovered, service, data, commands, hub, now, faults>>

\* Discovery answers an error, or answers again.
DiscoveryChanges ==
    /\ Direct # Sources
    /\ Fault
    /\ discovered' = ~discovered
    /\ UNCHANGED <<object, pods, seen, capture, service, data, commands, hub, now>>

SyncRun ==
    /\ stale
    /\ view' = run /\ stale' = FALSE
    /\ UNCHANGED <<run, pods, seen, snapshots, service, data, commands, hub, now, faults>>

SyncJobs ==
    /\ seen # Jobs
    /\ seen' = Jobs
    /\ UNCHANGED <<object, pods, snapshots, service, data, commands, hub, now, faults>>

\* The manager restarts: hub and command log are gone, caches are listed anew,
\* and the stream a serving target waits on breaks.
Crash ==
    /\ Fault
    /\ view' = run /\ stale' = FALSE
    /\ log' = <<>> /\ taken' = 0
    /\ IF target = "serving"
       THEN target' = "failed" /\ hub' \in {<<>>, <<Event("TargetFailed")>>}
       ELSE hub' = <<>> /\ UNCHANGED target
    /\ seen' = [Jobs EXCEPT !.target = JobStatus(target')]
    /\ UNCHANGED <<run, job, snapshots, service, data, stamp, final, now>>

DataPlane == \/ TargetReady \/ TargetRecovers \/ TargetTakesFinalize
             \/ TargetPromotes \/ TargetReports \/ TargetCompletes

Source(s) == SourceStarts(s) \/ SourceSends(s) \/ SourceRefused(s)

Next ==
    \/ Pass \/ ApplyEvent \/ DataPlane \/ TargetDies
    \/ \E s \in Sources : Source(s) \/ CaptureProgresses(s)
    \/ DiscoveryChanges \/ SyncRun \/ SyncJobs \/ Crash

Spec == Init /\ [][Next]_vars

\* The workqueue requeues an unfinished run every five seconds; informers, the
\* applier, pods and the CSI driver keep going; a pod's deadline expires.  The cache
\* lists Jobs in the random order of a map: passes over a failed target and failed
\* sources come to list the target first.
Fairness ==
    /\ WF_vars(Pass) /\ SF_vars(ReconcileFailedTarget)
    /\ WF_vars(ApplyEvent) /\ WF_vars(DataPlane) /\ WF_vars(TargetDies)
    /\ WF_vars(SyncRun) /\ WF_vars(SyncJobs)
    /\ \A s \in Sources : WF_vars(Source(s)) /\ WF_vars(CaptureProgresses(s))

FairSpec == Spec /\ Fairness

-----------------------------------------------------------------------------
(* Properties                                                              *)

\* Type invariant: status, captures, Jobs and their cached copies, the commands of the
\* log and the reports in the hub are well formed, and the target never takes more
\* commands than the log has.
TypeOK ==
    /\ run \in BackupJob /\ view \in BackupJob /\ stale \in BOOLEAN
    /\ job \in [Sources -> SourceJob]
    /\ target \in {"starting", "serving", "finalizing", "promoted", "reported", "complete",
                   "failed"}
    /\ seen \in [target : {"running", "complete", "failed"}, source : [Sources -> CachedJob]]
    /\ discovered \in BOOLEAN /\ capture \in [Sources -> Captures] /\ service \in BOOLEAN
    /\ whole \subseteq Sources /\ counted \subseteq Sources
    /\ log \in Seq(TargetCommands) /\ taken \in 0..Len(log)
    /\ hub \in Seq(Events)
    /\ stamp \in 0..MaxTime /\ final \in 0..MaxTime /\ now \in 0..MaxTime
    /\ faults \in 0..MaxFaults

\* A promoted snapshot holds the whole data of every source.
FinalizedWhole == final # 0 => whole = Sources

\* A Succeeded run has a promoted snapshot, whether it succeeded by the target's
\* report or by its Jobs.
SucceededFinalized == run.phase = "Succeeded" => final # 0

\* Once the target's Completed report is applied, the run is Succeeded and
\* status.snapshotPath is the snapshot the target promoted, even when the path was
\* derived from sentAt before.
CompletedRecorded ==
    run.targetPhase = "Completed" => run.phase = "Succeeded" /\ run.path = final

\* A Succeeded run stays Succeeded, with its path, unless a report corrects it.
SucceededIsFinal ==
    [][run.phase = "Succeeded" => /\ run'.phase = "Succeeded"
                                  /\ run'.path = run.path \/ run'.path = final]_vars

\* An acknowledgement that arrived before its command was recorded leaves
\* lastCommand without sentAt for good.
AckedUnrecorded == run.last.id = "finalize" /\ run.last.sent = 0

\* A run that waits to retry while its target has failed fails, resumes and fails.
Relapsing == /\ run.last.id \in Sources /\ run.last.acked
             /\ target = "failed"
             /\ \E s \in Sources : run.transfer[s].note = "retrying"

\* Every run ends, but for the two situations above.
RunEnds == <>[](run.phase \in Terminal \/ AckedUnrecorded \/ Relapsing)

=============================================================================
