----------------------------- MODULE RestoreRun -----------------------------
(***************************************************************************)
(* One RestoreJob: the RestoreJob worker resolves the snapshot, creates    *)
(* the restore target Job and the writer Job, and derives the phase from   *)
(* them; the writer reports its progress, which the ControlEventApplier    *)
(* writes to the same status.  Reads come from informer caches (view,      *)
(* seen, points); a pass of the worker creates one object after the       *)
(* other and updates the status last, on the copy of the run it started    *)
(* with.  Nothing orders the two pods: the writer may start before the     *)
(* target listens.                                                         *)
(*                                                                         *)
(* Which backups hold a restore, and which restores a backup, is in        *)
(* TargetGuard.  The finalizer is already present.                         *)
(***************************************************************************)
EXTENDS Naturals, FiniteSets, Sequences

CONSTANTS
    Volume,       \* snapshots on the target volume, later ones larger
    Latest,       \* "latest", the default of spec.snapshot
    Requests,     \* what a run may ask for, on the volume or not
    MaxFaults     \* bound on lost reports, API errors, broken connections, crashes

ASSUME SnapshotsAssumption ==
    /\ Volume \subseteq Nat \ {0} /\ Requests \ {Latest} \subseteq Nat \ {0}
    /\ IsFiniteSet(Volume) /\ Latest \notin Volume \cup {0}
ASSUME FaultsAssumption == MaxFaults \in Nat

VARIABLES
    requested,    \* spec.snapshot
    points,       \* status.restorePoints of the machine, as cached
    blocked,      \* the machine is not ready or a backup is active
    run,          \* the RestoreJob in the API server
    view,         \* ... as cached
    stale,        \* the cache has not caught up with the last write
    job,          \* restore target and writer: Job, its snapshot argument and pod
    seen,         \* Jobs as cached
    secrets,      \* credentials of the run exist
    pc, pick,     \* the worker's pass and the snapshot it resolved
    listed,       \* Jobs that the pass of a deleted run still has to delete
    fresh,        \* nobody wrote the run since the pass read it
    queued,       \* the run is in the worker's queue
    hub,          \* reports of the writer the applier has not applied
    copied,       \* snapshot the writer has copied to the destination, 0 before
    interrupted,  \* a pass broke off between the first Job and the status update
    faults

vars == <<requested, points, blocked, run, view, stale, job, seen,
          secrets, pc, pick, listed, fresh, queued, hub, copied, interrupted, faults>>

machine == <<requested, points, blocked>>
object  == <<run, view, stale>>
pods    == <<job, copied>>
pass    == <<pc, pick, listed, fresh>>

Snapshots == (Volume \cup Requests) \ {Latest}

Terminal == {"Succeeded", "Failed"}
Roles    == {"target", "writer"}
Ended    == {"complete", "failed"}

\* phase "new" is the empty phase; a run that is "gone" no longer exists.
RestoreJob == [phase : {"new", "Pending", "Preparing", "Running", "gone"} \cup Terminal,
               snapshot : Snapshots \cup {0, Latest}, deleting : BOOLEAN]

\* "busy" is a pod that is connected to the other one.
Job   == [status : {"none", "starting", "waiting", "busy"} \cup Ended,
          snapshot : Snapshots \cup {0}]
NoJob == [status |-> "none", snapshot |-> 0]

\* What the conditions of a Job tell.
Condition(r) == IF job[r].status \in Ended \cup {"none"} THEN job[r].status ELSE "active"
Conditions   == [r \in Roles |-> Condition(r)]

Init ==
    /\ requested \in Requests
    /\ \E last \in Volume \cup {0} : points = {s \in Volume : s <= last}
    /\ blocked \in BOOLEAN
    /\ run = [phase |-> "new", snapshot |-> 0, deleting |-> FALSE]
    /\ view = run /\ stale = FALSE
    /\ job = [r \in Roles |-> NoJob]
    /\ seen = Conditions
    /\ secrets = FALSE
    /\ pc = "idle" /\ pick = 0 /\ listed = {} /\ fresh = FALSE
    /\ queued = TRUE
    /\ hub = <<>>
    /\ copied = 0
    /\ interrupted = FALSE
    /\ faults = 0

Fault == faults < MaxFaults /\ faults' = faults + 1

-----------------------------------------------------------------------------
(* API server and caches                                                   *)

Write(status) == run' = status /\ stale' = TRUE /\ fresh' = FALSE /\ UNCHANGED view

\* Status().Update on a copy of the run that is current or not; it may be refused or
\* fail.  again: the worker queues the run although the update is made.
StatusUpdate(current, status, again) ==
    \/ current /\ Write(status) /\ queued' = again /\ UNCHANGED faults
    \/ ~current /\ queued' = TRUE /\ UNCHANGED <<object, fresh, faults>>
    \/ current /\ Fault /\ queued' = TRUE /\ UNCHANGED <<object, fresh>>

\* The watch on RestoreJobs queues the run.
SyncRun ==
    /\ stale
    /\ view' = run /\ stale' = FALSE
    /\ queued' = TRUE
    /\ UNCHANGED <<machine, run, pods, seen, secrets, pass, hub, interrupted, faults>>

\* The writer's Job is owned by the run and queues it; the target's Job belongs to
\* the machine and does not.
SyncJobs ==
    /\ seen # Conditions
    /\ seen' = Conditions
    /\ queued' = (queued \/ seen["writer"] # Condition("writer"))
    /\ UNCHANGED <<machine, object, pods, secrets, pass, hub, interrupted, faults>>

\* The report of the last Completed event reaches the machine's status and the cache:
\* the watch on RsyncMachines queues the machine's restores.
SyncMachine ==
    /\ points # Volume
    /\ points' = Volume
    /\ queued' = TRUE
    /\ UNCHANGED <<requested, blocked, object, pods, seen, secrets, pass, hub, interrupted,
                   faults>>

\* The informers' periodic resync queues every run.
Resync ==
    /\ ~queued
    /\ queued' = TRUE
    /\ UNCHANGED <<machine, object, pods, seen, secrets, pass, hub, interrupted, faults>>

\* The backup that holds the restore ends, or the machine becomes ready.
Unblock ==
    /\ blocked
    /\ blocked' = FALSE
    /\ UNCHANGED <<requested, points, object, pods, seen, secrets, pass,
                   queued, hub, interrupted, faults>>

DeleteRestoreJob ==
    /\ ~run.deleting
    /\ Write([run EXCEPT !.deleting = TRUE])
    /\ UNCHANGED <<machine, pods, seen, secrets, pc, pick, listed, queued, hub, interrupted, faults>>

\* The manager restarts: the pass and unapplied reports are lost, caches are current,
\* every run is queued.
Crash ==
    /\ Fault
    /\ view' = run /\ stale' = FALSE
    /\ seen' = Conditions
    /\ pc' = "idle" /\ pick' = 0 /\ listed' = {} /\ fresh' = FALSE
    /\ queued' = TRUE
    /\ hub' = <<>>
    /\ interrupted' = (interrupted \/ pc \in {"writer", "status"})
    /\ UNCHANGED <<machine, run, pods, secrets>>

-----------------------------------------------------------------------------
(* RestoreJob worker                                                       *)

\* A pass over a run the cache shows in a phase of set.
Reconciling(set) == pc = "idle" /\ queued /\ ~view.deleting /\ view.phase \in set

\* Mutant: the request is handed on as it is, "latest" included.
ResolvedVerbatim == {requested}

\* resolveRestoreSnapshot: the snapshots a request can be resolved to, none when it
\* fails.  Without restore points an explicit snapshot is taken as it is.
resolveRestoreSnapshot ==
    IF requested = Latest THEN {s \in points : \A t \in points : t <= s}
    ELSE {s \in {requested} : points = {} \/ s \in points}

\* holdRestoreJobForTarget, holdRestoreJobForBackup: the update of the condition, the
\* machine's watch or the delay of 30 s queue the run again.
HoldRestoreJob ==
    /\ Reconciling({"new", "Pending"})
    /\ blocked
    /\ StatusUpdate(~stale, [view EXCEPT !.phase = "Pending"], FALSE)
    /\ UNCHANGED <<machine, pods, seen, secrets, pc, pick, listed, hub, interrupted>>

\* failRestoreJob
FailRestoreJob ==
    /\ Reconciling({"new", "Pending"})
    /\ ~blocked
    /\ resolveRestoreSnapshot = {}
    /\ StatusUpdate(~stale, [view EXCEPT !.phase = "Failed"], TRUE)
    /\ UNCHANGED <<machine, pods, seen, secrets, pc, pick, listed, hub, interrupted>>

\* The checks pass and the snapshot is resolved, in the copy of the run only.
StartPass ==
    /\ Reconciling({"new", "Pending"})
    /\ ~blocked
    /\ pick' \in resolveRestoreSnapshot
    /\ pc' = "target"
    /\ fresh' = ~stale
    /\ queued' = FALSE
    /\ UNCHANGED <<machine, object, pods, seen, secrets, listed, hub, interrupted, faults>>

\* createJobIfMissing: the cache decides; a Job it does not show yet makes the create
\* fail, and so may the API server.  An error ends the pass and queues the run.
createJobIfMissing(r, next) ==
    \/ /\ seen[r] # "none" \/ job[r] = NoJob
       /\ job' = [job EXCEPT ![r] = IF seen[r] # "none" THEN @
                                    ELSE [status |-> "starting", snapshot |-> pick]]
       /\ pc' = next
       /\ UNCHANGED <<pick, queued, interrupted, faults>>
    \/ /\ \/ seen[r] = "none" /\ job[r] # NoJob /\ UNCHANGED faults
          \/ Fault
       /\ pc' = "idle" /\ pick' = 0 /\ queued' = TRUE
       /\ interrupted' = (interrupted \/ \E x \in Roles : job[x] # NoJob)
       /\ UNCHANGED job

\* Secrets and the target Job, then Service and writer Job.
CreateTarget ==
    /\ pc = "target"
    /\ secrets' = TRUE
    /\ createJobIfMissing("target", "writer")
    /\ UNCHANGED <<machine, object, copied, seen, listed, fresh, hub>>

CreateWriter ==
    /\ pc = "writer"
    /\ createJobIfMissing("writer", "status")
    /\ UNCHANGED <<machine, object, copied, seen, secrets, listed, fresh, hub>>

\* Mutant: the snapshot is resolved a second time for the status.
ResolvedAgain == IF resolveRestoreSnapshot = {} THEN 0 ELSE CHOOSE s \in resolveRestoreSnapshot : TRUE

\* What the pass records as restoredSnapshot.
RestoredSnapshot == pick

\* The status update that ends the pass.
SetPreparing ==
    /\ pc = "status"
    /\ pc' = "idle" /\ pick' = 0
    /\ StatusUpdate(fresh, [run EXCEPT !.phase = "Preparing", !.snapshot = RestoredSnapshot],
                    FALSE)
    /\ interrupted' = (interrupted \/ run' = run)
    /\ UNCHANGED <<machine, pods, seen, secrets, listed, hub>>

\* Mutant: the run has succeeded when one of its Jobs is complete.
OneComplete == \E r \in Roles : seen[r] = "complete"

\* No Job of the run in the cache is unfinished.
AllComplete == \A r \in Roles : seen[r] \in {"none", "complete"}

\* Mutant: a running restore is left to its writer's reports.
OnlyPreparing == {"Preparing"}

\* Phases that follow the Jobs.
FollowsJobs == {"Preparing", "Running"}

\* reconcileRestoreJobJobStatus for a run that is not terminal.
ReconcileJobStatus ==
    /\ Reconciling(FollowsJobs)
    /\ LET phase == IF \E r \in Roles : seen[r] = "failed" THEN "Failed"
                    ELSE IF AllComplete THEN "Succeeded" ELSE "Running"
           status == [view EXCEPT
                         !.phase = phase,
                         !.snapshot = IF phase = "Succeeded" /\ @ = 0 THEN requested ELSE @]
       IN  IF phase = view.phase \/ \A r \in Roles : seen[r] = "none"
           THEN queued' = FALSE /\ UNCHANGED <<object, fresh, secrets, faults>>
           ELSE \/ /\ ~stale
                   /\ Write(status)
                   /\ queued' = FALSE
                   /\ secrets' = (secrets /\ phase \notin Terminal)
                   /\ UNCHANGED faults
                \/ /\ stale /\ UNCHANGED <<object, fresh, queued, secrets, faults>>
                \/ /\ Fault /\ UNCHANGED <<object, fresh, queued, secrets>>
    /\ UNCHANGED <<machine, pods, seen, pc, pick, listed, hub, interrupted>>

\* A terminal run only has its credentials removed.
ReconcileTerminal ==
    /\ Reconciling(Terminal)
    /\ queued' = FALSE
    /\ secrets' = FALSE
    /\ UNCHANGED <<machine, object, pods, seen, pass, hub, interrupted, faults>>

\* cleanupRunResourcesAndRemoveFinalizer of a deleted run begins with the Jobs that the
\* cache shows.
ReconcileDeleting ==
    /\ pc = "idle" /\ queued /\ view.deleting /\ view.phase # "gone"
    /\ pc' = "deleteJobs" /\ fresh' = ~stale
    /\ listed' = {r \in Roles : seen[r] # "none"}
    /\ queued' = FALSE
    /\ UNCHANGED <<machine, object, pods, seen, secrets, pick, hub, interrupted, faults>>

\* deleteLabeledRunJobs: one Job after the other.  An error ends the pass.
DeleteJob ==
    /\ pc = "deleteJobs"
    /\ \/ /\ \E r \in listed : job' = [job EXCEPT ![r] = NoJob] /\ listed' = listed \ {r}
          /\ UNCHANGED <<pc, queued, faults>>
       \/ /\ Fault
          /\ pc' = "idle" /\ listed' = {} /\ queued' = TRUE
          /\ UNCHANGED job
    /\ UNCHANGED <<machine, object, copied, seen, secrets, pick, fresh, hub, interrupted>>

\* Then secrets and Service.
DeleteSecrets ==
    /\ pc = "deleteJobs" /\ listed = {}
    /\ pc' = "removeFinalizer"
    /\ secrets' = FALSE
    /\ UNCHANGED <<machine, object, pods, seen, pick, listed, fresh, queued, hub, interrupted,
                   faults>>

\* The finalizer is removed last.  The writer's Job goes with its owner.
RemoveFinalizer ==
    /\ pc = "removeFinalizer"
    /\ pc' = "idle"
    /\ StatusUpdate(fresh, [run EXCEPT !.phase = "gone"], FALSE)
    /\ job' = IF run'.phase = "gone" THEN [job EXCEPT !["writer"] = NoJob] ELSE job
    /\ UNCHANGED <<machine, copied, seen, secrets, pick, listed, hub, interrupted>>

\* The run is not found.
ReconcileGone ==
    /\ pc = "idle" /\ queued /\ view.phase = "gone"
    /\ queued' = FALSE
    /\ UNCHANGED <<machine, object, pods, seen, secrets, pass, hub, interrupted, faults>>

-----------------------------------------------------------------------------
(* Pods and the ControlEventApplier                                        *)

\* reportSource: a failed call is only logged.
Report(phase) == \/ hub' = Append(hub, phase) /\ UNCHANGED faults
                 \/ Fault /\ UNCHANGED hub

\* The pod needs the credentials to start; serve-target then listens.
TargetListens ==
    /\ job["target"].status = "starting" /\ secrets
    /\ job' = [job EXCEPT !["target"].status = "waiting"]
    /\ UNCHANGED <<machine, object, copied, seen, secrets, pass, queued, hub, interrupted,
                   faults>>

WriterStarts ==
    /\ job["writer"].status = "starting" /\ secrets
    /\ job' = [job EXCEPT !["writer"].status = "waiting"]
    /\ Report("Running")
    /\ UNCHANGED <<machine, object, copied, seen, secrets, pass, queued, interrupted>>

\* The snapshot the target serves is the one asked for and on the volume.
Served == /\ job["target"].snapshot = job["writer"].snapshot
          /\ job["target"].snapshot \in Volume

\* ReceiveRestore connects once.  serveRestoreTransfer takes the one connection and ends
\* with an error when it cannot serve it.
Connect ==
    /\ job["writer"].status = "waiting" /\ job["target"].status = "waiting"
    /\ job' = IF Served THEN [r \in Roles |-> [job[r] EXCEPT !.status = "busy"]]
              ELSE [job EXCEPT !["target"].status = "failed", !["writer"].status = "busy"]
    /\ UNCHANGED <<machine, object, copied, seen, secrets, pass, queued, hub, interrupted,
                   faults>>

\* The writer cannot connect, or its connection broke: it reports Failed and exits.
WriterFails ==
    /\ \/ job["writer"].status = "waiting" /\ job["target"].status # "waiting"
       \/ job["writer"].status = "busy" /\ job["target"].status # "busy"
    /\ job' = [job EXCEPT !["writer"].status = "failed"]
    /\ Report("Failed")
    /\ UNCHANGED <<machine, object, copied, seen, secrets, pass, queued, interrupted>>

\* rsync has copied the snapshot.
WriterSucceeds ==
    /\ job["writer"].status = "busy" /\ job["target"].status = "busy"
    /\ job' = [job EXCEPT !["writer"].status = "complete"]
    /\ copied' = job["writer"].snapshot
    /\ Report("Succeeded")
    /\ UNCHANGED <<machine, object, seen, secrets, pass, queued, interrupted>>

\* proxyConns ends with the connection; it may end first, and in either way.
TargetEnds ==
    /\ job["target"].status = "busy"
    /\ \/ /\ job["writer"].status \in Ended \cup {"none"}
          /\ job' = [job EXCEPT !["target"].status = "complete"]
          /\ UNCHANGED faults
       \/ /\ \E status \in Ended : job' = [job EXCEPT !["target"].status = status]
          /\ Fault
    /\ UNCHANGED <<machine, object, copied, seen, secrets, pass, queued, hub, interrupted>>

\* Mutant: Jobs have no deadline, and a target waits for its writer forever.
NoDeadline(r) == FALSE /\ UNCHANGED vars

\* activeDeadlineSeconds ends a Job, whatever its pod is doing.
Deadline(r) ==
    /\ job[r].status \in {"starting", "waiting", "busy"}
    /\ job' = [job EXCEPT ![r].status = "failed"]
    /\ UNCHANGED <<machine, object, copied, seen, secrets, pass, queued, hub, interrupted,
                   faults>>

\* ApplySourceEventToRestoreJob: the reported phase replaces any other.
ApplySourceEventToRestoreJob(phase) == [run EXCEPT !.phase = phase]

\* The applier repeats an update that is refused; reports of a run that is gone are
\* dropped.
ApplyEvent ==
    /\ hub # <<>> /\ ~stale
    /\ hub' = Tail(hub)
    /\ IF run.phase = "gone" \/ ApplySourceEventToRestoreJob(Head(hub)) = run
       THEN UNCHANGED <<object, fresh>>
       ELSE Write(ApplySourceEventToRestoreJob(Head(hub)))
    /\ UNCHANGED <<machine, pods, seen, secrets, pc, pick, listed, queued, interrupted, faults>>

-----------------------------------------------------------------------------
Worker == \/ HoldRestoreJob \/ FailRestoreJob \/ StartPass
          \/ CreateTarget \/ CreateWriter \/ SetPreparing
          \/ ReconcileJobStatus \/ ReconcileTerminal \/ ReconcileGone
          \/ ReconcileDeleting \/ DeleteJob \/ DeleteSecrets \/ RemoveFinalizer

Next == \/ Worker
        \/ SyncRun \/ SyncJobs \/ SyncMachine \/ Resync
        \/ Unblock \/ DeleteRestoreJob \/ Crash
        \/ TargetListens \/ WriterStarts \/ Connect
        \/ WriterFails \/ WriterSucceeds \/ TargetEnds
        \/ \E r \in Roles : Deadline(r)
        \/ ApplyEvent

\* The worker serves its queue, caches catch up and are resynced, whatever holds the
\* restore ends, deadlines pass and the applier applies.  Pods need not get anywhere.
Fairness == /\ WF_vars(Worker)
            /\ WF_vars(SyncRun) /\ WF_vars(SyncJobs) /\ WF_vars(SyncMachine) /\ WF_vars(Resync)
            /\ WF_vars(Unblock) /\ WF_vars(ApplyEvent)
            /\ \A r \in Roles : WF_vars(Deadline(r))

Spec == Init /\ [][Next]_vars
FairSpec == Spec /\ Fairness

-----------------------------------------------------------------------------
(* Properties                                                              *)

\* Type invariant; a pass holds a resolved snapshot from StartPass to its end.
TypeOK ==
    /\ requested \in Requests
    /\ points \subseteq Volume
    /\ run \in RestoreJob /\ view \in RestoreJob
    /\ job \in [Roles -> Job]
    /\ seen \in [Roles -> {"none", "active"} \cup Ended]
    /\ pc \in {"idle", "target", "writer", "status", "deleteJobs", "removeFinalizer"}
    /\ pick \in Snapshots \cup {0} /\ listed \subseteq Roles
    /\ hub \in Seq({"Running"} \cup Terminal)
    /\ {blocked, stale, secrets, fresh, queued, interrupted} \subseteq BOOLEAN
    /\ copied \in Snapshots \cup {0} /\ faults \in 0..MaxFaults
    /\ pc \in {"target", "writer", "status"} <=> pick # 0
    /\ listed # {} => pc = "deleteJobs"

\* A restore is reported as succeeded only when the writer has copied a whole snapshot,
\* although the phase has two writers that do not look at each other's value, one of
\* which counts the Jobs its cache happens to show.
SucceededCopied == run.phase = "Succeeded" => copied # 0

\* status.restoredSnapshot names the snapshot that was copied, or none (0, "latest"), unless
\* a pass broke off after it had created a Job: its successor may resolve "latest"
\* to another snapshot than the Job was created for.
RecordedIsCopied ==
    ~interrupted /\ copied # 0 /\ run.snapshot \in Snapshots => run.snapshot = copied

\* The restore reaches a terminal phase and stays there, or is deleted, although reports
\* are lost or arrive after the Jobs have ended, and the end of the target Job queues
\* nobody.
RestoreEnds == <>[](run.phase \in Terminal \cup {"gone"})

\* Whatever the deletion of a run leaves behind does not serve the volume forever: the
\* cleanup deletes the Jobs its cache shows, and the target Job is not owned by the run.
DeletedRunStops ==
    run.phase = "gone" ~> \A r \in Roles : job[r].status \in Ended \cup {"none"}
=============================================================================
