----------------------------- MODULE TargetGuard -----------------------------
(***************************************************************************)
(* Admission of backup and restore runs to one RsyncMachine (the target).  *)
(*                                                                         *)
(* The actors are goroutines of one manager process, the data-plane pods   *)
(* and the users of the API server:                                        *)
(*   - the BackupJob worker: one reconcile at a time, a sequence of calls  *)
(*     on the API server (pc, run, fresh, victims, leaseFresh, attempt);   *)
(*   - the RestoreJob worker (restoring);                                  *)
(*   - the ControlEventApplier, which writes what targets report;          *)
(*   - serve-target pods (job, event).                                     *)
(* Reconcilers read the informer cache (cache, seenLease, seenRestore) and *)
(* write the API server (api, lease, restore).  A cache is a past snapshot *)
(* of its kind; an update based on an outdated copy is refused (conflict). *)
(***************************************************************************)
EXTENDS Naturals

CONSTANTS
    Backups,      \* BackupJobs naming the machine; their order is the
                  \* coalescing order (creationTimestamp, then name)
    Restores,     \* RestoreJobs whose source is attached to the machine
    Policy,       \* spec.concurrencyPolicy of the machine
    MaxFaults     \* bound on crashes, deletions, foreign writes, outages
                  \* and recoveries of target space

ASSUME RunsAssumption   == /\ Backups \subseteq Nat \ {0}
                          /\ Restores \subseteq Nat \ {0}
ASSUME PolicyAssumption == Policy \in {"Forbid", "Replace"}
ASSUME FaultsAssumption == MaxFaults \in Nat

VARIABLES
    api,          \* BackupJob objects in the API server
    cache,        \* ... as the informer cache shows them
    stale,        \* runs written since the cache last caught up
    job,          \* each run's serve-target Job and pod
    event,        \* target event in the event hub, not yet applied
    lease,        \* holder of the target guard Lease, NoRun when absent
    seenLease,    \* ... as cached
    leaseStale,   \* the Lease was written since the cache caught up
    restore,      \* RestoreJob phases
    seenRestore,  \* ... as cached
    ready,        \* the machine's Ready condition
    pc,           \* where the BackupJob worker is
    run,          \* the run it reconciles
    fresh,        \* runs of which it holds a copy that is the current version
    victims,      \* other runs it has decided to cancel, stop or prune
    leaseFresh,   \* the Lease it replaces the holder of is the current version
    attempt,      \* iterations of acquireTargetGuard
    restoring,    \* restore between its admission check and its status write
    faults,       \* faults that happened so far
    resumed       \* history: some Failed run went back to Running

vars == <<api, cache, stale, job, event, lease, seenLease, leaseStale,
          restore, seenRestore, ready, pc, run, fresh, victims, leaseFresh,
          attempt, restoring, faults, resumed>>

objects  == <<api, stale>>
plan     == <<victims, leaseFresh>>
worker   == <<pc, run, fresh, plan, attempt>>
leases   == <<lease, leaseStale>>
caches   == <<cache, seenLease, seenRestore>>
pods     == <<job, event>>
others   == <<restore, restoring, ready, faults>>

NoRun     == 0
NoRestore == 0

\* "Created": status.phase is "" and the finalizer is missing.  "New": phase
\* "" with finalizer.  "Active": Preparing, Running or Finalizing.
Missing  == {"absent", "gone"}
Waiting  == {"Created", "New", "Pending"}
Terminal == {"Succeeded", "Failed", "Canceled"}
Phases   == Missing \cup Waiting \cup {"Active"} \cup Terminal

ActiveRunBlocksTargetMutation(phase) == phase = "Active"
isTerminalPhase(phase) == phase \in Terminal

\* deleting: metadata.deletionTimestamp is set.  retrying: lastCommand is an
\* acknowledged RecoverSpace and a transfer waits for its retry.
BackupJob == [phase : Phases, deleting : BOOLEAN, retrying : BOOLEAN]

GuardAttempts == 3

Init ==
    /\ api = [b \in Backups |-> [phase |-> "absent", deleting |-> FALSE,
                                 retrying |-> FALSE]]
    /\ cache = api
    /\ stale = {}
    /\ job = [b \in Backups |-> "none"]
    /\ event = [b \in Backups |-> "none"]
    /\ lease = NoRun /\ seenLease = NoRun /\ leaseStale = FALSE
    /\ restore = [r \in Restores |-> "absent"]
    /\ seenRestore = restore
    /\ ready \in BOOLEAN
    /\ pc = "idle" /\ run = NoRun /\ fresh = {} /\ attempt = 0
    /\ victims = {} /\ leaseFresh = FALSE
    /\ restoring = NoRestore
    /\ faults = 0
    /\ resumed = FALSE

-----------------------------------------------------------------------------
(* Writes to the API server                                                *)

\* Any successful write of run b by another actor than the worker: the cache
\* lags, and a copy of b the worker holds is outdated.
Write(b, object) ==
    /\ api' = [api EXCEPT ![b] = object]
    /\ stale' = stale \cup {b}
    /\ fresh' = fresh \ {b}

\* A status update by the worker of the copy it holds of its own run.  The
\* client refreshes the copy's version: it stays fresh.
UpdateRun(phase) ==
    /\ api' = [api EXCEPT ![run].phase = phase]
    /\ stale' = stale \cup {run}

RunGone == api[run].phase \in Missing

\* The reconcile ends, with or without an error.
Return ==
    /\ pc' = "idle" /\ run' = NoRun /\ fresh' = {} /\ attempt' = 0
    /\ victims' = {} /\ leaseFresh' = FALSE

\* The worker goes on, with nothing to do to other runs ...
Goto(step) ==
    /\ pc' = step /\ attempt' = 0
    /\ victims' = {} /\ leaseFresh' = FALSE
    /\ fresh' = fresh \cap {run}
    /\ UNCHANGED run

\* ... or with these still to deal with, within the loop it is in.
Proceed(step, runs, current) ==
    /\ pc' = step
    /\ victims' = runs /\ leaseFresh' = current
    /\ UNCHANGED <<run, attempt>>

\* deleteLabeledRunJobs with background propagation: the pod outlives the call.
StopJobs(b) ==
    job' = [job EXCEPT ![b] = IF @ \in {"starting", "running", "finalizing"}
                              THEN "stopping"
                              ELSE IF @ \in {"complete", "failed"}
                              THEN "deleted" ELSE @]

-----------------------------------------------------------------------------
(* Users, schedule and other writers                                       *)

CreateBackup(b) ==
    /\ api[b].phase = "absent"
    /\ Write(b, [api[b] EXCEPT !.phase = "Created"])
    /\ UNCHANGED <<cache, pods, leases, seenLease, seenRestore, pc, run, plan,
                   attempt, others, resumed>>

\* kubectl delete, or the deletion of the machine that owns the run.  Without a
\* finalizer the object disappears at once.
DeleteBackup(b) ==
    /\ api[b].phase \notin Missing
    /\ ~api[b].deleting
    /\ faults < MaxFaults
    /\ faults' = faults + 1
    /\ Write(b, IF api[b].phase = "Created"
                THEN [api[b] EXCEPT !.phase = "gone"]
                ELSE [api[b] EXCEPT !.deleting = TRUE])
    /\ UNCHANGED <<cache, pods, leases, seenLease, seenRestore, pc, run, plan,
                   attempt, restore, restoring, ready, resumed>>

\* A write that leaves the phase alone: an owner reference, a source event, a
\* command acknowledgement.  A source event may end the wait for a retry.
TouchBackup(b) ==
    /\ api[b].phase \notin Missing
    /\ faults < MaxFaults
    /\ faults' = faults + 1
    /\ \E retrying \in {api[b].retrying, FALSE} :
          Write(b, [api[b] EXCEPT !.retrying = retrying])
    /\ UNCHANGED <<cache, pods, leases, seenLease, seenRestore, pc, run, plan,
                   attempt, restore, restoring, ready, resumed>>

CreateRestore(r) ==
    /\ restore[r] = "absent"
    /\ restore' = [restore EXCEPT ![r] = "Pending"]
    /\ UNCHANGED <<objects, caches, pods, leases, worker, restoring,
                   ready, faults, resumed>>

\* The machine's Ready condition changes.
MachineReadiness ==
    /\ ready => faults < MaxFaults
    /\ ready' = ~ready
    /\ faults' = IF ready THEN faults + 1 ELSE faults
    /\ UNCHANGED <<objects, caches, pods, leases, worker, restore, restoring,
                   resumed>>

-----------------------------------------------------------------------------
(* Informer caches                                                         *)

\* The BackupJob informer catches up with the API server.
SyncBackups ==
    /\ stale # {}
    /\ cache' = api
    /\ stale' = {}
    /\ UNCHANGED <<api, seenLease, seenRestore, pods, leases, worker, others,
                   resumed>>

SyncLease ==
    /\ leaseStale
    /\ seenLease' = lease
    /\ leaseStale' = FALSE
    /\ UNCHANGED <<objects, cache, seenRestore, pods, lease, worker,
                   others, resumed>>

SyncRestores ==
    /\ seenRestore # restore
    /\ seenRestore' = restore
    /\ UNCHANGED <<objects, cache, seenLease, pods, leases, worker,
                   others, resumed>>

\* The manager process dies and restarts: workers, workqueue and event hub are
\* lost and the caches are listed anew.
Crash ==
    /\ faults < MaxFaults
    /\ faults' = faults + 1
    /\ cache' = api /\ stale' = {}
    /\ seenLease' = lease /\ leaseStale' = FALSE
    /\ seenRestore' = restore
    /\ event' = [b \in Backups |-> "none"]
    /\ Return
    /\ restoring' = NoRestore
    /\ UNCHANGED <<api, job, lease, restore, ready, resumed>>

-----------------------------------------------------------------------------
(* BackupJob worker: BackupJobReconciler.Reconcile                         *)

\* The reconcile of run b starts with a copy of b from the cache.  Any run may be
\* dequeued at any time: its own changes, those of its Jobs, its machine and its
\* sources, errors, requeues and the informer's resync all enqueue it.
Begin(b) ==
    /\ pc = "idle"
    /\ cache[b].phase \notin Missing

\* Entry from Begin straight to a later step.
Enter(b, step) ==
    /\ pc' = step
    /\ run' = b
    /\ attempt' = 0
    /\ UNCHANGED plan

\* A reconcile that is over within one step: done, or refused by a conflict,
\* which the workqueue retries.
DoneOrConflict(b, object) ==
    /\ IF b \in stale
       THEN UNCHANGED objects
       ELSE /\ api' = [api EXCEPT ![b] = object]
            /\ stale' = stale \cup {b}
    /\ UNCHANGED worker

\* Deletion, and terminal runs: both begin with releaseTargetGuardsForRun; then
\* resources and finalizer of a deleted run go, or the history is pruned.
ReconcileDeleting(b) ==
    /\ Begin(b)
    /\ cache[b].deleting
    /\ Enter(b, "releaseDeleted") /\ fresh' = {b} \ stale
    /\ UNCHANGED <<objects, caches, pods, leases, others, resumed>>

\* Mutant: a terminal run is done with; its guard was released when it ended.
ReconcileTerminalDone(b) == FALSE

ReconcileTerminal(b) ==
    /\ Begin(b)
    /\ isTerminalPhase(cache[b].phase)
    /\ ~cache[b].deleting
    /\ ~(cache[b].phase = "Failed" /\ cache[b].retrying)
    /\ Enter(b, "releaseTerminal") /\ fresh' = {}
    /\ UNCHANGED <<objects, caches, pods, leases, others, resumed>>

\* A Failed run whose target recovered space goes back to Running.  The guard
\* it released when it failed is not acquired again.
resumeRecoveredBackupJob(b) ==
    /\ Begin(b)
    /\ ~cache[b].deleting
    /\ cache[b].phase = "Failed" /\ cache[b].retrying
    /\ DoneOrConflict(b, [api[b] EXCEPT !.phase = "Active"])
    /\ resumed' = (resumed \/ b \notin stale)
    /\ UNCHANGED <<caches, pods, leases, others>>

AddFinalizer(b) ==
    /\ Begin(b)
    /\ cache[b].phase = "Created" /\ ~cache[b].deleting
    /\ DoneOrConflict(b, [api[b] EXCEPT !.phase = "New"])
    /\ UNCHANGED <<caches, pods, leases, others, resumed>>

\* reconcileBackupJobJobStatus makes the run terminal and, once its update is
\* accepted (or the object is gone), goes on to release the guard.
EndBackupJob(b, phases) ==
    /\ Begin(b)
    /\ ActiveRunBlocksTargetMutation(cache[b].phase)
    /\ ~cache[b].deleting
    /\ \E phase \in phases :
          \/ /\ b \notin stale
             /\ api' = [api EXCEPT ![b].phase = phase]
             /\ stale' = stale \cup {b}
             /\ Enter(b, "release") /\ fresh' = {}
          \/ /\ b \in stale /\ api[b].phase \in Missing
             /\ Enter(b, "release") /\ fresh' = {}
             /\ UNCHANGED objects
    /\ UNCHANGED <<caches, pods, leases, others, resumed>>

\* Mutant: a failed target Job is left to the target's own report.
JobOutcomesCompleteOnly(status) ==
    IF status = "complete" THEN {"Succeeded", "Failed"} ELSE {}

\* The target Job has ended; a completed one still fails the run when a source
\* Job failed.
JobOutcomes(status) ==
    CASE status = "complete" -> {"Succeeded", "Failed"}
      [] status = "failed"   -> {"Failed"}
      [] OTHER               -> {}

TargetJobEnded(b) == EndBackupJob(b, JobOutcomes(job[b]))

\* A source Job failed beyond recovery, or an error: the target still serves.
SourceJobFailed(b) ==
    /\ job[b] \in {"starting", "running", "finalizing"}
    /\ EndBackupJob(b, {"Failed"})

\* The run stays active: all sources are complete and the finalize command is
\* enqueued, whether or not the status update that records it is accepted; or a
\* source Job that ran out of space is retried (RecoverSpace acknowledged).
BackupJobStaysActive(b) ==
    /\ Begin(b)
    /\ ActiveRunBlocksTargetMutation(cache[b].phase)
    /\ ~cache[b].deleting
    /\ job[b] = "running"
    /\ \/ /\ job' = [job EXCEPT ![b] = "finalizing"]
          /\ DoneOrConflict(b, [api[b] EXCEPT !.retrying = FALSE])
          /\ UNCHANGED faults
       \/ /\ faults < MaxFaults
          /\ faults' = faults + 1
          /\ DoneOrConflict(b, [api[b] EXCEPT !.retrying = TRUE])
          /\ UNCHANGED job
    /\ UNCHANGED <<caches, event, leases, restore, restoring, ready, resumed>>

\* resolveBackupJob succeeds or fails the run.
ReconcileWaiting(b) ==
    /\ Begin(b)
    /\ cache[b].phase \in {"New", "Pending"}
    /\ ~cache[b].deleting
    /\ \E step \in {"coalesce", "fail"} : Enter(b, step)
    /\ fresh' = {b} \ stale
    /\ UNCHANGED <<objects, caches, pods, leases, others, resumed>>

-----------------------------------------------------------------------------
(* The steps of a waiting run's admission                                  *)

\* Status().Update of the worker's run with the given phase, then the end of
\* the reconcile: holdBackupJobFor*, cancelBackupJobMergedInto.
FinishAs(phase) ==
    /\ IF run \in fresh THEN UpdateRun(phase) ELSE UNCHANGED objects
    /\ Return

\* Mutant: every run that has not ended is a duplicate.
cachedUnfinished == {b \in Backups : cache[b].phase \in Waiting \cup {"Active"}}

cachedWaiting == {b \in Backups : cache[b].phase \in Waiting}

\* coalescePendingBackupJobsForTarget lists the waiting runs; its caller cancels a
\* run that is not the first of them.
Coalesce ==
    /\ pc = "coalesce"
    /\ IF \A b, c \in cachedWaiting : b = c
       THEN Goto("active") /\ UNCHANGED objects
       ELSE IF run \in cachedWaiting /\ \A b \in cachedWaiting : run <= b
       THEN /\ Proceed("merge", cachedWaiting \ {run}, FALSE)
            /\ fresh' = (fresh \cap {run}) \cup (cachedWaiting \ (stale \cup {run}))
            /\ UNCHANGED objects
       ELSE FinishAs("Canceled")
    /\ UNCHANGED <<caches, pods, leases, others, resumed>>

\* cancelBackupJobMergedInto of the next duplicate: an object already gone does not
\* count as a failure, a copy outdated since the list was read does.
CancelMerged ==
    /\ pc = "merge"
    /\ \E d \in victims :
          /\ \A e \in victims : d <= e
          /\ \/ /\ d \in fresh
                /\ api' = [api EXCEPT ![d].phase = "Canceled"]
                /\ stale' = stale \cup {d}
             \/ d \notin fresh /\ UNCHANGED objects
          /\ IF d \notin fresh /\ api[d].phase \notin Missing THEN Goto("fail")
             ELSE IF victims = {d} THEN Goto("active")
             ELSE Proceed("merge", victims \ {d}, FALSE) /\ fresh' = fresh \ {d}
    /\ UNCHANGED <<caches, pods, leases, others, resumed>>

\* cancelBackupJobForReplacement of run b by the worker's run: the status update,
\* whose refusal fails the worker's run; then, as a step of its own, the cleanup.
CannotCancel(b) == b \in stale /\ api[b].phase \notin Missing

CancelForReplacement(b, step) ==
    \/ CannotCancel(b) /\ Goto("fail") /\ UNCHANGED objects
    \/ /\ ~CannotCancel(b)
       /\ IF api[b].phase \in Missing
          THEN UNCHANGED objects
          ELSE /\ api' = [api EXCEPT ![b].phase = "Canceled"]
               /\ stale' = stale \cup {b}
       /\ Proceed(step, {b}, ~leaseStale) /\ UNCHANGED fresh

\* cleanupRunResources of the replaced run, which may fail too.
CleanupReplaced ==
    /\ pc \in {"replaceActive", "replaceHolder"}
    /\ \/ Goto("fail") /\ UNCHANGED job
       \/ /\ \E b \in victims : StopJobs(b)
          /\ IF pc = "replaceActive" THEN Goto("restore")
             ELSE Proceed("claim", {}, leaseFresh) /\ UNCHANGED fresh
    /\ UNCHANGED <<objects, caches, event, leases, others, resumed>>

\* Mutant: active runs are left to the Lease.
cachedActiveUnchecked == {}

cachedActive ==
    {b \in Backups \ {run} : ActiveRunBlocksTargetMutation(cache[b].phase)}

\* !TargetReady, then findActiveBackupJobForTarget.
CheckReadyAndActive ==
    /\ pc = "active"
    /\ \/ ~ready /\ FinishAs("Pending")
       \/ ready /\ cachedActive = {} /\ Goto("restore") /\ UNCHANGED objects
       \/ ready /\ cachedActive # {} /\ Policy = "Forbid" /\ FinishAs("Pending")
       \/ /\ ready /\ Policy = "Replace"
          /\ \E b \in cachedActive : CancelForReplacement(b, "replaceActive")
    /\ UNCHANGED <<caches, pods, leases, others, resumed>>

\* Mutant: restores that have ended hold backups too.
AnyRestoreSeen == \E r \in Restores : seenRestore[r] # "absent"

\* findActiveRestoreJobForTarget: any restore that is not terminal holds.
ActiveRestoreSeen == \E r \in Restores : seenRestore[r] \in {"Pending", "Active"}

CheckRestore ==
    /\ pc = "restore"
    /\ IF ActiveRestoreSeen
       THEN FinishAs("Pending")
       ELSE Goto("guard") /\ UNCHANGED objects
    /\ UNCHANGED <<caches, pods, leases, others, resumed>>

WriteLease(holder) ==
    /\ lease' = holder
    /\ leaseStale' = TRUE

\* The next iteration of acquireTargetGuard.
TryAgain ==
    /\ pc' = "guard" /\ attempt' = attempt + 1
    /\ victims' = {} /\ leaseFresh' = FALSE
    /\ UNCHANGED <<run, fresh>>

\* Mutant: conflicts are retried without a limit.
ClaimRefusedUnlimited == IF lease = NoRun THEN Goto("fail") ELSE TryAgain

\* The claim of an existing Lease was refused: a conflict is retried, a Lease
\* that vanished is an error.
ClaimRefused ==
    IF lease = NoRun \/ attempt + 1 = GuardAttempts THEN Goto("fail") ELSE TryAgain

\* The Lease as it was read, the current version or not, is claimed for the run.
Claim(current) ==
    \/ current /\ WriteLease(run) /\ Goto("target")
    \/ ~current /\ ClaimRefused /\ UNCHANGED leases

activeGuardHolder(holder) ==
    ActiveRunBlocksTargetMutation(cache[holder].phase)

\* acquireTargetGuard, one iteration of its loop up to a replacement.
AcquireTargetGuard ==
    /\ pc = "guard"
    /\ \/ /\ seenLease = NoRun /\ lease = NoRun
          /\ WriteLease(run)
          /\ Goto("target")
          /\ UNCHANGED objects
       \/ /\ seenLease = NoRun /\ lease # NoRun
          /\ IF attempt + 1 = GuardAttempts THEN Goto("fail") ELSE TryAgain
          /\ UNCHANGED <<objects, leases>>
       \/ /\ seenLease = run
          /\ Claim(~leaseStale)
          /\ UNCHANGED objects
       \/ /\ seenLease \in Backups \ {run} /\ ~activeGuardHolder(seenLease)
          /\ Claim(~leaseStale)
          /\ UNCHANGED objects
       \/ /\ seenLease \in Backups \ {run} /\ activeGuardHolder(seenLease)
          /\ Policy = "Forbid"
          /\ FinishAs("Pending")
          /\ UNCHANGED leases
       \/ /\ seenLease \in Backups \ {run} /\ activeGuardHolder(seenLease)
          /\ Policy = "Replace"
          /\ CancelForReplacement(seenLease, "replaceHolder")
          /\ UNCHANGED leases
    /\ UNCHANGED <<caches, pods, others, resumed>>

\* The end of that iteration once the holder is replaced.
ClaimReplaced ==
    /\ pc = "claim"
    /\ Claim(leaseFresh)
    /\ UNCHANGED <<objects, caches, pods, others, resumed>>

\* Secrets, target Job and Service.  Building them may fail the run; a create that
\* is refused, of the Job or after it of the Service, ends the reconcile with the
\* guard held.
CreateTarget ==
    /\ pc = "target"
    /\ \/ Goto("fail") /\ UNCHANGED <<job, faults>>
       \/ /\ faults < MaxFaults /\ faults' = faults + 1
          /\ Return /\ UNCHANGED job
       \/ /\ job' = [job EXCEPT ![run] = IF @ = "none" THEN "starting" ELSE @]
          /\ \/ Goto("prepare") /\ UNCHANGED faults
             \/ faults < MaxFaults /\ faults' = faults + 1 /\ Return
    /\ UNCHANGED <<objects, caches, event, leases, restore, restoring, ready, resumed>>

\* The final status update of the admission.
SetPreparing ==
    /\ pc = "prepare"
    /\ FinishAs("Active")
    /\ UNCHANGED <<caches, pods, leases, others, resumed>>

\* failBackupJob: status update, then (if accepted) release of the guard; the
\* error it returns requeues the run.
FailBackupJob ==
    /\ pc = "fail"
    /\ IF run \in fresh \/ RunGone
       THEN /\ IF RunGone THEN UNCHANGED objects ELSE UpdateRun("Failed")
            /\ Goto("release")
       ELSE UNCHANGED objects /\ Return
    /\ UNCHANGED <<caches, pods, leases, others, resumed>>

\* pruneBackupJobHistory lists the terminal runs and removes those beyond the limits
\* of the history, which are never zero; completion times are not modelled.
cachedTerminal == {b \in Backups : isTerminalPhase(cache[b].phase)}

ListHistory ==
    \/ Return
    \/ \E old \in SUBSET cachedTerminal \ {{}, cachedTerminal} :
          Proceed("prune", old, FALSE) /\ fresh' = old \ stale

\* releaseTargetGuardsForRun: a Lease cached as held by the run is deleted by
\* name, whatever it holds by now.
ReleaseTargetGuards ==
    /\ pc \in {"release", "releaseTerminal", "releaseDeleted"}
    /\ IF seenLease = run /\ lease # NoRun
       THEN WriteLease(NoRun)
       ELSE UNCHANGED leases
    /\ \/ pc = "release" /\ Return
       \/ pc = "releaseTerminal" /\ ListHistory
       \/ pc = "releaseDeleted" /\ Goto("finalize")
    /\ UNCHANGED <<objects, caches, pods, others, resumed>>

\* cleanupRunResourcesAndRemoveFinalizer.
RemoveFinalizer ==
    /\ pc = "finalize"
    /\ StopJobs(run)
    /\ FinishAs("gone")
    /\ UNCHANGED <<caches, event, leases, others, resumed>>

\* Resources and finalizer of some run are removed, then the run; an outdated copy
\* ends the pruning after the resources.
PruneHistory ==
    /\ pc = "prune"
    /\ \E b \in victims :
          /\ StopJobs(b)
          /\ IF b \in fresh
             THEN /\ api' = [api EXCEPT ![b].phase = "gone"]
                  /\ stale' = stale \cup {b}
             ELSE UNCHANGED objects
          /\ IF victims = {b} \/ (b \notin fresh /\ api[b].phase \notin Missing)
             THEN Return
             ELSE Proceed("prune", victims \ {b}, FALSE) /\ fresh' = fresh \ {b}
    /\ UNCHANGED <<caches, event, leases, others, resumed>>

-----------------------------------------------------------------------------
(* RestoreJob worker                                                       *)

\* Mutant: restores wait for every backup that is not terminal.
UnfinishedBackupSeen ==
    \E b \in Backups : cache[b].phase \in Waiting \cup {"Active"}

\* RestoreJobReconciler.findActiveBackupJobForTarget.
ActiveBackupSeen ==
    \/ seenLease \in Backups /\ activeGuardHolder(seenLease)
    \/ \E b \in Backups : ActiveRunBlocksTargetMutation(cache[b].phase)

\* The checks of a waiting restore pass; while a backup is active, or the
\* machine is not ready, the restore is held and tried again.
AdmitRestore(r) ==
    /\ restoring = NoRestore
    /\ seenRestore[r] = "Pending"
    /\ ready /\ ~ActiveBackupSeen
    /\ restoring' = r
    /\ UNCHANGED <<objects, caches, pods, leases, worker, restore, ready,
                   faults, resumed>>

\* Secrets, Jobs and Service are created and the restore set to Preparing.
StartRestore(r) ==
    /\ restoring = r
    /\ restoring' = NoRestore
    /\ restore' = [restore EXCEPT ![r] =
                      IF @ = "Pending" THEN "Active" ELSE @]
    /\ UNCHANGED <<objects, caches, pods, leases, worker, ready, faults,
                   resumed>>

\* The restore fails before or in admission, is deleted, or its Jobs end.
EndRestore(r) ==
    /\ restore[r] \in {"Pending", "Active"}
    /\ restore' = [restore EXCEPT ![r] = "Done"]
    /\ UNCHANGED <<objects, caches, pods, leases, worker, restoring,
                   ready, faults, resumed>>

-----------------------------------------------------------------------------
(* serve-target pods and the ControlEventApplier                           *)

\* The pod listens, registers for commands and reports Ready.
TargetStarts(b) ==
    /\ job[b] = "starting"
    /\ job' = [job EXCEPT ![b] = "running"]
    /\ event' = [event EXCEPT ![b] = "Ready"]
    /\ UNCHANGED <<objects, caches, leases, worker, others, resumed>>

\* The pod ends; its report is lost when the manager cannot be reached.  A pod
\* completes only if told to finalize.
TargetEnds(b) ==
    /\ \E result \in {"complete", "failed"} :
          /\ \/ job[b] = "finalizing"
             \/ job[b] \in {"starting", "running"} /\ result = "failed"
          /\ job' = [job EXCEPT ![b] = result]
          /\ event' \in {event, [event EXCEPT ![b] =
                         IF result = "complete" THEN "Completed" ELSE "Failed"]}
    /\ UNCHANGED <<objects, caches, leases, worker, others, resumed>>

\* Background deletion reaches the pod.
TargetStops(b) ==
    /\ job[b] = "stopping"
    /\ job' = [job EXCEPT ![b] = "deleted"]
    /\ event' \in {event, [event EXCEPT ![b] = "Failed"]}
    /\ UNCHANGED <<objects, caches, leases, worker, others, resumed>>

\* ApplyTargetEventToBackupJob: Ready starts a run whose phase is "" (or
\* Preparing); Completed and Failed overwrite any phase.
Reported(phase, reported) ==
    CASE reported = "Ready" -> IF phase \in {"Created", "New"}
                               THEN "Active" ELSE phase
      [] reported = "Completed" -> "Succeeded"
      [] reported = "Failed"    -> "Failed"

\* applyTargetEventToRun retries until its cached copy is current.  (Giving up
\* stops the manager: Crash.)
ApplyTargetEvent(b) ==
    /\ event[b] # "none"
    /\ b \notin stale
    /\ event' = [event EXCEPT ![b] = "none"]
    /\ IF api[b].phase \in Missing
       THEN UNCHANGED <<objects, fresh>>
       ELSE Write(b, [api[b] EXCEPT !.phase = Reported(@, event[b])])
    /\ UNCHANGED <<caches, job, leases, pc, run, plan, attempt, others,
                   resumed>>

-----------------------------------------------------------------------------
(* Specification                                                           *)

Reconcile(b) ==
    \/ ReconcileDeleting(b)
    \/ ReconcileTerminal(b)
    \/ resumeRecoveredBackupJob(b)
    \/ AddFinalizer(b)
    \/ TargetJobEnded(b)
    \/ BackupJobStaysActive(b)
    \/ ReconcileWaiting(b)

WorkerStep ==
    \/ Coalesce \/ CancelMerged
    \/ CheckReadyAndActive
    \/ CheckRestore
    \/ AcquireTargetGuard
    \/ CleanupReplaced
    \/ ClaimReplaced
    \/ CreateTarget
    \/ SetPreparing
    \/ FailBackupJob
    \/ ReleaseTargetGuards
    \/ RemoveFinalizer
    \/ PruneHistory

Cluster ==
    \/ \E b \in Backups : CreateBackup(b) \/ DeleteBackup(b) \/ TouchBackup(b)
    \/ \E r \in Restores : CreateRestore(r)
    \/ MachineReadiness

Next ==
    \/ Cluster
    \/ SyncBackups \/ SyncLease \/ SyncRestores \/ Crash
    \/ \E b \in Backups : Reconcile(b) \/ SourceJobFailed(b)
    \/ WorkerStep
    \/ \E r \in Restores : AdmitRestore(r) \/ StartRestore(r) \/ EndRestore(r)
    \/ \E b \in Backups : \/ TargetStarts(b) \/ TargetEnds(b) \/ TargetStops(b)
                          \/ ApplyTargetEvent(b)

\* The manager's goroutines keep running, the workqueue and the 30-second
\* requeues serve every run, informers deliver, and pods end by their
\* activeDeadlineSeconds.  Users owe nothing.
Fairness ==
    /\ WF_vars(SyncBackups) /\ WF_vars(SyncLease) /\ WF_vars(SyncRestores)
    /\ WF_vars(WorkerStep)
    /\ WF_vars(~ready /\ MachineReadiness)
    /\ \A b \in Backups :
          /\ SF_vars(Reconcile(b))
          /\ WF_vars(TargetEnds(b)) /\ WF_vars(TargetStops(b))
    /\ \A r \in Restores :
          /\ SF_vars(AdmitRestore(r)) /\ WF_vars(StartRestore(r))
          /\ WF_vars(restore[r] = "Active" /\ EndRestore(r))

Spec == Init /\ [][Next]_vars
FairSpec == Spec /\ Fairness

-----------------------------------------------------------------------------
(* Properties                                                              *)

Pcs == {"idle", "coalesce", "merge", "active", "replaceActive", "restore", "guard",
        "replaceHolder", "claim", "target", "prepare", "fail", "release",
        "releaseTerminal", "prune", "releaseDeleted", "finalize"}

RunsType ==
    /\ api \in [Backups -> BackupJob]
    /\ cache \in [Backups -> BackupJob]
    /\ stale \subseteq Backups

PodsType ==
    /\ job \in [Backups -> {"none", "starting", "running", "finalizing",
                            "complete", "failed", "stopping", "deleted"}]
    /\ event \in [Backups -> {"none", "Ready", "Completed", "Failed"}]

GuardType ==
    /\ lease \in Backups \cup {NoRun}
    /\ seenLease \in Backups \cup {NoRun}
    /\ leaseStale \in BOOLEAN

RestoresType ==
    /\ restore \in [Restores -> {"absent", "Pending", "Active", "Done"}]
    /\ seenRestore \in [Restores -> {"absent", "Pending", "Active", "Done"}]
    /\ restoring \in Restores \cup {NoRestore}

WorkerType ==
    /\ pc \in Pcs
    /\ IF pc = "idle" THEN run = NoRun ELSE run \in Backups
    /\ fresh \subseteq Backups /\ victims \subseteq Backups
    /\ leaseFresh \in BOOLEAN
    /\ attempt \in 0 .. (GuardAttempts - 1)

\* Every variable has its type; the worker has a run exactly while it is busy,
\* and acquireTargetGuard tries at most three times.
TypeOK ==
    /\ RunsType /\ PodsType /\ GuardType /\ RestoresType /\ WorkerType
    /\ ready \in BOOLEAN /\ resumed \in BOOLEAN
    /\ faults \in 0 .. MaxFaults

active == {b \in Backups : ActiveRunBlocksTargetMutation(api[b].phase)}

\* Never run two backups on the same target concurrently, as long as no Failed
\* run was resumed: neither a lagging cache, a refused update, a crash between
\* two calls nor an early Ready event admits a second run.
OneActiveBackup == ~resumed => \A a, b \in active : a = b

\* Under Forbid no step cancels an active run, not even the coalescing of runs
\* that a lagging cache still shows as waiting.
ForbidNeverPreempts ==
    [][\A b \in Backups :
          Policy = "Forbid" /\ b \in active => api'[b].phase # "Canceled"]_vars

\* A waiting backup is eventually admitted, merged or failed: the machine gets
\* ready, active runs end, restores end, and no run waits for itself.
WaitingBackupSettles ==
    \A b \in Backups : api[b].phase \in Waiting ~> api[b].phase \notin Waiting

\* A guard does not stay with a terminal run: the release is retried after a
\* crash, a conflict, or a cache that did not show the Lease yet.
GuardLeavesTerminalRun ==
    \A b \in Backups :
        lease = b /\ isTerminalPhase(api[b].phase) ~>
            lease # b \/ ~isTerminalPhase(api[b].phase)

\* Backups wait for restores that are only waiting, restores wait for active
\* backups only: the two controllers never wait for each other.
WaitingRestoreSettles ==
    \A r \in Restores : restore[r] = "Pending" ~> restore[r] # "Pending"

\* docs/operator-design.md: never run two backups that mutate the same target
\* tree concurrently.
NeverTwoActive == \A a, b \in active : a = b

\* docs/user-guide.md: restores are blocked while a backup is active on the
\* machine, and backups while a restore is active.
NoBackupDuringRestore == active = {} \/ \A r \in Restores : restore[r] # "Active"

=============================================================================
