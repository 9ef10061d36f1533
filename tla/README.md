# TLA+ models of kube-rsync-machine

kube-rsync-machine is a Kubernetes operator that backs up PVCs with rsync. A
`RsyncMachine` names a target PVC; `BackupSource`s name what is backed up to it;
a `BackupJob` is one run, a `RestoreJob` one restore. The manager process runs
the controllers and a gRPC control service; each run has a `serve-target` Job
that owns the target volume and `send-source` Jobs that transfer to it.

This directory holds TLA+ models of the parts where interleavings, stale caches,
crashes and retries decide whether a backup can be trusted, TLC runs over small
instances, and TLAPS proofs for instances of every size.

## Inventory

| Part (src/) | State | Operations | Talks to | What makes it correct | Module |
|---|---|---|---|---|---|
| BackupJob admission, `internal/controller/reconcilers.go` 85-547 | BackupJob status, target guard Lease | coalesce waiting runs, check readiness, overlap and restores, claim the Lease, create the target Job, set Preparing, fail, release | API server through informer caches; other controllers only through objects | one active run per machine; Forbid never preempts; waiting runs get served; the guard is released | TargetGuard |
| BackupJob execution, 572-1217 | Jobs, transfers, last command | prepare captures, create source Jobs, finalize when all are complete, recover space and retry, resume, end | control service, source and target Jobs, event applier | only complete data is promoted; Succeeded means promoted; a run ends | BackupRun |
| Snapshot capture, `internal/snapshot` | VolumeSnapshots, temporary claims | decide the mode, create, wait, fall back | CSI driver, API discovery | no source is sent before its capture is ready | BackupRun |
| RestoreJob controller, 1815-2391 | RestoreJob status, two Jobs | admission, snapshot resolution, Jobs, phase from Jobs, deletion | backups' phases and the Lease through caches, writer's reports | Succeeded means copied; the recorded snapshot is the copied one; restores end | RestoreRun, TargetGuard |
| RsyncMachine controller and schedule, 2514-2837 | Ready condition, lastScheduledAt | validate, create due runs, delete runs with the machine | creates and deletes BackupJobs | one run per due time, none skipped, none orphaned | Schedule |
| Event applier, `internal/manager/event_applier.go`, `internal/controller/events.go` | none | write what targets and sources report | event hub, API server | reports never bring an ended run back | BackupRun, RestoreRun, TargetGuard |
| Control service, `internal/control/service.go`, `internal/controlgrpc` | per-run command log, streams | enqueue, register, replay, acknowledge | BackupJob worker, targets | commands delivered once and in order; the worker is never held up | CommandService, CommandLog |
| Event hub, `internal/control/eventhub.go` | event numbers, replay, subscribers | publish, subscribe, deliver | reporters, applier, live API | in order, once, nothing lost unnoticed; reporters are never held up | EventHub |
| `serve-target`, `send-source`, `restore`, `internal/cli/cli.go` | pc, receiver | receive transfers, take commands, finalize, copy back | control service, volume | see the other rows | BackupRun, SnapshotStore, RestoreRun |
| Snapshot store, `internal/dataplane/snapshot.go` | `.partial`, `hourly`, `daily`, `weekly`, `monthly`, `latest` | promote, link tiers, prune, recover space, scan | target volume | retained restore points are whole; a completed run is restorable | SnapshotStore |
| Transfers, `internal/dataplane/transport.go`, `rsync.go` | listener, completed sources | accept, seed from `latest`, proxy rsync | TLS peers, rsync daemon | a failed transfer never ends up in a snapshot | SnapshotStore, BackupRun, RestoreRun |
| Live API event streams, `internal/liveapi/server.go` | none | subscribe with Last-Event-ID, stream | event hub | a stalled client disturbs nobody | EventHub |
| BackupSource controller, builders, credentials, TLS, metrics, frontend, manager wiring | little | validation, pure construction, views | API server | | none |

What is hard: workers and an event applier write the same objects with
optimistic concurrency; every decision reads an informer cache that lags; the
manager can crash between any two calls, and its command log and event hub are
in memory; pods outlive the runs that started them; reports are best effort;
file operations on the volume are not atomic. `PROJECT.json` lists these hazards
one by one, at their lines, with the properties that would catch them.

## How the models fit together

The parts interact through objects, command streams and reports, and each module
takes its neighbours at their weakest:

- TargetGuard has all runs of a machine, each with few phases. BackupRun opens
  up one of them after admission; RestoreRun one restore; Schedule creates runs.
- BackupRun treats the command log as a sequence read in order and the event hub
  as a sequence that may lose elements. CommandService and EventHub show that
  the channels and goroutines behind them provide this (CommandLog states it for
  commands; EventHub's properties for events).
- BackupRun and SnapshotStore meet at the finalize command: BackupRun shows that
  every source is whole when the target promotes, which SnapshotStore has as the
  guard of `FinalizeCommand`.
- RestoreRun takes a snapshot that is on the volume to be whole (`RetainedWhole`).

All modules treat API writes alike. `view`, `seen`, `cache` are informer caches;
`stale` says that an object was written since its cache caught up. An update
carries the version its copy was read at: it is accepted only if the object has
not been written since, else it is refused and the pass is repeated. What a pass
did before its update stays done. `Fault` counts what goes wrong; `MaxFaults`
bounds it, and a fault can come at any step.

## Modules

### TargetGuard

Admission of backups and restores to one machine. One action is one call on the
API server, so that every other actor can step in between.

- State: `api`, `lease`, `restore` are the API server; `cache`, `seenLease`,
  `seenRestore` are informer caches, each a past snapshot of its kind that
  `SyncBackups`, `SyncLease` and `SyncRestores` bring up to date. `stale` and
  `leaseStale` say what was written since. The BackupJob worker (one per
  controller, as `SetupWithManager` leaves `MaxConcurrentReconciles` at 1) is
  `pc`, `run`, `attempt`, `victims` (other runs it has decided to cancel, stop
  or prune, and has not dealt with yet), `fresh` and `leaseFresh`: the runs of
  which it holds a copy that is the current resource version, and whether the
  Lease it read still is, so that an update is accepted or refused.
- `Reconcile(b)` starts `BackupJobReconciler.Reconcile` for `b`, one disjunct per
  branch; the steps of an admission are `Coalesce`, `CancelMerged` (one status
  update per duplicate), `CheckReadyAndActive`, `CheckRestore`,
  `AcquireTargetGuard` (one iteration of its loop), `CreateTarget`,
  `SetPreparing`. Replacement is the status update of the replaced run
  (`CancelForReplacement`, within `CheckReadyAndActive` and `AcquireTargetGuard`),
  its `CleanupReplaced` and, for the holder of the Lease, `ClaimReplaced`.
  `FailBackupJob`, `ReleaseTargetGuards` and `RemoveFinalizer` are the ways out.
  A create that the API server refuses ends the pass with the guard held.
- `ListHistory` and `PruneHistory` are `pruneBackupJobHistory`. A limit is at least
  one, so any runs but all of those the cache shows as terminal may go.
  `DeleteBackup` is the deletion of a run by a user or the garbage collector.
- `AdmitRestore`, `StartRestore` and
  `EndRestore` are the restore worker. `TargetStarts`, `TargetEnds` and
  `TargetStops` are pods, `ApplyTargetEvent` the event applier.
- `Crash` restarts the manager: workers and undelivered events are lost, caches
  are listed anew. `TouchBackup` stands for every write that leaves the phase
  alone and only makes copies outdated.
- Abstractions: Preparing, Running and Finalizing are one phase, "Active", since
  `ActiveRunBlocksTargetMutation` treats them alike. A run's event slot holds
  its latest undelivered target report; an earlier one that was not applied is
  dropped, which is one of the losses that best-effort reporting allows. Source
  Jobs appear only through their effect on the run.

### BackupRun

One admitted run, from its target Job to its end.

- State: the run's status (`run`: phase, target phase, last command, path,
  transfers), its cache `view`, the Jobs with their pods (`job`, `target`) and
  their cache `seen`, captures, the command log, reports on their way (`hub`),
  and on the volume which sources are `whole`, which the receiver has `counted`,
  and the time of the promoted snapshot (`final`).
- One action is one pass of `reconcileBackupJobJobStatus`, one action per way
  through it; its effects on Jobs, captures and the command log happen in any
  case, its status update is accepted, refused or lost (`StatusUpdate`).
  `mergeTransfer` is `mergeBackupJobTransferStatus`: a terminal transfer only
  gives way to Failed. Messages and exit codes are kept as the one thing later
  passes read from them (`note`).
- Captures: none, snapshot, snapshotReady, claimed, binding, bound, failed.
  `WaitForCapture` creates the next object, `CaptureProgresses` is the CSI
  driver, `CaptureFails` the ways to fail. Auto falls back to a direct copy.
  `createSourceJobs` goes through the sources twice: `Considered` is what its
  first loop records of the sources listed before the one that ends it
  (`before`), `Created` what the second adds when Jobs are created.
- The end of a target is three steps, `TargetPromotes`, `TargetReports` and
  `TargetCompletes`; its pod can die between any two of them. A source that is
  refused (`SourceRefused`) fails with or without the exit code of a full target.
- Times are seconds; a finalize command carries the recorded time or the clock.
  Whether a Job was created after the last acknowledgement, which the code
  decides by timestamps, is the field `late`.
- A manager crash loses log and reports; a serving target loses its stream and
  fails, with or without a report; one that has taken its finalize command goes on.
- Two situations in which a run does not end are part of the code and are named
  in `RunEnds`: `AckedUnrecorded` (the acknowledgement was applied before the
  command was recorded and the Completed report was lost: the record never gets
  a sentAt, and the run stays Finalizing), and `Relapsing` (the target failed
  after recovering space: the run fails, is resumed and fails again).
- `ApplyTargetEventToBackupJob` also knows a report "Finalizing", which no
  process sends; it is left out.

### CommandLog, CommandService

CommandLog is what the control service promises: a log without repetitions, that
every stream reads from its first entry, in order, until it is closed or the
manager restarts. CommandService is what the code does: the mutex covers log and
stream set only, `EnqueueTargetCommand` sends to the channels of the streams it
found, registered by then or not; a goroutine per stream forwards replay, then
channel, into `out`; the gRPC server moves it to the wire; the target takes it
and ends its wait at a finalize command. The worker sends to the streams in the
order of a slice, which `Turn` chooses one stream at a time (`enqueue.at`), and
blocks on the first whose channel is full. When the goroutine of that stream has
returned, nobody empties the channel any more and the worker blocks for good:
`Stuck`. The code has no defence but the size of its channels, so `EnqueueReturns`
and the liveness in `ImplementsCommandLog` name this exception, and the run, with
channels of one place, reaches it. `ImplementsCommandLog` is the refinement
`INSTANCE CommandLog`, liveness included. `log`, `reader` and `got` are the same
in both; the abstract log knows nothing of channels.

### EventHub, MCEventHub

`publish` numbers an event, appends it to the run's replay and finds the
subscribers under the mutex; `Deliver`, `FindFull` and `DropOldest` are the steps
of `deliverLatest` without it, so that publishers race with each other and with
the reader. `Subscribe` covers `SubscribeAfter` and `SubscribeAllAfter`, with any
Last-Event-ID. Readers may stall or leave. The ghost variable `dropped` records
what full channels lost. Events carry their reporter only.

### RestoreRun

One restore: `StartPass`, `CreateTarget`, `CreateWriter` and `SetPreparing` are
one pass of `Reconcile` for a new run, `ReconcileJobStatus` for a running one.
The run is worked on only when `queued`; what queues it is modelled watch by
watch (`SyncRun`, `SyncJobs` for the writer's Job only, `SyncMachine`) plus the
informers' resync. `points` are the machine's restore points as cached, a past
state of the volume. The two pods start in any order; the writer connects once,
and the target serves one connection, for the snapshot it was created with.
`copied` is what the writer has restored; `interrupted` says that a pass broke
off between the first Job and the status update.

A deleted run is cleaned up in steps: `ReconcileDeleting` lists the Jobs that the
cache shows (`listed`), `DeleteJob` deletes one after the other, `DeleteSecrets`
the secrets and the Service, which nothing tells apart here, and `RemoveFinalizer`
ends it. Only the writer's Job is owned by the run and collected with it, which is
part of `RemoveFinalizer`.

### Schedule

One machine's schedule, reconciled by its worker and by the
`RsyncMachineScheduler`, which calls the same `Reconcile` in its own goroutine for
each machine that its own List shows (`ListMachines`). `Reconcile` reads the
machine again, so a machine deleted in between is handled by the scheduler too.
A pass adds the finalizer (`AddFinalizer`), or brings the conditions up to date
(`shown`) and looks at the schedule: `ReportInvalid`, or `createScheduledBackupJob`
and `RecordScheduled`, or nothing. A schedule is the set of its times, empty for
"", or `Invalid`; `EditSchedule` changes it. `nextDueSchedule` picks the time that
follows the recorded one, or for the first run the last within the lookback, or the
last that a search of `Iterations` times reaches (10000 in the code). Names of runs
are minutes. `made` counts creations per time; `lost` are times whose run was
deleted before anyone could know the time was recorded. Runs are pruned or deleted
by others (`DeleteRun`; the pruning itself is in TargetGuard), the machine is
deleted run by run and then its finalizer removed (`DeleteScheduledRun`,
`RemoveFinalizer`), and orphans are collected by owner reference. Two things
`Reconcile` also does are left out, as the schedule does not depend on them:
clearing the restore points of a machine with the Mirror strategy (2541) and
deleting the CronJob of an earlier version.

### SnapshotStore, MCSnapshotStore

The target volume of a snapshot machine and the serve-target process that works
on it, run after run, and its transfers.

- `store` maps every restore point directory (level, name) to what it holds:
  the sources with a directory (`dirs`), those whose data is all there
  (`whole`), and the modification time that `removableSnapshots` sorts by.
  Levels are hourly, daily, weekly, monthly; `Bucket` gives the directory a run
  has at each level and is only assumed to be monotone in time.
- The receiver (`Accept`, `ReceiverReturns`) handles one connection at a time and
  counts a transfer when `proxyConns` returns without error; the sender's exit
  (`SenderExits`) is a separate event. The controller appears as the guards of
  `FinalizeCommand`, `RecoverSpace` and `Recovered`.
- `Promote`, `RemoveLatest`, `RenameLatest`, `Tier`, `LinkTree`, `Retain`,
  `RetainPrune` and `CleanupDanglingLatest` are the file operations of
  `FinalizeBackup` in order; `RemoveAll` and `LinkTree` advance by one source per
  step. `Exit` can happen between any two steps and leaves the volume as it is
  (`MaxStops` bounds how often a process does not complete). `FinalizeAgain`
  repeats the finalization of the last run, which the code is written for. The
  error of `finalizeHourly` when staging and hourly directory both exist cannot
  occur, as `Promote` says: each run has an hourly directory of its own.
- Assumption: one serve-target process at a time. The code does not enforce it
  (see Divergences).
- Times: a directory's time is the run that touched it last, and whether in its
  staging or its finalizing half; equal times are broken in either order.

### The proof modules

TargetGuardProofs, BackupRunProofs, RestoreRunProofs, ScheduleProofs,
CommandServiceProofs, EventHubProofs and SnapshotStoreProofs each extend the
module they are named after and hold its inductive invariant `IInv`, the lemmas
and the theorems; see Proofs.

## Runs

| Run | Instance | Shows |
|---|---|---|
| guard_forbid | 2 backups, Forbid, no fault, fair | `TypeOK`, `ForbidNeverPreempts`, `WaitingBackupSettles` |
| guard_replace | 2 backups, Replace, 1 fault | `OneActiveBackup` when a waiting run cancels the active one |
| guard_restore | 1 backup, 1 restore, 1 fault, fair | `WaitingRestoreSettles`, `WaitingBackupSettles`, `GuardLeavesTerminalRun` |
| backup_run | 1 VolumeSnapshot and 1 Auto source, 1 fault, fair | `TypeOK`, `FinalizedWhole`, `SucceededFinalized`, `CompletedRecorded`, `SucceededIsFinal`, `RunEnds` |
| commands | 3 commands, 2 streams, channels of 1, 1 restart, fair | `TypeOK`, `ImplementsCommandLog`, `EnqueueReturns` |
| events | 3 reporters, 2 runs, 3 events, 1 subscriber, channels and replay of 1, fair | `TypeOK`, `InOrderOnce`, `NothingSlipsThrough`, `PublishReturns`, `EventsArrive` |
| restore_run | 2 snapshots, request for `latest` or a missing one, 1 fault, fair | `TypeOK`, `SucceededCopied`, `RecordedIsCopied`, `RestoreEnds`, `DeletedRunStops` |
| schedule | schedules {1, 2, 4}, {1, 6}, {} and Invalid over 5 ticks, 2 ticks a minute, lookback 3, search of 2 times, 1 fault, fair | `TypeOK`, `OncePerTime`, `StepsThroughSchedule`, `CatchesUp`, `NoOrphans` |
| snapshots | 2 sources, 3 runs, 2 stops | `TypeOK`, `RetainedWhole`, `CompletedRestorable` |
| guard_resume | 2 backups, 1 recovery | violates `NeverTwoActive` |
| guard_overlap | 1 backup, 1 restore | violates `NoBackupDuringRestore` |
| snapshots_tiers | 2 sources, 2 runs, 1 stop | violates `TiersWhole` |

Bounds, and why they are enough.

- The proofs cover every value of the constants for all invariants and action
  properties of the passing runs, so the bounds below matter for the liveness
  properties and for the cheap falsification of what was then proved.
- Two backups are what a race over the guard needs.
- One fault at any point already produces each single lost report, refused
  update, crash or deletion in every state; the modules contain the lag of
  caches and the races of actors without faults.
- guard_restore has the mutual wait: the restore waits for a backup that may
  itself be held by the restore. guard_forbid has no restore and two backups.
- One VolumeSnapshot and one Auto source meet every branch of the capture code; a
  Direct source takes the path that an Auto source takes after its fallback, and
  the proofs cover any mix. Two finalize times are enough for a recorded time and
  a later clock.
- Channels of one place (64 in the code) are full after one command, with two more
  to come and a stream that may be new, slow, gone or waiting for its replay.
- Channels and replay of one place make the hub overflow at once, with three
  publishers racing for the place.
- A minute of two ticks lets two times fall into different minutes with a tick
  between. A lookback of three lets the first run of {1, 6} be missed by time 5, and
  a search of two times ends before the third time of {1, 2, 4}. The edit of a
  schedule is a fault, so that edits and crashes do not combine in the run; the
  safety proofs have no bound on faults.
- Three runs with one restore point kept per level make retention remove at two
  levels, let a day end while week and month go on, and let a later run meet
  what a stopped one left behind. SnapshotStore's sources are symmetric.

All runs end, because what is created is bounded, so deadlock is not checked.

### Findings

The three violation runs state what the documents say and are listed in
`PROJECT.json`, each with the quoted line:

- `resumeRecoveredBackupJob` sets a Failed run back to Running without the guard
  it has released, so two backups can be active;
- backup and restore admission check each other and act later;
- an incomplete tier directory is kept by later successful runs.

### Divergences

Met while modelling, visible in reachable states, not given a run of their own:

- `docs/operator-design.md:263-265` describes `.krm-run.lock`, but
  `AcquireTargetLock` has no caller: the pod of a failed run may serve the volume
  together with the next one's.
- `releaseTargetGuardsForRun` deletes a Lease by the name found in a cache; it
  may be one that another run has claimed.
- The receiver counts a broken transfer that ended in an orderly way, and may
  stop listening before the source is retried after RecoverSpace.
- A run that succeeded by its Jobs derives `status.snapshotPath` from the recorded
  time of the command; after a crash between enqueuing and recording this is not
  the path the target used until its report is applied.
- A writer's Running report before the Preparing update makes that update fail
  for good: `status.restoredSnapshot`, "Resolved immutable restore point used by
  the restore" (`docs/crd-reference.md:172`), is then never resolved.
- `unregisterTarget` leaves the channel of a stream as it is: a worker that is
  sending to a full one when the stream goes away blocks for good (`Stuck`).
- `docs/operator-design.md:116` says missed runs are computed "within a bounded
  lookback"; with lastScheduledAt set, `nextDueSchedule` goes through all of them.
  The lookback bounds the first run only (`PastLookback`).
- A cron expression without further times makes `Next` return the zero time, which
  is due at once. Such an expression (30 February) is not modelled: the last of a
  schedule's times here only means that the next is beyond `MaxTime`.
- `ControlEventApplier.Start` returns the error of an update refused five times,
  which stops the manager; the models let the applier retry.

### Fairness

- TargetGuard: informers deliver and a worker that has started a reconcile
  finishes it (weak). A run is reconciled again whenever a branch applies to it
  infinitely often (strong): errors and conflicts are requeued with backoff, held
  runs every 30 seconds, active ones every 5, and Job, machine and run changes
  enqueue it. The strong form also covers the listing of Jobs, which comes in
  random order, so that a failed target Job is eventually met before a source
  Job that is still being recovered. A machine that is not ready becomes ready.
- BackupRun: the pass is repeated every five seconds until the run is terminal;
  the listing of Jobs, in random order, meets a failed target before the failed
  sources in the end (strong fairness of `ReconcileFailedTarget`);
  informers, applier, pods and CSI driver keep going; every Job has
  `activeDeadlineSeconds` (`TargetDies`). Reports may all be lost.
- CommandService, EventHub: the Go scheduler runs every goroutine that can go on,
  gRPC delivers while a connection holds, a reader that has not stalled reads.
  Nobody has to enqueue, report, subscribe or leave.
- RestoreRun: the worker serves its queue, informers catch up and resync, what
  holds the restore ends, deadlines expire, the applier applies. The pods owe
  nothing, so a restore ends even if they hang.
- Schedule: the scheduler scans every minute and the worker's queue repeats failed
  passes (weak fairness of each one's `Pass`); the cache catches up and Kubernetes collects orphans. The clock owes
  nothing: `CatchesUp` is about times that have passed.

## Proofs

Every invariant and every action property of the passing runs is a theorem, and
so is the safety part of the refinement of CommandLog. The theorems hold for
every value of the constants that satisfies the named `ASSUME`s of the module;
bounds such as `MaxFaults`, `MaxRuns` or `MaxEvents` are any natural number there.
Each proof has the same shape: an invariant `IInv` that holds initially, that
every action preserves (a lemma per action or group of actions), and that implies
the property. Each `IInv` has first been checked by TLC on the instance of its run.

### TargetGuardProofs

For any finite or infinite set of backups and restores and both policies
(`RunsAssumption`, `PolicyAssumption`, `FaultsAssumption`): `TypeCorrect`,
`AtMostOneActive` (`OneActiveBackup`), `NoPreemption` (`ForbidNeverPreempts`).

`OneActiveBackup` is not inductive. A run turns active several calls after its
checks, the checks read a cache, and a pod's Ready report can make a run active
without the worker. `IInv` adds:

- `CacheExact`, `CacheBehind`: what is not stale is cached exactly, and the cache
  never shows a run further ahead than the API server has it;
- `CopyWaits`: while the worker holds a current copy of a run that it admits or
  cancels, that run still waits, so that a stale decision is refused by a conflict;
- `PodsKnown`: a pod exists only for a run the worker has seen;
- `OneCommitted`: at most one run is *committed*, that is active, or new and with
  a pod that may report Ready;
- `Admission`: what the worker has established at each step of an admission,
  e.g. that past `CheckReadyAndActive` no other run is committed.

The last two hold until a Failed run is resumed (`resumed`), which is what the
finding above is about. `NoPreemption` rests on `CacheExact`: the runs that
coalescing cancels are waiting in a copy that must be current to be written.

### BackupRunProofs

For any sources, capture modes and clock: `TypeCorrect`, `PromotedIsWhole`
(`FinalizedWhole`), `SuccessMeansFinalized` (`SucceededFinalized`),
`CompletedIsRecorded` (`CompletedRecorded`), `SuccessIsFinal`
(`SucceededIsFinal`). The assumption on names only keeps sources apart from the
two command ids that are not sources.

`IInv` follows one chain of evidence from a source's data to the run's phase. A
source Job that is complete stays complete, because the worker deletes only Jobs
its cache shows as failed and creates only Jobs that do not exist (`SeenJobs`);
its data is whole (`CompleteWhole`). So a finalize command, sent when all Jobs are
complete in the cache, finds all data on the volume (`FinalizeAfterAll`) and
carries a time (`Stamped`). Only a target that promoted is complete (`Promoted`),
only it reports Completed, and reports that could undo its success are none of its
(`Reported`); this is why a Succeeded run is not brought back.

### RestoreRunProofs

For any finite volume and any requests: `TypeCorrect`, `SuccessMeansCopied`
(`SucceededCopied`), `RecordedWasCopied` (`RecordedIsCopied`).

Success has two witnesses, the Jobs in the cache and the writer's report;
`Witnesses` follows the copied snapshot to both, and needs that a target which
served has its writer Job beside it until the run is deleted (`WriterKept`).
`RecordedIsCopied` is about the snapshot that each pass resolves anew: unless a
pass broke off, all Jobs are for one snapshot (`Agreement` and its forms between
and within passes), and a pass that finds Jobs cannot have its status update
accepted (`FreshWaits`).

### ScheduleProofs

For any set of schedules, edited at any time, any lookback, any bound on the search
and any length of a minute: `TypeCorrect`, `OneRunPerTime` (`OncePerTime`),
`NoTimeSkipped` (`StepsThroughSchedule`). `NamesAssumption` says that no two times
fall into the same minute. A cron expression guarantees it; `@every 30s` does not,
and then two times share a name (see the hazards).

`IInv` says how far the cache may lag (`CacheBehind`), that a copy which would
still be accepted holds the time following the recorded one (`FreshIsNext`), that
what is held is due (`HoldsDue`), that runs and recorded times were created
(`RunsMade`), and that a time whose run is gone is held by nobody and will not be
found due again (`NotDueAgain`).

### CommandServiceProofs

For any commands, streams, channel capacity and number of restarts: `TypeCorrect`,
and `ServiceRefinesLog`, `Spec => Log!Spec`: every step of the service, seen through
`log`, `reader` and `got`, is a step of CommandLog or a stutter.

The step that could fail is a target's: it must take the next command of the log.
`InFlight` says that for every open stream what its target took, then what is on
the wire, in `out`, with the goroutine and in the channel, then what the worker
has still to send to it, is the log, in this order.

### EventHubProofs

For any runs, reporters and subscribers, finite or not, any replay limit and any
positive channel capacity: `TypeCorrect`, `OnceAndInOrder` (`InOrderOnce`),
`NothingIsLost` (`NothingSlipsThrough`).

The events of a subscription are in four sequences; `Streams` orders the events
within and between them. `Pending` and `Unserved` tie the publishers in
`deliverLatest` to it: each holds the latest event of its reporter, has each
remaining subscriber once, and none of these has the event. `ReplayKept` says that
the replay of a run holds exactly the events with fewer than `ReplayLimit` later
ones, which is what a new subscription is owed of the past; `Members` that a
subscription is registered as long as it is read.

### SnapshotStoreProofs

For any finite set of sources, any positive retention counts and any calendar that
is monotone in time: `TypeCorrect`, `RetainedAreWhole` (`RetainedWhole`),
`CompletedIsRestorable` (`CompletedRestorable`).

- `Sent`: what a source Job sent successfully is in the run's partial directory
  until that is promoted, however transfers were counted; during finalization all
  were sent and the receiver accepts nothing. So promotion is of whole data
  (`LastWhole`).
- `Newest`: no restore point has a later name than the last run's at its level.
  So a directory that is the first of more than `Keep` cannot be the run's own,
  and retention never removes what the run has just made.
- `Victims`, `Progress`: what `RemoveAll` works on, and what finalization has done
  so far, wherever it was interrupted and repeated.

`RetainedWhole` counts: a directory that retention takes apart has at least
`Keep` later ones, and later steps only add directories, remove the first name of
a level or record what they remove, so that the count never falls again
(`FirstIsOld`, `AboveGrows`).

### What the proofs changed in the models

- The two cases of `Applied` in BackupRun overlapped for an acknowledgement of a
  RecoverSpace command; TLC takes the first, the semantics of CASE leaves it open.
  The second now excludes acknowledgements.
- `EventHub!Sorted` chose a function by CHOOSE; it is now the set of increasing
  sequences, and `Subscribe` takes one of them. `Subscribe`, `Deliver` and
  `SnapshotStore!Tier` write their records out. The behaviours are the same.

### Model-checked only

The liveness properties under fairness (`WaitingBackupSettles`,
`WaitingRestoreSettles`, `GuardLeavesTerminalRun`, `RunEnds`, `EnqueueReturns`,
`PublishReturns`, `EventsArrive`, `RestoreEnds`, `DeletedRunStops`, `CatchesUp`,
`NoOrphans`) and the fairness part of `ImplementsCommandLog` are out of the
prover's reach: it has no rules for ENABLED. The three violations are TLC's
counterexamples.

## Not modelled

The Mirror strategy (whose finalization changes nothing on the volume); path
normalisation; the content of generated objects, of credentials and of
certificates (the control CA is persisted, so credentials made by different
passes agree); peer identities; by which times history limits choose runs;
the filters and lists of the live API; the BackupSource controller, which writes
conditions nobody else reads; metrics and frontend. `AcquireTargetLock` and
`CleanupStalePartials` have no caller in the program. Leader election is assumed
to leave one manager.

## Plan

1. Prove what is true of the findings where they do no harm: that no backup is
   admitted during a restore while neither controller acts on an old check, and
   that the tiers of a run whose predecessors completed are whole.
2. Relate BackupRun and SnapshotStore at the finalize command: the guard of
   `FinalizeCommand` from the invariant of BackupRun.
3. Prove that a CommandLog reader never repeats a command, as a theorem of the
   abstract specification that the service inherits.
