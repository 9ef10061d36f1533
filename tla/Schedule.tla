------------------------------ MODULE Schedule ------------------------------
(***************************************************************************)
(* The schedule of one RsyncMachine.  The machine's worker and the         *)
(* RsyncMachineScheduler both call Reconcile, with nothing between them    *)
(* but the resourceVersion of the status: each reads the machine from the  *)
(* informer cache, creates the BackupJob that is due under a name made     *)
(* from its time, and then records status.lastScheduledAt.  Meanwhile      *)
(* runs are pruned or deleted, the schedule is edited, the machine may be  *)
(* deleted, the clock moves on and the manager crashes.                    *)
(*                                                                         *)
(* Time counts from 1, when the machine is created; 0 is "no time".  What  *)
(* becomes of a run is in TargetGuard and BackupRun.                       *)
(***************************************************************************)
EXTENDS Naturals, FiniteSets

CONSTANTS
    Schedules,    \* values of spec.schedule: the times of a schedule, or Invalid
    Invalid,      \* a schedule that cannot be parsed
    MaxTime,      \* bound on the clock
    Minute,       \* names of runs tell minutes apart
    Lookback,     \* scheduleLookback
    Iterations,   \* bound on the search for the first run, 10000 in the code
    MaxFaults     \* bound on crashes, API errors, deleted runs, edits, writes by others

\* The times of a schedule; none for "" and for one that cannot be parsed.
Times(schedule) == IF schedule = Invalid THEN {} ELSE schedule

Due == UNION {Times(schedule) : schedule \in Schedules}

ASSUME TimeAssumption ==
    /\ MaxTime \in Nat \ {0} /\ Lookback \in Nat /\ Minute \in Nat \ {0}
    /\ Iterations \in Nat \ {0} /\ Due \subseteq Nat \ {0}
ASSUME NamesAssumption == \A t, u \in Due : t \div Minute = u \div Minute => t = u
ASSUME FaultsAssumption == MaxFaults \in Nat

VARIABLES
    now,
    machine,      \* the RsyncMachine in the API server
    view,         \* ... as cached
    stale,        \* the cache has not caught up with the last write
    usable,       \* claim and sources of the machine are as they should be
    runs,         \* names of the scheduled BackupJobs that exist
    rec,          \* the two reconcilers
    made,         \* how many runs were created for a time
    lost,         \* times whose run was deleted before its time was known to be recorded
    faults

vars == <<now, machine, view, stale, usable, runs, rec, made, lost, faults>>

object == <<machine, view, stale>>

Reconcilers == {"worker", "scheduler"}

\* status "new": without the finalizer.  shown: the conditions Valid and Ready.
Machine    == [last : Due \cup {0}, schedule : Schedules,
               shown : {"none", "ready", "notReady", "badSchedule"},
               status : {"new", "live", "deleting", "gone"}]
Reconciler == [pc : {"idle", "listed", "invalid", "create", "record", "purge"},
               at : Due \cup {0}, fresh : BOOLEAN]
Idle       == [pc |-> "idle", at |-> 0, fresh |-> FALSE]

Init ==
    /\ now = 1
    /\ \E schedule \in Schedules :
          machine = [last |-> 0, schedule |-> schedule, shown |-> "none", status |-> "new"]
    /\ view = machine /\ stale = FALSE
    /\ usable = TRUE
    /\ runs = {}
    /\ rec = [r \in Reconcilers |-> Idle]
    /\ made = [t \in Due |-> 0]
    /\ lost = {}
    /\ faults = 0

Fault == faults < MaxFaults /\ faults' = faults + 1

-----------------------------------------------------------------------------
(* API server, caches and users                                            *)

Tick ==
    /\ now < MaxTime
    /\ now' = now + 1
    /\ UNCHANGED <<object, usable, runs, rec, made, lost, faults>>

\* rec once the machine has been written: every copy but that of r is outdated.
Outdated(r) == [q \in Reconcilers |-> [rec[q] EXCEPT !.fresh = @ /\ q = r]]

Write(m) == machine' = m /\ stale' = TRUE /\ UNCHANGED view

SyncMachine ==
    /\ stale
    /\ view' = machine /\ stale' = FALSE
    /\ UNCHANGED <<now, machine, usable, runs, rec, made, lost, faults>>

\* Another writer of the status, the ControlEventApplier.
OtherWrite ==
    /\ Fault
    /\ machine.status # "gone"
    /\ Write(machine)
    /\ rec' = Outdated("nobody")
    /\ UNCHANGED <<now, usable, runs, made, lost>>

\* The claim or the sources come or go.
ChangeReferences ==
    /\ Fault
    /\ usable' = ~usable
    /\ UNCHANGED <<now, object, runs, rec, made, lost>>

EditSchedule ==
    /\ Fault
    /\ machine.status # "gone"
    /\ \E schedule \in Schedules \ {machine.schedule} :
          Write([machine EXCEPT !.schedule = schedule])
    /\ rec' = Outdated("nobody")
    /\ UNCHANGED <<now, usable, runs, made, lost>>

DeleteMachine ==
    /\ machine.status \in {"new", "live"}
    /\ Write([machine EXCEPT !.status = IF @ = "new" THEN "gone" ELSE "deleting"])
    /\ rec' = Outdated("nobody")
    /\ UNCHANGED <<now, usable, runs, made, lost, faults>>

\* The manager restarts, perhaps much later.
Crash ==
    /\ Fault
    /\ view' = machine /\ stale' = FALSE
    /\ rec' = [r \in Reconcilers |-> Idle]
    /\ UNCHANGED <<now, machine, usable, runs, made, lost>>

\* Mutant: names tell seconds apart.
NameBySecond(at) == at

\* Mutant: runs are named after the minute they are created in.
NameByClock(at) == now \div Minute

\* GeneratedScheduledBackupJobName
GeneratedScheduledBackupJobName(at) == at \div Minute

\* The runs with the given names are deleted.
DeleteRuns(names) ==
    /\ runs' = runs \ names
    /\ lost' = lost \cup {t \in Due :
                             /\ GeneratedScheduledBackupJobName(t) \in names
                             /\ t > view.last \/ \E r \in Reconcilers : rec[r].at = t}

\* A run is pruned from the history by the BackupJob controller, or deleted by a user.
DeleteRun(n) ==
    /\ Fault
    /\ DeleteRuns({n})
    /\ UNCHANGED <<now, object, usable, rec, made>>

\* Mutant: scheduled runs have no owner reference.
NoneOwned == {}

\* Runs that name the machine as their owner: all that the schedule creates.
Owned == runs

\* Kubernetes removes the runs of an owner that is gone.
CollectOrphans ==
    /\ machine.status = "gone"
    /\ Owned # {}
    /\ DeleteRuns(Owned)
    /\ UNCHANGED <<now, object, usable, rec, made, faults>>

-----------------------------------------------------------------------------
(* RsyncMachineReconciler                                                  *)

\* nextDueSchedule: after a recorded time the one that follows it, however long ago;
\* for the first run the last one of the lookback, or the last that the bounded search
\* reaches.  The machine was created at 1.
nextDueSchedule(times, last) ==
    IF last # 0
    THEN {t \in times : last < t /\ t <= now /\ \A u \in times : last < u => t <= u}
    ELSE LET window == {t \in times : now <= t + Lookback /\ t <= now}
             rank(t) == Cardinality({u \in window : u <= t})
         IN  {t \in window : \/ rank(t) = Iterations
                             \/ rank(t) < Iterations /\ \A u \in window : u <= t}

\* Mutant: a machine that is not ready has no scheduled runs.
DueWhenReady == IF usable THEN nextDueSchedule(Times(view.schedule), view.last) ELSE {}

\* The time that is due by what the cache shows, whether the machine is ready or not.
DueNow == nextDueSchedule(Times(view.schedule), view.last)

\* RsyncMachineScheduler.run: machines in the cache with a schedule that are not being
\* deleted.  Reconcile then reads the machine again.
ListMachines ==
    /\ rec["scheduler"].pc = "idle"
    /\ view.status \in {"new", "live"} /\ view.schedule # {}
    /\ rec' = [rec EXCEPT !["scheduler"].pc = "listed"]
    /\ UNCHANGED <<now, object, usable, runs, made, lost, faults>>

\* r is about to read the machine.
Starts(r) == rec[r].pc = IF r = "scheduler" THEN "listed" ELSE "idle"

ReconcileGone(r) ==
    /\ Starts(r) /\ view.status = "gone"
    /\ rec' = [rec EXCEPT ![r] = Idle]
    /\ UNCHANGED <<now, object, usable, runs, made, lost, faults>>

\* The update is refused when the cache is behind; the pass is over in any case.
AddFinalizer(r) ==
    /\ Starts(r) /\ view.status = "new"
    /\ IF stale THEN UNCHANGED object ELSE Write([machine EXCEPT !.status = "live"])
    /\ rec' = [(IF stale THEN rec ELSE Outdated("nobody")) EXCEPT ![r] = Idle]
    /\ UNCHANGED <<now, usable, runs, made, lost, faults>>

Shown == IF usable THEN "ready" ELSE "notReady"

\* The schedule is looked at: the reconciler has a time that is due, or a schedule to
\* report as invalid, or is done.
Scheduled(fresh) ==
    IF view.schedule = Invalid THEN [pc |-> "invalid", at |-> 0, fresh |-> fresh]
    ELSE IF DueNow = {} THEN Idle
    ELSE [pc |-> "create", at |-> CHOOSE t \in DueNow : TRUE, fresh |-> fresh]

\* Reconcile up to the schedule.  The conditions are brought up to date first; a conflict
\* ends the pass, a machine that is gone does not.
Reconcile(r) ==
    /\ Starts(r) /\ view.status = "live"
    /\ \/ /\ view.shown = Shown
          /\ rec' = [rec EXCEPT ![r] = Scheduled(~stale)]
          /\ UNCHANGED object
       \/ /\ view.shown # Shown /\ ~stale
          /\ Write([machine EXCEPT !.shown = Shown])
          /\ rec' = [Outdated("nobody") EXCEPT ![r] = Scheduled(TRUE)]
       \/ /\ view.shown # Shown /\ stale
          /\ rec' = [rec EXCEPT ![r] = IF machine.status = "gone" THEN Scheduled(FALSE)
                                       ELSE Idle]
          /\ UNCHANGED object
    /\ UNCHANGED <<now, usable, runs, made, lost, faults>>

\* createScheduledBackupJob: a run that exists is taken for the one wanted.  The API
\* server may refuse the create, which ends the pass.
createScheduledBackupJob(r) ==
    /\ rec[r].pc = "create"
    /\ LET name == GeneratedScheduledBackupJobName(rec[r].at)
       IN  \/ /\ runs' = runs \cup {name}
              /\ made' = IF name \in runs THEN made
                         ELSE [made EXCEPT ![rec[r].at] = @ + 1]
              /\ rec' = [rec EXCEPT ![r].pc = "record"]
              /\ UNCHANGED faults
           \/ /\ Fault
              /\ rec' = [rec EXCEPT ![r] = Idle]
              /\ UNCHANGED <<runs, made>>
    /\ UNCHANGED <<now, object, usable, lost>>

\* Mutant: the time is patched without a resourceVersion.
PatchAccepted(r) == machine.status # "gone"

\* The API server accepts an update of the copy that r holds.
Accepted(r) == rec[r].fresh /\ machine.status # "gone"

\* Status().Update of lastScheduledAt; refused for an outdated copy, ignored when the
\* machine is gone.
RecordScheduled(r) ==
    /\ rec[r].pc = "record"
    /\ \/ /\ Accepted(r)
          /\ Write([machine EXCEPT !.last = rec[r].at])
          /\ rec' = [Outdated("nobody") EXCEPT ![r] = Idle]
          /\ UNCHANGED faults
       \/ /\ \/ ~Accepted(r) /\ UNCHANGED faults
             \/ Fault
          /\ rec' = [rec EXCEPT ![r] = Idle]
          /\ UNCHANGED object
    /\ UNCHANGED <<now, usable, runs, made, lost>>

\* The condition of a schedule that cannot be parsed: the pass has just reset it.
ReportInvalid(r) ==
    /\ rec[r].pc = "invalid"
    /\ IF Accepted(r)
       THEN /\ Write([machine EXCEPT !.shown = "badSchedule"])
            /\ rec' = [Outdated("nobody") EXCEPT ![r] = Idle]
       ELSE UNCHANGED object /\ rec' = [rec EXCEPT ![r] = Idle]
    /\ UNCHANGED <<now, usable, runs, made, lost, faults>>

ReconcileDeleting(r) ==
    /\ Starts(r) /\ view.status = "deleting"
    /\ rec' = [rec EXCEPT ![r] = [pc |-> "purge", at |-> 0, fresh |-> ~stale]]
    /\ UNCHANGED <<now, object, usable, runs, made, lost, faults>>

\* deleteScheduledBackupJobsForMachine: one of the runs that the cache lists, perhaps not
\* all that exist.
DeleteScheduledRun(r, n) ==
    /\ rec[r].pc = "purge"
    /\ DeleteRuns({n})
    /\ UNCHANGED <<now, object, usable, rec, made, faults>>

\* The finalizer is removed and the machine is gone.  A call that failed, this one or the
\* deletion of a run, ends the pass.
RemoveFinalizer(r) ==
    /\ rec[r].pc = "purge"
    /\ \/ /\ Accepted(r)
          /\ Write([machine EXCEPT !.status = "gone"])
          /\ rec' = [Outdated("nobody") EXCEPT ![r] = Idle]
          /\ UNCHANGED faults
       \/ /\ \/ ~Accepted(r) /\ UNCHANGED faults
             \/ Fault
          /\ rec' = [rec EXCEPT ![r] = Idle]
          /\ UNCHANGED object
    /\ UNCHANGED <<now, usable, runs, made, lost>>

-----------------------------------------------------------------------------
Pass(r) == \/ r = "scheduler" /\ ListMachines
           \/ ReconcileGone(r) \/ AddFinalizer(r) \/ Reconcile(r) \/ ReportInvalid(r)
           \/ createScheduledBackupJob(r) \/ RecordScheduled(r)
           \/ ReconcileDeleting(r) \/ RemoveFinalizer(r)
           \/ \E n \in runs : DeleteScheduledRun(r, n)

Next == \/ \E r \in Reconcilers : Pass(r)
        \/ \E n \in runs : DeleteRun(n)
        \/ CollectOrphans
        \/ Tick \/ SyncMachine \/ OtherWrite \/ ChangeReferences
        \/ EditSchedule \/ DeleteMachine \/ Crash

\* The scheduler scans every minute and the worker's queue repeats a pass that failed;
\* caches catch up and orphans are collected.
Fairness == /\ \A r \in Reconcilers : WF_vars(Pass(r))
            /\ WF_vars(SyncMachine) /\ WF_vars(CollectOrphans)

Spec == Init /\ [][Next]_vars
FairSpec == Spec /\ Fairness

-----------------------------------------------------------------------------
(* Properties                                                              *)

\* Type invariant; every run bears the name of a time of the schedule.
TypeOK ==
    /\ now \in 1..MaxTime
    /\ machine \in Machine /\ view \in Machine
    /\ runs \subseteq {t \div Minute : t \in Due}
    /\ rec \in [Reconcilers -> Reconciler]
    /\ {stale, usable} \subseteq BOOLEAN
    /\ made \in [Due -> Nat] /\ lost \subseteq Due
    /\ faults \in 0..MaxFaults

\* A time of the schedule gets one run, although two reconcilers may both find it due
\* in caches that lag behind and a crash may come before it is recorded.  Only a run
\* deleted before its time was recorded, and seen to be, can be created again.
OncePerTime == \A t \in Due : made[t] > 1 => t \in lost

\* Once a first time is recorded, lastScheduledAt goes through the schedule one time after
\* the other, each with a run created for it, although either reconciler may still hold
\* a time of an earlier pass or schedule and the manager may have been away for long.
StepsThroughSchedule ==
    [][machine'.last # machine.last =>
          /\ made[machine'.last] > 0
          /\ machine.last < machine'.last
          /\ machine.last # 0 =>
                ~\E t \in Times(machine.schedule) :
                    machine.last < t /\ t < machine'.last]_vars

\* No time was ever recorded, and those that have passed are too long ago for a first run.
PastLookback ==
    /\ machine.last = 0
    /\ \A t \in Times(machine.schedule) : t <= now => t + Lookback < now

\* A time of the schedule that has passed is recorded in the end, or a later one, whether
\* the machine is ready or not, when it was edited and when the manager was away; only
\* the first run is given up when the lookback has passed.
CatchesUp ==
    \A t \in Due :
        t \in Times(machine.schedule) /\ t <= now ~>
            \/ machine.last >= t \/ PastLookback
            \/ machine.status \in {"deleting", "gone"} \/ t \notin Times(machine.schedule)

\* No scheduled run stays when the machine is gone, although its deletion lists runs from
\* a cache and a pass begun before may create one afterwards.
NoOrphans == machine.status = "gone" ~> runs = {}
=============================================================================
