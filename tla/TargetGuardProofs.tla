-------------------------- MODULE TargetGuardProofs --------------------------
(***************************************************************************)
(* At most one active backup per machine, for any number of runs.          *)
(*                                                                         *)
(* OneActiveBackup is not inductive: a run becomes active several API      *)
(* calls after its checks, and the checks read a cache.  The inductive     *)
(* invariant says what the cache can hide (CacheBehind: it never shows     *)
(* more progress than the API server), that a run with a pod counts as     *)
(* soon as its phase can turn active without the worker (Committed), and   *)
(* what the worker has established at each step (Admission).               *)
(***************************************************************************)
EXTENDS TargetGuard, TLAPS

Over    == Terminal \cup {"gone"}
Started == Phases \ {"absent", "Created"}

\* The run is active, or an early Ready event may make it so.
Committed(b) ==
    \/ api[b].phase = "Active"
    \/ api[b].phase = "New" /\ job[b] # "none"

AdmissionPcs == {"coalesce", "merge", "active", "replaceActive", "restore", "guard",
                 "replaceHolder", "claim", "target", "prepare"}

\* What is not stale is cached as it is.
CacheExact == \A b \in Backups \ stale : cache[b] = api[b]

\* A current copy of an admitted run, or of a duplicate of it, still waits.
CopyWaits ==
    /\ pc \in AdmissionPcs \cup {"fail"} =>
          /\ run \in fresh => api[run].phase \in {"New", "Pending"}
          /\ cache[run].phase \in Started
    /\ pc = "merge" => \A d \in victims : d # run /\ (d \in fresh => api[d].phase \in Waiting)

\* The cache shows an earlier stage of each run.
CacheBehind ==
    \A b \in Backups :
        /\ cache[b].phase \in Started => api[b].phase \in Started
        /\ cache[b].phase \in Over \cup {"Active"} =>
              api[b].phase \in Over \cup {"Active"}
        /\ ~resumed /\ cache[b].phase \in Over => api[b].phase \in Over

\* A pod exists only for a run the cache has shown; Ready comes from a pod.
PodsKnown ==
    /\ \A b \in Backups : job[b] # "none" => cache[b].phase \in Started
    /\ \A b \in Backups : event[b] = "Ready" => job[b] # "none"
    /\ pc = "prepare" => job[run] # "none"
    /\ ~resumed => \A b \in Backups : api[b].phase = "Active" => job[b] # "none"

OneCommitted ==
    ~resumed =>
        /\ \A a, b \in Backups : Committed(a) /\ Committed(b) => a = b
        /\ \A a, b \in Backups :
              cache[a].phase = "Active" /\ cache[b].phase = "Active" => a = b

\* What the worker knows while its run still waits.
Admission ==
    ~resumed /\ pc \in AdmissionPcs /\ api[run].phase \in {"New", "Pending"} =>
        \A a \in Backups \ {run} :
            Committed(a) =>
                \/ pc = "coalesce"
                \/ pc = "merge" /\ a \in victims
                \/ /\ pc \in {"merge", "active"}
                   /\ api[a].phase = "Active" /\ cache[a].phase = "Active"

IInv == /\ TypeOK /\ CacheExact /\ CopyWaits /\ CacheBehind /\ PodsKnown
        /\ OneCommitted /\ Admission

-----------------------------------------------------------------------------
(* Type correctness                                                        *)

\* A BackupJob with one field changed is a BackupJob.
LEMMA FieldType ==
    ASSUME NEW object \in BackupJob
    PROVE  /\ \A phase \in Phases : [object EXCEPT !.phase = phase] \in BackupJob
           /\ [object EXCEPT !.deleting = TRUE] \in BackupJob
           /\ [object EXCEPT !.retrying = TRUE] \in BackupJob
           /\ [object EXCEPT !.retrying = FALSE] \in BackupJob
           /\ [object EXCEPT !.retrying = object.retrying] \in BackupJob
BY DEF BackupJob

\* The phases that are written are phases, what is reported included.
LEMMA PhasesType ==
    /\ {"Created", "New", "Pending", "Active", "Succeeded", "Failed",
        "Canceled", "gone"} \subseteq Phases
    /\ \A phase \in Phases, reported \in {"Ready", "Completed", "Failed"} :
          Reported(phase, reported) \in Phases
BY DEF Phases, Missing, Waiting, Terminal, Reported

\* One object is replaced: Write, UpdateRun, DoneOrConflict.
LEMMA ReplaceType ==
    ASSUME RunsType, NEW b \in Backups, NEW object \in BackupJob,
           \/ api' = [api EXCEPT ![b] = object] /\ stale' = stale \cup {b}
           \/ UNCHANGED objects,
           UNCHANGED cache
    PROVE  RunsType'
BY DEF RunsType, objects

\* The phase of one object is updated.
LEMMA UpdateType ==
    ASSUME RunsType, NEW b \in Backups, NEW phase \in Phases,
           \/ api' = [api EXCEPT ![b].phase = phase] /\ stale' = stale \cup {b}
           \/ UNCHANGED objects,
           UNCHANGED cache
    PROVE  RunsType'
BY DEF RunsType, BackupJob, objects

\* The worker at rest.
LEMMA ReturnType == Return => WorkerType'
<1>1. Return => pc' \in Pcs /\ (IF pc' = "idle" THEN run' = NoRun ELSE run' \in Backups)
    BY DEF Return, Pcs
<1>2. Return => fresh' \subseteq Backups /\ victims' \subseteq Backups /\ leaseFresh' \in BOOLEAN
    BY DEF Return
<1>3. Return => attempt' \in 0 .. (GuardAttempts - 1)
    BY DEF Return, GuardAttempts
<1> QED
    BY <1>1, <1>2, <1>3 DEF WorkerType

\* The worker moves on with its run.
LEMMA GotoType ==
    ASSUME WorkerType, pc # "idle", NEW step \in Pcs \ {"idle"}, Goto(step)
    PROVE  WorkerType'
<1>1. pc' \in Pcs /\ pc' # "idle" /\ run' \in Backups
    BY DEF WorkerType, Goto
<1>2. fresh' \subseteq Backups /\ victims' \subseteq Backups /\ leaseFresh' \in BOOLEAN
    BY DEF WorkerType, Goto
<1>3. attempt' \in 0 .. (GuardAttempts - 1)
    BY DEF Goto, GuardAttempts
<1> QED
    BY <1>1, <1>2, <1>3 DEF WorkerType

\* ... or with other runs to deal with.
LEMMA ProceedType ==
    ASSUME WorkerType, pc # "idle", NEW step \in Pcs \ {"idle"},
           NEW runs \in SUBSET Backups, NEW current \in BOOLEAN,
           Proceed(step, runs, current), fresh' \subseteq Backups
    PROVE  WorkerType'
BY DEF WorkerType, Proceed

\* ... or tries again to acquire the guard.
LEMMA TryAgainType ==
    ASSUME WorkerType, pc # "idle", attempt + 1 # GuardAttempts, TryAgain
    PROVE  WorkerType'
<1>1. pc' \in Pcs /\ pc' # "idle" /\ run' \in Backups
    BY DEF WorkerType, TryAgain, Pcs
<1>2. fresh' \subseteq Backups /\ victims' \subseteq Backups /\ leaseFresh' \in BOOLEAN
    BY DEF WorkerType, TryAgain
<1>3. attempt' \in 0 .. (GuardAttempts - 1)
    BY DEF WorkerType, TryAgain, GuardAttempts
<1> QED
    BY <1>1, <1>2, <1>3 DEF WorkerType

\* The worker takes up a run.
LEMMA EnterType ==
    ASSUME WorkerType, NEW b \in Backups, NEW step \in Pcs \ {"idle"}, Enter(b, step),
           fresh' \subseteq Backups
    PROVE  WorkerType'
BY DEF WorkerType, Enter, GuardAttempts, plan

\* The worker writes its run and is done.
LEMMA FinishType ==
    ASSUME RunsType, WorkerType, pc # "idle", NEW phase \in Phases,
           FinishAs(phase), UNCHANGED cache
    PROVE  RunsType' /\ WorkerType'
<1>1. run \in Backups
    BY DEF WorkerType
<1>2. RunsType'
    BY <1>1, UpdateType DEF FinishAs, UpdateRun
<1> QED
    BY <1>2, ReturnType DEF FinishAs

\* What the status update of a replacement does to the objects and the worker.
LEMMA CancelEffect ==
    ASSUME RunsType, NEW b \in Backups, NEW step \in Pcs \ {"idle"},
           CancelForReplacement(b, step)
    PROVE  /\ \A a \in Backups \ {b} : api'[a] = api[a]
           /\ \/ UNCHANGED objects
              \/ /\ api'[b].phase = "Canceled" /\ stale' = stale \cup {b}
                 /\ api' = [api EXCEPT ![b].phase = "Canceled"]
           /\ \/ Goto("fail")
              \/ /\ Proceed(step, {b}, ~leaseStale) /\ UNCHANGED fresh
                 /\ api'[b].phase \in {"Canceled"} \cup Missing
<1>1. \/ UNCHANGED objects
      \/ api' = [api EXCEPT ![b].phase = "Canceled"] /\ stale' = stale \cup {b}
    BY DEF CancelForReplacement
<1>2. \/ Goto("fail")
      \/ /\ Proceed(step, {b}, ~leaseStale) /\ UNCHANGED fresh
         /\ \/ api[b].phase \in Missing /\ UNCHANGED objects
            \/ api' = [api EXCEPT ![b].phase = "Canceled"]
    BY DEF CancelForReplacement
<1> QED
    BY <1>1, <1>2 DEF RunsType, BackupJob, objects

LEMMA CancelType ==
    ASSUME RunsType, WorkerType, pc # "idle", NEW b \in Backups, NEW step \in Pcs \ {"idle"},
           CancelForReplacement(b, step), UNCHANGED cache
    PROVE  RunsType' /\ WorkerType'
<1>1. RunsType'
    BY CancelEffect, UpdateType, PhasesType
<1>2. WorkerType'
    <2>1. {b} \in SUBSET Backups /\ (~leaseStale) \in BOOLEAN /\ fresh \subseteq Backups
        BY DEF WorkerType
    <2>2. "fail" \in Pcs \ {"idle"}
        BY DEF Pcs
    <2>3. Goto("fail") \/ (Proceed(step, {b}, ~leaseStale) /\ UNCHANGED fresh)
        BY CancelEffect
    <2>4. CASE Goto("fail")
        BY <2>2, <2>4, GotoType
    <2>5. CASE Proceed(step, {b}, ~leaseStale) /\ UNCHANGED fresh
        <3>1. fresh' \subseteq Backups
            BY <2>1, <2>5
        <3> QED
            BY <2>1, <2>5, <3>1, ProceedType
    <2> QED
        BY <2>3, <2>4, <2>5
<1> QED
    BY <1>1, <1>2

\* The initial states are well typed.
LEMMA InitType == Init => TypeOK
<1> SUFFICES ASSUME Init PROVE TypeOK
    OBVIOUS
<1>1. RunsType
    BY DEF Init, RunsType, BackupJob, Phases, Missing
<1>2. PodsType /\ GuardType /\ RestoresType
    BY DEF Init, PodsType, GuardType, RestoresType
<1>3. /\ pc \in Pcs /\ run = NoRun /\ leaseFresh \in BOOLEAN
      /\ fresh \subseteq Backups /\ victims \subseteq Backups
    BY DEF Init, Pcs
<1>4. attempt \in 0 .. (GuardAttempts - 1)
    BY DEF Init, GuardAttempts
<1>5. ready \in BOOLEAN /\ resumed \in BOOLEAN
    BY DEF Init
<1>6. faults \in 0 .. MaxFaults
    BY FaultsAssumption DEF Init
<1> QED
    BY <1>1, <1>2, <1>3, <1>4, <1>5, <1>6 DEF TypeOK, WorkerType, Init

\* A part of the state that a step leaves alone keeps its type.
LEMMA FrameType ==
    /\ RunsType /\ UNCHANGED <<objects, cache>> => RunsType'
    /\ PodsType /\ UNCHANGED pods => PodsType'
    /\ GuardType /\ UNCHANGED <<leases, seenLease>> => GuardType'
    /\ RestoresType /\ UNCHANGED <<restore, seenRestore, restoring>> => RestoresType'
    /\ WorkerType /\ UNCHANGED worker => WorkerType'
BY DEF RunsType, PodsType, GuardType, RestoresType, WorkerType, objects, pods,
   leases, worker, plan

\* Every action keeps the types of the parts it changes.
LEMMA TypeStep == TypeOK /\ [Next]_vars => TypeOK'
<1> SUFFICES ASSUME TypeOK, [Next]_vars PROVE TypeOK'
    OBVIOUS
<1> USE RunsAssumption, FaultsAssumption
        DEF vars, objects, worker, plan, leases, caches, pods, others
<1>1. ASSUME NEW b \in Backups, CreateBackup(b) PROVE TypeOK'
  <2>1. RunsType'
    BY <1>1, FieldType, PhasesType, ReplaceType DEF TypeOK, RunsType, Write,
       CreateBackup
  <2>2. WorkerType'
    BY <1>1 DEF TypeOK, WorkerType, Write, CreateBackup
  <2> QED
    BY <1>1, <2>1, <2>2, FrameType DEF TypeOK, CreateBackup
<1>2. ASSUME NEW b \in Backups, DeleteBackup(b) PROVE TypeOK'
  <2>1. RunsType'
    <3> DEFINE object == IF api[b].phase = "Created"
                         THEN [api[b] EXCEPT !.phase = "gone"]
                         ELSE [api[b] EXCEPT !.deleting = TRUE]
    <3>1. object \in BackupJob
        BY FieldType, PhasesType DEF TypeOK, RunsType
    <3> QED
        BY <1>2, <3>1, ReplaceType DEF TypeOK, DeleteBackup, Write
  <2>2. WorkerType'
    BY <1>2 DEF TypeOK, WorkerType, Write, DeleteBackup
  <2> QED
    BY <1>2, <2>1, <2>2, FrameType DEF TypeOK, DeleteBackup
<1>3. ASSUME NEW b \in Backups, TouchBackup(b) PROVE TypeOK'
  <2>1. RunsType'
    <3>1. PICK retrying \in {api[b].retrying, FALSE} :
             Write(b, [api[b] EXCEPT !.retrying = retrying])
        BY <1>3 DEF TouchBackup
    <3>2. [api[b] EXCEPT !.retrying = retrying] \in BackupJob
        BY FieldType DEF TypeOK, RunsType
    <3> QED
        BY <1>3, <3>1, <3>2, ReplaceType DEF TypeOK, TouchBackup, Write
  <2>2. WorkerType'
    BY <1>3 DEF TypeOK, WorkerType, Write, TouchBackup
  <2> QED
    BY <1>3, <2>1, <2>2, FrameType DEF TypeOK, TouchBackup
<1>4. ASSUME NEW r \in Restores, CreateRestore(r) PROVE TypeOK'
  <2>1. RestoresType'
    BY <1>4 DEF TypeOK, RestoresType, CreateRestore
  <2> QED
    BY <1>4, <2>1, FrameType DEF TypeOK, CreateRestore
<1>5. ASSUME MachineReadiness PROVE TypeOK'
    BY <1>5, FrameType DEF TypeOK, MachineReadiness
<1>6. ASSUME SyncBackups PROVE TypeOK'
  <2>1. RunsType'
    BY <1>6 DEF TypeOK, RunsType, SyncBackups
  <2> QED
    BY <1>6, <2>1, FrameType DEF TypeOK, SyncBackups
<1>7. ASSUME SyncLease PROVE TypeOK'
  <2>1. GuardType'
    BY <1>7 DEF TypeOK, GuardType, SyncLease
  <2> QED
    BY <1>7, <2>1, FrameType DEF TypeOK, SyncLease
<1>8. ASSUME SyncRestores PROVE TypeOK'
  <2>1. RestoresType'
    BY <1>8 DEF TypeOK, RestoresType, SyncRestores
  <2> QED
    BY <1>8, <2>1, FrameType DEF TypeOK, SyncRestores
<1>9. ASSUME Crash PROVE TypeOK'
  <2>1. RunsType'
    BY <1>9 DEF TypeOK, RunsType, Crash
  <2>2. WorkerType'
    BY <1>9, ReturnType DEF TypeOK, Return, Crash
  <2>3. PodsType'
    BY <1>9 DEF TypeOK, PodsType, Crash
  <2>4. GuardType'
    BY <1>9 DEF TypeOK, GuardType, Crash
  <2>5. RestoresType'
    BY <1>9 DEF TypeOK, RestoresType, Crash
  <2> QED
    BY <1>9, <2>1, <2>2, <2>3, <2>4, <2>5, FrameType DEF TypeOK, Crash
<1>10. ASSUME NEW b \in Backups, ReconcileDeleting(b) PROVE TypeOK'
  <2>1. WorkerType'
    BY <1>10, EnterType DEF TypeOK, Pcs, ReconcileDeleting
  <2> QED
    BY <1>10, <2>1, FrameType DEF TypeOK, ReconcileDeleting
<1>11. ASSUME NEW b \in Backups, ReconcileTerminal(b) PROVE TypeOK'
  <2>1. WorkerType'
    BY <1>11, EnterType DEF TypeOK, Pcs, ReconcileTerminal
  <2> QED
    BY <1>11, <2>1, FrameType DEF TypeOK, ReconcileTerminal
<1>12. ASSUME NEW b \in Backups, resumeRecoveredBackupJob(b) PROVE TypeOK'
  <2>1. RunsType'
    BY <1>12, FieldType, PhasesType, ReplaceType DEF TypeOK, RunsType,
       DoneOrConflict, resumeRecoveredBackupJob
  <2> QED
    BY <1>12, <2>1, FrameType DEF TypeOK, resumeRecoveredBackupJob,
       DoneOrConflict
<1>13. ASSUME NEW b \in Backups, AddFinalizer(b) PROVE TypeOK'
  <2>1. RunsType'
    BY <1>13, FieldType, PhasesType, ReplaceType DEF TypeOK, RunsType,
       DoneOrConflict, AddFinalizer
  <2> QED
    BY <1>13, <2>1, FrameType DEF TypeOK, AddFinalizer, DoneOrConflict
<1>14. ASSUME NEW b \in Backups, TargetJobEnded(b) PROVE TypeOK'
  <2>1. RunsType'
    BY <1>14, UpdateType, PhasesType DEF TypeOK, EndBackupJob, JobOutcomes,
       TargetJobEnded
  <2>2. WorkerType'
    BY <1>14, EnterType DEF TypeOK, Pcs, EndBackupJob, TargetJobEnded
  <2> QED
    BY <1>14, <2>1, <2>2, FrameType DEF TypeOK, TargetJobEnded, EndBackupJob
<1>15. ASSUME NEW b \in Backups, SourceJobFailed(b) PROVE TypeOK'
  <2>1. RunsType'
    BY <1>15, UpdateType, PhasesType DEF TypeOK, EndBackupJob, SourceJobFailed
  <2>2. WorkerType'
    BY <1>15, EnterType DEF TypeOK, Pcs, EndBackupJob, SourceJobFailed
  <2> QED
    BY <1>15, <2>1, <2>2, FrameType DEF TypeOK, SourceJobFailed, EndBackupJob
<1>16. ASSUME NEW b \in Backups, BackupJobStaysActive(b) PROVE TypeOK'
  <2>1. RunsType'
    <3>1. /\ [api[b] EXCEPT !.retrying = FALSE] \in BackupJob
          /\ [api[b] EXCEPT !.retrying = TRUE] \in BackupJob
        BY FieldType DEF TypeOK, RunsType
    <3> QED
        BY <1>16, <3>1, ReplaceType DEF TypeOK, BackupJobStaysActive,
           DoneOrConflict
  <2>2. PodsType'
    BY <1>16 DEF TypeOK, PodsType, BackupJobStaysActive
  <2> QED
    BY <1>16, <2>1, <2>2, FrameType DEF TypeOK, BackupJobStaysActive,
       DoneOrConflict
<1>17. ASSUME NEW b \in Backups, ReconcileWaiting(b) PROVE TypeOK'
  <2>1. WorkerType'
    BY <1>17, EnterType DEF TypeOK, Pcs, ReconcileWaiting
  <2> QED
    BY <1>17, <2>1, FrameType DEF TypeOK, ReconcileWaiting
<1>18. ASSUME Coalesce PROVE TypeOK'
  <2>1. CASE FinishAs("Canceled")
    <3>1. RunsType' /\ WorkerType'
        BY <1>18, <2>1, FinishType, PhasesType DEF TypeOK, Coalesce
    <3> QED
        BY <1>18, <3>1, FrameType DEF TypeOK, Coalesce
  <2>2. CASE ~FinishAs("Canceled")
    <3>1. UNCHANGED objects
        BY <1>18, <2>2 DEF Coalesce
    <3>2. WorkerType'
      <4>1. CASE Goto("active")
        BY <1>18, <4>1, GotoType DEF TypeOK, Pcs, Coalesce
      <4>2. CASE ~Goto("active")
        <5>1. Proceed("merge", cachedWaiting \ {run}, FALSE)
            BY <1>18, <2>2, <4>2 DEF Coalesce
        <5>2. fresh' \subseteq Backups /\ cachedWaiting \ {run} \in SUBSET Backups
            BY <1>18, <2>2, <4>2 DEF TypeOK, WorkerType, Coalesce, cachedWaiting
        <5> QED
            BY <1>18, <5>1, <5>2, ProceedType DEF TypeOK, Pcs, Coalesce
      <4> QED
        BY <4>1, <4>2
    <3> QED
        BY <1>18, <3>1, <3>2, FrameType DEF TypeOK, Coalesce
  <2> QED
    BY <2>1, <2>2
<1>19. ASSUME CheckReadyAndActive PROVE TypeOK'
  <2>1. UNCHANGED cache /\ pc # "idle" /\ UNCHANGED pods
    BY <1>19 DEF CheckReadyAndActive
  <2>2. RunsType' /\ WorkerType'
    <3>1. CASE FinishAs("Pending")
        BY <2>1, <3>1, FinishType, PhasesType DEF TypeOK
    <3>2. CASE Goto("restore") /\ UNCHANGED objects
        BY <2>1, <3>2, GotoType, FrameType DEF TypeOK, Pcs
    <3>3. ASSUME NEW b \in Backups, CancelForReplacement(b, "replaceActive")
          PROVE  RunsType' /\ WorkerType'
        BY <2>1, <3>3, CancelType DEF TypeOK, Pcs
    <3> QED
        BY <1>19, <3>1, <3>2, <3>3 DEF CheckReadyAndActive, cachedActive
  <2> QED
    BY <1>19, <2>2, FrameType DEF TypeOK, CheckReadyAndActive
<1>20. ASSUME CheckRestore PROVE TypeOK'
  <2>1. RunsType'
    BY <1>20, FinishType, PhasesType DEF TypeOK, RunsType, CheckRestore
  <2>2. WorkerType'
    BY <1>20, GotoType, ReturnType DEF TypeOK, WorkerType, Pcs, FinishAs,
       CheckRestore
  <2> QED
    BY <1>20, <2>1, <2>2, FrameType DEF TypeOK, CheckRestore
<1>21. ASSUME AcquireTargetGuard PROVE TypeOK'
  <2>1. UNCHANGED cache /\ pc = "guard" /\ UNCHANGED pods
    BY <1>21 DEF AcquireTargetGuard
  <2>2. RunsType' /\ WorkerType'
    <3>1. CASE FinishAs("Pending")
        BY <2>1, <3>1, FinishType, PhasesType DEF TypeOK
    <3>2. CASE UNCHANGED objects /\ (Goto("target") \/ Goto("fail"))
        BY <2>1, <3>2, GotoType, FrameType DEF TypeOK, Pcs
    <3>3. CASE UNCHANGED objects /\ attempt + 1 # GuardAttempts /\ TryAgain
        BY <2>1, <3>3, TryAgainType, FrameType DEF TypeOK
    <3>4. ASSUME NEW b \in Backups, CancelForReplacement(b, "replaceHolder")
          PROVE  RunsType' /\ WorkerType'
        BY <2>1, <3>4, CancelType DEF TypeOK, Pcs
    <3> QED
        BY <1>21, <3>1, <3>2, <3>3, <3>4 DEF AcquireTargetGuard, Claim, ClaimRefused
  <2>3. GuardType'
    BY <1>21 DEF TypeOK, GuardType, WorkerType, WriteLease, Claim,
       ClaimRefused, AcquireTargetGuard
  <2> QED
    BY <1>21, <2>2, <2>3, FrameType DEF TypeOK, AcquireTargetGuard
<1>22. ASSUME CreateTarget PROVE TypeOK'
  <2>1. WorkerType'
    BY <1>22, GotoType, ReturnType DEF TypeOK, WorkerType, Pcs, CreateTarget
  <2>2. PodsType'
    BY <1>22 DEF TypeOK, PodsType, CreateTarget
  <2>3. faults' \in 0 .. MaxFaults
    BY <1>22 DEF TypeOK, CreateTarget
  <2> QED
    BY <1>22, <2>1, <2>2, <2>3, FrameType DEF TypeOK, CreateTarget
<1>23. ASSUME SetPreparing PROVE TypeOK'
  <2>1. RunsType'
    BY <1>23, FinishType, PhasesType DEF TypeOK, SetPreparing
  <2>2. WorkerType'
    BY <1>23, ReturnType DEF TypeOK, FinishAs, SetPreparing
  <2> QED
    BY <1>23, <2>1, <2>2, FrameType DEF TypeOK, SetPreparing
<1>24. ASSUME FailBackupJob PROVE TypeOK'
  <2>1. RunsType'
    BY <1>24, UpdateType, PhasesType DEF TypeOK, WorkerType, UpdateRun,
       FailBackupJob
  <2>2. WorkerType'
    BY <1>24, GotoType, ReturnType DEF TypeOK, WorkerType, Pcs, FailBackupJob
  <2> QED
    BY <1>24, <2>1, <2>2, FrameType DEF TypeOK, FailBackupJob
<1>25. ASSUME ReleaseTargetGuards PROVE TypeOK'
  <2>1. WorkerType'
    <3>1. CASE Return
        BY <3>1, ReturnType
    <3>2. CASE Goto("finalize")
        BY <1>25, <3>2, GotoType DEF TypeOK, Pcs, ReleaseTargetGuards
    <3>3. ASSUME NEW old \in SUBSET cachedTerminal, Proceed("prune", old, FALSE),
                 fresh' = old \ stale
          PROVE  WorkerType'
        BY <1>25, <3>3, ProceedType DEF TypeOK, Pcs, ReleaseTargetGuards, cachedTerminal
    <3> QED
        BY <1>25, <3>1, <3>2, <3>3 DEF ReleaseTargetGuards, ListHistory
  <2>2. GuardType'
    BY <1>25 DEF TypeOK, GuardType, WriteLease, ReleaseTargetGuards
  <2> QED
    BY <1>25, <2>1, <2>2, FrameType DEF TypeOK, ReleaseTargetGuards
<1>26. ASSUME RemoveFinalizer PROVE TypeOK'
  <2>1. RunsType'
    BY <1>26, FinishType, PhasesType DEF TypeOK, RemoveFinalizer
  <2>2. WorkerType'
    BY <1>26, ReturnType DEF TypeOK, FinishAs, RemoveFinalizer
  <2>3. PodsType'
    BY <1>26 DEF TypeOK, PodsType, StopJobs, RemoveFinalizer
  <2> QED
    BY <1>26, <2>1, <2>2, <2>3, FrameType DEF TypeOK, RemoveFinalizer
<1>27. ASSUME NEW r \in Restores, AdmitRestore(r) PROVE TypeOK'
  <2>1. RestoresType'
    BY <1>27 DEF TypeOK, RestoresType, AdmitRestore
  <2> QED
    BY <1>27, <2>1, FrameType DEF TypeOK, AdmitRestore
<1>28. ASSUME NEW r \in Restores, StartRestore(r) PROVE TypeOK'
  <2>1. RestoresType'
    BY <1>28 DEF TypeOK, RestoresType, StartRestore
  <2> QED
    BY <1>28, <2>1, FrameType DEF TypeOK, StartRestore
<1>29. ASSUME NEW r \in Restores, EndRestore(r) PROVE TypeOK'
  <2>1. RestoresType'
    BY <1>29 DEF TypeOK, RestoresType, EndRestore
  <2> QED
    BY <1>29, <2>1, FrameType DEF TypeOK, EndRestore
<1>30. ASSUME NEW b \in Backups, TargetStarts(b) PROVE TypeOK'
  <2>1. PodsType'
    BY <1>30 DEF TypeOK, PodsType, TargetStarts
  <2> QED
    BY <1>30, <2>1, FrameType DEF TypeOK, TargetStarts
<1>31. ASSUME NEW b \in Backups, TargetEnds(b) PROVE TypeOK'
  <2>1. PodsType'
    BY <1>31 DEF TypeOK, PodsType, TargetEnds
  <2> QED
    BY <1>31, <2>1, FrameType DEF TypeOK, TargetEnds
<1>32. ASSUME NEW b \in Backups, TargetStops(b) PROVE TypeOK'
  <2>1. PodsType'
    BY <1>32 DEF TypeOK, PodsType, TargetStops
  <2> QED
    BY <1>32, <2>1, FrameType DEF TypeOK, TargetStops
<1>33. ASSUME NEW b \in Backups, ApplyTargetEvent(b) PROVE TypeOK'
  <2>1. RunsType'
    <3>1. Reported(api[b].phase, event[b]) \in Phases
        BY <1>33, PhasesType DEF TypeOK, RunsType, PodsType, BackupJob,
           ApplyTargetEvent
    <3>2. [api[b] EXCEPT !.phase = Reported(@, event[b])] \in BackupJob
        BY <3>1, FieldType DEF TypeOK, RunsType
    <3> QED
        BY <1>33, <3>2, ReplaceType DEF TypeOK, ApplyTargetEvent, Write
  <2>2. WorkerType'
    BY <1>33 DEF TypeOK, WorkerType, Write, ApplyTargetEvent
  <2>3. PodsType'
    BY <1>33 DEF TypeOK, PodsType, ApplyTargetEvent
  <2> QED
    BY <1>33, <2>1, <2>2, <2>3, FrameType DEF TypeOK, ApplyTargetEvent
<1>34. ASSUME CancelMerged PROVE TypeOK'
  <2>1. PICK d \in victims :
           /\ \/ api' = [api EXCEPT ![d].phase = "Canceled"] /\ stale' = stale \cup {d}
              \/ UNCHANGED objects
           /\ \/ Goto("fail") \/ Goto("active")
              \/ Proceed("merge", victims \ {d}, FALSE) /\ fresh' = fresh \ {d}
    BY <1>34 DEF CancelMerged
  <2>2. d \in Backups /\ pc = "merge" /\ UNCHANGED cache
    BY <1>34 DEF CancelMerged, TypeOK, WorkerType
  <2>3. RunsType'
    BY <2>1, <2>2, UpdateType, PhasesType DEF TypeOK
  <2>4. WorkerType'
    BY <2>1, <2>2, GotoType, ProceedType DEF TypeOK, WorkerType, Pcs
  <2> QED
    BY <1>34, <2>3, <2>4, FrameType DEF TypeOK, CancelMerged
<1>35. ASSUME CleanupReplaced PROVE TypeOK'
  <2>1. WorkerType'
    <3>1. pc # "idle" /\ leaseFresh \in BOOLEAN /\ {} \in SUBSET Backups
        BY <1>35 DEF CleanupReplaced, TypeOK, WorkerType
    <3>2. \/ Goto("fail") \/ Goto("restore")
          \/ Proceed("claim", {}, leaseFresh) /\ fresh' = fresh
        BY <1>35 DEF CleanupReplaced
    <3> QED
        BY <3>1, <3>2, GotoType, ProceedType DEF TypeOK, WorkerType, Pcs
  <2>2. PodsType'
    BY <1>35 DEF TypeOK, WorkerType, PodsType, StopJobs, CleanupReplaced
  <2> QED
    BY <1>35, <2>1, <2>2, FrameType DEF TypeOK, CleanupReplaced
<1>36. ASSUME ClaimReplaced PROVE TypeOK'
  <2>1. WorkerType'
    <3>1. pc # "idle"
        BY <1>36 DEF ClaimReplaced
    <3>2. \/ Goto("fail") \/ Goto("target")
          \/ attempt + 1 # GuardAttempts /\ TryAgain
        BY <1>36 DEF ClaimReplaced, Claim, ClaimRefused
    <3> QED
        BY <3>1, <3>2, GotoType, TryAgainType DEF TypeOK, Pcs
  <2>2. GuardType'
    BY <1>36 DEF TypeOK, GuardType, WorkerType, WriteLease, Claim, ClaimReplaced
  <2> QED
    BY <1>36, <2>1, <2>2, FrameType DEF TypeOK, ClaimReplaced
<1>37. ASSUME PruneHistory PROVE TypeOK'
  <2>1. PICK b \in victims :
           /\ StopJobs(b)
           /\ \/ api' = [api EXCEPT ![b].phase = "gone"] /\ stale' = stale \cup {b}
              \/ UNCHANGED objects
           /\ Return \/ (Proceed("prune", victims \ {b}, FALSE) /\ fresh' = fresh \ {b})
    BY <1>37 DEF PruneHistory
  <2>2. b \in Backups /\ pc = "prune" /\ UNCHANGED cache
    BY <1>37 DEF PruneHistory, TypeOK, WorkerType
  <2>3. RunsType'
    BY <2>1, <2>2, UpdateType, PhasesType DEF TypeOK
  <2>4. WorkerType'
    BY <2>1, <2>2, ReturnType, ProceedType DEF TypeOK, WorkerType, Pcs
  <2>5. PodsType'
    BY <1>37, <2>1 DEF TypeOK, PodsType, StopJobs, PruneHistory
  <2> QED
    BY <1>37, <2>3, <2>4, <2>5, FrameType DEF TypeOK, PruneHistory
<1>38. CASE UNCHANGED vars
    BY <1>38, FrameType DEF TypeOK
<1> QED
    BY <1>1, <1>2, <1>3, <1>4, <1>5, <1>6, <1>7, <1>8, <1>9, <1>10, <1>11,
       <1>12, <1>13, <1>14, <1>15, <1>16, <1>17, <1>18, <1>19, <1>20, <1>21,
       <1>22, <1>23, <1>24, <1>25, <1>26, <1>27, <1>28, <1>29, <1>30, <1>31,
       <1>32, <1>33, <1>34, <1>35, <1>36, <1>37, <1>38
       DEF Next, Cluster, Reconcile, WorkerStep

\* Every reachable state is well typed, for any set of runs and any policy.
THEOREM TypeCorrect == Spec => []TypeOK
BY InitType, TypeStep, PTL DEF Spec

-----------------------------------------------------------------------------
(* Steps that admit nothing                                                *)

\* How a step may change the phase of run a, other than by a resume.
Move(a) ==
    \/ api'[a].phase = api[a].phase
    \/ api[a].phase = "absent" /\ api'[a].phase = "Created"
    \/ api[a].phase = "Created" /\ api'[a].phase = "New"
    \/ api[a].phase \in {"New", "Pending"} /\ api'[a].phase \in {"Pending", "Active"}
    \/ api'[a].phase \in Over

\* Every write is recorded as not yet cached.
Recorded ==
    /\ stale \subseteq stale'
    /\ \A a \in Backups : a \notin stale' => api'[a] = api[a]

\* A step after which no run is committed that was not.
Quiet ==
    /\ UNCHANGED <<cache, resumed>>
    /\ Recorded
    /\ \A a \in Backups : /\ Move(a)
                          /\ Committed(a)' => Committed(a)
                          /\ job[a] = "none" <=> job'[a] = "none"
                          /\ event'[a] = "Ready" => event[a] = "Ready" \/ job[a] # "none"

\* The sets of phases, listed.
LEMMA PhaseSets ==
    /\ Over = {"Succeeded", "Failed", "Canceled", "gone"}
    /\ Started = {"gone", "New", "Pending", "Active", "Succeeded", "Failed", "Canceled"}
    /\ Waiting = {"Created", "New", "Pending"}
    /\ Missing = {"absent", "gone"}
BY DEF Over, Started, Phases, Missing, Waiting, Terminal

\* A move never leads back behind what the cache has shown.
LEMMA MovesKeepCacheBehind ==
    ASSUME CacheBehind, UNCHANGED <<cache, resumed>>, \A a \in Backups : Move(a)
    PROVE  CacheBehind'
BY PhaseSets DEF CacheBehind, Move

\* A quiet step keeps every part of the invariant that is not about the worker.
LEMMA QuietStep ==
    ASSUME IInv, Quiet, pc' = "prepare" => pc = "prepare" /\ run' = run,
           WorkerType
    PROVE  CacheExact' /\ CacheBehind' /\ PodsKnown' /\ OneCommitted'
<1>1. CacheExact'
    BY DEF IInv, CacheExact, Quiet, Recorded
<1>2. CacheBehind'
    BY MovesKeepCacheBehind DEF IInv, Quiet
<1>3. \A a \in Backups : ~resumed /\ Committed(a) => job[a] # "none"
    BY DEF IInv, PodsKnown, Committed
<1>4. \A a \in Backups : ~resumed' /\ api'[a].phase = "Active" => job'[a] # "none"
    BY <1>3 DEF Quiet, Committed
<1>5. PodsKnown'
    BY <1>4 DEF IInv, PodsKnown, Quiet, WorkerType
<1>6. OneCommitted'
    BY DEF IInv, OneCommitted, Quiet
<1> QED
    BY <1>1, <1>2, <1>5, <1>6

\* The copies the worker still holds as current are of unchanged runs.
Kept == \A b \in fresh' : b \in fresh /\ api'[b].phase = api[b].phase

\* A quiet step of another actor leaves the worker's knowledge valid.
LEMMA ForeignStep ==
    ASSUME IInv, Quiet, UNCHANGED <<pc, run, victims>>, Kept
    PROVE  CopyWaits' /\ Admission'
<1>0. pc \in AdmissionPcs \cup {"fail"} => run \in Backups
    BY DEF IInv, TypeOK, WorkerType, AdmissionPcs
<1>1. CopyWaits'
    BY <1>0 DEF IInv, CopyWaits, Quiet, Kept, AdmissionPcs
<1>2. Admission'
  <2> SUFFICES ASSUME ~resumed, pc \in AdmissionPcs,
                      api'[run].phase \in {"New", "Pending"},
                      NEW a \in Backups \ {run}, Committed(a)'
               PROVE  \/ pc = "coalesce"
                      \/ pc = "merge" /\ a \in victims
                      \/ /\ pc \in {"merge", "active"}
                         /\ api'[a].phase = "Active" /\ cache[a].phase = "Active"
    BY DEF Admission, Quiet
  <2>1. api[run].phase \in {"New", "Pending"} \/ api[run].phase = "Created"
    BY <1>0, PhaseSets DEF Quiet, Move
  <2>2. api[run].phase # "Created"
    BY <1>0, PhaseSets DEF IInv, CopyWaits, CacheBehind
  <2>3. \/ pc = "coalesce"
        \/ pc = "merge" /\ a \in victims
        \/ /\ pc \in {"merge", "active"}
           /\ api[a].phase = "Active" /\ cache[a].phase = "Active"
    BY <2>1, <2>2 DEF IInv, Admission, Quiet
  <2>4. api[a].phase = "Active" => api'[a].phase = "Active"
    BY PhaseSets DEF Quiet, Move, Committed
  <2> QED
    BY <2>3, <2>4
<1> QED
    BY <1>1, <1>2

\* Outside the admission the worker claims nothing.
LEMMA LeaveStep ==
    ASSUME pc' \notin AdmissionPcs \cup {"fail"}
    PROVE  CopyWaits' /\ Admission'
BY DEF CopyWaits, Admission, AdmissionPcs

\* A quiet step of the worker within the admission, past its look at the
\* active runs or to "fail".
LEMMA AdmissionStep ==
    ASSUME IInv, Quiet, pc \in AdmissionPcs \ {"coalesce"}, UNCHANGED run,
           run \in fresh' => run \in fresh,
           api'[run].phase = api[run].phase,
           pc' \in (AdmissionPcs \cup {"fail"}) \ {"merge"},
           \/ pc' = "fail"
           \/ \A a \in Backups \ {run} : ~resumed => ~Committed(a)'
           \/ pc \notin {"merge", "active"}
    PROVE  CopyWaits' /\ Admission'
<1>1. run \in Backups
    BY DEF IInv, TypeOK, WorkerType, AdmissionPcs
<1>2. CopyWaits'
    BY <1>1 DEF IInv, CopyWaits, Quiet, AdmissionPcs
<1>3. Admission'
    BY <1>1 DEF IInv, Admission, Quiet, AdmissionPcs
<1> QED
    BY <1>2, <1>3

\* A write by another actor either spares a run or outdates the worker's copy of it.
LEMMA WriteOutdatesCopy ==
    ASSUME TypeOK, NEW b \in Backups, NEW object, Write(b, object)
    PROVE  Kept
BY DEF Write, TypeOK, RunsType, WorkerType, Kept

\* The step of the worker that goes on keeps its own copy, or none.
LEMMA GotoKeeps ==
    ASSUME NEW step, Goto(step)
    PROVE  UNCHANGED run /\ (run \in fresh' => run \in fresh) /\ pc' = step /\ victims' = {}
BY DEF Goto

\* The status update of a replacement admits nothing.
LEMMA CancelQuiet ==
    ASSUME IInv, NEW b \in Backups, NEW step \in Pcs \ {"idle"}, CancelForReplacement(b, step),
           UNCHANGED <<cache, resumed, job, event>>
    PROVE  Quiet
<1>1. /\ \A a \in Backups \ {b} : api'[a] = api[a]
      /\ \/ UNCHANGED objects
         \/ api'[b].phase = "Canceled" /\ stale' = stale \cup {b}
    BY CancelEffect DEF IInv, TypeOK
<1> QED
    BY <1>1, PhaseSets DEF Quiet, Recorded, Move, Committed, objects

\* The worker holds its run and returns.
LEMMA HoldStep ==
    ASSUME IInv, TypeOK', pc \in AdmissionPcs, FinishAs("Pending"),
           UNCHANGED <<cache, resumed, job, event>>
    PROVE  IInv'
<1>0. run \in Backups
    BY DEF IInv, TypeOK, WorkerType, AdmissionPcs
<1>1. run \in fresh => api[run].phase \in {"New", "Pending"}
    BY DEF IInv, CopyWaits
<1>2. Quiet
    BY <1>0, <1>1 DEF IInv, TypeOK, RunsType, BackupJob, Quiet, Recorded, Move,
       Committed, FinishAs, UpdateRun, objects
<1>3. pc' = "idle"
    BY DEF FinishAs, Return
<1> QED
    BY <1>2, <1>3, LeaveStep, QuietStep DEF IInv, TypeOK, AdmissionPcs

\* The worker, past its look at the active runs, goes on without a write.
LEMMA ProgressStep ==
    ASSUME IInv, TypeOK', pc \in AdmissionPcs \ {"coalesce", "merge", "active"},
           UNCHANGED <<objects, cache, resumed, event>>,
           \A a \in Backups : job[a] = "none" <=> job'[a] = "none",
           \/ Goto("fail") \/ Goto("restore") \/ Goto("guard") \/ Goto("target")
           \/ TryAgain
           \/ Proceed("claim", {}, leaseFresh) /\ UNCHANGED fresh
    PROVE  IInv'
<1>1. Quiet /\ api' = api
    BY DEF Quiet, Recorded, Move, Committed, objects
<1>2. /\ UNCHANGED run /\ (run \in fresh' => run \in fresh)
      /\ pc' \in {"fail", "restore", "guard", "target", "claim"}
    BY DEF Goto, TryAgain, Proceed
<1>3. CopyWaits' /\ Admission'
    BY <1>1, <1>2, AdmissionStep DEF AdmissionPcs
<1> QED
    BY <1>1, <1>2, <1>3, QuietStep DEF IInv, TypeOK

-----------------------------------------------------------------------------
(* The inductive invariant                                                 *)

\* The initial states satisfy the invariant.
LEMMA InitInvariant == Init => IInv
<1> SUFFICES ASSUME Init PROVE IInv
    OBVIOUS
<1>1. TypeOK
    BY InitType
<1>2. CacheExact /\ CopyWaits /\ CacheBehind
    BY DEF Init, CacheExact, CopyWaits, CacheBehind, AdmissionPcs, Started,
       Over, Terminal
<1>3. PodsKnown /\ OneCommitted /\ Admission
    BY DEF Init, PodsKnown, OneCommitted, Committed, Admission, AdmissionPcs
<1> QED
    BY <1>1, <1>2, <1>3 DEF IInv

\* Every action preserves the invariant: most are quiet; the early Ready event, the
\* creation of the target and SetPreparing commit a run, a resume sets the history.
LEMMA InvariantStep == IInv /\ [Next]_vars => IInv'
<1> SUFFICES ASSUME IInv, [Next]_vars PROVE IInv'
    OBVIOUS
<1>0. TypeOK'
    BY TypeStep DEF IInv
<1> USE DEF vars, objects, worker, plan, leases, caches, pods, others
<1>1. ASSUME NEW b \in Backups, CreateBackup(b) PROVE IInv'
  <2>1. Quiet
    BY <1>1 DEF IInv, TypeOK, RunsType, BackupJob, Quiet, Recorded, Move,
       Committed, Write, CreateBackup
  <2>2. Kept
    BY <1>1, WriteOutdatesCopy DEF IInv, CreateBackup
  <2>3. CopyWaits' /\ Admission'
    BY <1>1, <2>1, <2>2, ForeignStep DEF CreateBackup
  <2> QED
    BY <1>0, <1>1, <2>1, <2>3, QuietStep DEF IInv, TypeOK, CreateBackup
<1>2. ASSUME NEW b \in Backups, DeleteBackup(b) PROVE IInv'
  <2>1. Quiet
    BY <1>2 DEF IInv, TypeOK, RunsType, BackupJob, Quiet, Recorded, Move,
       Committed, Write, DeleteBackup, Over, Terminal
  <2>2. Kept
    BY <1>2, WriteOutdatesCopy DEF IInv, DeleteBackup
  <2>3. CopyWaits' /\ Admission'
    BY <1>2, <2>1, <2>2, ForeignStep DEF DeleteBackup
  <2> QED
    BY <1>0, <1>2, <2>1, <2>3, QuietStep DEF IInv, TypeOK, DeleteBackup
<1>3. ASSUME NEW b \in Backups, TouchBackup(b) PROVE IInv'
  <2>1. Quiet
    BY <1>3 DEF IInv, TypeOK, RunsType, BackupJob, Quiet, Recorded, Move,
       Committed, Write, TouchBackup
  <2>2. Kept
    BY <1>3, WriteOutdatesCopy DEF IInv, TouchBackup
  <2>3. CopyWaits' /\ Admission'
    BY <1>3, <2>1, <2>2, ForeignStep DEF TouchBackup
  <2> QED
    BY <1>0, <1>3, <2>1, <2>3, QuietStep DEF IInv, TypeOK, TouchBackup
<1>4. ASSUME SyncBackups PROVE IInv'
  <2>1. CacheExact' /\ CopyWaits' /\ CacheBehind'
    BY <1>4 DEF IInv, CacheExact, CopyWaits, CacheBehind, SyncBackups, TypeOK,
       WorkerType, AdmissionPcs
  <2>2. PodsKnown'
    BY <1>4 DEF IInv, PodsKnown, CacheBehind, SyncBackups
  <2>3. OneCommitted' /\ Admission'
    BY <1>4 DEF IInv, OneCommitted, Committed, Admission, SyncBackups
  <2> QED
    BY <1>0, <2>1, <2>2, <2>3 DEF IInv
<1>5. ASSUME Crash PROVE IInv'
  <2>1. CacheExact' /\ CacheBehind'
    BY <1>5 DEF CacheExact, CacheBehind, Crash, Return
  <2>2. PodsKnown'
    BY <1>5 DEF IInv, PodsKnown, CacheBehind, Crash, Return
  <2>3. OneCommitted'
    BY <1>5 DEF IInv, OneCommitted, Committed, Crash
  <2>4. CopyWaits' /\ Admission'
    BY <1>5, LeaveStep DEF AdmissionPcs, Crash, Return
  <2> QED
    BY <1>0, <2>1, <2>2, <2>3, <2>4 DEF IInv
<1>6. ASSUME NEW b \in Backups, ReconcileDeleting(b) PROVE IInv'
  <2>1. Quiet
    BY <1>6 DEF IInv, TypeOK, RunsType, BackupJob, Quiet, Recorded, Move,
       Committed, ReconcileDeleting
  <2>2. CopyWaits' /\ Admission'
    BY <1>6, LeaveStep DEF AdmissionPcs, ReconcileDeleting, Enter
  <2> QED
    BY <1>0, <1>6, <2>1, <2>2, QuietStep DEF IInv, TypeOK, ReconcileDeleting,
       Enter
<1>7. ASSUME NEW b \in Backups, ReconcileTerminal(b) PROVE IInv'
  <2>1. Quiet
    BY <1>7 DEF IInv, TypeOK, RunsType, BackupJob, Quiet, Recorded, Move,
       Committed, ReconcileTerminal
  <2>2. CopyWaits' /\ Admission'
    BY <1>7, LeaveStep DEF AdmissionPcs, ReconcileTerminal, Enter
  <2> QED
    BY <1>0, <1>7, <2>1, <2>2, QuietStep DEF IInv, TypeOK, ReconcileTerminal,
       Enter
<1>8. ASSUME NEW b \in Backups, resumeRecoveredBackupJob(b) PROVE IInv'
  <2>1. CopyWaits' /\ Admission'
    BY <1>8, LeaveStep DEF AdmissionPcs, resumeRecoveredBackupJob, Begin,
       DoneOrConflict
  <2>2. CASE b \in stale
    <3>1. Quiet
        BY <1>8, <2>2 DEF Quiet, Recorded, Move, Committed,
           resumeRecoveredBackupJob, DoneOrConflict, IInv, TypeOK
    <3> QED
        BY <1>0, <1>8, <2>1, <3>1, QuietStep DEF IInv, TypeOK,
           resumeRecoveredBackupJob, DoneOrConflict
  <2>3. CASE b \notin stale
    <3>1. resumed' /\ UNCHANGED <<cache, job, event, pc, run>> /\ stale' = stale \cup {b} /\ pc = "idle"
        BY <1>8, <2>3 DEF resumeRecoveredBackupJob, Begin, DoneOrConflict
    <3>2. /\ \A a \in Backups \ {b} : api'[a] = api[a]
          /\ api'[b].phase = "Active" /\ api[b].phase = "Failed"
        BY <1>8, <2>3 DEF IInv, TypeOK, RunsType, BackupJob, CacheExact,
           resumeRecoveredBackupJob, DoneOrConflict
    <3>3. CacheExact' /\ PodsKnown' /\ OneCommitted'
        BY <3>1, <3>2 DEF IInv, CacheExact, PodsKnown, OneCommitted
    <3>4. CacheBehind'
        BY <3>1, <3>2, PhaseSets DEF IInv, CacheBehind
    <3> QED
        BY <1>0, <2>1, <3>3, <3>4 DEF IInv
  <2> QED
    BY <2>2, <2>3
<1>9. ASSUME NEW b \in Backups, AddFinalizer(b) PROVE IInv'
  <2>1. Quiet
    BY <1>9 DEF IInv, TypeOK, RunsType, BackupJob, Quiet, Recorded, Move,
       Committed, AddFinalizer, DoneOrConflict, CacheExact, PodsKnown, Started
  <2>2. CopyWaits' /\ Admission'
    BY <1>9, LeaveStep DEF AdmissionPcs, AddFinalizer, Begin, DoneOrConflict
  <2> QED
    BY <1>0, <1>9, <2>1, <2>2, QuietStep DEF IInv, TypeOK, AddFinalizer,
       Begin, DoneOrConflict
<1>10. ASSUME NEW b \in Backups, TargetJobEnded(b) PROVE IInv'
  <2>1. Quiet
    BY <1>10, SMTT(20) DEF IInv, TypeOK, RunsType, BackupJob, Quiet, Recorded, Move,
       Committed, TargetJobEnded, EndBackupJob, JobOutcomes, Over, Terminal
  <2>2. CopyWaits' /\ Admission'
    BY <1>10, LeaveStep DEF AdmissionPcs, TargetJobEnded, EndBackupJob, Enter
  <2> QED
    BY <1>0, <1>10, <2>1, <2>2, QuietStep DEF IInv, TypeOK, TargetJobEnded,
       EndBackupJob, Enter
<1>11. ASSUME NEW b \in Backups, SourceJobFailed(b) PROVE IInv'
  <2>1. Quiet
    BY <1>11 DEF IInv, TypeOK, RunsType, BackupJob, Quiet, Recorded, Move,
       Committed, SourceJobFailed, EndBackupJob, Over, Terminal
  <2>2. CopyWaits' /\ Admission'
    BY <1>11, LeaveStep DEF AdmissionPcs, SourceJobFailed, EndBackupJob, Enter
  <2> QED
    BY <1>0, <1>11, <2>1, <2>2, QuietStep DEF IInv, TypeOK, SourceJobFailed,
       EndBackupJob, Enter
<1>12. ASSUME NEW b \in Backups, BackupJobStaysActive(b) PROVE IInv'
  <2>1. Quiet
    <3>1. job[b] = "running" /\ UNCHANGED <<cache, event, resumed>>
        BY <1>12 DEF BackupJobStaysActive
    <3>2. \/ DoneOrConflict(b, [api[b] EXCEPT !.retrying = FALSE])
          \/ DoneOrConflict(b, [api[b] EXCEPT !.retrying = TRUE])
        BY <1>12 DEF BackupJobStaysActive
    <3>3. Recorded /\ \A a \in Backups : api'[a].phase = api[a].phase
        BY <3>2 DEF IInv, TypeOK, RunsType, BackupJob, Recorded, DoneOrConflict
    <3>4. \A a \in Backups : job'[a] = job[a] \/ (a = b /\ job'[a] = "finalizing")
        BY <1>12 DEF IInv, TypeOK, PodsType, BackupJobStaysActive
    <3> QED
        BY <3>1, <3>3, <3>4 DEF Quiet, Move, Committed
  <2>2. CopyWaits' /\ Admission'
    BY <1>12, LeaveStep DEF AdmissionPcs, BackupJobStaysActive, Begin,
       DoneOrConflict
  <2> QED
    BY <1>0, <1>12, <2>1, <2>2, QuietStep DEF IInv, TypeOK,
       BackupJobStaysActive, Begin, DoneOrConflict
<1>13. ASSUME NEW b \in Backups, ReconcileWaiting(b) PROVE IInv'
  <2>1. Quiet
    BY <1>13 DEF IInv, TypeOK, Quiet, Recorded, Move, Committed,
       ReconcileWaiting
  <2>2. CopyWaits'
    BY <1>13, PhaseSets DEF IInv, CacheExact, CopyWaits, ReconcileWaiting,
       Enter
  <2>3. Admission'
    BY <1>13 DEF Admission, AdmissionPcs, ReconcileWaiting, Enter
  <2> QED
    BY <1>0, <1>13, <2>1, <2>2, <2>3, QuietStep DEF IInv, TypeOK,
       ReconcileWaiting, Enter
<1>14. ASSUME Coalesce PROVE IInv'
  <2>0. run \in Backups
    BY <1>14 DEF IInv, TypeOK, WorkerType, Coalesce
  <2>1. CASE FinishAs("Canceled")
    <3>1. Quiet
        BY <1>14, <2>0, <2>1, PhaseSets DEF IInv, TypeOK, RunsType, BackupJob,
           Quiet, Recorded, Move, Committed, Coalesce, FinishAs, UpdateRun
    <3>2. pc' = "idle"
        BY <2>1 DEF FinishAs, Return
    <3> QED
        BY <1>0, <3>1, <3>2, LeaveStep, QuietStep DEF IInv, TypeOK, AdmissionPcs
  <2>2. CASE ~FinishAs("Canceled")
    <3>1. /\ UNCHANGED <<api, stale, cache, job, event, resumed, run>>
          /\ run \in fresh' => run \in fresh
          /\ \/ /\ pc' = "active" /\ \A b, c \in cachedWaiting : b = c
             \/ /\ pc' = "merge" /\ victims' = cachedWaiting \ {run}
                /\ \A d \in victims' : d \in fresh' => d \notin stale
        BY <1>14, <2>2 DEF Coalesce, Goto, Proceed
    <3>2. Quiet
        BY <3>1 DEF Quiet, Recorded, Move, Committed
    <3>3. CopyWaits'
        BY <1>14, <3>1 DEF IInv, CopyWaits, Coalesce, AdmissionPcs, CacheExact, cachedWaiting
    <3>4. ASSUME ~resumed, api[run].phase \in {"New", "Pending"},
                 NEW a \in Backups \ {run}, Committed(a)
          PROVE  \/ pc' = "merge" /\ a \in victims'
                 \/ api[a].phase = "Active" /\ cache[a].phase = "Active"
      <4>1. run \in cachedWaiting
        BY <1>14, <2>0, <3>4, PhaseSets DEF IInv, CacheBehind,
           CopyWaits, AdmissionPcs, cachedWaiting, Coalesce
      <4>2. CASE a \in cachedWaiting
        BY <3>1, <4>1, <4>2
      <4>3. CASE a \notin cachedWaiting
        <5>1. cache[a].phase \in Started \ Waiting
            BY <3>4, <4>3 DEF IInv, PodsKnown, Committed, cachedWaiting
        <5> QED
            BY <3>4, <5>1, PhaseSets DEF IInv, CacheBehind, Committed
      <4> QED
        BY <4>2, <4>3
    <3>5. Admission'
        BY <3>1, <3>4 DEF Admission, Committed
    <3> QED
        BY <1>0, <3>1, <3>2, <3>3, <3>5, QuietStep DEF IInv, TypeOK
  <2> QED
    BY <2>1, <2>2
<1>15. ASSUME CheckReadyAndActive PROVE IInv'
  <2>0. run \in Backups /\ pc = "active" /\ UNCHANGED <<cache, resumed, job, event>>
    BY <1>15 DEF IInv, TypeOK, WorkerType, CheckReadyAndActive
  <2>1. CASE FinishAs("Pending")
    <3>1. run \in fresh => api[run].phase \in {"New", "Pending"}
        BY <2>0 DEF IInv, CopyWaits, AdmissionPcs
    <3>2. Quiet
        BY <2>0, <2>1, <3>1 DEF IInv, TypeOK, RunsType, BackupJob,
           Quiet, Recorded, Move, Committed, FinishAs, UpdateRun
    <3>3. pc' = "idle"
        BY <2>1 DEF FinishAs, Return
    <3> QED
        BY <1>0, <3>2, <3>3, LeaveStep, QuietStep DEF IInv, TypeOK, AdmissionPcs
  <2>2. CASE cachedActive = {} /\ Goto("restore") /\ UNCHANGED objects
    <3>1. Quiet /\ api' = api
        BY <2>0, <2>2 DEF Quiet, Recorded, Move, Committed
    <3>2. ASSUME ~resumed, api[run].phase \in {"New", "Pending"}
          PROVE  \A a \in Backups \ {run} : ~Committed(a)
        BY <2>0, <2>2, <3>2 DEF IInv, Admission, AdmissionPcs, cachedActive,
           ActiveRunBlocksTargetMutation
    <3>3. CopyWaits'
        BY <2>0, <2>2, <3>1, GotoKeeps DEF IInv, CopyWaits, AdmissionPcs
    <3>4. Admission'
        BY <2>0, <2>2, <3>1, <3>2, GotoKeeps DEF Admission, Committed
    <3> QED
        BY <1>0, <2>2, <3>1, <3>3, <3>4, GotoKeeps, QuietStep DEF IInv, TypeOK
  <2>3. ASSUME NEW b \in cachedActive, CancelForReplacement(b, "replaceActive")
        PROVE  IInv'
    <3>0. /\ b \in Backups \ {run} /\ cache[b].phase = "Active"
          /\ "replaceActive" \in Pcs \ {"idle"}
        BY DEF cachedActive, ActiveRunBlocksTargetMutation, Pcs
    <3>1. Quiet
        BY <2>0, <2>3, <3>0, CancelQuiet
    <3>2. api'[run] = api[run]
        BY <2>0, <2>3, <3>0, CancelEffect DEF IInv, TypeOK
    <3>3. CASE Goto("fail")
      <4>1. CopyWaits' /\ Admission'
        BY <2>0, <3>1, <3>2, <3>3, GotoKeeps, AdmissionStep DEF AdmissionPcs
      <4> QED
        BY <1>0, <3>1, <3>3, <4>1, GotoKeeps, QuietStep DEF IInv, TypeOK
    <3>4. CASE ~Goto("fail")
      <4>1. /\ pc' = "replaceActive" /\ UNCHANGED <<run, fresh>>
            /\ api'[b].phase \in {"Canceled"} \cup Missing
        BY <2>3, <3>0, <3>4, CancelEffect DEF IInv, TypeOK, Proceed
      <4>2. ASSUME ~resumed, api[run].phase \in {"New", "Pending"},
                   NEW a \in Backups \ {run}, Committed(a)'
            PROVE  FALSE
        <5>1. Committed(a)
            BY <3>1, <4>2 DEF Quiet
        <5>2. cache[a].phase = "Active"
            BY <2>0, <4>2, <5>1 DEF IInv, Admission, AdmissionPcs
        <5>3. a = b
            BY <3>0, <4>2, <5>2 DEF IInv, OneCommitted
        <5> QED
            BY <4>1, <4>2, <5>3, PhaseSets DEF Committed
      <4>3. CopyWaits'
        BY <2>0, <3>2, <4>1 DEF IInv, CopyWaits, AdmissionPcs
      <4>4. Admission'
        BY <2>0, <3>2, <4>1, <4>2 DEF Admission
      <4> QED
        BY <1>0, <3>1, <4>1, <4>3, <4>4, QuietStep DEF IInv, TypeOK
    <3> QED
        BY <3>3, <3>4
  <2> QED
    BY <1>15, <2>1, <2>2, <2>3 DEF CheckReadyAndActive
<1>16. ASSUME CheckRestore PROVE IInv'
  <2>0. run \in Backups /\ pc = "restore" /\ UNCHANGED <<cache, resumed, job, event>>
    BY <1>16 DEF IInv, TypeOK, WorkerType, CheckRestore
  <2>1. CASE FinishAs("Pending")
    BY <1>0, <2>0, <2>1, HoldStep DEF AdmissionPcs
  <2>2. CASE Goto("guard") /\ UNCHANGED objects
    BY <1>0, <2>0, <2>2, ProgressStep DEF AdmissionPcs
  <2> QED
    BY <1>16, <2>1, <2>2 DEF CheckRestore
<1>17. ASSUME AcquireTargetGuard PROVE IInv'
  <2>0. run \in Backups /\ pc = "guard" /\ UNCHANGED <<cache, resumed, job, event>>
    BY <1>17 DEF IInv, TypeOK, WorkerType, AcquireTargetGuard
  <2>1. CASE FinishAs("Pending")
    BY <1>0, <2>0, <2>1, HoldStep DEF AdmissionPcs
  <2>2. CASE UNCHANGED objects /\ (Goto("target") \/ Goto("fail") \/ TryAgain)
    BY <1>0, <2>0, <2>2, ProgressStep DEF AdmissionPcs
  <2>3. ASSUME NEW b \in Backups \ {run}, CancelForReplacement(b, "replaceHolder")
        PROVE  IInv'
    <3>0. "replaceHolder" \in Pcs \ {"idle"}
        BY DEF Pcs
    <3>1. Quiet
        BY <2>0, <2>3, <3>0, CancelQuiet
    <3>2. /\ api'[run] = api[run] /\ pc' \in {"fail", "replaceHolder"} /\ UNCHANGED run
          /\ run \in fresh' => run \in fresh
        BY <2>0, <2>3, <3>0, CancelEffect DEF IInv, TypeOK, Proceed, Goto
    <3>3. CopyWaits' /\ Admission'
        BY <2>0, <3>1, <3>2, AdmissionStep DEF AdmissionPcs
    <3> QED
        BY <1>0, <3>1, <3>2, <3>3, QuietStep DEF IInv, TypeOK
  <2> QED
    BY <1>17, <2>0, <2>1, <2>2, <2>3 DEF AcquireTargetGuard, Claim, ClaimRefused
<1>18. ASSUME CreateTarget PROVE IInv'
  <2>0. run \in Backups /\ pc = "target"
    BY <1>18 DEF IInv, TypeOK, WorkerType, CreateTarget
  <2>1. /\ \A a \in Backups \ {run} : job'[a] = job[a]
        /\ job[run] # "none" => job'[run] # "none"
        /\ UNCHANGED <<api, cache, stale, event, resumed>>
        /\ \/ pc' = "idle"
           \/ pc' = "fail" /\ UNCHANGED run /\ (run \in fresh' => run \in fresh)
           \/ /\ pc' = "prepare" /\ job'[run] # "none"
              /\ UNCHANGED run /\ (run \in fresh' => run \in fresh)
    BY <1>18, <2>0 DEF IInv, TypeOK, PodsType, CreateTarget, Goto, Return
  <2>2. CopyWaits'
    BY <2>0, <2>1 DEF IInv, CopyWaits, AdmissionPcs
  <2>3. Admission'
    BY <2>0, <2>1 DEF IInv, Admission, Committed, AdmissionPcs
  <2>4. PodsKnown'
    BY <2>0, <2>1 DEF IInv, PodsKnown, CopyWaits, AdmissionPcs
  <2>5. CacheExact' /\ CacheBehind'
    BY <2>1 DEF IInv, CacheExact, CacheBehind
  <2>6. OneCommitted'
    BY <2>0, <2>1 DEF IInv, OneCommitted, Committed, Admission, AdmissionPcs
  <2> QED
    BY <1>0, <2>2, <2>3, <2>4, <2>5, <2>6 DEF IInv
<1>19. ASSUME SetPreparing PROVE IInv'
  <2>0. run \in Backups
    BY <1>19 DEF IInv, TypeOK, WorkerType, SetPreparing
  <2>1. CopyWaits' /\ Admission'
    BY <1>19, LeaveStep DEF SetPreparing, FinishAs, Return, AdmissionPcs
  <2>2. CASE run \notin fresh
    <3>1. Quiet
        BY <1>19, <2>2 DEF Quiet, Recorded, Move, Committed, SetPreparing,
           FinishAs
    <3> QED
        BY <1>0, <1>19, <2>1, <3>1, QuietStep DEF IInv, TypeOK, SetPreparing,
           FinishAs, Return
  <2>3. CASE run \in fresh
    <3>1. /\ \A a \in Backups \ {run} : api'[a] = api[a]
          /\ api'[run].phase = "Active" /\ stale' = stale \cup {run}
          /\ UNCHANGED <<cache, job, event, resumed>> /\ pc' = "idle"
        BY <1>19, <2>0, <2>3 DEF IInv, TypeOK, RunsType, BackupJob,
           SetPreparing, FinishAs, UpdateRun, Return
    <3>2. api[run].phase \in {"New", "Pending"}
        BY <1>19, <2>3 DEF IInv, CopyWaits, AdmissionPcs, SetPreparing
    <3>3. CacheExact'
        BY <3>1 DEF IInv, CacheExact
    <3>4. CacheBehind'
        BY <2>0, <3>1, <3>2, MovesKeepCacheBehind DEF IInv, Move
    <3>5. PodsKnown'
        BY <1>19, <2>0, <3>1 DEF IInv, PodsKnown, SetPreparing
    <3>6. OneCommitted'
        BY <1>19, <2>0, <3>1, <3>2 DEF IInv, OneCommitted, Committed,
           Admission, AdmissionPcs, SetPreparing
    <3> QED
        BY <1>0, <2>1, <3>3, <3>4, <3>5, <3>6 DEF IInv
  <2> QED
    BY <2>2, <2>3
<1>20. ASSUME FailBackupJob PROVE IInv'
  <2>1. Quiet
    BY <1>20, SMTT(20) DEF IInv, TypeOK, RunsType, BackupJob, WorkerType, Quiet,
       Recorded, Move, Committed, FailBackupJob, UpdateRun, Over, Terminal
  <2>2. CopyWaits' /\ Admission'
    BY <1>20, LeaveStep DEF AdmissionPcs, FailBackupJob, Goto, Return
  <2> QED
    BY <1>0, <1>20, <2>1, <2>2, QuietStep DEF IInv, TypeOK, FailBackupJob,
       Goto, Return
<1>21. ASSUME ReleaseTargetGuards PROVE IInv'
  <2>1. Quiet
    BY <1>21 DEF IInv, TypeOK, RunsType, BackupJob, Quiet, Recorded, Move,
       Committed, ReleaseTargetGuards
  <2>2. pc' \in {"idle", "prune", "finalize"}
    BY <1>21 DEF ReleaseTargetGuards, ListHistory, Return, Goto, Proceed
  <2>3. CopyWaits' /\ Admission'
    BY <2>2, LeaveStep DEF AdmissionPcs
  <2> QED
    BY <1>0, <2>1, <2>2, <2>3, QuietStep DEF IInv, TypeOK
<1>22. ASSUME RemoveFinalizer PROVE IInv'
  <2>1. Quiet
    BY <1>22 DEF IInv, TypeOK, RunsType, BackupJob, Quiet, Recorded, Move,
       Committed, PodsType, WorkerType, RemoveFinalizer, FinishAs, UpdateRun,
       StopJobs, Over
  <2>2. CopyWaits' /\ Admission'
    BY <1>22, LeaveStep DEF AdmissionPcs, RemoveFinalizer, FinishAs, Return
  <2> QED
    BY <1>0, <1>22, <2>1, <2>2, QuietStep DEF IInv, TypeOK, RemoveFinalizer,
       FinishAs, Return
<1>23. ASSUME NEW b \in Backups, TargetStarts(b) PROVE IInv'
  <2>1. Quiet
    BY <1>23 DEF IInv, TypeOK, RunsType, BackupJob, Quiet, Recorded, Move,
       Committed, PodsType, TargetStarts
  <2>2. CopyWaits' /\ Admission'
    BY <1>23, <2>1, ForeignStep DEF Kept, TargetStarts
  <2> QED
    BY <1>0, <1>23, <2>1, <2>2, QuietStep DEF IInv, TypeOK, TargetStarts
<1>24. ASSUME NEW b \in Backups, TargetEnds(b) PROVE IInv'
  <2>1. Quiet
    BY <1>24 DEF IInv, TypeOK, RunsType, BackupJob, Quiet, Recorded, Move,
       Committed, PodsType, TargetEnds
  <2>2. CopyWaits' /\ Admission'
    BY <1>24, <2>1, ForeignStep DEF Kept, TargetEnds
  <2> QED
    BY <1>0, <1>24, <2>1, <2>2, QuietStep DEF IInv, TypeOK, TargetEnds
<1>25. ASSUME NEW b \in Backups, TargetStops(b) PROVE IInv'
  <2>1. Quiet
    BY <1>25 DEF IInv, TypeOK, RunsType, BackupJob, Quiet, Recorded, Move,
       Committed, PodsType, TargetStops
  <2>2. CopyWaits' /\ Admission'
    BY <1>25, <2>1, ForeignStep DEF Kept, TargetStops
  <2> QED
    BY <1>0, <1>25, <2>1, <2>2, QuietStep DEF IInv, TypeOK, TargetStops
<1>26. ASSUME NEW b \in Backups, ApplyTargetEvent(b) PROVE IInv'
  <2>0. cache[b] = api[b] /\ event[b] \in {"Ready", "Completed", "Failed"}
    BY <1>26 DEF IInv, TypeOK, PodsType, CacheExact, ApplyTargetEvent
  <2>1. /\ \A a \in Backups \ {b} : api'[a] = api[a]
        /\ \/ api'[b] = api[b]
           \/ /\ stale' = stale \cup {b}
              /\ api'[b].phase = Reported(api[b].phase, event[b])
    BY <1>26 DEF IInv, TypeOK, RunsType, BackupJob, ApplyTargetEvent, Write
  <2>2. \/ api'[b].phase = api[b].phase
        \/ api'[b].phase = "Active" /\ api[b].phase = "New" /\ job[b] # "none"
        \/ api'[b].phase \in {"Succeeded", "Failed"}
    BY <2>0, <2>1, PhaseSets DEF IInv, PodsKnown, Reported
  <2>3. Quiet
    BY <1>26, <2>1, <2>2, PhaseSets DEF IInv, TypeOK, PodsType, Quiet,
       Recorded, Move, Committed, ApplyTargetEvent, Write
  <2>4. Kept
    <3>1. CASE UNCHANGED <<objects, fresh>>
        BY <3>1 DEF Kept
    <3>2. CASE ~UNCHANGED <<objects, fresh>>
        BY <1>26, <3>2, WriteOutdatesCopy DEF IInv, ApplyTargetEvent
    <3> QED
        BY <3>1, <3>2
  <2>5. CopyWaits' /\ Admission'
    BY <1>26, <2>3, <2>4, ForeignStep DEF ApplyTargetEvent
  <2> QED
    BY <1>0, <1>26, <2>3, <2>5, QuietStep DEF IInv, TypeOK, ApplyTargetEvent
<1>27. ASSUME CancelMerged PROVE IInv'
  <2>0. /\ run \in Backups /\ pc = "merge" /\ victims \subseteq Backups \ {run}
        /\ UNCHANGED <<cache, resumed, job, event>>
    BY <1>27 DEF IInv, TypeOK, WorkerType, CopyWaits, CancelMerged
  <2>1. PICK d \in victims :
           /\ \/ /\ d \in fresh /\ stale' = stale \cup {d}
                 /\ api' = [api EXCEPT ![d].phase = "Canceled"]
              \/ d \notin fresh /\ UNCHANGED objects
           /\ \/ Goto("fail")
              \/ /\ d \in fresh \/ api[d].phase \in Missing
                 /\ \/ victims = {d} /\ Goto("active")
                    \/ Proceed("merge", victims \ {d}, FALSE) /\ fresh' = fresh \ {d}
    BY <1>27 DEF CancelMerged
  <2>2. /\ \A a \in Backups \ {d} : api'[a] = api[a]
        /\ api'[run] = api[run]
        /\ \/ UNCHANGED objects
           \/ api'[d].phase = "Canceled" /\ stale' = stale \cup {d}
    BY <2>0, <2>1 DEF IInv, TypeOK, RunsType, BackupJob
  <2>3. Quiet
    BY <2>0, <2>2, PhaseSets DEF Quiet, Recorded, Move, Committed
  <2>4. CASE Goto("fail")
    <3>1. CopyWaits' /\ Admission'
        BY <2>0, <2>2, <2>3, <2>4, GotoKeeps, AdmissionStep DEF AdmissionPcs
    <3> QED
        BY <1>0, <2>3, <2>4, <3>1, GotoKeeps, QuietStep DEF IInv, TypeOK
  <2>5. CASE ~Goto("fail")
    <3>1. /\ UNCHANGED run /\ (run \in fresh' => run \in fresh)
          /\ \/ pc' = "active" /\ victims = {d}
             \/ pc' = "merge" /\ victims' = victims \ {d} /\ fresh' = fresh \ {d}
        BY <2>1, <2>5 DEF Goto, Proceed
    <3>2. ~Committed(d)'
        <4>1. api'[d].phase \in {"Canceled"} \cup Missing
            <5>1. CASE d \in fresh
                BY <2>0, <2>1, <5>1 DEF IInv, TypeOK, RunsType, BackupJob
            <5>2. CASE d \notin fresh
                BY <2>1, <2>5, <5>2
            <5> QED
                BY <5>1, <5>2
        <4> QED
            BY <4>1, PhaseSets DEF Committed
    <3>3. CopyWaits'
        BY <2>0, <2>2, <3>1 DEF IInv, CopyWaits, AdmissionPcs
    <3>4. ASSUME ~resumed, api[run].phase \in {"New", "Pending"},
                 NEW a \in Backups \ {run}, Committed(a)'
          PROVE  \/ pc' = "merge" /\ a \in victims'
                 \/ api'[a].phase = "Active" /\ cache[a].phase = "Active"
        <4>1. a # d /\ Committed(a) /\ api'[a] = api[a]
            BY <2>2, <2>3, <3>2, <3>4 DEF Quiet
        <4>2. a \in victims \/ (api[a].phase = "Active" /\ cache[a].phase = "Active")
            BY <2>0, <3>4, <4>1 DEF IInv, Admission, AdmissionPcs
        <4> QED
            BY <3>1, <4>1, <4>2
    <3>5. Admission'
        BY <2>0, <2>2, <3>1, <3>4 DEF Admission
    <3> QED
        BY <1>0, <2>3, <3>1, <3>3, <3>5, QuietStep DEF IInv, TypeOK
  <2> QED
    BY <2>4, <2>5
<1>28. ASSUME CleanupReplaced PROVE IInv'
  <2>1. /\ pc \in AdmissionPcs \ {"coalesce", "merge", "active"}
        /\ UNCHANGED <<objects, cache, resumed, event>>
        /\ \/ Goto("fail") \/ Goto("restore")
           \/ Proceed("claim", {}, leaseFresh) /\ UNCHANGED fresh
    BY <1>28 DEF CleanupReplaced, AdmissionPcs
  <2>2. \A a \in Backups : job[a] = "none" <=> job'[a] = "none"
    BY <1>28 DEF CleanupReplaced, IInv, TypeOK, PodsType, StopJobs
  <2> QED
    BY <1>0, <2>1, <2>2, ProgressStep
<1>29. ASSUME ClaimReplaced PROVE IInv'
  <2>1. /\ pc \in AdmissionPcs \ {"coalesce", "merge", "active"}
        /\ UNCHANGED <<objects, cache, resumed, event, job>>
        /\ Goto("fail") \/ Goto("target") \/ TryAgain
    BY <1>29 DEF ClaimReplaced, Claim, ClaimRefused, AdmissionPcs
  <2> QED
    BY <1>0, <2>1, ProgressStep
<1>30. ASSUME PruneHistory PROVE IInv'
  <2>1. PICK b \in victims :
           /\ StopJobs(b)
           /\ \/ api' = [api EXCEPT ![b].phase = "gone"] /\ stale' = stale \cup {b}
              \/ UNCHANGED objects
           /\ pc' \in {"idle", "prune"}
    BY <1>30 DEF PruneHistory, Return, Proceed
  <2>2. b \in Backups /\ UNCHANGED <<cache, event, resumed>>
    BY <1>30 DEF PruneHistory, IInv, TypeOK, WorkerType
  <2>3. /\ \A a \in Backups \ {b} : api'[a] = api[a]
        /\ UNCHANGED objects \/ (api'[b].phase = "gone" /\ stale' = stale \cup {b})
        /\ \A a \in Backups : job[a] = "none" <=> job'[a] = "none"
    BY <2>1, <2>2 DEF IInv, TypeOK, RunsType, BackupJob, PodsType, StopJobs
  <2>4. Quiet
    BY <2>2, <2>3, PhaseSets DEF Quiet, Recorded, Move, Committed
  <2>5. CopyWaits' /\ Admission'
    BY <2>1, LeaveStep DEF AdmissionPcs
  <2> QED
    BY <1>0, <2>1, <2>4, <2>5, QuietStep DEF IInv, TypeOK
<1>31. ASSUME UNCHANGED <<api, cache, stale, job, event, pc, run, fresh, victims, resumed>>
       PROVE  IInv'
    BY <1>0, <1>31 DEF IInv, CacheExact, CopyWaits, CacheBehind, PodsKnown,
       OneCommitted, Committed, Admission
<1> QED
    BY <1>1, <1>2, <1>3, <1>4, <1>5, <1>6, <1>7, <1>8, <1>9, <1>10, <1>11,
       <1>12, <1>13, <1>14, <1>15, <1>16, <1>17, <1>18, <1>19, <1>20, <1>21,
       <1>22, <1>23, <1>24, <1>25, <1>26, <1>27, <1>28, <1>29, <1>30, <1>31
       DEF Next, Cluster, Reconcile, WorkerStep, CreateRestore, MachineReadiness, SyncLease, SyncRestores,
       AdmitRestore, StartRestore, EndRestore

\* The invariant holds in every reachable state.
LEMMA InvariantHolds == Spec => []IInv
BY InitInvariant, InvariantStep, PTL DEF Spec

\* At most one run of a machine is active unless a Failed run was resumed: for
\* any number of runs, either concurrency policy, any interleaving of the
\* workers with lagging caches, refused updates, crashes and early events.
THEOREM AtMostOneActive == Spec => []OneActiveBackup
<1>1. IInv => OneActiveBackup
    BY DEF IInv, OneCommitted, Committed, OneActiveBackup, active,
       ActiveRunBlocksTargetMutation
<1> QED
    BY <1>1, InvariantHolds, PTL

-----------------------------------------------------------------------------
(* No preemption under Forbid                                              *)

\* No step under Forbid cancels an active run.
LEMMA StepPreemptsNone ==
    ASSUME IInv, [Next]_vars, Policy = "Forbid", NEW a \in active
    PROVE  api'[a].phase # "Canceled"
<1> USE DEF vars, objects, worker, plan, leases, caches, pods, others
<1>0. /\ a \in Backups /\ api[a].phase = "Active"
      /\ api \in [Backups -> BackupJob]
      /\ pc # "idle" => run \in Backups
    BY DEF active, ActiveRunBlocksTargetMutation, IInv, TypeOK, RunsType,
       WorkerType
<1>1. ASSUME NEW b \in Backups, CreateBackup(b) PROVE api'[a].phase # "Canceled"
    BY <1>0, <1>1 DEF BackupJob, CreateBackup, Write
<1>2. ASSUME NEW b \in Backups, DeleteBackup(b) PROVE api'[a].phase # "Canceled"
    BY <1>0, <1>2 DEF BackupJob, DeleteBackup, Write
<1>3. ASSUME NEW b \in Backups, TouchBackup(b) PROVE api'[a].phase # "Canceled"
    BY <1>0, <1>3 DEF BackupJob, TouchBackup, Write
<1>4. ASSUME NEW b \in Backups, resumeRecoveredBackupJob(b) PROVE api'[a].phase # "Canceled"
    BY <1>0, <1>4 DEF BackupJob, resumeRecoveredBackupJob, DoneOrConflict
<1>5. ASSUME NEW b \in Backups, AddFinalizer(b) PROVE api'[a].phase # "Canceled"
    BY <1>0, <1>5 DEF BackupJob, AddFinalizer, DoneOrConflict
<1>6. ASSUME NEW b \in Backups, TargetJobEnded(b) PROVE api'[a].phase # "Canceled"
    BY <1>0, <1>6 DEF BackupJob, TargetJobEnded, EndBackupJob, JobOutcomes
<1>7. ASSUME NEW b \in Backups, SourceJobFailed(b) PROVE api'[a].phase # "Canceled"
    BY <1>0, <1>7 DEF BackupJob, SourceJobFailed, EndBackupJob
<1>8. ASSUME NEW b \in Backups, BackupJobStaysActive(b) PROVE api'[a].phase # "Canceled"
    BY <1>0, <1>8 DEF BackupJob, BackupJobStaysActive, DoneOrConflict
<1>9. ASSUME Coalesce PROVE api'[a].phase # "Canceled"
    BY <1>0, <1>9 DEF BackupJob, Coalesce, IInv, CopyWaits, AdmissionPcs, FinishAs,
       UpdateRun
<1>10. ASSUME CheckReadyAndActive PROVE api'[a].phase # "Canceled"
    BY <1>0, <1>10 DEF BackupJob, CheckReadyAndActive, FinishAs, UpdateRun
<1>11. ASSUME CheckRestore PROVE api'[a].phase # "Canceled"
    BY <1>0, <1>11 DEF BackupJob, CheckRestore, FinishAs, UpdateRun
<1>12. ASSUME AcquireTargetGuard PROVE api'[a].phase # "Canceled"
    BY <1>0, <1>12 DEF BackupJob, AcquireTargetGuard, FinishAs, UpdateRun
<1>13. ASSUME SetPreparing PROVE api'[a].phase # "Canceled"
    BY <1>0, <1>13 DEF BackupJob, SetPreparing, FinishAs, UpdateRun
<1>14. ASSUME FailBackupJob PROVE api'[a].phase # "Canceled"
    BY <1>0, <1>14 DEF BackupJob, FailBackupJob, UpdateRun
<1>15. ASSUME RemoveFinalizer PROVE api'[a].phase # "Canceled"
    BY <1>0, <1>15 DEF BackupJob, RemoveFinalizer, FinishAs, UpdateRun
<1>16. ASSUME NEW b \in Backups, ApplyTargetEvent(b) PROVE api'[a].phase # "Canceled"
    BY <1>0, <1>16 DEF BackupJob, ApplyTargetEvent, Write, Reported, IInv,
       TypeOK, PodsType
<1>17. ASSUME CancelMerged PROVE api'[a].phase # "Canceled"
    BY <1>0, <1>17, PhaseSets DEF BackupJob, CancelMerged, IInv, CopyWaits
<1>18. ASSUME PruneHistory PROVE api'[a].phase # "Canceled"
    BY <1>0, <1>18 DEF BackupJob, PruneHistory
<1>19. CASE UNCHANGED api
    BY <1>0, <1>19
<1> QED
    BY <1>1, <1>2, <1>3, <1>4, <1>5, <1>6, <1>7, <1>8, <1>9, <1>10, <1>11,
       <1>12, <1>13, <1>14, <1>15, <1>16, <1>17, <1>18, <1>19
       DEF Next, Cluster, Reconcile, WorkerStep, CreateRestore, MachineReadiness, SyncBackups, SyncLease,
       SyncRestores, Crash, ReconcileDeleting, ReconcileTerminal,
       ReconcileWaiting, CleanupReplaced, ClaimReplaced, CreateTarget, ReleaseTargetGuards, AdmitRestore,
       StartRestore, EndRestore, TargetStarts, TargetEnds, TargetStops

\* Under Forbid no step cancels an active run: a merge touches only runs whose
\* cached copy is current, and an outdated copy is refused.
THEOREM NoPreemption == Spec => ForbidNeverPreempts
<1>1. IInv /\ [Next]_vars =>
        [\A b \in Backups :
            Policy = "Forbid" /\ b \in active => api'[b].phase # "Canceled"]_vars
    BY StepPreemptsNone
<1> QED
    BY <1>1, InvariantHolds, PTL DEF Spec, ForbidNeverPreempts

=============================================================================
