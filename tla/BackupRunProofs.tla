--------------------------- MODULE BackupRunProofs ---------------------------
(***************************************************************************)
(* A Succeeded BackupJob has a promoted snapshot with the whole data of    *)
(* every source, and the path of its status names it, for any sources,     *)
(* capture modes, faults and clock.                                        *)
(*                                                                         *)
(* The invariant follows one chain of evidence.  A source Job that is      *)
(* complete stays complete, because the worker only deletes Jobs its cache *)
(* shows as failed and only creates Jobs that do not exist (SeenJobs), and *)
(* its data is whole (CompleteWhole).  So the finalize command, sent when  *)
(* all are complete in the cache, finds all data on the volume             *)
(* (FinalizeAfterAll) and carries a timestamp (Stamped).  Only a target    *)
(* that promoted is complete or reports Completed (Promoted, Reported).    *)
(* After that report it may die but does not report a failure, so nothing  *)
(* in the hub can take a Succeeded run back (Settled).                     *)
(***************************************************************************)
EXTENDS BackupRun, TLAPS

\* The types of what the run's status is derived from.
Types ==
    /\ job \in [Sources -> SourceJob]
    /\ target \in {"starting", "serving", "finalizing", "promoted", "reported", "complete",
                   "failed"}
    /\ seen \in [target : {"running", "complete", "failed"}, source : [Sources -> CachedJob]]
    /\ whole \subseteq Sources /\ counted \subseteq Sources
    /\ log \in Seq(TargetCommands) /\ taken \in 0..Len(log)
    /\ stamp \in 0..MaxTime /\ final \in 0..MaxTime /\ now \in 0..MaxTime
    /\ hub \in Seq(Events)

\* A Job that the cache shows complete is complete; one it shows failed has not been
\* created anew.
SeenJobs == \A s \in Sources :
    /\ seen.source[s].status = "complete" => job[s].status = "complete"
    /\ seen.source[s].status = "failed" => job[s].status \in {"failed", "none"}

CompleteWhole == \A s \in Sources : job[s].status = "complete" => s \in whole

AllJobsComplete == \A s \in Sources : job[s].status = "complete"

\* The finalize command, once it is in the log or taken, finds every Job complete.
FinalizeAfterAll ==
    /\ \A i \in 1..Len(log) : log[i].id = "finalize" => AllJobsComplete
    /\ target = "finalizing" \/ final # 0 => AllJobsComplete

\* A finalize command has a timestamp.
Stamped == /\ \A i \in 1..Len(log) : log[i].id = "finalize" => log[i].time # 0
           /\ target = "finalizing" => stamp # 0

\* A target has promoted a snapshot when it reports or is complete, and not before.
Promoted == /\ target \in {"promoted", "reported", "complete"} => final # 0
            /\ target \in {"starting", "serving", "finalizing"} => final = 0
            /\ seen.target = "complete" => target = "complete"

\* The states of a target that has reported Completed, or will not report any more.
Ended == {"reported", "complete", "failed"}

\* What waits in the hub is true of the target, for good.
Reported ==
    /\ \A i \in 1..Len(hub) :
          /\ hub[i].kind = "Completed" => target \in Ended /\ final # 0
          /\ hub[i].kind = "TargetFailed" => target = "failed"
    /\ \A i, j \in 1..Len(hub) : ~(hub[i].kind = "Completed" /\ hub[j].kind = "TargetFailed")

World == Types /\ SeenJobs /\ CompleteWhole /\ FinalizeAfterAll /\ Stamped /\ Promoted /\ Reported

\* A Succeeded run's target has reported, and no failure of it.
Settled == run.phase = "Succeeded" =>
              /\ target \in Ended
              /\ \A i \in 1..Len(hub) : hub[i].kind # "TargetFailed"

\* The run, its cached copy, and what they say.
Record == /\ run \in BackupJob /\ view \in BackupJob /\ stale \in BOOLEAN
          /\ ~stale => view = run
          /\ SucceededFinalized /\ CompletedRecorded /\ Settled

CaptureType == discovered \in BOOLEAN /\ capture \in [Sources -> Captures]

Rest == CaptureType /\ service \in BOOLEAN /\ faults \in 0..MaxFaults

IInv == World /\ Record /\ Rest

\* A Succeeded run keeps its phase, and its path or the promoted one.
Lasts == run.phase = "Succeeded" => /\ run'.phase = "Succeeded"
                                    /\ run'.path = run.path \/ run'.path = final

-----------------------------------------------------------------------------
(* The operators of the model                                              *)

LastCommand == [id : Sources \cup {"none", "finalize"}, sent : 0..MaxTime, acked : BOOLEAN]

\* The fields of a BackupJob.
LEMMA RunFields ==
    ASSUME NEW status \in BackupJob
    PROVE  /\ status.phase \in RunPhases /\ status.last \in LastCommand
           /\ status.targetPhase \in {"none", "Ready", "Completed", "Failed"}
           /\ status.path \in 0..MaxTime /\ status.transfer \in [Sources -> Transfer]
BY DEF BackupJob, LastCommand

\* mergeBackupJobTransferStatus keeps the type of a transfer.
LEMMA MergeType ==
    ASSUME NEW t \in Transfer, NEW phase \in TransferPhases, NEW message \in BOOLEAN
    PROVE  mergeTransfer(t, phase, message) \in Transfer
BY DEF mergeTransfer, Transfer

\* markSourceJobSucceeded keeps the type of the transfers.
LEMMA MarkType ==
    ASSUME NEW transfer \in [Sources -> Transfer], NEW set
    PROVE  markSucceeded(transfer, set) \in [Sources -> Transfer]
<1>1. \A s \in Sources : mergeTransfer(transfer[s], "Succeeded", TRUE) \in Transfer
    BY MergeType DEF TransferPhases
<1>2. QED
    BY <1>1 DEF markSucceeded

\* An entry of the transfers is added or merged.
LEMMA UpsertType ==
    ASSUME NEW transfer \in [Sources -> Transfer], NEW s \in Sources,
           NEW phase \in TransferPhases, NEW message \in BOOLEAN
    PROVE  Upsert(transfer, s, phase, message) \in [Sources -> Transfer]
<1>1. mergeTransfer(transfer[s], phase, message) \in Transfer
    BY MergeType
<1>2. [phase |-> phase, note |-> "none"] \in Transfer
    BY DEF Transfer
<1>3. QED
    BY <1>1, <1>2 DEF Upsert

\* How a pass ends: only phase, transfers, last command and path are changed.
LEMMA OutcomeType ==
    ASSUME view \in BackupJob, NEW phase \in RunPhases, NEW transfer \in [Sources -> Transfer],
           NEW last \in LastCommand, NEW path \in 0..MaxTime
    PROVE  /\ Outcome(phase, transfer, last, path) \in BackupJob
           /\ Outcome(phase, transfer, last, path).phase = phase
           /\ Outcome(phase, transfer, last, path).targetPhase = view.targetPhase
BY DEF Outcome, BackupJob, LastCommand

\* ... with the last command and the path it found.
LEMMA StayType ==
    ASSUME view \in BackupJob, NEW phase \in RunPhases, NEW transfer \in [Sources -> Transfer]
    PROVE  /\ StayIn(phase, transfer) \in BackupJob
           /\ StayIn(phase, transfer).phase = phase
           /\ StayIn(phase, transfer).targetPhase = view.targetPhase
BY OutcomeType, RunFields DEF StayIn

\* The transfers after the complete Jobs are marked.
LEMMA MarkedType ==
    ASSUME view \in BackupJob
    PROVE  Marked \in [Sources -> Transfer]
BY MarkType, RunFields DEF Marked

\* The numbers of faults stay in their bound.
LEMMA FaultBound ==
    ASSUME faults \in 0..MaxFaults, Fault \/ UNCHANGED faults
    PROVE  faults' \in 0..MaxFaults
BY BoundsAssumption DEF Fault

-----------------------------------------------------------------------------
(* The worker                                                              *)

\* A status update of a pass over a run that is not Succeeded in the cache: a Succeeded
\* run is never overwritten, because a pass that still sees it active is refused.
LEMMA UpdateStep ==
    ASSUME IInv, NEW status \in BackupJob, NEW cleanup \in BOOLEAN,
           StatusUpdate(status, cleanup),
           status.targetPhase = view.targetPhase, view.phase # "Succeeded",
           status.phase = "Succeeded" => seen.target = "complete",
           UNCHANGED <<final, target, hub>>, CaptureType'
    PROVE  Record' /\ Rest' /\ Lasts
<1>1. faults' \in 0..MaxFaults
    <2>1. Fault \/ UNCHANGED faults
        BY DEF StatusUpdate
    <2>2. QED
        BY <2>1, FaultBound DEF IInv, Rest
<1>2. service' \in BOOLEAN
    BY DEF StatusUpdate, IInv, Rest
<1>3. CASE UNCHANGED object
    BY <1>1, <1>2, <1>3
       DEF IInv, Record, Rest, Lasts, object, SucceededFinalized, CompletedRecorded, Settled
<1>4. CASE ~stale /\ run' = status /\ stale' = TRUE /\ UNCHANGED view
    <2>1. view = run
        BY <1>4 DEF IInv, Record
    <2>2. status.targetPhase # "Completed" /\ run.phase # "Succeeded"
        BY <2>1 DEF IInv, Record, CompletedRecorded
    <2>3. status.phase = "Succeeded" =>
             /\ final # 0 /\ target \in Ended
             /\ \A i \in 1..Len(hub) : hub[i].kind # "TargetFailed"
        BY DEF IInv, World, Promoted, Reported, Ended
    <2>4. SucceededFinalized' /\ CompletedRecorded' /\ Settled'
        BY <1>4, <2>2, <2>3 DEF SucceededFinalized, CompletedRecorded, Settled
    <2>5. QED
        BY <1>1, <1>2, <1>4, <2>2, <2>4 DEF IInv, Record, Rest, Lasts
<1>5. QED
    BY <1>3, <1>4 DEF StatusUpdate

\* What a pass does to Jobs and command log: it deletes Jobs its cache shows as failed,
\* creates Jobs that do not exist, and sends finalize when its cache shows all complete.
LEMMA PassWorld ==
    ASSUME World, UNCHANGED <<target, seen, whole, counted, taken, stamp, final, hub>>,
           now' \in 0..MaxTime, job' \in [Sources -> SourceJob],
           \A s \in Sources :
              \/ job'[s].status = job[s].status
              \/ seen.source[s].status = "failed" /\ job'[s].status = "none"
              \/ /\ seen.source[s].status = "none" /\ job[s].status = "none"
                 /\ job'[s].status = "created",
           \/ log' = log
           \/ \E c \in TargetCommands :
                 /\ log' = Append(log, c)
                 /\ c.id = "finalize" =>
                       c.time # 0 /\ \A s \in Sources : seen.source[s].status = "complete"
    PROVE  World'
<1>1. /\ log' \in Seq(TargetCommands) /\ Len(log) <= Len(log')
      /\ \A i \in 1..Len(log') :
            \/ i \in 1..Len(log) /\ log'[i] = log[i]
            \/ log'[i].id = "finalize" =>
                  log'[i].time # 0 /\ \A s \in Sources : seen.source[s].status = "complete"
    <2>1. log \in Seq(TargetCommands)
        BY DEF World, Types
    <2>2. CASE log' = log
        BY <2>1, <2>2
    <2>3. ASSUME NEW c \in TargetCommands, log' = Append(log, c),
                 c.id = "finalize" =>
                    c.time # 0 /\ \A s \in Sources : seen.source[s].status = "complete"
          PROVE  /\ log' \in Seq(TargetCommands) /\ Len(log) <= Len(log')
                 /\ \A i \in 1..Len(log') : (i \in 1..Len(log) /\ log'[i] = log[i]) \/ log'[i] = c
        BY <2>1, <2>3
    <2>4. QED
        BY <2>2, <2>3
<1>2. Types'
    <2>1. taken \in 0..Len(log')
        <3>1. taken \in 0..Len(log) /\ Len(log) \in Nat /\ Len(log') \in Nat
            BY <1>1 DEF World, Types
        <3>2. QED
            BY <1>1, <3>1
    <2>2. QED
        BY <1>1, <2>1 DEF World, Types
<1>3. \A s \in Sources : job[s].status = "complete" <=> job'[s].status = "complete"
    BY DEF World, SeenJobs
<1>4. SeenJobs' /\ CompleteWhole'
    BY <1>3 DEF World, SeenJobs, CompleteWhole
<1>5. FinalizeAfterAll'
    <2>1. AllJobsComplete => AllJobsComplete'
        BY <1>3 DEF AllJobsComplete
    <2>2. (\A s \in Sources : seen.source[s].status = "complete") => AllJobsComplete
        BY DEF AllJobsComplete, World, SeenJobs
    <2>3. QED
        BY <1>1, <2>1, <2>2 DEF World, FinalizeAfterAll
<1>6. Stamped'
    BY <1>1 DEF World, Stamped
<1>7. Promoted' /\ Reported'
    BY DEF World, Promoted, Reported
<1>8. QED
    BY <1>2, <1>4, <1>5, <1>6, <1>7 DEF World

\* Nothing but the run is changed.
LEMMA SameWorld ==
    ASSUME World, UNCHANGED <<job, target, seen, whole, counted, log, taken, stamp, final, hub>>,
           now' \in 0..MaxTime
    PROVE  World'
BY PassWorld DEF World, Types

-----------------------------------------------------------------------------
(* Passes of the worker                                                    *)

\* A pass that only updates the run.
LEMMA UpdateOnly ==
    ASSUME IInv, NEW status \in BackupJob, NEW cleanup \in BOOLEAN,
           StatusUpdate(status, cleanup),
           status.targetPhase = view.targetPhase, view.phase # "Succeeded",
           status.phase = "Succeeded" => seen.target = "complete",
           UNCHANGED <<pods, seen, data, commands, hub, now>>, CaptureType'
    PROVE  IInv' /\ Lasts
<1>1. UNCHANGED <<final, target, hub>>
    BY DEF commands, pods
<1>2. World'
    BY SameWorld DEF IInv, World, Types, pods, data, commands
<1>3. QED
    BY <1>1, <1>2, UpdateStep DEF IInv

\* A failed source Job that is waited for, recovered from or retried.
LEMMA RecoverablePass ==
    ASSUME IInv, NEW s \in Sources, NEW transfer \in [Sources -> Transfer],
           seen.source[s].status = "failed", Active,
           reconcileRecoverableSourceJobFailure(s, transfer),
           UNCHANGED <<target, seen, snapshots, data, taken, stamp, final, hub, now>>
    PROVE  IInv' /\ Lasts
<1>1. /\ view \in BackupJob /\ view.phase # "Succeeded" /\ CaptureType'
      /\ job \in [Sources -> SourceJob] /\ log \in Seq(TargetCommands) /\ now' \in 0..MaxTime
    BY DEF IInv, Record, Active, Terminal, World, Types, Rest, CaptureType, snapshots
<1>2. CASE UNCHANGED <<object, service, job, log, faults>>
    <2>1. World'
        BY <1>1, <1>2, SameWorld DEF IInv, data
    <2>2. QED
        BY <1>1, <1>2, <2>1
           DEF IInv, Record, Rest, Lasts, SucceededFinalized, CompletedRecorded, Settled, object
<1>3. CASE /\ job' = [job EXCEPT ![s] = NoJob]
           /\ StatusUpdate([view EXCEPT !.phase = "Running",
                            !.transfer = [transfer EXCEPT ![s] = Retrying]], FALSE)
           /\ UNCHANGED log
    <2> DEFINE retried == [transfer EXCEPT ![s] = Retrying]
               status  == [view EXCEPT !.phase = "Running", !.transfer = retried]
    <2>1. retried \in [Sources -> Transfer]
        BY DEF Retrying, Transfer, TransferPhases
    <2>2. StatusUpdate(status, FALSE)
        BY <1>3
    <2> HIDE DEF retried
    <2>3. /\ status \in BackupJob /\ status.phase = "Running"
          /\ status.targetPhase = view.targetPhase
        BY <1>1, <2>1 DEF BackupJob, RunPhases
    <2> HIDE DEF status
    <2>4. /\ job' \in [Sources -> SourceJob]
          /\ \A x \in Sources : \/ job'[x].status = job[x].status
                                \/ seen.source[x].status = "failed" /\ job'[x].status = "none"
        BY <1>1, <1>3 DEF NoJob, SourceJob
    <2>5. World'
        BY <1>1, <1>3, <2>4, PassWorld DEF IInv, data
    <2>6. QED
        BY <1>1, <2>2, <2>3, <2>5, UpdateStep DEF IInv
<1>4. CASE /\ EnqueueTargetCommand([id |-> s, time |-> 0])
           /\ StatusUpdate([view EXCEPT !.last = [id |-> s, sent |-> 0, acked |-> FALSE],
                                        !.transfer = transfer], FALSE)
           /\ UNCHANGED job
    <2> DEFINE command == [id |-> s, time |-> 0]
               sent    == [id |-> s, sent |-> 0, acked |-> FALSE]
               status  == [view EXCEPT !.last = sent, !.transfer = transfer]
    <2>1. /\ command \in TargetCommands /\ command.id # "finalize"
          /\ log' = log \/ log' = Append(log, command)
        BY <1>4, BoundsAssumption, SourcesAssumption DEF TargetCommands, EnqueueTargetCommand
    <2>2. sent \in LastCommand
        BY BoundsAssumption DEF LastCommand
    <2>3. StatusUpdate(status, FALSE)
        BY <1>4
    <2> HIDE DEF sent, command
    <2>4. /\ status \in BackupJob /\ status.phase = view.phase
          /\ status.targetPhase = view.targetPhase
        BY <1>1, <2>2 DEF BackupJob, LastCommand
    <2> HIDE DEF status
    <2>5. World'
        BY <1>1, <1>4, <2>1, PassWorld DEF IInv, data
    <2>6. QED
        BY <1>1, <2>3, <2>4, <2>5, UpdateStep DEF IInv
<1>5. QED
    BY <1>2, <1>3, <1>4 DEF reconcileRecoverableSourceJobFailure

\* A pass that fails the run and changes nothing else.
LEMMA FailPass ==
    ASSUME IInv, Active, NEW transfer \in [Sources -> Transfer], NEW cleanup \in BOOLEAN,
           StatusUpdate(FailRun(transfer), cleanup),
           UNCHANGED <<pods, seen, data, commands, hub, now>>, CaptureType'
    PROVE  IInv' /\ Lasts
<1>1. view \in BackupJob /\ view.phase # "Succeeded"
    BY DEF IInv, Record, Active, Terminal
<1>2. /\ FailRun(transfer) \in BackupJob /\ FailRun(transfer).phase = "Failed"
      /\ FailRun(transfer).targetPhase = view.targetPhase
    BY <1>1, StayType DEF FailRun, RunPhases
<1>3. QED
    BY <1>1, <1>2, UpdateOnly

\* The target's Job has failed.
LEMMA FailedTargetPass ==
    ASSUME IInv, ReconcileFailedTarget
    PROVE  IInv' /\ Lasts
<1>1. /\ Active /\ UNCHANGED <<pods, seen, data, commands, hub, now>> /\ CaptureType'
      /\ view \in BackupJob
    BY DEF ReconcileFailedTarget, IInv, Record, Rest, CaptureType, snapshots
<1>2. PICK marked : StatusUpdate(FailRun(markSucceeded(view.transfer, marked)), TRUE)
    BY DEF ReconcileFailedTarget
<1>3. markSucceeded(view.transfer, marked) \in [Sources -> Transfer]
    BY <1>1, MarkType, RunFields
<1>4. QED
    BY <1>1, <1>2, <1>3, FailPass

\* The Job of a source has failed.
LEMMA FailedSourcePass ==
    ASSUME IInv, NEW s \in Sources, ReconcileFailedSource(s)
    PROVE  IInv' /\ Lasts
<1>1. /\ Active /\ UNCHANGED <<target, seen, snapshots, data, taken, stamp, final, hub, now>>
      /\ view \in BackupJob /\ seen.source[s].status = "failed"
    BY DEF ReconcileFailedSource, jobFailed, IInv, Record
<1>2. PICK transfer \in [Sources -> Transfer] :
         \/ StatusUpdate(FailRun(transfer), TRUE) /\ UNCHANGED <<job, log>>
         \/ reconcileRecoverableSourceJobFailure(s, transfer)
    <2>1. PICK marked \in SUBSET {q \in Sources : jobComplete(seen.source[q])} :
             LET transfer == markSucceeded(view.transfer, marked) IN
             \/ reconcileRecoverableSourceJobFailure(s, transfer)
             \/ /\ transfer[s].note = "full" =>
                      view.last.id = s /\ view.last.acked /\ seen.source[s].late
                /\ StatusUpdate(FailRun(transfer), TRUE)
                /\ UNCHANGED <<job, log>>
        BY DEF ReconcileFailedSource
    <2>2. markSucceeded(view.transfer, marked) \in [Sources -> Transfer]
        BY <1>1, MarkType, RunFields
    <2>3. QED
        BY <2>1, <2>2
<1>3. CASE StatusUpdate(FailRun(transfer), TRUE) /\ UNCHANGED <<job, log>>
    <2>1. CaptureType' /\ UNCHANGED <<pods, seen, data, commands, hub, now>>
        BY <1>1, <1>3 DEF IInv, Rest, CaptureType, snapshots, pods, commands
    <2>2. QED
        BY <1>1, <1>3, <2>1, FailPass
<1>4. CASE reconcileRecoverableSourceJobFailure(s, transfer)
    BY <1>1, <1>4, RecoverablePass
<1>5. QED
    BY <1>2, <1>3, <1>4

\* Jobs are running, or the target is not ready.
LEMMA UnfinishedPass ==
    ASSUME IInv, ReconcileUnfinished
    PROVE  IInv' /\ Lasts
<1>1. /\ UNCHANGED <<pods, seen, data, commands, hub, now>> /\ CaptureType'
      /\ view \in BackupJob /\ view.phase # "Succeeded"
    BY DEF ReconcileUnfinished, snapshots, CaptureType, IInv, Record, Rest, Active, Terminal
<1>2. PICK phase \in {"Running", "Preparing"} : StatusUpdate(StayIn(phase, Marked), FALSE)
    BY DEF ReconcileUnfinished
<1>3. /\ StayIn(phase, Marked) \in BackupJob /\ StayIn(phase, Marked).phase = phase
      /\ StayIn(phase, Marked).targetPhase = view.targetPhase
    BY <1>1, MarkedType, StayType DEF RunPhases
<1>4. QED
    BY <1>1, <1>2, <1>3, UpdateOnly

\* A pass through createSourceJobs ends.
LEMMA SourcesOutcomeType ==
    ASSUME view \in BackupJob, NEW phase \in RunPhases, NEW transfer \in [Sources -> Transfer],
           NEW status \in SourcesOutcomes(phase, transfer)
    PROVE  /\ status \in BackupJob
           /\ status.phase = phase /\ status.targetPhase = view.targetPhase
BY StayType DEF SourcesOutcomes

\* What the first loop records.
LEMMA ConsideredType ==
    ASSUME view \in BackupJob, NEW set
    PROVE  Considered(set) \in [Sources -> Transfer]
<1>1. PICK marked \in [Sources -> Transfer] : marked = Marked
    BY MarkedType
<1>2. \A s \in Sources, phase \in TransferPhases :
         Upsert(marked, s, phase, TRUE)[s] \in Transfer
    BY UpsertType
<1>3. {"Preparing", "Skipped"} \subseteq TransferPhases
    BY DEF TransferPhases
<1>4. QED
    BY <1>1, <1>2, <1>3 DEF Considered

\* What both loops record.
LEMMA CreatedType ==
    ASSUME view \in BackupJob, NEW set
    PROVE  Created(set) \in [Sources -> Transfer]
<1>1. PICK considered \in [Sources -> Transfer] : considered = Considered(Sources)
    BY ConsideredType
<1>2. \A s \in Sources : Upsert(considered, s, "Preparing", FALSE)[s] \in Transfer
    BY UpsertType DEF TransferPhases
<1>3. QED
    BY <1>1, <1>2 DEF Created

\* A source's capture is waited for or fails the run.
LEMMA CapturePass ==
    ASSUME IInv, NEW s \in Sources, NEW before \in SUBSET Sources,
           WaitForCapture(s, before) \/ CaptureFails(s, before)
    PROVE  IInv' /\ Lasts
<1>1. /\ UNCHANGED <<pods, seen, data, commands, hub, now>> /\ Active
      /\ view \in BackupJob /\ view.phase # "Succeeded" /\ view.phase \in RunPhases
    BY RunFields
       DEF WaitForCapture, CaptureFails, NeedsSources, IInv, Record, Active, Terminal
<1>2. CaptureType'
    <2>1. capture \in [Sources -> Captures] /\ discovered' \in BOOLEAN
        BY DEF WaitForCapture, CaptureFails, IInv, Rest, CaptureType
    <2>2. {"snapshot", "claimed"} \subseteq Captures
        BY DEF Captures
    <2>3. PICK next \in Captures : capture' = [capture EXCEPT ![s] = next]
        BY <2>1, <2>2 DEF WaitForCapture, CaptureFails
    <2>4. QED
        BY <2>1, <2>3 DEF CaptureType
<1>3. PICK considered \in [Sources -> Transfer] : considered = Considered(before)
    BY <1>1, ConsideredType
<1>4. /\ Upsert(considered, s, "Preparing", TRUE) \in [Sources -> Transfer]
      /\ Upsert(considered, s, "Failed", TRUE) \in [Sources -> Transfer]
    BY UpsertType DEF TransferPhases
<1>5. ASSUME NEW status \in SourcesOutcomes(view.phase, Upsert(considered, s, "Preparing", TRUE)),
             StatusUpdate(status, FALSE)
      PROVE  IInv' /\ Lasts
    <2> DEFINE transfer == Upsert(considered, s, "Preparing", TRUE)
    <2>1. transfer \in [Sources -> Transfer] /\ status \in SourcesOutcomes(view.phase, transfer)
        BY <1>4, <1>5
    <2> HIDE DEF transfer
    <2>2. /\ status \in BackupJob /\ status.phase = view.phase
          /\ status.targetPhase = view.targetPhase
        BY <1>1, <2>1, SourcesOutcomeType
    <2>3. QED
        BY <1>1, <1>2, <1>5, <2>2, UpdateOnly
<1>6. CASE \E transfer \in [Sources -> Transfer] : StatusUpdate(FailRun(transfer), FALSE)
    BY <1>1, <1>2, <1>6, FailPass
<1>7. QED
    BY <1>3, <1>4, <1>5, <1>6 DEF WaitForCapture, CaptureFails

\* The missing Jobs are created, all or, when one exists already, some of them.
LEMMA CreatePass ==
    ASSUME IInv, createSourceJobs \/ CreateConflicts
    PROVE  IInv' /\ Lasts
<1>1. /\ UNCHANGED <<target, seen, data, commands, hub, now>> /\ CaptureType'
      /\ view \in BackupJob /\ view.phase # "Succeeded" /\ final' = final
    BY DEF createSourceJobs, CreateConflicts, NeedsSources, snapshots, commands,
           IInv, Record, Rest, CaptureType, Active, Terminal
<1>2. \A set : Created(set) \in [Sources -> Transfer]
    BY <1>1, CreatedType
<1>3. PICK phase \in {"Running", "Failed"}, status \in BackupJob :
         /\ StatusUpdate(status, FALSE)
         /\ status.phase = phase /\ status.targetPhase = view.targetPhase
    <2>1. {"Running", "Failed"} \subseteq RunPhases
        BY DEF RunPhases
    <2>2. CASE createSourceJobs
        <3>1. PICK transfer \in [Sources -> Transfer] : transfer = Created(Sources)
            BY <1>2
        <3>2. PICK status \in SourcesOutcomes("Running", transfer) : StatusUpdate(status, FALSE)
            BY <2>2, <3>1 DEF createSourceJobs
        <3>3. /\ status \in BackupJob /\ status.phase = "Running"
              /\ status.targetPhase = view.targetPhase
            BY <1>1, <2>1, SourcesOutcomeType
        <3>4. QED
            BY <3>2, <3>3
    <2>3. CASE CreateConflicts
        <3>1. PICK transfer \in [Sources -> Transfer] : StatusUpdate(FailRun(transfer), FALSE)
            BY <1>2, <2>3 DEF CreateConflicts
        <3>2. /\ FailRun(transfer) \in BackupJob /\ FailRun(transfer).phase = "Failed"
              /\ FailRun(transfer).targetPhase = view.targetPhase
            BY <1>1, <2>1, StayType DEF FailRun
        <3>3. QED
            BY <3>1, <3>2
    <2>4. QED
        BY <2>2, <2>3
<1>4. PICK set \in SUBSET Absent : CreateJobs(set)
    BY DEF createSourceJobs, CreateConflicts
<1>5. /\ job' \in [Sources -> SourceJob]
      /\ \A s \in Sources : \/ job'[s].status = job[s].status
                            \/ /\ seen.source[s].status = "none" /\ job[s].status = "none"
                               /\ job'[s].status = "created"
    <2>1. job \in [Sources -> SourceJob] /\ run.last.acked \in BOOLEAN
        BY RunFields DEF IInv, World, Types, Record, LastCommand
    <2>2. [status |-> "created", late |-> run.last.acked] \in SourceJob
        BY <2>1 DEF SourceJob
    <2>3. QED
        BY <1>4, <2>1, <2>2 DEF CreateJobs, Absent, Missing
<1>6. World'
    BY <1>1, <1>5, PassWorld DEF IInv, World, Types, data, commands
<1>7. QED
    BY <1>1, <1>3, <1>6, UpdateStep DEF IInv

\* All Jobs are complete in the cache: finalize is sent, with a timestamp.
LEMMA FinalizePass ==
    ASSUME IInv, enqueueFinalizeCommand
    PROVE  IInv' /\ Lasts
<1>1. /\ UNCHANGED <<pods, seen, snapshots, data, taken, stamp, final, hub>>
      /\ view \in BackupJob /\ view.phase # "Succeeded" /\ CaptureType'
      /\ \A s \in Sources : seen.source[s].status = "complete"
    BY DEF enqueueFinalizeCommand, snapshots, CaptureType, FinalizeDue, AllDone, jobComplete, IInv, Record,
           Rest, Active, Terminal
<1>2. view.last \in LastCommand /\ view.path \in 0..MaxTime /\ now \in 0..MaxTime
    BY <1>1, RunFields DEF IInv, World, Types
<1>3. PICK t \in IF FinalizeSent(view.last) THEN {view.last.sent}
                 ELSE {now, now + 1} \cap 1..MaxTime :
          LET command == [id |-> "finalize", time |-> t]
              last == IF ~Enqueued(command) /\ view.last.id = "finalize" THEN view.last
                      ELSE MarkSent(t)
          IN  /\ now' = IF t > now THEN t ELSE now
              /\ EnqueueTargetCommand(command)
              /\ StatusUpdate(Outcome("Finalizing", Marked, last, view.path), FALSE)
    BY DEF enqueueFinalizeCommand
<1>4. t \in 1..MaxTime
    BY <1>2, <1>3 DEF FinalizeSent, LastCommand
<1>5. now' \in 0..MaxTime
    BY <1>2, <1>3, <1>4
<1> DEFINE command == [id |-> "finalize", time |-> t]
           last    == IF ~Enqueued(command) /\ view.last.id = "finalize" THEN view.last
                      ELSE MarkSent(t)
           status  == Outcome("Finalizing", Marked, last, view.path)
<1>6. /\ command \in TargetCommands /\ command.time # 0
      /\ log' = log \/ log' = Append(log, command)
    BY <1>3, <1>4 DEF TargetCommands, EnqueueTargetCommand
<1>7. StatusUpdate(status, FALSE)
    BY <1>3
<1> HIDE DEF command
<1>8. last \in LastCommand
    BY <1>2, <1>4 DEF MarkSent, LastCommand
<1> HIDE DEF last
<1>9. /\ status \in BackupJob /\ status.phase = "Finalizing"
      /\ status.targetPhase = view.targetPhase
    BY <1>1, <1>2, <1>8, MarkedType, OutcomeType DEF RunPhases
<1> HIDE DEF status
<1>10. World'
    <2>1. \/ log' = log
          \/ \E c \in TargetCommands :
                /\ log' = Append(log, c)
                /\ c.id = "finalize" =>
                      c.time # 0 /\ \A s \in Sources : seen.source[s].status = "complete"
        BY <1>1, <1>6, Zenon
    <2>2. job' = job /\ job \in [Sources -> SourceJob] /\ World
        BY <1>1 DEF pods, IInv, World, Types
    <2>3. UNCHANGED <<target, seen, whole, counted, taken, stamp, final, hub>>
        BY <1>1 DEF pods, data
    <2>4. QED
        BY <1>5, <2>1, <2>2, <2>3, PassWorld
<1>11. UNCHANGED <<final, target, hub>>
    BY <1>1 DEF pods
<1>12. Record' /\ Rest' /\ Lasts
    BY <1>1, <1>7, <1>9, <1>11, UpdateStep
<1>13. QED
    BY <1>10, <1>12 DEF IInv

\* All Jobs are complete, the target's too.
LEMMA SucceededPass ==
    ASSUME IInv, ReconcileSucceeded
    PROVE  IInv' /\ Lasts
<1>1. /\ UNCHANGED <<pods, seen, data, commands, hub, now>> /\ CaptureType'
      /\ view \in BackupJob /\ view.phase # "Succeeded" /\ seen.target = "complete"
    BY DEF ReconcileSucceeded, SucceededDue, FinalizeDue, snapshots, CaptureType, IInv, Record, Rest, Active,
           Terminal
<1> DEFINE path   == IF view.path = 0 THEN view.last.sent ELSE view.path
           status == Outcome("Succeeded", Marked, view.last, path)
<1>2. StatusUpdate(status, TRUE)
    BY DEF ReconcileSucceeded
<1>3. view.last \in LastCommand /\ path \in 0..MaxTime
    BY <1>1, RunFields DEF LastCommand
<1> HIDE DEF path
<1>4. status \in BackupJob /\ status.targetPhase = view.targetPhase
    BY <1>1, <1>3, MarkedType, OutcomeType DEF RunPhases
<1> HIDE DEF status
<1>5. QED
    BY <1>1, <1>2, <1>4, UpdateOnly

\* A terminal run is cleaned up or resumed.
LEMMA TerminalPass ==
    ASSUME IInv, ReconcileTerminal \/ resumeRecoveredBackupJob
    PROVE  IInv' /\ Lasts
<1>1. UNCHANGED <<pods, seen, data, commands, hub, now>> /\ CaptureType'
    <2>1. discovered' \in BOOLEAN /\ capture' \in [Sources -> Captures]
        BY DEF ReconcileTerminal, resumeRecoveredBackupJob, snapshots, IInv, Rest, CaptureType,
               Captures
    <2>2. QED
        BY <2>1 DEF ReconcileTerminal, resumeRecoveredBackupJob, CaptureType
<1>2. CASE ReconcileTerminal
    <2>1. World'
        BY <1>1, SameWorld DEF IInv, World, Types, pods, data, commands
    <2>2. Record' /\ Lasts
        BY <1>2 DEF ReconcileTerminal, IInv, Record, Lasts, object, commands, pods,
                    SucceededFinalized, CompletedRecorded, Settled
    <2>3. service' \in BOOLEAN /\ faults' \in 0..MaxFaults
        BY <1>2 DEF ReconcileTerminal, IInv, Rest
    <2>4. QED
        BY <1>1, <2>1, <2>2, <2>3 DEF IInv, Rest
<1>3. CASE resumeRecoveredBackupJob
    <2> DEFINE status == [view EXCEPT !.phase = "Running"]
    <2>1. view.phase = "Failed" /\ StatusUpdate(status, FALSE) /\ view \in BackupJob
        BY <1>3 DEF resumeRecoveredBackupJob, IInv, Record
    <2>2. /\ status \in BackupJob /\ status.phase = "Running"
          /\ status.targetPhase = view.targetPhase
        BY <2>1 DEF BackupJob, RunPhases
    <2> HIDE DEF status
    <2>3. QED
        BY <1>1, <2>1, <2>2, UpdateOnly
<1>4. QED
    BY <1>2, <1>3

-----------------------------------------------------------------------------
(* ControlEventApplier                                                     *)

\* An event of the hub, applied to a run.  A report of the target that contradicts a
\* Succeeded run cannot be in the hub.
LEMMA AppliedRun ==
    ASSUME IInv, NEW event \in Events,
           event.kind = "Completed" => final # 0,
           event.kind = "TargetFailed" => run.phase # "Succeeded"
    PROVE  /\ Applied(run, event) \in BackupJob
           /\ Applied(run, event).phase = "Succeeded" =>
                 run.phase = "Succeeded" \/ event.kind = "Completed"
           /\ Applied(run, event).phase = "Succeeded" => final # 0
           /\ Applied(run, event).targetPhase = "Completed" =>
                 Applied(run, event).phase = "Succeeded" /\ Applied(run, event).path = final
           /\ run.phase = "Succeeded" =>
                 /\ Applied(run, event).phase = "Succeeded"
                 /\ Applied(run, event).path = run.path \/ Applied(run, event).path = final
<1>1. /\ run \in BackupJob /\ final \in 0..MaxTime
      /\ run.phase = "Succeeded" => final # 0
      /\ run.targetPhase = "Completed" => run.phase = "Succeeded" /\ run.path = final
    BY DEF IInv, World, Types, Record, SucceededFinalized, CompletedRecorded
<1>2. "none" \notin Sources
    BY SourcesAssumption
<1>3. CASE event.kind = "ack"
    <2> DEFINE last == IF run.last = NoCommand
                       THEN [id |-> event.id, sent |-> 0, acked |-> TRUE]
                       ELSE IF run.last.id = event.id THEN [run.last EXCEPT !.acked = TRUE]
                       ELSE run.last
    <2>1. Applied(run, event) = [run EXCEPT !.last = last]
        BY <1>3 DEF Applied, ApplyTargetCommandAckToBackupJob
    <2>2. last \in LastCommand
        <3>1. event.id \in Sources \cup {"finalize"} /\ run.last \in LastCommand
            BY <1>1, <1>3, RunFields DEF Events
        <3>2. 0 \in 0..MaxTime
            BY BoundsAssumption
        <3>3. [id |-> event.id, sent |-> 0, acked |-> TRUE] \in LastCommand
            BY <3>1, <3>2 DEF LastCommand
        <3>4. [run.last EXCEPT !.acked = TRUE] \in LastCommand
            BY <3>1 DEF LastCommand
        <3>5. QED
            BY <3>1, <3>3, <3>4
    <2> HIDE DEF last
    <2>3. QED
        BY <1>1, <2>1, <2>2 DEF BackupJob, LastCommand
<1>4. CASE event.kind # "ack" /\ event.id \in Sources
    <2> DEFINE entry == [phase |-> IF event.kind = "Full" THEN "Failed" ELSE event.kind,
                         note  |-> CASE event.kind = "Full" -> "full"
                                     [] event.kind = "Failed" -> "none"
                                     [] OTHER -> run.transfer[event.id].note]
               transfer == [run.transfer EXCEPT ![event.id] = entry]
    <2>1. Applied(run, event) = [run EXCEPT !.transfer = transfer]
        BY <1>1, <1>4 DEF Applied, ApplySourceEventToBackupJob
    <2>2. transfer \in [Sources -> Transfer]
        <3>1. event.kind \in {"Running", "Succeeded", "Failed", "Full"}
            BY <1>2, <1>4 DEF Events
        <3>2. run.transfer \in [Sources -> Transfer]
            BY <1>1, RunFields
        <3>3. entry \in Transfer
            BY <1>4, <3>1, <3>2 DEF Transfer, TransferPhases
        <3> HIDE DEF entry
        <3>4. QED
            BY <1>4, <3>2, <3>3
    <2> HIDE DEF transfer
    <2>3. QED
        BY <1>1, <2>1, <2>2 DEF BackupJob
<1>5. CASE event.kind \in {"Ready", "Completed", "TargetFailed"} /\ event.id = "none"
    <2>1. Applied(run, event) = ApplyTargetEventToBackupJob(run, event.kind)
        BY <1>2, <1>5 DEF Applied
    <2>2. CASE event.kind = "Ready"
        BY <1>1, <2>1, <2>2 DEF ApplyTargetEventToBackupJob, BackupJob, RunPhases
    <2>3. CASE event.kind = "Completed"
        BY <1>1, <2>1, <2>3 DEF ApplyTargetEventToBackupJob, ApplyCompleted, BackupJob, RunPhases
    <2>4. CASE event.kind = "TargetFailed"
        BY <1>1, <2>1, <2>4 DEF ApplyTargetEventToBackupJob, BackupJob, RunPhases
    <2>5. QED
        BY <1>5, <2>2, <2>3, <2>4
<1>6. QED
    BY <1>3, <1>4, <1>5 DEF Events

\* The applier applies the first event of the hub.
LEMMA ApplyStep ==
    ASSUME IInv, ApplyEvent
    PROVE  IInv' /\ Lasts
<1> DEFINE event == Head(hub)
<1>1. /\ hub # <<>> /\ ~stale /\ hub' = Tail(hub)
      /\ run' = Applied(run, event) /\ stale' = (run' # run)
      /\ \/ UNCHANGED <<job, seen>>
         \/ job' = NoneLate(job) /\ seen' = [seen EXCEPT !.source = NoneLate(@)]
      /\ UNCHANGED <<view, target, snapshots, service, data, commands, now, faults>>
    BY DEF ApplyEvent
<1>2. /\ event \in Events /\ hub' \in Seq(Events)
      /\ event.kind = "Completed" =>
            /\ final # 0 /\ target \in Ended
            /\ \A i \in 1..Len(hub) : hub[i].kind # "TargetFailed"
      /\ event.kind = "TargetFailed" => run.phase # "Succeeded"
      /\ \A i \in 1..Len(hub') : i + 1 \in 1..Len(hub) /\ hub'[i] = hub[i + 1]
    <2>1. hub \in Seq(Events) /\ hub # <<>>
        BY <1>1 DEF IInv, World, Types
    <2>2. event = hub[1] /\ 1 \in 1..Len(hub) /\ event \in Events
        BY <2>1
    <2>3. QED
        BY <1>1, <2>1, <2>2 DEF IInv, World, Reported, Record, Settled
<1> HIDE DEF event
<1>3. Lasts
    BY <1>1, <1>2, AppliedRun DEF Lasts
<1>4. Record'
    <2>1. /\ run' \in BackupJob /\ final' = final
          /\ run'.phase = "Succeeded" => final # 0
          /\ run'.targetPhase = "Completed" => run'.phase = "Succeeded" /\ run'.path = final
        BY <1>1, <1>2, AppliedRun DEF commands
    <2>2. ~stale' => view' = run'
        BY <1>1 DEF IInv, Record
    <2>3. stale' \in BOOLEAN /\ view' \in BackupJob
        BY <1>1 DEF IInv, Record
    <2>4. Settled'
        <3>1. run'.phase = "Succeeded" => run.phase = "Succeeded" \/ event.kind = "Completed"
            BY <1>1, <1>2, AppliedRun
        <3>2. QED
            BY <1>1, <1>2, <3>1 DEF IInv, Record, Settled
    <2>5. QED
        BY <2>1, <2>2, <2>3, <2>4 DEF Record, SucceededFinalized, CompletedRecorded
<1>5. /\ job' \in [Sources -> SourceJob]
      /\ seen' \in [target : {"running", "complete", "failed"}, source : [Sources -> CachedJob]]
      /\ seen'.target = seen.target
      /\ \A s \in Sources : /\ job'[s].status = job[s].status
                            /\ seen'.source[s].status = seen.source[s].status
    <2>1. /\ job \in [Sources -> SourceJob]
          /\ seen \in [target : {"running", "complete", "failed"}, source : [Sources -> CachedJob]]
        BY DEF IInv, World, Types
    <2>2. CASE UNCHANGED <<job, seen>>
        BY <2>1, <2>2
    <2>3. CASE job' = NoneLate(job) /\ seen' = [seen EXCEPT !.source = NoneLate(@)]
        <3>1. /\ NoneLate(job) \in [Sources -> SourceJob]
              /\ \A s \in Sources : NoneLate(job)[s].status = job[s].status
            BY <2>1 DEF NoneLate, SourceJob
        <3>2. /\ NoneLate(seen.source) \in [Sources -> CachedJob]
              /\ \A s \in Sources : NoneLate(seen.source)[s].status = seen.source[s].status
            BY <2>1 DEF NoneLate, CachedJob
        <3>3. QED
            BY <2>1, <2>3, <3>1, <3>2
    <2>4. QED
        BY <1>1, <2>2, <2>3
<1>6. World'
    <2>1. Types'
        BY <1>1, <1>2, <1>5 DEF IInv, World, Types, data, commands
    <2>2. SeenJobs' /\ CompleteWhole' /\ FinalizeAfterAll'
        BY <1>1, <1>5
           DEF IInv, World, SeenJobs, CompleteWhole, FinalizeAfterAll, AllJobsComplete, data,
               commands
    <2>3. Stamped' /\ Promoted'
        BY <1>1, <1>5 DEF IInv, World, Stamped, Promoted, commands
    <2>4. Reported'
        <3>1. Reported /\ UNCHANGED <<target, final>>
            BY <1>1 DEF IInv, World, commands
        <3>2. ASSUME NEW i \in 1..Len(hub')
              PROVE  i + 1 \in 1..Len(hub) /\ hub'[i] = hub[i + 1]
            BY <1>2
        <3>3. ASSUME NEW i \in 1..Len(hub')
              PROVE  /\ hub'[i].kind = "Completed" => target' \in Ended /\ final' # 0
                     /\ hub'[i].kind = "TargetFailed" => target' = "failed"
            BY <3>1, <3>2 DEF Reported
        <3>4. ASSUME NEW i \in 1..Len(hub'), NEW j \in 1..Len(hub')
              PROVE  ~(hub'[i].kind = "Completed" /\ hub'[j].kind = "TargetFailed")
            <4>1. /\ i + 1 \in 1..Len(hub) /\ hub'[i] = hub[i + 1]
                  /\ j + 1 \in 1..Len(hub) /\ hub'[j] = hub[j + 1]
                BY <3>2
            <4>2. QED
                BY <3>1, <4>1 DEF Reported
        <3>5. QED
            BY <3>3, <3>4 DEF Reported
    <2>5. QED
        BY <2>1, <2>2, <2>3, <2>4 DEF World
<1>7. Rest'
    BY <1>1 DEF IInv, Rest, CaptureType, snapshots
<1>8. QED
    BY <1>3, <1>4, <1>6, <1>7 DEF IInv

-----------------------------------------------------------------------------
(* Pods                                                                    *)

\* What a report adds to the hub.
LEMMA ReportStep ==
    ASSUME IInv, NEW events \in Seq(Events), Report(events)
    PROVE  /\ hub' \in Seq(Events) /\ faults' \in 0..MaxFaults
           /\ \A i \in 1..Len(hub') :
                 \/ i \in 1..Len(hub) /\ hub'[i] = hub[i]
                 \/ \E j \in 1..Len(events) : hub'[i] = events[j]
<1>1. hub \in Seq(Events)
    BY DEF IInv, World, Types
<1>2. faults' \in 0..MaxFaults
    <2>1. Fault \/ UNCHANGED faults
        BY DEF Report
    <2>2. QED
        BY <2>1, FaultBound DEF IInv, Rest
<1>3. CASE hub' = hub \o events
    BY <1>1, <1>2, <1>3
<1>4. ASSUME NEW k \in 1..Len(events),
             hub' = hub \o SubSeq(events, 1, k - 1) \o SubSeq(events, k + 1, Len(events))
      PROVE  /\ hub' \in Seq(Events)
             /\ \A i \in 1..Len(hub') :
                   \/ i \in 1..Len(hub) /\ hub'[i] = hub[i]
                   \/ \E j \in 1..Len(events) : hub'[i] = events[j]
    <2> DEFINE u == SubSeq(events, 1, k - 1)
               v == SubSeq(events, k + 1, Len(events))
    <2>1. /\ u \in Seq(Events) /\ v \in Seq(Events)
          /\ \A i \in 1..Len(u) : \E j \in 1..Len(events) : u[i] = events[j]
          /\ \A i \in 1..Len(v) : \E j \in 1..Len(events) : v[i] = events[j]
        <3>1. /\ u \in Seq(Events) /\ Len(u) = k - 1
              /\ \A i \in 1..(k - 1) : u[i] = events[i]
            OBVIOUS
        <3>2. /\ v \in Seq(Events) /\ Len(v) = Len(events) - k
              /\ \A i \in 1..(Len(events) - k) : v[i] = events[k + i]
            OBVIOUS
        <3> HIDE DEF u, v
        <3>3. /\ Len(events) \in Nat
              /\ \A i \in 1..(k - 1) : i \in 1..Len(events)
              /\ \A i \in 1..(Len(events) - k) : k + i \in 1..Len(events)
            OBVIOUS
        <3>4. QED
            BY <3>1, <3>2, <3>3
    <2>2. hub' = (hub \o u) \o v
        BY <1>4
    <2> HIDE DEF u, v
    <2> DEFINE w == hub \o u
    <2>3. /\ w \in Seq(Events)
          /\ \A i \in 1..Len(w) : \/ i \in 1..Len(hub) /\ w[i] = hub[i]
                                  \/ \E j \in 1..Len(events) : w[i] = events[j]
        BY <1>1, <2>1
    <2>4. hub' = w \o v
        BY <2>2
    <2> HIDE DEF w
    <2>5. hub' \in Seq(Events)
        BY <2>1, <2>3, <2>4
    <2>6. \A i \in 1..Len(hub') : \/ i \in 1..Len(w) /\ hub'[i] = w[i]
                                  \/ \E l \in 1..Len(v) : hub'[i] = v[l]
        <3>1. SUFFICES ASSUME NEW i \in 1..Len(hub'), ~(i <= Len(w))
                       PROVE  i - Len(w) \in 1..Len(v) /\ hub'[i] = v[i - Len(w)]
            BY <2>1, <2>3, <2>4
        <3>2. QED
            BY <2>1, <2>3, <2>4, <3>1
    <2>7. ASSUME NEW i \in 1..Len(hub')
          PROVE  \/ i \in 1..Len(hub) /\ hub'[i] = hub[i]
                 \/ \E j \in 1..Len(events) : hub'[i] = events[j]
        <3>1. CASE i \in 1..Len(w) /\ hub'[i] = w[i]
            BY <2>3, <3>1, Zenon
        <3>2. CASE \E l \in 1..Len(v) : hub'[i] = v[l]
            BY <2>1, <3>2, Zenon
        <3>3. QED
            BY <2>6, <3>1, <3>2
    <2>8. QED
        BY <2>5, <2>7
<1>5. \/ hub' = hub \o events
      \/ \E k \in 1..Len(events) :
            hub' = hub \o SubSeq(events, 1, k - 1) \o SubSeq(events, k + 1, Len(events))
    <2>1. DOMAIN events = 1..Len(events)
        OBVIOUS
    <2>2. QED
        BY <2>1, Zenon DEF Report
<1>6. QED
    BY <1>2, <1>3, <1>4, <1>5, Zenon

\* A step of the pods: the run is left alone, and the promoted snapshot too.  A target
\* that has reported Completed does not report a failure.
LEMMA PodStep ==
    ASSUME IInv, UNCHANGED <<object, snapshots, service>>, World', faults' \in 0..MaxFaults,
           final = 0 \/ final' = final,
           target \in Ended =>
              /\ target' \in Ended
              /\ \A i \in 1..Len(hub') : \/ i \in 1..Len(hub) /\ hub'[i] = hub[i]
                                         \/ hub'[i].kind # "TargetFailed"
    PROVE  IInv' /\ Lasts
<1>1. Settled'
    BY DEF IInv, Record, Settled, object
<1>2. Record' /\ Lasts
    BY <1>1 DEF IInv, Record, Lasts, SucceededFinalized, CompletedRecorded, object
<1>3. QED
    BY <1>2 DEF IInv, Rest, CaptureType, snapshots

\* The target starts to serve, recovers space, or fails while it serves.
LEMMA ServingStep ==
    ASSUME IInv, TargetReady \/ TargetRecovers
    PROVE  IInv' /\ Lasts
<1>1. /\ UNCHANGED <<object, snapshots, service, seen, log, now, job, data, stamp, final>>
      /\ target \in {"starting", "serving"} /\ target' \in {"serving", "failed"}
      /\ taken' \in 0..Len(log)
    <2>1. CASE TargetReady
        BY <2>1 DEF TargetReady, control, IInv, World, Types
    <2>2. CASE TargetRecovers
        <3>1. taken \in 0..Len(log) /\ Len(log) \in Nat
            BY DEF IInv, World, Types
        <3>2. QED
            BY <2>2, <3>1 DEF TargetRecovers, TakesCommand, control
    <2>3. QED
        BY <2>1, <2>2
<1>2. /\ hub' \in Seq(Events) /\ faults' \in 0..MaxFaults
      /\ \A i \in 1..Len(hub') : \/ i \in 1..Len(hub) /\ hub'[i] = hub[i]
                                 \/ hub'[i].kind \in {"Ready", "ack"}
                                 \/ hub'[i].kind = "TargetFailed" /\ target' = "failed"
      /\ target' = "failed" \/ target' = "serving"
    <2>1. /\ Event("Ready") \in Events /\ Event("Ready").kind = "Ready"
          /\ Event("TargetFailed") \in Events /\ Event("TargetFailed").kind = "TargetFailed"
        BY DEF Event, Events
    <2>2. CASE TargetReady
        <3> DEFINE events == <<Event("Ready")>>
        <3>1. events \in Seq(Events) /\ \A j \in 1..Len(events) : events[j].kind = "Ready"
            BY <2>1
        <3>2. Report(events)
            BY <2>2 DEF TargetReady
        <3> HIDE DEF events
        <3>3. QED
            BY <1>1, <3>1, <3>2, ReportStep
    <2>3. CASE TargetRecovers
        <3>1. /\ Ack(Command.id) \in Events /\ Ack(Command.id).kind = "ack"
            BY <2>3 DEF TargetRecovers, Ack, Events
        <3> DEFINE ack == Ack(Command.id)
        <3>2. CASE Report(<<Event("Ready"), Ack(Command.id)>>)
            <4>1. ack \in Events /\ ack.kind = "ack" /\ Report(<<Event("Ready"), ack>>)
                BY <3>1, <3>2
            <4> HIDE DEF ack
            <4> DEFINE events == <<Event("Ready"), ack>>
            <4>2. /\ events \in Seq(Events)
                  /\ \A j \in 1..Len(events) : events[j].kind \in {"Ready", "ack"}
                BY <2>1, <4>1
            <4>3. Report(events)
                BY <4>1
            <4> HIDE DEF events
            <4>4. QED
                BY <1>1, <4>2, <4>3, ReportStep
        <3>3. CASE Fault /\ target' = "failed" /\ hub' = Append(hub, Event("TargetFailed"))
            <4>1. faults' \in 0..MaxFaults
                BY <3>3, FaultBound DEF IInv, Rest
            <4>2. hub \in Seq(Events)
                BY DEF IInv, World, Types
            <4>3. QED
                BY <1>1, <2>1, <3>3, <4>1, <4>2
        <3>4. QED
            BY <2>3, <3>2, <3>3 DEF TargetRecovers
    <2>4. QED
        BY <2>2, <2>3
<1>3. World'
    <2>1. Types'
        BY <1>1, <1>2 DEF IInv, World, Types, data
    <2>2. (SeenJobs /\ CompleteWhole /\ FinalizeAfterAll /\ Stamped /\ Promoted)'
        BY <1>1 DEF IInv, World, SeenJobs, CompleteWhole, FinalizeAfterAll, AllJobsComplete,
                    Stamped, Promoted, data
    <2>3. Reported'
        <3>1. \A i \in 1..Len(hub) : hub[i].kind \notin {"Completed", "TargetFailed"}
            BY <1>1 DEF IInv, World, Reported, Ended
        <3>2. QED
            BY <1>1, <1>2, <3>1 DEF Reported
    <2>4. QED
        BY <2>1, <2>2, <2>3 DEF World
<1>4. target \notin Ended
    BY <1>1 DEF Ended
<1>5. QED
    BY <1>1, <1>2, <1>3, <1>4, PodStep

\* The target takes the finalize command.
LEMMA TakesStep ==
    ASSUME IInv, TargetTakesFinalize
    PROVE  IInv' /\ Lasts
<1>1. /\ UNCHANGED <<object, snapshots, service, seen, log, now, job, data, final, hub, faults>>
      /\ target = "serving" /\ target' = "finalizing"
      /\ taken < Len(log) /\ taken' = taken + 1
      /\ log[taken + 1].id = "finalize" /\ stamp' = log[taken + 1].time
    BY DEF TargetTakesFinalize, TakesCommand, Command, control
<1>2. taken' \in 0..Len(log) /\ stamp' \in 0..MaxTime /\ stamp' # 0 /\ AllJobsComplete
    <2>1. taken \in 0..Len(log) /\ Len(log) \in Nat /\ log \in Seq(TargetCommands)
        BY DEF IInv, World, Types
    <2>2. taken + 1 \in 1..Len(log) /\ log[taken + 1] \in TargetCommands
        BY <1>1, <2>1
    <2>3. log[taken + 1].time \in 0..MaxTime /\ log[taken + 1].time # 0 /\ AllJobsComplete
        BY <1>1, <2>2 DEF TargetCommands, IInv, World, Stamped, FinalizeAfterAll
    <2>4. QED
        BY <1>1, <2>1, <2>3
<1>3. World'
    <2>1. Types'
        BY <1>1, <1>2 DEF IInv, World, Types, data
    <2>2. (SeenJobs /\ CompleteWhole /\ FinalizeAfterAll)'
        BY <1>1, <1>2
           DEF IInv, World, SeenJobs, CompleteWhole, FinalizeAfterAll, AllJobsComplete, data
    <2>3. (Stamped /\ Promoted)'
        BY <1>1, <1>2 DEF IInv, World, Stamped, Promoted
    <2>4. Reported'
        BY <1>1 DEF IInv, World, Reported, Ended
    <2>5. QED
        BY <2>1, <2>2, <2>3, <2>4 DEF World
<1>4. target \notin Ended /\ faults' \in 0..MaxFaults
    BY <1>1 DEF Ended, IInv, Rest
<1>5. QED
    BY <1>1, <1>3, <1>4, PodStep

\* A step of a target that took the finalize command: it promotes, reports, completes, or
\* fails, and only before its Completed report it may report the failure.
LEMMA LateTargetStep ==
    ASSUME IInv,
           UNCHANGED <<object, snapshots, service, seen, log, taken, stamp, now, job, data>>,
           \/ target' = "failed"
           \/ target = "finalizing" /\ target' = "promoted"
           \/ target = "promoted" /\ target' = "reported"
           \/ target = "reported" /\ target' = "complete",
           target \notin {"complete", "failed"},
           IF target' = "promoted" THEN final' = stamp ELSE final' = final,
           hub' \in Seq(Events), faults' \in 0..MaxFaults,
           \A i \in 1..Len(hub') :
              \/ i \in 1..Len(hub) /\ hub'[i] = hub[i]
              \/ hub'[i].kind = "ack"
              \/ hub'[i].kind = "Completed" /\ target' = "reported"
              \/ hub'[i].kind = "TargetFailed" /\ target' = "failed" /\ target # "reported"
    PROVE  IInv' /\ Lasts
<1>1. Types'
    BY DEF IInv, World, Types, data
<1>2. (SeenJobs /\ CompleteWhole)'
    BY DEF IInv, World, SeenJobs, CompleteWhole, data
<1>3. final' # 0 => target = "finalizing" \/ final # 0
    BY DEF IInv, World, Types
<1>4. FinalizeAfterAll'
    BY <1>3 DEF IInv, World, FinalizeAfterAll, AllJobsComplete
<1>5. (Stamped /\ Promoted)'
    BY DEF IInv, World, Stamped, Promoted
<1>6. Reported'
    <2>1. \A i \in 1..Len(hub) : /\ hub[i].kind # "TargetFailed"
                                 /\ hub[i].kind = "Completed" => target = "reported" /\ final # 0
        BY DEF IInv, World, Reported, Ended
    <2>2. \A i \in 1..Len(hub') :
             /\ hub'[i].kind = "TargetFailed" => target' = "failed" /\ target # "reported"
             /\ hub'[i].kind = "Completed" =>
                   target' = "reported" \/ (target = "reported" /\ final # 0)
        BY <2>1
    <2>3. target' = "reported" => target = "promoted" /\ final # 0
        BY DEF IInv, World, Promoted
    <2>4. target = "reported" => target' \in Ended /\ target' # "reported" /\ final' = final
        BY DEF Ended
    <2>5. QED
        BY <2>2, <2>3, <2>4 DEF Reported, Ended
<1>7. World'
    BY <1>1, <1>2, <1>4, <1>5, <1>6 DEF World
<1>8. final = 0 \/ final' = final
    BY DEF IInv, World, Promoted
<1>9. target \in Ended => target = "reported" /\ target' \in Ended
    BY DEF Ended
<1>10. QED
    BY <1>7, <1>8, <1>9, PodStep

\* A pod dies without a word: the hub stays as it is.
LEMMA DiesStep ==
    ASSUME IInv, TargetDies
    PROVE  IInv' /\ Lasts
<1>1. /\ UNCHANGED <<object, snapshots, service, seen, log, taken, stamp, now, job, data, final,
                     hub, faults>>
      /\ target \in {"starting", "serving", "finalizing", "promoted", "reported"}
      /\ target' = "failed"
    BY DEF TargetDies, control, commands
<1>2. hub \in Seq(Events) /\ faults \in 0..MaxFaults
    BY DEF IInv, World, Types, Rest
<1>3. QED
    BY <1>1, <1>2, LateTargetStep

\* The target promotes the snapshot, reports it, acknowledges the command and exits.
LEMMA FinalizesStep ==
    ASSUME IInv, TargetPromotes \/ TargetReports \/ TargetCompletes
    PROVE  IInv' /\ Lasts
<1>1. /\ UNCHANGED <<object, snapshots, service, seen, log, taken, stamp, now, job, data>>
      /\ target \notin {"complete", "failed"}
    BY DEF TargetPromotes, TargetReports, TargetCompletes, control
<1>2. /\ Event("Completed") \in Events /\ Event("Completed").kind = "Completed"
      /\ Event("TargetFailed") \in Events /\ Event("TargetFailed").kind = "TargetFailed"
      /\ Ack("finalize") \in Events /\ Ack("finalize").kind = "ack"
    BY DEF Event, Events, Ack
<1>3. hub \in Seq(Events)
    BY DEF IInv, World, Types
<1>4. CASE target = "finalizing" /\ target' = "promoted" /\ final' = stamp /\ UNCHANGED <<hub, faults>>
    <2>1. faults' \in 0..MaxFaults
        BY <1>4 DEF IInv, Rest
    <2>2. QED
        BY <1>1, <1>3, <1>4, <2>1, LateTargetStep
<1>5. CASE /\ target \in {"finalizing", "promoted"} /\ target' = "failed" /\ final' = final
           /\ Fault /\ hub' = Append(hub, Event("TargetFailed"))
    <2>1. faults' \in 0..MaxFaults
        BY <1>5, FaultBound DEF IInv, Rest
    <2>2. PICK event \in Events : event.kind = "TargetFailed" /\ hub' = Append(hub, event)
        BY <1>2, <1>5
    <2>3. /\ hub' \in Seq(Events)
          /\ \A i \in 1..Len(hub') : \/ i \in 1..Len(hub) /\ hub'[i] = hub[i]
                                     \/ hub'[i].kind = "TargetFailed"
        BY <1>3, <2>2
    <2>4. QED
        BY <1>1, <1>5, <2>1, <2>3, LateTargetStep
<1>6. ASSUME NEW event \in Events, Report(<<event>>), final' = final,
             \/ target = "promoted" /\ target' = "reported" /\ event.kind = "Completed"
             \/ target = "reported" /\ target' = "complete" /\ event.kind = "ack"
      PROVE  IInv' /\ Lasts
    <2> DEFINE events == <<event>>
    <2>1. events \in Seq(Events) /\ \A j \in 1..Len(events) : events[j].kind = event.kind
        OBVIOUS
    <2>2. Report(events)
        BY <1>6
    <2> HIDE DEF events
    <2>3. /\ hub' \in Seq(Events) /\ faults' \in 0..MaxFaults
          /\ \A i \in 1..Len(hub') : \/ i \in 1..Len(hub) /\ hub'[i] = hub[i]
                                     \/ hub'[i].kind = event.kind
        BY <2>1, <2>2, ReportStep
    <2>4. QED
        BY <1>1, <1>6, <2>3, LateTargetStep
<1>7. QED
    BY <1>2, <1>4, <1>5, <1>6 DEF TargetPromotes, TargetReports, TargetCompletes

\* A source's pod starts, sends or is refused: its Job is not complete before, and when
\* it is complete after, its data is whole.
LEMMA SourceStep ==
    ASSUME IInv, NEW s \in Sources, Source(s)
    PROVE  IInv' /\ Lasts
<1>1. /\ UNCHANGED <<object, snapshots, service, seen, log, now, target, taken, stamp, final>>
      /\ job[s].status \in {"created", "sending"}
    BY DEF Source, SourceStarts, SourceSends, SourceRefused, control
<1>2. PICK status \in {"sending", "complete", "failed"} :
         /\ job' = [job EXCEPT ![s].status = status]
         /\ whole \ {s} \subseteq whole' /\ whole' \subseteq whole \cup {s}
         /\ status = "complete" => s \in whole'
         /\ counted' \subseteq counted \cup {s}
    BY DEF Source, SourceStarts, SourceSends, SourceRefused, data
<1>3. /\ hub' \in Seq(Events) /\ faults' \in 0..MaxFaults
      /\ \A i \in 1..Len(hub') : \/ i \in 1..Len(hub) /\ hub'[i] = hub[i]
                                 \/ hub'[i].kind \in {"Running", "Succeeded", "Failed", "Full"}
    <2> DEFINE Kinds == {"Running", "Succeeded", "Failed", "Full"}
    <2>1. \A k \in Kinds : SourceEvent(s, k) \in Events /\ SourceEvent(s, k).kind = k
        BY DEF SourceEvent, Events
    <2>2. hub \in Seq(Events)
        BY DEF IInv, World, Types
    <2>3. ASSUME NEW k \in Kinds, Report(<<SourceEvent(s, k)>>)
          PROVE  /\ hub' \in Seq(Events) /\ faults' \in 0..MaxFaults
                 /\ \A i \in 1..Len(hub') : \/ i \in 1..Len(hub) /\ hub'[i] = hub[i]
                                            \/ hub'[i].kind \in Kinds
        <3>1. PICK event \in Events : event = SourceEvent(s, k) /\ event.kind \in Kinds
            BY <2>1
        <3> DEFINE events == <<event>>
        <3>2. events \in Seq(Events) /\ \A j \in 1..Len(events) : events[j].kind \in Kinds
            BY <3>1
        <3>3. Report(events)
            BY <2>3, <3>1
        <3> HIDE DEF events, Kinds
        <3>4. QED
            BY <3>2, <3>3, ReportStep
    <2>4. CASE /\ Fault
               /\ hub' = hub \/ \E k \in Kinds : hub' = Append(hub, SourceEvent(s, k))
        <3>1. faults' \in 0..MaxFaults
            BY <2>4, FaultBound DEF IInv, Rest
        <3>2. CASE hub' = hub
            BY <2>2, <3>1, <3>2
        <3>3. CASE \E k \in Kinds : hub' = Append(hub, SourceEvent(s, k))
            <4>1. PICK event \in Events : event.kind \in Kinds /\ hub' = Append(hub, event)
                BY <2>1, <3>3
            <4> HIDE DEF Kinds
            <4>2. /\ hub' \in Seq(Events) /\ Len(hub') = Len(hub) + 1 /\ Len(hub) \in Nat
                  /\ hub'[Len(hub) + 1] = event
                  /\ \A i \in 1..Len(hub) : hub'[i] = hub[i]
                BY <2>2, <4>1
            <4>3. \A i \in 1..Len(hub') : i \in 1..Len(hub) \/ i = Len(hub) + 1
                BY <4>2
            <4>4. QED
                BY <3>1, <4>1, <4>2, <4>3 DEF Kinds
        <3>4. QED
            BY <2>4, <3>2, <3>3
    <2>5. QED
        BY <2>3, <2>4 DEF Source, SourceStarts, SourceSends, SourceRefused
<1>4. /\ job' \in [Sources -> SourceJob] /\ job'[s].status = status
      /\ \A x \in Sources : x # s => job'[x] = job[x]
    BY <1>2 DEF IInv, World, Types, SourceJob
<1>5. World'
    <2>1. ~AllJobsComplete
        BY <1>1 DEF AllJobsComplete
    <2>2. Types'
        BY <1>1, <1>2, <1>3, <1>4 DEF IInv, World, Types
    <2>3. SeenJobs'
        BY <1>1, <1>4 DEF IInv, World, SeenJobs
    <2>4. CompleteWhole'
        BY <1>2, <1>4 DEF IInv, World, CompleteWhole
    <2>5. FinalizeAfterAll'
        BY <1>1, <2>1 DEF IInv, World, FinalizeAfterAll
    <2>6. (Stamped /\ Promoted)'
        BY <1>1 DEF IInv, World, Stamped, Promoted
    <2>7. Reported'
        BY <1>1, <1>3 DEF IInv, World, Reported
    <2>8. QED
        BY <2>2, <2>3, <2>4, <2>5, <2>6, <2>7 DEF World
<1>6. \A i \in 1..Len(hub') : \/ i \in 1..Len(hub) /\ hub'[i] = hub[i]
                             \/ hub'[i].kind # "TargetFailed"
    BY <1>3
<1>7. QED
    BY <1>1, <1>3, <1>5, <1>6, PodStep

-----------------------------------------------------------------------------
(* CSI driver, caches and crashes                                          *)

\* Captures and discovery do not touch the run.
LEMMA CaptureStep ==
    ASSUME IInv, DiscoveryChanges \/ \E s \in Sources : CaptureProgresses(s)
    PROVE  IInv' /\ Lasts
<1>1. /\ UNCHANGED <<object, pods, seen, service, data, commands, hub, now>>
      /\ Fault \/ UNCHANGED faults
    BY DEF DiscoveryChanges, CaptureProgresses
<1>2. faults' \in 0..MaxFaults
    BY <1>1, FaultBound DEF IInv, Rest
<1>3. CaptureType'
    <2>1. discovered \in BOOLEAN /\ capture \in [Sources -> Captures]
        BY DEF IInv, Rest, CaptureType
    <2>2. \A s \in Sources : CaptureSteps(capture[s]) \subseteq Captures
        BY DEF CaptureSteps, Captures
    <2>3. CASE DiscoveryChanges
        BY <2>1, <2>3 DEF DiscoveryChanges, CaptureType
    <2>4. CASE \E s \in Sources : CaptureProgresses(s)
        <3>1. PICK s \in Sources, next \in Captures :
                 capture' = [capture EXCEPT ![s] = next] /\ discovered' = discovered
            BY <2>2, <2>4 DEF CaptureProgresses
        <3>2. QED
            BY <2>1, <3>1 DEF CaptureType
    <2>5. QED
        BY <2>3, <2>4
<1>4. World'
    BY <1>1, SameWorld DEF IInv, World, Types, pods, data, commands
<1>5. Record' /\ Lasts
    BY <1>1 DEF IInv, Record, Lasts, SucceededFinalized, CompletedRecorded, Settled, object,
                commands, pods
<1>6. QED
    BY <1>1, <1>2, <1>3, <1>4, <1>5 DEF IInv, Rest

\* The cache of the run catches up.
LEMMA SyncRunStep ==
    ASSUME IInv, SyncRun
    PROVE  IInv' /\ Lasts
<1>1. World'
    BY SameWorld DEF SyncRun, IInv, World, Types, pods, data, commands
<1>2. Record' /\ Lasts
    BY DEF SyncRun, IInv, Record, Lasts, SucceededFinalized, CompletedRecorded, Settled, commands,
           pods
<1>3. Rest'
    BY DEF SyncRun, IInv, Rest, CaptureType, snapshots
<1>4. QED
    BY <1>1, <1>2, <1>3 DEF IInv

\* What the status of the Jobs shows.
LEMMA JobsShown ==
    ASSUME Types
    PROVE  /\ Jobs.target \in {"running", "complete", "failed"}
           /\ Jobs.target = "complete" <=> target = "complete"
           /\ Jobs.source \in [Sources -> CachedJob]
           /\ \A s \in Sources :
                 /\ Jobs.source[s].status = "complete" => job[s].status = "complete"
                 /\ Jobs.source[s].status = "failed" => job[s].status = "failed"
           /\ Jobs \in [target : {"running", "complete", "failed"}, source : [Sources -> CachedJob]]
<1>1. /\ JobStatus(target) \in {"running", "complete", "failed"}
      /\ JobStatus(target) = "complete" <=> target = "complete"
    BY DEF Types, JobStatus
<1>2. \A s \in Sources :
         /\ [job[s] EXCEPT !.status = JobStatus(@)] \in CachedJob
         /\ [job[s] EXCEPT !.status = JobStatus(@)].status = JobStatus(job[s].status)
    BY DEF Types, SourceJob, CachedJob, JobStatus
<1>3. \A s \in Sources :
         /\ JobStatus(job[s].status) = "complete" => job[s].status = "complete"
         /\ JobStatus(job[s].status) = "failed" => job[s].status = "failed"
    BY DEF JobStatus
<1>4. QED
    BY <1>1, <1>2, <1>3 DEF Jobs

\* The cache of the Jobs catches up.
LEMMA SyncJobsStep ==
    ASSUME IInv, SyncJobs
    PROVE  IInv' /\ Lasts
<1>1. /\ seen' = Jobs
      /\ UNCHANGED <<object, pods, snapshots, service, data, commands, hub, now, faults>>
    BY DEF SyncJobs
<1>2. /\ seen' \in [target : {"running", "complete", "failed"}, source : [Sources -> CachedJob]]
      /\ seen'.target = "complete" => target = "complete"
      /\ \A s \in Sources :
            /\ seen'.source[s].status = "complete" => job[s].status = "complete"
            /\ seen'.source[s].status = "failed" => job[s].status = "failed"
    BY <1>1, JobsShown DEF IInv, World
<1>3. World'
    <2>1. Types'
        BY <1>1, <1>2 DEF IInv, World, Types, pods, data, commands
    <2>2. SeenJobs' /\ Promoted'
        BY <1>1, <1>2 DEF IInv, World, SeenJobs, Promoted, pods, commands
    <2>3. (CompleteWhole /\ FinalizeAfterAll /\ Stamped /\ Reported)'
        BY <1>1 DEF IInv, World, CompleteWhole, FinalizeAfterAll, AllJobsComplete, Stamped,
                    Reported, pods, data, commands
    <2>4. QED
        BY <2>1, <2>2, <2>3 DEF World
<1>4. Record' /\ Lasts
    BY <1>1 DEF IInv, Record, Lasts, SucceededFinalized, CompletedRecorded, Settled, object,
                commands, pods
<1>5. QED
    BY <1>1, <1>3, <1>4 DEF IInv, Rest, CaptureType, snapshots

\* The manager restarts.  A target that serves loses its stream and fails; one that
\* took the finalize command goes on without the manager.
LEMMA CrashStep ==
    ASSUME IInv, Crash
    PROVE  IInv' /\ Lasts
<1>1. /\ view' = run /\ stale' = FALSE /\ log' = <<>> /\ taken' = 0
      /\ UNCHANGED <<run, job, snapshots, service, data, stamp, final, now>>
      /\ Fault
      /\ seen' = [Jobs EXCEPT !.target = JobStatus(target')]
    BY DEF Crash
<1>2. \/ /\ target = "serving" /\ target' = "failed"
         /\ hub' = <<>> \/ hub' = <<Event("TargetFailed")>>
      \/ target' = target /\ hub' = <<>>
    BY DEF Crash
<1>3. faults' \in 0..MaxFaults
    BY <1>1, FaultBound DEF IInv, Rest
<1>4. /\ hub' \in Seq(Events)
      /\ \A i \in 1..Len(hub') : hub'[i].kind = "TargetFailed" /\ target' = "failed"
    <2>1. Event("TargetFailed") \in Events /\ Event("TargetFailed").kind = "TargetFailed"
        BY DEF Event, Events
    <2>2. CASE hub' = <<>>
        BY <2>2
    <2>3. CASE hub' = <<Event("TargetFailed")>> /\ target' = "failed"
        BY <2>1, <2>3
    <2>4. QED
        BY <1>2, <2>2, <2>3
<1>5. log' \in Seq(TargetCommands) /\ Len(log') = 0
    <2>1. log' = <<>>
        BY <1>1
    <2>2. QED
        BY <2>1
<1>6. /\ target' \in {"starting", "serving", "finalizing", "promoted", "reported", "complete",
                     "failed"}
      /\ target' = target \/ (target = "serving" /\ target' = "failed")
    BY <1>2 DEF IInv, World, Types
<1>7. /\ seen' \in [target : {"running", "complete", "failed"}, source : [Sources -> CachedJob]]
      /\ seen'.target = "complete" => target' = "complete"
      /\ seen'.source = Jobs.source
    <2>1. /\ JobStatus(target') \in {"running", "complete", "failed"}
          /\ JobStatus(target') = "complete" => target' = "complete"
        BY <1>6 DEF JobStatus
    <2>2. Jobs \in [target : {"running", "complete", "failed"}, source : [Sources -> CachedJob]]
        BY JobsShown DEF IInv, World
    <2>3. QED
        BY <1>1, <2>1, <2>2
<1>8. World'
    <2>1. Types'
        BY <1>1, <1>4, <1>5, <1>6, <1>7 DEF IInv, World, Types, data
    <2>2. SeenJobs'
        BY <1>1, <1>7, JobsShown DEF IInv, World, SeenJobs
    <2>3. Promoted'
        BY <1>1, <1>6, <1>7 DEF IInv, World, Promoted
    <2>4. CompleteWhole'
        BY <1>1 DEF IInv, World, CompleteWhole, data
    <2>5. FinalizeAfterAll' /\ Stamped'
        BY <1>1, <1>5, <1>6 DEF IInv, World, FinalizeAfterAll, AllJobsComplete, Stamped
    <2>6. Reported'
        BY <1>4 DEF Reported
    <2>7. QED
        BY <2>1, <2>2, <2>3, <2>4, <2>5, <2>6 DEF World
<1>9. Record' /\ Lasts
    <2>1. Settled'
        BY <1>1, <1>2, <1>4 DEF IInv, Record, Settled, Ended
    <2>2. QED
        BY <1>1, <2>1 DEF IInv, Record, Lasts, SucceededFinalized, CompletedRecorded
<1>10. QED
    BY <1>1, <1>3, <1>8, <1>9 DEF IInv, Rest, CaptureType, snapshots

-----------------------------------------------------------------------------
(* The invariant and the theorems                                          *)

\* The initial state satisfies the invariant.
LEMMA InitInv == Init => IInv
<1> SUFFICES ASSUME Init PROVE IInv
    OBVIOUS
<1>1. 0 \in 0..MaxTime /\ faults \in 0..MaxFaults
    BY BoundsAssumption DEF Init
<1>2. [phase |-> "none", note |-> "none"] \in Transfer /\ NoCommand \in LastCommand
    BY <1>1 DEF Transfer, TransferPhases, NoCommand, LastCommand
<1>3. /\ run \in BackupJob /\ view = run
      /\ run.phase = "Preparing" /\ run.targetPhase = "none"
    BY <1>1, <1>2 DEF Init, BackupJob, LastCommand, RunPhases
<1>4. /\ job \in [Sources -> SourceJob] /\ target = "starting"
      /\ \A s \in Sources : job[s].status = "none"
    BY DEF Init, NoJob, SourceJob
<1>5. log \in Seq(TargetCommands) /\ hub \in Seq(Events) /\ Len(log) = 0 /\ Len(hub) = 0
    <2>1. log = <<>> /\ hub = <<>>
        BY DEF Init
    <2>2. QED
        BY <2>1
<1>6. JobStatus(target) = "running" /\ \A s \in Sources : JobStatus(job[s].status) = "none"
    BY <1>4 DEF JobStatus
<1>7. /\ seen \in [target : {"running", "complete", "failed"}, source : [Sources -> CachedJob]]
      /\ seen.target = "running" /\ \A s \in Sources : seen.source[s].status = "none"
    <2>1. \A s \in Sources :
             /\ [job[s] EXCEPT !.status = JobStatus(@)] \in CachedJob
             /\ [job[s] EXCEPT !.status = JobStatus(@)].status = "none"
        BY <1>4, <1>6 DEF SourceJob, CachedJob
    <2>2. seen = Jobs
        BY DEF Init
    <2>3. QED
        BY <1>6, <2>1, <2>2 DEF Jobs
<1>8. Types
    BY <1>1, <1>4, <1>5, <1>7 DEF Init, Types
<1>9. SeenJobs /\ CompleteWhole /\ FinalizeAfterAll /\ Stamped /\ Promoted /\ Reported
    BY <1>4, <1>5, <1>7
       DEF Init, SeenJobs, CompleteWhole, FinalizeAfterAll, Stamped, Promoted, Reported
<1>10. Record
    BY <1>3 DEF Init, Record, SucceededFinalized, CompletedRecorded, Settled
<1>11. CaptureType
    BY DEF Init, CaptureType, Captures
<1>12. QED
    BY <1>1, <1>8, <1>9, <1>10, <1>11 DEF Init, IInv, World, Rest

\* Every step keeps the invariant and a Succeeded run.
LEMMA Inductive == IInv /\ [Next]_vars => IInv' /\ (UNCHANGED vars \/ Lasts)
<1> SUFFICES ASSUME IInv, [Next]_vars PROVE IInv' /\ (UNCHANGED vars \/ Lasts)
    OBVIOUS
<1>1. CASE Pass
    BY <1>1, FailedTargetPass, FailedSourcePass, UnfinishedPass, CapturePass, CreatePass, FinalizePass,
       SucceededPass, TerminalPass DEF Pass
<1>2. CASE ApplyEvent \/ DataPlane \/ TargetDies
    BY <1>2, ApplyStep, ServingStep, TakesStep, DiesStep, FinalizesStep DEF DataPlane
<1>3. CASE \E s \in Sources : Source(s) \/ CaptureProgresses(s)
    BY <1>3, SourceStep, CaptureStep
<1>4. CASE DiscoveryChanges \/ SyncRun \/ SyncJobs \/ Crash
    BY <1>4, CaptureStep, SyncRunStep, SyncJobsStep, CrashStep
<1>5. CASE UNCHANGED vars
    <2>1. World'
        BY <1>5, SameWorld DEF vars, IInv, World, Types
    <2>2. Record' /\ Rest'
        BY <1>5 DEF vars, IInv, Record, Rest, CaptureType, SucceededFinalized, CompletedRecorded,
                    Settled
    <2>3. QED
        BY <1>5, <2>1, <2>2 DEF IInv
<1>6. QED
    BY <1>1, <1>2, <1>3, <1>4, <1>5 DEF Next

\* The invariant holds in every reachable state.
LEMMA Invariant == Spec => []IInv
<1>1. IInv /\ [Next]_vars => IInv'
    BY Inductive
<1>2. QED
    BY <1>1, InitInv, PTL DEF Spec

\* The type invariant: whatever worker and applier write, in whatever order, is a
\* BackupJob status; captures, cached Jobs, the commands of the log and the reports of
\* the hub are well formed; and the target never takes more commands than the log has.
THEOREM TypeCorrect == Spec => []TypeOK
<1>1. IInv => TypeOK
    BY DEF IInv, World, Types, Record, Rest, CaptureType, TypeOK
<1>2. QED
    BY <1>1, Invariant, PTL

\* A promoted snapshot holds the whole data of every source, although the receiver
\* counts broken connections, Jobs are deleted and created anew for a retry, and the
\* finalize command outlives the pass that sent it.
THEOREM PromotedIsWhole == Spec => []FinalizedWhole
<1>1. IInv => FinalizedWhole
    <2>1. SUFFICES ASSUME IInv, final # 0 PROVE whole = Sources
        BY DEF FinalizedWhole
    <2>2. AllJobsComplete
        BY <2>1 DEF IInv, World, FinalizeAfterAll
    <2>3. QED
        BY <2>1, <2>2 DEF AllJobsComplete, IInv, World, Types, CompleteWhole
<1>2. QED
    BY <1>1, Invariant, PTL

\* A run is Succeeded only with a promoted snapshot, by the applier or by the worker.
THEOREM SuccessMeansFinalized == Spec => []SucceededFinalized
<1>1. IInv => SucceededFinalized
    BY DEF IInv, Record
<1>2. QED
    BY <1>1, Invariant, PTL

\* The Completed report leaves the run Succeeded with the path of the promoted
\* snapshot, and no later write of the worker or the applier changes that.
THEOREM CompletedIsRecorded == Spec => []CompletedRecorded
<1>1. IInv => CompletedRecorded
    BY DEF IInv, Record
<1>2. QED
    BY <1>1, Invariant, PTL

\* No step takes a Succeeded run out of its phase or gives it another path than the
\* promoted snapshot's: a pass that does not know of it is refused, and a failure of the
\* target is not reported once it is complete.
THEOREM SuccessIsFinal == Spec => SucceededIsFinal
<1>1. IInv /\ [Next]_vars =>
         [run.phase = "Succeeded" => /\ run'.phase = "Succeeded"
                                     /\ run'.path = run.path \/ run'.path = final]_vars
    BY Inductive DEF Lasts
<1>2. QED
    BY <1>1, Invariant, PTL DEF Spec, SucceededIsFinal

=============================================================================
