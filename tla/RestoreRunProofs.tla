-------------------------- MODULE RestoreRunProofs --------------------------
(***************************************************************************)
(* A restore that is reported as succeeded has copied a snapshot, and the  *)
(* snapshot it records is the one it copied, for any volume, any request   *)
(* and any number of lost reports, conflicts and crashes.                  *)
(*                                                                         *)
(* Success has two witnesses, the Jobs in the cache and the writer's       *)
(* report.  The first part of the invariant (Witnesses) follows the copied *)
(* snapshot to both of them; it needs that a target Job which served has   *)
(* its writer Job beside it until the run is deleted (WriterKept).  The    *)
(* second part is about the snapshot each pass resolves anew: unless a     *)
(* pass broke off, Jobs exist either for one snapshot or not at all        *)
(* (Agreement, BetweenPasses, AtWriter, AtStatus), and a pass that finds   *)
(* them cannot have its status update accepted (FreshWaits).               *)
(***************************************************************************)
EXTENDS RestoreRun, TLAPS

Waits == {"new", "Pending"}

\* The passes that create Jobs, and those that delete them.
Creating == {"target", "writer", "status"}
Cleaning == {"deleteJobs", "removeFinalizer"}

\* The cache shows the run as it is or was; deletion is not undone.
CacheBehind ==
    /\ ~stale => view = run
    /\ view.deleting => run.deleting

\* Only a deleted run is cleaned up, and nothing of it has been deleted before.
CleansDeleted == pc \in Cleaning => view.deleting

Kept == pc \in Creating \/ ~view.deleting

\* A connected pair of pods serves one snapshot of the volume.
PairServes == job["target"].status = "busy" /\ job["writer"].status = "busy" => Served

\* What speaks for success comes after the copy.
Witnesses ==
    /\ job["writer"].status = "complete" \/ seen["writer"] = "complete" => copied # 0
    /\ \A i \in 1..Len(hub) : hub[i] = "Succeeded" => copied # 0
    /\ run.phase = "Succeeded" \/ view.phase = "Succeeded" => copied # 0

\* As long as nothing is deleted, a target that has served has its writer beside it and
\* the cache shows no Job that does not exist.
WriterKept ==
    Kept => /\ job["target"].status \in {"busy", "complete"} => job["writer"] # NoJob
            /\ seen["target"] = "complete" => seen["writer"] # "none"
            /\ \A r \in Roles : job[r] = NoJob => seen[r] = "none"

\* Jobs exist for a snapshot.
JobsForSnapshots == \A r \in Roles : job[r] # NoJob => job[r].snapshot # 0 /\ job[r].status # "none"

\* An explicit request is what all passes resolve.
Explicit ==
    requested # Latest =>
        /\ \A r \in Roles : job[r].snapshot \in {0, requested}
        /\ copied \in {0, requested} /\ pick \in {0, requested}
        /\ run.snapshot \in {0, requested}

\* The snapshots named by Jobs, status and destination.
Named == {job["target"].snapshot, job["writer"].snapshot, copied, run.snapshot} \ {0, Latest}

Agreement == ~interrupted => \A s, t \in Named : s = t

\* A copy that will be accepted is of a run that waits.
FreshWaits == pc \in Creating /\ fresh => run.phase \in Waits

\* Before the first pass and after it: no Job and nothing recorded, or both Jobs of a run
\* that no longer waits.
Untouched == /\ \A r \in Roles : job[r] = NoJob
             /\ copied = 0 /\ run.snapshot \in {0, Latest}
Prepared  == /\ \A r \in Roles : job[r] # NoJob
             /\ run.phase \notin Waits

BetweenPasses ==
    ~interrupted /\ (pc = "target" \/ (pc = "idle" /\ ~view.deleting)) =>
        Untouched \/ Prepared

\* The pass has created the target Job, or will be refused.
AtWriter ==
    ~interrupted /\ pc = "writer" =>
        \/ /\ job["target"] # NoJob /\ job["target"].snapshot = pick
           /\ job["writer"] = NoJob
           /\ copied = 0 /\ run.snapshot \in {0, Latest}
        \/ Prepared

\* The pass has created both Jobs, or will be refused.
AtStatus ==
    ~interrupted /\ pc = "status" =>
        \/ /\ \A r \in Roles : job[r] # NoJob /\ job[r].snapshot = pick
           /\ copied \in {0, pick} /\ run.snapshot \in {0, Latest}
        \/ Prepared

Success == CacheBehind /\ CleansDeleted /\ PairServes /\ Witnesses /\ WriterKept /\ JobsForSnapshots
Record  == Explicit /\ Agreement /\ FreshWaits /\ BetweenPasses /\ AtWriter /\ AtStatus

IInv == TypeOK /\ Success /\ Record

\* Which pass the worker is in matters to every step.
USE DEF Creating, Cleaning, CleansDeleted

-----------------------------------------------------------------------------
(* The operators of the model                                              *)

\* Snapshots are neither 0 nor "latest".
LEMMA SnapshotNames ==
    /\ 0 \notin Snapshots /\ Latest \notin Snapshots /\ Latest # 0
    /\ Volume \subseteq Snapshots
    /\ \A s \in Requests : s # Latest => s \in Snapshots
<1>1. Volume \subseteq Nat \ {0} /\ Requests \ {Latest} \subseteq Nat \ {0}
    BY SnapshotsAssumption
<1>2. Latest \notin Volume /\ Latest # 0
    BY SnapshotsAssumption
<1>3. 0 \notin Volume /\ 0 \notin Requests \ {Latest}
    BY <1>1
<1>4. QED
    BY <1>2, <1>3 DEF Snapshots

\* What a request is resolved to.
LEMMA Resolved ==
    ASSUME TypeOK, NEW s \in resolveRestoreSnapshot
    PROVE  s \in Snapshots /\ (requested # Latest => s = requested)
<1>1. points \subseteq Volume /\ requested \in Requests
    BY DEF TypeOK
<1>2. CASE requested = Latest
    BY <1>1, <1>2, SnapshotNames DEF resolveRestoreSnapshot
<1>3. CASE requested # Latest
    BY <1>1, <1>3, SnapshotNames DEF resolveRestoreSnapshot
<1>4. QED
    BY <1>2, <1>3

\* The conditions of a Job show whether it exists and whether it is complete.
LEMMA ConditionOf ==
    ASSUME job \in [Roles -> Job], NEW r \in Roles
    PROVE  /\ Conditions[r] \in {"none", "active"} \cup Ended
           /\ Conditions[r] = "none" <=> job[r].status = "none"
           /\ Conditions[r] = "complete" <=> job[r].status = "complete"
BY DEF Conditions, Condition, Ended, Job

\* The numbers of faults stay in their bound.
LEMMA FaultBound ==
    ASSUME TypeOK, Fault \/ UNCHANGED faults
    PROVE  faults' \in 0..MaxFaults
BY FaultsAssumption DEF TypeOK, Fault

\* The two roles.
LEMMA TwoRoles == Roles = {"target", "writer"} /\ "target" \in Roles /\ "writer" \in Roles
BY DEF Roles

\* A Job that does not exist.
LEMMA NoJobType == /\ NoJob \in Job /\ NoJob.status = "none" /\ NoJob.snapshot = 0
                   /\ \A j \in Job : j.status = "none" /\ j.snapshot = 0 => j = NoJob
BY DEF NoJob, Job, Ended

-----------------------------------------------------------------------------
(* Initial states                                                          *)

\* The initial states satisfy the invariant.
LEMMA InitInv == Init => IInv
<1> SUFFICES ASSUME Init PROVE IInv
    OBVIOUS
<1>1. run \in RestoreJob /\ view = run /\ run.phase = "new" /\ ~run.deleting /\ run.snapshot = 0
    BY DEF Init, RestoreJob
<1>2. job \in [Roles -> Job] /\ \A r \in Roles : job[r] = NoJob
    BY NoJobType DEF Init
<1>3. seen \in [Roles -> {"none", "active"} \cup Ended] /\ \A r \in Roles : seen[r] = "none"
    <2>1. seen = Conditions /\ DOMAIN seen = Roles
        BY DEF Init, Conditions
    <2>2. \A r \in Roles : seen[r] = "none" /\ seen[r] \in {"none", "active"} \cup Ended
        BY <1>2, <2>1, ConditionOf, NoJobType
    <2>3. QED
        BY <2>1, <2>2 DEF Init, Conditions
<1>4. {blocked, stale, secrets, fresh, queued, interrupted} \subseteq BOOLEAN
    BY DEF Init
<1>5. faults \in 0..MaxFaults
    BY FaultsAssumption DEF Init
<1>6. TypeOK
    BY <1>1, <1>2, <1>3, <1>4, <1>5 DEF Init, TypeOK
<1>7. Success
    BY <1>1, <1>2, <1>3, NoJobType, TwoRoles
       DEF Init, Success, CacheBehind, PairServes, Witnesses, WriterKept, JobsForSnapshots, Kept
<1>8. Record
    BY <1>1, <1>2, NoJobType, TwoRoles
       DEF Init, Record, Explicit, Agreement, Named, FreshWaits, BetweenPasses, Untouched,
           AtWriter, AtStatus
<1>9. QED
    BY <1>6, <1>7, <1>8 DEF IInv

-----------------------------------------------------------------------------
(* Pods                                                                    *)

\* A step of the pods: Jobs stay, with their snapshots.
LEMMA PodStep ==
    ASSUME IInv,
           UNCHANGED <<machine, object, seen, secrets, pass, queued, interrupted>>,
           faults' \in 0..MaxFaults,
           job' \in [Roles -> Job],
           \A r \in Roles : /\ job'[r].snapshot = job[r].snapshot
                            /\ job'[r].status = "none" <=> job[r].status = "none",
           copied' = copied \/ (copied' = job["writer"].snapshot /\ job["writer"] # NoJob),
           hub' \in Seq({"Running"} \cup Terminal),
           \A i \in 1..Len(hub') : hub'[i] = "Succeeded" => copied' # 0,
           job'["writer"].status = "complete" => copied' # 0,
           PairServes',
           job'["target"].status \in {"busy", "complete"} =>
               job["target"].status \in {"busy", "complete"} \/ job["writer"] # NoJob
    PROVE  IInv'
<1>1. /\ \A r \in Roles : job[r] \in Job /\ job'[r] \in Job
      /\ copied \in Snapshots \cup {0}
    BY DEF IInv, TypeOK
<1>2. \A r \in Roles : /\ job'[r] = NoJob <=> job[r] = NoJob
                       /\ job[r] # NoJob => job[r].snapshot # 0 /\ job'[r].status # "none"
    BY <1>1, NoJobType DEF IInv, Success, JobsForSnapshots
<1>3. /\ copied' \in Snapshots \cup {0} /\ (copied # 0 => copied' # 0)
      /\ copied' # copied => job["writer"] # NoJob
    BY <1>1, <1>2, TwoRoles DEF Job
<1>4. TypeOK'
    BY <1>3 DEF IInv, TypeOK, machine, object, pass
<1>5. CacheBehind' /\ CleansDeleted' /\ JobsForSnapshots'
    BY <1>2 DEF IInv, Success, CacheBehind, JobsForSnapshots, object, pass
<1>6. Witnesses'
    BY <1>3 DEF IInv, Success, Witnesses, object
<1>7. WriterKept'
    BY <1>2, TwoRoles DEF IInv, Success, WriterKept, Kept, object, pass
<1>8. Explicit'
    BY TwoRoles DEF IInv, Record, Explicit, machine, object, pass
<1>9. Agreement'
    BY TwoRoles DEF IInv, Record, Agreement, Named, object
<1>10. FreshWaits'
    BY DEF IInv, Record, FreshWaits, object, pass
<1>11. BetweenPasses'
    BY <1>2, <1>3, TwoRoles DEF IInv, Record, BetweenPasses, Untouched, Prepared, object, pass
<1>12. AtWriter'
    BY <1>2, <1>3, TwoRoles DEF IInv, Record, AtWriter, Prepared, object, pass
<1>13. AtStatus'
    BY <1>2, <1>3, TwoRoles DEF IInv, Record, AtStatus, Prepared, object, pass
<1>14. QED
    BY <1>4, <1>5, <1>6, <1>7, <1>8, <1>9, <1>10, <1>11, <1>12, <1>13
       DEF IInv, Success, Record

\* A report is lost or is the last one of the hub.
LEMMA ReportStep ==
    ASSUME TypeOK, NEW phase \in {"Running", "Succeeded", "Failed"}, Report(phase)
    PROVE  /\ hub' \in Seq({"Running"} \cup Terminal)
           /\ \A i \in 1..Len(hub') : hub'[i] = phase \/ (i \in 1..Len(hub) /\ hub'[i] = hub[i])
           /\ faults' \in 0..MaxFaults
<1>1. hub \in Seq({"Running"} \cup Terminal) /\ phase \in {"Running"} \cup Terminal
    BY DEF TypeOK, Terminal
<1>2. hub' = hub \/ hub' = Append(hub, phase)
    BY DEF Report
<1>3. faults' \in 0..MaxFaults
    BY FaultBound DEF Report
<1>4. QED
    BY <1>1, <1>2, <1>3

\* One pod changes its status.
LEMMA OneJob ==
    ASSUME TypeOK, NEW q \in Roles, NEW status \in {"waiting", "busy"} \cup Ended,
           job' = [job EXCEPT ![q].status = status], job[q].status # "none"
    PROVE  /\ job' \in [Roles -> Job]
           /\ \A r \in Roles : /\ job'[r].snapshot = job[r].snapshot
                               /\ job'[r].status = "none" <=> job[r].status = "none"
                               /\ r # q => job'[r] = job[r]
           /\ job'[q].status = status
<1>1. job \in [Roles -> Job]
    BY DEF TypeOK
<1>2. status # "none" /\ [job[q] EXCEPT !.status = status] \in Job
    BY <1>1 DEF Job, Ended
<1>3. QED
    BY <1>1, <1>2 DEF Job

\* A pod starts.
LEMMA PodStartsStep ==
    ASSUME IInv, TargetListens \/ WriterStarts
    PROVE  IInv'
<1>1. /\ UNCHANGED <<machine, object, seen, secrets, pass, queued, interrupted, copied>>
      /\ \E q \in Roles : job[q].status = "starting" /\ job' = [job EXCEPT ![q].status = "waiting"]
    BY TwoRoles DEF TargetListens, WriterStarts
<1>2. PICK q \in Roles : /\ job[q].status = "starting"
                         /\ job' = [job EXCEPT ![q].status = "waiting"]
    BY <1>1
<1>3. /\ job' \in [Roles -> Job]
      /\ \A r \in Roles : /\ job'[r].snapshot = job[r].snapshot
                          /\ job'[r].status = "none" <=> job[r].status = "none"
                          /\ r # q => job'[r] = job[r]
      /\ job'[q].status = "waiting"
    BY <1>2, OneJob DEF IInv
<1>4. /\ hub' \in Seq({"Running"} \cup Terminal) /\ faults' \in 0..MaxFaults
      /\ \A i \in 1..Len(hub') : hub'[i] = "Succeeded" => copied # 0
    <2>1. CASE TargetListens
        BY <2>1 DEF TargetListens, IInv, TypeOK, Success, Witnesses
    <2>2. CASE WriterStarts
        BY <2>2, ReportStep DEF WriterStarts, IInv, Success, Witnesses
    <2>3. QED
        BY <2>1, <2>2
<1>5. PairServes'
    BY <1>3, TwoRoles DEF PairServes, IInv, Success
<1>6. /\ job'["writer"].status = "complete" => copied # 0
      /\ job'["target"].status \in {"busy", "complete"} => job["target"].status \in {"busy", "complete"}
    BY <1>3, TwoRoles DEF IInv, Success, Witnesses
<1>7. QED
    BY <1>1, <1>3, <1>4, <1>5, <1>6, PodStep

\* The writer connects, to a target that can serve it or not.
LEMMA ConnectStep ==
    ASSUME IInv, Connect
    PROVE  IInv'
<1>1. /\ job["writer"].status = "waiting" /\ job["target"].status = "waiting"
      /\ UNCHANGED <<machine, object, seen, secrets, pass, queued, interrupted, copied, hub, faults>>
    BY DEF Connect
<1>2. job \in [Roles -> Job]
    BY DEF IInv, TypeOK
<1>3. CASE Served
    <2>1. job' = [r \in Roles |-> [job[r] EXCEPT !.status = "busy"]]
        BY <1>3 DEF Connect
    <2>2. /\ job' \in [Roles -> Job]
          /\ \A r \in Roles : job'[r].snapshot = job[r].snapshot /\ job'[r].status = "busy"
        BY <1>2, <2>1 DEF Job
    <2>3. PairServes'
        BY <1>3, <2>2, TwoRoles DEF PairServes, Served
    <2>4. QED
        BY <1>1, <2>2, <2>3, TwoRoles, NoJobType, PodStep DEF IInv, TypeOK, Success, Witnesses
<1>4. CASE ~Served
    <2>1. job' = [job EXCEPT !["target"].status = "failed", !["writer"].status = "busy"]
        BY <1>4 DEF Connect
    <2>2. /\ job' \in [Roles -> Job]
          /\ \A r \in Roles : job'[r].snapshot = job[r].snapshot
          /\ job'["target"].status = "failed" /\ job'["writer"].status = "busy"
        BY <1>2, <2>1, TwoRoles DEF Job, Ended
    <2>3. PairServes'
        BY <2>2 DEF PairServes
    <2>4. QED
        BY <1>1, <2>2, <2>3, TwoRoles, NoJobType, PodStep DEF IInv, TypeOK, Success, Witnesses
<1>5. QED
    BY <1>3, <1>4

\* The writer fails, or has copied the snapshot the pair serves.
LEMMA WriterEndsStep ==
    ASSUME IInv, WriterFails \/ WriterSucceeds
    PROVE  IInv'
<1>1. /\ UNCHANGED <<machine, object, seen, secrets, pass, queued, interrupted>>
      /\ job["writer"].status \in {"waiting", "busy"}
    BY DEF WriterFails, WriterSucceeds
<1>2. job["writer"] # NoJob
    BY <1>1, NoJobType
<1>3. CASE WriterFails
    <2>1. job' = [job EXCEPT !["writer"].status = "failed"] /\ copied' = copied /\ Report("Failed")
        BY <1>3 DEF WriterFails
    <2>2. /\ job' \in [Roles -> Job]
          /\ \A r \in Roles : /\ job'[r].snapshot = job[r].snapshot
                              /\ job'[r].status = "none" <=> job[r].status = "none"
                              /\ r # "writer" => job'[r] = job[r]
          /\ job'["writer"].status = "failed"
        BY <1>1, <2>1, OneJob, TwoRoles DEF IInv, Ended
    <2>3. /\ hub' \in Seq({"Running"} \cup Terminal) /\ faults' \in 0..MaxFaults
          /\ \A i \in 1..Len(hub') : hub'[i] = "Succeeded" => copied # 0
        BY <2>1, ReportStep DEF IInv, Success, Witnesses
    <2>4. PairServes'
        BY <2>2 DEF PairServes
    <2>5. QED
        BY <1>1, <1>2, <2>1, <2>2, <2>3, <2>4, PodStep
<1>4. CASE WriterSucceeds
    <2>1. /\ job["writer"].status = "busy" /\ job["target"].status = "busy"
          /\ job' = [job EXCEPT !["writer"].status = "complete"]
          /\ copied' = job["writer"].snapshot /\ Report("Succeeded")
        BY <1>4 DEF WriterSucceeds
    <2>2. /\ job' \in [Roles -> Job]
          /\ \A r \in Roles : /\ job'[r].snapshot = job[r].snapshot
                              /\ job'[r].status = "none" <=> job[r].status = "none"
                              /\ r # "writer" => job'[r] = job[r]
          /\ job'["writer"].status = "complete"
        BY <1>1, <2>1, OneJob, TwoRoles DEF IInv, Ended
    <2>3. copied' # 0
        <3>1. job["writer"].snapshot \in Volume
            BY <2>1 DEF IInv, Success, PairServes, Served
        <3>2. QED
            BY <2>1, <3>1, SnapshotNames
    <2>4. hub' \in Seq({"Running"} \cup Terminal) /\ faults' \in 0..MaxFaults
        BY <2>1, ReportStep DEF IInv
    <2>5. PairServes'
        BY <2>2 DEF PairServes
    <2>6. QED
        BY <1>1, <1>2, <2>1, <2>2, <2>3, <2>4, <2>5, PodStep
<1>5. QED
    BY <1>3, <1>4

\* The target ends by itself, or a deadline ends a Job.
LEMMA PodEndsStep ==
    ASSUME IInv, TargetEnds \/ \E r \in Roles : Deadline(r)
    PROVE  IInv'
<1>1. /\ UNCHANGED <<machine, object, seen, secrets, pass, queued, interrupted, copied, hub>>
      /\ Fault \/ UNCHANGED faults
    BY DEF TargetEnds, Deadline
<1>2. PICK q \in Roles, status \in Ended :
          /\ job[q].status \in {"starting", "waiting", "busy"}
          /\ job' = [job EXCEPT ![q].status = status]
          /\ status = "complete" => q = "target" /\ job[q].status = "busy"
    BY TwoRoles DEF TargetEnds, Deadline, Ended
<1>3. /\ job' \in [Roles -> Job]
      /\ \A r \in Roles : /\ job'[r].snapshot = job[r].snapshot
                          /\ job'[r].status = "none" <=> job[r].status = "none"
                          /\ r # q => job'[r] = job[r]
      /\ job'[q].status = status
    BY <1>2, OneJob DEF IInv
<1>4. PairServes'
    BY <1>3, TwoRoles DEF PairServes, IInv, Success, Ended, Served
<1>5. /\ hub' \in Seq({"Running"} \cup Terminal) /\ faults' \in 0..MaxFaults
      /\ \A i \in 1..Len(hub') : hub'[i] = "Succeeded" => copied # 0
    BY <1>1, FaultBound DEF IInv, TypeOK, Success, Witnesses
<1>6. /\ job'["writer"].status = "complete" => copied # 0
      /\ job'["target"].status \in {"busy", "complete"} => job["target"].status \in {"busy", "complete"}
    BY <1>2, <1>3, TwoRoles DEF IInv, Success, Witnesses, Ended
<1>7. QED
    BY <1>1, <1>3, <1>4, <1>5, <1>6, PodStep

-----------------------------------------------------------------------------
(* Writes of the run                                                       *)

\* The run is written by the worker between passes, by the applier or by a user.  The
\* recorded snapshot stays, or becomes the request of a run that has its Jobs.
LEMMA WriteStep ==
    ASSUME IInv, NEW status \in RestoreJob, Write(status),
           UNCHANGED <<machine, pods, seen, pc, pick, listed, interrupted>>,
           faults' \in 0..MaxFaults, queued' \in BOOLEAN, secrets' \in BOOLEAN,
           hub' \in Seq({"Running"} \cup Terminal),
           \A i \in 1..Len(hub') : hub'[i] = "Succeeded" => copied # 0,
           run.deleting => status.deleting,
           status.phase = "Succeeded" => copied # 0,
           status.phase \in Waits => run.phase \in Waits,
           \/ status.snapshot = run.snapshot
           \/ /\ status.snapshot = requested /\ run.snapshot = 0 /\ pc = "idle"
              /\ \E r \in Roles : job[r] # NoJob
    PROVE  IInv'
<1>1. run' = status /\ stale' = TRUE /\ fresh' = FALSE /\ view' = view
    BY DEF Write
<1>2. TypeOK'
    <2>1. {blocked', stale', secrets', fresh', queued', interrupted'} \subseteq BOOLEAN
        BY <1>1 DEF IInv, TypeOK, machine
    <2>2. QED
        BY <1>1, <2>1 DEF IInv, TypeOK, machine, pods
<1>3. CacheBehind' /\ CleansDeleted'
    BY <1>1 DEF IInv, Success, CacheBehind
<1>4. (PairServes /\ WriterKept /\ JobsForSnapshots)'
    BY <1>1 DEF IInv, Success, PairServes, Served, WriterKept, Kept, JobsForSnapshots, pods
<1>5. Witnesses'
    BY <1>1 DEF IInv, Success, Witnesses, pods
<1>6. Explicit'
    BY <1>1 DEF IInv, Record, Explicit, machine, pods
<1>7. Agreement'
    <2>1. CASE status.snapshot = run.snapshot
        BY <1>1, <2>1 DEF IInv, Record, Agreement, Named, pods
    <2>2. CASE status.snapshot = requested /\ requested = Latest
        <3>1. Named' \subseteq Named
            BY <1>1, <2>2 DEF Named, pods
        <3>2. QED
            BY <3>1 DEF IInv, Record, Agreement
    <2>3. CASE status.snapshot = requested /\ requested # Latest
        <3>1. /\ job["target"].snapshot \in {0, requested} /\ copied \in {0, requested}
              /\ job["writer"].snapshot \in {0, requested}
            BY <2>3, TwoRoles DEF IInv, Record, Explicit
        <3>2. Named' \subseteq {requested}
            BY <1>1, <2>3, <3>1 DEF Named, pods
        <3>3. QED
            BY <3>2 DEF Agreement
    <2>4. QED
        BY <2>1, <2>2, <2>3
<1>8. FreshWaits'
    BY <1>1 DEF FreshWaits
<1>9. BetweenPasses'
    BY <1>1 DEF IInv, Record, BetweenPasses, Untouched, Prepared, pods
<1>10. AtWriter' /\ AtStatus'
    BY <1>1 DEF IInv, Record, AtWriter, AtStatus, Prepared, pods
<1>11. QED
    BY <1>2, <1>3, <1>4, <1>5, <1>6, <1>7, <1>8, <1>9, <1>10 DEF IInv, Success, Record

\* A step that touches neither the run nor Jobs, caches, hub and pass.
LEMMA QuietStep ==
    ASSUME IInv, UNCHANGED <<requested, object, pods, seen, pass, hub, interrupted>>,
           points' \subseteq Volume, blocked' \in BOOLEAN,
           faults' \in 0..MaxFaults, queued' \in BOOLEAN, secrets' \in BOOLEAN
    PROVE  IInv'
<1>1. TypeOK'
    <2>1. {blocked', stale', secrets', fresh', queued', interrupted'} \subseteq BOOLEAN
        BY DEF IInv, TypeOK, object, pass
    <2>2. QED
        BY <2>1 DEF IInv, TypeOK, object, pods, pass
<1>2. Success'
    BY DEF IInv, Success, CacheBehind, PairServes, Served, Witnesses, WriterKept, Kept,
           JobsForSnapshots, object, pods, pass
<1>3. Record'
    BY DEF IInv, Record, Explicit, Agreement, Named, FreshWaits, BetweenPasses, Untouched,
           Prepared, AtWriter, AtStatus, object, pods, pass
<1>4. QED
    BY <1>1, <1>2, <1>3 DEF IInv

\* A held or failed run: the update is made, refused or lost.
LEMMA HoldOrFailStep ==
    ASSUME IInv, HoldRestoreJob \/ FailRestoreJob
    PROVE  IInv'
<1>1. PICK phase \in {"Pending", "Failed"}, again \in BOOLEAN :
          /\ Reconciling(Waits)
          /\ StatusUpdate(~stale, [view EXCEPT !.phase = phase], again)
    BY DEF HoldRestoreJob, FailRestoreJob, Waits
<1>2. UNCHANGED <<machine, pods, seen, secrets, pc, pick, listed, hub, interrupted>>
    BY DEF HoldRestoreJob, FailRestoreJob
<1>3. faults' \in 0..MaxFaults
    BY <1>1, FaultBound DEF StatusUpdate, IInv
<1>4. queued' \in BOOLEAN /\ secrets' \in BOOLEAN
    BY <1>1, <1>2 DEF StatusUpdate, IInv, TypeOK
<1>5. CASE ~stale /\ Write([view EXCEPT !.phase = phase])
    <2>1. view = run /\ view \in RestoreJob /\ view.phase \in Waits
        BY <1>1, <1>5 DEF IInv, Success, CacheBehind, TypeOK, Reconciling
    <2>2. /\ [view EXCEPT !.phase = phase] \in RestoreJob
          /\ [view EXCEPT !.phase = phase].phase = phase
          /\ [view EXCEPT !.phase = phase].snapshot = run.snapshot
          /\ [view EXCEPT !.phase = phase].deleting = run.deleting
        BY <2>1 DEF RestoreJob, Terminal
    <2>3. /\ hub' \in Seq({"Running"} \cup Terminal)
          /\ \A i \in 1..Len(hub') : hub'[i] = "Succeeded" => copied # 0
        BY <1>2 DEF IInv, TypeOK, Success, Witnesses
    <2>4. QED
        BY <1>2, <1>3, <1>4, <1>5, <2>1, <2>2, <2>3, WriteStep
<1>6. CASE UNCHANGED <<object, fresh>>
    BY <1>2, <1>3, <1>4, <1>6, QuietStep DEF machine, pass, IInv, TypeOK
<1>7. QED
    BY <1>1, <1>5, <1>6 DEF StatusUpdate

\* The phase is derived from the Jobs that the cache shows.
LEMMA JobStatusStep ==
    ASSUME IInv, ReconcileJobStatus
    PROVE  IInv'
<1> DEFINE phase  == IF \E r \in Roles : seen[r] = "failed" THEN "Failed"
                     ELSE IF AllComplete THEN "Succeeded" ELSE "Running"
           record == IF phase = "Succeeded" /\ view.snapshot = 0 THEN requested
                     ELSE view.snapshot
           status == [view EXCEPT !.phase = phase, !.snapshot = record]
<1>1. /\ pc = "idle" /\ ~view.deleting
      /\ UNCHANGED <<machine, pods, seen, pc, pick, listed, hub, interrupted>>
    BY DEF ReconcileJobStatus, Reconciling
<1>2. IF phase = view.phase \/ \A r \in Roles : seen[r] = "none"
      THEN queued' = FALSE /\ UNCHANGED <<object, fresh, secrets, faults>>
      ELSE \/ /\ ~stale
              /\ Write(status)
              /\ queued' = FALSE
              /\ secrets' = (secrets /\ phase \notin Terminal)
              /\ UNCHANGED faults
           \/ /\ stale /\ UNCHANGED <<object, fresh, queued, secrets, faults>>
           \/ /\ Fault /\ UNCHANGED <<object, fresh, queued, secrets>>
    BY DEF ReconcileJobStatus
<1>3. phase \in {"Failed", "Succeeded", "Running"}
    OBVIOUS
<1>4. (\E r \in Roles : seen[r] # "none") /\ phase = "Succeeded" => copied # 0
    <2>1. phase = "Succeeded" => AllComplete
        OBVIOUS
    <2>2. seen["target"] = "complete" => seen["writer"] # "none"
        BY <1>1 DEF IInv, Success, WriterKept, Kept
    <2>3. QED
        BY <2>1, <2>2, TwoRoles DEF AllComplete, IInv, Success, Witnesses
<1> HIDE DEF phase
<1>5. faults' \in 0..MaxFaults
    BY <1>2, FaultBound DEF IInv
<1>6. queued' \in BOOLEAN /\ secrets' \in BOOLEAN
    BY <1>2 DEF IInv, TypeOK
<1>7. CASE ~stale /\ Write(status) /\ \E r \in Roles : seen[r] # "none"
    <2>1. view = run /\ view \in RestoreJob
        BY <1>7 DEF IInv, Success, CacheBehind, TypeOK
    <2>2. record \in Snapshots \cup {0, Latest}
        BY <2>1, SnapshotNames DEF RestoreJob, IInv, TypeOK
    <2>3. /\ record = run.snapshot \/ (record = requested /\ run.snapshot = 0)
        BY <2>1
    <2> HIDE DEF record
    <2>4. /\ status \in RestoreJob /\ status.phase = phase /\ status.snapshot = record
          /\ status.deleting = run.deleting
        BY <1>3, <2>1, <2>2 DEF RestoreJob, Terminal
    <2> HIDE DEF status
    <2>5. \E r \in Roles : job[r] # NoJob
        BY <1>1, <1>7 DEF IInv, Success, WriterKept, Kept
    <2>6. /\ hub' \in Seq({"Running"} \cup Terminal)
          /\ \A i \in 1..Len(hub') : hub'[i] = "Succeeded" => copied # 0
        BY <1>1 DEF IInv, TypeOK, Success, Witnesses
    <2>7. status.phase \notin Waits /\ (status.phase = "Succeeded" => copied # 0)
        BY <1>3, <1>4, <1>7, <2>4 DEF Waits
    <2>8. QED
        BY <1>1, <1>5, <1>6, <1>7, <2>3, <2>4, <2>5, <2>6, <2>7, WriteStep
<1>8. CASE UNCHANGED <<object, fresh>>
    BY <1>1, <1>5, <1>6, <1>8, QuietStep DEF machine, pass, IInv, TypeOK
<1>9. QED
    BY <1>2, <1>7, <1>8

\* A report replaces the phase; a user deletes the run.
LEMMA ApplyOrDeleteStep ==
    ASSUME IInv, ApplyEvent \/ DeleteRestoreJob
    PROVE  IInv'
<1>1. run \in RestoreJob /\ hub \in Seq({"Running"} \cup Terminal)
    BY DEF IInv, TypeOK
<1>2. CASE DeleteRestoreJob
    <2>1. /\ Write([run EXCEPT !.deleting = TRUE])
          /\ UNCHANGED <<machine, pods, seen, secrets, pc, pick, listed, queued, hub, interrupted, faults>>
        BY <1>2 DEF DeleteRestoreJob
    <2>2. /\ [run EXCEPT !.deleting = TRUE] \in RestoreJob
          /\ [run EXCEPT !.deleting = TRUE].phase = run.phase
          /\ [run EXCEPT !.deleting = TRUE].snapshot = run.snapshot
          /\ [run EXCEPT !.deleting = TRUE].deleting
        BY <1>1 DEF RestoreJob
    <2>3. /\ faults' \in 0..MaxFaults /\ queued' \in BOOLEAN /\ secrets' \in BOOLEAN
          /\ hub' \in Seq({"Running"} \cup Terminal)
          /\ \A i \in 1..Len(hub') : hub'[i] = "Succeeded" => copied # 0
          /\ run.phase = "Succeeded" => copied # 0
        BY <2>1 DEF IInv, TypeOK, Success, Witnesses
    <2>4. QED
        BY <2>1, <2>2, <2>3, WriteStep
<1>3. CASE ApplyEvent
    <2> DEFINE applied == [run EXCEPT !.phase = Head(hub)]
    <2>1. /\ hub # <<>> /\ hub' = Tail(hub)
          /\ UNCHANGED <<machine, pods, seen, secrets, pc, pick, listed, queued, interrupted, faults>>
          /\ UNCHANGED <<object, fresh>> \/ Write(applied)
        BY <1>3 DEF ApplyEvent, ApplySourceEventToRestoreJob
    <2>2. /\ Head(hub) \in {"Running"} \cup Terminal
          /\ Head(hub) = "Succeeded" => copied # 0
        BY <1>1, <2>1 DEF IInv, Success, Witnesses
    <2>3. /\ hub' \in Seq({"Running"} \cup Terminal)
          /\ \A i \in 1..Len(hub') : hub'[i] = "Succeeded" => copied # 0
        <3>1. /\ Tail(hub) \in Seq({"Running"} \cup Terminal)
              /\ \A i \in 1..Len(Tail(hub)) : i + 1 \in 1..Len(hub) /\ Tail(hub)[i] = hub[i + 1]
            BY <1>1, <2>1
        <3>2. QED
            BY <2>1, <3>1 DEF IInv, Success, Witnesses
    <2>4. /\ applied \in RestoreJob /\ applied.phase = Head(hub)
          /\ applied.snapshot = run.snapshot /\ applied.deleting = run.deleting
        BY <1>1, <2>2 DEF RestoreJob, Terminal
    <2>5. faults' \in 0..MaxFaults /\ queued' \in BOOLEAN /\ secrets' \in BOOLEAN
        BY <2>1 DEF IInv, TypeOK
    <2>6. CASE Write(applied)
        <3>1. applied.phase \notin Waits
            BY <2>2, <2>4 DEF Waits, Terminal
        <3> HIDE DEF applied
        <3>2. QED
            BY <2>1, <2>2, <2>3, <2>4, <2>5, <2>6, <3>1, WriteStep
    <2>7. CASE UNCHANGED <<object, fresh>>
        <3>1. TypeOK'
            <4>1. {blocked', stale', secrets', fresh', queued', interrupted'} \subseteq BOOLEAN
                BY <2>1, <2>7 DEF IInv, TypeOK, object, machine
            <4>2. QED
                BY <2>1, <2>3, <2>7, <4>1 DEF IInv, TypeOK, object, pods, machine
        <3>2. Success'
            BY <2>1, <2>3, <2>7
               DEF IInv, Success, CacheBehind, PairServes, Served, Witnesses, WriterKept, Kept,
                   JobsForSnapshots, object, pods
        <3>3. Record'
            BY <2>1, <2>7
               DEF IInv, Record, Explicit, Agreement, Named, FreshWaits, BetweenPasses,
                   Untouched, Prepared, AtWriter, AtStatus, object, pods, machine
        <3>4. QED
            BY <3>1, <3>2, <3>3 DEF IInv
    <2>8. QED
        BY <2>1, <2>6, <2>7
<1>4. QED
    BY <1>2, <1>3

-----------------------------------------------------------------------------
(* Caches                                                                  *)

\* Caches catch up, and a crash breaks off the pass and loses the reports.
LEMMA CacheStep ==
    ASSUME IInv, SyncRun \/ SyncJobs \/ Crash
    PROVE  IInv'
<1>1. /\ UNCHANGED <<machine, run, pods, secrets>>
      /\ queued' \in BOOLEAN
    BY DEF SyncRun, SyncJobs, Crash, IInv, TypeOK, object
<1>2. \/ view' = run /\ stale' = FALSE
      \/ view' = view /\ stale' = stale /\ pc' = pc
    BY DEF SyncRun, SyncJobs, Crash, object, pass
<1>3. seen' = seen \/ seen' = Conditions
    BY DEF SyncRun, SyncJobs, Crash
<1>4. \/ UNCHANGED <<pc, pick, listed, fresh, interrupted>>
      \/ /\ pc' = "idle" /\ pick' = 0 /\ listed' = {} /\ fresh' = FALSE
         /\ interrupted' = (interrupted \/ pc \in {"writer", "status"})
    BY DEF SyncRun, SyncJobs, Crash, pass
<1>5. hub' = hub \/ hub' = <<>>
    BY DEF SyncRun, SyncJobs, Crash
<1>6. faults' \in 0..MaxFaults
    <2>1. UNCHANGED faults \/ Fault
        BY DEF SyncRun, SyncJobs, Crash
    <2>2. QED
        BY <2>1, FaultBound DEF IInv
<1>7. /\ seen' \in [Roles -> {"none", "active"} \cup Ended]
      /\ \A r \in Roles : seen'[r] = seen[r] \/ seen'[r] = Conditions[r]
    <2>1. job \in [Roles -> Job] /\ seen \in [Roles -> {"none", "active"} \cup Ended]
        BY DEF IInv, TypeOK
    <2>2. Conditions \in [Roles -> {"none", "active"} \cup Ended]
        BY <2>1, ConditionOf DEF Conditions
    <2>3. QED
        BY <1>3, <2>1, <2>2
<1>8. /\ hub' \in Seq({"Running"} \cup Terminal)
      /\ \A i \in 1..Len(hub') : hub'[i] = "Succeeded" => copied # 0
    <2>1. CASE hub' = hub
        BY <2>1 DEF IInv, TypeOK, Success, Witnesses
    <2>2. CASE hub' = <<>>
        BY <2>2
    <2>3. QED
        BY <1>5, <2>1, <2>2
<1>9. /\ view' \in RestoreJob /\ (view.deleting => run.deleting)
      /\ view'.deleting => run.deleting
      /\ view.deleting => view'.deleting
    BY <1>2 DEF IInv, TypeOK, Success, CacheBehind
<1>10. Kept' => Kept
    BY <1>2, <1>4, <1>9 DEF Kept
<1>11. TypeOK'
    <2>1. interrupted' \in BOOLEAN /\ fresh' \in BOOLEAN /\ stale' \in BOOLEAN
        BY <1>2, <1>4 DEF IInv, TypeOK
    <2>2. {blocked', stale', secrets', fresh', queued', interrupted'} \subseteq BOOLEAN
        BY <1>1, <2>1 DEF IInv, TypeOK, machine
    <2>3. /\ pc' \in {"idle"} \cup Creating \cup Cleaning /\ pick' \in Snapshots \cup {0}
          /\ pc' \in Creating <=> pick' # 0
          /\ listed' \subseteq Roles /\ (listed' # {} => pc' = "deleteJobs")
        BY <1>4 DEF IInv, TypeOK
    <2>4. QED
        BY <1>1, <1>6, <1>7, <1>8, <1>9, <2>2, <2>3 DEF IInv, TypeOK, machine, pods
<1>12. CacheBehind' /\ CleansDeleted' /\ PairServes' /\ JobsForSnapshots'
    BY <1>1, <1>2, <1>4, <1>9
       DEF IInv, Success, CacheBehind, PairServes, Served, JobsForSnapshots, pods
<1>13. \A r \in Roles : /\ Conditions[r] = "none" <=> job[r].status = "none"
                        /\ Conditions[r] = "complete" <=> job[r].status = "complete"
    BY ConditionOf DEF IInv, TypeOK
<1>14. Witnesses'
    BY <1>1, <1>2, <1>7, <1>8, <1>13, TwoRoles DEF IInv, Success, Witnesses, pods
<1>15. WriterKept'
    <2>1. SUFFICES ASSUME Kept
          PROVE  /\ job["target"].status \in {"busy", "complete"} => job["writer"] # NoJob
                 /\ seen'["target"] = "complete" => seen'["writer"] # "none"
                 /\ \A r \in Roles : job[r] = NoJob => seen'[r] = "none"
        BY <1>1, <1>10 DEF WriterKept, pods
    <2>2. /\ job["target"].status \in {"busy", "complete"} => job["writer"] # NoJob
          /\ seen["target"] = "complete" => seen["writer"] # "none"
          /\ \A r \in Roles : job[r] = NoJob => seen[r] = "none"
          /\ \A r \in Roles : job[r] # NoJob => job[r].status # "none"
        BY <2>1 DEF IInv, Success, WriterKept, JobsForSnapshots
    <2>3. QED
        BY <1>3, <1>13, <2>2, TwoRoles, NoJobType
<1>16. Explicit' /\ Agreement' /\ FreshWaits'
    <2>1. Explicit' /\ FreshWaits'
        BY <1>1, <1>4 DEF IInv, Record, Explicit, FreshWaits, machine, pods
    <2>2. interrupted => interrupted'
        BY <1>4
    <2>3. Named' = Named
        BY <1>1 DEF Named, pods
    <2>4. QED
        BY <2>1, <2>2, <2>3 DEF IInv, Record, Agreement
<1>17. BetweenPasses' /\ AtWriter' /\ AtStatus'
    <2>1. pc \in {"idle"} \cup Creating \cup Cleaning /\ (pc \in Cleaning => view.deleting)
        BY DEF IInv, TypeOK, Success
    <2>2. QED
        BY <1>1, <1>2, <1>4, <1>9, <2>1
           DEF IInv, Record, BetweenPasses, AtWriter, AtStatus, Untouched, Prepared, pods
<1>18. QED
    BY <1>11, <1>12, <1>14, <1>15, <1>16, <1>17 DEF IInv, Success, Record

\* Steps that only queue the run or remove credentials.
LEMMA QueueStep ==
    ASSUME IInv,
           SyncMachine \/ Resync \/ Unblock \/ ReconcileTerminal \/ ReconcileGone
    PROVE  IInv'
<1>1. /\ UNCHANGED <<requested, object, pods, seen, pass, hub, interrupted, faults>>
      /\ points' = points \/ points' = Volume
      /\ blocked' = blocked \/ blocked' = FALSE
      /\ queued' = queued \/ queued' \in BOOLEAN
      /\ secrets' = secrets \/ secrets' = FALSE
    BY DEF SyncMachine, Resync, Unblock, ReconcileTerminal, ReconcileGone, machine
<1>2. points' \subseteq Volume /\ faults' \in 0..MaxFaults
    BY <1>1 DEF IInv, TypeOK
<1>3. blocked' \in BOOLEAN /\ queued' \in BOOLEAN /\ secrets' \in BOOLEAN
    BY <1>1 DEF IInv, TypeOK
<1>4. QED
    BY <1>1, <1>2, <1>3, QuietStep

-----------------------------------------------------------------------------
(* The pass of the worker                                                  *)

\* The pass starts on a run that the cache shows waiting.
LEMMA StartPassStep ==
    ASSUME IInv, StartPass
    PROVE  IInv'
<1>1. /\ pc = "idle" /\ ~view.deleting /\ view.phase \in Waits
      /\ pick' \in resolveRestoreSnapshot /\ pc' = "target" /\ fresh' = ~stale
      /\ queued' = FALSE
      /\ UNCHANGED <<machine, object, pods, seen, secrets, listed, hub, interrupted, faults>>
    BY DEF StartPass, Reconciling, Waits
<1>2. pick' \in Snapshots /\ pick' # 0 /\ (requested # Latest => pick' = requested)
    BY <1>1, Resolved, SnapshotNames DEF IInv
<1>3. TypeOK'
    <2>1. fresh' \in BOOLEAN /\ stale \in BOOLEAN
        BY <1>1 DEF IInv, TypeOK
    <2>2. {blocked', stale', secrets', fresh', queued', interrupted'} \subseteq BOOLEAN
        BY <1>1, <2>1 DEF IInv, TypeOK, machine, object
    <2>3. QED
        BY <1>1, <1>2, <2>2 DEF IInv, TypeOK, machine, object, pods
<1>4. Success'
    BY <1>1 DEF IInv, Success, CacheBehind, PairServes, Served, Witnesses, WriterKept, Kept,
                JobsForSnapshots, object, pods
<1>5. Explicit' /\ Agreement'
    BY <1>1, <1>2 DEF IInv, Record, Explicit, Agreement, Named, machine, object, pods
<1>6. FreshWaits'
    BY <1>1 DEF IInv, Success, CacheBehind, FreshWaits, object
<1>7. BetweenPasses' /\ AtWriter' /\ AtStatus'
    BY <1>1 DEF IInv, Record, BetweenPasses, AtWriter, AtStatus, Untouched, Prepared, object, pods
<1>8. QED
    BY <1>3, <1>4, <1>5, <1>6, <1>7 DEF IInv, Record

\* createJobIfMissing: the Job is there, is created for the snapshot of the pass, or the
\* pass breaks off.
LEMMA CreateCases ==
    ASSUME IInv, NEW q \in Roles, NEW next, pc \in Creating, createJobIfMissing(q, next)
    PROVE  \/ /\ job' = job /\ job[q] # NoJob /\ pc' = next
              /\ UNCHANGED <<pick, queued, interrupted, faults>>
           \/ /\ job' \in [Roles -> Job] /\ job[q] = NoJob
              /\ job'[q].status = "starting" /\ job'[q].snapshot = pick
              /\ \A r \in Roles : r # q => job'[r] = job[r]
              /\ pc' = next
              /\ UNCHANGED <<pick, queued, interrupted, faults>>
           \/ /\ job' = job /\ pc' = "idle" /\ pick' = 0 /\ queued' = TRUE
              /\ interrupted' = (interrupted \/ \E x \in Roles : job[x] # NoJob)
              /\ Fault \/ UNCHANGED faults
<1>1. job \in [Roles -> Job] /\ pick \in Snapshots \cup {0}
    BY DEF IInv, TypeOK
<1>2. seen[q] # "none" => job[q] # NoJob
    BY DEF IInv, Success, WriterKept, Kept
<1> DEFINE new == [status |-> "starting", snapshot |-> pick]
<1>3. new \in Job /\ new.status = "starting" /\ new.snapshot = pick
    BY <1>1 DEF Job
<1>4. CASE /\ seen[q] # "none" \/ job[q] = NoJob
           /\ job' = [job EXCEPT ![q] = IF seen[q] # "none" THEN @ ELSE new]
           /\ pc' = next
           /\ UNCHANGED <<pick, queued, interrupted, faults>>
    <2> HIDE DEF new
    <2>1. CASE seen[q] # "none"
        BY <1>1, <1>2, <1>4, <2>1
    <2>2. CASE seen[q] = "none"
        BY <1>1, <1>3, <1>4, <2>2
    <2>3. QED
        BY <2>1, <2>2
<1>5. CASE /\ \/ seen[q] = "none" /\ job[q] # NoJob /\ UNCHANGED faults
              \/ Fault
           /\ pc' = "idle" /\ pick' = 0 /\ queued' = TRUE
           /\ interrupted' = (interrupted \/ \E x \in Roles : job[x] # NoJob)
           /\ UNCHANGED job
    BY <1>5
<1>6. QED
    BY <1>4, <1>5 DEF createJobIfMissing

\* What a creation keeps, whichever Job it is for.
LEMMA CreateKeeps ==
    ASSUME IInv, NEW q \in Roles, NEW next \in {"writer", "status"}, pc \in Creating,
           createJobIfMissing(q, next),
           UNCHANGED <<machine, object, copied, seen, listed, fresh, hub>>, secrets' \in BOOLEAN
    PROVE  TypeOK' /\ Success' /\ Explicit' /\ FreshWaits'
<1>1. /\ pick # 0 /\ pick \in Snapshots \cup {0} /\ job \in [Roles -> Job]
      /\ \A r \in Roles : job[r] \in Job
    BY DEF IInv, TypeOK
<1>2. /\ job' \in [Roles -> Job]
      /\ \A r \in Roles : \/ job'[r] = job[r]
                          \/ /\ job[r] = NoJob
                             /\ job'[r].status = "starting" /\ job'[r].snapshot = pick
    BY <1>1, CreateCases
<1>3. \A r \in Roles : job'[r] = NoJob => job[r] = NoJob
    BY <1>2
<1>4. faults' \in 0..MaxFaults
    <2>1. UNCHANGED faults \/ Fault
        BY CreateCases
    <2>2. QED
        BY <2>1, FaultBound DEF IInv
<1>5. \/ pc' = next /\ pick' = pick
      \/ pc' = "idle" /\ pick' = 0
    BY CreateCases
<1>6. TypeOK'
    <2>1. queued' \in BOOLEAN /\ interrupted' \in BOOLEAN
        BY CreateCases DEF IInv, TypeOK
    <2>2. {blocked', stale', secrets', fresh', queued', interrupted'} \subseteq BOOLEAN
        BY <2>1 DEF IInv, TypeOK, machine, object
    <2>3. /\ pc' \in {"idle"} \cup Creating \cup Cleaning /\ pick' \in Snapshots \cup {0}
          /\ pc' \in Creating <=> pick' # 0
          /\ listed' \subseteq Roles /\ (listed' # {} => pc' = "deleteJobs")
        BY <1>1, <1>5 DEF IInv, TypeOK
    <2>4. QED
        BY <1>2, <1>4, <2>2, <2>3 DEF IInv, TypeOK, machine, object
<1>7. CacheBehind' /\ CleansDeleted' /\ PairServes'
    BY <1>2, <1>5, TwoRoles DEF IInv, Success, CacheBehind, PairServes, Served, object
<1>8. Witnesses'
    BY <1>2, TwoRoles DEF IInv, Success, Witnesses, object
<1>9. WriterKept'
    BY <1>2, <1>3, TwoRoles DEF IInv, Success, WriterKept, Kept, object
<1>10. JobsForSnapshots'
    BY <1>1, <1>2 DEF IInv, Success, JobsForSnapshots
<1>11. Explicit'
    BY <1>2, <1>5 DEF IInv, Record, Explicit, machine, object
<1>12. FreshWaits'
    BY DEF IInv, Record, FreshWaits, object
<1>13. QED
    BY <1>6, <1>7, <1>8, <1>9, <1>10, <1>11, <1>12 DEF Success

\* The target Job is created first.
LEMMA CreateTargetStep ==
    ASSUME IInv, CreateTarget
    PROVE  IInv'
<1>1. /\ pc = "target" /\ secrets' \in BOOLEAN
      /\ createJobIfMissing("target", "writer")
      /\ UNCHANGED <<machine, object, copied, seen, listed, fresh, hub>>
    BY DEF CreateTarget
<1>2. TypeOK' /\ Success' /\ Explicit' /\ FreshWaits'
    BY <1>1, CreateKeeps, TwoRoles
<1>3. ~interrupted => Untouched \/ Prepared
    BY <1>1 DEF IInv, Record, BetweenPasses
<1>4. CASE /\ job' = job /\ job["target"] # NoJob /\ pc' = "writer"
           /\ UNCHANGED <<pick, queued, interrupted, faults>>
    <2>1. Agreement'
        BY <1>1, <1>4 DEF IInv, Record, Agreement, Named, object
    <2>2. BetweenPasses' /\ AtWriter' /\ AtStatus'
        BY <1>1, <1>3, <1>4, TwoRoles
           DEF BetweenPasses, AtWriter, AtStatus, Untouched, Prepared, object
    <2>3. QED
        BY <1>2, <2>1, <2>2 DEF IInv, Record
<1>5. CASE /\ job' \in [Roles -> Job] /\ job["target"] = NoJob
           /\ job'["target"].status = "starting" /\ job'["target"].snapshot = pick
           /\ \A r \in Roles : r # "target" => job'[r] = job[r]
           /\ pc' = "writer"
           /\ UNCHANGED <<pick, queued, interrupted, faults>>
    <2>1. ~interrupted => Untouched
        BY <1>3, <1>5, TwoRoles DEF Prepared
    <2>2. job'["writer"] = job["writer"] /\ job'["target"] # NoJob
        BY <1>5, TwoRoles, NoJobType
    <2>3. Agreement'
        BY <1>1, <1>5, <2>1, <2>2, TwoRoles, NoJobType DEF Agreement, Untouched, Named, object
    <2>4. BetweenPasses' /\ AtWriter' /\ AtStatus'
        BY <1>1, <1>5, <2>1, <2>2, TwoRoles
           DEF BetweenPasses, AtWriter, AtStatus, Untouched, object
    <2>5. QED
        BY <1>2, <2>3, <2>4 DEF IInv, Record
<1>6. CASE /\ job' = job /\ pc' = "idle" /\ pick' = 0 /\ queued' = TRUE
           /\ interrupted' = (interrupted \/ \E x \in Roles : job[x] # NoJob)
    <2>1. Agreement'
        BY <1>1, <1>6 DEF IInv, Record, Agreement, Named, object
    <2>2. BetweenPasses' /\ AtWriter' /\ AtStatus'
        BY <1>1, <1>3, <1>6
           DEF BetweenPasses, AtWriter, AtStatus, Untouched, Prepared, object
    <2>3. QED
        BY <1>2, <2>1, <2>2 DEF IInv, Record
<1>7. QED
    BY <1>1, <1>4, <1>5, <1>6, CreateCases, TwoRoles

\* The writer Job is created beside the target Job of the same pass.
LEMMA CreateWriterStep ==
    ASSUME IInv, CreateWriter
    PROVE  IInv'
<1>1. /\ pc = "writer" /\ secrets' \in BOOLEAN
      /\ createJobIfMissing("writer", "status")
      /\ UNCHANGED <<machine, object, copied, seen, listed, fresh, hub>>
    BY DEF CreateWriter, IInv, TypeOK
<1>2. TypeOK' /\ Success' /\ Explicit' /\ FreshWaits'
    BY <1>1, CreateKeeps, TwoRoles
<1>3. ~interrupted =>
          \/ /\ job["target"] # NoJob /\ job["target"].snapshot = pick
             /\ job["writer"] = NoJob
             /\ copied = 0 /\ run.snapshot \in {0, Latest}
          \/ Prepared
    BY <1>1 DEF IInv, Record, AtWriter
<1>4. CASE /\ job' = job /\ job["writer"] # NoJob /\ pc' = "status"
           /\ UNCHANGED <<pick, queued, interrupted, faults>>
    <2>1. Agreement'
        BY <1>1, <1>4 DEF IInv, Record, Agreement, Named, object
    <2>2. BetweenPasses' /\ AtWriter' /\ AtStatus'
        BY <1>1, <1>3, <1>4 DEF BetweenPasses, AtWriter, AtStatus, Prepared, object
    <2>3. QED
        BY <1>2, <2>1, <2>2 DEF IInv, Record
<1>5. CASE /\ job' \in [Roles -> Job] /\ job["writer"] = NoJob
           /\ job'["writer"].status = "starting" /\ job'["writer"].snapshot = pick
           /\ \A r \in Roles : r # "writer" => job'[r] = job[r]
           /\ pc' = "status"
           /\ UNCHANGED <<pick, queued, interrupted, faults>>
    <2>1. job'["target"] = job["target"] /\ job'["writer"] # NoJob
        BY <1>5, TwoRoles, NoJobType
    <2>2. ~interrupted => /\ job["target"] # NoJob /\ job["target"].snapshot = pick
                          /\ copied = 0 /\ run.snapshot \in {0, Latest}
        BY <1>3, <1>5, TwoRoles DEF Prepared
    <2>3. Agreement'
        BY <1>1, <1>5, <2>1, <2>2 DEF Agreement, Named, object
    <2>4. BetweenPasses' /\ AtWriter' /\ AtStatus'
        BY <1>1, <1>5, <2>1, <2>2, TwoRoles DEF BetweenPasses, AtWriter, AtStatus, object
    <2>5. QED
        BY <1>2, <2>3, <2>4 DEF IInv, Record
<1>6. CASE /\ job' = job /\ pc' = "idle" /\ pick' = 0 /\ queued' = TRUE
           /\ interrupted' = (interrupted \/ \E x \in Roles : job[x] # NoJob)
    <2>1. interrupted'
        BY <1>3, <1>6, TwoRoles DEF Prepared
    <2>2. QED
        BY <1>2, <2>1 DEF IInv, Record, Agreement, BetweenPasses, AtWriter, AtStatus
<1>7. QED
    BY <1>1, <1>4, <1>5, <1>6, CreateCases, TwoRoles

\* The status update that ends the pass: accepted only when nobody wrote the run since
\* the pass read it, and then the Jobs are those of this pass.
LEMMA SetPreparingStep ==
    ASSUME IInv, SetPreparing
    PROVE  IInv'
<1> DEFINE status == [run EXCEPT !.phase = "Preparing", !.snapshot = pick]
<1>1. /\ pc = "status" /\ pc' = "idle" /\ pick' = 0
      /\ StatusUpdate(fresh, status, FALSE)
      /\ interrupted' = (interrupted \/ run' = run)
      /\ UNCHANGED <<machine, pods, seen, secrets, listed, hub>>
      /\ listed = {}
    BY DEF SetPreparing, RestoredSnapshot, IInv, TypeOK
<1>2. /\ pick # 0 /\ pick \in Snapshots \cup {0} /\ run \in RestoreJob
    BY <1>1 DEF IInv, TypeOK
<1>3. /\ status \in RestoreJob /\ status.phase = "Preparing" /\ status.snapshot = pick
      /\ status.deleting = run.deleting
    BY <1>2 DEF RestoreJob
<1> HIDE DEF status
<1>4. \/ fresh /\ Write(status)
      \/ UNCHANGED <<object, fresh>>
    BY <1>1 DEF StatusUpdate
<1>5. faults' \in 0..MaxFaults
    <2>1. UNCHANGED faults \/ Fault
        BY <1>1 DEF StatusUpdate
    <2>2. QED
        BY <2>1, FaultBound DEF IInv
<1>6. {blocked', stale', secrets', fresh', queued', interrupted'} \subseteq BOOLEAN
    <2>1. queued' \in BOOLEAN /\ interrupted' \in BOOLEAN
        BY <1>1 DEF StatusUpdate, IInv, TypeOK
    <2>2. stale' \in BOOLEAN /\ fresh' \in BOOLEAN
        BY <1>4 DEF Write, object, IInv, TypeOK
    <2>3. QED
        BY <1>1, <2>1, <2>2 DEF IInv, TypeOK, machine
<1>7. CASE fresh /\ Write(status)
    <2>1. run' = status /\ stale' = TRUE /\ view' = view
        BY <1>7 DEF Write
    <2>2. TypeOK'
        BY <1>1, <1>3, <1>5, <1>6, <2>1 DEF IInv, TypeOK, machine, pods
    <2>3. CacheBehind' /\ CleansDeleted' /\ PairServes' /\ JobsForSnapshots'
        BY <1>1, <1>3, <2>1
           DEF IInv, Success, CacheBehind, PairServes, Served, JobsForSnapshots, pods
    <2>4. Witnesses' /\ WriterKept'
        BY <1>1, <1>3, <2>1 DEF IInv, Success, Witnesses, WriterKept, Kept, pods
    <2>5. Explicit'
        BY <1>1, <1>2, <1>3, <2>1 DEF IInv, Record, Explicit, machine, pods
    <2>6. run.phase \in Waits
        BY <1>1, <1>7 DEF IInv, Record, FreshWaits
    <2>7. ~interrupted => /\ \A r \in Roles : job[r] # NoJob /\ job[r].snapshot = pick
                          /\ copied \in {0, pick}
        BY <1>1, <2>6 DEF IInv, Record, AtStatus, Prepared
    <2>8. Agreement'
        <3>1. interrupted => interrupted'
            BY <1>1
        <3>2. ~interrupted => \A s \in Named' : s = pick
            BY <1>1, <1>3, <2>1, <2>7, TwoRoles DEF Named, pods
        <3>3. QED
            BY <3>1, <3>2 DEF Agreement
    <2>9. Prepared' \/ interrupted'
        BY <1>1, <1>3, <2>1, <2>7 DEF Prepared, Waits, pods
    <2>10. FreshWaits' /\ BetweenPasses' /\ AtWriter' /\ AtStatus'
        BY <1>1, <2>9 DEF FreshWaits, BetweenPasses, AtWriter, AtStatus
    <2>11. QED
        BY <2>2, <2>3, <2>4, <2>5, <2>8, <2>10 DEF IInv, Success, Record
<1>8. CASE UNCHANGED <<object, fresh>>
    <2>1. interrupted'
        BY <1>1, <1>8 DEF object
    <2>2. TypeOK'
        BY <1>1, <1>5, <1>6, <1>8 DEF IInv, TypeOK, machine, object, pods
    <2>3. Success'
        BY <1>1, <1>8
           DEF IInv, Success, CacheBehind, PairServes, Served, Witnesses, WriterKept, Kept,
               JobsForSnapshots, object, pods
    <2>4. Record'
        BY <1>1, <1>8, <2>1
           DEF IInv, Record, Explicit, Agreement, FreshWaits, BetweenPasses, AtWriter, AtStatus,
               machine, object, pods
    <2>5. QED
        BY <2>2, <2>3, <2>4 DEF IInv
<1>9. QED
    BY <1>4, <1>7, <1>8

\* A pass of a deleted run: it begins, deletes Jobs and secrets, and removes the finalizer.
LEMMA DeletingStep ==
    ASSUME IInv, ReconcileDeleting \/ DeleteJob \/ DeleteSecrets \/ RemoveFinalizer
    PROVE  IInv'
<1>1. /\ view.deleting /\ pick = 0 /\ pc \notin Creating
      /\ UNCHANGED <<machine, copied, seen, pick, hub, interrupted>>
    <2>1. pc \in Cleaning => view.deleting
        BY DEF IInv, Success, CleansDeleted
    <2>2. view.deleting /\ pc \notin Creating
        BY <2>1 DEF ReconcileDeleting, DeleteJob, DeleteSecrets, RemoveFinalizer, Cleaning,
                    Creating
    <2>3. UNCHANGED <<machine, copied, seen, pick, hub, interrupted>>
        BY DEF ReconcileDeleting, DeleteJob, DeleteSecrets, RemoveFinalizer, pods
    <2>4. QED
        BY <2>2, <2>3 DEF IInv, TypeOK, Creating
<1>2. /\ job' \in [Roles -> Job]
      /\ \A r \in Roles : job'[r] = NoJob \/ job'[r] = job[r]
    <2>1. \/ job' = job
          \/ \E r \in Roles : job' = [job EXCEPT ![r] = NoJob]
        <3>1. listed \subseteq Roles
            BY DEF IInv, TypeOK
        <3>2. QED
            BY <3>1, TwoRoles
               DEF ReconcileDeleting, DeleteJob, DeleteSecrets, RemoveFinalizer, pods
    <2>2. QED
        BY <2>1, NoJobType DEF IInv, TypeOK
<1>3. /\ run' \in RestoreJob /\ run'.snapshot = run.snapshot /\ run'.deleting = run.deleting
      /\ run'.phase = run.phase \/ run'.phase = "gone"
      /\ view' = view /\ {stale', fresh'} \subseteq BOOLEAN
      /\ stale' = FALSE => run' = run /\ stale = FALSE
    <2>1. run \in RestoreJob /\ stale \in BOOLEAN /\ fresh \in BOOLEAN
        BY DEF IInv, TypeOK
    <2>2. CASE UNCHANGED object /\ fresh' \in BOOLEAN
        BY <2>1, <2>2 DEF object
    <2>3. CASE Write([run EXCEPT !.phase = "gone"])
        BY <2>1, <2>3 DEF Write, RestoreJob
    <2>4. \/ UNCHANGED object /\ fresh' \in BOOLEAN
          \/ Write([run EXCEPT !.phase = "gone"])
        BY <2>1 DEF ReconcileDeleting, DeleteJob, DeleteSecrets, RemoveFinalizer, StatusUpdate
    <2>5. QED
        BY <2>2, <2>3, <2>4
<1>4. /\ pc' \in {"idle"} \cup Cleaning
      /\ listed' \subseteq Roles /\ (listed' # {} => pc' = "deleteJobs")
      /\ queued' \in BOOLEAN /\ secrets' \in BOOLEAN
    BY DEF ReconcileDeleting, DeleteJob, DeleteSecrets, RemoveFinalizer, StatusUpdate, Cleaning,
           IInv, TypeOK
<1>5. pc' \notin Creating
    BY <1>4 DEF Creating, Cleaning
<1>6. TypeOK'
    <2>1. {blocked', stale', secrets', fresh', queued', interrupted'} \subseteq BOOLEAN
        BY <1>1, <1>3, <1>4 DEF IInv, TypeOK, machine
    <2>2. faults' \in 0..MaxFaults
        <3>1. UNCHANGED faults \/ Fault
            BY DEF ReconcileDeleting, DeleteJob, DeleteSecrets, RemoveFinalizer, StatusUpdate
        <3>2. QED
            BY <3>1, FaultBound DEF IInv
    <2>3. QED
        BY <1>1, <1>2, <1>3, <1>4, <1>5, <2>1, <2>2
           DEF IInv, TypeOK, machine, Creating, Cleaning
<1>7. CacheBehind' /\ CleansDeleted'
    <2>1. stale' \in BOOLEAN /\ stale \in BOOLEAN
        BY <1>3 DEF IInv, TypeOK
    <2>2. QED
        BY <1>1, <1>3, <2>1 DEF IInv, Success, CacheBehind, CleansDeleted
<1>8. PairServes' /\ JobsForSnapshots'
    BY <1>2, TwoRoles, NoJobType DEF IInv, Success, PairServes, Served, JobsForSnapshots
<1>9. Witnesses'
    BY <1>1, <1>2, <1>3, TwoRoles, NoJobType DEF IInv, Success, Witnesses
<1>10. WriterKept' /\ FreshWaits' /\ BetweenPasses' /\ AtWriter' /\ AtStatus'
    BY <1>1, <1>3, <1>5
       DEF WriterKept, Kept, FreshWaits, BetweenPasses, AtWriter, AtStatus, Creating
<1>11. Explicit'
    BY <1>1, <1>2, <1>3, NoJobType DEF IInv, Record, Explicit, machine
<1>12. Agreement'
    BY <1>1, <1>2, <1>3, TwoRoles, NoJobType DEF IInv, Record, Agreement, Named
<1>13. QED
    BY <1>6, <1>7, <1>8, <1>9, <1>10, <1>11, <1>12 DEF IInv, Success, Record

-----------------------------------------------------------------------------
(* The invariant and the theorems                                          *)

\* Every step keeps the invariant.
LEMMA Inductive == IInv /\ [Next]_vars => IInv'
<1> SUFFICES ASSUME IInv, [Next]_vars PROVE IInv'
    OBVIOUS
<1>1. CASE Worker
    BY <1>1, HoldOrFailStep, StartPassStep, CreateTargetStep, CreateWriterStep,
       SetPreparingStep, JobStatusStep, QueueStep, DeletingStep DEF Worker
<1>2. CASE SyncRun \/ SyncJobs \/ SyncMachine \/ Resync \/ Unblock \/ DeleteRestoreJob \/ Crash
    BY <1>2, CacheStep, QueueStep, ApplyOrDeleteStep
<1>3. CASE \/ TargetListens \/ WriterStarts \/ Connect \/ WriterFails \/ WriterSucceeds
           \/ TargetEnds \/ (\E r \in Roles : Deadline(r)) \/ ApplyEvent
    BY <1>3, PodStartsStep, ConnectStep, WriterEndsStep, PodEndsStep, ApplyOrDeleteStep
<1>4. CASE UNCHANGED vars
    <2>1. /\ UNCHANGED <<requested, object, pods, seen, pass, hub, interrupted>>
          /\ UNCHANGED <<points, blocked, faults, queued, secrets>>
        BY <1>4 DEF vars, object, pods, pass
    <2>2. points' \subseteq Volume /\ faults' \in 0..MaxFaults
        BY <2>1 DEF IInv, TypeOK
    <2>3. blocked' \in BOOLEAN /\ queued' \in BOOLEAN /\ secrets' \in BOOLEAN
        BY <2>1 DEF IInv, TypeOK
    <2>4. QED
        BY <2>1, <2>2, <2>3, QuietStep
<1>5. QED
    BY <1>1, <1>2, <1>3, <1>4 DEF Next

\* The invariant holds in every reachable state.
LEMMA Invariant == Spec => []IInv
BY InitInv, Inductive, PTL DEF Spec

\* The type invariant: a pass of the worker holds a resolved snapshot exactly from the
\* moment resolveRestoreSnapshot succeeded to its end, whatever breaks it off.
THEOREM TypeCorrect == Spec => []TypeOK
<1>1. IInv => TypeOK
    BY DEF IInv
<1>2. QED
    BY <1>1, Invariant, PTL

\* A RestoreJob whose status says Succeeded has copied a snapshot: neither
\* reconcileRestoreJobJobStatus, which takes Jobs missing from its cache for finished
\* ones, nor a report applied late makes it succeed without.
THEOREM SuccessMeansCopied == Spec => []SucceededCopied
<1>1. IInv => SucceededCopied
    BY DEF IInv, Success, Witnesses, SucceededCopied
<1>2. QED
    BY <1>1, Invariant, PTL

\* The snapshot in status.restoredSnapshot is the one the writer has copied, although
\* every pass resolves "latest" anew, as long as no pass broke off between its first Job
\* and its status update.
THEOREM RecordedWasCopied == Spec => []RecordedIsCopied
<1>1. IInv => RecordedIsCopied
    <2>1. SUFFICES ASSUME IInv, ~interrupted, copied # 0, run.snapshot \in Snapshots
                   PROVE  run.snapshot = copied
        BY DEF RecordedIsCopied
    <2>2. run.snapshot \in Named /\ copied \in Named
        BY <2>1, SnapshotNames DEF Named, IInv, TypeOK
    <2>3. QED
        BY <2>1, <2>2 DEF IInv, Record, Agreement
<1>2. QED
    BY <1>1, Invariant, PTL
=============================================================================
