---------------------------- MODULE SnapshotStore ----------------------------
(***************************************************************************)
(* The restore points of one snapshot machine on its target volume, and    *)
(* the serve-target process that makes them.                               *)
(*                                                                         *)
(* One serve-target process at a time works on the volume, for run number  *)
(* `run', whose snapshot timestamp is the run's number.  Its main          *)
(* goroutine (pc) waits for the controller's commands; its receiver        *)
(* goroutine (conn, completed) takes one transfer after another from the   *)
(* source Jobs (sender).  File operations are separate steps: RemoveAll    *)
(* and linkTree go through a tree source by source, and the process can    *)
(* end between any two steps, with the volume left as it is.               *)
(***************************************************************************)
EXTENDS Naturals, FiniteSets

CONSTANTS
    Sources,    \* the sources of the machine
    MaxRuns,    \* bound on the number of runs
    MaxStops,   \* bound on the number of processes that do not complete
    Keep,       \* Keep[level]: restore points retained per level
    Bucket      \* Bucket[level][run]: the directory a run has at a level

\* hourly, daily, weekly, monthly
Levels == 0 .. 3
Runs   == 1 .. MaxRuns

\* appendRetentionArgs passes positive counts only, the defaults are positive.
\* The hourly directory of a run is its own; directory names sort by time.
ASSUME SourcesAssumption == IsFiniteSet(Sources) /\ Sources # {}
ASSUME BoundsAssumption == MaxRuns \in Nat /\ MaxStops \in Nat
ASSUME KeepAssumption == Keep \in [Levels -> Nat \ {0}]
ASSUME BucketAssumption ==
    /\ Bucket \in [Levels -> [Runs -> Runs]]
    /\ \A r \in Runs : Bucket[0][r] = r
    /\ \A l \in Levels, r, q \in Runs : r <= q => Bucket[l][r] <= Bucket[l][q]

VARIABLES
    store,      \* restore point directories
    partial,    \* .partial/<run-id>
    latest,     \* run whose hourly directory the symlink names, NoRun if none
    last,       \* the most recent run
    run,        \* the run being served, NoRun if no process
    pc,         \* main goroutine of serve-target
    level,      \* its loop variable over Levels
    victim,     \* directory that RemoveAll works on
    sender,     \* the run's source Jobs
    recovered,  \* sources for which the target recovered space
    conn,       \* the source whose transfer the receiver handles, if any
    completed,  \* sources the receiver counts as transferred
    stops,      \* processes that did not complete
    pruned      \* history: hourly directories RecoverSpace began to remove

vars == <<store, partial, latest, last, run, pc, level, victim, sender,
          recovered, conn, completed, stops, pruned>>

volume   == <<store, partial, latest>>
process  == <<last, run, stops>>
transfer == <<sender, recovered, conn, completed>>

NoRun    == 0
Names    == Levels \X Runs
NoName   == <<0, 0>>

\* dirs: sources with a directory in the tree; whole: those whose data is all
\* there.  time: modification time of the tree's root directory.
Tree   == [exists : BOOLEAN, dirs : SUBSET Sources, whole : SUBSET Sources,
           time : 0 .. 2 * MaxRuns + 1]
NoTree == [exists |-> FALSE, dirs |-> {}, whole |-> {}, time |-> 0]

\* A run stages data first and makes restore points then.
Staging(r)    == 2 * r
Finalizing(r) == 2 * r + 1

points == {n \in Names : store[n].exists}

Init ==
    /\ store = [n \in Names |-> NoTree]
    /\ partial = [r \in Runs |-> NoTree]
    /\ latest = NoRun
    /\ last = NoRun /\ run = NoRun /\ pc = "idle"
    /\ level = 0 /\ victim = NoName
    /\ sender = [s \in Sources |-> "ready"]
    /\ recovered = {} /\ conn = {} /\ completed = {}
    /\ stops = 0 /\ pruned = {}

-----------------------------------------------------------------------------
(* The process                                                             *)

\* serve-target starts for a new run, and its Ready report creates the source
\* Jobs.
ServeTarget ==
    /\ run = NoRun
    /\ last < MaxRuns
    /\ last' = last + 1 /\ run' = last + 1
    /\ pc' = "serving"
    /\ sender' = [s \in Sources |-> "ready"]
    /\ recovered' = {} /\ conn' = {} /\ completed' = {}
    /\ UNCHANGED <<volume, level, victim, stops, pruned>>

\* The process ends: done, killed, past its deadline, or on an error.
Exit ==
    /\ run # NoRun
    /\ pc = "done" \/ stops < MaxStops
    /\ stops' = IF pc = "done" THEN stops ELSE stops + 1
    /\ run' = NoRun /\ pc' = "idle" /\ level' = 0 /\ victim' = NoName
    /\ UNCHANGED <<volume, last, transfer, pruned>>

-----------------------------------------------------------------------------
(* Source Jobs and the receiver                                            *)

\* The receiver's loop ends, and its listener closes, when every source counts
\* as transferred.
listening == run # NoRun /\ completed # Sources

\* receiveTransfer accepts source s and prepares its destination: whatever was
\* there is removed and replaced by links to the files of `latest', if any.
Accept(s) ==
    /\ listening /\ conn = {}
    /\ sender[s] = "ready"
    /\ sender' = [sender EXCEPT ![s] = "sending"]
    /\ conn' = {s}
    /\ partial' = [partial EXCEPT ![run] =
          [exists |-> TRUE, dirs |-> @.dirs \cup {s}, whole |-> @.whole \ {s},
           time |-> Staging(run)]]
    /\ UNCHANGED <<store, latest, process, pc, level, victim, recovered,
                   completed, pruned>>

\* How a failed source Job looks to the controller.  rsync exits with 12 when
\* the connection breaks, which counts as out of space; one retry per source.
Failures(s) == IF s \in recovered THEN {"failed"} ELSE {"failed", "outOfSpace"}

Refused(s) ==
    /\ run # NoRun /\ ~listening
    /\ sender[s] = "ready"
    /\ \E failure \in Failures(s) : sender' = [sender EXCEPT ![s] = failure]
    /\ UNCHANGED <<volume, process, pc, level, victim, recovered, conn,
                   completed, pruned>>

\* rsync exits at the sender, with success only when the target has it all.
SenderExits(s) ==
    /\ run # NoRun
    /\ sender[s] = "sending"
    /\ \/ /\ sender' = [sender EXCEPT ![s] = "succeeded"]
          /\ partial' = [partial EXCEPT ![run].whole = @ \cup {s}]
       \/ /\ \E failure \in Failures(s) :
                sender' = [sender EXCEPT ![s] = failure]
          /\ UNCHANGED partial
    /\ UNCHANGED <<store, latest, process, pc, level, victim, recovered, conn,
                   completed, pruned>>

\* proxyConns returns, before the sender's rsync exits or after it: an orderly
\* end of the stream counts as a completed transfer, whether or not rsync was
\* done; a reset does not.
ReceiverReturns(s) ==
    /\ run # NoRun
    /\ conn = {s}
    /\ conn' = {}
    /\ completed' \in {completed, completed \cup {s}}
    /\ UNCHANGED <<volume, process, pc, level, victim, sender, recovered,
                   pruned>>

-----------------------------------------------------------------------------
(* RemoveAll of victim, source by source                                   *)

RemoveAll(next, time) ==
    /\ IF store[victim].dirs # {}
       THEN /\ \E s \in store[victim].dirs :
                  store' = [store EXCEPT ![victim].dirs = @ \ {s},
                                         ![victim].whole = @ \ {s},
                                         ![victim].time = time]
            /\ UNCHANGED <<pc, victim>>
       ELSE /\ store' = [store EXCEPT ![victim] = NoTree]
            /\ pc' = next /\ victim' = NoName
    /\ UNCHANGED <<partial, latest, process, level, transfer, pruned>>

-----------------------------------------------------------------------------
(* RecoverSpace                                                            *)

\* The controller answers an out-of-space failure with a RecoverSpace command.
RecoverSpace ==
    /\ pc = "serving"
    /\ \E s \in Sources \ recovered : sender[s] = "outOfSpace"
    /\ pc' = "recover"
    /\ UNCHANGED <<volume, process, level, victim, transfer, pruned>>

\* removableSnapshots: the least recently modified directory of all levels.
removable == {n \in points : \A m \in points : store[n].time <= store[m].time}

RecoverNext ==
    /\ pc = "recover"
    /\ \E n \in removable :
          /\ victim' = n
          /\ pruned' = IF n[1] = 0 THEN pruned \cup {n[2]} ELSE pruned
    /\ pc' = "recoverPrune"
    /\ UNCHANGED <<volume, process, level, transfer>>

RecoverPrune == pc = "recoverPrune" /\ RemoveAll("recover", Staging(run))

\* Enough space: the command is acknowledged and the controller replaces the
\* failed source Job.  (Without enough space the process ends: Exit.)
Recovered(s) ==
    /\ pc = "recover"
    /\ sender[s] = "outOfSpace" /\ s \notin recovered
    /\ recovered' = recovered \cup {s}
    /\ sender' = [sender EXCEPT ![s] = "ready"]
    /\ pc' = "serving"
    /\ UNCHANGED <<volume, process, level, victim, conn, completed, pruned>>

-----------------------------------------------------------------------------
(* FinalizeBackup                                                          *)

\* Mutant: finalize once the receiver has counted every source.
AllSourcesCounted == completed = Sources

\* The controller sends the finalize command when all source Jobs succeeded.
AllSourcesSucceeded == \A s \in Sources : sender[s] = "succeeded"

\* serve-target takes the command and waits for the receiver to return.
FinalizeCommand ==
    /\ pc = "serving"
    /\ AllSourcesSucceeded
    /\ ~listening /\ conn = {}
    /\ pc' = "finalize"
    /\ UNCHANGED <<volume, process, level, victim, transfer, pruned>>

\* Mutant: the run to finalize again is looked up in the .partial directory, where
\* earlier runs may have left theirs.
FinalizeLeftOver ==
    /\ run = NoRun /\ last # NoRun
    /\ AllSourcesSucceeded
    /\ completed = Sources
    /\ \E r \in Runs : partial[r].exists /\ run' = r
    /\ pc' = "finalize"
    /\ UNCHANGED <<volume, last, stops, level, victim, transfer, pruned>>

\* Finalization of the last run is repeated after its process ended.
FinalizeAgain ==
    /\ run = NoRun /\ last # NoRun
    /\ AllSourcesSucceeded
    /\ completed = Sources
    /\ run' = last
    /\ pc' = "finalize"
    /\ UNCHANGED <<volume, last, stops, level, victim, transfer, pruned>>

\* validateSnapshotSources asks for the directories only.
Valid(tree) == tree.exists /\ Sources \subseteq tree.dirs

\* Mutant: a run that was promoted already has nothing left to do.
PromoteOnce ==
    /\ pc = "finalize"
    /\ \/ /\ Valid(partial[run]) /\ ~store[<<0, run>>].exists
          /\ store' = [store EXCEPT ![<<0, run>>] = partial[run]]
          /\ partial' = [partial EXCEPT ![run] = NoTree]
          /\ pc' = "unlink"
       \/ /\ ~partial[run].exists /\ Valid(store[<<0, run>>])
          /\ pc' = "done"
          /\ UNCHANGED <<store, partial>>
    /\ UNCHANGED <<latest, process, level, victim, transfer, pruned>>

\* Promotion by rename.  Without a partial directory the hourly one must be
\* there from an earlier attempt; an invalid tree is an error (Exit).  A run's
\* hourly directory is its own (BucketAssumption) and comes from its partial one,
\* which no transfer makes again: the two never exist together.
Promote ==
    /\ pc = "finalize"
    /\ \/ /\ Valid(partial[run]) /\ ~store[<<0, run>>].exists
          /\ store' = [store EXCEPT ![<<0, run>>] = partial[run]]
          /\ partial' = [partial EXCEPT ![run] = NoTree]
       \/ /\ ~partial[run].exists /\ Valid(store[<<0, run>>])
          /\ UNCHANGED <<store, partial>>
    /\ pc' = "unlink"
    /\ UNCHANGED <<latest, process, level, victim, transfer, pruned>>

\* replaceLatestSymlink removes `latest', then renames the new link.
RemoveLatest ==
    /\ pc = "unlink"
    /\ latest' = NoRun
    /\ pc' = "relink"
    /\ UNCHANGED <<store, partial, process, level, victim, transfer, pruned>>

RenameLatest ==
    /\ pc = "relink"
    /\ latest' = run
    /\ pc' = "tiers" /\ level' = 1
    /\ UNCHANGED <<store, partial, process, victim, transfer, pruned>>

tier == <<level, Bucket[level][run]>>

\* A tier directory that is there already is left alone.
Tier ==
    /\ pc = "tiers"
    /\ \/ /\ level \in Levels /\ store[tier].exists
          /\ level' = level + 1
          /\ UNCHANGED <<store, pc>>
       \/ /\ level \in Levels /\ ~store[tier].exists
          /\ store' = [store EXCEPT ![tier] = [exists |-> TRUE, dirs |-> {}, whole |-> {},
                                               time |-> Finalizing(run)]]
          /\ pc' = "link"
          /\ UNCHANGED level
       \/ /\ level \notin Levels
          /\ pc' = "retain" /\ level' = 0
          /\ UNCHANGED store
    /\ UNCHANGED <<partial, latest, process, victim, transfer, pruned>>

\* linkTree from the hourly directory.
LinkTree ==
    /\ pc = "link"
    /\ LET hourly == store[<<0, run>>]
           todo   == hourly.dirs \ store[tier].dirs
       IN  IF todo # {}
           THEN /\ \E s \in todo :
                      store' = [store EXCEPT
                         ![tier].dirs = @ \cup {s},
                         ![tier].whole = @ \cup ({s} \cap hourly.whole)]
                /\ UNCHANGED <<pc, level>>
           ELSE /\ pc' = "tiers" /\ level' = level + 1
                /\ UNCHANGED store
    /\ UNCHANGED <<partial, latest, process, victim, transfer, pruned>>

-----------------------------------------------------------------------------
(* ApplyRetention                                                          *)

ExceedsKeep(names) == Cardinality(names) > Keep[level]

FirstByName(names) == CHOOSE n \in names : \A m \in names : n[2] <= m[2]

Retain ==
    /\ pc = "retain"
    /\ level \in Levels
    /\ LET names == {n \in points : n[1] = level}
       IN  IF ExceedsKeep(names)
           THEN /\ victim' = FirstByName(names)
                /\ pc' = "retainPrune"
                /\ UNCHANGED level
           ELSE level' = level + 1 /\ UNCHANGED <<victim, pc>>
    /\ UNCHANGED <<volume, process, transfer, pruned>>

RetainPrune == pc = "retainPrune" /\ RemoveAll("retain", Finalizing(run))

\* cleanupDanglingLatest, then the process scans the restore points and
\* reports Completed.
CleanupDanglingLatest ==
    /\ pc = "retain"
    /\ level \notin Levels
    /\ latest' = IF latest # NoRun /\ ~store[<<0, latest>>].exists
                 THEN NoRun ELSE latest
    /\ pc' = "done"
    /\ UNCHANGED <<store, partial, process, level, victim, transfer, pruned>>

-----------------------------------------------------------------------------
Next ==
    \/ ServeTarget \/ Exit
    \/ \E s \in Sources : \/ Accept(s) \/ Refused(s) \/ SenderExits(s)
                          \/ ReceiverReturns(s) \/ Recovered(s)
    \/ RecoverSpace \/ RecoverNext \/ RecoverPrune
    \/ FinalizeCommand \/ FinalizeAgain \/ Promote
    \/ RemoveLatest \/ RenameLatest
    \/ Tier \/ LinkTree
    \/ Retain \/ RetainPrune \/ CleanupDanglingLatest

Spec == Init /\ [][Next]_vars

-----------------------------------------------------------------------------
(* Properties                                                              *)

Pcs == {"idle", "serving", "recover", "recoverPrune", "finalize", "unlink",
        "relink", "tiers", "link", "retain", "retainPrune", "done"}

\* Every variable has its type, data is only in directories that exist, and the
\* process serves the most recent run.
TypeOK ==
    /\ store \in [Names -> Tree] /\ partial \in [Runs -> Tree]
    /\ \A n \in Names : store[n].whole \subseteq store[n].dirs
    /\ \A n \in Names : ~store[n].exists => store[n].dirs = {}
    /\ latest \in Runs \cup {NoRun} /\ last \in Runs \cup {NoRun}
    /\ run \in {NoRun, last} /\ pc \in Pcs /\ (pc = "idle" <=> run = NoRun)
    /\ level \in Levels \cup {4} /\ victim \in Names \cup {NoName}
    /\ sender \in [Sources -> {"ready", "sending", "succeeded", "failed",
                               "outOfSpace"}]
    /\ recovered \subseteq Sources /\ completed \subseteq Sources
    /\ conn \subseteq Sources /\ pruned \subseteq Runs
    /\ stops \in 0 .. MaxStops

hourly == {r \in Runs : store[<<0, r>>].exists}

\* r is one of the Keep[0] most recent hourly restore points, counting those
\* RecoverSpace has taken.
Retained(r) == Cardinality({q \in hourly \cup pruned : q > r}) < Keep[0]

\* The retained hourly restore points hold all data of all sources, whatever
\* transfer failed, was retried or was counted by mistake, and wherever a
\* process was stopped; only RecoverSpace may take one of them apart.
RetainedWhole ==
    \A r \in hourly \ pruned : Retained(r) => store[<<0, r>>].whole = Sources

\* When a run reports Completed, at its first finalization or a repeated one,
\* its hourly restore point is whole, `latest' names it, every tier has a
\* directory for it, and no level exceeds its count: retention never removes
\* what the run has just made.
CompletedRestorable ==
    pc = "done" =>
        /\ run \in hourly /\ store[<<0, run>>].whole = Sources
        /\ latest = run
        /\ \A l \in Levels :
              /\ <<l, Bucket[l][run]>> \in points
              /\ Cardinality({n \in points : n[1] = l}) <= Keep[l]

\* docs/user-guide.md: daily, weekly and monthly are tier aliases created from
\* successful backup jobs.  So a successful run's tiers are whole.
TiersWhole ==
    pc = "done" =>
        \A l \in Levels : store[<<l, Bucket[l][run]>>].whole = Sources

=============================================================================
