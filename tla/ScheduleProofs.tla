--------------------------- MODULE ScheduleProofs ---------------------------
(***************************************************************************)
(* Every time of the schedule gets one run, and lastScheduledAt goes       *)
(* through the schedule without skipping a time, for any schedules, any    *)
(* lookback and any number of crashes, conflicts, edits and deleted runs.  *)
(*                                                                         *)
(* OncePerTime is not inductive: whether a second run is made depends on   *)
(* what the reconcilers hold and what the cache shows.  The invariant says *)
(* how far the cache may be behind (CacheBehind), that a copy which would  *)
(* still be accepted holds the time that follows the recorded one          *)
(* (FreshIsNext), that runs and recorded times were created (RunsMade),    *)
(* and that a time whose run is gone is not held by anybody and will not   *)
(* be found due again (NotDueAgain).                                       *)
(***************************************************************************)
EXTENDS Schedule, TLAPS

Holding == {"create", "record"}

CacheBehind ==
    /\ ~stale => view = machine
    /\ view.last <= machine.last

FreshIsNext ==
    \A r \in Reconcilers : rec[r].fresh /\ rec[r].pc \in Holding =>
        /\ machine.last < rec[r].at
        /\ machine.last # 0 =>
              ~\E t \in Times(machine.schedule) : machine.last < t /\ t < rec[r].at

HoldsDue ==
    \A r \in Reconcilers : IF rec[r].pc \in Holding THEN rec[r].at \in Due ELSE rec[r].at = 0

RunsMade ==
    /\ \A t \in Due : GeneratedScheduledBackupJobName(t) \in runs => made[t] > 0
    /\ \A r \in Reconcilers : rec[r].pc = "record" => made[rec[r].at] > 0

NotDueAgain ==
    \A t \in Due :
        made[t] > 0 /\ GeneratedScheduledBackupJobName(t) \notin runs /\ t \notin lost =>
            t <= view.last /\ \A r \in Reconcilers : rec[r].at # t

IInv == /\ TypeOK /\ CacheBehind /\ FreshIsNext /\ HoldsDue /\ RunsMade /\ NotDueAgain
        /\ OncePerTime

-----------------------------------------------------------------------------
(* The operators of the model                                              *)

\* Names tell the times of the schedule apart.
LEMMA Names ==
    /\ \A t \in Due : GeneratedScheduledBackupJobName(t) \in {u \div Minute : u \in Due}
    /\ \A t, u \in Due :
          GeneratedScheduledBackupJobName(t) = GeneratedScheduledBackupJobName(u) => t = u
BY NamesAssumption DEF GeneratedScheduledBackupJobName

\* A write outdates every copy and changes nothing else in the reconcilers.
LEMMA OutdatedAll ==
    ASSUME rec \in [Reconcilers -> Reconciler]
    PROVE  /\ Outdated("nobody") \in [Reconcilers -> Reconciler]
           /\ \A q \in Reconcilers : /\ Outdated("nobody")[q].pc = rec[q].pc
                                     /\ Outdated("nobody")[q].at = rec[q].at
                                     /\ ~Outdated("nobody")[q].fresh
<1>1. \A q \in Reconcilers : q # "nobody"
    BY DEF Reconcilers
<1>2. \A q \in Reconcilers : Outdated("nobody")[q] = [rec[q] EXCEPT !.fresh = FALSE]
    BY <1>1 DEF Outdated, Reconciler
<1>3. \A q \in Reconcilers : [rec[q] EXCEPT !.fresh = FALSE] \in Reconciler
    BY DEF Reconciler
<1>4. Outdated("nobody") \in [Reconcilers -> Reconciler]
    BY <1>2, <1>3 DEF Outdated
<1>5. QED
    BY <1>2, <1>4 DEF Reconciler

\* The time that Reconcile finds due.
Picked == CHOOSE t \in DueNow : TRUE

\* The times of each schedule are times.
LEMMA TimesAreDue == \A schedule \in Schedules : Times(schedule) \subseteq Due
BY DEF Due

\* The time a pass finds due is after the recorded one, and the next one of the schedule
\* unless it is the first.
LEMMA DueIsNext ==
    ASSUME DueNow # {}, view \in Machine
    PROVE  /\ Picked \in Due
           /\ view.last < Picked
           /\ view.last # 0 => ~\E t \in Times(view.schedule) : view.last < t /\ t < Picked
<1>1. Picked \in DueNow
    BY DEF Picked
<1>2. Due \subseteq Nat \ {0}
    BY TimeAssumption
<1>3. Times(view.schedule) \subseteq Due /\ view.last \in Due \cup {0}
    BY TimesAreDue DEF Machine
<1> DEFINE last  == view.last
           times == Times(view.schedule)
<1> HIDE DEF last, times
<1>4. CASE view.last # 0
    <2>1. /\ Picked \in Times(view.schedule) /\ view.last < Picked
          /\ \A u \in Times(view.schedule) : view.last < u => Picked <= u
        BY <1>1, <1>4 DEF DueNow, nextDueSchedule
    <2>2. Picked \in times /\ \A u \in times : last < u => Picked <= u
        BY <2>1, Zenon DEF last, times
    <2>3. times \subseteq Nat
        BY <1>2, <1>3 DEF times
    <2>4. last \in Nat
        <3>1. \A t : t \in Due \cup {0} => t \in Nat
            BY <1>2
        <3>2. QED
            BY <1>3, <3>1, Zenon DEF last
    <2>5. ~\E t \in times : last < t /\ t < Picked
        BY <2>2, <2>3, <2>4
    <2>6. QED
        BY <1>3, <2>1, <2>5, Zenon DEF last, times
<1>5. CASE view.last = 0
    <2>1. Picked \in Times(view.schedule)
        BY <1>1, <1>5 DEF DueNow, nextDueSchedule
    <2>2. Picked \in Due /\ Picked \in Nat \ {0}
        BY <1>2, <1>3, <2>1
    <2>3. 0 < Picked
        BY <2>2
    <2>4. QED
        BY <1>5, <2>2, <2>3, Zenon
<1>6. QED
    BY <1>4, <1>5

\* Times are numbers, and 0 is none of the schedule's.
LEMMA Numbers == TypeOK => /\ machine.last \in Nat /\ view.last \in Nat
                           /\ Due \subseteq Nat /\ 0 \notin Due
<1> SUFFICES ASSUME TypeOK
             PROVE  /\ machine.last \in Nat /\ view.last \in Nat
                    /\ Due \subseteq Nat /\ 0 \notin Due
    OBVIOUS
<1>1. Due \subseteq Nat /\ 0 \notin Due
    BY TimeAssumption
<1>2. machine \in Machine /\ view \in Machine
    BY DEF TypeOK
<1>3. machine.last \in Due \cup {0} /\ view.last \in Due \cup {0}
    BY <1>2 DEF Machine
<1>4. \A t : t \in Due \cup {0} => t \in Nat
    BY <1>1
<1>5. QED
    BY <1>1, <1>3, <1>4, Zenon

-----------------------------------------------------------------------------
(* Initial states                                                          *)

\* The initial state satisfies the invariant.
LEMMA InitInv == Init => IInv
<1> SUFFICES ASSUME Init PROVE IInv
    OBVIOUS
<1>1. machine \in Machine /\ view \in Machine
    <2>1. PICK schedule \in Schedules :
             machine = [last |-> 0, schedule |-> schedule, shown |-> "none", status |-> "new"]
        BY DEF Init
    <2>2. view = machine
        BY DEF Init
    <2>3. QED
        BY <2>1, <2>2 DEF Machine
<1>2. rec \in [Reconcilers -> Reconciler]
    BY DEF Init, Reconciler, Idle
<1>3. {stale, usable} \subseteq BOOLEAN
    BY DEF Init
<1>4. now \in 1..MaxTime /\ faults \in 0..MaxFaults
    BY TimeAssumption, FaultsAssumption DEF Init
<1>5. runs \subseteq {t \div Minute : t \in Due} /\ made \in [Due -> Nat] /\ lost \subseteq Due
    BY DEF Init
<1>6. CacheBehind
    <2>1. view = machine /\ machine.last = 0
        BY DEF Init
    <2>2. QED
        BY <2>1 DEF CacheBehind
<1>7. FreshIsNext /\ HoldsDue
    BY DEF Init, FreshIsNext, HoldsDue, Holding, Idle, Reconcilers
<1>8. RunsMade /\ NotDueAgain /\ OncePerTime
    BY DEF Init, RunsMade, NotDueAgain, OncePerTime, Idle
<1>9. QED
    BY <1>1, <1>2, <1>3, <1>4, <1>5, <1>6, <1>7, <1>8 DEF IInv, TypeOK

-----------------------------------------------------------------------------
(* The actions keep the invariant                                          *)

\* A step that leaves the machine, the runs and the reconcilers alone.
LEMMA QuietStep ==
    ASSUME IInv, Tick \/ ChangeReferences
    PROVE  IInv'
<1>1. UNCHANGED <<object, runs, rec, made, lost>>
    BY DEF Tick, ChangeReferences
<1>2. now' \in 1..MaxTime /\ faults' \in 0..MaxFaults
    BY TimeAssumption, FaultsAssumption DEF Tick, ChangeReferences, Fault, IInv, TypeOK
<1>3. usable' \in BOOLEAN
    BY DEF Tick, ChangeReferences, IInv, TypeOK
<1>4. TypeOK'
    BY <1>1, <1>2, <1>3 DEF IInv, TypeOK, object
<1>5. (CacheBehind /\ FreshIsNext /\ HoldsDue)'
    BY <1>1 DEF IInv, CacheBehind, FreshIsNext, HoldsDue, object
<1>6. (RunsMade /\ NotDueAgain /\ OncePerTime)'
    BY <1>1 DEF IInv, RunsMade, NotDueAgain, OncePerTime, object,
                GeneratedScheduledBackupJobName
<1>7. QED
    BY <1>4, <1>5, <1>6 DEF IInv

\* A step that keeps the recorded time and the runs, in which no reconciler takes a time:
\* each stays where it is, its copy outdated or not, or leaves the time it holds.
LEMMA RestStep ==
    ASSUME IInv,
           rec' \in [Reconcilers -> Reconciler],
           \A q \in Reconcilers :
               \/ rec'[q].pc = rec[q].pc /\ rec'[q].at = rec[q].at /\ (rec'[q].fresh => rec[q].fresh)
               \/ rec'[q].pc \notin Holding /\ rec'[q].at = 0,
           \/ UNCHANGED object
           \/ /\ \E m \in Machine : m.last = machine.last /\ Write(m)
              /\ \A q \in Reconcilers : rec'[q].pc \notin Holding \/ ~rec'[q].fresh,
           faults' \in 0..MaxFaults,
           UNCHANGED <<now, usable, runs, made, lost>>
    PROVE  IInv'
<1>1. /\ machine' \in Machine /\ machine'.last = machine.last /\ view' = view
      /\ stale' \in BOOLEAN
      /\ \/ stale' = stale /\ machine' = machine
         \/ stale' /\ \A q \in Reconcilers : rec'[q].pc \notin Holding \/ ~rec'[q].fresh
    BY DEF Write, object, IInv, TypeOK
<1>2. TypeOK'
    BY <1>1 DEF IInv, TypeOK
<1>3. CacheBehind'
    BY <1>1 DEF IInv, CacheBehind
<1>4. FreshIsNext'
    BY <1>1 DEF IInv, FreshIsNext, Times
<1>5. HoldsDue'
    BY DEF IInv, HoldsDue, Holding
<1>6. RunsMade' /\ OncePerTime'
    BY DEF IInv, RunsMade, OncePerTime, Holding, GeneratedScheduledBackupJobName
<1>7. NotDueAgain'
    BY <1>1, Numbers DEF IInv, NotDueAgain, GeneratedScheduledBackupJobName
<1>8. QED
    BY <1>2, <1>3, <1>4, <1>5, <1>6, <1>7 DEF IInv

\* Every reconciler stays where it is, with an outdated copy, ...
LEMMA OutdatedStep ==
    ASSUME IInv, NEW m \in Machine, m.last = machine.last, Write(m),
           rec' = Outdated("nobody"), faults' \in 0..MaxFaults,
           UNCHANGED <<now, usable, runs, made, lost>>
    PROVE  IInv'
<1>1. /\ rec' \in [Reconcilers -> Reconciler]
      /\ \A q \in Reconcilers : /\ rec'[q].pc = rec[q].pc /\ rec'[q].at = rec[q].at
                                /\ ~rec'[q].fresh
    BY OutdatedAll DEF IInv, TypeOK
<1>2. QED
    BY <1>1, RestStep

\* ... but the one that made the write, which is done with its time or took none.
LEMMA WriteStep ==
    ASSUME IInv, NEW m \in Machine, m.last = machine.last, Write(m),
           NEW r \in Reconcilers, NEW done \in Reconciler,
           done.pc \notin Holding, done.at = 0, ~done.fresh,
           rec' = [Outdated("nobody") EXCEPT ![r] = done], faults' \in 0..MaxFaults,
           UNCHANGED <<now, usable, runs, made, lost>>
    PROVE  IInv'
<1>1. /\ rec' \in [Reconcilers -> Reconciler]
      /\ \A q \in Reconcilers :
            /\ ~rec'[q].fresh
            /\ \/ rec'[q].pc = rec[q].pc /\ rec'[q].at = rec[q].at
               \/ rec'[q].pc \notin Holding /\ rec'[q].at = 0
    BY OutdatedAll DEF IInv, TypeOK
<1>2. QED
    BY <1>1, RestStep

\* A reconciler goes on without a write, and with no time.
LEMMA ReturnStep ==
    ASSUME IInv, NEW r \in Reconcilers, NEW done \in Reconciler,
           done.pc \notin Holding, done.at = 0,
           rec' = [rec EXCEPT ![r] = done], faults' \in 0..MaxFaults,
           UNCHANGED <<now, object, usable, runs, made, lost>>
    PROVE  IInv'
<1>1. /\ rec' \in [Reconcilers -> Reconciler]
      /\ \A q \in Reconcilers : rec'[q] \in {rec[q], done}
    BY DEF IInv, TypeOK
<1>2. QED
    BY <1>1, RestStep

\* An idle reconciler holds nothing.
LEMMA IdleType == Idle \in Reconciler /\ Idle.pc \notin Holding /\ Idle.at = 0 /\ ~Idle.fresh
BY DEF Idle, Reconciler, Holding

\* The machine is written by others, edited or marked for deletion.
LEMMA OtherWriteStep ==
    ASSUME IInv, OtherWrite \/ EditSchedule \/ DeleteMachine
    PROVE  IInv'
<1>1. machine \in Machine
    BY DEF IInv, TypeOK
<1>2. PICK m \in Machine : m.last = machine.last /\ Write(m)
    <2>1. CASE OtherWrite
        BY <1>1, <2>1 DEF OtherWrite
    <2>2. CASE EditSchedule
        <3>1. PICK schedule \in Schedules : Write([machine EXCEPT !.schedule = schedule])
            BY <2>2 DEF EditSchedule
        <3>2. QED
            BY <1>1, <3>1 DEF Machine
    <2>3. CASE DeleteMachine
        <3>1. PICK status \in {"deleting", "gone"} : Write([machine EXCEPT !.status = status])
            BY <1>1, <2>3 DEF DeleteMachine, Machine
        <3>2. QED
            BY <1>1, <3>1 DEF Machine
    <2>4. QED
        BY <2>1, <2>2, <2>3
<1>3. rec' = Outdated("nobody") /\ UNCHANGED <<now, usable, runs, made, lost>>
    BY DEF OtherWrite, EditSchedule, DeleteMachine
<1>4. faults' \in 0..MaxFaults
    BY FaultsAssumption DEF OtherWrite, EditSchedule, DeleteMachine, Fault, IInv, TypeOK
<1>5. QED
    BY <1>2, <1>3, <1>4, OutdatedStep

\* The cache catches up, by itself or with a restart that forgets the passes.
LEMMA CatchUpStep ==
    ASSUME IInv, SyncMachine \/ Crash
    PROVE  IInv'
<1>1. /\ UNCHANGED <<now, machine, usable, runs, made, lost>>
      /\ view' = machine /\ stale' = FALSE
    BY DEF SyncMachine, Crash
<1>2. Idle \in Reconciler
    BY DEF Idle, Reconciler
<1>3. /\ rec' \in [Reconcilers -> Reconciler]
      /\ \A r \in Reconcilers : rec'[r] \in {rec[r], Idle}
    BY <1>2 DEF SyncMachine, Crash, IInv, TypeOK
<1>4. faults' \in 0..MaxFaults
    BY FaultsAssumption DEF SyncMachine, Crash, Fault, IInv, TypeOK
<1>5. TypeOK'
    BY <1>1, <1>3, <1>4 DEF IInv, TypeOK
<1>6. CacheBehind'
    BY <1>1, Numbers DEF IInv, CacheBehind
<1>7. (FreshIsNext /\ HoldsDue)'
    BY <1>1, <1>3 DEF IInv, FreshIsNext, HoldsDue, Holding, Idle
<1>8. RunsMade' /\ OncePerTime'
    BY <1>1, <1>3 DEF IInv, RunsMade, OncePerTime, Idle, GeneratedScheduledBackupJobName
<1>9. \A t \in Due : t <= view.last => t <= view'.last
    BY <1>1, Numbers DEF IInv, CacheBehind
<1>10. NotDueAgain'
    BY <1>1, <1>3, <1>9, Numbers
       DEF IInv, NotDueAgain, Idle, GeneratedScheduledBackupJobName
<1>11. QED
    BY <1>5, <1>6, <1>7, <1>8, <1>10 DEF IInv

\* Runs are deleted.
LEMMA DeleteRunsStep ==
    ASSUME IInv, NEW names \in SUBSET runs, DeleteRuns(names),
           faults' \in 0..MaxFaults,
           UNCHANGED <<now, object, usable, rec, made>>
    PROVE  IInv'
<1>1. /\ runs' = runs \ names
      /\ lost' = lost \cup {t \in Due :
                               /\ GeneratedScheduledBackupJobName(t) \in names
                               /\ t > view.last \/ \E r \in Reconcilers : rec[r].at = t}
    BY DEF DeleteRuns
<1>2. TypeOK'
    BY <1>1 DEF IInv, TypeOK, object
<1>3. (CacheBehind /\ FreshIsNext /\ HoldsDue)'
    BY DEF IInv, CacheBehind, FreshIsNext, HoldsDue, Holding, object
<1>4. RunsMade' /\ OncePerTime'
    BY <1>1 DEF IInv, RunsMade, OncePerTime, object, GeneratedScheduledBackupJobName
<1>5. NotDueAgain'
    <2> SUFFICES ASSUME NEW t \in Due, made[t] > 0,
                        GeneratedScheduledBackupJobName(t) \notin runs', t \notin lost'
                 PROVE  t <= view.last /\ \A r \in Reconcilers : rec[r].at # t
        BY DEF NotDueAgain, object, GeneratedScheduledBackupJobName
    <2>1. t \in Nat /\ view.last \in Nat
        BY Numbers DEF IInv
    <2>2. QED
        BY <1>1, <2>1 DEF IInv, NotDueAgain
<1>6. QED
    BY <1>2, <1>3, <1>4, <1>5 DEF IInv

\* A run is pruned, deleted by a user, by its machine's deletion or collected after it.
LEMMA DeletedStep ==
    ASSUME IInv, \/ CollectOrphans
                 \/ \E n \in runs : DeleteRun(n) \/ \E r \in Reconcilers : DeleteScheduledRun(r, n)
    PROVE  IInv'
<1>1. PICK names \in SUBSET runs : DeleteRuns(names)
    BY DEF CollectOrphans, DeleteRun, DeleteScheduledRun, Owned
<1>2. UNCHANGED <<now, object, usable, rec, made>>
    BY DEF CollectOrphans, DeleteRun, DeleteScheduledRun
<1>3. faults' \in 0..MaxFaults
    <2>1. UNCHANGED faults \/ Fault
        BY DEF CollectOrphans, DeleteRun, DeleteScheduledRun
    <2>2. QED
        BY <2>1, FaultsAssumption DEF Fault, IInv, TypeOK
<1>4. QED
    BY <1>1, <1>2, <1>3, DeleteRunsStep

\* A reconciler takes the time that is due, with the conditions updated or as they are.
LEMMA TakeStep ==
    ASSUME IInv, NEW r \in Reconcilers, NEW taken \in Reconciler, DueNow # {},
           taken.pc = "create", taken.at = Picked, taken.fresh => ~stale,
           rec' \in [Reconcilers -> Reconciler], rec'[r] = taken,
           \A q \in Reconcilers \ {r} :
               rec'[q].pc = rec[q].pc /\ rec'[q].at = rec[q].at /\ (rec'[q].fresh => rec[q].fresh),
           UNCHANGED object \/ Write([machine EXCEPT !.shown = Shown]),
           UNCHANGED <<now, usable, runs, made, lost, faults>>
    PROVE  IInv'
<1>1. Shown \in {"ready", "notReady"} /\ machine \in Machine /\ view \in Machine
    BY DEF Shown, IInv, TypeOK
<1>2. /\ machine' \in Machine /\ machine'.last = machine.last
      /\ machine'.schedule = machine.schedule
      /\ view' = view /\ stale' \in BOOLEAN /\ (~stale' => ~stale /\ machine' = machine)
    <2>1. PICK m \in Machine : /\ m = [machine EXCEPT !.shown = Shown]
                               /\ m.last = machine.last /\ m.schedule = machine.schedule
        BY <1>1 DEF Machine
    <2>2. CASE UNCHANGED object
        BY <1>1, <2>2 DEF object, IInv, TypeOK
    <2>3. CASE Write([machine EXCEPT !.shown = Shown])
        <3>1. machine' = m /\ stale' = TRUE /\ view' = view
            BY <2>1, <2>3, Zenon DEF Write
        <3>2. QED
            BY <2>1, <3>1
    <2>4. QED
        BY <2>2, <2>3
<1>3. /\ Picked \in Due
      /\ view.last < Picked
      /\ view.last # 0 => ~\E t \in Times(view.schedule) : view.last < t /\ t < Picked
    BY <1>1, DueIsNext, Zenon
<1>4. TypeOK'
    BY <1>2 DEF IInv, TypeOK
<1>5. CacheBehind'
    BY <1>2 DEF IInv, CacheBehind
<1>6. FreshIsNext'
    <2> SUFFICES ASSUME NEW q \in Reconcilers, rec'[q].fresh, rec'[q].pc \in Holding
                 PROVE  /\ machine.last < rec'[q].at
                        /\ machine.last # 0 => ~\E t \in Times(machine.schedule) :
                                                    machine.last < t /\ t < rec'[q].at
        BY <1>2 DEF FreshIsNext, Times
    <2>1. CASE q = r
        <3>1. view = machine
            BY <2>1 DEF IInv, CacheBehind
        <3>2. QED
            BY <1>3, <2>1, <3>1
    <2>2. CASE q # r
        BY <2>2 DEF IInv, FreshIsNext
    <2>3. QED
        BY <2>1, <2>2
<1>7. HoldsDue'
    BY <1>3 DEF IInv, HoldsDue, Holding
<1>8. RunsMade' /\ OncePerTime'
    BY DEF IInv, RunsMade, OncePerTime, GeneratedScheduledBackupJobName
<1>9. NotDueAgain'
    <2>1. Picked \in Nat /\ view.last \in Nat
        BY <1>3, Numbers DEF IInv
    <2>2. QED
        BY <1>2, <1>3, <2>1 DEF IInv, NotDueAgain, GeneratedScheduledBackupJobName
<1>10. QED
    BY <1>4, <1>5, <1>6, <1>7, <1>8, <1>9 DEF IInv

\* What the look at the schedule comes to.
LEMMA ScheduledType ==
    ASSUME IInv, NEW f \in BOOLEAN
    PROVE  /\ Scheduled(f) \in Reconciler
           /\ Scheduled(f).fresh => f
           /\ \/ Scheduled(f).pc \notin Holding /\ Scheduled(f).at = 0
              \/ Scheduled(f).pc = "create" /\ Scheduled(f).at = Picked /\ DueNow # {}
<1>1. CASE view.schedule = Invalid
    BY <1>1 DEF Scheduled, Reconciler, Holding
<1>2. CASE view.schedule # Invalid /\ DueNow = {}
    BY <1>2, IdleType DEF Scheduled
<1>3. CASE view.schedule # Invalid /\ DueNow # {}
    <2>1. Picked \in Due
        BY <1>3, DueIsNext DEF IInv, TypeOK
    <2>2. Scheduled(f) = [pc |-> "create", at |-> Picked, fresh |-> f]
        BY <1>3 DEF Scheduled, Picked
    <2>3. QED
        BY <1>3, <2>1, <2>2 DEF Reconciler
<1>4. QED
    BY <1>1, <1>2, <1>3

\* A pass up to the schedule.
LEMMA ReconcileStep ==
    ASSUME IInv, NEW r \in Reconcilers, Reconcile(r)
    PROVE  IInv'
<1>1. UNCHANGED <<now, usable, runs, made, lost, faults>> /\ faults' \in 0..MaxFaults
    BY DEF Reconcile, IInv, TypeOK
<1>2. PICK f \in BOOLEAN, next \in Reconciler :
         /\ next = Scheduled(f) \/ next = Idle
         /\ \/ /\ f => ~stale
               /\ rec' = [rec EXCEPT ![r] = next]
               /\ UNCHANGED object
            \/ /\ ~stale
               /\ Write([machine EXCEPT !.shown = Shown])
               /\ rec' = [Outdated("nobody") EXCEPT ![r] = next]
    <2>1. CASE /\ rec' = [rec EXCEPT ![r] = Scheduled(~stale)]
               /\ UNCHANGED object
        <3>1. PICK f \in BOOLEAN : f = ~stale
            OBVIOUS
        <3>2. QED
            BY <2>1, <3>1, ScheduledType
    <2>2. CASE /\ ~stale
               /\ Write([machine EXCEPT !.shown = Shown])
               /\ rec' = [Outdated("nobody") EXCEPT ![r] = Scheduled(TRUE)]
        BY <2>2, ScheduledType
    <2>3. CASE /\ rec' = [rec EXCEPT ![r] = IF machine.status = "gone" THEN Scheduled(FALSE)
                                            ELSE Idle]
               /\ UNCHANGED object
        BY <2>3, ScheduledType, IdleType
    <2>4. QED
        BY <2>1, <2>2, <2>3 DEF Reconcile
<1>3. /\ [machine EXCEPT !.shown = Shown] \in Machine
      /\ [machine EXCEPT !.shown = Shown].last = machine.last
    BY DEF IInv, TypeOK, Machine, Shown
<1>4. /\ rec' \in [Reconcilers -> Reconciler] /\ rec'[r] = next
      /\ \A q \in Reconcilers \ {r} :
            rec'[q].pc = rec[q].pc /\ rec'[q].at = rec[q].at /\ (rec'[q].fresh => rec[q].fresh)
    BY <1>2, OutdatedAll DEF IInv, TypeOK
<1>5. /\ next.fresh => ~stale
      /\ \/ next.pc \notin Holding /\ next.at = 0
         \/ next.pc = "create" /\ next.at = Picked /\ DueNow # {}
    BY <1>2, ScheduledType, IdleType
<1>6. CASE next.pc = "create" /\ next.at = Picked /\ DueNow # {}
    BY <1>1, <1>2, <1>4, <1>5, <1>6, TakeStep
<1>7. CASE next.pc \notin Holding /\ next.at = 0
    <2>1. \A q \in Reconcilers \ {r} : UNCHANGED object \/ ~rec'[q].fresh
        BY <1>2, OutdatedAll DEF IInv, TypeOK
    <2>2. QED
        BY <1>1, <1>2, <1>3, <1>4, <1>7, <2>1, RestStep
<1>8. QED
    BY <1>5, <1>6, <1>7

\* The passes that take no time: the scheduler lists the machine, the machine is gone, gets
\* its finalizer, has an invalid schedule or begins to be deleted.
LEMMA OtherPassStep ==
    ASSUME IInv, NEW r \in Reconcilers,
           \/ r = "scheduler" /\ ListMachines
           \/ ReconcileGone(r) \/ AddFinalizer(r) \/ ReportInvalid(r) \/ ReconcileDeleting(r)
    PROVE  IInv'
<1>1. machine \in Machine /\ rec[r] \in Reconciler /\ faults \in 0..MaxFaults
    BY DEF IInv, TypeOK
<1>2. CASE r = "scheduler" /\ ListMachines
    <2>1. PICK listed \in Reconciler :
             /\ listed.pc = "listed" /\ listed.at = rec[r].at
             /\ rec' = [rec EXCEPT ![r] = listed]
        BY <1>1, <1>2 DEF ListMachines, Reconciler, IInv, TypeOK
    <2>2. listed.at = 0
        BY <1>2, <2>1 DEF ListMachines, IInv, HoldsDue, Holding
    <2>3. QED
        BY <1>1, <1>2, <2>1, <2>2, ReturnStep DEF ListMachines, Holding
<1>3. CASE ReconcileGone(r)
    BY <1>1, <1>3, IdleType, ReturnStep DEF ReconcileGone
<1>4. CASE AddFinalizer(r)
    <2>1. /\ [machine EXCEPT !.status = "live"] \in Machine
          /\ [machine EXCEPT !.status = "live"].last = machine.last
        BY <1>1 DEF Machine
    <2>2. CASE stale
        BY <1>1, <1>4, <2>2, IdleType, ReturnStep DEF AddFinalizer
    <2>3. CASE ~stale
        BY <1>1, <1>4, <2>1, <2>3, IdleType, WriteStep DEF AddFinalizer
    <2>4. QED
        BY <2>2, <2>3
<1>5. CASE ReportInvalid(r)
    <2>1. /\ [machine EXCEPT !.shown = "badSchedule"] \in Machine
          /\ [machine EXCEPT !.shown = "badSchedule"].last = machine.last
        BY <1>1 DEF Machine
    <2>2. CASE Accepted(r)
        BY <1>1, <1>5, <2>1, <2>2, IdleType, WriteStep DEF ReportInvalid
    <2>3. CASE ~Accepted(r)
        BY <1>1, <1>5, <2>3, IdleType, ReturnStep DEF ReportInvalid
    <2>4. QED
        BY <2>2, <2>3
<1>6. CASE ReconcileDeleting(r)
    <2>1. PICK purge \in Reconciler :
             /\ purge.pc = "purge" /\ purge.at = 0
             /\ rec' = [rec EXCEPT ![r] = purge]
        BY <1>6 DEF ReconcileDeleting, Reconciler, IInv, TypeOK
    <2>2. QED
        BY <1>1, <1>6, <2>1, ReturnStep DEF ReconcileDeleting, Holding
<1>7. QED
    BY <1>2, <1>3, <1>4, <1>5, <1>6

\* A run is created, or found to exist; no second one for a time but a lost one.
LEMMA CreateStep ==
    ASSUME IInv, NEW r \in Reconcilers, createScheduledBackupJob(r)
    PROVE  IInv'
<1> DEFINE at   == rec[r].at
           name == GeneratedScheduledBackupJobName(at)
<1>1. rec[r].pc = "create" /\ UNCHANGED <<now, object, usable, lost>>
    BY DEF createScheduledBackupJob
<1>2. at \in Due
    BY <1>1 DEF IInv, HoldsDue, Holding
<1>3. CASE /\ Fault /\ rec' = [rec EXCEPT ![r] = Idle] /\ UNCHANGED <<runs, made>>
    <2>1. faults' \in 0..MaxFaults
        BY <1>3, FaultsAssumption DEF Fault, IInv, TypeOK
    <2>2. QED
        BY <1>1, <1>3, <2>1, IdleType, ReturnStep
<1>4. CASE /\ runs' = runs \cup {name}
           /\ made' = IF name \in runs THEN made ELSE [made EXCEPT ![at] = @ + 1]
           /\ rec' = [rec EXCEPT ![r].pc = "record"]
           /\ UNCHANGED faults
    <2>1. name \in {u \div Minute : u \in Due}
        BY <1>2, Names
    <2>2. /\ rec' \in [Reconcilers -> Reconciler]
          /\ \A q \in Reconcilers : /\ rec'[q].at = rec[q].at
                                    /\ rec'[q].fresh = rec[q].fresh
                                    /\ q # r => rec'[q].pc = rec[q].pc
          /\ rec'[r].pc = "record"
        BY <1>4 DEF IInv, TypeOK, Reconciler
    <2>3. /\ made' \in [Due -> Nat]
          /\ \A t \in Due : t # at => made'[t] = made[t]
          /\ name \in runs => made' = made
          /\ name \notin runs => made'[at] = made[at] + 1
          /\ made[at] \in Nat
        BY <1>2, <1>4 DEF IInv, TypeOK
    <2>4. \A t \in Due : GeneratedScheduledBackupJobName(t) = name => t = at
        BY <1>2, Names
    <2>5. made'[at] > 0
        BY <1>2, <2>3 DEF IInv, RunsMade
    <2> HIDE DEF name, at
    <2>6. TypeOK'
        BY <1>1, <1>4, <2>1, <2>2, <2>3 DEF IInv, TypeOK, object
    <2>7. CacheBehind' /\ FreshIsNext' /\ HoldsDue'
        BY <1>1, <2>2 DEF IInv, CacheBehind, FreshIsNext, HoldsDue, Holding, object
    <2>8. RunsMade'
        <3>1. \A t \in Due : GeneratedScheduledBackupJobName(t) \in runs' => made'[t] > 0
            BY <1>4, <2>3, <2>4, <2>5 DEF IInv, RunsMade
        <3>2. \A q \in Reconcilers : rec'[q].pc = "record" => made'[rec'[q].at] > 0
            BY <1>1, <2>2, <2>3, <2>5 DEF IInv, RunsMade, HoldsDue, Holding, at
        <3>3. QED
            BY <3>1, <3>2 DEF RunsMade, GeneratedScheduledBackupJobName
    <2>9. NotDueAgain'
        <3>1. \A t \in Due : GeneratedScheduledBackupJobName(t) \notin runs' =>
                   GeneratedScheduledBackupJobName(t) \notin runs /\ t # at
            BY <1>4 DEF name
        <3>2. QED
            BY <1>1, <2>2, <2>3, <3>1
               DEF IInv, NotDueAgain, object, GeneratedScheduledBackupJobName
    <2>10. OncePerTime'
        <3>1. name \notin runs /\ at \notin lost => made[at] = 0
            BY <1>2, <2>3 DEF IInv, NotDueAgain, name, at
        <3>2. \A t \in Due : made'[t] > 1 => t \in lost
            BY <2>3, <3>1 DEF IInv, OncePerTime
        <3>3. QED
            BY <1>1, <3>2 DEF OncePerTime
    <2>11. QED
        BY <2>6, <2>7, <2>8, <2>9, <2>10 DEF IInv
<1>5. QED
    BY <1>3, <1>4 DEF createScheduledBackupJob

\* The time is recorded, by a copy that holds the one that follows, or the pass is over.
LEMMA RecordStep ==
    ASSUME IInv, NEW r \in Reconcilers, RecordScheduled(r)
    PROVE  IInv'
<1>1. rec[r].pc = "record" /\ UNCHANGED <<now, usable, runs, made, lost>>
    BY DEF RecordScheduled
<1>2. CASE /\ Accepted(r)
           /\ Write([machine EXCEPT !.last = rec[r].at])
           /\ rec' = [Outdated("nobody") EXCEPT ![r] = Idle]
           /\ UNCHANGED faults
    <2>1. rec[r].fresh /\ rec[r].at \in Due /\ machine.last < rec[r].at
        BY <1>1, <1>2 DEF Accepted, IInv, HoldsDue, FreshIsNext, Holding
    <2>2. /\ machine' \in Machine /\ machine'.last = rec[r].at
          /\ view' = view /\ stale' = TRUE
        BY <1>2, <2>1 DEF Write, IInv, TypeOK, Machine
    <2>3. Idle \in Reconciler /\ Idle.pc = "idle" /\ Idle.at = 0 /\ ~Idle.fresh
        BY DEF Idle, Reconciler
    <2>4. /\ rec' \in [Reconcilers -> Reconciler]
          /\ \A q \in Reconcilers :
                /\ ~rec'[q].fresh
                /\ \/ rec'[q].pc = rec[q].pc /\ rec'[q].at = rec[q].at
                   \/ rec'[q].pc = "idle" /\ rec'[q].at = 0
        BY <1>2, <2>3, OutdatedAll DEF IInv, TypeOK
    <2>5. TypeOK'
        BY <1>1, <1>2, <2>2, <2>4 DEF IInv, TypeOK
    <2>6. CacheBehind'
        <3>1. rec[r].at \in Nat
            BY <2>1, Numbers DEF IInv
        <3>2. QED
            BY <2>1, <2>2, <3>1, Numbers DEF IInv, CacheBehind
    <2>7. FreshIsNext' /\ HoldsDue'
        BY <2>4 DEF IInv, FreshIsNext, HoldsDue, Holding
    <2>8. (RunsMade /\ NotDueAgain /\ OncePerTime)'
        BY <1>1, <2>2, <2>4, Numbers
           DEF IInv, RunsMade, NotDueAgain, OncePerTime, GeneratedScheduledBackupJobName
    <2>9. QED
        BY <2>5, <2>6, <2>7, <2>8 DEF IInv
<1>3. CASE /\ \/ ~Accepted(r) /\ UNCHANGED faults
              \/ Fault
           /\ rec' = [rec EXCEPT ![r] = Idle]
           /\ UNCHANGED object
    <2>1. faults' \in 0..MaxFaults
        BY <1>3, FaultsAssumption DEF Fault, IInv, TypeOK
    <2>2. QED
        BY <1>1, <1>3, <2>1, IdleType, ReturnStep
<1>4. QED
    BY <1>2, <1>3 DEF RecordScheduled

\* The machine is gone, or the removal of its finalizer is tried again.
LEMMA RemoveFinalizerStep ==
    ASSUME IInv, NEW r \in Reconcilers, RemoveFinalizer(r)
    PROVE  IInv'
<1>1. UNCHANGED <<now, usable, runs, made, lost>>
    BY DEF RemoveFinalizer
<1>2. faults' \in 0..MaxFaults
    BY FaultsAssumption DEF RemoveFinalizer, Fault, IInv, TypeOK
<1>3. CASE rec' = [rec EXCEPT ![r] = Idle] /\ UNCHANGED object
    BY <1>1, <1>2, <1>3, IdleType, ReturnStep
<1>4. CASE /\ Write([machine EXCEPT !.status = "gone"])
           /\ rec' = [Outdated("nobody") EXCEPT ![r] = Idle]
    <2>1. /\ [machine EXCEPT !.status = "gone"] \in Machine
          /\ [machine EXCEPT !.status = "gone"].last = machine.last
        BY DEF IInv, TypeOK, Machine
    <2>2. QED
        BY <1>1, <1>2, <1>4, <2>1, IdleType, WriteStep
<1>5. QED
    BY <1>3, <1>4 DEF RemoveFinalizer

\* Every step keeps the invariant.
LEMMA Inductive == IInv /\ [Next]_vars => IInv'
<1> SUFFICES ASSUME IInv, [Next]_vars PROVE IInv'
    OBVIOUS
<1>1. ASSUME NEW r \in Reconcilers, Pass(r) PROVE IInv'
    BY <1>1, ReconcileStep, CreateStep, RecordStep, OtherPassStep, RemoveFinalizerStep,
       DeletedStep DEF Pass
<1>2. CASE UNCHANGED vars
    <2>1. TypeOK'
        BY <1>2 DEF vars, IInv, TypeOK
    <2>2. (CacheBehind /\ FreshIsNext /\ HoldsDue)'
        BY <1>2 DEF vars, IInv, CacheBehind, FreshIsNext, HoldsDue
    <2>3. (RunsMade /\ NotDueAgain /\ OncePerTime)'
        BY <1>2 DEF vars, IInv, RunsMade, NotDueAgain, OncePerTime,
                    GeneratedScheduledBackupJobName
    <2>4. QED
        BY <2>1, <2>2, <2>3 DEF IInv
<1>3. QED
    BY <1>1, <1>2, DeletedStep, QuietStep, CatchUpStep, OtherWriteStep DEF Next

\* The invariant always holds.
LEMMA Invariant == Spec => []IInv
BY InitInv, Inductive, PTL DEF Spec

-----------------------------------------------------------------------------
(* Theorems                                                                *)

\* The state is always well typed, and only times of the schedule have runs.
THEOREM TypeCorrect == Spec => []TypeOK
<1>1. IInv => TypeOK
    BY DEF IInv
<1>2. QED
    BY <1>1, Invariant, PTL

\* Two reconcilers, outdated caches and restarts never make two runs for one time, unless
\* the first was deleted before its time was recorded and seen to be.
THEOREM OneRunPerTime == Spec => []OncePerTime
<1>1. IInv => OncePerTime
    BY DEF IInv
<1>2. QED
    BY <1>1, Invariant, PTL

\* lastScheduledAt only moves forward, to the next time of the schedule, which has a run.
THEOREM NoTimeSkipped == Spec => StepsThroughSchedule
<1> DEFINE Stepwise == machine'.last # machine.last =>
                          /\ made[machine'.last] > 0
                          /\ machine.last < machine'.last
                          /\ machine.last # 0 =>
                                ~\E t \in Times(machine.schedule) :
                                    machine.last < t /\ t < machine'.last
<1>1. IInv /\ [Next]_vars => [Stepwise]_vars
    <2> SUFFICES ASSUME IInv, Next, machine'.last # machine.last PROVE Stepwise
        OBVIOUS
    <2>1. machine \in Machine
        BY DEF IInv, TypeOK
    <2>2. PICK r \in Reconcilers : RecordScheduled(r)
        BY <2>1 DEF Next, Pass, ListMachines, ReconcileGone, AddFinalizer, Reconcile,
               ReportInvalid, createScheduledBackupJob, ReconcileDeleting, DeleteScheduledRun,
               RemoveFinalizer, DeleteRun, CollectOrphans, Tick, SyncMachine, OtherWrite,
               EditSchedule, ChangeReferences, DeleteMachine, Crash, Write, object, Machine
    <2>3. /\ rec[r].pc = "record" /\ Accepted(r)
          /\ machine' = [machine EXCEPT !.last = rec[r].at]
        BY <2>2 DEF RecordScheduled, Write, object
    <2>4. machine'.last = rec[r].at
        BY <2>1, <2>3 DEF Machine
    <2>5. QED
        BY <2>3, <2>4 DEF Accepted, IInv, RunsMade, FreshIsNext, Holding
<1>2. QED
    BY <1>1, Invariant, PTL DEF Spec, StepsThroughSchedule

=============================================================================
