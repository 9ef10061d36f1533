------------------------ MODULE SnapshotStoreProofs -------------------------
(***************************************************************************)
(* The retained hourly restore points are whole and a completed run is     *)
(* restorable, for any sources, number of runs and stops, any retention    *)
(* counts and any calendar.                                                *)
(*                                                                         *)
(* A restore point loses data in two places only.  RecoverSpace records    *)
(* what it takes.  Retention takes the first name of a level that has more *)
(* than it keeps, so at least Keep of the same level are more recent, and  *)
(* as later steps only remove first names or record what they remove, they *)
(* stay so.  A run's own name is the last of every level, because names    *)
(* sort by time (Newest); so retention never takes it, wherever it was     *)
(* interrupted and repeated.                                               *)
(***************************************************************************)
EXTENDS SnapshotStore, FiniteSetTheorems, WellFoundedInduction, TLAPS

TakesTransfers == {"serving", "recover", "recoverPrune"}
Promoted  == {"unlink", "relink", "tiers", "link", "retain", "retainPrune", "done"}
Finalizes == {"finalize"} \cup Promoted

\* The restore points of a level.
At(l) == {n \in points : n[1] = l}

\* What a source Job sent successfully is in the run's partial directory, until the
\* directory is promoted; by then all were sent and no transfer is accepted.
Sent ==
    /\ pc \in TakesTransfers =>
          \A s \in Sources : sender[s] = "succeeded" => s \in partial[last].whole
    /\ last # NoRun /\ partial[last].exists =>
          \A s \in Sources : sender[s] = "succeeded" => s \in partial[last].whole
    /\ pc \in Finalizes => AllSourcesSucceeded /\ completed = Sources

\* No restore point has a later name than the last run.
Newest == \A n \in points : last # NoRun /\ n[2] <= Bucket[n[1]][last]

\* The last run's hourly directory is promoted whole.
LastWhole ==
    /\ pc \in TakesTransfers => last \notin hourly
    /\ last \in hourly => store[<<0, last>>].whole = Sources

\* The directory that RemoveAll works on.
Victims ==
    /\ pc = "recoverPrune" => victim \in points /\ (victim[1] = 0 => victim[2] \in pruned)
    /\ pc = "retainPrune" => /\ level \in Levels /\ victim \in At(level)
                             /\ \A m \in At(level) : victim[2] <= m[2]
                             /\ Cardinality(At(level)) > Keep[level]

\* What finalization has done so far.
Progress ==
    /\ pc \in Promoted => run \in hourly
    /\ pc \in Promoted \ {"unlink", "relink"} => latest = run
    /\ pc \in {"tiers", "link"} =>
          /\ level # 0
          /\ \A l \in Levels : l < level => <<l, Bucket[l][run]>> \in points
    /\ pc = "link" => level \in Levels /\ tier \in points
    /\ pc \in {"retain", "retainPrune", "done"} =>
          \A l \in Levels : <<l, Bucket[l][run]>> \in points
    /\ pc \in {"retain", "retainPrune"} =>
          \A l \in Levels : l < level => Cardinality(At(l)) <= Keep[l]
    /\ pc = "done" => \A l \in Levels : Cardinality(At(l)) <= Keep[l]

IInv == /\ TypeOK /\ Sent /\ Newest /\ LastWhole /\ Victims /\ Progress
        /\ RetainedWhole

-----------------------------------------------------------------------------
(* Names, and how many there are                                           *)

\* What removing and making hourly directories is about.
Above(h, p, r) == {q \in h \cup p : q > r}

LEMMA Smallest ==
    ASSUME NEW T \in SUBSET Nat, T # {}
    PROVE  \E x \in T : \A y \in T : x <= y
<1> DEFINE R == OpToRel(<, Nat)
<1>1. IsWellFoundedOn(R, Nat)
    BY NatLessThanWellFounded
<1>2. \A x, y \in Nat : y < x => <<y, x>> \in R
    BY DEF OpToRel
<1> HIDE DEF R
<1>3. PICK x \in T : \A y \in T : ~(<<y, x>> \in R)
    BY <1>1, WFMin
<1>4. \A y \in T : y \in Nat /\ x \in Nat /\ ~(y < x)
    BY <1>2, <1>3
<1>5. \A y \in T : x <= y
    BY <1>4
<1>6. QED
    BY <1>5

\* A name is a level and a run.
LEMMA NamesAre ==
    /\ Runs \subseteq Nat \ {0} /\ Levels = {0, 1, 2, 3}
    /\ \A n \in Names : n = <<n[1], n[2]>> /\ n[1] \in Levels /\ n[2] \in Runs
    /\ \A l \in Levels, r \in Runs :
          <<l, r>> \in Names /\ <<l, r>>[1] = l /\ <<l, r>>[2] = r
<1>1. Runs \subseteq Nat \ {0} /\ Levels = {0, 1, 2, 3}
    BY BoundsAssumption DEF Runs, Levels
<1>2. QED
    BY <1>1 DEF Names

LEMMA FirstIs ==
    ASSUME NEW names \in SUBSET Names, names # {}
    PROVE  FirstByName(names) \in names /\ \A m \in names : FirstByName(names)[2] <= m[2]
<1> DEFINE T == {m[2] : m \in names}
<1>1. T \in SUBSET Nat /\ T # {}
    BY NamesAre
<1>2. PICK x \in T : \A y \in T : x <= y
    <2> HIDE DEF T
    <2>1. QED
        BY <1>1, Smallest
<1>3. PICK n \in names : x = n[2]
    OBVIOUS
<1>4. \A m \in names : n[2] <= m[2]
    BY <1>2, <1>3
<1>5. QED
    BY <1>4, Zenon DEF FirstByName

LEMMA Finite ==
    /\ IsFiniteSet(Runs) /\ IsFiniteSet(Names)
    /\ \A A \in SUBSET Runs : IsFiniteSet(A) /\ Cardinality(A) \in Nat
    /\ \A A \in SUBSET Names : IsFiniteSet(A) /\ Cardinality(A) \in Nat
<1>1. IsFiniteSet(Runs) /\ IsFiniteSet(Levels)
    <2>1. MaxRuns \in Int /\ 1 \in Int /\ 0 \in Int /\ 3 \in Int
        BY BoundsAssumption
    <2>2. IsFiniteSet(1..MaxRuns)
        BY <2>1, FS_Interval
    <2>3. IsFiniteSet(0..3)
        BY <2>1, FS_Interval
    <2>4. QED
        BY <2>2, <2>3 DEF Runs, Levels
<1>2. IsFiniteSet(Names)
    BY <1>1, FS_Product DEF Names
<1>3. \A A \in SUBSET Runs : IsFiniteSet(A)
    BY <1>1, FS_Subset
<1>4. \A A \in SUBSET Names : IsFiniteSet(A)
    BY <1>2, FS_Subset
<1>5. QED
    BY <1>1, <1>2, <1>3, <1>4, FS_CardinalityType

\* Names of level 0 and their runs.
LEMMA HourlyCount ==
    ASSUME TypeOK
    PROVE  /\ \A r : r \in hourly <=> r \in Runs /\ <<0, r>> \in points
           /\ hourly \in SUBSET Runs
           /\ Cardinality(hourly) = Cardinality(At(0))
<1>1. \A r : r \in hourly <=> r \in Runs /\ <<0, r>> \in points
    BY NamesAre DEF hourly, points
<1>2. hourly \in SUBSET Runs
    BY DEF hourly
<1> DEFINE f == [r \in hourly |-> <<0, r>>]
<1>3. \A r \in hourly : <<0, r>> \in At(0)
    BY <1>1, <1>2, NamesAre DEF At
<1>4. \A n \in At(0) : n[2] \in hourly /\ n = <<0, n[2]>>
    BY <1>1, NamesAre DEF At, points
<1>5. f \in Bijection(hourly, At(0))
    <2>1. f \in [hourly -> At(0)]
        BY <1>3
    <2>2. \A a, b \in hourly : f[a] = f[b] => a = b
        OBVIOUS
    <2>3. \A n \in At(0) : \E r \in hourly : f[r] = n
        BY <1>4
    <2>4. f \in Injection(hourly, At(0))
        BY <2>1, <2>2 DEF Injection, IsInjective
    <2>5. f \in Surjection(hourly, At(0))
        BY <2>1, <2>3 DEF Surjection
    <2>6. QED
        BY <2>4, <2>5, Zenon DEF Bijection
<1>6. IsFiniteSet(hourly)
    BY <1>2, Finite
<1>7. QED
    <2> HIDE DEF f
    <2>1. ExistsBijection(hourly, At(0))
        BY <1>5, Zenon DEF ExistsBijection
    <2>2. QED
        BY <1>1, <1>2, <1>6, <2>1, FS_Bijection

\* Whoever is first of more than Keep[0] has at least Keep[0] after it.
LEMMA FirstIsOld ==
    ASSUME NEW h \in SUBSET Runs, NEW p \in SUBSET Runs, NEW v \in h, \A q \in h : v <= q,
           Cardinality(h) > Keep[0]
    PROVE  Cardinality(Above(h, p, v)) >= Keep[0]
<1>1. IsFiniteSet(h) /\ Cardinality(h) \in Nat /\ Keep[0] \in Nat
    BY Finite, NamesAre, KeepAssumption
<1>2. Cardinality(h \ {v}) = Cardinality(h) - 1
    BY <1>1, FS_RemoveElement
<1>3. h \ {v} \in SUBSET Above(h, p, v) /\ Above(h, p, v) \in SUBSET Runs
    <2>1. \A q \in h \ {v} : q \in Nat /\ v \in Nat /\ v <= q /\ q # v
        BY NamesAre
    <2>2. \A q \in h \ {v} : q > v
        BY <2>1
    <2>3. QED
        BY <2>2 DEF Above
<1>4. IsFiniteSet(Above(h, p, v)) /\ Cardinality(Above(h, p, v)) \in Nat
    BY <1>3, Finite
<1>5. Cardinality(h \ {v}) <= Cardinality(Above(h, p, v))
    BY <1>3, <1>4, FS_Subset
<1>6. QED
    BY <1>1, <1>2, <1>4, <1>5

LEMMA AboveGrows ==
    ASSUME NEW h \in SUBSET Runs, NEW p \in SUBSET Runs, NEW h2 \in SUBSET Runs,
           NEW p2 \in SUBSET Runs, NEW r, Above(h, p, r) \subseteq Above(h2, p2, r),
           Cardinality(Above(h, p, r)) >= Keep[0]
    PROVE  Cardinality(Above(h2, p2, r)) >= Keep[0]
<1>1. Above(h2, p2, r) \in SUBSET Runs /\ Above(h, p, r) \in SUBSET Runs /\ Keep[0] \in Nat
    BY NamesAre, KeepAssumption DEF Above
<1>2. /\ IsFiniteSet(Above(h2, p2, r)) /\ Cardinality(Above(h2, p2, r)) \in Nat
      /\ Cardinality(Above(h, p, r)) \in Nat
    BY <1>1, Finite
<1>3. Cardinality(Above(h, p, r)) <= Cardinality(Above(h2, p2, r))
    BY <1>2, FS_Subset
<1>4. QED
    BY <1>1, <1>2, <1>3

-----------------------------------------------------------------------------
(* Steps that leave the restore points alone                               *)

LEMMA RunIs ==
    ASSUME TypeOK, run # NoRun
    PROVE  /\ run = last /\ run \in Runs /\ run \in Nat
           /\ Staging(run) \in 0..(2 * MaxRuns + 1) /\ Finalizing(run) \in 0..(2 * MaxRuns + 1)
           /\ \A l \in Levels : Bucket[l][run] \in Runs /\ <<l, Bucket[l][run]>> \in Names
           /\ <<0, run>> \in Names /\ Bucket[0][run] = run
<1>1. run = last /\ run \in Runs
    BY DEF TypeOK
<1>2. run \in Nat /\ run <= MaxRuns
    BY <1>1, BoundsAssumption DEF Runs
<1>3. Staging(run) \in 0..(2 * MaxRuns + 1) /\ Finalizing(run) \in 0..(2 * MaxRuns + 1)
    BY <1>2, BoundsAssumption DEF Staging, Finalizing
<1>4. \A l \in Levels : Bucket[l][run] \in Runs
    BY <1>1, BucketAssumption
<1>5. QED
    BY <1>1, <1>2, <1>3, <1>4, NamesAre, BucketAssumption

\* What only depends on the restore points.
LEMMA StoreStays ==
    ASSUME IInv, UNCHANGED <<store, last>>, pruned \subseteq pruned', pruned' \subseteq Runs,
           pc' \in TakesTransfers => pc \in TakesTransfers \/ last \notin hourly
    PROVE  /\ points' = points /\ hourly' = hourly /\ \A l : At(l)' = At(l)
           /\ Newest' /\ LastWhole' /\ RetainedWhole'
<1>1. points' = points /\ hourly' = hourly
    BY DEF points, hourly
<1>2. \A l : At(l)' = At(l)
    BY <1>1 DEF At
<1>3. Newest' /\ LastWhole'
    BY <1>1 DEF IInv, Newest, LastWhole
<1>4. RetainedWhole'
    <2>1. SUFFICES ASSUME NEW r \in hourly \ pruned', store[<<0, r>>].whole # Sources
                   PROVE  ~(Cardinality({q \in hourly \cup pruned' : q > r}) < Keep[0])
        BY <1>1 DEF RetainedWhole, Retained
    <2>2. ~(Cardinality({q \in hourly \cup pruned : q > r}) < Keep[0])
        BY <2>1 DEF IInv, RetainedWhole, Retained
    <2>3. /\ Above(hourly, pruned, r) = {q \in hourly \cup pruned : q > r}
          /\ Above(hourly, pruned', r) = {q \in hourly \cup pruned' : q > r}
        BY DEF Above
    <2>4. /\ hourly \in SUBSET Runs /\ pruned \in SUBSET Runs /\ pruned' \in SUBSET Runs
          /\ Keep[0] \in Nat
        BY HourlyCount, NamesAre, KeepAssumption DEF IInv, TypeOK
    <2>5. /\ Cardinality(Above(hourly, pruned, r)) \in Nat
          /\ Cardinality(Above(hourly, pruned', r)) \in Nat
        <3>1. Above(hourly, pruned, r) \in SUBSET Runs /\ Above(hourly, pruned', r) \in SUBSET Runs
            BY <2>4 DEF Above
        <3>2. QED
            BY <3>1, Finite
    <2>6. Above(hourly, pruned, r) \subseteq Above(hourly, pruned', r)
        BY DEF Above
    <2>7. Cardinality(Above(hourly, pruned, r)) >= Keep[0]
        BY <2>2, <2>3, <2>4, <2>5
    <2>8. Cardinality(Above(hourly, pruned', r)) >= Keep[0]
        BY <2>4, <2>6, <2>7, AboveGrows
    <2>9. QED
        BY <2>3, <2>4, <2>5, <2>8
<1>5. QED
    BY <1>1, <1>2, <1>3, <1>4

\* A process starts or ends.
LEMMA ProcessSteps ==
    ASSUME IInv, ServeTarget \/ Exit
    PROVE  IInv'
<1>1. TypeOK
    BY DEF IInv
<1>2. CASE ServeTarget
    <2>1. TypeOK'
        BY <1>1, <1>2, BoundsAssumption DEF ServeTarget, TypeOK, volume, NoRun, Runs, Pcs
    <2>2. points' = points /\ hourly' = hourly /\ \A l : At(l)' = At(l)
        BY <1>2 DEF ServeTarget, volume, points, hourly, At
    <2>3. last' = last + 1 /\ last' \in Runs /\ last' \in Nat /\ last \in Nat
        BY <1>1, <1>2, BoundsAssumption DEF ServeTarget, TypeOK, NoRun, Runs
    <2>4. Newest'
        <3>1. SUFFICES ASSUME NEW n \in points
                       PROVE  last' # NoRun /\ n[2] <= Bucket[n[1]][last']
            BY <2>2 DEF Newest
        <3>2. last # NoRun /\ n[2] <= Bucket[n[1]][last] /\ last \in Runs
            BY <1>1 DEF IInv, Newest, TypeOK
        <3>3. n[1] \in Levels /\ n[2] \in Runs
            BY NamesAre DEF points
        <3>4. Bucket[n[1]][last] <= Bucket[n[1]][last']
            BY <2>3, <3>2, <3>3, BucketAssumption
        <3>5. /\ Bucket[n[1]][last] \in Runs /\ Bucket[n[1]][last'] \in Runs
            BY <2>3, <3>2, <3>3, BucketAssumption
        <3>6. QED
            BY <2>3, <3>2, <3>3, <3>4, <3>5, NamesAre DEF NoRun
    <2>5. last' \notin hourly
        <3>1. SUFFICES ASSUME last' \in hourly PROVE FALSE
            OBVIOUS
        <3>2. <<0, last'>> \in points
            BY <1>1, <3>1, HourlyCount
        <3>3. last # NoRun /\ last' <= Bucket[0][last]
            BY <2>3, <3>2, NamesAre DEF IInv, Newest
        <3>4. last \in Runs /\ Bucket[0][last] = last
            BY <1>1, <3>3, BucketAssumption DEF TypeOK
        <3>5. QED
            BY <2>3, <3>3, <3>4
    <2>6. Sent'
        <3>1. \A s \in Sources : sender'[s] # "succeeded"
            BY <1>2 DEF ServeTarget
        <3>2. pc' = "serving"
            BY <1>2 DEF ServeTarget
        <3>3. QED
            BY <3>1, <3>2 DEF Sent, Finalizes, Promoted
    <2>7. LastWhole' /\ Victims' /\ Progress'
        BY <1>2, <2>2, <2>5 DEF ServeTarget, LastWhole, Victims, Progress, Promoted
    <2>8. RetainedWhole'
        BY <1>2, <2>2 DEF ServeTarget, volume, IInv, RetainedWhole, Retained
    <2>9. QED
        BY <2>1, <2>4, <2>6, <2>7, <2>8 DEF IInv
<1>3. CASE Exit
    <2>1. TypeOK'
        BY <1>1, <1>3, BoundsAssumption DEF Exit, TypeOK, volume, transfer, NoRun, Pcs, Levels
    <2>2. /\ UNCHANGED <<store, partial, last, pruned>> /\ pc' = "idle"
          /\ UNCHANGED <<sender, recovered, conn, completed>>
        BY <1>3 DEF Exit, volume, transfer
    <2>3. Newest' /\ LastWhole' /\ RetainedWhole'
        BY <1>1, <2>2, StoreStays DEF TypeOK, TakesTransfers
    <2>4. Sent'
        BY <2>2 DEF IInv, Sent, TakesTransfers, Finalizes, Promoted
    <2>5. Victims' /\ Progress'
        BY <2>2 DEF Victims, Progress, Promoted
    <2>6. QED
        BY <2>1, <2>3, <2>4, <2>5 DEF IInv
<1>4. QED
    BY <1>2, <1>3

\* A source Job or the receiver makes a step.
LEMMA TransferSteps ==
    ASSUME IInv, NEW s \in Sources,
           Accept(s) \/ Refused(s) \/ SenderExits(s) \/ ReceiverReturns(s)
    PROVE  IInv'
<1>1. TypeOK /\ run # NoRun /\ run = last /\ run \in Runs /\ Staging(run) \in 0..(2 * MaxRuns + 1)
    <2>1. TypeOK /\ run # NoRun
        BY DEF IInv, Accept, Refused, SenderExits, ReceiverReturns, listening
    <2>2. QED
        BY <2>1, RunIs
<1>2. UNCHANGED <<store, latest, last, run, stops, pc, level, victim, pruned>>
    BY DEF Accept, Refused, SenderExits, ReceiverReturns, volume, process
<1>3. /\ points' = points /\ hourly' = hourly /\ \A l : At(l)' = At(l)
      /\ Newest' /\ LastWhole' /\ RetainedWhole'
    BY <1>1, <1>2, StoreStays DEF TypeOK
<1>4. Victims' /\ Progress'
    <2>1. Victims'
        BY <1>2, <1>3 DEF IInv, Victims
    <2>2. tier' = tier
        BY <1>2 DEF tier
    <2>3. Progress'
        BY <1>2, <1>3, <2>2 DEF IInv, Progress
    <2>4. QED
        BY <2>1, <2>3
<1>5. CASE Accept(s)
    <2> DEFINE v == [exists |-> TRUE, dirs |-> partial[run].dirs \cup {s},
                     whole |-> partial[run].whole \ {s}, time |-> Staging(run)]
    <2>1. partial[run] \in Tree
        BY <1>1 DEF TypeOK
    <2>2. v \in Tree /\ v.whole = partial[run].whole \ {s}
        BY <1>1, <2>1 DEF Tree
    <2>3. partial' = [partial EXCEPT ![run] = v]
        BY <1>5 DEF Accept
    <2> HIDE DEF v
    <2>4. /\ sender' = [sender EXCEPT ![s] = "sending"] /\ conn' = {s}
          /\ UNCHANGED <<recovered, completed>> /\ completed # Sources
        BY <1>5 DEF Accept, listening
    <2>5. TypeOK'
        BY <1>1, <1>2, <2>2, <2>3, <2>4 DEF TypeOK
    <2>6. pc \in TakesTransfers
        BY <1>1, <2>4 DEF IInv, Sent, TypeOK, Pcs, TakesTransfers, Finalizes, Promoted
    <2>7. /\ partial'[last].whole = partial[last].whole \ {s} /\ sender'[s] = "sending"
          /\ \A t \in Sources : t # s => sender'[t] = sender[t]
        BY <1>1, <2>2, <2>3, <2>4 DEF TypeOK
    <2>8. Sent'
        BY <1>2, <2>6, <2>7 DEF IInv, Sent, TakesTransfers, Finalizes, Promoted
    <2>9. QED
        BY <1>3, <1>4, <2>5, <2>8 DEF IInv
<1>6. CASE Refused(s)
    <2>1. PICK failure \in {"failed", "outOfSpace"} : sender' = [sender EXCEPT ![s] = failure]
        BY <1>6 DEF Refused, Failures
    <2>2. UNCHANGED <<partial, recovered, conn, completed>> /\ sender[s] = "ready"
        BY <1>6 DEF Refused, volume
    <2>3. TypeOK'
        BY <1>1, <1>2, <2>1, <2>2 DEF TypeOK
    <2>4. /\ sender'[s] # "succeeded" /\ \A t \in Sources : t # s => sender'[t] = sender[t]
        BY <1>1, <2>1 DEF TypeOK
    <2>5. Sent'
        BY <1>2, <2>2, <2>4 DEF IInv, Sent, AllSourcesSucceeded
    <2>6. QED
        BY <1>3, <1>4, <2>3, <2>5 DEF IInv
<1>7. CASE SenderExits(s)
    <2>1. UNCHANGED <<recovered, conn, completed>> /\ sender[s] = "sending"
        BY <1>7 DEF SenderExits
    <2>2. pc \in TakesTransfers
        BY <1>1, <2>1 DEF IInv, Sent, AllSourcesSucceeded, TypeOK, Pcs, TakesTransfers, Finalizes, Promoted
    <2>3. CASE /\ sender' = [sender EXCEPT ![s] = "succeeded"]
               /\ partial' = [partial EXCEPT ![run].whole = @ \cup {s}]
        <3>1. partial[run] \in Tree
            BY <1>1 DEF TypeOK
        <3>2. /\ partial'[last].whole = partial[last].whole \cup {s}
              /\ partial'[run] = [partial[run] EXCEPT !.whole = @ \cup {s}]
            BY <1>1, <2>3, <3>1 DEF TypeOK, Tree
        <3>3. partial'[run] \in Tree
            BY <3>1, <3>2 DEF Tree
        <3>4. partial' = [partial EXCEPT ![run] = partial'[run]]
            BY <1>1, <2>3 DEF TypeOK
        <3>5. TypeOK'
            BY <1>1, <1>2, <2>1, <2>3, <3>3, <3>4 DEF TypeOK
        <3>6. \A t \in Sources : t # s => sender'[t] = sender[t]
            BY <1>1, <2>3 DEF TypeOK
        <3>7. Sent'
            BY <1>2, <2>2, <3>2, <3>6 DEF IInv, Sent, TakesTransfers, Finalizes, Promoted
        <3>8. QED
            BY <1>3, <1>4, <3>5, <3>7 DEF IInv
    <2>4. CASE /\ \E failure \in Failures(s) : sender' = [sender EXCEPT ![s] = failure]
               /\ UNCHANGED partial
        <3>1. PICK failure \in {"failed", "outOfSpace"} : sender' = [sender EXCEPT ![s] = failure]
            BY <2>4 DEF Failures
        <3>2. TypeOK'
            BY <1>1, <1>2, <2>1, <2>4, <3>1 DEF TypeOK
        <3>3. /\ sender'[s] # "succeeded" /\ \A t \in Sources : t # s => sender'[t] = sender[t]
            BY <1>1, <3>1 DEF TypeOK
        <3>4. Sent'
            BY <1>2, <2>2, <2>4, <3>3 DEF IInv, Sent, TakesTransfers, Finalizes, Promoted
        <3>5. QED
            BY <1>3, <1>4, <3>2, <3>4 DEF IInv
    <2>5. QED
        BY <1>7, <2>3, <2>4 DEF SenderExits
<1>8. CASE ReceiverReturns(s)
    <2>1. /\ UNCHANGED <<partial, sender, recovered>> /\ conn' = {}
          /\ completed' \in {completed, completed \cup {s}}
        BY <1>8 DEF ReceiverReturns, volume
    <2>2. TypeOK'
        BY <1>1, <1>2, <2>1 DEF TypeOK
    <2>3. completed = Sources => completed' = Sources
        BY <2>1
    <2>4. Sent'
        BY <1>2, <2>1, <2>3 DEF IInv, Sent, AllSourcesSucceeded
    <2>5. QED
        BY <1>3, <1>4, <2>2, <2>4 DEF IInv
<1>9. QED
    BY <1>5, <1>6, <1>7, <1>8

\* RecoverSpace is commanded, chooses a restore point, or is done.
LEMMA RecoverSteps ==
    ASSUME IInv, RecoverSpace \/ RecoverNext \/ \E s \in Sources : Recovered(s)
    PROVE  IInv'
<1>1. /\ TypeOK /\ pc \in {"serving", "recover"} /\ pc' \in {"serving", "recover", "recoverPrune"}
      /\ UNCHANGED <<store, partial, latest, last, run, stops, level, conn, completed>>
    BY DEF IInv, RecoverSpace, RecoverNext, Recovered, volume, process, transfer
<1>2. PICK n \in Names \cup {NoName} :
         /\ victim' = n
         /\ pc' = "recoverPrune" => n \in points
         /\ pruned' = IF pc' = "recoverPrune" /\ n[1] = 0 THEN pruned \cup {n[2]} ELSE pruned
    BY <1>1 DEF RecoverSpace, RecoverNext, Recovered, removable, points, TypeOK
<1>3. pruned \subseteq pruned' /\ pruned' \subseteq Runs
    <2>1. pruned \subseteq Runs
        BY <1>1 DEF TypeOK
    <2>2. pc' = "recoverPrune" => n[2] \in Runs
        BY <1>2, NamesAre DEF points
    <2>3. QED
        BY <1>2, <2>1, <2>2
<1>4. /\ points' = points /\ hourly' = hourly /\ \A l : At(l)' = At(l)
      /\ Newest' /\ LastWhole' /\ RetainedWhole'
    BY <1>1, <1>3, StoreStays DEF TakesTransfers
<1>5. /\ sender' \in [Sources -> {"ready", "sending", "succeeded", "failed", "outOfSpace"}]
      /\ recovered' \subseteq Sources
      /\ \A t \in Sources : sender'[t] = "succeeded" => sender[t] = "succeeded"
    BY <1>1 DEF RecoverSpace, RecoverNext, Recovered, transfer, TypeOK
<1>6. TypeOK'
    <2>1. pc' \in Pcs /\ pc' # "idle" /\ run # NoRun
        BY <1>1 DEF TypeOK, Pcs
    <2>2. QED
        BY <1>1, <1>2, <1>3, <1>5, <2>1 DEF TypeOK
<1>7. Sent'
    BY <1>1, <1>5 DEF IInv, Sent, TakesTransfers, Finalizes, Promoted
<1>8. Victims' /\ Progress'
    BY <1>1, <1>2, <1>4 DEF Victims, Progress, Promoted
<1>9. QED
    BY <1>4, <1>6, <1>7, <1>8 DEF IInv

\* Finalization starts, at first or again.
LEMMA FinalizeSteps ==
    ASSUME IInv, FinalizeCommand \/ FinalizeAgain
    PROVE  IInv'
<1>1. /\ TypeOK /\ pc \in {"serving", "idle"} /\ pc' = "finalize"
      /\ UNCHANGED <<store, partial, latest, last, stops, level, victim, pruned>>
      /\ UNCHANGED <<sender, recovered, conn, completed>>
      /\ run' = last /\ last # NoRun
      /\ AllSourcesSucceeded /\ completed = Sources
    BY DEF IInv, TypeOK, FinalizeCommand, FinalizeAgain, volume, process, transfer, listening
<1>2. Newest' /\ LastWhole' /\ RetainedWhole'
    BY <1>1, StoreStays DEF TypeOK, TakesTransfers
<1>3. TypeOK'
    BY <1>1 DEF TypeOK, Pcs
<1>4. Sent'
    BY <1>1 DEF IInv, Sent, TakesTransfers, AllSourcesSucceeded
<1>5. Victims' /\ Progress'
    BY <1>1 DEF Victims, Progress, Promoted
<1>6. QED
    BY <1>2, <1>3, <1>4, <1>5 DEF IInv

\* The symlink is replaced or removed, retention goes on to the next level or chooses a
\* directory.
LEMMA PointerSteps ==
    ASSUME IInv, RemoveLatest \/ RenameLatest \/ Retain \/ CleanupDanglingLatest
    PROVE  IInv'
<1>1. TypeOK /\ pc \in {"unlink", "relink", "retain"}
    BY DEF IInv, RemoveLatest, RenameLatest, Retain, CleanupDanglingLatest
<1>2. /\ UNCHANGED <<store, partial, last, run, stops, pruned>>
      /\ UNCHANGED <<sender, recovered, conn, completed>>
      /\ pc' \in {"relink", "tiers", "retain", "retainPrune", "done"}
    BY <1>1 DEF RemoveLatest, RenameLatest, Retain, CleanupDanglingLatest, volume, process, transfer
<1>3. run # NoRun /\ run = last /\ run \in Runs /\ run \in hourly /\ Bucket[0][run] = run
    <2>1. run # NoRun
        BY <1>1 DEF TypeOK
    <2>2. run \in hourly
        BY <1>1 DEF IInv, Progress, Promoted
    <2>3. QED
        BY <1>1, <2>1, <2>2, RunIs
<1>4. /\ points' = points /\ hourly' = hourly /\ \A l : At(l)' = At(l)
      /\ Newest' /\ LastWhole' /\ RetainedWhole'
    BY <1>1, <1>2, StoreStays DEF TypeOK, TakesTransfers
<1>5. Sent'
    BY <1>1, <1>2 DEF IInv, Sent, TakesTransfers, Finalizes, Promoted, AllSourcesSucceeded
<1>6. CASE RemoveLatest
    <2>1. pc' = "relink" /\ latest' = NoRun /\ UNCHANGED <<level, victim>>
        BY <1>6 DEF RemoveLatest
    <2>2. TypeOK'
        BY <1>1, <1>2, <1>3, <2>1 DEF TypeOK, Pcs
    <2>3. Victims' /\ Progress'
        BY <1>2, <1>3, <1>4, <2>1 DEF Victims, Progress, Promoted
    <2>4. QED
        BY <1>4, <1>5, <2>2, <2>3 DEF IInv
<1>7. CASE RenameLatest
    <2>1. pc' = "tiers" /\ latest' = run /\ level' = 1 /\ victim' = victim
        BY <1>7 DEF RenameLatest
    <2>2. TypeOK'
        BY <1>1, <1>2, <1>3, <2>1, NamesAre DEF TypeOK, Pcs
    <2>3. \A l \in Levels : l < 1 => <<l, Bucket[l][run]>> \in points
        BY <1>1, <1>3, HourlyCount, NamesAre
    <2>4. Victims' /\ Progress'
        BY <1>2, <1>3, <1>4, <2>1, <2>3 DEF Victims, Progress, Promoted
    <2>5. QED
        BY <1>4, <1>5, <2>2, <2>4 DEF IInv
<1>8. CASE Retain
    <2>1. /\ pc = "retain" /\ level \in Levels /\ latest' = latest /\ latest = run
          /\ \A l \in Levels : <<l, Bucket[l][run]>> \in points
          /\ \A l \in Levels : l < level => Cardinality(At(l)) <= Keep[l]
        BY <1>8 DEF Retain, volume, IInv, Progress, Promoted
    <2>2. At(level) \in SUBSET Names /\ Cardinality(At(level)) \in Nat /\ Keep[level] \in Nat \ {0}
        <3>1. At(level) \in SUBSET Names
            BY DEF At, points
        <3>2. QED
            BY <2>1, <3>1, Finite, KeepAssumption
    <2>3. CASE Cardinality(At(level)) > Keep[level]
        <3>1. victim' = FirstByName(At(level)) /\ pc' = "retainPrune" /\ level' = level
            BY <1>8, <2>3 DEF Retain, ExceedsKeep, At
        <3>2. At(level) # {}
            BY <2>2, <2>3, FS_EmptySet
        <3>3. victim' \in At(level) /\ \A m \in At(level) : victim'[2] <= m[2]
            BY <2>2, <3>1, <3>2, FirstIs
        <3>4. TypeOK'
            BY <1>1, <1>2, <1>3, <2>1, <2>2, <3>1, <3>3 DEF TypeOK, Pcs
        <3>5. Victims'
            BY <1>4, <2>1, <2>3, <3>1, <3>3 DEF Victims
        <3>6. Progress'
            BY <1>2, <1>3, <1>4, <2>1, <3>1 DEF Progress, Promoted
        <3>7. QED
            BY <1>4, <1>5, <3>4, <3>5, <3>6 DEF IInv
    <2>4. CASE ~(Cardinality(At(level)) > Keep[level])
        <3>1. victim' = victim /\ pc' = "retain" /\ level' = level + 1
            BY <1>8, <2>1, <2>4 DEF Retain, ExceedsKeep, At
        <3>2. level + 1 \in Levels \cup {4} /\ Cardinality(At(level)) <= Keep[level]
            BY <2>1, <2>2, <2>4, NamesAre
        <3>3. TypeOK'
            BY <1>1, <1>2, <1>3, <2>1, <3>1, <3>2 DEF TypeOK, Pcs
        <3>4. \A l \in Levels : l < level + 1 => l < level \/ l = level
            BY <2>1, NamesAre
        <3>5. Victims' /\ Progress'
            BY <1>2, <1>3, <1>4, <2>1, <3>1, <3>2, <3>4 DEF Victims, Progress, Promoted
        <3>6. QED
            BY <1>4, <1>5, <3>3, <3>5 DEF IInv
    <2>5. QED
        BY <2>3, <2>4
<1>9. CASE CleanupDanglingLatest
    <2>1. /\ pc = "retain" /\ level \notin Levels /\ pc' = "done" /\ UNCHANGED <<level, victim>>
          /\ latest = run
          /\ \A l \in Levels : <<l, Bucket[l][run]>> \in points
          /\ \A l \in Levels : l < level => Cardinality(At(l)) <= Keep[l]
        BY <1>9 DEF CleanupDanglingLatest, IInv, Progress, Promoted
    <2>2. latest' = latest
        BY <1>3, <1>9, <2>1 DEF CleanupDanglingLatest, hourly
    <2>3. \A l \in Levels : l < level
        BY <1>1, <2>1, NamesAre DEF TypeOK
    <2>4. TypeOK'
        BY <1>1, <1>2, <1>3, <2>1, <2>2 DEF TypeOK, Pcs
    <2>5. Victims' /\ Progress'
        BY <1>2, <1>3, <1>4, <2>1, <2>2, <2>3 DEF Victims, Progress, Promoted
    <2>6. QED
        BY <1>4, <1>5, <2>4, <2>5 DEF IInv
<1>10. QED
    BY <1>6, <1>7, <1>8, <1>9

-----------------------------------------------------------------------------
(* Steps that change a restore point                                       *)

\* Directory n becomes v.
LEMMA StoreChanges ==
    ASSUME TypeOK, NEW n \in Names, NEW v \in Tree, v.whole \subseteq v.dirs,
           ~v.exists => v.dirs = {}, store' = [store EXCEPT ![n] = v]
    PROVE  /\ store' \in [Names -> Tree]
           /\ \A m \in Names : store'[m].whole \subseteq store'[m].dirs
           /\ \A m \in Names : ~store'[m].exists => store'[m].dirs = {}
           /\ store'[n] = v /\ \A m \in Names : m # n => store'[m] = store[m]
           /\ v.exists => points' = points \cup {n}
           /\ ~v.exists => points' = points \ {n}
<1>1. store'[n] = v /\ \A m \in Names : m # n => store'[m] = store[m]
    BY DEF TypeOK
<1>2. store' \in [Names -> Tree]
    BY DEF TypeOK
<1>3. \A m \in Names : store'[m].whole \subseteq store'[m].dirs
    BY <1>1 DEF TypeOK
<1>4. \A m \in Names : ~store'[m].exists => store'[m].dirs = {}
    BY <1>1 DEF TypeOK
<1>5. \A m : m \in points' <=> m \in Names /\ store'[m].exists
    BY DEF points
<1>6. \A m : m \in points <=> m \in Names /\ store[m].exists
    BY DEF points
<1>7. v.exists => points' = points \cup {n}
    BY <1>1, <1>5, <1>6
<1>8. ~v.exists => points' = points \ {n}
    BY <1>1, <1>5, <1>6
<1>9. QED
    BY <1>1, <1>2, <1>3, <1>4, <1>7, <1>8

\* The retained hourly restore points, seen from each of them.
LEMMA RetainedChanges ==
    ASSUME IInv, TypeOK', pruned' = pruned,
           \A r \in hourly' \ pruned :
              \/ store'[<<0, r>>].whole = Sources
              \/ /\ r \in hourly /\ store'[<<0, r>>].whole = store[<<0, r>>].whole
                 /\ Above(hourly, pruned, r) \subseteq Above(hourly', pruned, r)
              \/ Cardinality(Above(hourly', pruned, r)) >= Keep[0]
    PROVE  RetainedWhole'
<1>1. SUFFICES ASSUME NEW r \in hourly' \ pruned, store'[<<0, r>>].whole # Sources
               PROVE  ~(Cardinality({q \in hourly' \cup pruned : q > r}) < Keep[0])
    BY DEF RetainedWhole, Retained
<1>2. /\ hourly \in SUBSET Runs /\ hourly' \in SUBSET Runs /\ pruned \in SUBSET Runs
      /\ Keep[0] \in Nat
    BY NamesAre, KeepAssumption DEF IInv, TypeOK, hourly
<1>3. /\ Above(hourly, pruned, r) = {q \in hourly \cup pruned : q > r}
      /\ Above(hourly', pruned, r) = {q \in hourly' \cup pruned : q > r}
    BY DEF Above
<1>4. Above(hourly, pruned, r) \in SUBSET Runs /\ Above(hourly', pruned, r) \in SUBSET Runs
    BY <1>2 DEF Above
<1>5. /\ Cardinality(Above(hourly, pruned, r)) \in Nat
      /\ Cardinality(Above(hourly', pruned, r)) \in Nat
    BY <1>4, Finite
<1>6. CASE /\ r \in hourly /\ store'[<<0, r>>].whole = store[<<0, r>>].whole
           /\ Above(hourly, pruned, r) \subseteq Above(hourly', pruned, r)
    <2>1. ~(Cardinality(Above(hourly, pruned, r)) < Keep[0])
        BY <1>1, <1>3, <1>6 DEF IInv, RetainedWhole, Retained
    <2>2. Cardinality(Above(hourly, pruned, r)) >= Keep[0]
        BY <1>2, <1>5, <2>1
    <2>3. Cardinality(Above(hourly', pruned, r)) >= Keep[0]
        BY <1>2, <1>6, <2>2, AboveGrows
    <2>4. QED
        BY <1>2, <1>3, <1>5, <2>3
<1>7. CASE Cardinality(Above(hourly', pruned, r)) >= Keep[0]
    BY <1>2, <1>3, <1>5, <1>7
<1>8. QED
    BY <1>1, <1>6, <1>7

\* A step of os.RemoveAll.
LEMMA RemoveAllDoes ==
    ASSUME TypeOK, victim \in points, NEW time \in 0..(2 * MaxRuns + 1),
           NEW next \in {"recover", "retain"}, RemoveAll(next, time),
           pc \in {"recoverPrune", "retainPrune"}
    PROVE  /\ TypeOK'
           /\ UNCHANGED <<partial, latest, last, run, stops, level, pruned>>
           /\ UNCHANGED <<sender, recovered, conn, completed>>
           /\ \A m \in Names : m # victim => store'[m] = store[m]
           /\ \/ points' = points /\ pc' = pc /\ victim' = victim
              \/ points' = points \ {victim} /\ pc' = next
<1>1. /\ UNCHANGED <<partial, latest, last, run, stops, level, pruned>>
      /\ UNCHANGED <<sender, recovered, conn, completed>>
    BY DEF RemoveAll, process, transfer
<1>2. victim \in Names /\ store[victim].exists /\ store[victim] \in Tree
    BY DEF points, TypeOK
<1>3. store[victim].whole \subseteq store[victim].dirs
    BY <1>2 DEF TypeOK
<1>4. run # NoRun
    BY DEF TypeOK
<1>5. CASE store[victim].dirs # {}
    <2>1. PICK s \in store[victim].dirs :
             store' = [store EXCEPT ![victim].dirs = @ \ {s}, ![victim].whole = @ \ {s},
                                    ![victim].time = time]
        BY <1>5 DEF RemoveAll
    <2> DEFINE v == [exists |-> TRUE, dirs |-> store[victim].dirs \ {s},
                     whole |-> store[victim].whole \ {s}, time |-> time]
    <2>2. v \in Tree /\ v.whole \subseteq v.dirs /\ v.exists
        BY <1>2, <1>3 DEF Tree
    <2>3. store' = [store EXCEPT ![victim] = v]
        <3>1. store'[victim] = v
            BY <1>2, <2>1 DEF TypeOK, Tree
        <3>2. /\ DOMAIN store' = Names /\ DOMAIN store = Names
              /\ \A m \in Names : m # victim => store'[m] = store[m]
            BY <1>2, <2>1 DEF TypeOK
        <3> HIDE DEF v
        <3>3. store' = [m \in Names |-> store'[m]]
            BY <2>1, <3>2
        <3>4. QED
            BY <1>2, <3>1, <3>2, <3>3
    <2> HIDE DEF v
    <2>4. /\ store' \in [Names -> Tree]
          /\ \A m \in Names : store'[m].whole \subseteq store'[m].dirs
          /\ \A m \in Names : ~store'[m].exists => store'[m].dirs = {}
          /\ \A m \in Names : m # victim => store'[m] = store[m]
          /\ points' = points \cup {victim}
        BY <1>2, <2>2, <2>3, StoreChanges
    <2>5. pc' = pc /\ victim' = victim
        BY <1>5 DEF RemoveAll
    <2>6. TypeOK'
        BY <1>1, <2>4, <2>5 DEF TypeOK
    <2>7. QED
        BY <1>1, <2>4, <2>5, <2>6
<1>6. CASE store[victim].dirs = {}
    <2>1. store' = [store EXCEPT ![victim] = NoTree] /\ pc' = next /\ victim' = NoName
        BY <1>6 DEF RemoveAll
    <2>2. NoTree \in Tree /\ NoTree.whole \subseteq NoTree.dirs /\ ~NoTree.exists /\ NoTree.dirs = {}
        BY BoundsAssumption DEF NoTree, Tree
    <2>3. /\ store' \in [Names -> Tree]
          /\ \A m \in Names : store'[m].whole \subseteq store'[m].dirs
          /\ \A m \in Names : ~store'[m].exists => store'[m].dirs = {}
          /\ \A m \in Names : m # victim => store'[m] = store[m]
          /\ points' = points \ {victim}
        BY <1>2, <2>1, <2>2, StoreChanges
    <2>4. pc' \in Pcs /\ pc' # "idle"
        BY <2>1 DEF Pcs
    <2>5. TypeOK'
        BY <1>1, <1>4, <2>1, <2>3, <2>4 DEF TypeOK
    <2>6. QED
        BY <1>1, <2>1, <2>3, <2>5
<1>7. QED
    BY <1>5, <1>6

\* RecoverSpace removes a restore point.
LEMMA RecoverPrunes ==
    ASSUME IInv, RecoverPrune
    PROVE  IInv'
<1>1. /\ TypeOK /\ pc = "recoverPrune" /\ victim \in points
      /\ victim[1] = 0 => victim[2] \in pruned
      /\ RemoveAll("recover", Staging(run)) /\ run # NoRun
    BY DEF IInv, RecoverPrune, Victims, TypeOK
<1>2. /\ TypeOK'
      /\ UNCHANGED <<partial, latest, last, run, stops, level, pruned>>
      /\ UNCHANGED <<sender, recovered, conn, completed>>
      /\ \A m \in Names : m # victim => store'[m] = store[m]
      /\ \/ points' = points /\ pc' = pc /\ victim' = victim
         \/ points' = points \ {victim} /\ pc' = "recover"
    BY <1>1, RunIs, RemoveAllDoes
<1>3. \A r \in Runs : /\ r \in hourly <=> <<0, r>> \in points
                      /\ r \in hourly' <=> <<0, r>> \in points'
    BY NamesAre DEF hourly, points
<1>4. /\ hourly' \subseteq hourly /\ hourly \subseteq hourly' \cup pruned
      /\ hourly \subseteq Runs /\ hourly' \subseteq Runs
    <2>1. hourly \subseteq Runs /\ hourly' \subseteq Runs
        BY DEF hourly
    <2>2. \A r \in Runs : <<0, r>> = victim => r \in pruned
        BY <1>1, NamesAre
    <2>3. QED
        BY <1>2, <1>3, <2>1, <2>2
<1>5. RetainedWhole'
    <2>1. ASSUME NEW r \in hourly' \ pruned
          PROVE  /\ r \in hourly /\ store'[<<0, r>>].whole = store[<<0, r>>].whole
                 /\ Above(hourly, pruned, r) \subseteq Above(hourly', pruned, r)
        <3>1. r \in hourly /\ r \in Runs /\ <<0, r>> # victim
            BY <1>1, <1>4, <2>1, NamesAre
        <3>2. store'[<<0, r>>] = store[<<0, r>>]
            BY <1>2, <3>1, NamesAre
        <3>3. QED
            BY <1>4, <3>1, <3>2 DEF Above
    <2>2. QED
        BY <1>2, <2>1, RetainedChanges
<1>6. Newest'
    BY <1>2 DEF IInv, Newest
<1>7. LastWhole'
    BY <1>1, <1>2, <1>4 DEF IInv, LastWhole, TakesTransfers
<1>8. Sent'
    BY <1>1, <1>2 DEF IInv, Sent, TakesTransfers, Finalizes, Promoted
<1>9. Victims' /\ Progress'
    BY <1>1, <1>2 DEF Victims, Progress, Promoted
<1>10. QED
    BY <1>2, <1>5, <1>6, <1>7, <1>8, <1>9 DEF IInv

\* The first name of a level with more than it keeps is not the run's own.
LEMMA RunsOwnStays ==
    ASSUME IInv, pc = "retainPrune"
    PROVE  <<level, Bucket[level][run]>> # victim
<1>1. /\ TypeOK /\ level \in Levels /\ victim \in At(level) /\ \A m \in At(level) : victim[2] <= m[2]
      /\ Cardinality(At(level)) > Keep[level] /\ run # NoRun
    BY DEF IInv, Victims, TypeOK
<1>2. SUFFICES ASSUME <<level, Bucket[level][run]>> = victim
               PROVE  FALSE
    OBVIOUS
<1>3. run = last /\ victim[2] = Bucket[level][last]
    BY <1>1, <1>2, RunIs, NamesAre
<1>4. \A m \in At(level) : m = victim
    <2>1. SUFFICES ASSUME NEW m \in At(level)
                   PROVE  m = victim
        OBVIOUS
    <2>2. m \in points /\ m[1] = level /\ m \in Names /\ victim \in Names /\ victim[1] = level
        BY <1>1 DEF At, points
    <2>3. m[2] <= victim[2] /\ victim[2] <= m[2]
        BY <1>1, <1>3, <2>2 DEF IInv, Newest
    <2>4. m[2] = victim[2]
        BY <2>2, <2>3, NamesAre
    <2>5. QED
        BY <2>2, <2>4, NamesAre
<1>5. At(level) = {victim}
    BY <1>1, <1>4
<1>6. Cardinality(At(level)) = 1 /\ Keep[level] \in Nat \ {0}
    BY <1>1, <1>5, FS_Singleton, KeepAssumption
<1>7. QED
    BY <1>1, <1>6

\* Retention removes a restore point.
LEMMA RetainPrunes ==
    ASSUME IInv, RetainPrune
    PROVE  IInv'
<1>1. /\ TypeOK /\ pc = "retainPrune" /\ RemoveAll("retain", Finalizing(run)) /\ run # NoRun
      /\ level \in Levels /\ victim \in At(level) /\ \A m \in At(level) : victim[2] <= m[2]
      /\ Cardinality(At(level)) > Keep[level]
    BY DEF IInv, RetainPrune, Victims, TypeOK
<1>2. /\ victim \in points /\ victim[1] = level /\ victim \in Names /\ victim[2] \in Runs
      /\ victim = <<level, victim[2]>>
    BY <1>1, NamesAre DEF At, points
<1>3. /\ TypeOK'
      /\ UNCHANGED <<partial, latest, last, run, stops, level, pruned>>
      /\ UNCHANGED <<sender, recovered, conn, completed>>
      /\ \A m \in Names : m # victim => store'[m] = store[m]
      /\ \/ points' = points /\ pc' = pc /\ victim' = victim
         \/ points' = points \ {victim} /\ pc' = "retain"
    BY <1>1, <1>2, RunIs, RemoveAllDoes
<1>4. /\ run = last /\ run \in Runs /\ Bucket[0][run] = run
      /\ \A l \in Levels : <<l, Bucket[l][run]>> # victim /\ <<l, Bucket[l][run]>> \in points
    <2>1. run = last /\ run \in Runs /\ Bucket[0][run] = run
        BY <1>1, RunIs
    <2>2. \A l \in Levels : <<l, Bucket[l][run]>> \in points
        BY <1>1 DEF IInv, Progress
    <2>3. \A l \in Levels : l # level => <<l, Bucket[l][run]>> # victim
        BY <1>1, <1>2, RunIs, NamesAre
    <2>4. QED
        BY <1>1, <2>1, <2>2, <2>3, RunsOwnStays
<1>5. \A r \in Runs : /\ r \in hourly <=> <<0, r>> \in points
                      /\ r \in hourly' <=> <<0, r>> \in points'
    BY NamesAre DEF hourly, points
<1>6. /\ hourly \in SUBSET Runs /\ hourly' \in SUBSET Runs /\ hourly' \subseteq hourly
      /\ last \in hourly'
    <2>1. hourly \in SUBSET Runs /\ hourly' \in SUBSET Runs
        BY DEF hourly
    <2>2. hourly' \subseteq hourly
        BY <1>3, <1>5, <2>1
    <2>3. <<0, last>> \in points'
        BY <1>3, <1>4, NamesAre
    <2>4. QED
        BY <1>4, <1>5, <2>1, <2>2, <2>3
<1>7. RetainedWhole'
    <2>1. ASSUME NEW r \in hourly' \ pruned, <<0, r>> # victim
          PROVE  /\ r \in hourly /\ store'[<<0, r>>].whole = store[<<0, r>>].whole
                 /\ Above(hourly, pruned, r) \subseteq Above(hourly', pruned, r)
        <3>1. r \in hourly /\ r \in Runs /\ <<0, r>> \in points
            BY <1>5, <1>6, <2>1
        <3>2. store'[<<0, r>>] = store[<<0, r>>]
            BY <1>3, <2>1, <3>1, NamesAre
        <3>3. ASSUME NEW q \in hourly, q > r
              PROVE  q \in hourly'
            <4>1. <<0, q>> # victim
                <5>1. SUFFICES ASSUME <<0, q>> = victim PROVE FALSE
                    OBVIOUS
                <5>2. level = 0 /\ victim[2] = q /\ q \in Runs
                    BY <1>2, <1>6, <5>1, NamesAre
                <5>3. <<0, r>> \in At(0) /\ <<0, r>>[2] = r
                    BY <3>1, NamesAre DEF At
                <5>4. q <= r
                    BY <1>1, <5>2, <5>3
                <5>5. QED
                    BY <3>1, <3>3, <5>2, <5>4, NamesAre
            <4>2. <<0, q>> \in points'
                BY <1>3, <1>5, <1>6, <4>1
            <4>3. QED
                BY <1>5, <1>6, <4>2
        <3>4. QED
            BY <3>1, <3>2, <3>3 DEF Above
    <2>2. ASSUME NEW r \in hourly' \ pruned, <<0, r>> = victim
          PROVE  Cardinality(Above(hourly', pruned, r)) >= Keep[0]
        <3>1. /\ level = 0 /\ victim[2] = r /\ r \in Runs /\ pruned \in SUBSET Runs
            BY <1>1, <1>2, <1>6, <2>2, NamesAre DEF TypeOK
        <3>2. points' = points
            BY <1>3, <1>5, <1>6, <2>2
        <3>3. hourly' = hourly
            BY <1>5, <1>6, <3>2
        <3>4. Cardinality(hourly) > Keep[0]
            BY <1>1, <3>1, HourlyCount
        <3>5. \A q \in hourly : r <= q
            <4>1. SUFFICES ASSUME NEW q \in hourly PROVE r <= q
                OBVIOUS
            <4>2. <<0, q>> \in At(0) /\ <<0, q>>[2] = q
                BY <1>5, <1>6, NamesAre DEF At
            <4>3. QED
                BY <1>1, <3>1, <4>2
        <3>6. QED
            BY <1>6, <2>2, <3>1, <3>3, <3>4, <3>5, FirstIsOld
    <2>3. QED
        BY <1>3, <2>1, <2>2, RetainedChanges
<1>8. Newest'
    BY <1>3 DEF IInv, Newest
<1>9. LastWhole'
    <2>1. store'[<<0, last>>] = store[<<0, last>>]
        BY <1>3, <1>4, NamesAre
    <2>2. QED
        BY <1>1, <1>3, <1>6, <2>1 DEF IInv, LastWhole, TakesTransfers
<1>10. Sent'
    BY <1>1, <1>3 DEF IInv, Sent, TakesTransfers, Finalizes, Promoted, AllSourcesSucceeded
<1>11. Victims'
    <2>1. CASE points' = points /\ pc' = pc /\ victim' = victim
        <3>1. At(level)' = At(level)
            BY <1>3, <2>1 DEF At
        <3>2. QED
            BY <1>1, <1>3, <2>1, <3>1 DEF Victims
    <2>2. CASE pc' = "retain"
        BY <2>2 DEF Victims
    <2>3. QED
        BY <1>3, <2>1, <2>2
<1>12. Progress'
    <2>1. \A l \in Levels : l # level => At(l)' = At(l)
        BY <1>2, <1>3 DEF At
    <2>2. \A l \in Levels : l < level => l # level
        BY <1>1, NamesAre
    <2>3. \A l \in Levels : l < level => Cardinality(At(l)') <= Keep[l]
        BY <1>1, <2>1, <2>2 DEF IInv, Progress
    <2>4. \A l \in Levels : <<l, Bucket[l][run]>> \in points'
        BY <1>3, <1>4
    <2>5. latest = run
        BY <1>1 DEF IInv, Progress, Promoted
    <2>6. QED
        BY <1>1, <1>3, <1>4, <1>6, <2>3, <2>4, <2>5 DEF Progress, Promoted
<1>13. QED
    BY <1>3, <1>7, <1>8, <1>9, <1>10, <1>11, <1>12 DEF IInv

\* The partial directory is promoted, whole.
LEMMA Promotes ==
    ASSUME IInv, Promote
    PROVE  IInv'
<1>1. /\ TypeOK /\ pc = "finalize" /\ pc' = "unlink" /\ run # NoRun
      /\ UNCHANGED <<latest, last, run, stops, level, victim, pruned>>
      /\ UNCHANGED <<sender, recovered, conn, completed>>
    BY DEF IInv, Promote, process, transfer, TypeOK
<1>2. run = last /\ run \in Runs /\ Bucket[0][run] = run /\ <<0, run>> \in Names
    BY <1>1, RunIs
<1>3. AllSourcesSucceeded /\ completed = Sources
    BY <1>1 DEF IInv, Sent, Finalizes
<1>4. Victims'
    BY <1>1 DEF Victims
<1>5. CASE /\ Valid(partial[run]) /\ ~store[<<0, run>>].exists
           /\ store' = [store EXCEPT ![<<0, run>>] = partial[run]]
           /\ partial' = [partial EXCEPT ![run] = NoTree]
    <2> DEFINE v == partial[run]
    <2>1. v \in Tree /\ v.exists /\ v.dirs = Sources /\ v.whole = Sources
        <3>1. v \in Tree /\ v.exists /\ Sources \subseteq v.dirs
            BY <1>1, <1>2, <1>5 DEF TypeOK, Valid
        <3>2. v.dirs \subseteq Sources /\ v.whole \subseteq Sources
            BY <3>1 DEF Tree
        <3>3. \A s \in Sources : s \in v.whole
            BY <1>1, <1>2, <1>3, <3>1 DEF IInv, Sent, AllSourcesSucceeded
        <3>4. QED
            BY <3>1, <3>2, <3>3
    <2>2. store' = [store EXCEPT ![<<0, run>>] = v]
        BY <1>5
    <2> HIDE DEF v
    <2>3. /\ store' \in [Names -> Tree]
          /\ \A m \in Names : store'[m].whole \subseteq store'[m].dirs
          /\ \A m \in Names : ~store'[m].exists => store'[m].dirs = {}
          /\ store'[<<0, run>>] = v /\ \A m \in Names : m # <<0, run>> => store'[m] = store[m]
          /\ points' = points \cup {<<0, run>>}
        <3>1. PICK n \in Names : n = <<0, run>>
            BY <1>2
        <3>2. v \in Tree /\ v.exists /\ v.whole \subseteq v.dirs
            BY <2>1
        <3>3. store' = [store EXCEPT ![n] = v]
            BY <2>2, <3>1
        <3>4. /\ store' \in [Names -> Tree]
              /\ \A m \in Names : store'[m].whole \subseteq store'[m].dirs
              /\ \A m \in Names : ~store'[m].exists => store'[m].dirs = {}
              /\ store'[n] = v /\ \A m \in Names : m # n => store'[m] = store[m]
              /\ points' = points \cup {n}
            BY <1>1, <3>2, <3>3, StoreChanges
        <3>5. QED
            BY <3>1, <3>4
    <2>4. NoTree \in Tree /\ ~NoTree.exists
        BY BoundsAssumption DEF NoTree, Tree
    <2>5. partial' \in [Runs -> Tree] /\ ~partial'[last].exists
        BY <1>1, <1>2, <1>5, <2>4 DEF TypeOK
    <2>6. TypeOK'
        BY <1>1, <2>3, <2>5 DEF TypeOK, Pcs
    <2>7. Sent'
        BY <1>1, <1>3, <2>5 DEF Sent, TakesTransfers, AllSourcesSucceeded
    <2>8. Newest'
        <3>1. last # NoRun /\ <<0, run>>[1] = 0 /\ <<0, run>>[2] <= Bucket[0][last]
            BY <1>1, <1>2, NamesAre
        <3>2. QED
            BY <1>1, <2>3, <3>1 DEF IInv, Newest
    <2>9. /\ hourly' = hourly \cup {run} /\ run \in hourly'
          /\ hourly \in SUBSET Runs /\ hourly' \in SUBSET Runs
        <3>1. \A r \in Runs : /\ r \in hourly <=> <<0, r>> \in points
                              /\ r \in hourly' <=> <<0, r>> \in points'
            BY NamesAre DEF hourly, points
        <3>2. hourly \in SUBSET Runs /\ hourly' \in SUBSET Runs
            BY DEF hourly
        <3>3. \A r \in Runs : <<0, r>> = <<0, run>> <=> r = run
            OBVIOUS
        <3>4. QED
            BY <1>2, <2>3, <3>1, <3>2, <3>3
    <2>10. LastWhole'
        BY <1>1, <1>2, <2>1, <2>3 DEF LastWhole, TakesTransfers
    <2>11. Progress'
        BY <1>1, <2>9 DEF Progress, Promoted
    <2>12. RetainedWhole'
        <3>1. ASSUME NEW r \in hourly' \ pruned, r # run
              PROVE  /\ r \in hourly /\ store'[<<0, r>>].whole = store[<<0, r>>].whole
                     /\ Above(hourly, pruned, r) \subseteq Above(hourly', pruned, r)
            <4>1. r \in hourly /\ r \in Runs /\ <<0, r>> # <<0, run>>
                BY <2>9, <3>1
            <4>2. store'[<<0, r>>] = store[<<0, r>>]
                BY <2>3, <4>1, NamesAre
            <4>3. QED
                BY <2>9, <4>1, <4>2 DEF Above
        <3>2. store'[<<0, run>>].whole = Sources
            BY <2>1, <2>3
        <3>3. QED
            BY <1>1, <2>6, <3>1, <3>2, RetainedChanges
    <2>13. QED
        BY <1>4, <2>6, <2>7, <2>8, <2>10, <2>11, <2>12 DEF IInv
<1>6. CASE ~partial[run].exists /\ Valid(store[<<0, run>>]) /\ UNCHANGED <<store, partial>>
    <2>1. /\ points' = points /\ hourly' = hourly /\ \A l : At(l)' = At(l)
          /\ Newest' /\ LastWhole' /\ RetainedWhole'
        BY <1>1, <1>6, StoreStays DEF TypeOK, TakesTransfers
    <2>2. TypeOK'
        BY <1>1, <1>6 DEF TypeOK, Pcs
    <2>3. Sent'
        BY <1>1, <1>3, <1>6 DEF IInv, Sent, TakesTransfers, AllSourcesSucceeded
    <2>4. run \in hourly
        BY <1>2, <1>6 DEF Valid, hourly
    <2>5. Progress'
        BY <1>1, <2>1, <2>4 DEF Progress, Promoted
    <2>6. QED
        BY <1>4, <2>1, <2>2, <2>3, <2>5 DEF IInv
<1>7. QED
    BY <1>5, <1>6 DEF Promote

\* The directory of the run at a level other than hourly becomes v.
LEMMA TierChanges ==
    ASSUME IInv, TypeOK', run # NoRun, level \in Levels, level # 0,
           NEW n \in Names, n = <<level, Bucket[level][run]>>,
           NEW v \in Tree, v.exists, v.whole \subseteq v.dirs,
           store' = [store EXCEPT ![n] = v],
           UNCHANGED <<last, pruned>>, pc' \notin TakesTransfers
    PROVE  /\ points' = points \cup {n} /\ hourly' = hourly
           /\ Newest' /\ LastWhole' /\ RetainedWhole'
<1>1. /\ TypeOK /\ run = last /\ Bucket[level][run] \in Runs
    BY RunIs DEF IInv
<1>2. /\ \A m \in Names : m # n => store'[m] = store[m]
      /\ points' = points \cup {n}
    BY <1>1, StoreChanges
<1>3. n[1] = level /\ n[2] = Bucket[level][last] /\ n[2] \in Nat
    <2>1. n[1] = level /\ n[2] = Bucket[level][run]
        BY <1>1, NamesAre
    <2>2. QED
        BY <1>1, <2>1, NamesAre
<1>4. Newest'
    <2>1. SUFFICES ASSUME NEW m \in points'
                   PROVE  last # NoRun /\ m[2] <= Bucket[m[1]][last]
        BY DEF Newest
    <2>2. CASE m \in points
        BY <2>2 DEF IInv, Newest
    <2>3. CASE m = n
        <3>1. m[2] = Bucket[m[1]][last] /\ m[2] \in Nat
            BY <1>3, <2>3
        <3>2. QED
            BY <1>1, <3>1
    <2>4. QED
        BY <1>2, <2>2, <2>3
<1>5. \A r \in Runs : store'[<<0, r>>] = store[<<0, r>>]
    <2>1. SUFFICES ASSUME NEW r \in Runs PROVE store'[<<0, r>>] = store[<<0, r>>]
        OBVIOUS
    <2>2. <<0, r>> \in Names /\ <<0, r>>[1] = 0
        BY NamesAre
    <2>3. <<0, r>> # n
        BY <1>3, <2>2
    <2>4. QED
        BY <1>2, <2>2, <2>3
<1>6. hourly' = hourly /\ hourly \subseteq Runs
    BY <1>5 DEF hourly
<1>7. LastWhole'
    BY <1>5, <1>6 DEF IInv, LastWhole
<1>8. RetainedWhole'
    BY <1>5, <1>6, RetainedChanges
<1>9. QED
    BY <1>2, <1>4, <1>6, <1>7, <1>8

\* A tier directory is made or found.
LEMMA TierSteps ==
    ASSUME IInv, Tier
    PROVE  IInv'
<1>1. /\ TypeOK /\ pc = "tiers" /\ run # NoRun
      /\ UNCHANGED <<partial, latest, last, run, stops, victim, pruned>>
      /\ UNCHANGED <<sender, recovered, conn, completed>>
    BY DEF IInv, Tier, process, transfer, TypeOK
<1>2. /\ run = last /\ run \in Runs /\ Finalizing(run) \in 0..(2 * MaxRuns + 1)
      /\ \A l \in Levels : Bucket[l][run] \in Runs /\ <<l, Bucket[l][run]>> \in Names
    BY <1>1, RunIs
<1>3. /\ run \in hourly /\ latest = run /\ level # 0 /\ level \in Levels \cup {4}
      /\ \A l \in Levels : l < level => <<l, Bucket[l][run]>> \in points
    BY <1>1 DEF IInv, Progress, Promoted, TypeOK
<1>4. pc' \in {"tiers", "link", "retain"}
    BY <1>1 DEF Tier
<1>5. Sent'
    BY <1>1, <1>4 DEF IInv, Sent, TakesTransfers, Finalizes, Promoted, AllSourcesSucceeded
<1>6. Victims'
    BY <1>4 DEF Victims
<1>7. CASE level \in Levels /\ store[tier].exists /\ level' = level + 1 /\ UNCHANGED <<store, pc>>
    <2>1. /\ points' = points /\ hourly' = hourly
          /\ Newest' /\ LastWhole' /\ RetainedWhole'
        BY <1>1, <1>7, StoreStays DEF TypeOK, TakesTransfers
    <2>2. level + 1 \in Levels \cup {4} /\ level + 1 # 0
        BY <1>7, NamesAre
    <2>3. TypeOK'
        BY <1>1, <1>7, <2>2 DEF TypeOK
    <2>4. \A l \in Levels : l < level + 1 => l < level \/ l = level
        BY <1>7, NamesAre
    <2>5. <<level, Bucket[level][run]>> \in points
        BY <1>2, <1>7 DEF tier, points
    <2>6. Progress'
        BY <1>1, <1>3, <1>7, <2>1, <2>2, <2>4, <2>5 DEF Progress, Promoted
    <2>7. QED
        BY <1>5, <1>6, <2>1, <2>3, <2>6 DEF IInv
<1>8. CASE level \notin Levels /\ pc' = "retain" /\ level' = 0 /\ UNCHANGED store
    <2>1. /\ points' = points /\ hourly' = hourly
          /\ Newest' /\ LastWhole' /\ RetainedWhole'
        BY <1>1, <1>8, StoreStays DEF TypeOK, TakesTransfers
    <2>2. TypeOK'
        BY <1>1, <1>8, NamesAre DEF TypeOK, Pcs
    <2>3. \A l \in Levels : l < level /\ ~(l < 0)
        BY <1>3, <1>8, NamesAre
    <2>4. Progress'
        BY <1>1, <1>3, <1>8, <2>1, <2>3 DEF Progress, Promoted
    <2>5. QED
        BY <1>5, <1>6, <2>1, <2>2, <2>4 DEF IInv
<1>9. CASE /\ level \in Levels /\ ~store[tier].exists
           /\ store' = [store EXCEPT ![tier] = [exists |-> TRUE, dirs |-> {}, whole |-> {},
                                                time |-> Finalizing(run)]]
           /\ pc' = "link" /\ UNCHANGED level
    <2> DEFINE v == [exists |-> TRUE, dirs |-> {}, whole |-> {}, time |-> Finalizing(run)]
    <2>1. v \in Tree /\ v.exists /\ v.dirs = {} /\ v.whole = {}
        BY <1>2 DEF Tree
    <2>2. PICK n \in Names : n = tier /\ n = <<level, Bucket[level][run]>>
        BY <1>2, <1>9 DEF tier
    <2>3. store' = [store EXCEPT ![n] = v]
        BY <1>9, <2>2
    <2> HIDE DEF v
    <2>4. /\ store' \in [Names -> Tree]
          /\ \A m \in Names : store'[m].whole \subseteq store'[m].dirs
          /\ \A m \in Names : ~store'[m].exists => store'[m].dirs = {}
        BY <1>1, <2>1, <2>3, StoreChanges
    <2>5. TypeOK'
        BY <1>1, <1>9, <2>4 DEF TypeOK, Pcs
    <2>6. /\ points' = points \cup {n} /\ hourly' = hourly
          /\ Newest' /\ LastWhole' /\ RetainedWhole'
        <3>1. pc' \notin TakesTransfers
            BY <1>9 DEF TakesTransfers
        <3>2. QED
            BY <1>1, <1>3, <1>9, <2>1, <2>2, <2>3, <2>5, <3>1, TierChanges
    <2>7. tier' = n
        BY <1>1, <1>9, <2>2 DEF tier
    <2>8. Progress'
        BY <1>1, <1>3, <1>9, <2>6, <2>7 DEF Progress, Promoted
    <2>9. QED
        BY <1>5, <1>6, <2>5, <2>6, <2>8 DEF IInv
<1>10. QED
    BY <1>7, <1>8, <1>9 DEF Tier

\* linkTree adds a source to the tier directory, or is done.
LEMMA LinkSteps ==
    ASSUME IInv, LinkTree
    PROVE  IInv'
<1>1. /\ TypeOK /\ pc = "link" /\ run # NoRun
      /\ UNCHANGED <<partial, latest, last, run, stops, victim, pruned>>
      /\ UNCHANGED <<sender, recovered, conn, completed>>
    BY DEF IInv, LinkTree, process, transfer, TypeOK
<1>2. /\ run = last /\ run \in Runs
      /\ \A l \in Levels : Bucket[l][run] \in Runs /\ <<l, Bucket[l][run]>> \in Names
    BY <1>1, RunIs
<1>3. /\ run \in hourly /\ latest = run /\ level # 0 /\ level \in Levels
      /\ \A l \in Levels : l < level => <<l, Bucket[l][run]>> \in points
      /\ tier \in points
    BY <1>1 DEF IInv, Progress, Promoted
<1>4. PICK n \in Names : n = tier /\ n = <<level, Bucket[level][run]>>
    BY <1>2, <1>3 DEF tier
<1>5. PICK whole \in SUBSET Sources, dirs \in SUBSET Sources :
         whole = store[<<0, run>>].whole /\ dirs = store[<<0, run>>].dirs
    <2>1. store[<<0, run>>] \in Tree
        BY <1>1, <1>2, NamesAre DEF TypeOK
    <2>2. QED
        BY <2>1 DEF Tree
<1>6. pc' \in {"link", "tiers"}
    BY <1>1 DEF LinkTree
<1>7. Sent'
    BY <1>1, <1>6 DEF IInv, Sent, TakesTransfers, Finalizes, Promoted, AllSourcesSucceeded
<1>8. Victims'
    BY <1>6 DEF Victims
<1>9. CASE dirs \ store[n].dirs # {}
    <2>1. PICK s \in dirs \ store[n].dirs :
             store' = [store EXCEPT ![n].dirs = @ \cup {s},
                                    ![n].whole = @ \cup ({s} \cap whole)]
        BY <1>4, <1>5, <1>9, Zenon DEF LinkTree
    <2>2. pc' = pc /\ level' = level
        BY <1>4, <1>5, <1>9 DEF LinkTree
    <2>3. store[n] \in Tree /\ store[n].exists /\ store[n].whole \subseteq store[n].dirs
        BY <1>1, <1>3, <1>4 DEF TypeOK, points
    <2> DEFINE v == [exists |-> TRUE, dirs |-> store[n].dirs \cup {s},
                     whole |-> store[n].whole \cup ({s} \cap whole), time |-> store[n].time]
    <2>4. v \in Tree /\ v.whole \subseteq v.dirs /\ v.exists
        BY <1>5, <2>3 DEF Tree
    <2>5. store' = [store EXCEPT ![n] = v]
        <3>1. store'[n] = v
            BY <1>1, <2>1, <2>3 DEF TypeOK, Tree
        <3>2. /\ DOMAIN store' = Names /\ DOMAIN store = Names
              /\ \A m \in Names : m # n => store'[m] = store[m]
            BY <1>1, <2>1 DEF TypeOK
        <3> HIDE DEF v
        <3>3. store' = [m \in Names |-> store'[m]]
            BY <2>1, <3>2
        <3>4. QED
            BY <3>1, <3>2, <3>3
    <2> HIDE DEF v
    <2>6. /\ store' \in [Names -> Tree]
          /\ \A m \in Names : store'[m].whole \subseteq store'[m].dirs
          /\ \A m \in Names : ~store'[m].exists => store'[m].dirs = {}
        BY <1>1, <2>4, <2>5, StoreChanges
    <2>7. TypeOK'
        BY <1>1, <2>2, <2>6 DEF TypeOK
    <2>8. /\ points' = points \cup {n} /\ hourly' = hourly
          /\ Newest' /\ LastWhole' /\ RetainedWhole'
        <3>1. pc' \notin TakesTransfers
            BY <1>6 DEF TakesTransfers
        <3>2. QED
            BY <1>1, <1>3, <1>4, <2>4, <2>5, <2>7, <3>1, TierChanges
    <2>9. tier' = n
        BY <1>1, <1>4, <2>2 DEF tier
    <2>10. Progress'
        BY <1>1, <1>3, <2>2, <2>8, <2>9 DEF Progress, Promoted
    <2>11. QED
        BY <1>7, <1>8, <2>7, <2>8, <2>10 DEF IInv
<1>10. CASE dirs \ store[n].dirs = {}
    <2>1. pc' = "tiers" /\ level' = level + 1 /\ UNCHANGED store
        BY <1>4, <1>5, <1>10 DEF LinkTree
    <2>2. /\ points' = points /\ hourly' = hourly
          /\ Newest' /\ LastWhole' /\ RetainedWhole'
        BY <1>1, <2>1, StoreStays DEF TypeOK, TakesTransfers
    <2>3. level + 1 \in Levels \cup {4} /\ level + 1 # 0
        BY <1>3, NamesAre
    <2>4. TypeOK'
        BY <1>1, <2>1, <2>3 DEF TypeOK, Pcs
    <2>5. \A l \in Levels : l < level + 1 => l < level \/ l = level
        BY <1>3, NamesAre
    <2>6. Progress'
        BY <1>1, <1>3, <1>4, <2>1, <2>2, <2>3, <2>5 DEF Progress, Promoted
    <2>7. QED
        BY <1>7, <1>8, <2>2, <2>4, <2>6 DEF IInv
<1>11. QED
    BY <1>9, <1>10

-----------------------------------------------------------------------------
(* The invariant                                                           *)

LEMMA InitInv ==
    ASSUME Init
    PROVE  IInv
<1>1. NoTree \in Tree /\ ~NoTree.exists /\ NoTree.whole = {} /\ NoTree.dirs = {}
    BY BoundsAssumption DEF NoTree, Tree
<1>2. \A n \in Names : store[n] = NoTree
    BY DEF Init
<1>3. points = {}
    BY <1>1, <1>2 DEF points
<1>4. hourly = {}
    BY <1>1, <1>2, NamesAre DEF hourly
<1>5. TypeOK
    <2>1. store \in [Names -> Tree] /\ partial \in [Runs -> Tree]
        BY <1>1 DEF Init
    <2>2. /\ \A n \in Names : store[n].whole \subseteq store[n].dirs
          /\ \A n \in Names : ~store[n].exists => store[n].dirs = {}
        BY <1>1, <1>2
    <2>3. QED
        BY <2>1, <2>2, NamesAre, BoundsAssumption DEF Init, TypeOK, Pcs
<1>6. Sent
    BY DEF Init, Sent, TakesTransfers, Finalizes, Promoted
<1>7. Newest /\ LastWhole /\ RetainedWhole
    BY <1>3, <1>4 DEF Newest, LastWhole, RetainedWhole
<1>8. Victims /\ Progress
    BY DEF Init, Victims, Progress, Promoted
<1>9. QED
    BY <1>5, <1>6, <1>7, <1>8 DEF IInv

LEMMA Stutters ==
    ASSUME IInv, UNCHANGED vars
    PROVE  IInv'
<1>1. /\ UNCHANGED <<store, partial, latest, last, run, pc, level, victim, pruned>>
      /\ UNCHANGED <<sender, recovered, conn, completed, stops>>
    BY DEF vars
<1>2. /\ points' = points /\ hourly' = hourly /\ \A l : At(l)' = At(l)
      /\ Newest' /\ LastWhole' /\ RetainedWhole'
    BY <1>1, StoreStays DEF IInv, TypeOK
<1>3. TypeOK'
    BY <1>1 DEF IInv, TypeOK
<1>4. Sent'
    BY <1>1 DEF IInv, Sent, AllSourcesSucceeded
<1>5. Victims'
    BY <1>1, <1>2 DEF IInv, Victims
<1>6. tier' = tier
    BY <1>1 DEF tier
<1>7. Progress'
    BY <1>1, <1>2, <1>6 DEF IInv, Progress
<1>8. QED
    BY <1>2, <1>3, <1>4, <1>5, <1>7 DEF IInv

LEMMA Inductive ==
    ASSUME IInv, [Next]_vars
    PROVE  IInv'
<1>1. CASE Next
    <2>1. CASE \E s \in Sources : \/ Accept(s) \/ Refused(s) \/ SenderExits(s)
                                  \/ ReceiverReturns(s) \/ Recovered(s)
        BY <2>1, TransferSteps, RecoverSteps
    <2>2. QED
        BY <1>1, <2>1, ProcessSteps, RecoverSteps, RecoverPrunes, FinalizeSteps, Promotes,
           PointerSteps, TierSteps, LinkSteps, RetainPrunes
           DEF Next
<1>2. CASE UNCHANGED vars
    BY <1>2, Stutters
<1>3. QED
    BY <1>1, <1>2

LEMMA Invariant == Spec => []IInv
<1>1. Init => IInv
    BY InitInv
<1>2. IInv /\ [Next]_vars => IInv'
    BY Inductive
<1>3. QED
    BY <1>1, <1>2, PTL DEF Spec

-----------------------------------------------------------------------------
(* Theorems                                                                *)

\* Every variable keeps its type, whatever the bounds, sources, counts and calendar.
THEOREM TypeCorrect == Spec => []TypeOK
<1>1. IInv => TypeOK
    BY DEF IInv
<1>2. QED
    BY <1>1, Invariant, PTL

\* The Keep[0] most recent hourly restore points hold all data of all sources, unless
\* RecoverSpace took them: no failed or miscounted transfer is ever promoted, and
\* ApplyRetention, interrupted and repeated anywhere, only takes older ones apart.
THEOREM RetainedAreWhole == Spec => []RetainedWhole
<1>1. IInv => RetainedWhole
    BY DEF IInv
<1>2. QED
    BY <1>1, Invariant, PTL

\* When a run reports Completed its restore point is whole, `latest' names it, every tier
\* has its directory and no level exceeds its count: FinalizeBackup never removes what it
\* has just made.
THEOREM CompletedIsRestorable == Spec => []CompletedRestorable
<1>1. ASSUME IInv PROVE CompletedRestorable
    <2>1. SUFFICES ASSUME pc = "done"
                   PROVE  /\ run \in hourly /\ store[<<0, run>>].whole = Sources
                          /\ latest = run
                          /\ \A l \in Levels :
                                /\ <<l, Bucket[l][run]>> \in points
                                /\ Cardinality(At(l)) <= Keep[l]
        BY DEF CompletedRestorable, At
    <2>2. run = last
        BY <1>1, <2>1 DEF IInv, TypeOK
    <2>3. QED
        BY <1>1, <2>1, <2>2 DEF IInv, LastWhole, Progress, Promoted
<1>2. QED
    BY <1>1, Invariant, PTL

=============================================================================
