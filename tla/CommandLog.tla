----------------------------- MODULE CommandLog -----------------------------
(***************************************************************************)
(* What the control service promises the targets of one run: commands form *)
(* a log without repetitions, and every stream reads that log from its     *)
(* first entry, in order, whenever it was opened.  A manager restart loses *)
(* the log and ends every stream.                                          *)
(***************************************************************************)
EXTENDS Naturals, Sequences, Functions

CONSTANTS
    Commands,     \* command ids
    Streams       \* registrations of a target, each used once

VARIABLES
    log,          \* commands enqueued since the manager started
    reader,       \* "new", "open" or "ended"
    got           \* commands each stream has handed to its target

vars == <<log, reader, got>>

Init == /\ log = <<>>
        /\ reader = [s \in Streams |-> "new"]
        /\ got = [s \in Streams |-> <<>>]

Write(c) == /\ c \notin Range(log)
            /\ log' = Append(log, c)
            /\ UNCHANGED <<reader, got>>

Open(s) == /\ reader[s] = "new"
           /\ reader' = [reader EXCEPT ![s] = "open"]
           /\ UNCHANGED <<log, got>>

\* A target stops reading at a command that ends its wait.
Read(s) == /\ reader[s] = "open"
           /\ Len(got[s]) < Len(log)
           /\ got' = [got EXCEPT ![s] = Append(@, log[Len(@) + 1])]
           /\ reader' \in {reader, [reader EXCEPT ![s] = "ended"]}
           /\ UNCHANGED log

Close(s) == /\ reader[s] = "open"
            /\ reader' = [reader EXCEPT ![s] = "ended"]
            /\ UNCHANGED <<log, got>>

Reset == /\ log' = <<>>
         /\ reader' = [s \in Streams |->
                          IF reader[s] = "open" THEN "ended" ELSE reader[s]]
         /\ UNCHANGED got

Next == \/ \E c \in Commands : Write(c)
        \/ \E s \in Streams : Open(s) \/ Read(s) \/ Close(s)
        \/ Reset

\* An open stream is read as long as it is open.
Fairness == \A s \in Streams : WF_vars(Read(s))

Spec == Init /\ [][Next]_vars
FairSpec == Spec /\ Fairness
=============================================================================
