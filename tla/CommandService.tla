--------------------------- MODULE CommandService ---------------------------
(***************************************************************************)
(* The target command log of one run in control.Service, the RegisterTarget*)
(* streams that serve it over gRPC, and the targets reading them.          *)
(*                                                                         *)
(* A command travels: EnqueueTargetCommand -> channel of the stream ->     *)
(* goroutine of RegisterTarget (hand) -> out -> gRPC stream (wire) ->      *)
(* WaitForFinalizeBackupJobWithRecovery.  The service's mutex covers the   *)
(* log and the set of streams only: the channel sends happen after it is   *)
(* released, while streams come and go.                                    *)
(***************************************************************************)
EXTENDS Naturals, Sequences, Functions

CONSTANTS
    Commands,     \* command ids the BackupJob worker may enqueue
    Final,        \* ... at which the target stops waiting (finalize, abort)
    Streams,      \* registrations of a target, each used once
    Buffer,       \* capacity of the channels (64 in the code)
    MaxRestarts   \* bound on manager restarts

ASSUME CommandsAssumption == Final \subseteq Commands
ASSUME BufferAssumption   == Buffer \in Nat \ {0}
ASSUME RestartsAssumption == MaxRestarts \in Nat

VARIABLES
    log,          \* targetCommandLog.commands; seen holds the same ids
    registered,   \* targetCommandLog.streams
    stream,       \* channels and goroutine of each stream
    reader,       \* the stream's context, as the target sees it
    got,          \* commands the target took from the stream
    enqueue,      \* the command the worker sends and the streams it has left
    restarts

vars == <<log, registered, stream, reader, got, enqueue, restarts>>

Stream == [ch : Seq(Commands), hand : Seq(Commands), out : Seq(Commands),
           wire : Seq(Commands)]
Closed == [ch |-> <<>>, hand |-> <<>>, out |-> <<>>, wire |-> <<>>]

\* The worker's call: the command, the streams it has not been sent to yet and, of
\* these, the one whose channel the worker is sending to.
Idle == [command |-> <<>>, left |-> {}, at |-> {}]

\* The worker turns to one of the streams, in the order the iteration over the map
\* of streams happened to put them in the slice; after the last it returns.
Turn(c, streams) ==
    IF streams = {} THEN {Idle}
    ELSE {[command |-> c, left |-> streams, at |-> {s}] : s \in streams}

Init == /\ log = <<>>
        /\ registered = {}
        /\ stream = [s \in Streams |-> Closed]
        /\ reader = [s \in Streams |-> "new"]
        /\ got = [s \in Streams |-> <<>>]
        /\ enqueue = Idle
        /\ restarts = 0

-----------------------------------------------------------------------------
(* BackupJob worker                                                        *)

\* Mutant: a command id is not looked up in seen.
AppendAlways(c) == log' = Append(log, c)

\* A command whose id was seen is not enqueued again.
AppendUnseen(c) == /\ c \notin Range(log)
                   /\ log' = Append(log, c)

\* EnqueueTargetCommand, under the mutex: append and remember the streams.  The
\* worker calls it again only after it has returned.
EnqueueTargetCommand(c) ==
    /\ enqueue = Idle
    /\ AppendUnseen(c)
    /\ enqueue' \in Turn(<<c>>, registered)
    /\ UNCHANGED <<registered, stream, reader, got, restarts>>

\* Mutant: an unbuffered channel takes a command only from its goroutine's hand.
RoomIfReceiving(s) == s \in registered /\ stream[s].hand = <<>> /\ stream[s].ch = <<>>

HasRoom(s) == Len(stream[s].ch) < Buffer

\* ... and without it: one blocking send per stream, one stream after the other,
\* registered by now or not.
SendToStream(s) ==
    /\ enqueue.at = {s}
    /\ HasRoom(s)
    /\ stream' = [stream EXCEPT ![s].ch = @ \o enqueue.command]
    /\ enqueue' \in Turn(enqueue.command, enqueue.left \ {s})
    /\ UNCHANGED <<log, registered, reader, got, restarts>>

-----------------------------------------------------------------------------
(* RegisterTarget: control.Service, gRPC server and client                 *)

\* What a new stream is sent first: the commands enqueued so far.
Replay == log

\* RegisterTarget: the log is copied and the stream registered under the mutex.
RegisterTarget(s) ==
    /\ reader[s] = "new"
    /\ reader' = [reader EXCEPT ![s] = "open"]
    /\ registered' = registered \cup {s}
    /\ stream' = [stream EXCEPT ![s].hand = Replay]
    /\ UNCHANGED <<log, got, enqueue, restarts>>

\* The goroutine: the commands in its hand go to out before it takes another
\* from the channel.  Once the context is done it may return instead.
Receive(s) ==
    /\ s \in registered
    /\ stream[s].hand = <<>> /\ stream[s].ch # <<>>
    /\ stream' = [stream EXCEPT ![s].hand = <<Head(stream[s].ch)>>,
                                ![s].ch = Tail(@)]
    /\ UNCHANGED <<log, registered, reader, got, enqueue, restarts>>

Forward(s) ==
    /\ s \in registered
    /\ stream[s].hand # <<>> /\ Len(stream[s].out) < Buffer
    /\ stream' = [stream EXCEPT ![s].out = Append(@, Head(stream[s].hand)),
                                ![s].hand = Tail(@)]
    /\ UNCHANGED <<log, registered, reader, got, enqueue, restarts>>

\* Server.RegisterTarget: send what out holds while the context lasts.
SendMsg(s) ==
    /\ reader[s] = "open"
    /\ stream[s].out # <<>>
    /\ stream' = [stream EXCEPT ![s].wire = Append(@, Head(stream[s].out)),
                                ![s].out = Tail(@)]
    /\ UNCHANGED <<log, registered, reader, got, enqueue, restarts>>

\* WaitForFinalizeBackupJobWithRecovery: a RecoverSpace is carried out and the
\* wait goes on; finalize and abort end it, and with it the stream's context.
TakeCommand(s) ==
    /\ reader[s] = "open"
    /\ stream[s].wire # <<>>
    /\ LET c == Head(stream[s].wire)
       IN  /\ got' = [got EXCEPT ![s] = Append(@, c)]
           /\ reader' = IF c \in Final THEN [reader EXCEPT ![s] = "ended"] ELSE reader
    /\ stream' = [stream EXCEPT ![s].wire = Tail(@)]
    /\ UNCHANGED <<log, registered, enqueue, restarts>>

\* The target stops (a recovery failed, the pod went) or the connection breaks.
Disconnect(s) ==
    /\ reader[s] = "open"
    /\ reader' = [reader EXCEPT ![s] = "ended"]
    /\ UNCHANGED <<log, registered, stream, got, enqueue, restarts>>

\* Mutant: the goroutine may return while the context lasts.
UnregisterOpen(s) ==
    /\ s \in registered
    /\ registered' = registered \ {s}
    /\ UNCHANGED <<log, stream, reader, got, enqueue, restarts>>

\* The goroutine sees the context done, unregisters and returns; commands sent to
\* the stream's channel from now on stay there.
unregisterTarget(s) ==
    /\ s \in registered
    /\ reader[s] = "ended"
    /\ registered' = registered \ {s}
    /\ stream' = [stream EXCEPT ![s].hand = <<>>, ![s].out = <<>>, ![s].wire = <<>>]
    /\ UNCHANGED <<log, reader, got, enqueue, restarts>>

\* The manager restarts: the log is in memory only and connections break.
Restart ==
    /\ restarts < MaxRestarts
    /\ restarts' = restarts + 1
    /\ log' = <<>> /\ registered' = {} /\ enqueue' = Idle
    /\ stream' = [s \in Streams |-> Closed]
    /\ reader' = [s \in Streams |-> IF reader[s] = "open" THEN "ended" ELSE reader[s]]
    /\ UNCHANGED got

-----------------------------------------------------------------------------
Worker == \/ \E c \in Commands : EnqueueTargetCommand(c)
          \/ \E s \in Streams : SendToStream(s)

Serve(s) == \/ Receive(s) \/ Forward(s) \/ SendMsg(s) \/ TakeCommand(s)
            \/ unregisterTarget(s)

Next == \/ Worker
        \/ \E s \in Streams : RegisterTarget(s) \/ Serve(s) \/ Disconnect(s)
        \/ Restart

\* The scheduler runs every goroutine, the worker's included once it has a command
\* to send; gRPC delivers on a connection that holds and a target keeps reading.
\* Nobody has to enqueue, register, disconnect or restart.
Fairness == \A s \in Streams :
    /\ WF_vars(SendToStream(s))
    /\ WF_vars(Receive(s)) /\ WF_vars(Forward(s))
    /\ WF_vars(SendMsg(s)) /\ WF_vars(TakeCommand(s))
    /\ WF_vars(unregisterTarget(s))

Spec == Init /\ [][Next]_vars
FairSpec == Spec /\ Fairness

-----------------------------------------------------------------------------
(* Properties                                                              *)

\* Channels hold at most their capacity, the worker only sends to streams that
\* were registered, and a stream is registered from RegisterTarget until its
\* goroutine returns.
TypeOK ==
    /\ log \in Seq(Commands) /\ got \in [Streams -> Seq(Commands)]
    /\ registered \subseteq Streams
    /\ stream \in [Streams -> Stream]
    /\ reader \in [Streams -> {"new", "open", "ended"}]
    /\ enqueue \in [command : Seq(Commands), left : SUBSET Streams, at : SUBSET Streams]
    /\ enqueue.at \subseteq enqueue.left
    /\ restarts \in 0..MaxRestarts
    /\ \A s \in Streams : /\ Len(stream[s].ch) <= Buffer
                          /\ Len(stream[s].out) <= Buffer
                          /\ reader[s] = "open" => s \in registered
                          /\ reader[s] = "new" => s \notin registered \cup enqueue.left

\* The abstract log, for the same log, readers and taken commands.
Log == INSTANCE CommandLog WITH log <- log, reader <- reader, got <- got

\* The worker waits for room in the channel of a stream whose goroutine has
\* returned: nobody will take a command from it any more.
Stuck == \E s \in Streams : /\ enqueue.at = {s} /\ s \notin registered
                           /\ Len(stream[s].ch) = Buffer

\* EnqueueTargetCommand and RegisterTarget implement the log: whatever the race
\* between a registration, a command being sent and a stream going away, a target
\* is handed the commands in the order they were enqueued, from the first, each
\* once; and a target that keeps its stream is handed them all, unless the worker
\* is stuck for good on a stream that went away with a full channel.
ImplementsCommandLog == Log!Spec /\ (Log!Fairness \/ <>[]Stuck)

\* EnqueueTargetCommand returns, for the BackupJob worker serves every run of the
\* manager, unless it is stuck: a stream that is slow never holds it up, however
\* full its channels, nor does one that is gone whose channel has room.
EnqueueReturns == enqueue # Idle ~> enqueue = Idle \/ Stuck
=============================================================================
