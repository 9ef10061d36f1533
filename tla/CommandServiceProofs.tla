------------------------ MODULE CommandServiceProofs ------------------------
(***************************************************************************)
(* control.Service implements the command log: for any number of commands, *)
(* streams and restarts, and any capacity of the channels, every step of   *)
(* the service is a step of CommandLog or changes nothing it shows.        *)
(*                                                                         *)
(* The invariant follows the commands of a stream through its channels:    *)
(* what the target took, what is on its way, and what the worker has still *)
(* to send to the stream, put together in this order, is the log (InFlight).*)
(* A stream that is not registered yet has nothing (NewIsEmpty).           *)
(***************************************************************************)
EXTENDS CommandService, SequenceTheorems, TLAPS

\* x and after it y.
Then(x, y) == x \o y

\* What a target took and what its stream holds, the first command first.
Pipe(taken, st) == Then(Then(Then(Then(taken, st.wire), st.out), st.hand), st.ch)

\* The commands of stream s.
Piped(s) == Pipe(got[s], stream[s])

\* What the worker has still to send to s.
Unsent(s) == IF s \in enqueue.left THEN enqueue.command ELSE <<>>

InFlight == \A s \in Streams : reader[s] = "open" => Then(Piped(s), Unsent(s)) = log

NewIsEmpty == \A s \in Streams : reader[s] = "new" => stream[s] = Closed /\ got[s] = <<>>

\* The calls of EnqueueTargetCommand.
Call == [command : Seq(Commands), left : SUBSET Streams, at : SUBSET Streams]

\* The worker is idle or has streams left.
WorkerSends == enqueue = Idle \/ (enqueue.left # {} /\ Len(enqueue.command) = 1)

IInv == TypeOK /\ InFlight /\ NewIsEmpty /\ WorkerSends

-----------------------------------------------------------------------------
(* Sequences                                                               *)

\* Concatenation is associative.
LEMMA ThenAssociative ==
    \A S : \A x, y, z \in Seq(S) : /\ Then(x, y) \in Seq(S)
                                   /\ Then(Then(x, y), z) = Then(x, Then(y, z))
BY ConcatAssociative DEF Then

\* Nothing before or after.
LEMMA ThenEmpty ==
    ASSUME NEW S, NEW x \in Seq(S), NEW none, none = <<>>
    PROVE  Then(x, none) = x /\ Then(none, x) = x
BY ConcatEmptySeq DEF Then

\* A sequence starts with its head and goes on with its tail.
LEMMA HeadThenTail ==
    ASSUME NEW S, NEW b \in Seq(S), b # <<>>
    PROVE  /\ Head(b) \in S /\ <<Head(b)>> \in Seq(S) /\ Tail(b) \in Seq(S)
           /\ Then(<<Head(b)>>, Tail(b)) = b
BY DEF Then

\* An appended element comes last.
LEMMA AppendThen ==
    ASSUME NEW S, NEW a \in Seq(S), NEW e \in S
    PROVE  Append(a, e) \in Seq(S) /\ Append(a, e) = Then(a, <<e>>)
<1>1. Append(a, e) \in Seq(S)
    BY AppendProperties
<1>2. Append(a, e) = Then(a, <<e>>)
    BY AppendIsConcat DEF Then
<1>3. QED
    BY <1>1, <1>2

\* Moving the first command from one queue to the end of the queue before it changes
\* nothing of the two taken together, nor with what came before.
LEMMA MoveHead ==
    ASSUME NEW S, NEW p \in Seq(S), NEW a \in Seq(S), NEW b \in Seq(S), b # <<>>
    PROVE  /\ Append(a, Head(b)) \in Seq(S) /\ Tail(b) \in Seq(S)
           /\ Then(Append(a, Head(b)), Tail(b)) = Then(a, b)
           /\ Then(Then(p, Append(a, Head(b))), Tail(b)) = Then(Then(p, a), b)
<1> DEFINE h == <<Head(b)>>
           t == Tail(b)
           c == Append(a, Head(b))
<1>1. h \in Seq(S) /\ t \in Seq(S) /\ Then(h, t) = b
    BY HeadThenTail
<1>2. c \in Seq(S) /\ c = Then(a, h)
    BY HeadThenTail, AppendThen
<1> HIDE DEF h, t, c
<1>3. Then(c, t) = Then(a, b)
    BY <1>1, <1>2, ThenAssociative
<1>4. Then(Then(p, c), t) = Then(Then(p, a), b)
    BY <1>1, <1>2, <1>3, ThenAssociative
<1>5. QED
    BY <1>1, <1>2, <1>3, <1>4 DEF t, c

\* The first command of a queue taken in the hand.
LEMMA TakeHead ==
    ASSUME NEW S, NEW p \in Seq(S), NEW b \in Seq(S), b # <<>>
    PROVE  Then(Then(p, <<Head(b)>>), Tail(b)) = Then(p, b)
<1> DEFINE h == <<Head(b)>>
           t == Tail(b)
<1>1. h \in Seq(S) /\ t \in Seq(S) /\ Then(h, t) = b
    BY HeadThenTail
<1> HIDE DEF h, t
<1>2. Then(Then(p, h), t) = Then(p, b)
    BY <1>1, ThenAssociative
<1>3. QED
    BY <1>2 DEF h, t

\* The element that follows a proper prefix.
LEMMA NextOfPrefix ==
    ASSUME NEW S, NEW p \in Seq(S), NEW q \in Seq(S), q # <<>>
    PROVE  /\ Len(p) < Len(Then(p, q))
           /\ Then(p, q)[Len(p) + 1] = Head(q)
BY DEF Then

\* What a sequence begins with does not depend on what follows.
LEMMA Beginning ==
    ASSUME NEW S, NEW a \in Seq(S), NEW b \in Seq(S), NEW i \in 1..Len(a)
    PROVE  /\ Then(a, b) \in Seq(S) /\ i \in 1..Len(Then(a, b))
           /\ Then(a, b)[i] = a[i]
BY DEF Then

\* One sequence after another is as long as both.
LEMMA LenThen ==
    ASSUME NEW S, NEW a \in Seq(S), NEW b \in Seq(S)
    PROVE  /\ Then(a, b) \in Seq(S) /\ Len(Then(a, b)) = Len(a) + Len(b)
           /\ Len(a) \in Nat /\ Len(b) \in Nat
BY DEF Then

\* Queues of commands, one behind the other, are a queue of commands.
LEMMA PipeType ==
    ASSUME NEW taken \in Seq(Commands), NEW st \in Stream
    PROVE  /\ st.wire \in Seq(Commands) /\ st.out \in Seq(Commands)
           /\ st.hand \in Seq(Commands) /\ st.ch \in Seq(Commands)
           /\ Then(taken, st.wire) \in Seq(Commands)
           /\ Then(Then(taken, st.wire), st.out) \in Seq(Commands)
           /\ Then(Then(Then(taken, st.wire), st.out), st.hand) \in Seq(Commands)
           /\ Pipe(taken, st) \in Seq(Commands)
<1>1. /\ st.wire \in Seq(Commands) /\ st.out \in Seq(Commands)
      /\ st.hand \in Seq(Commands) /\ st.ch \in Seq(Commands)
    BY DEF Stream
<1>2. QED
    BY <1>1, ThenAssociative DEF Pipe

\* The worker turns to the streams it has left, to all of them, or is idle.
LEMMA TurnType ==
    ASSUME NEW c \in Seq(Commands), Len(c) = 1, NEW streams \in SUBSET Streams,
           NEW e \in Turn(c, streams)
    PROVE  /\ e \in Call /\ e.left = streams /\ e.at \subseteq e.left
           /\ streams # {} => e.command = c
           /\ e = Idle \/ (e.left # {} /\ Len(e.command) = 1)
<1>1. CASE streams = {}
    <2>1. e = Idle
        BY <1>1 DEF Turn
    <2>2. Idle \in Call /\ Idle.left = {} /\ Idle.at = {}
        BY DEF Idle, Call
    <2>3. QED
        BY <1>1, <2>1, <2>2
<1>2. CASE streams # {}
    <2>1. PICK s \in streams : e = [command |-> c, left |-> streams, at |-> {s}]
        BY <1>2 DEF Turn
    <2>2. QED
        BY <1>2, <2>1 DEF Call
<1>3. QED
    BY <1>1, <1>2

-----------------------------------------------------------------------------
(* Initial states                                                          *)

\* The initial state satisfies the invariant.
LEMMA InitInv == Init => IInv
<1> SUFFICES ASSUME Init PROVE IInv
    OBVIOUS
<1>1. Closed \in Stream /\ Len(Closed.ch) = 0 /\ Len(Closed.out) = 0
    BY DEF Closed, Stream
<1>2. enqueue \in Call /\ enqueue.left = {} /\ enqueue.at = {}
    BY DEF Init, Idle, Call
<1>3. TypeOK
    BY <1>1, <1>2, BufferAssumption, RestartsAssumption DEF Init, TypeOK, Call
<1>4. InFlight /\ NewIsEmpty /\ WorkerSends
    BY DEF Init, InFlight, NewIsEmpty, WorkerSends
<1>5. QED
    BY <1>3, <1>4 DEF IInv

-----------------------------------------------------------------------------
(* The actions keep the invariant                                          *)

\* One stream moves its commands, and its reader goes on or ends.
LEMMA StreamStep ==
    ASSUME IInv, NEW s \in Streams, NEW st \in Stream, NEW taken \in Seq(Commands),
           reader[s] # "new",
           stream' = [stream EXCEPT ![s] = st], got' = [got EXCEPT ![s] = taken],
           reader' \in {reader, [reader EXCEPT ![s] = "ended"]},
           Len(st.ch) <= Buffer, Len(st.out) <= Buffer,
           reader'[s] = "open" => Pipe(taken, st) = Piped(s),
           UNCHANGED <<log, registered, enqueue, restarts>>
    PROVE  IInv'
<1>1. /\ stream' \in [Streams -> Stream] /\ got' \in [Streams -> Seq(Commands)]
      /\ reader' \in [Streams -> {"new", "open", "ended"}]
      /\ stream'[s] = st /\ got'[s] = taken
    BY DEF IInv, TypeOK
<1>2. \A q \in Streams \ {s} :
          stream'[q] = stream[q] /\ got'[q] = got[q] /\ reader'[q] = reader[q]
    BY DEF IInv, TypeOK
<1>3. reader'[s] \in {reader[s], "ended"}
    BY DEF IInv, TypeOK
<1>4. \A q \in Streams : Len(stream'[q].ch) <= Buffer /\ Len(stream'[q].out) <= Buffer
    BY <1>1, <1>2 DEF IInv, TypeOK
<1>5. TypeOK'
    BY <1>1, <1>2, <1>3, <1>4 DEF IInv, TypeOK
<1>6. InFlight'
    <2>1. \A q \in Streams : reader'[q] = "open" => reader[q] = "open" /\ Piped(q)' = Piped(q)
        BY <1>1, <1>2, <1>3 DEF Piped
    <2>2. \A q \in Streams : Unsent(q)' = Unsent(q)
        BY DEF Unsent
    <2>3. QED
        BY <2>1, <2>2 DEF IInv, InFlight
<1>7. NewIsEmpty'
    BY <1>1, <1>2, <1>3 DEF IInv, NewIsEmpty
<1>8. WorkerSends'
    BY DEF IInv, WorkerSends
<1>9. QED
    BY <1>5, <1>6, <1>7, <1>8 DEF IInv

\* The goroutine takes a command from the channel.
LEMMA ReceiveStep ==
    ASSUME IInv, NEW s \in Streams, Receive(s)
    PROVE  IInv'
<1> DEFINE old == stream[s]
           st  == [old EXCEPT !.hand = <<Head(old.ch)>>, !.ch = Tail(@)]
<1>1. old \in Stream /\ got \in [Streams -> Seq(Commands)]
    BY DEF IInv, TypeOK
<1>2. /\ old.hand = <<>> /\ old.ch # <<>> /\ reader[s] # "new"
      /\ stream' = [stream EXCEPT ![s] = st]
      /\ UNCHANGED <<log, registered, reader, got, enqueue, restarts>>
    BY DEF Receive, IInv, TypeOK
<1>3. /\ <<Head(old.ch)>> \in Seq(Commands) /\ Tail(old.ch) \in Seq(Commands)
      /\ Len(Tail(old.ch)) <= Buffer /\ Len(old.out) <= Buffer
    BY <1>1, <1>2, BufferAssumption DEF Stream, IInv, TypeOK
<1>4. /\ st \in Stream /\ st.hand = <<Head(old.ch)>> /\ st.ch = Tail(old.ch)
      /\ st.wire = old.wire /\ st.out = old.out
    BY <1>1, <1>3 DEF Stream
<1>5. Pipe(got[s], st) = Pipe(got[s], old)
    <2> DEFINE p == Then(Then(got[s], old.wire), old.out)
           h == <<Head(old.ch)>>
           t == Tail(old.ch)
    <2>1. p \in Seq(Commands) /\ old.ch \in Seq(Commands)
        BY <1>1, PipeType
    <2>2. Then(Then(p, h), t) = Then(p, old.ch)
        <3> HIDE DEF p, old
        <3>1. QED
            BY <1>2, <2>1, TakeHead
    <2>3. Pipe(got[s], st) = Then(Then(p, h), t)
        BY <1>4 DEF Pipe
    <2>4. Pipe(got[s], old) = Then(Then(p, old.hand), old.ch)
        BY DEF Pipe
    <2> HIDE DEF p, h, t, old, st
    <2>5. Then(p, old.hand) = p
        <3>1. old.hand = <<>>
            BY <1>2
        <3>2. QED
            BY <2>1, <3>1, ThenEmpty
    <2>6. QED
        BY <2>2, <2>3, <2>4, <2>5
<1>6. got' = [got EXCEPT ![s] = got[s]] /\ reader' = reader
    BY <1>1, <1>2
<1> HIDE DEF st
<1>7. QED
    BY <1>1, <1>2, <1>3, <1>4, <1>5, <1>6, StreamStep DEF Piped

\* The goroutine passes a command on.
LEMMA ForwardStep ==
    ASSUME IInv, NEW s \in Streams, Forward(s)
    PROVE  IInv'
<1> DEFINE old == stream[s]
           st  == [old EXCEPT !.out = Append(@, Head(old.hand)), !.hand = Tail(@)]
<1>1. old \in Stream /\ got \in [Streams -> Seq(Commands)]
    BY DEF IInv, TypeOK
<1>2. /\ old.hand # <<>> /\ Len(old.out) < Buffer /\ reader[s] # "new"
      /\ stream' = [stream EXCEPT ![s] = st]
      /\ UNCHANGED <<log, registered, reader, got, enqueue, restarts>>
    BY DEF Forward, IInv, TypeOK
<1> DEFINE p == Then(got[s], old.wire)
<1>3. p \in Seq(Commands) /\ old.hand \in Seq(Commands) /\ old.out \in Seq(Commands)
    BY <1>1, PipeType
<1>4. /\ Append(old.out, Head(old.hand)) \in Seq(Commands) /\ Tail(old.hand) \in Seq(Commands)
      /\ Then(Then(p, Append(old.out, Head(old.hand))), Tail(old.hand)) =
            Then(Then(p, old.out), old.hand)
    <2> HIDE DEF p, old
    <2>1. QED
        BY <1>2, <1>3, MoveHead
<1>5. /\ Len(Append(old.out, Head(old.hand))) <= Buffer
      /\ Len(old.ch) <= Buffer
    <2>1. Len(old.ch) <= Buffer
        BY DEF IInv, TypeOK
    <2>2. QED
        BY <1>2, <1>3, <2>1, BufferAssumption, AppendProperties, HeadThenTail
<1>6. /\ st \in Stream /\ st.hand = Tail(old.hand) /\ st.ch = old.ch
      /\ st.wire = old.wire /\ st.out = Append(old.out, Head(old.hand))
    BY <1>1, <1>4 DEF Stream
<1>7. got' = [got EXCEPT ![s] = got[s]] /\ reader' = reader
    BY <1>1, <1>2
<1> HIDE DEF st
<1>8. Pipe(got[s], st) = Pipe(got[s], old)
    BY <1>4, <1>6 DEF Pipe
<1>9. QED
    BY <1>1, <1>2, <1>5, <1>6, <1>7, <1>8, StreamStep DEF Piped

\* The server sends a command over the connection.
LEMMA SendMsgStep ==
    ASSUME IInv, NEW s \in Streams, SendMsg(s)
    PROVE  IInv'
<1> DEFINE old == stream[s]
           st  == [old EXCEPT !.wire = Append(@, Head(old.out)), !.out = Tail(@)]
           p   == got[s]
<1>1. old \in Stream /\ got \in [Streams -> Seq(Commands)]
    BY DEF IInv, TypeOK
<1>2. /\ old.out # <<>> /\ reader[s] # "new"
      /\ stream' = [stream EXCEPT ![s] = st]
      /\ UNCHANGED <<log, registered, reader, got, enqueue, restarts>>
    BY DEF SendMsg, IInv, TypeOK
<1>3. p \in Seq(Commands) /\ old.wire \in Seq(Commands) /\ old.out \in Seq(Commands)
    BY <1>1, PipeType
<1>4. /\ Append(old.wire, Head(old.out)) \in Seq(Commands) /\ Tail(old.out) \in Seq(Commands)
      /\ Then(Then(p, Append(old.wire, Head(old.out))), Tail(old.out)) =
            Then(Then(p, old.wire), old.out)
    <2> HIDE DEF p, old
    <2>1. QED
        BY <1>2, <1>3, MoveHead
<1>5. /\ Len(Tail(old.out)) <= Buffer
      /\ Len(old.ch) <= Buffer
    BY <1>2, <1>3, BufferAssumption DEF IInv, TypeOK
<1>6. /\ st \in Stream /\ st.hand = old.hand /\ st.ch = old.ch
      /\ st.wire = Append(old.wire, Head(old.out)) /\ st.out = Tail(old.out)
    BY <1>1, <1>4 DEF Stream
<1>7. got' = [got EXCEPT ![s] = got[s]] /\ reader' = reader
    BY <1>1, <1>2
<1> HIDE DEF st
<1>8. Pipe(got[s], st) = Pipe(got[s], old)
    BY <1>4, <1>6 DEF Pipe
<1>9. QED
    BY <1>1, <1>2, <1>5, <1>6, <1>7, <1>8, StreamStep DEF Piped

\* The target takes a command.
LEMMA TakeStep ==
    ASSUME IInv, NEW s \in Streams, TakeCommand(s)
    PROVE  IInv'
<1> DEFINE old   == stream[s]
           st    == [old EXCEPT !.wire = Tail(@)]
           taken == Append(got[s], Head(old.wire))
           p     == got[s]
<1>1. old \in Stream /\ got \in [Streams -> Seq(Commands)]
    BY DEF IInv, TypeOK
<1>2. /\ old.wire # <<>> /\ reader[s] # "new"
      /\ stream' = [stream EXCEPT ![s] = st]
      /\ got' = [got EXCEPT ![s] = taken]
      /\ reader' \in {reader, [reader EXCEPT ![s] = "ended"]}
      /\ UNCHANGED <<log, registered, enqueue, restarts>>
    BY DEF TakeCommand, IInv, TypeOK
<1>3. p \in Seq(Commands) /\ old.wire \in Seq(Commands) /\ taken = Append(p, Head(old.wire))
    BY <1>1, PipeType
<1>4. /\ taken \in Seq(Commands) /\ Tail(old.wire) \in Seq(Commands)
      /\ Then(taken, Tail(old.wire)) = Then(p, old.wire)
    <2> HIDE DEF p, old, taken
    <2>1. QED
        BY <1>2, <1>3, MoveHead
<1>5. Len(old.out) <= Buffer /\ Len(old.ch) <= Buffer
    BY DEF IInv, TypeOK
<1>6. /\ st \in Stream /\ st.hand = old.hand /\ st.ch = old.ch
      /\ st.wire = Tail(old.wire) /\ st.out = old.out
    BY <1>1, <1>4 DEF Stream
<1> HIDE DEF st, taken
<1>7. Pipe(taken, st) = Pipe(got[s], old)
    BY <1>4, <1>6 DEF Pipe
<1>8. QED
    BY <1>1, <1>2, <1>4, <1>5, <1>6, <1>7, StreamStep DEF Piped

\* The connection breaks, or the goroutine of an ended stream returns.
LEMMA EndStep ==
    ASSUME IInv, NEW s \in Streams, Disconnect(s) \/ unregisterTarget(s)
    PROVE  IInv'
<1> DEFINE old == stream[s]
           st  == [old EXCEPT !.hand = <<>>, !.out = <<>>, !.wire = <<>>]
<1>1. old \in Stream /\ stream \in [Streams -> Stream]
    BY DEF IInv, TypeOK
<1>2. st \in Stream /\ st.ch = old.ch /\ Len(st.out) = 0
    <2>1. PICK none \in Seq(Commands) : none = <<>> /\ Len(none) = 0
        BY EmptySeq, Zenon
    <2>2. st = [old EXCEPT !.hand = none, !.out = none, !.wire = none]
        BY <2>1, Zenon
    <2> HIDE DEF st
    <2>3. QED
        BY <1>1, <2>1, <2>2 DEF Stream
<1>3. /\ UNCHANGED <<log, got, enqueue, restarts>>
      /\ registered' \in SUBSET registered
      /\ reader' \in [Streams -> {"new", "open", "ended"}]
      /\ reader'[s] = "ended" /\ reader[s] # "new"
      /\ \A q \in Streams \ {s} : reader'[q] = reader[q] /\ (q \in registered' <=> q \in registered)
    BY DEF Disconnect, unregisterTarget, IInv, TypeOK
<1>4. stream' = stream \/ stream' = [stream EXCEPT ![s] = st]
    BY DEF Disconnect, unregisterTarget
<1> HIDE DEF st
<1>5. /\ stream' \in [Streams -> Stream]
      /\ \A q \in Streams \ {s} : stream'[q] = stream[q]
      /\ stream'[s] \in {old, st}
    BY <1>1, <1>2, <1>4
<1>6. \A q \in Streams : Len(stream'[q].ch) <= Buffer /\ Len(stream'[q].out) <= Buffer
    <2>1. \A q \in Streams : Len(stream[q].ch) <= Buffer /\ Len(stream[q].out) <= Buffer
        BY DEF IInv, TypeOK
    <2>2. Len(st.ch) <= Buffer /\ Len(st.out) <= Buffer
        BY <1>2, <2>1, BufferAssumption
    <2>3. QED
        BY <1>5, <2>1, <2>2
<1>7. TypeOK'
    BY <1>3, <1>5, <1>6 DEF IInv, TypeOK
<1>8. InFlight'
    BY <1>3, <1>5 DEF IInv, InFlight, Piped, Unsent
<1>9. NewIsEmpty' /\ WorkerSends'
    BY <1>3, <1>5 DEF IInv, NewIsEmpty, WorkerSends
<1>10. QED
    BY <1>7, <1>8, <1>9 DEF IInv

\* A command is appended to the log, and remembered for every stream that is registered.
LEMMA EnqueueStep ==
    ASSUME IInv, NEW c \in Commands, EnqueueTargetCommand(c)
    PROVE  IInv'
<1>1. /\ enqueue = Idle /\ log' = Append(log, c)
      /\ enqueue' \in Turn(<<c>>, registered)
      /\ UNCHANGED <<registered, stream, reader, got, restarts>>
    BY DEF EnqueueTargetCommand, AppendUnseen
<1>2. log \in Seq(Commands) /\ registered \subseteq Streams
    BY DEF IInv, TypeOK
<1>3. /\ log' \in Seq(Commands) /\ log' = Then(log, <<c>>)
    BY <1>1, <1>2, AppendThen
<1>4. <<c>> \in Seq(Commands) /\ Len(<<c>>) = 1
    OBVIOUS
<1>5. /\ enqueue' \in Call
      /\ enqueue'.left = registered /\ enqueue'.at \subseteq registered
      /\ registered # {} => enqueue'.command = <<c>>
      /\ enqueue' = Idle \/ (enqueue'.left # {} /\ Len(enqueue'.command) = 1)
    <2>1. PICK one \in Seq(Commands) : one = <<c>> /\ Len(one) = 1
        BY <1>4
    <2>2. PICK streams \in SUBSET Streams : streams = registered
        BY <1>2
    <2>3. enqueue' \in Turn(one, streams)
        BY <1>1, <2>1, <2>2, Zenon
    <2>4. PICK e \in Turn(one, streams) : e = enqueue'
        BY <2>3, Zenon
    <2>5. /\ e \in Call /\ e.left = streams /\ e.at \subseteq e.left
          /\ streams # {} => e.command = one
          /\ e = Idle \/ (e.left # {} /\ Len(e.command) = 1)
        BY <2>1, TurnType, Zenon
    <2>6. QED
        BY <2>1, <2>2, <2>4, <2>5, Zenon
<1>6. TypeOK'
    BY <1>1, <1>3, <1>5 DEF IInv, TypeOK, Call
<1>7. InFlight'
    <2> SUFFICES ASSUME NEW s \in Streams, reader[s] = "open"
                 PROVE  Then(Piped(s)', Unsent(s)') = log'
        BY <1>1 DEF InFlight
    <2>1. Piped(s)' = Piped(s) /\ Unsent(s)' = <<c>>
        BY <1>1, <1>5 DEF Piped, Unsent, IInv, TypeOK
    <2>2. Unsent(s) = <<>>
        BY <1>1 DEF Unsent, Idle
    <2>3. Piped(s) \in Seq(Commands)
        BY PipeType DEF Piped, IInv, TypeOK
    <2>4. Then(Piped(s), Unsent(s)) = Piped(s)
        BY <2>2, <2>3, ThenEmpty
    <2>5. Piped(s) = log
        BY <2>4 DEF IInv, InFlight
    <2>6. QED
        BY <1>3, <2>1, <2>5
<1>8. NewIsEmpty'
    BY <1>1 DEF IInv, NewIsEmpty
<1>9. WorkerSends'
    BY <1>5 DEF WorkerSends
<1>10. QED
    BY <1>6, <1>7, <1>8, <1>9 DEF IInv

\* The command reaches the channel of one stream.
LEMMA SendStep ==
    ASSUME IInv, NEW s \in Streams, SendToStream(s)
    PROVE  IInv'
<1> DEFINE old == stream[s]
           ch  == Then(old.ch, enqueue.command)
           st  == [old EXCEPT !.ch = ch]
<1>1. /\ s \in enqueue.left /\ Len(old.ch) < Buffer
      /\ stream' = [stream EXCEPT ![s] = st]
      /\ enqueue' \in Turn(enqueue.command, enqueue.left \ {s})
      /\ UNCHANGED <<log, registered, reader, got, restarts>>
    BY DEF SendToStream, HasRoom, Then, IInv, TypeOK
<1>2. /\ old \in Stream /\ stream \in [Streams -> Stream] /\ old.ch \in Seq(Commands)
      /\ enqueue.left \in SUBSET Streams
      /\ enqueue.command \in Seq(Commands) /\ Len(enqueue.command) = 1
      /\ reader[s] # "new"
    BY <1>1 DEF IInv, TypeOK, Stream, WorkerSends, Idle
<1>3. ch \in Seq(Commands) /\ Len(ch) <= Buffer
    <2>1. ch \in Seq(Commands) /\ Len(ch) = Len(old.ch) + 1 /\ Len(old.ch) \in Nat
        BY <1>2, LenThen
    <2>2. QED
        BY <1>1, <2>1, BufferAssumption
<1> HIDE DEF ch
<1>4. /\ st \in Stream /\ st.wire = old.wire /\ st.out = old.out /\ st.hand = old.hand
      /\ st.ch = ch /\ Len(st.ch) <= Buffer
    BY <1>2, <1>3 DEF Stream
<1> HIDE DEF st
<1>5. /\ stream' \in [Streams -> Stream] /\ stream'[s] = st
      /\ \A q \in Streams \ {s} : stream'[q] = stream[q]
    BY <1>1, <1>2, <1>4
<1>6. enqueue.left \ {s} \in SUBSET Streams
    BY <1>2
<1>7. /\ enqueue' \in Call
      /\ enqueue'.left = enqueue.left \ {s} /\ enqueue'.at \subseteq enqueue'.left
      /\ enqueue'.left # {} => enqueue'.command = enqueue.command
      /\ enqueue' = Idle \/ (enqueue'.left # {} /\ Len(enqueue'.command) = 1)
    BY <1>1, <1>2, <1>6, TurnType
<1>8. \A q \in Streams : Len(stream'[q].ch) <= Buffer /\ Len(stream'[q].out) <= Buffer
    BY <1>4, <1>5 DEF IInv, TypeOK
<1>9. TypeOK'
    BY <1>1, <1>5, <1>7, <1>8 DEF IInv, TypeOK, Call
<1>10. InFlight'
    <2> SUFFICES ASSUME NEW q \in Streams, reader[q] = "open"
                 PROVE  Then(Piped(q)', Unsent(q)') = log
        BY <1>1 DEF InFlight
    <2>1. Then(Piped(q), Unsent(q)) = log
        BY DEF IInv, InFlight
    <2>2. CASE q # s
        BY <1>1, <1>5, <1>7, <2>1, <2>2 DEF Piped, Unsent
    <2>3. CASE q = s
        <3> DEFINE p == Then(Then(Then(got[s], old.wire), old.out), old.hand)
        <3>1. /\ Unsent(s) = enqueue.command /\ Unsent(s)' = <<>>
            BY <1>1, <1>7 DEF Unsent
        <3>2. Piped(s)' = Then(p, Then(old.ch, enqueue.command)) /\ Piped(s) = Then(p, old.ch)
            BY <1>1, <1>4, <1>5 DEF Piped, Pipe, ch
        <3>3. p \in Seq(Commands) /\ got[s] \in Seq(Commands)
            BY <1>2, PipeType DEF IInv, TypeOK
        <3>4. old.ch \in Seq(Commands) /\ enqueue.command \in Seq(Commands)
            BY <1>2
        <3> HIDE DEF p, old
        <3>5. /\ Then(p, Then(old.ch, enqueue.command)) = Then(Then(p, old.ch), enqueue.command)
              /\ Then(p, Then(old.ch, enqueue.command)) \in Seq(Commands)
            <4>1. PICK x, y \in Seq(Commands) : x = old.ch /\ y = enqueue.command
                BY <3>4
            <4>2. /\ Then(p, Then(x, y)) = Then(Then(p, x), y)
                  /\ Then(x, y) \in Seq(Commands) /\ Then(p, Then(x, y)) \in Seq(Commands)
                BY <3>3, ThenAssociative
            <4>3. QED
                BY <4>1, <4>2, Zenon
        <3>6. Then(Piped(s)', Unsent(s)') = Piped(s)'
            <4>1. PICK queue \in Seq(Commands) : queue = Piped(s)'
                BY <3>2, <3>5, Zenon
            <4>2. Then(queue, Unsent(s)') = queue
                BY <3>1, ThenEmpty
            <4>3. QED
                BY <4>1, <4>2, Zenon
        <3>7. QED
            BY <2>1, <2>3, <3>1, <3>2, <3>5, <3>6
    <2>4. QED
        BY <2>2, <2>3
<1>11. NewIsEmpty'
    BY <1>1, <1>2, <1>5 DEF IInv, NewIsEmpty
<1>12. WorkerSends'
    BY <1>7 DEF WorkerSends
<1>13. QED
    BY <1>9, <1>10, <1>11, <1>12 DEF IInv

\* A stream is registered with the commands enqueued so far.
LEMMA RegisterStep ==
    ASSUME IInv, NEW s \in Streams, RegisterTarget(s)
    PROVE  IInv'
<1> DEFINE st == [stream[s] EXCEPT !.hand = log]
<1>1. /\ reader[s] = "new" /\ reader' = [reader EXCEPT ![s] = "open"]
      /\ registered' = registered \cup {s}
      /\ stream' = [stream EXCEPT ![s] = st]
      /\ UNCHANGED <<log, got, enqueue, restarts>>
    BY DEF RegisterTarget, Replay
<1>2. /\ stream[s] \in Stream /\ stream \in [Streams -> Stream] /\ log \in Seq(Commands)
      /\ reader \in [Streams -> {"new", "open", "ended"}] /\ s \notin enqueue.left
    BY <1>1 DEF IInv, TypeOK
<1>3. /\ stream[s].wire = <<>> /\ stream[s].out = <<>> /\ stream[s].ch = <<>>
      /\ got[s] = <<>>
    BY <1>1 DEF IInv, NewIsEmpty, Closed
<1>4. /\ st \in Stream /\ st.hand = log /\ st.wire = stream[s].wire
      /\ st.out = stream[s].out /\ st.ch = stream[s].ch
    BY <1>2 DEF Stream
<1> HIDE DEF st
<1>5. /\ stream' \in [Streams -> Stream] /\ stream'[s] = st
      /\ \A q \in Streams \ {s} : stream'[q] = stream[q]
    BY <1>1, <1>2, <1>4
<1>6. /\ reader' \in [Streams -> {"new", "open", "ended"}] /\ reader'[s] = "open"
      /\ \A q \in Streams \ {s} : reader'[q] = reader[q]
    BY <1>1, <1>2
<1>7. \A q \in Streams : Len(stream'[q].ch) <= Buffer /\ Len(stream'[q].out) <= Buffer
    BY <1>4, <1>5 DEF IInv, TypeOK
<1>8. TypeOK'
    BY <1>1, <1>5, <1>6, <1>7 DEF IInv, TypeOK
<1>9. InFlight'
    <2> SUFFICES ASSUME NEW q \in Streams, reader'[q] = "open"
                 PROVE  Then(Piped(q)', Unsent(q)') = log
        BY <1>1 DEF InFlight
    <2>1. CASE q # s
        BY <1>1, <1>5, <1>6, <2>1 DEF Piped, Unsent, IInv, InFlight
    <2>2. CASE q = s
        <3> DEFINE none == got[s]
        <3>1. /\ none = <<>> /\ st.wire = none /\ st.out = none /\ st.ch = none
              /\ Unsent(s)' = none
            BY <1>1, <1>2, <1>3, <1>4 DEF Unsent
        <3>2. Piped(s)' = Then(Then(Then(Then(none, none), none), log), none)
            BY <1>1, <1>4, <1>5, <3>1 DEF Piped, Pipe
        <3>3. none \in Seq(Commands)
            BY DEF IInv, TypeOK
        <3> HIDE DEF none
        <3>4. Then(none, none) = none
            BY <3>1, <3>3, ThenEmpty
        <3>5. Then(none, log) = log /\ Then(log, none) = log
            BY <1>2, <3>1, ThenEmpty
        <3>6. QED
            BY <2>2, <3>1, <3>2, <3>4, <3>5
    <2>3. QED
        BY <2>1, <2>2
<1>10. NewIsEmpty' /\ WorkerSends'
    BY <1>1, <1>5, <1>6 DEF IInv, NewIsEmpty, WorkerSends
<1>11. QED
    BY <1>8, <1>9, <1>10 DEF IInv

\* A restart ends every stream.
LEMMA RestartStep ==
    ASSUME IInv, Restart
    PROVE  IInv'
<1>1. /\ log' = <<>> /\ registered' = {} /\ enqueue' = Idle
      /\ stream' = [s \in Streams |-> Closed] /\ got' = got
      /\ reader' = [s \in Streams |-> IF reader[s] = "open" THEN "ended" ELSE reader[s]]
    BY DEF Restart
<1>2. Closed \in Stream /\ Len(Closed.ch) = 0 /\ Len(Closed.out) = 0
    BY DEF Closed, Stream
<1>3. restarts' \in 0..MaxRestarts
    BY RestartsAssumption DEF Restart, IInv, TypeOK
<1>4. /\ enqueue' \in Call /\ enqueue'.left = {} /\ enqueue'.at = {}
    BY <1>1 DEF Idle, Call
<1>5. /\ reader' \in [Streams -> {"new", "open", "ended"}]
      /\ \A s \in Streams : reader'[s] # "open" /\ (reader'[s] = "new" => reader[s] = "new")
    BY <1>1 DEF IInv, TypeOK
<1>6. TypeOK'
    BY <1>1, <1>2, <1>3, <1>4, <1>5, BufferAssumption DEF IInv, TypeOK, Call
<1>7. InFlight' /\ NewIsEmpty' /\ WorkerSends'
    BY <1>1, <1>5 DEF IInv, InFlight, NewIsEmpty, WorkerSends
<1>8. QED
    BY <1>6, <1>7 DEF IInv

\* Every step keeps the invariant.
LEMMA Inductive == IInv /\ [Next]_vars => IInv'
<1> SUFFICES ASSUME IInv, [Next]_vars PROVE IInv'
    OBVIOUS
<1>1. CASE Worker
    BY <1>1, EnqueueStep, SendStep DEF Worker
<1>2. ASSUME NEW s \in Streams, RegisterTarget(s) \/ Serve(s) \/ Disconnect(s) PROVE IInv'
    BY <1>2, RegisterStep, ReceiveStep, ForwardStep, SendMsgStep, TakeStep, EndStep DEF Serve
<1>3. CASE UNCHANGED vars
    BY <1>3 DEF vars, IInv, TypeOK, InFlight, NewIsEmpty, WorkerSends, Piped, Unsent
<1>4. QED
    BY <1>1, <1>2, <1>3, RestartStep DEF Next

\* The invariant always holds.
LEMMA Invariant == Spec => []IInv
BY InitInv, Inductive, PTL DEF Spec

-----------------------------------------------------------------------------
(* Theorems                                                                *)

\* Channels never hold more than their capacity, and streams are registered as long as
\* they are open.
THEOREM TypeCorrect == Spec => []TypeOK
<1>1. IInv => TypeOK
    BY DEF IInv
<1>2. QED
    BY <1>1, Invariant, PTL

\* A target that takes a command takes the next one of the log.
LEMMA TakesNext ==
    ASSUME IInv, NEW s \in Streams, reader[s] = "open", stream[s].wire # <<>>
    PROVE  /\ Len(got[s]) < Len(log)
           /\ log[Len(got[s]) + 1] = Head(stream[s].wire)
<1> DEFINE st == stream[s]
           g  == got[s]
           i  == Len(g) + 1
           a  == Then(g, st.wire)
           b  == Then(a, st.out)
           c  == Then(b, st.hand)
           d  == Then(c, st.ch)
           u  == Unsent(s)
<1>1. /\ g \in Seq(Commands) /\ st.wire \in Seq(Commands) /\ st.out \in Seq(Commands)
      /\ st.hand \in Seq(Commands) /\ st.ch \in Seq(Commands)
    BY DEF IInv, TypeOK, Stream
<1>2. u \in Seq(Commands)
    <2>1. <<>> \in Seq(Commands) /\ enqueue.command \in Seq(Commands)
        BY DEF IInv, TypeOK
    <2>2. QED
        BY <2>1 DEF Unsent
<1>3. log = Then(d, u)
    BY DEF IInv, InFlight, Piped, Pipe
<1>4. a \in Seq(Commands) /\ Len(g) < Len(a) /\ a[i] = Head(st.wire)
    <2> HIDE DEF st, g
    <2>1. a \in Seq(Commands)
        BY <1>1, ThenAssociative
    <2>2. st.wire # <<>>
        BY DEF st
    <2>3. QED
        BY <1>1, <2>1, <2>2, NextOfPrefix
<1>5. i \in 1..Len(a)
    BY <1>1, <1>4
<1> HIDE DEF a, st, g, u, i
<1>6. b \in Seq(Commands) /\ i \in 1..Len(b) /\ b[i] = a[i]
    BY <1>1, <1>4, <1>5, Beginning
<1> HIDE DEF b
<1>7. c \in Seq(Commands) /\ i \in 1..Len(c) /\ c[i] = b[i]
    BY <1>1, <1>6, Beginning
<1> HIDE DEF c
<1>8. d \in Seq(Commands) /\ i \in 1..Len(d) /\ d[i] = c[i]
    BY <1>1, <1>7, Beginning
<1> HIDE DEF d
<1>9. i \in 1..Len(log) /\ log[i] = d[i]
    BY <1>2, <1>3, <1>8, Beginning
<1>10. Len(g) < Len(log)
    BY <1>1, <1>9 DEF i
<1>11. QED
    BY <1>4, <1>6, <1>7, <1>8, <1>9, <1>10 DEF i, g, st

\* Streams show the log: whatever the race between a registration, a command being sent
\* and a stream going away, every step of the service is a step of the abstract log, or
\* none of its variables changes.
LEMMA StepRefines == IInv /\ [Next]_vars => [Log!Next]_Log!vars
<1> SUFFICES ASSUME IInv, [Next]_vars PROVE Log!Next \/ UNCHANGED Log!vars
    OBVIOUS
<1>1. ASSUME NEW c \in Commands, EnqueueTargetCommand(c) PROVE Log!Write(c)
    BY <1>1 DEF EnqueueTargetCommand, AppendUnseen, Range, Log!Write, Log!Range
<1>2. ASSUME NEW s \in Streams, RegisterTarget(s) PROVE Log!Open(s)
    BY <1>2 DEF RegisterTarget, Log!Open
<1>3. ASSUME NEW s \in Streams, Disconnect(s) PROVE Log!Close(s)
    BY <1>3 DEF Disconnect, Log!Close
<1>4. ASSUME NEW s \in Streams, TakeCommand(s) PROVE Log!Read(s)
    <2>1. reader[s] = "open" /\ stream[s].wire # <<>>
        BY <1>4 DEF TakeCommand
    <2>2. Len(got[s]) < Len(log) /\ log[Len(got[s]) + 1] = Head(stream[s].wire)
        BY <2>1, TakesNext
    <2>3. got' = [got EXCEPT ![s] = Append(@, log[Len(@) + 1])]
        BY <1>4, <2>2 DEF TakeCommand
    <2>4. reader' \in {reader, [reader EXCEPT ![s] = "ended"]} /\ log' = log
        BY <1>4 DEF TakeCommand
    <2>5. QED
        BY <2>1, <2>2, <2>3, <2>4 DEF Log!Read
<1>5. ASSUME Restart PROVE Log!Reset
    BY <1>5 DEF Restart, Log!Reset
<1>6. ASSUME NEW s \in Streams,
             SendToStream(s) \/ Receive(s) \/ Forward(s) \/ SendMsg(s) \/ unregisterTarget(s)
      PROVE  UNCHANGED Log!vars
    BY <1>6 DEF SendToStream, Receive, Forward, SendMsg, unregisterTarget, Log!vars
<1>7. CASE UNCHANGED vars
    BY <1>7 DEF vars, Log!vars
<1>8. QED
    BY <1>1, <1>2, <1>3, <1>4, <1>5, <1>6, <1>7 DEF Next, Worker, Serve, Log!Next

\* control.Service implements the command log, fairness apart: a target is handed the
\* commands in the order they were enqueued, from the first, each once.
THEOREM ServiceRefinesLog == Spec => Log!Spec
<1>1. Init => Log!Init
    BY DEF Init, Log!Init
<1>2. QED
    BY <1>1, StepRefines, Invariant, PTL DEF Spec, Log!Spec

=============================================================================
