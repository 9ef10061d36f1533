--------------------------- MODULE EventHubProofs ---------------------------
(***************************************************************************)
(* Subscribers of the event hub get each event once, the events of a       *)
(* reporter in order, and lose events only to full channels, for any       *)
(* number of runs, reporters and subscribers, any replay limit and any     *)
(* channel capacity.                                                       *)
(*                                                                         *)
(* What a subscription carries is in four sequences; StreamOK orders the   *)
(* events within and between them, so that every step that moves an event  *)
(* is a fact about sequences alone.  Pending ties the calls that still     *)
(* deliver to them: a call holds the latest event of its reporter and has  *)
(* each of its remaining subscribers once, none of which has the event.    *)
(* ReplayKept says that the replay of a run holds exactly the events with  *)
(* fewer than ReplayLimit later ones, which is what a new subscription is  *)
(* owed of the past.                                                       *)
(***************************************************************************)
EXTENDS EventHub, FiniteSetTheorems, TLAPS

\* Event b may follow event a: another event, and a later one of the same reporter.
Before(h, a, b)  == a # b /\ (h[a] = h[b] => a < b)
Ordered(h, q)    == \A i, j \in 1..Len(q) : i < j => Before(h, q[i], q[j])
Precede(h, A, B) == \A a \in A, b \in B : Before(h, a, b)

\* The events of a subscription: g taken, o in out, n with the goroutine, c in ch.
StreamOK(h, g, o, n, c) ==
    /\ g \in Seq(1..Len(h)) /\ o \in Seq(1..Len(h))
    /\ n \in Seq(1..Len(h)) /\ c \in Seq(1..Len(h))
    /\ Ordered(h, g) /\ Ordered(h, o) /\ Ordered(h, n) /\ Ordered(h, c)
    /\ Precede(h, Range(g), Range(o) \cup Range(n) \cup Range(c))
    /\ Precede(h, Range(o), Range(n) \cup Range(c))
    /\ Precede(h, Range(n), Range(c))

Carried(g, o, n, c) == Range(g) \cup Range(o) \cup Range(n) \cup Range(c)

On(s) == Carried(got[s], sub[s].out, sub[s].hand, sub[s].ch)

Streams == \A s \in Subscribers :
    StreamOK(history, got[s], sub[s].out, sub[s].hand, sub[s].ch)

\* A call that delivers has the latest event of its reporter and no subscriber twice.
Pending == \A p \in Reporters : call[p] # Returned =>
    /\ call[p].event \in 1..Len(history) /\ history[call[p].event] = p
    /\ \A x \in 1..Len(history) : history[x] = p => x <= call[p].event
    /\ \A i, j \in 1..Len(call[p].to) : i # j => call[p].to[i] # call[p].to[j]

\* Those it has yet to serve have subscribed and do not have the event.
Unserved == \A p \in Reporters : \A s \in Range(call[p].to) :
    /\ call[p].event \notin On(s)
    /\ reader[s] # "new"

\* A subscription carries nothing before it is made, and is registered while it is read.
Members == /\ IsFiniteSet(registered)
           /\ \A s \in Subscribers :
                 /\ reader[s] = "new" => On(s) = {} /\ s \notin registered
                 /\ reader[s] \in {"reading", "stalled"} => s \in registered

\* The events of run k in history h, and those of them after e.
OfRun(h, k)    == {x \in 1..Len(h) : RunOf[h[x]] = k}
Later(h, k, e) == {x \in OfRun(h, k) : x > e}

\* The replay of a run holds its last events.
ReplayKept == \A k \in Runs :
    /\ \A i \in 1..Len(replay[k]) :
          /\ replay[k][i] \in OfRun(history, k)
          /\ Cardinality(Later(history, k, replay[k][i])) = Len(replay[k]) - i
    /\ \A e \in OfRun(history, k) \ Range(replay[k]) : Cardinality(Later(history, k, e)) >= ReplayLimit

\* NothingSlipsThrough, with what the subscription carries as a set.
Accounted == \A s \in Subscribers : reader[s] \in {"reading", "stalled"} =>
    \A e \in Owed(s) \ (On(s) \cup dropped[s]) :
        \E p \in Reporters : call[p].event = e /\ s \in Range(call[p].to)

IInv == TypeOK /\ Streams /\ Pending /\ Unserved /\ Members /\ ReplayKept /\ Accounted

-----------------------------------------------------------------------------
(* Sequences of events                                                     *)

\* The elements of sequences.
LEMMA RangeIn ==
    ASSUME NEW S, NEW q \in Seq(S)
    PROVE  Range(q) = {q[i] : i \in 1..Len(q)} /\ Range(q) \subseteq S
<1>1. DOMAIN q = 1..Len(q)
    OBVIOUS
<1>2. \A i \in 1..Len(q) : q[i] \in S
    OBVIOUS
<1>3. QED
    BY <1>1, <1>2, Zenon DEF Range

LEMMA RangeEmpty == Range(<<>>) = {}
BY DEF Range

LEMMA RangeOne == \A x : Range(<<x>>) = {x}
BY DEF Range

LEMMA RangeAppend ==
    ASSUME NEW S, NEW q \in Seq(S), NEW x \in S
    PROVE  Range(Append(q, x)) = Range(q) \cup {x}
<1>1. Append(q, x) \in Seq(S) /\ Len(Append(q, x)) = Len(q) + 1 /\ Len(q) \in Nat
    OBVIOUS
<1>2. /\ \A i \in 1..Len(q) : i \in 1..(Len(q) + 1) /\ Append(q, x)[i] = q[i]
      /\ Len(q) + 1 \in 1..(Len(q) + 1) /\ Append(q, x)[Len(q) + 1] = x
      /\ \A i \in 1..(Len(q) + 1) : i \in 1..Len(q) \/ i = Len(q) + 1
    BY <1>1
<1>3. /\ Range(q) = {q[i] : i \in 1..Len(q)}
      /\ Range(Append(q, x)) = {Append(q, x)[i] : i \in 1..(Len(q) + 1)}
    BY <1>1, RangeIn
<1>4. QED
    BY <1>2, <1>3, Zenon

LEMMA RangeTail ==
    ASSUME NEW S, NEW q \in Seq(S), q # <<>>
    PROVE  /\ Head(q) \in S /\ Tail(q) \in Seq(S)
           /\ Range(q) = {Head(q)} \cup Range(Tail(q))
<1>1. /\ Head(q) \in S /\ Tail(q) \in Seq(S) /\ Len(q) \in Nat \ {0} /\ Head(q) = q[1]
      /\ Len(Tail(q)) = Len(q) - 1
    OBVIOUS
<1>2. /\ \A i \in 1..(Len(q) - 1) : i + 1 \in 1..Len(q) /\ Tail(q)[i] = q[i + 1]
      /\ 1 \in 1..Len(q)
      /\ \A i \in 1..Len(q) : i = 1 \/ (i - 1 \in 1..(Len(q) - 1) /\ Tail(q)[i - 1] = q[i])
    BY <1>1
<1>3. /\ Range(q) = {q[i] : i \in 1..Len(q)}
      /\ Range(Tail(q)) = {Tail(q)[i] : i \in 1..(Len(q) - 1)}
    BY <1>1, RangeIn
<1>4. Range(q) \subseteq {Head(q)} \cup Range(Tail(q))
    <2>1. SUFFICES ASSUME NEW i \in 1..Len(q), q[i] # Head(q)
                   PROVE  q[i] \in Range(Tail(q))
        BY <1>3
    <2>2. i - 1 \in 1..(Len(q) - 1) /\ Tail(q)[i - 1] = q[i]
        BY <1>1, <1>2, <2>1
    <2>3. QED
        BY <1>3, <2>2
<1>5. Range(Tail(q)) \subseteq Range(q) /\ Head(q) \in Range(q)
    BY <1>1, <1>2, <1>3
<1>6. QED
    BY <1>1, <1>4, <1>5

\* ... and their order.
LEMMA OrderedAppend ==
    ASSUME NEW h, NEW S, NEW q \in Seq(S), NEW x \in S,
           Ordered(h, q), Precede(h, Range(q), {x})
    PROVE  Ordered(h, Append(q, x))
<1>1. Len(Append(q, x)) = Len(q) + 1 /\ Len(q) \in Nat
    OBVIOUS
<1>2. /\ \A i \in 1..Len(q) : Append(q, x)[i] = q[i] /\ Before(h, q[i], x)
      /\ Append(q, x)[Len(q) + 1] = x
    BY RangeIn DEF Precede
<1>3. SUFFICES ASSUME NEW i \in 1..(Len(q) + 1), NEW j \in 1..(Len(q) + 1), i < j
               PROVE  Before(h, Append(q, x)[i], Append(q, x)[j])
    BY <1>1 DEF Ordered
<1>4. i \in 1..Len(q) /\ (j \in 1..Len(q) \/ j = Len(q) + 1)
    BY <1>1, <1>3
<1>5. QED
    BY <1>2, <1>3, <1>4 DEF Ordered

LEMMA OrderedTail ==
    ASSUME NEW h, NEW S, NEW q \in Seq(S), q # <<>>, Ordered(h, q)
    PROVE  Ordered(h, Tail(q)) /\ Precede(h, {Head(q)}, Range(Tail(q)))
<1>1. /\ Head(q) = q[1] /\ Len(Tail(q)) = Len(q) - 1 /\ Len(q) \in Nat \ {0}
      /\ Tail(q) \in Seq(S)
    OBVIOUS
<1>2. \A i \in 1..(Len(q) - 1) : i + 1 \in 1..Len(q) /\ Tail(q)[i] = q[i + 1]
    BY <1>1
<1>3. Ordered(h, Tail(q))
    <2>1. SUFFICES ASSUME NEW i \in 1..(Len(q) - 1), NEW j \in 1..(Len(q) - 1), i < j
                   PROVE  Before(h, Tail(q)[i], Tail(q)[j])
        BY <1>1 DEF Ordered
    <2>2. i + 1 \in 1..Len(q) /\ j + 1 \in 1..Len(q) /\ i + 1 < j + 1
        BY <1>2, <2>1
    <2>3. Before(h, q[i + 1], q[j + 1])
        BY <2>2 DEF Ordered
    <2>4. QED
        BY <1>2, <2>3
<1>4. \A i \in 1..(Len(q) - 1) : Before(h, q[1], q[i + 1])
    <2>1. \A i \in 1..(Len(q) - 1) : 1 \in 1..Len(q) /\ 1 < i + 1
        BY <1>1
    <2>2. QED
        BY <1>2, <2>1 DEF Ordered
<1>5. Range(Tail(q)) = {Tail(q)[i] : i \in 1..(Len(q) - 1)}
    BY <1>1, RangeIn
<1>6. QED
    BY <1>1, <1>2, <1>3, <1>4, <1>5 DEF Precede

LEMMA OrderedShort == \A h : Ordered(h, <<>>) /\ \A x : Ordered(h, <<x>>)
BY DEF Ordered

\* The concatenation of two sequences.
LEMMA Joined ==
    ASSUME NEW h, NEW S, NEW u \in Seq(S), NEW v \in Seq(S)
    PROVE  /\ u \o v \in Seq(S)
           /\ Range(u \o v) = Range(u) \cup Range(v)
           /\ Ordered(h, u) /\ Ordered(h, v) /\ Precede(h, Range(u), Range(v)) =>
                 Ordered(h, u \o v)
<1> DEFINE w == u \o v
<1>1. /\ w \in Seq(S) /\ Len(w) = Len(u) + Len(v) /\ Len(u) \in Nat /\ Len(v) \in Nat
      /\ \A i \in 1..Len(u) : w[i] = u[i]
      /\ \A i \in 1..Len(v) : w[Len(u) + i] = v[i]
    OBVIOUS
<1> HIDE DEF w
<1>2. /\ Range(u) = {u[i] : i \in 1..Len(u)} /\ Range(v) = {v[i] : i \in 1..Len(v)}
      /\ Range(w) = {w[i] : i \in 1..Len(w)}
    BY <1>1, RangeIn
<1>3. /\ \A i \in 1..Len(w) : \/ i \in 1..Len(u) /\ w[i] = u[i]
                              \/ i - Len(u) \in 1..Len(v) /\ w[i] = v[i - Len(u)]
      /\ \A i \in 1..Len(u) : i \in 1..Len(w)
      /\ \A i \in 1..Len(v) : Len(u) + i \in 1..Len(w)
    <2>1. ASSUME NEW i \in 1..Len(w), i \notin 1..Len(u)
          PROVE  i - Len(u) \in 1..Len(v) /\ w[i] = v[i - Len(u)]
        <3>1. i - Len(u) \in 1..Len(v) /\ Len(u) + (i - Len(u)) = i
            BY <1>1, <2>1
        <3>2. QED
            BY <1>1, <3>1
    <2>2. QED
        BY <1>1, <2>1
<1>4. Range(w) = Range(u) \cup Range(v)
    <2>1. Range(w) \subseteq Range(u) \cup Range(v)
        BY <1>2, <1>3
    <2>2. Range(u) \subseteq Range(w) /\ Range(v) \subseteq Range(w)
        BY <1>1, <1>2, <1>3
    <2>3. QED
        BY <2>1, <2>2
<1>5. ASSUME Ordered(h, u), Ordered(h, v), Precede(h, Range(u), Range(v))
      PROVE  Ordered(h, w)
    <2>1. SUFFICES ASSUME NEW i \in 1..Len(w), NEW j \in 1..Len(w), i < j
                   PROVE  Before(h, w[i], w[j])
        BY DEF Ordered
    <2>2. CASE i \in 1..Len(u) /\ j \in 1..Len(u)
        BY <1>1, <1>5, <2>1, <2>2 DEF Ordered
    <2>3. CASE i \in 1..Len(u) /\ j \notin 1..Len(u)
        <3>1. w[i] = u[i] /\ u[i] \in Range(u)
            BY <1>1, <1>2, <2>3
        <3>2. w[j] = v[j - Len(u)] /\ v[j - Len(u)] \in Range(v)
            BY <1>2, <1>3, <2>3
        <3>3. QED
            BY <1>5, <3>1, <3>2 DEF Precede
    <2>4. CASE i \notin 1..Len(u)
        <3>1. j \notin 1..Len(u) /\ i - Len(u) < j - Len(u)
            BY <1>1, <2>1, <2>4
        <3>2. QED
            BY <1>3, <1>5, <2>4, <3>1 DEF Ordered
    <2>5. QED
        BY <2>2, <2>3, <2>4
<1>6. QED
    BY <1>1, <1>4, <1>5 DEF w

-----------------------------------------------------------------------------
(* A subscription's events on their way                                    *)

\* The oldest event of ch is dropped.
LEMMA HeadOfCh ==
    ASSUME NEW h, NEW g, NEW o, NEW n, NEW c, StreamOK(h, g, o, n, c), c # <<>>
    PROVE  /\ StreamOK(h, g, o, n, Tail(c))
           /\ Carried(g, o, n, c) = Carried(g, o, n, Tail(c)) \cup {Head(c)}
           /\ Head(c) \in 1..Len(h)
<1>1. /\ Tail(c) \in Seq(1..Len(h)) /\ Head(c) \in 1..Len(h)
      /\ Range(c) = {Head(c)} \cup Range(Tail(c))
    BY RangeTail DEF StreamOK
<1>2. Ordered(h, Tail(c)) /\ Precede(h, {Head(c)}, Range(Tail(c)))
    BY OrderedTail DEF StreamOK
<1>3. StreamOK(h, g, o, n, Tail(c))
    BY <1>1, <1>2 DEF StreamOK, Precede
<1>4. QED
    BY <1>1, <1>3 DEF Carried

\* The goroutine takes it.
LEMMA HandTakes ==
    ASSUME NEW h, NEW g, NEW o, NEW n, NEW c, StreamOK(h, g, o, n, c), c # <<>>, n = <<>>,
           NEW one, one = <<Head(c)>>
    PROVE  /\ StreamOK(h, g, o, one, Tail(c))
           /\ Carried(g, o, one, Tail(c)) = Carried(g, o, n, c)
<1>1. /\ Tail(c) \in Seq(1..Len(h)) /\ Head(c) \in 1..Len(h)
      /\ Range(c) = {Head(c)} \cup Range(Tail(c))
    BY RangeTail DEF StreamOK
<1>2. Ordered(h, Tail(c)) /\ Precede(h, {Head(c)}, Range(Tail(c)))
    BY OrderedTail DEF StreamOK
<1>3. one \in Seq(1..Len(h)) /\ Range(one) = {Head(c)} /\ Ordered(h, one)
    BY <1>1, RangeOne, OrderedShort
<1>4. Range(n) = {}
    BY RangeEmpty
<1>5. StreamOK(h, g, o, one, Tail(c))
    <2>1. StreamOK(h, g, o, n, Tail(c))
        BY HeadOfCh
    <2>2. Precede(h, Range(g), {Head(c)}) /\ Precede(h, Range(o), {Head(c)})
        BY <1>1 DEF StreamOK, Precede
    <2>3. QED
        BY <1>2, <1>3, <2>1, <2>2 DEF StreamOK, Precede
<1>6. QED
    BY <1>1, <1>3, <1>4, <1>5 DEF Carried

\* The goroutine forwards an event.
LEMMA HeadOfHand ==
    ASSUME NEW h, NEW g, NEW o, NEW n, NEW c, StreamOK(h, g, o, n, c), n # <<>>
    PROVE  /\ StreamOK(h, g, Append(o, Head(n)), Tail(n), c)
           /\ Carried(g, Append(o, Head(n)), Tail(n), c) = Carried(g, o, n, c)
           /\ Head(n) \in 1..Len(h)
<1>1. /\ Tail(n) \in Seq(1..Len(h)) /\ Head(n) \in 1..Len(h)
      /\ Range(n) = {Head(n)} \cup Range(Tail(n))
    BY RangeTail DEF StreamOK
<1>2. Ordered(h, Tail(n)) /\ Precede(h, {Head(n)}, Range(Tail(n)))
    BY OrderedTail DEF StreamOK
<1>3. Precede(h, Range(o), {Head(n)})
    BY <1>1 DEF StreamOK, Precede
<1> DEFINE more == Append(o, Head(n))
<1>4. /\ more \in Seq(1..Len(h)) /\ Range(more) = Range(o) \cup {Head(n)}
      /\ Ordered(h, more)
    <2>1. o \in Seq(1..Len(h)) /\ Ordered(h, o)
        BY DEF StreamOK
    <2>2. more \in Seq(1..Len(h))
        BY <1>1, <2>1
    <2>3. Range(more) = Range(o) \cup {Head(n)}
        BY <1>1, <2>1, RangeAppend
    <2>4. Ordered(h, more)
        BY <1>1, <1>3, <2>1, OrderedAppend
    <2>5. QED
        BY <2>2, <2>3, <2>4
<1> HIDE DEF more
<1>5. StreamOK(h, g, more, Tail(n), c)
    <2>1. /\ Precede(h, Range(g), Range(o) \cup Range(n) \cup Range(c))
          /\ Precede(h, Range(o), Range(n) \cup Range(c))
          /\ Precede(h, Range(n), Range(c))
        BY DEF StreamOK
    <2>2. Precede(h, Range(g), Range(more) \cup Range(Tail(n)) \cup Range(c))
        BY <1>1, <1>2, <1>4, <2>1 DEF Precede
    <2>3. Precede(h, Range(more), Range(Tail(n)) \cup Range(c))
        BY <1>1, <1>2, <1>4, <2>1 DEF Precede
    <2>4. Precede(h, Range(Tail(n)), Range(c))
        BY <1>1, <1>2, <1>4, <2>1 DEF Precede
    <2>5. QED
        BY <1>1, <1>2, <1>4, <2>2, <2>3, <2>4 DEF StreamOK
<1>6. Carried(g, more, Tail(n), c) = Carried(g, o, n, c)
    BY <1>1, <1>4 DEF Carried
<1>7. QED
    BY <1>1, <1>5, <1>6 DEF more

\* The reader takes an event.
LEMMA HeadOfOut ==
    ASSUME NEW h, NEW g, NEW o, NEW n, NEW c, StreamOK(h, g, o, n, c), o # <<>>
    PROVE  /\ StreamOK(h, Append(g, Head(o)), Tail(o), n, c)
           /\ Carried(Append(g, Head(o)), Tail(o), n, c) = Carried(g, o, n, c)
           /\ Head(o) \in 1..Len(h)
<1>1. /\ Tail(o) \in Seq(1..Len(h)) /\ Head(o) \in 1..Len(h)
      /\ Range(o) = {Head(o)} \cup Range(Tail(o))
    BY RangeTail DEF StreamOK
<1>2. Ordered(h, Tail(o)) /\ Precede(h, {Head(o)}, Range(Tail(o)))
    BY OrderedTail DEF StreamOK
<1>3. Precede(h, Range(g), {Head(o)})
    BY <1>1 DEF StreamOK, Precede
<1> DEFINE more == Append(g, Head(o))
<1>4. /\ more \in Seq(1..Len(h)) /\ Range(more) = Range(g) \cup {Head(o)}
      /\ Ordered(h, more)
    <2>1. g \in Seq(1..Len(h)) /\ Ordered(h, g)
        BY DEF StreamOK
    <2>2. more \in Seq(1..Len(h))
        BY <1>1, <2>1
    <2>3. Range(more) = Range(g) \cup {Head(o)}
        BY <1>1, <2>1, RangeAppend
    <2>4. Ordered(h, more)
        BY <1>1, <1>3, <2>1, OrderedAppend
    <2>5. QED
        BY <2>2, <2>3, <2>4
<1> HIDE DEF more
<1>5. StreamOK(h, more, Tail(o), n, c)
    <2>1. /\ Precede(h, Range(g), Range(o) \cup Range(n) \cup Range(c))
          /\ Precede(h, Range(o), Range(n) \cup Range(c))
          /\ Precede(h, Range(n), Range(c))
        BY DEF StreamOK
    <2>2. Precede(h, Range(more), Range(Tail(o)) \cup Range(n) \cup Range(c))
        BY <1>1, <1>2, <1>4, <2>1 DEF Precede
    <2>3. Precede(h, Range(Tail(o)), Range(n) \cup Range(c))
        BY <1>1, <1>2, <1>4, <2>1 DEF Precede
    <2>4. Precede(h, Range(n), Range(c))
        BY <1>1, <1>2, <1>4, <2>1 DEF Precede
    <2>5. QED
        BY <1>1, <1>2, <1>4, <2>2, <2>3, <2>4 DEF StreamOK
<1>6. Carried(more, Tail(o), n, c) = Carried(g, o, n, c)
    BY <1>1, <1>4 DEF Carried
<1>7. QED
    BY <1>1, <1>5, <1>6 DEF more

\* A publisher delivers an event that may follow all others.
LEMMA EndOfCh ==
    ASSUME NEW h, NEW g, NEW o, NEW n, NEW c, StreamOK(h, g, o, n, c),
           NEW e \in 1..Len(h), Precede(h, Carried(g, o, n, c), {e})
    PROVE  /\ StreamOK(h, g, o, n, Append(c, e))
           /\ Carried(g, o, n, Append(c, e)) = Carried(g, o, n, c) \cup {e}
<1>1. Precede(h, Range(c), {e})
    BY DEF Precede, Carried
<1> DEFINE more == Append(c, e)
<1>2. /\ more \in Seq(1..Len(h)) /\ Range(more) = Range(c) \cup {e}
      /\ Ordered(h, more)
    <2>1. c \in Seq(1..Len(h)) /\ Ordered(h, c)
        BY DEF StreamOK
    <2>2. more \in Seq(1..Len(h))
        BY <1>1, <2>1
    <2>3. Range(more) = Range(c) \cup {e}
        BY <1>1, <2>1, RangeAppend
    <2>4. Ordered(h, more)
        BY <1>1, <2>1, OrderedAppend
    <2>5. QED
        BY <2>2, <2>3, <2>4
<1> HIDE DEF more
<1>3. StreamOK(h, g, o, n, more)
    <2>1. /\ Precede(h, Range(g), Range(o) \cup Range(n) \cup Range(c))
          /\ Precede(h, Range(o), Range(n) \cup Range(c))
          /\ Precede(h, Range(n), Range(c))
        BY DEF StreamOK
    <2>2. Precede(h, Range(g), Range(o) \cup Range(n) \cup Range(more))
        BY <1>2, <2>1 DEF Precede, Carried
    <2>3. Precede(h, Range(o), Range(n) \cup Range(more))
        BY <1>2, <2>1 DEF Precede, Carried
    <2>4. Precede(h, Range(n), Range(more))
        BY <1>2, <2>1 DEF Precede, Carried
    <2>5. QED
        BY <1>2, <2>2, <2>3, <2>4 DEF StreamOK
<1>4. Carried(g, o, n, more) = Carried(g, o, n, c) \cup {e}
    BY <1>2 DEF Carried
<1>5. QED
    BY <1>3, <1>4 DEF more

\* The goroutine ends.
LEMMA NothingOut ==
    ASSUME NEW h, NEW g, NEW o, NEW n, NEW c, StreamOK(h, g, o, n, c)
    PROVE  /\ StreamOK(h, g, <<>>, <<>>, c)
           /\ Carried(g, <<>>, <<>>, c) \subseteq Carried(g, o, n, c)
<1>1. PICK none : none = <<>>
    OBVIOUS
<1>2. none \in Seq(1..Len(h)) /\ Range(none) = {} /\ Ordered(h, none)
    BY <1>1, RangeEmpty, OrderedShort
<1>3. StreamOK(h, g, none, none, c)
    BY <1>2 DEF StreamOK, Precede
<1>4. Carried(g, none, none, c) \subseteq Carried(g, o, n, c)
    BY <1>2 DEF Carried
<1>5. QED
    BY <1>1, <1>3, <1>4

\* The history grows: what is on its way stays in order.
LEMMA HistoryGrows ==
    ASSUME NEW h \in Seq(Reporters), NEW p \in Reporters,
           NEW g, NEW o, NEW n, NEW c, StreamOK(h, g, o, n, c)
    PROVE  StreamOK(Append(h, p), g, o, n, c)
<1> DEFINE k == Append(h, p)
<1>1. /\ 1..Len(h) \subseteq 1..Len(k)
      /\ \A e \in 1..Len(h) : k[e] = h[e]
    OBVIOUS
<1> HIDE DEF k
<1>2. \A a, b \in 1..Len(h) : Before(h, a, b) => Before(k, a, b)
    BY <1>1 DEF Before
<1>3. \A q \in Seq(1..Len(h)) : /\ q \in Seq(1..Len(k))
                                /\ Ordered(h, q) => Ordered(k, q)
                                /\ Range(q) \subseteq 1..Len(h)
    <2>1. SUFFICES ASSUME NEW q \in Seq(1..Len(h))
                   PROVE  /\ q \in Seq(1..Len(k))
                          /\ Ordered(h, q) => Ordered(k, q)
                          /\ Range(q) \subseteq 1..Len(h)
        OBVIOUS
    <2>2. \A i \in 1..Len(q) : q[i] \in 1..Len(h)
        OBVIOUS
    <2>3. q \in Seq(1..Len(k))
        <3>1. \A i \in 1..Len(q) : q[i] \in 1..Len(k)
            BY <1>1, <2>2
        <3>2. QED
            BY <3>1
    <2>4. Ordered(h, q) => Ordered(k, q)
        BY <1>2, <2>2 DEF Ordered
    <2>5. Range(q) \subseteq 1..Len(h)
        BY RangeIn
    <2>6. QED
        BY <2>3, <2>4, <2>5
<1>4. \A A, B \in SUBSET (1..Len(h)) : Precede(h, A, B) => Precede(k, A, B)
    BY <1>2 DEF Precede
<1>5. StreamOK(k, g, o, n, c)
    <2>1. /\ g \in Seq(1..Len(h)) /\ o \in Seq(1..Len(h))
          /\ n \in Seq(1..Len(h)) /\ c \in Seq(1..Len(h))
        BY DEF StreamOK
    <2>2. /\ g \in Seq(1..Len(k)) /\ o \in Seq(1..Len(k))
          /\ n \in Seq(1..Len(k)) /\ c \in Seq(1..Len(k))
          /\ Ordered(k, g) /\ Ordered(k, o) /\ Ordered(k, n) /\ Ordered(k, c)
        BY <1>3, <2>1 DEF StreamOK
    <2>3. /\ Range(g) \in SUBSET (1..Len(h)) /\ Range(o) \in SUBSET (1..Len(h))
          /\ Range(n) \in SUBSET (1..Len(h)) /\ Range(c) \in SUBSET (1..Len(h))
        BY <1>3, <2>1
    <2>4. /\ Precede(k, Range(g), Range(o) \cup Range(n) \cup Range(c))
          /\ Precede(k, Range(o), Range(n) \cup Range(c))
          /\ Precede(k, Range(n), Range(c))
        BY <1>4, <2>3 DEF StreamOK
    <2>5. QED
        BY <2>2, <2>4 DEF StreamOK
<1>6. QED
    BY <1>5 DEF k

\* A stream as one sequence.
LEMMA WholeStream ==
    ASSUME NEW h, NEW g, NEW o, NEW n, NEW c, StreamOK(h, g, o, n, c)
    PROVE  /\ g \o o \o n \o c \in Seq(1..Len(h))
           /\ Ordered(h, g \o o \o n \o c)
           /\ Range(g \o o \o n \o c) = Carried(g, o, n, c)
<1>1. /\ g \in Seq(1..Len(h)) /\ o \in Seq(1..Len(h))
      /\ n \in Seq(1..Len(h)) /\ c \in Seq(1..Len(h))
    BY DEF StreamOK
<1>2. PICK u \in Seq(1..Len(h)) :
         u = g \o o /\ Range(u) = Range(g) \cup Range(o) /\ Ordered(h, u)
    <2>1. Precede(h, Range(g), Range(o))
        BY DEF StreamOK, Precede
    <2>2. QED
        BY <1>1, <2>1, Joined DEF StreamOK
<1>3. PICK v \in Seq(1..Len(h)) :
         v = u \o n /\ Range(v) = Range(u) \cup Range(n) /\ Ordered(h, v)
    <2>1. Precede(h, Range(u), Range(n))
        BY <1>2 DEF StreamOK, Precede
    <2>2. QED
        BY <1>1, <1>2, <2>1, Joined DEF StreamOK
<1>4. PICK w \in Seq(1..Len(h)) :
         w = v \o c /\ Range(w) = Range(v) \cup Range(c) /\ Ordered(h, w)
    <2>1. Precede(h, Range(v), Range(c))
        BY <1>2, <1>3 DEF StreamOK, Precede
    <2>2. QED
        BY <1>1, <1>3, <2>1, Joined DEF StreamOK
<1>5. w = g \o o \o n \o c
    BY <1>2, <1>3, <1>4, Zenon
<1>6. Range(w) = Carried(g, o, n, c)
    BY <1>2, <1>3, <1>4 DEF Carried
<1>7. QED
    BY <1>4, <1>5, <1>6, Zenon

-----------------------------------------------------------------------------
(* The steps                                                               *)

\* The replay, while nothing is published.
LEMMA ReplayStays ==
    ASSUME ReplayKept, UNCHANGED <<history, replay>>
    PROVE  ReplayKept'
<1>1. \A k : OfRun(history', k) = OfRun(history, k)
    BY DEF OfRun
<1>2. \A k, e : Later(history', k, e) = Later(history, k, e)
    BY <1>1, Zenon DEF Later
<1>3. QED
    BY <1>1, <1>2 DEF ReplayKept

\* A subscription's streams.
LEMMA OnIs ==
    ASSUME NEW s, Streams, s \in Subscribers
    PROVE  On(s) \subseteq 1..Len(history)
<1>1. StreamOK(history, got[s], sub[s].out, sub[s].hand, sub[s].ch)
    BY DEF Streams
<1> DEFINE g == got[s]
           o == sub[s].out
           n == sub[s].hand
           c == sub[s].ch
<1>2. StreamOK(history, g, o, n, c) /\ On(s) = Carried(g, o, n, c)
    BY <1>1 DEF On
<1> HIDE DEF g, o, n, c
<1>3. /\ g \in Seq(1..Len(history)) /\ o \in Seq(1..Len(history))
      /\ n \in Seq(1..Len(history)) /\ c \in Seq(1..Len(history))
    BY <1>2 DEF StreamOK
<1>4. /\ Range(g) \subseteq 1..Len(history) /\ Range(o) \subseteq 1..Len(history)
      /\ Range(n) \subseteq 1..Len(history) /\ Range(c) \subseteq 1..Len(history)
    BY <1>3, RangeIn
<1>5. QED
    BY <1>2, <1>4 DEF Carried

\* A step that publishes and serves nothing: subscription s moves or drops what it
\* carries, loses its reader or is removed.
LEMMA Moves ==
    ASSUME IInv, TypeOK', NEW s \in Subscribers,
           UNCHANGED <<history, replay>>,
           registered' \subseteq registered,
           \A t \in registered : reader[t] # "ended" => t \in registered',
           \A p \in Reporters : /\ call'[p].event = call[p].event
                                /\ call'[p].to = call[p].to
                                /\ call'[p] # Returned => call[p] # Returned,
           \A t \in Subscribers :
              /\ reader'[t] = "new" <=> reader[t] = "new"
              /\ reader'[t] \in {"reading", "stalled"} => reader[t] \in {"reading", "stalled"}
              /\ sub'[t].scope = sub[t].scope /\ sub'[t].skipped = sub[t].skipped
              /\ t # s => sub'[t] = sub[t] /\ got'[t] = got[t] /\ dropped'[t] = dropped[t],
           StreamOK(history, got'[s], sub'[s].out, sub'[s].hand, sub'[s].ch),
           On(s)' \subseteq On(s),
           reader[s] # "ended" => On(s) \cup dropped[s] \subseteq On(s)' \cup dropped'[s]
    PROVE  IInv'
<1>1. \A t \in Subscribers \ {s} : On(t)' = On(t)
    BY DEF On
<1>2. Streams'
    BY DEF IInv, Streams
<1>3. Pending'
    BY DEF IInv, Pending
<1>4. Unserved'
    <2>1. SUFFICES ASSUME NEW p \in Reporters, NEW t \in Range(call[p].to)
                   PROVE  call[p].event \notin On(t)' /\ reader'[t] # "new"
        BY DEF Unserved
    <2>2. t \in Subscribers
        BY RangeIn DEF IInv, TypeOK
    <2>3. call[p].event \notin On(t) /\ reader[t] # "new"
        BY DEF IInv, Unserved
    <2>4. On(t)' \subseteq On(t)
        BY <1>1, <2>2
    <2>5. QED
        BY <2>2, <2>3, <2>4
<1>5. Members'
    <2>1. IsFiniteSet(registered')
        BY FS_Subset DEF IInv, Members
    <2>2. SUFFICES ASSUME NEW t \in Subscribers
                   PROVE  /\ reader'[t] = "new" => On(t)' = {} /\ t \notin registered'
                          /\ reader'[t] \in {"reading", "stalled"} => t \in registered'
        BY <2>1 DEF Members
    <2>3. /\ reader[t] = "new" => On(t) = {} /\ t \notin registered
          /\ reader[t] \in {"reading", "stalled"} => t \in registered
        BY DEF IInv, Members
    <2>4. On(t)' \subseteq On(t)
        BY <1>1
    <2>5. QED
        BY <2>3, <2>4
<1>6. ReplayKept'
    BY ReplayStays DEF IInv
<1>7. Accounted'
    <2>1. SUFFICES ASSUME NEW t \in Subscribers, reader'[t] \in {"reading", "stalled"},
                          NEW e \in Owed(t)', e \notin On(t)' \cup dropped'[t]
                   PROVE  \E p \in Reporters : call'[p].event = e /\ t \in Range(call'[p].to)
        BY DEF Accounted
    <2>2. reader[t] \in {"reading", "stalled"} /\ e \in Owed(t)
        BY <2>1 DEF Owed, InScope, run
    <2>3. e \notin On(t) \cup dropped[t]
        <3>1. CASE t = s
            BY <2>1, <2>2, <3>1
        <3>2. CASE t # s
            BY <1>1, <2>1, <3>2
        <3>3. QED
            BY <3>1, <3>2
    <2>4. PICK p \in Reporters : call[p].event = e /\ t \in Range(call[p].to)
        BY <2>2, <2>3 DEF IInv, Accounted
    <2>5. QED
        BY <2>4
<1>8. QED
    BY <1>2, <1>3, <1>4, <1>5, <1>6, <1>7 DEF IInv

\* A subscription that changes keeps the type.
LEMMA SubTyped ==
    ASSUME TypeOK, NEW s \in Subscribers, NEW v \in Subscription,
           Len(v.ch) <= Buffer, Len(v.out) <= Buffer, sub' = [sub EXCEPT ![s] = v]
    PROVE  /\ sub' \in [Subscribers -> Subscription]
           /\ \A t \in Subscribers : Len(sub'[t].ch) <= Buffer /\ Len(sub'[t].out) <= Buffer
BY DEF TypeOK

\* The step of a subscription's goroutine or reader.
LEMMA SubscriptionMoves ==
    ASSUME IInv, NEW s \in Subscribers,
           Receive(s) \/ Forward(s) \/ Take(s) \/ Stall(s) \/ Disconnect(s) \/ unsubscribe(s)
    PROVE  IInv'
<1>1. StreamOK(history, got[s], sub[s].out, sub[s].hand, sub[s].ch)
    BY DEF IInv, Streams
<1>2. sub[s] \in Subscription /\ TypeOK /\ Len(history) <= MaxEvents /\ Len(history) \in Nat
    BY DEF IInv, TypeOK
<1>3. CASE Receive(s)
    <2> DEFINE g == got[s]
               o == sub[s].out
               n == sub[s].hand
               c == sub[s].ch
    <2>1. /\ Head(c) \in 1..Len(history)
          /\ StreamOK(history, g, o, <<Head(c)>>, Tail(c))
          /\ Carried(g, o, <<Head(c)>>, Tail(c)) = Carried(g, o, n, c)
        <3>1. StreamOK(history, g, o, n, c) /\ n = <<>> /\ c # <<>>
            BY <1>1, <1>3 DEF Receive
        <3> DEFINE one == <<Head(c)>>
        <3>2. one = <<Head(c)>>
            OBVIOUS
        <3> HIDE DEF g, o, n, c, one
        <3>3. Head(c) \in 1..Len(history)
            BY <3>1, HeadOfCh
        <3>4. /\ StreamOK(history, g, o, one, Tail(c))
              /\ Carried(g, o, one, Tail(c)) = Carried(g, o, n, c)
            BY <3>1, <3>2, HandTakes
        <3>5. QED
            BY <3>2, <3>3, <3>4, Zenon
    <2>2. /\ sub'[s] = [sub[s] EXCEPT !.hand = <<Head(c)>>, !.ch = Tail(c)]
          /\ \A t \in Subscribers : t # s => sub'[t] = sub[t]
        BY <1>3 DEF Receive, IInv, TypeOK
    <2>3. TypeOK'
        <3> DEFINE v == [sub[s] EXCEPT !.hand = <<Head(c)>>, !.ch = Tail(c)]
        <3>1. <<Head(c)>> \in Seq(Event) /\ Tail(c) \in Seq(Event) /\ Len(Tail(c)) <= Buffer
            <4>1. c \in Seq(Event) /\ Len(c) <= Buffer /\ c # <<>> /\ Buffer \in Nat
                BY <1>2, <1>3, LimitAssumption DEF Receive, TypeOK, Subscription
            <4> HIDE DEF c
            <4>2. QED
                BY <4>1
        <3>2. v \in Subscription /\ Len(v.ch) <= Buffer /\ Len(v.out) <= Buffer
            BY <1>2, <3>1 DEF TypeOK, Subscription
        <3>3. sub' = [sub EXCEPT ![s] = v]
            BY <1>2, <1>3 DEF Receive, TypeOK, Subscription
        <3> HIDE DEF v
        <3>4. /\ sub' \in [Subscribers -> Subscription]
              /\ \A t \in Subscribers : Len(sub'[t].ch) <= Buffer /\ Len(sub'[t].out) <= Buffer
            BY <1>2, <3>2, <3>3, SubTyped
        <3>5. QED
            BY <1>2, <1>3, <3>1, <3>4 DEF Receive, TypeOK
    <2>a. /\ sub'[s].out = o /\ sub'[s].hand = <<Head(c)>> /\ sub'[s].ch = Tail(c)
          /\ sub'[s].scope = sub[s].scope /\ sub'[s].skipped = sub[s].skipped
        BY <1>2, <2>2 DEF Subscription
    <2>b. got'[s] = g
        BY <1>3 DEF Receive
    <2>4. On(s)' = On(s)
        BY <2>1, <2>a, <2>b, Zenon DEF On
    <2>5. StreamOK(history, got'[s], sub'[s].out, sub'[s].hand, sub'[s].ch)
        BY <2>1, <2>a, <2>b, Zenon
    <2>6. sub'[s].scope = sub[s].scope /\ sub'[s].skipped = sub[s].skipped
        BY <2>a
    <2>7. QED
        BY <1>3, <2>2, <2>3, <2>4, <2>5, <2>6, Moves DEF Receive
<1>4. CASE Forward(s)
    <2> DEFINE g == got[s]
               o == sub[s].out
               n == sub[s].hand
               c == sub[s].ch
    <2>1. /\ Head(n) \in 1..Len(history)
          /\ StreamOK(history, g, Append(o, Head(n)), Tail(n), c)
          /\ Carried(g, Append(o, Head(n)), Tail(n), c) = Carried(g, o, n, c)
        BY <1>1, <1>4, HeadOfHand DEF Forward
    <2>2. /\ sub'[s] = [sub[s] EXCEPT !.out = Append(o, Head(n)), !.hand = Tail(n)]
          /\ \A t \in Subscribers : t # s => sub'[t] = sub[t]
        BY <1>4 DEF Forward, IInv, TypeOK
    <2>3. TypeOK'
        <3> DEFINE v == [sub[s] EXCEPT !.out = Append(o, Head(n)), !.hand = Tail(n)]
        <3>1. /\ Append(o, Head(n)) \in Seq(Event) /\ Tail(n) \in Seq(Event)
              /\ Len(Append(o, Head(n))) <= Buffer
            <4>1. /\ n \in Seq(Event) /\ n # <<>> /\ o \in Seq(Event) /\ Len(o) < Buffer
                  /\ Buffer \in Nat
                BY <1>2, <1>4, LimitAssumption DEF Forward, TypeOK, Subscription
            <4> HIDE DEF n, o
            <4>2. QED
                BY <4>1
        <3>2. v \in Subscription /\ Len(v.ch) <= Buffer /\ Len(v.out) <= Buffer
            BY <1>2, <3>1 DEF TypeOK, Subscription
        <3>3. sub' = [sub EXCEPT ![s] = v]
            BY <1>2, <1>4 DEF Forward, TypeOK, Subscription
        <3> HIDE DEF v
        <3>4. /\ sub' \in [Subscribers -> Subscription]
              /\ \A t \in Subscribers : Len(sub'[t].ch) <= Buffer /\ Len(sub'[t].out) <= Buffer
            BY <1>2, <3>2, <3>3, SubTyped
        <3>5. QED
            BY <1>2, <1>4, <3>1, <3>4 DEF Forward, TypeOK
    <2>a. /\ sub'[s].out = Append(o, Head(n)) /\ sub'[s].hand = Tail(n) /\ sub'[s].ch = c
          /\ sub'[s].scope = sub[s].scope /\ sub'[s].skipped = sub[s].skipped
        BY <1>2, <2>2 DEF Subscription
    <2>b. got'[s] = g
        BY <1>4 DEF Forward
    <2>4. On(s)' = On(s)
        BY <2>1, <2>a, <2>b, Zenon DEF On
    <2>5. StreamOK(history, got'[s], sub'[s].out, sub'[s].hand, sub'[s].ch)
        BY <2>1, <2>a, <2>b, Zenon
    <2>6. sub'[s].scope = sub[s].scope /\ sub'[s].skipped = sub[s].skipped
        BY <2>a
    <2>7. QED
        BY <1>4, <2>2, <2>3, <2>4, <2>5, <2>6, Moves DEF Forward
<1>5. CASE Take(s)
    <2> DEFINE g == got[s]
               o == sub[s].out
               n == sub[s].hand
               c == sub[s].ch
    <2>1. /\ Head(o) \in 1..Len(history)
          /\ StreamOK(history, Append(g, Head(o)), Tail(o), n, c)
          /\ Carried(Append(g, Head(o)), Tail(o), n, c) = Carried(g, o, n, c)
        BY <1>1, <1>5, HeadOfOut DEF Take
    <2>2. /\ sub'[s] = [sub[s] EXCEPT !.out = Tail(o)] /\ got'[s] = Append(g, Head(o))
          /\ \A t \in Subscribers : t # s => sub'[t] = sub[t] /\ got'[t] = got[t]
        BY <1>5 DEF Take, IInv, TypeOK
    <2>3. TypeOK'
        <3> DEFINE v == [sub[s] EXCEPT !.out = Tail(o)]
        <3>1. /\ Append(g, Head(o)) \in Seq(Event) /\ Tail(o) \in Seq(Event)
              /\ Len(Tail(o)) <= Buffer
            <4>1. /\ g \in Seq(Event) /\ o \in Seq(Event) /\ o # <<>> /\ Len(o) <= Buffer
                  /\ Buffer \in Nat
                BY <1>2, <1>5, LimitAssumption DEF Take, TypeOK, Subscription
            <4> HIDE DEF g, o
            <4>2. QED
                BY <4>1
        <3>2. v \in Subscription /\ Len(v.ch) <= Buffer /\ Len(v.out) <= Buffer
            BY <1>2, <3>1 DEF TypeOK, Subscription
        <3>3. sub' = [sub EXCEPT ![s] = v]
            BY <1>2, <1>5 DEF Take, TypeOK, Subscription
        <3> HIDE DEF v
        <3>4. /\ sub' \in [Subscribers -> Subscription]
              /\ \A t \in Subscribers : Len(sub'[t].ch) <= Buffer /\ Len(sub'[t].out) <= Buffer
            BY <1>2, <3>2, <3>3, SubTyped
        <3>5. QED
            BY <1>2, <1>5, <3>1, <3>4 DEF Take, TypeOK
    <2>4. On(s)' = On(s)
        BY <1>2, <2>1, <2>2 DEF On, Subscription
    <2>5. StreamOK(history, got'[s], sub'[s].out, sub'[s].hand, sub'[s].ch)
        BY <1>2, <2>1, <2>2 DEF Subscription
    <2>6. sub'[s].scope = sub[s].scope /\ sub'[s].skipped = sub[s].skipped
        BY <1>2, <2>2 DEF Subscription
    <2>7. QED
        BY <1>5, <2>2, <2>3, <2>4, <2>5, <2>6, Moves DEF Take
<1>6. CASE Stall(s) \/ Disconnect(s)
    <2>1. TypeOK'
        BY <1>2, <1>6 DEF Stall, Disconnect, TypeOK
    <2>2. On(s)' = On(s)
        BY <1>6 DEF On, Stall, Disconnect
    <2>3. /\ reader[s] \in {"reading", "stalled"} /\ reader'[s] \in {"stalled", "ended"}
          /\ \A t \in Subscribers : t # s => reader'[t] = reader[t]
        BY <1>2, <1>6 DEF Stall, Disconnect, TypeOK
    <2>4. UNCHANGED <<history, replay, registered, sub, got, call, dropped>>
        BY <1>6 DEF Stall, Disconnect
    <2>5. QED
        BY <1>1, <2>1, <2>2, <2>3, <2>4, Moves
<1>7. CASE unsubscribe(s)
    <2> DEFINE g == got[s]
               o == sub[s].out
               n == sub[s].hand
               c == sub[s].ch
    <2>1. /\ StreamOK(history, g, <<>>, <<>>, c)
          /\ Carried(g, <<>>, <<>>, c) \subseteq Carried(g, o, n, c)
        BY <1>1, NothingOut
    <2>2. /\ sub'[s] = [sub[s] EXCEPT !.hand = <<>>, !.out = <<>>]
          /\ \A t \in Subscribers : t # s => sub'[t] = sub[t]
        BY <1>7 DEF unsubscribe, IInv, TypeOK
    <2>3. TypeOK'
        <3> DEFINE v == [sub[s] EXCEPT !.hand = <<>>, !.out = <<>>]
        <3>1. <<>> \in Seq(Event) /\ Len(<<>>) <= Buffer
            BY <1>2, <1>7, LimitAssumption DEF unsubscribe, TypeOK, Subscription, Event
        <3>2. v \in Subscription /\ Len(v.ch) <= Buffer /\ Len(v.out) <= Buffer
            BY <1>2, <3>1 DEF TypeOK, Subscription
        <3>3. sub' = [sub EXCEPT ![s] = v]
            BY <1>2, <1>7 DEF unsubscribe, TypeOK, Subscription
        <3> HIDE DEF v
        <3>4. /\ sub' \in [Subscribers -> Subscription]
              /\ \A t \in Subscribers : Len(sub'[t].ch) <= Buffer /\ Len(sub'[t].out) <= Buffer
            BY <1>2, <3>2, <3>3, SubTyped
        <3>5. QED
            BY <1>2, <1>7, <3>1, <3>4 DEF unsubscribe, TypeOK
    <2>4. On(s)' \subseteq On(s)
        <3>1. sub'[s].ch = c
            BY <1>2, <2>2 DEF Subscription
        <3>2. sub'[s].out = <<>> /\ sub'[s].hand = <<>>
            BY <1>2, <2>2 DEF Subscription
        <3>3. got'[s] = g
            BY <1>7 DEF unsubscribe
        <3>4. QED
            BY <2>1, <3>1, <3>2, <3>3, Zenon DEF On
    <2>5. StreamOK(history, got'[s], sub'[s].out, sub'[s].hand, sub'[s].ch)
        <3>1. sub'[s].ch = c /\ sub'[s].out = <<>> /\ sub'[s].hand = <<>>
            BY <1>2, <2>2 DEF Subscription
        <3>2. got'[s] = g
            BY <1>7 DEF unsubscribe
        <3>3. QED
            BY <2>1, <3>1, <3>2, Zenon
    <2>6. sub'[s].scope = sub[s].scope /\ sub'[s].skipped = sub[s].skipped
        BY <1>2, <2>2 DEF Subscription
    <2>7. QED
        BY <1>7, <2>2, <2>3, <2>4, <2>5, <2>6, Moves DEF unsubscribe
<1>8. QED
    BY <1>3, <1>4, <1>5, <1>6, <1>7

\* The step of a publisher that finds a channel full, or makes room in it.
LEMMA PublisherMakesRoom ==
    ASSUME IInv, NEW p \in Reporters, NEW s \in Subscribers, FindFull(p, s) \/ DropOldest(p, s)
    PROVE  IInv'
<1>1. StreamOK(history, got[s], sub[s].out, sub[s].hand, sub[s].ch)
    BY DEF IInv, Streams
<1>2. sub[s] \in Subscription /\ TypeOK /\ Len(history) <= MaxEvents /\ Len(history) \in Nat
    BY DEF IInv, TypeOK
<1>3. call[p] # Returned
    BY <1>2 DEF FindFull, DropOldest, Delivering, Returned
<1>4. PICK b \in BOOLEAN : call' = [call EXCEPT ![p].full = b]
    BY DEF FindFull, DropOldest
<1>5. /\ call' \in [Reporters -> [event : 0..MaxEvents, to : Seq(Subscribers), full : BOOLEAN]]
      /\ \A q \in Reporters : /\ call'[q].event = call[q].event
                              /\ call'[q].to = call[q].to
                              /\ call'[q] # Returned => call[q] # Returned
    BY <1>2, <1>3, <1>4 DEF TypeOK
<1>6. CASE UNCHANGED <<sub, dropped>>
    <2>1. UNCHANGED <<history, replay, registered, reader, got>>
        BY DEF FindFull, DropOldest
    <2>2. TypeOK'
        BY <1>2, <1>5, <1>6, <2>1 DEF TypeOK
    <2>3. On(s)' = On(s)
        BY <1>6, <2>1 DEF On
    <2>4. QED
        BY <1>1, <1>5, <1>6, <2>1, <2>2, <2>3, Moves
<1>7. CASE ~UNCHANGED <<sub, dropped>>
    <2> DEFINE g == got[s]
               o == sub[s].out
               n == sub[s].hand
               c == sub[s].ch
    <2>1. /\ c # <<>> /\ dropped' = [dropped EXCEPT ![s] = @ \cup {Head(c)}]
          /\ sub' = [sub EXCEPT ![s].ch = Tail(c)]
          /\ UNCHANGED <<history, replay, registered, reader, got>>
        BY <1>7 DEF FindFull, DropOldest
    <2>2. /\ StreamOK(history, g, o, n, Tail(c))
          /\ Carried(g, o, n, c) = Carried(g, o, n, Tail(c)) \cup {Head(c)}
          /\ Head(c) \in Event
        <3>1. StreamOK(history, g, o, n, c)
            BY <1>1
        <3> HIDE DEF g, o, n, c
        <3>2. /\ StreamOK(history, g, o, n, Tail(c))
              /\ Carried(g, o, n, c) = Carried(g, o, n, Tail(c)) \cup {Head(c)}
              /\ Head(c) \in 1..Len(history)
            BY <2>1, <3>1, HeadOfCh
        <3>3. QED
            BY <1>2, <3>2, LimitAssumption DEF Event
    <2>3. /\ sub'[s] = [sub[s] EXCEPT !.ch = Tail(c)]
          /\ dropped'[s] = dropped[s] \cup {Head(c)}
          /\ \A t \in Subscribers : t # s => sub'[t] = sub[t] /\ dropped'[t] = dropped[t]
        BY <1>2, <2>1 DEF TypeOK
    <2>4. TypeOK'
        <3> DEFINE v == [sub[s] EXCEPT !.ch = Tail(c)]
        <3>1. Tail(c) \in Seq(Event) /\ Len(Tail(c)) <= Buffer
            <4>1. c \in Seq(Event) /\ Len(c) <= Buffer /\ c # <<>> /\ Buffer \in Nat
                BY <1>2, <2>1, LimitAssumption DEF TypeOK, Subscription
            <4> HIDE DEF c
            <4>2. QED
                BY <4>1
        <3>2. v \in Subscription /\ Len(v.ch) <= Buffer /\ Len(v.out) <= Buffer
            BY <1>2, <3>1 DEF TypeOK, Subscription
        <3>3. sub' = [sub EXCEPT ![s] = v]
            BY <1>2, <2>1 DEF TypeOK, Subscription
        <3> HIDE DEF v
        <3>4. /\ sub' \in [Subscribers -> Subscription]
              /\ \A t \in Subscribers : Len(sub'[t].ch) <= Buffer /\ Len(sub'[t].out) <= Buffer
            BY <1>2, <3>2, <3>3, SubTyped
        <3>5. dropped' \in [Subscribers -> SUBSET Event]
            BY <1>2, <2>1, <2>2 DEF TypeOK
        <3>6. QED
            BY <1>2, <1>5, <2>1, <3>4, <3>5 DEF TypeOK
    <2>5. On(s)' \subseteq On(s) /\ On(s) \cup dropped[s] \subseteq On(s)' \cup dropped'[s]
        <3>1. On(s) = On(s)' \cup {Head(c)}
            BY <1>2, <2>1, <2>2, <2>3 DEF On, Subscription
        <3>2. QED
            BY <2>3, <3>1
    <2>6. StreamOK(history, got'[s], sub'[s].out, sub'[s].hand, sub'[s].ch)
        BY <1>2, <2>1, <2>2, <2>3 DEF Subscription
    <2>7. sub'[s].scope = sub[s].scope /\ sub'[s].skipped = sub[s].skipped
        BY <1>2, <2>3 DEF Subscription
    <2>8. QED
        BY <1>5, <2>1, <2>3, <2>4, <2>5, <2>6, <2>7, Moves
<1>8. QED
    BY <1>6, <1>7

\* A call with no subscriber twice serves the first of them.
LEMMA Served ==
    ASSUME NEW q \in Seq(Subscribers), q # <<>>,
           \A i, j \in 1..Len(q) : i # j => q[i] # q[j]
    PROVE  /\ Tail(q) \in Seq(Subscribers)
           /\ Head(q) \in Range(q) /\ Head(q) \notin Range(Tail(q))
           /\ \A s \in Range(q) : s = Head(q) \/ s \in Range(Tail(q))
           /\ Range(Tail(q)) \subseteq Range(q)
           /\ Len(q) = 1 => Range(Tail(q)) = {}
           /\ \A i, j \in 1..Len(Tail(q)) : i # j => Tail(q)[i] # Tail(q)[j]
<1>1. /\ Tail(q) \in Seq(Subscribers) /\ Len(Tail(q)) = Len(q) - 1 /\ Len(q) \in Nat \ {0}
      /\ Head(q) = q[1] /\ \A i \in 1..(Len(q) - 1) : Tail(q)[i] = q[i + 1]
    OBVIOUS
<1>2. Range(q) = {Head(q)} \cup Range(Tail(q))
    BY RangeTail
<1>3. Range(Tail(q)) = {Tail(q)[i] : i \in 1..(Len(q) - 1)}
    BY <1>1, RangeIn
<1>4. \A i \in 1..(Len(q) - 1) : i + 1 \in 1..Len(q) /\ 1 \in 1..Len(q) /\ i + 1 # 1
    BY <1>1
<1>5. Head(q) \notin Range(Tail(q))
    BY <1>1, <1>3, <1>4
<1>6. \A i, j \in 1..Len(Tail(q)) : i # j => Tail(q)[i] # Tail(q)[j]
    <2>1. SUFFICES ASSUME NEW i \in 1..(Len(q) - 1), NEW j \in 1..(Len(q) - 1), i # j
                   PROVE  Tail(q)[i] # Tail(q)[j]
        BY <1>1
    <2>2. i + 1 \in 1..Len(q) /\ j + 1 \in 1..Len(q) /\ i + 1 # j + 1
        BY <1>4, <2>1
    <2>3. QED
        BY <1>1, <2>2
<1>7. Len(q) = 1 => Range(Tail(q)) = {}
    BY <1>1, <1>3
<1>8. QED
    BY <1>1, <1>2, <1>5, <1>6, <1>7

\* The state between calls.
LEMMA ReturnedTyped == Returned \in [event : 0..MaxEvents, to : Seq(Subscribers), full : BOOLEAN]
<1>1. 0 \in 0..MaxEvents
    BY LimitAssumption
<1>2. QED
    BY <1>1 DEF Returned

\* A publisher delivers its event to the next subscriber.
LEMMA PublisherDelivers ==
    ASSUME IInv, NEW p \in Reporters, NEW s \in Subscribers, Deliver(p, s)
    PROVE  IInv'
<1> DEFINE e == call[p].event
           to == call[p].to
           g == got[s]
           o == sub[s].out
           n == sub[s].hand
           c == sub[s].ch
<1>1. /\ sub[s] \in Subscription /\ TypeOK /\ Len(history) <= MaxEvents /\ Len(history) \in Nat
      /\ to \in Seq(Subscribers) /\ to # <<>> /\ s = Head(to) /\ call[p] # Returned
      /\ UNCHANGED <<history, replay, registered, reader, got, dropped>>
    BY DEF IInv, TypeOK, Deliver, Delivering, Returned
<1>2. /\ e \in 1..Len(history) /\ history[e] = p
      /\ \A x \in 1..Len(history) : history[x] = p => x <= e
      /\ \A i, j \in 1..Len(to) : i # j => to[i] # to[j]
    BY <1>1 DEF IInv, Pending
<1>3. /\ Tail(to) \in Seq(Subscribers)
      /\ s \in Range(to) /\ s \notin Range(Tail(to))
      /\ \A t \in Range(to) : t = s \/ t \in Range(Tail(to))
      /\ Range(Tail(to)) \subseteq Range(to)
      /\ Len(to) = 1 => Range(Tail(to)) = {}
      /\ \A i, j \in 1..Len(Tail(to)) : i # j => Tail(to)[i] # Tail(to)[j]
    <2> HIDE DEF to
    <2>1. QED
        BY <1>1, <1>2, Served
<1>4. e \notin On(s) /\ reader[s] # "new"
    BY <1>3 DEF IInv, Unserved
<1>5. Precede(history, On(s), {e})
    <2>1. On(s) \subseteq 1..Len(history)
        BY OnIs DEF IInv
    <2>2. SUFFICES ASSUME NEW a \in On(s)
                   PROVE  Before(history, a, e)
        BY Zenon DEF Precede
    <2>3. a \in 1..Len(history) /\ a # e
        BY <1>4, <2>1
    <2>4. history[a] = p => a <= e
        BY <1>2, <2>3
    <2>5. QED
        BY <1>1, <1>2, <2>3, <2>4 DEF Before
<1>6. /\ StreamOK(history, g, o, n, Append(c, e))
      /\ Carried(g, o, n, Append(c, e)) = Carried(g, o, n, c) \cup {e}
    <2>1. StreamOK(history, g, o, n, c) /\ Precede(history, Carried(g, o, n, c), {e})
        BY <1>5 DEF IInv, Streams, On
    <2> HIDE DEF e, g, o, n, c
    <2>2. QED
        BY <1>2, <2>1, EndOfCh
<1>7. /\ sub' = [sub EXCEPT ![s].ch = Append(c, e)]
      /\ sub'[s] = [sub[s] EXCEPT !.ch = Append(c, e)]
      /\ \A t \in Subscribers : t # s => sub'[t] = sub[t]
    BY <1>1 DEF Deliver, TypeOK
<1>8. /\ On(s)' = On(s) \cup {e}
      /\ \A t \in Subscribers : t # s => On(t)' = On(t)
      /\ \A t \in Subscribers : sub'[t].scope = sub[t].scope /\ sub'[t].skipped = sub[t].skipped
    <2>1. On(s)' = On(s) \cup {e}
        <3>1. /\ sub'[s].out = o /\ sub'[s].hand = n /\ sub'[s].ch = Append(c, e)
              /\ got'[s] = g
            <4>1. sub[s] \in Subscription /\ got' = got
                BY <1>1
            <4>2. PICK q : q = Append(c, e) /\ sub'[s] = [sub[s] EXCEPT !.ch = q]
                BY <1>7
            <4>3. sub'[s].out = o /\ sub'[s].hand = n /\ sub'[s].ch = q
                BY <4>1, <4>2 DEF Subscription
            <4>4. QED
                BY <4>1, <4>2, <4>3
        <3>2. QED
            BY <1>6, <3>1, Zenon DEF On
    <2>2. \A t \in Subscribers : t # s => On(t)' = On(t)
        BY <1>1, <1>7 DEF On
    <2>3. sub'[s].scope = sub[s].scope /\ sub'[s].skipped = sub[s].skipped
        BY <1>1, <1>7 DEF Subscription
    <2>4. QED
        BY <1>7, <2>1, <2>2, <2>3
<1>9. /\ call' = [call EXCEPT ![p] = call'[p]]
      /\ \A r \in Reporters : r # p => call'[r] = call[r]
      /\ \/ Len(to) = 1 /\ call'[p] = Returned
         \/ Len(to) # 1 /\ call'[p] = [call[p] EXCEPT !.to = Tail(to)]
    <2> DEFINE w == IF Len(to) = 1 THEN Returned ELSE [call[p] EXCEPT !.to = Tail(to)]
    <2>1. call' = [call EXCEPT ![p] = w] /\ DOMAIN call = Reporters
        <3>1. call' = [call EXCEPT ![p] = w]
            BY Zenon DEF Deliver
        <3>2. DOMAIN call = Reporters
            BY <1>1 DEF TypeOK
        <3>3. QED
            BY <3>1, <3>2
    <2>2. \/ Len(to) = 1 /\ w = Returned
          \/ Len(to) # 1 /\ w = [call[p] EXCEPT !.to = Tail(to)]
        OBVIOUS
    <2> HIDE DEF w, to
    <2>3. QED
        BY <2>1, <2>2
<1>10. /\ call'[p].to \in Seq(Subscribers) /\ Range(call'[p].to) = Range(Tail(to))
       /\ call'[p] # Returned => call'[p].event = e /\ call'[p].to = Tail(to)
       /\ Range(Tail(to)) # {} => call'[p].event = e
       /\ call'[p] \in [event : 0..MaxEvents, to : Seq(Subscribers), full : BOOLEAN]
    <2>1. CASE Len(to) = 1 /\ call'[p] = Returned
        <3>1. call'[p].to = <<>> /\ call'[p] \in [event : {0}, to : {<<>>}, full : BOOLEAN]
            BY <2>1 DEF Returned
        <3>2. Range(call'[p].to) = {}
            BY <3>1, RangeEmpty
        <3>3. call'[p].to \in Seq(Subscribers)
            BY <3>1
        <3>4. call'[p] \in [event : 0..MaxEvents, to : Seq(Subscribers), full : BOOLEAN]
            BY <2>1, ReturnedTyped
        <3>5. QED
            BY <1>3, <2>1, <3>2, <3>3, <3>4
    <2>2. CASE Len(to) # 1 /\ call'[p] = [call[p] EXCEPT !.to = Tail(to)]
        <3>1. call[p] \in [event : 0..MaxEvents, to : Seq(Subscribers), full : BOOLEAN]
            BY <1>1 DEF TypeOK
        <3>2. call'[p].to = Tail(to) /\ call'[p].event = e
            BY <2>2, <3>1
        <3>3. QED
            BY <1>3, <2>2, <3>1, <3>2
    <2>3. QED
        BY <1>9, <2>1, <2>2
<1>11. TypeOK'
    <2> DEFINE v == [sub[s] EXCEPT !.ch = Append(c, e)]
    <2>1. Append(c, e) \in Seq(Event) /\ Len(Append(c, e)) <= Buffer
        <3>1. c \in Seq(Event) /\ Len(c) < Buffer /\ Buffer \in Nat /\ e \in Event
            <4>1. Len(c) < Buffer
                BY DEF Deliver, HasRoom
            <4>2. c \in Seq(Event)
                BY <1>1 DEF Subscription
            <4>3. e \in Event /\ Buffer \in Nat
                BY <1>1, <1>2, LimitAssumption DEF Event
            <4>4. QED
                BY <4>1, <4>2, <4>3
        <3> HIDE DEF c, e
        <3>2. QED
            BY <3>1
    <2>2. v \in Subscription /\ Len(v.ch) <= Buffer /\ Len(v.out) <= Buffer
        BY <1>1, <2>1 DEF TypeOK, Subscription
    <2>3. sub' = [sub EXCEPT ![s] = v]
        BY <1>1, <1>7 DEF TypeOK, Subscription
    <2> HIDE DEF v
    <2>4. /\ sub' \in [Subscribers -> Subscription]
          /\ \A t \in Subscribers : Len(sub'[t].ch) <= Buffer /\ Len(sub'[t].out) <= Buffer
        BY <1>1, <2>2, <2>3, SubTyped
    <2>5. call' \in [Reporters -> [event : 0..MaxEvents, to : Seq(Subscribers), full : BOOLEAN]]
        BY <1>1, <1>9, <1>10 DEF TypeOK
    <2>6. QED
        BY <1>1, <2>4, <2>5 DEF TypeOK
<1>12. Streams'
    <2>1. StreamOK(history, got'[s], sub'[s].out, sub'[s].hand, sub'[s].ch)
        <3>1. /\ sub'[s].out = o /\ sub'[s].hand = n /\ sub'[s].ch = Append(c, e)
              /\ got'[s] = g
            <4>1. sub[s] \in Subscription /\ got' = got
                BY <1>1
            <4>2. PICK q : q = Append(c, e) /\ sub'[s] = [sub[s] EXCEPT !.ch = q]
                BY <1>7
            <4>3. sub'[s].out = o /\ sub'[s].hand = n /\ sub'[s].ch = q
                BY <4>1, <4>2 DEF Subscription
            <4>4. QED
                BY <4>1, <4>2, <4>3
        <3>2. QED
            BY <1>6, <3>1, Zenon
    <2>2. QED
        BY <1>1, <1>7, <2>1 DEF IInv, Streams
<1>13. Pending'
    <2>1. SUFFICES ASSUME NEW r \in Reporters, call'[r] # Returned
                   PROVE  /\ call'[r].event \in 1..Len(history) /\ history[call'[r].event] = r
                          /\ \A x \in 1..Len(history) : history[x] = r => x <= call'[r].event
                          /\ \A i, j \in 1..Len(call'[r].to) :
                                i # j => call'[r].to[i] # call'[r].to[j]
        BY <1>1, Zenon DEF Pending
    <2>2. CASE r = p
        <3>1. call'[r].event = e /\ call'[r].to = Tail(to)
            BY <1>10, <2>1, <2>2, Zenon
        <3> HIDE DEF e, to
        <3>2. QED
            BY <1>2, <1>3, <2>2, <3>1
    <2>3. CASE r # p
        <3>1. call'[r] = call[r]
            BY <1>9, <2>3
        <3>2. QED
            BY <2>1, <3>1 DEF IInv, Pending
    <2>4. QED
        BY <2>2, <2>3
<1>14. Unserved'
    <2>1. SUFFICES ASSUME NEW r \in Reporters, NEW t \in Range(call'[r].to)
                   PROVE  call'[r].event \notin On(t)' /\ reader[t] # "new"
        BY <1>1 DEF Unserved
    <2>2. t \in Subscribers
        BY <1>11, RangeIn DEF TypeOK
    <2>3. CASE r = p
        <3>1. t \in Range(to) /\ t # s /\ call'[p].event = e
            BY <1>3, <1>10, <2>3
        <3>2. e \notin On(t) /\ reader[t] # "new"
            BY <3>1 DEF IInv, Unserved
        <3>3. QED
            BY <1>8, <2>2, <2>3, <3>1, <3>2
    <2>4. CASE r # p
        <3>1. call'[r] = call[r] /\ t \in Range(call[r].to)
            BY <1>9, <2>4
        <3>2. call[r].event \notin On(t) /\ reader[t] # "new"
            BY <3>1 DEF IInv, Unserved
        <3>3. call[r] # Returned
            <4>1. Range(Returned.to) = {}
                BY RangeEmpty DEF Returned
            <4>2. QED
                BY <3>1, <4>1
        <3>4. history[call[r].event] = r
            BY <3>3 DEF IInv, Pending
        <3>5. call[r].event # e
            BY <1>2, <2>4, <3>4
        <3>6. QED
            BY <1>8, <2>2, <3>1, <3>2, <3>5
    <2>5. QED
        BY <2>3, <2>4
<1>15. Members'
    BY <1>1, <1>4, <1>8 DEF IInv, Members
<1>16. ReplayKept'
    BY <1>1, ReplayStays DEF IInv
<1>17. Accounted'
    <2>1. SUFFICES ASSUME NEW t \in Subscribers, reader[t] \in {"reading", "stalled"},
                          NEW x \in Owed(t)', x \notin On(t)' \cup dropped[t]
                   PROVE  \E r \in Reporters : call'[r].event = x /\ t \in Range(call'[r].to)
        BY <1>1 DEF Accounted
    <2>2. x \in Owed(t)
        BY <1>1, <1>8 DEF Owed, InScope, run
    <2>3. x \notin On(t) \cup dropped[t]
        BY <1>8, <2>1
    <2>4. PICK r \in Reporters : call[r].event = x /\ t \in Range(call[r].to)
        BY <2>1, <2>2, <2>3 DEF IInv, Accounted
    <2>5. CASE r # p
        BY <1>9, <2>4, <2>5
    <2>6. CASE r = p
        <3>1. t # s
            BY <1>8, <2>1, <2>4, <2>6
        <3>2. t \in Range(Tail(to))
            BY <1>3, <2>4, <2>6, <3>1
        <3>3. QED
            BY <1>10, <2>4, <2>6, <3>2
    <2>7. QED
        BY <2>5, <2>6
<1>18. QED
    BY <1>11, <1>12, <1>13, <1>14, <1>15, <1>16, <1>17 DEF IInv

\* As many different elements as a set has are all of them.
LEMMA Listing ==
    ASSUME NEW S, IsFiniteSet(S), NEW q \in [1..Cardinality(S) -> S], IsInjective(q)
    PROVE  q \in Seq(S) /\ Len(q) = Cardinality(S) /\ Range(q) = S
<1>1. Cardinality(S) \in Nat
    BY FS_CardinalityType
<1>2. q \in Seq(S) /\ Len(q) = Cardinality(S)
    BY <1>1
<1>3. q \in Injection(1..Cardinality(S), S)
    BY Zenon DEF Injection
<1>4. Cardinality(1..Cardinality(S)) = Cardinality(S)
    <2>1. 1 \in Int /\ Cardinality(S) \in Int
        BY <1>1
    <2>2. Cardinality(1..Cardinality(S)) = IF 1 > Cardinality(S) THEN 0 ELSE Cardinality(S) - 1 + 1
        BY <2>1, FS_Interval
    <2>3. QED
        BY <1>1, <2>2
<1>5. q \in Surjection(1..Cardinality(S), S)
    BY <1>3, <1>4, FS_Injection
<1>6. S \subseteq Range(q)
    <2>1. \A x \in S : \E i \in 1..Cardinality(S) : q[i] = x
        BY <1>5, Zenon DEF Surjection
    <2>2. Range(q) = {q[i] : i \in 1..Len(q)}
        BY <1>2, RangeIn
    <2>3. QED
        BY <1>2, <2>1, <2>2
<1>7. QED
    BY <1>2, <1>6, RangeIn

\* Sorted yields each event once, by sequence.
LEMMA SortedLists ==
    ASSUME NEW kept \in SUBSET (1..Len(history)), Len(history) \in Nat, NEW q \in Sorted(kept)
    PROVE  q \in Seq(1..Len(history)) /\ Range(q) = kept /\ Ordered(history, q)
<1>1. IsFiniteSet(kept)
    <2>1. IsFiniteSet(1..Len(history))
        BY FS_Interval
    <2>2. QED
        BY <2>1, FS_Subset
<1>2. Cardinality(kept) \in Nat
    BY <1>1, FS_CardinalityType
<1>3. /\ q \in [1..Cardinality(kept) -> kept]
      /\ \A i, j \in 1..Cardinality(kept) : i < j => q[i] < q[j]
    BY DEF Sorted
<1>4. \A i \in 1..Cardinality(kept) : q[i] \in 1..Len(history) /\ q[i] \in Nat
    <2>1. kept \subseteq 1..Len(history) /\ 1..Len(history) \subseteq Nat
        OBVIOUS
    <2>2. \A i \in 1..Cardinality(kept) : q[i] \in kept
        BY <1>3
    <2>3. QED
        BY <2>1, <2>2
<1>5. IsInjective(q)
    <2>1. SUFFICES ASSUME NEW i \in 1..Cardinality(kept), NEW j \in 1..Cardinality(kept), q[i] = q[j]
                   PROVE  i = j
        BY <1>3 DEF IsInjective
    <2>2. ~(i < j) /\ ~(j < i)
        BY <1>3, <1>4, <2>1
    <2>3. QED
        BY <1>2, <2>2
<1>6. q \in Seq(kept) /\ Len(q) = Cardinality(kept) /\ Range(q) = kept
    BY <1>1, <1>3, <1>5, Listing
<1>7. Ordered(history, q)
    <2>1. SUFFICES ASSUME NEW i \in 1..Len(q), NEW j \in 1..Len(q), i < j
                   PROVE  Before(history, q[i], q[j])
        BY DEF Ordered
    <2>2. q[i] \in Nat /\ q[j] \in Nat /\ q[i] < q[j]
        BY <1>3, <1>4, <1>6, <2>1
    <2>3. QED
        BY <2>2 DEF Before
<1>8. q \in Seq(1..Len(history))
    <2>1. q \in [1..Cardinality(kept) -> 1..Len(history)]
        BY <1>3, <1>4
    <2>2. QED
        BY <1>2, <2>1
<1>9. QED
    BY <1>6, <1>7, <1>8

\* What is in the replay is in the history, with the run it belongs to.
LEMMA OfRunIs ==
    ASSUME IInv
    PROVE  /\ Len(history) \in Nat
           /\ \A x \in 1..Len(history) : history[x] \in Reporters /\ run(x) \in Runs
           /\ \A k \in Runs : InScope(k) = OfRun(history, k)
           /\ \A k \in Runs : Range(replay[k]) \subseteq OfRun(history, k)
<1>1. history \in Seq(Reporters)
    BY DEF IInv, TypeOK
<1>2. /\ Len(history) \in Nat /\ DOMAIN history = 1..Len(history)
      /\ \A x \in 1..Len(history) : history[x] \in Reporters
    BY <1>1
<1>3. \A x \in 1..Len(history) : run(x) \in Runs
    BY <1>2, ScopeAssumption DEF run
<1>4. \A k \in Runs : InScope(k) = OfRun(history, k)
    BY <1>2, ScopeAssumption DEF InScope, OfRun, run
<1>5. \A k \in Runs : Range(replay[k]) \subseteq OfRun(history, k)
    <2>1. SUFFICES ASSUME NEW k \in Runs
                   PROVE  Range(replay[k]) \subseteq OfRun(history, k)
        OBVIOUS
    <2>2. replay[k] \in Seq(Event) /\ \A i \in 1..Len(replay[k]) : replay[k][i] \in OfRun(history, k)
        BY DEF IInv, TypeOK, ReplayKept
    <2>3. QED
        BY <2>2, RangeIn
<1>6. QED
    BY <1>2, <1>3, <1>4, <1>5

\* A subscription is made: it starts with what the replay keeps of the events it asks for.
LEMMA SubscriptionStarts ==
    ASSUME IInv, NEW s \in Subscribers, NEW scope \in Runs \cup {All},
           NEW after \in 0..MaxEvents, Subscribe(s, scope, after)
    PROVE  IInv'
<1> DEFINE runs == IF scope = All THEN Runs ELSE {scope}
           kept == UNION {EventsAfter(k, after) : k \in runs}
<1>1. /\ TypeOK /\ reader[s] = "new" /\ runs \subseteq Runs
      /\ reader' = [reader EXCEPT ![s] = "reading"] /\ registered' = registered \cup {s}
      /\ UNCHANGED <<history, replay, got, call, dropped>>
    BY DEF IInv, Subscribe
<1>2. PICK replayed \in Sorted(kept) :
         sub' = [sub EXCEPT ![s] = [scope |-> scope, skipped |-> Unasked(scope, after),
                                    ch |-> <<>>, hand |-> replayed, out |-> <<>>]]
    BY Zenon DEF Subscribe
<1> DEFINE v == [scope |-> scope, skipped |-> Unasked(scope, after),
                 ch |-> <<>>, hand |-> replayed, out |-> <<>>]
<1>3. /\ Len(history) \in Nat /\ Len(history) <= MaxEvents
      /\ DOMAIN history = 1..Len(history) /\ MaxEvents \in Nat
      /\ 1..Len(history) \subseteq Event
    BY <1>1, LimitAssumption DEF TypeOK, Event
<1>4. kept \subseteq 1..Len(history)
    BY <1>1, OfRunIs DEF EventsAfter, OfRun
<1>5. /\ replayed \in Seq(1..Len(history)) /\ Range(replayed) = kept
      /\ Ordered(history, replayed)
    <2> HIDE DEF kept
    <2>1. QED
        BY <1>2, <1>3, <1>4, SortedLists
<1> HIDE DEF kept, runs
<1>6. v \in Subscription /\ Len(v.ch) <= Buffer /\ Len(v.out) <= Buffer
    <2>1. Unasked(scope, after) \subseteq Event
        BY <1>3 DEF Unasked, InScope
    <2>2. replayed \in Seq(Event)
        BY <1>3, <1>5
    <2>3. QED
        BY <2>1, <2>2, LimitAssumption DEF Subscription
<1>7. /\ sub' = [sub EXCEPT ![s] = v] /\ sub'[s] = v
      /\ \A t \in Subscribers : t # s => sub'[t] = sub[t]
    <2>1. sub' = [sub EXCEPT ![s] = v]
        BY <1>2, Zenon
    <2> HIDE DEF v
    <2>2. QED
        BY <1>1, <2>1 DEF TypeOK
<1>8. /\ sub'[s].scope = scope /\ sub'[s].skipped = Unasked(scope, after)
      /\ sub'[s].ch = <<>> /\ sub'[s].out = <<>> /\ sub'[s].hand = replayed
    BY <1>7
<1> HIDE DEF v
<1>9. TypeOK'
    <2>1. /\ sub' \in [Subscribers -> Subscription]
          /\ \A t \in Subscribers : Len(sub'[t].ch) <= Buffer /\ Len(sub'[t].out) <= Buffer
        BY <1>1, <1>6, <1>7, SubTyped
    <2>2. QED
        BY <1>1, <2>1 DEF TypeOK
<1>10. On(s) = {} /\ s \notin registered
    BY <1>1 DEF IInv, Members
<1>11. /\ got[s] \in Seq(1..Len(history)) /\ Range(got[s]) = {} /\ Ordered(history, got[s])
    BY <1>10 DEF On, Carried, IInv, Streams, StreamOK
<1>12. StreamOK(history, got[s], <<>>, replayed, <<>>) /\ On(s)' = kept
    <2>1. PICK none : none = <<>>
        OBVIOUS
    <2>2. none \in Seq(1..Len(history)) /\ Range(none) = {} /\ Ordered(history, none)
        BY <2>1, RangeEmpty, OrderedShort
    <2>3. StreamOK(history, got[s], none, replayed, none)
        BY <1>5, <1>11, <2>2 DEF StreamOK, Precede
    <2>4. Carried(got[s], none, replayed, none) = kept
        BY <1>5, <1>11, <2>2 DEF Carried
    <2>5. On(s)' = Carried(got[s], none, replayed, none)
        BY <1>1, <1>8, <2>1, Zenon DEF On
    <2>6. QED
        BY <2>1, <2>3, <2>4, <2>5
<1>13. \A t \in Subscribers : t # s => On(t)' = On(t)
    BY <1>1, <1>7 DEF On
<1>14. Streams'
    <2>1. SUFFICES ASSUME NEW t \in Subscribers
                   PROVE  StreamOK(history, got[t], sub'[t].out, sub'[t].hand, sub'[t].ch)
        BY <1>1 DEF Streams
    <2>2. CASE t = s
        BY <1>8, <1>12, <2>2, Zenon
    <2>3. CASE t # s
        BY <1>7, <2>3 DEF IInv, Streams
    <2>4. QED
        BY <2>2, <2>3
<1>15. Pending'
    BY <1>1 DEF IInv, Pending
<1>16. \A p \in Reporters : \A t \in Range(call[p].to) : t \in Subscribers /\ t # s
    <2>1. SUFFICES ASSUME NEW p \in Reporters, NEW t \in Range(call[p].to)
                   PROVE  t \in Subscribers /\ t # s
        OBVIOUS
    <2>2. t \in Subscribers
        BY <1>1, RangeIn DEF TypeOK
    <2>3. reader[t] # "new"
        BY DEF IInv, Unserved
    <2>4. QED
        BY <1>1, <2>2, <2>3
<1>17. \A t \in Subscribers : t # s => reader'[t] = reader[t]
    BY <1>1 DEF TypeOK
<1>18. Unserved'
    BY <1>1, <1>13, <1>16, <1>17 DEF IInv, Unserved
<1>19. Members'
    <2>1. IsFiniteSet(registered')
        BY <1>1, FS_AddElement DEF IInv, Members
    <2>2. reader'[s] = "reading" /\ s \in registered'
        BY <1>1 DEF TypeOK
    <2>3. \A t \in Subscribers : t # s => (t \in registered' <=> t \in registered)
        BY <1>1
    <2>4. QED
        BY <1>13, <1>17, <2>1, <2>2, <2>3 DEF IInv, Members
<1>20. ReplayKept'
    BY <1>1, ReplayStays DEF IInv
<1>21. Owed(s)' \subseteq kept
    <2>1. SUFFICES ASSUME NEW e \in Owed(s)'
                   PROVE  e \in kept
        OBVIOUS
    <2>2. e \in InScope(scope) /\ e \notin Unasked(scope, after)
        BY <1>1, <1>8 DEF Owed, InScope, run
    <2>3. /\ e \in 1..Len(history) /\ scope \in {All, run(e)} /\ ~(e <= after)
          /\ ~(Cardinality({x \in InScope(run(e)) : x > e}) >= ReplayLimit)
        BY <1>3, <2>2 DEF Unasked, InScope
    <2>4. run(e) \in runs /\ run(e) \in Runs
        BY <2>3, OfRunIs DEF runs
    <2>5. e \in OfRun(history, run(e)) /\ {x \in InScope(run(e)) : x > e} = Later(history, run(e), e)
        BY <2>3, <2>4, OfRunIs DEF OfRun, Later, run
    <2>6. e \in Range(replay[run(e)])
        BY <2>3, <2>4, <2>5 DEF IInv, ReplayKept
    <2>7. e \in EventsAfter(run(e), after)
        BY <1>3, <2>3, <2>6 DEF EventsAfter
    <2>8. QED
        BY <2>4, <2>7 DEF kept
<1>22. Accounted'
    <2>1. SUFFICES ASSUME NEW t \in Subscribers, reader'[t] \in {"reading", "stalled"},
                          NEW e \in Owed(t)', e \notin On(t)' \cup dropped[t]
                   PROVE  \E p \in Reporters : call[p].event = e /\ t \in Range(call[p].to)
        BY <1>1 DEF Accounted
    <2>2. t # s
        BY <1>12, <1>21, <2>1
    <2>3. e \in Owed(t) /\ e \notin On(t) \cup dropped[t] /\ reader[t] \in {"reading", "stalled"}
        BY <1>1, <1>7, <1>13, <1>17, <2>1, <2>2 DEF Owed, InScope, run
    <2>4. QED
        BY <2>3 DEF IInv, Accounted
<1>23. QED
    BY <1>9, <1>14, <1>15, <1>18, <1>19, <1>20, <1>22 DEF IInv

\* Last of a sequence with at most one element too many.
LEMMA LastIs ==
    ASSUME NEW S, NEW q \in Seq(S), NEW m \in Nat, Len(q) <= m + 1, NEW w, w = Last(q, m)
    PROVE  \E d \in {0, 1} : /\ w \in Seq(S) /\ Len(w) = Len(q) - d
                             /\ Len(q) - d <= m
                             /\ d = 1 => Len(q) = m + 1
                             /\ \A i \in 1..(Len(q) - d) : w[i] = q[i + d]
<1>1. Len(q) \in Nat
    OBVIOUS
<1>2. CASE Len(q) > m
    <2>1. Len(q) = m + 1 /\ w = SubSeq(q, 2, m + 1)
        BY <1>1, <1>2 DEF Last
    <2>2. \A i \in 2..(m + 1) : q[i] \in S
        BY <2>1
    <2>3. /\ w \in Seq(S) /\ Len(w) = m
          /\ \A i \in 1..m : w[i] = q[i + 1]
        BY <2>1, <2>2
    <2>4. QED
        BY <1>1, <2>1, <2>3
<1>3. CASE ~(Len(q) > m)
    <2>1. w = q /\ Len(q) <= m
        BY <1>1, <1>3 DEF Last
    <2>2. QED
        BY <1>1, <2>1
<1>4. QED
    BY <1>2, <1>3

\* The history and the runs of its events after a publish.
LEMMA Published ==
    ASSUME IInv, NEW p \in Reporters, publish(p), NEW e, e = Len(history) + 1
    PROVE  /\ history' \in Seq(Reporters) /\ Len(history') = e /\ e \in Event /\ e \in Nat \ {0}
           /\ 1..Len(history) \subseteq 1..e /\ e \notin 1..Len(history)
           /\ history'[e] = p /\ \A x \in 1..Len(history) : history'[x] = history[x]
           /\ RunOf[p] \in Runs /\ OfRun(history', RunOf[p]) = OfRun(history, RunOf[p]) \cup {e}
           /\ \A k \in Runs \ {RunOf[p]} : OfRun(history', k) = OfRun(history, k)
<1>1. history \in Seq(Reporters) /\ history' = Append(history, p) /\ Len(history) < MaxEvents
    BY DEF IInv, TypeOK, publish
<1>2. /\ history' \in Seq(Reporters) /\ Len(history') = e /\ Len(history) \in Nat
      /\ history'[e] = p /\ \A x \in 1..Len(history) : history'[x] = history[x]
    BY <1>1
<1>3. e \in Event /\ e \in Nat \ {0} /\ e \notin 1..Len(history)
    BY <1>1, <1>2, LimitAssumption DEF Event
<1>4. \A x : x \in 1..e <=> x \in 1..Len(history) \/ x = e
    BY <1>2
<1>5. RunOf[p] \in Runs
    BY ScopeAssumption
<1>6. \A k : \A x : x \in OfRun(history', k) <=> x \in OfRun(history, k) \/ (x = e /\ k = RunOf[p])
    BY <1>2, <1>3, <1>4 DEF OfRun
<1>7. OfRun(history', RunOf[p]) = OfRun(history, RunOf[p]) \cup {e}
    BY <1>6
<1>8. \A k \in Runs \ {RunOf[p]} : OfRun(history', k) = OfRun(history, k)
    <2>1. SUFFICES ASSUME NEW k \in Runs \ {RunOf[p]}
                   PROVE  OfRun(history', k) = OfRun(history, k)
        OBVIOUS
    <2>2. \A x : x \in OfRun(history', k) <=> x \in OfRun(history, k)
        BY <1>6
    <2>3. QED
        BY <2>2
<1>9. 1..Len(history) \subseteq 1..e
    BY <1>4
<1>10. QED
    BY <1>2, <1>3, <1>5, <1>7, <1>8, <1>9

\* Each earlier event of the run has one more later one.
LEMMA OneLater ==
    ASSUME IInv, NEW p \in Reporters, publish(p), NEW e, e = Len(history) + 1
    PROVE  /\ Cardinality(Later(history', RunOf[p], e)) = 0
           /\ \A x \in 1..Len(history) :
                 /\ Cardinality(Later(history, RunOf[p], x)) \in Nat
                 /\ Cardinality(Later(history', RunOf[p], x)) = Cardinality(Later(history, RunOf[p], x)) + 1
<1> DEFINE k == RunOf[p]
<1>1. OfRun(history', k) = OfRun(history, k) \cup {e} /\ OfRun(history, k) \subseteq 1..Len(history) /\ e \in Nat
    BY Published DEF OfRun
<1>2. Len(history) \in Nat
    BY OfRunIs
<1>3. Later(history', k, e) = {}
    BY <1>1, <1>2 DEF Later
<1>4. ASSUME NEW x \in 1..Len(history)
      PROVE  /\ Cardinality(Later(history, k, x)) \in Nat
             /\ Cardinality(Later(history', k, x)) = Cardinality(Later(history, k, x)) + 1
    <2>1. Later(history', k, x) = Later(history, k, x) \cup {e} /\ e \notin Later(history, k, x)
        BY <1>1, <1>2, <1>4 DEF Later
    <2>2. IsFiniteSet(Later(history, k, x))
        <3>1. IsFiniteSet(1..Len(history))
            BY <1>2, FS_Interval
        <3>2. Later(history, k, x) \in SUBSET (1..Len(history))
            BY <1>1 DEF Later
        <3>3. QED
            BY <3>1, <3>2, FS_Subset
    <2>3. QED
        BY <2>1, <2>2, FS_AddElement, FS_CardinalityType
<1>5. QED
    BY <1>3, <1>4, FS_EmptySet

\* publish keeps the last events of the run for replay.
LEMMA ReplayGrows ==
    ASSUME IInv, NEW p \in Reporters, publish(p)
    PROVE  /\ ReplayKept'
           /\ replay' \in [Runs -> Seq(Event)] /\ \A k \in Runs : Len(replay'[k]) <= ReplayLimit
<1> DEFINE k == RunOf[p]
           e == Len(history) + 1
           r == replay[k]
           q == Append(r, e)
           w == Last(q, ReplayLimit)
<1>1. /\ k \in Runs /\ e \in Event /\ ReplayLimit \in Nat
      /\ replay \in [Runs -> Seq(Event)] /\ r \in Seq(Event) /\ Len(r) <= ReplayLimit
    BY Published, LimitAssumption DEF IInv, TypeOK
<1>2. replay' = [replay EXCEPT ![k] = w]
    BY DEF publish
<1>3. /\ q \in Seq(Event) /\ Len(q) = Len(r) + 1 /\ Len(r) \in Nat /\ q[Len(r) + 1] = e
      /\ \A i \in 1..Len(r) : q[i] = r[i]
    <2> HIDE DEF r, e
    <2>1. QED
        BY <1>1
<1>4. /\ \A i \in 1..Len(r) : /\ r[i] \in OfRun(history, k)
                              /\ Cardinality(Later(history, k, r[i])) = Len(r) - i
      /\ \A x \in OfRun(history, k) \ Range(r) : Cardinality(Later(history, k, x)) >= ReplayLimit
    BY <1>1 DEF IInv, ReplayKept
<1>5. /\ OfRun(history', k) = OfRun(history, k) \cup {e} /\ OfRun(history, k) \subseteq 1..Len(history)
      /\ \A j \in Runs \ {k} : OfRun(history', j) = OfRun(history, j)
    BY Published DEF OfRun
<1>6. /\ Cardinality(Later(history', k, e)) = 0
      /\ \A x \in 1..Len(history) :
            /\ Cardinality(Later(history, k, x)) \in Nat
            /\ Cardinality(Later(history', k, x)) = Cardinality(Later(history, k, x)) + 1
    <2>1. e = Len(history) + 1
        OBVIOUS
    <2> HIDE DEF e
    <2>2. QED
        BY <2>1, OneLater
<1>7. Range(r) = {r[i] : i \in 1..Len(r)}
    BY <1>1, RangeIn
<1> HIDE DEF k, e, r, q, w
<1>8. PICK d \in {0, 1} : /\ w \in Seq(Event)
                          /\ Len(w) = Len(q) - d /\ Len(q) - d <= ReplayLimit
                          /\ d = 1 => Len(q) = ReplayLimit + 1
                          /\ \A i \in 1..(Len(q) - d) : w[i] = q[i + d]
    <2>1. Len(q) <= ReplayLimit + 1
        BY <1>1, <1>3
    <2>2. QED
        <3>1. w = Last(q, ReplayLimit) /\ q \in Seq(Event) /\ ReplayLimit \in Nat
            BY <1>1, <1>3, Zenon DEF w
        <3>2. \E d \in {0, 1} : /\ w \in Seq(Event) /\ Len(w) = Len(q) - d
                                /\ Len(q) - d <= ReplayLimit
                                /\ d = 1 => Len(q) = ReplayLimit + 1
                                /\ \A i \in 1..(Len(q) - d) : w[i] = q[i + d]
            BY <2>1, <3>1, LastIs
        <3>3. QED
            BY <3>2, Zenon
<1>9. replay'[k] = w /\ \A j \in Runs \ {k} : replay'[j] = replay[j]
    BY <1>1, <1>2
<1>10. replay' \in [Runs -> Seq(Event)] /\ \A j \in Runs : Len(replay'[j]) <= ReplayLimit
    BY <1>1, <1>2, <1>8 DEF IInv, TypeOK
<1>11. ASSUME NEW i \in 1..Len(w)
       PROVE  w[i] \in OfRun(history', k) /\ Cardinality(Later(history', k, w[i])) = Len(w) - i
    <2>1. /\ i \in 1..(Len(q) - d) /\ w[i] = q[i + d] /\ Len(w) = Len(r) + 1 - d
          /\ i + d \in 1..(Len(r) + 1)
        BY <1>3, <1>8
    <2>2. CASE i + d \in 1..Len(r)
        <3>1. /\ w[i] = r[i + d] /\ r[i + d] \in OfRun(history, k)
              /\ Cardinality(Later(history, k, r[i + d])) = Len(r) - (i + d)
            BY <1>3, <1>4, <2>1, <2>2
        <3>2. Cardinality(Later(history', k, w[i])) = Len(r) - (i + d) + 1 /\ w[i] \in OfRun(history', k)
            BY <1>5, <1>6, <3>1
        <3>3. QED
            BY <1>3, <2>1, <3>2
    <2>3. CASE i + d = Len(r) + 1
        <3>1. w[i] = e
            BY <1>3, <2>1, <2>3
        <3>2. QED
            BY <1>3, <1>5, <1>6, <2>1, <2>3, <3>1
    <2>4. QED
        BY <1>3, <2>1, <2>2, <2>3
<1>12. \A i \in 1..Len(w) : w[i] \in Range(w)
    BY <1>8, RangeIn
<1>13. ASSUME NEW x \in OfRun(history', k), x \notin Range(w)
       PROVE  Cardinality(Later(history', k, x)) >= ReplayLimit
    <2>1. CASE x = e
        <3>1. Len(w) = 0
            <4>1. SUFFICES ASSUME Len(w) # 0 PROVE FALSE
                OBVIOUS
            <4>2. Len(w) \in 1..Len(w) /\ Len(w) \in 1..(Len(q) - d) /\ Len(w) + d = Len(r) + 1
                BY <1>3, <1>8, <4>1
            <4>3. w[Len(w)] = e
                BY <1>3, <1>8, <4>2
            <4>4. QED
                BY <1>12, <1>13, <2>1, <4>2, <4>3
        <3>2. ReplayLimit = 0
            BY <1>1, <1>3, <1>8, <3>1
        <3>3. QED
            BY <1>6, <2>1, <3>2
    <2>2. CASE x \in OfRun(history, k) /\ x \in Range(r)
        <3>1. PICK i \in 1..Len(r) : x = r[i]
            BY <1>7, <2>2
        <3>2. i = 1 /\ d = 1
            <4>1. SUFFICES ASSUME i - d \in 1..(Len(q) - d) PROVE FALSE
                BY <1>3, <1>8, <3>1
            <4>2. w[i - d] = r[i] /\ i - d \in 1..Len(w)
                <5>1. w[i - d] = q[(i - d) + d] /\ (i - d) + d = i
                    BY <1>8, <3>1, <4>1
                <5>2. QED
                    BY <1>3, <1>8, <3>1, <4>1, <5>1
            <4>3. QED
                BY <1>12, <1>13, <3>1, <4>2
        <3>3. Cardinality(Later(history, k, x)) = Len(r) - 1 /\ Len(r) = ReplayLimit
            BY <1>1, <1>3, <1>4, <1>8, <3>1, <3>2
        <3>4. QED
            BY <1>1, <1>5, <1>6, <2>2, <3>3
    <2>3. CASE x \in OfRun(history, k) /\ x \notin Range(r)
        BY <1>1, <1>4, <1>5, <1>6, <2>3
    <2>4. QED
        BY <1>5, <2>1, <2>2, <2>3
<1>14. ASSUME NEW j \in Runs \ {k}
       PROVE  /\ \A i \in 1..Len(replay'[j]) :
                    /\ replay'[j][i] \in OfRun(history', j)
                    /\ Cardinality(Later(history', j, replay'[j][i])) = Len(replay'[j]) - i
              /\ \A x \in OfRun(history', j) \ Range(replay'[j]) : Cardinality(Later(history', j, x)) >= ReplayLimit
    <2>1. OfRun(history', j) = OfRun(history, j) /\ replay'[j] = replay[j]
        BY <1>5, <1>9
    <2>2. \A x : Later(history', j, x) = Later(history, j, x)
        BY <2>1, Zenon DEF Later
    <2>3. QED
        BY <2>1, <2>2 DEF IInv, ReplayKept
<1>15. ReplayKept'
    BY <1>9, <1>11, <1>13, <1>14 DEF ReplayKept
<1>16. QED
    BY <1>10, <1>15

\* A reporter publishes: its event is on its way to every subscriber it concerns.
LEMMA EventPublished ==
    ASSUME IInv, NEW p \in Reporters, publish(p)
    PROVE  IInv'
<1> DEFINE k == RunOf[p]
           S == SubscribersOf(k)
<1>1. /\ TypeOK /\ call[p] = Returned /\ history' = Append(history, p)
      /\ UNCHANGED <<registered, sub, reader, got, dropped>>
    BY DEF IInv, publish
<1>2. PICK e : e = Len(history) + 1
    OBVIOUS
<1>3. /\ history' \in Seq(Reporters) /\ Len(history') = e /\ e \in Event /\ e \in Nat \ {0}
      /\ 1..Len(history) \subseteq 1..e /\ e \notin 1..Len(history)
      /\ history'[e] = p /\ \A x \in 1..Len(history) : history'[x] = history[x]
    BY <1>2, Published
<1>4. PICK q \in Orders(S) :
         call' = [call EXCEPT ![p] = IF q = <<>> THEN Returned
                                     ELSE [event |-> e, to |-> q, full |-> FALSE]]
    BY <1>2, Zenon DEF publish
<1>5. /\ q \in Seq(S) /\ Range(q) = S
      /\ \A i, j \in 1..Len(q) : i # j => q[i] # q[j]
    <2>1. S \in SUBSET registered
        BY DEF SubscribersOf
    <2>2. IsFiniteSet(S)
        BY <2>1, FS_Subset DEF IInv, Members
    <2> HIDE DEF S
    <2>3. q \in [1..Cardinality(S) -> S] /\ IsInjective(q)
        BY Zenon DEF Orders
    <2>4. q \in Seq(S) /\ Len(q) = Cardinality(S) /\ Range(q) = S
        BY <2>2, <2>3, Listing
    <2>5. QED
        BY <2>3, <2>4 DEF IsInjective
<1>6. \A s : s \in S <=> s \in registered /\ sub[s].scope \in {k, All}
    BY DEF SubscribersOf
<1>7. S \subseteq registered /\ registered \subseteq Subscribers /\ q \in Seq(Subscribers)
    <2>1. S \subseteq registered /\ registered \subseteq Subscribers
        BY <1>1, <1>6 DEF TypeOK
    <2> HIDE DEF S
    <2>2. QED
        BY <1>5, <2>1
<1> HIDE DEF S
<1>8. /\ \A r \in Reporters : r # p => call'[r] = call[r]
      /\ \/ S = {} /\ call'[p] = Returned
         \/ call'[p] = [event |-> e, to |-> q, full |-> FALSE]
      /\ call' = [call EXCEPT ![p] = call'[p]]
    <2> DEFINE v == IF q = <<>> THEN Returned ELSE [event |-> e, to |-> q, full |-> FALSE]
    <2>1. \/ S = {} /\ v = Returned
          \/ v = [event |-> e, to |-> q, full |-> FALSE]
        BY <1>5, RangeEmpty
    <2>2. call' = [call EXCEPT ![p] = v] /\ DOMAIN call = Reporters
        BY <1>1, <1>4 DEF TypeOK
    <2> HIDE DEF v
    <2>3. QED
        BY <2>1, <2>2
<1>9. /\ Range(call'[p].to) = S
      /\ S # {} => call'[p].event = e
      /\ call'[p] # Returned => call'[p].event = e /\ call'[p].to = q
      /\ call'[p] \in [event : 0..MaxEvents, to : Seq(Subscribers), full : BOOLEAN]
    <2>1. CASE S = {} /\ call'[p] = Returned
        <3>1. Range(Returned.to) = {}
            BY RangeEmpty DEF Returned
        <3>2. QED
            BY <2>1, <3>1, ReturnedTyped
    <2>2. CASE call'[p] = [event |-> e, to |-> q, full |-> FALSE]
        <3>1. e \in 0..MaxEvents
            BY <1>3, LimitAssumption DEF Event
        <3>2. QED
            BY <1>5, <1>7, <2>2, <3>1
    <2>3. QED
        BY <1>8, <2>1, <2>2
<1>10. TypeOK'
    <2>1. call' \in [Reporters -> [event : 0..MaxEvents, to : Seq(Subscribers), full : BOOLEAN]]
        BY <1>1, <1>8, <1>9 DEF TypeOK
    <2>2. Len(history') <= MaxEvents
        BY <1>3, LimitAssumption DEF Event
    <2>3. QED
        BY <1>1, <1>3, <2>1, <2>2, ReplayGrows DEF TypeOK
<1>11. Streams'
    <2>1. SUFFICES ASSUME NEW s \in Subscribers
                   PROVE  StreamOK(history', got[s], sub[s].out, sub[s].hand, sub[s].ch)
        BY <1>1 DEF Streams
    <2>2. StreamOK(history, got[s], sub[s].out, sub[s].hand, sub[s].ch)
        BY DEF IInv, Streams
    <2>3. history \in Seq(Reporters)
        BY <1>1 DEF TypeOK
    <2>4. QED
        BY <1>1, <2>2, <2>3, HistoryGrows, Zenon
<1>12. Pending'
    <2>1. SUFFICES ASSUME NEW r \in Reporters, call'[r] # Returned
                   PROVE  /\ call'[r].event \in 1..Len(history') /\ history'[call'[r].event] = r
                          /\ \A x \in 1..Len(history') : history'[x] = r => x <= call'[r].event
                          /\ \A i, j \in 1..Len(call'[r].to) :
                                i # j => call'[r].to[i] # call'[r].to[j]
        BY DEF Pending
    <2>2. CASE r = p
        <3>1. call'[r].event = e /\ call'[r].to = q
            BY <1>9, <2>1, <2>2
        <3>2. \A x \in 1..e : x <= e
            BY <1>3
        <3>3. e \in 1..e
            BY <1>3
        <3>4. QED
            BY <1>3, <1>5, <2>2, <3>1, <3>2, <3>3
    <2>3. CASE r # p
        <3>1. call'[r] = call[r] /\ call[r] # Returned
            BY <1>8, <2>1, <2>3
        <3>2. /\ call[r].event \in 1..Len(history) /\ history[call[r].event] = r
              /\ \A x \in 1..Len(history) : history[x] = r => x <= call[r].event
              /\ \A i, j \in 1..Len(call[r].to) : i # j => call[r].to[i] # call[r].to[j]
            BY <3>1 DEF IInv, Pending
        <3>3. \A x \in 1..e : x \in 1..Len(history) \/ x = e
            BY <1>2, <1>3
        <3>4. QED
            BY <1>3, <2>3, <3>1, <3>2, <3>3
    <2>4. QED
        BY <2>2, <2>3
<1>13. \A s : On(s)' = On(s)
    BY <1>1 DEF On
<1>14. Unserved'
    <2>1. SUFFICES ASSUME NEW r \in Reporters, NEW s \in Range(call'[r].to)
                   PROVE  call'[r].event \notin On(s) /\ reader[s] # "new"
        BY <1>1, <1>13 DEF Unserved
    <2>2. CASE r = p
        <3>1. s \in S /\ call'[r].event = e
            BY <1>9, <2>1, <2>2
        <3>2. s \in registered /\ s \in Subscribers
            BY <1>7, <3>1
        <3>3. On(s) \subseteq 1..Len(history)
            BY <3>2, OnIs DEF IInv
        <3>4. reader[s] # "new"
            BY <3>2 DEF IInv, Members
        <3>5. QED
            BY <1>3, <3>1, <3>3, <3>4
    <2>3. CASE r # p
        BY <1>8, <2>1, <2>3 DEF IInv, Unserved
    <2>4. QED
        BY <2>2, <2>3
<1>15. Members'
    BY <1>1, <1>13 DEF IInv, Members
<1>16. ReplayKept'
    BY ReplayGrows
<1>17. Accounted'
    <2>1. SUFFICES ASSUME NEW s \in Subscribers, reader[s] \in {"reading", "stalled"},
                          NEW x \in Owed(s)', x \notin On(s) \cup dropped[s]
                   PROVE  \E r \in Reporters : call'[r].event = x /\ s \in Range(call'[r].to)
        BY <1>1, <1>13 DEF Accounted
    <2>2. /\ x \in 1..Len(history') /\ sub[s].scope \in {All, RunOf[history'[x]]}
          /\ x \notin sub[s].skipped
        BY <1>1, <1>3, <2>1 DEF Owed, InScope, run
    <2>3. CASE x = e
        <3>1. s \in registered
            BY <2>1 DEF IInv, Members
        <3>2. s \in S
            BY <1>3, <1>6, <2>2, <2>3, <3>1
        <3>3. QED
            BY <1>9, <2>3, <3>2
    <2>4. CASE x # e
        <3>1. x \in 1..Len(history)
            BY <1>2, <1>3, <2>2, <2>4
        <3>2. x \in Owed(s)
            BY <1>1, <1>3, <2>2, <3>1 DEF Owed, InScope, run, TypeOK
        <3>3. PICK r \in Reporters : call[r].event = x /\ s \in Range(call[r].to)
            BY <2>1, <3>2 DEF IInv, Accounted
        <3>4. r # p
            BY <1>1, <3>3, RangeEmpty DEF Returned
        <3>5. QED
            BY <1>8, <3>3, <3>4
    <2>5. QED
        BY <2>3, <2>4
<1>18. QED
    BY <1>10, <1>11, <1>12, <1>14, <1>15, <1>16, <1>17 DEF IInv

-----------------------------------------------------------------------------
(* The invariant                                                           *)

\* Nothing is published and nobody has subscribed.
LEMMA InitInv == Init => IInv
<1> SUFFICES ASSUME Init
             PROVE  IInv
    OBVIOUS
<1>1. PICK none : none = <<>>
    OBVIOUS
<1>2. /\ \A T : none \in Seq(T)
      /\ Range(none) = {} /\ Len(none) = 0 /\ \A h : Ordered(h, none)
    BY <1>1, RangeEmpty, OrderedShort
<1>3. /\ history = none /\ registered = {} /\ \A k \in Runs : replay[k] = none
      /\ \A s \in Subscribers : /\ sub[s].out = none /\ sub[s].hand = none /\ sub[s].ch = none
                                /\ got[s] = none /\ reader[s] = "new"
      /\ \A p \in Reporters : call[p] = Returned /\ Returned.to = none
    BY <1>1 DEF Init, NoSubscription, Returned
<1>4. TypeOK
    <2>1. NoSubscription \in Subscription
        BY DEF NoSubscription, Subscription
    <2>2. sub \in [Subscribers -> Subscription]
        BY <2>1 DEF Init
    <2>3. call \in [Reporters -> [event : 0..MaxEvents, to : Seq(Subscribers), full : BOOLEAN]]
        BY ReturnedTyped DEF Init
    <2>4. /\ history \in Seq(Reporters) /\ Len(history) <= MaxEvents
          /\ replay \in [Runs -> Seq(Event)] /\ got \in [Subscribers -> Seq(Event)]
        BY LimitAssumption DEF Init
    <2>5. /\ \A k \in Runs : Len(replay[k]) <= ReplayLimit
          /\ \A s \in Subscribers : Len(sub[s].ch) <= Buffer /\ Len(sub[s].out) <= Buffer
        BY <1>2, <1>3, LimitAssumption
    <2>6. /\ registered \subseteq Subscribers
          /\ reader \in [Subscribers -> {"new", "reading", "stalled", "ended"}]
          /\ dropped \in [Subscribers -> SUBSET Event]
        BY DEF Init
    <2>7. QED
        BY <2>2, <2>3, <2>4, <2>5, <2>6 DEF TypeOK
<1>5. Streams
    BY <1>2, <1>3 DEF Streams, StreamOK, Precede
<1>6. \A s \in Subscribers : On(s) = {}
    BY <1>2, <1>3 DEF On, Carried
<1>7. Pending /\ Unserved
    BY <1>2, <1>3 DEF Pending, Unserved
<1>8. Members
    BY <1>3, <1>6, FS_EmptySet DEF Members
<1>9. ReplayKept
    BY <1>2, <1>3 DEF ReplayKept, OfRun
<1>10. Accounted
    BY <1>3 DEF Accounted
<1>11. QED
    BY <1>4, <1>5, <1>7, <1>8, <1>9, <1>10 DEF IInv

\* A step that changes nothing.
LEMMA Stutters ==
    ASSUME IInv, UNCHANGED vars
    PROVE  IInv'
<1>1. /\ UNCHANGED <<history, replay, registered, sub>>
      /\ UNCHANGED <<reader, got, call, dropped>>
    BY DEF vars
<1>2. TypeOK' /\ Pending'
    <2>1. TypeOK'
        BY <1>1 DEF IInv, TypeOK
    <2>2. Pending'
        BY <1>1 DEF IInv, Pending
    <2>3. QED
        BY <2>1, <2>2
<1>3. \A s : On(s)' = On(s) /\ Owed(s)' = Owed(s)
    BY <1>1 DEF On, Owed, InScope, run
<1>4. Streams' /\ Unserved' /\ Members' /\ Accounted'
    <2>1. Streams' /\ Unserved'
        BY <1>1, <1>3 DEF IInv, Streams, Unserved
    <2>2. Members' /\ Accounted'
        BY <1>1, <1>3 DEF IInv, Members, Accounted
    <2>3. QED
        BY <2>1, <2>2
<1>5. ReplayKept'
    BY <1>1, ReplayStays DEF IInv
<1>6. QED
    BY <1>2, <1>4, <1>5 DEF IInv

\* Every step preserves the invariant.
LEMMA Inductive == IInv /\ [Next]_vars => IInv'
<1> SUFFICES ASSUME IInv, [Next]_vars
             PROVE  IInv'
    OBVIOUS
<1>1. ASSUME NEW p \in Reporters, publish(p) \/ PublisherStep(p)
      PROVE  IInv'
    BY <1>1, EventPublished, PublisherDelivers, PublisherMakesRoom DEF PublisherStep
<1>2. ASSUME NEW s \in Subscribers,
             \/ \E scope \in Runs \cup {All}, after \in 0..MaxEvents : Subscribe(s, scope, after)
             \/ Receive(s) \/ Forward(s) \/ Take(s)
             \/ Stall(s) \/ Disconnect(s) \/ unsubscribe(s)
      PROVE  IInv'
    BY <1>2, SubscriptionStarts, SubscriptionMoves
<1>3. CASE UNCHANGED vars
    BY <1>3, Stutters
<1>4. QED
    BY <1>1, <1>2, <1>3 DEF Next

LEMMA Invariant == Spec => []IInv
BY InitInv, Inductive, PTL DEF Spec

-----------------------------------------------------------------------------
(* Theorems                                                                *)

\* EventHub.publish and deliverLatest keep the replay of every run within ReplayLimit and
\* the channels within their capacity, whatever publishers and readers do.
THEOREM TypeCorrect == Spec => []TypeOK
<1>1. IInv => TypeOK
    BY DEF IInv
<1>2. QED
    BY <1>1, Invariant, PTL

\* deliverLatest, with publishers that deliver at the same time and drop each other's
\* events, never gives a reader an event twice, nor an earlier event of a reporter after
\* a later one.
THEOREM OnceAndInOrder == Spec => []InOrderOnce
<1>1. IInv => InOrderOnce
    <2>1. SUFFICES ASSUME IInv, NEW s \in Subscribers, NEW q, q = Stream(s),
                          NEW i \in DOMAIN q, NEW j \in DOMAIN q, i < j
                   PROVE  q[i] # q[j] /\ (history[q[i]] = history[q[j]] => q[i] < q[j])
        BY DEF InOrderOnce
    <2>2. StreamOK(history, got[s], sub[s].out, sub[s].hand, sub[s].ch)
        BY <2>1 DEF IInv, Streams
    <2>3. q \in Seq(1..Len(history)) /\ Ordered(history, q)
        BY <2>1, <2>2, WholeStream DEF Stream
    <2>4. i \in 1..Len(q) /\ j \in 1..Len(q)
        BY <2>3
    <2>5. QED
        BY <2>1, <2>3, <2>4, Zenon DEF Ordered, Before
<1>2. QED
    BY <1>1, Invariant, PTL

\* SubscribeAfter snapshots the replay and registers in one critical section and publish
\* remembers its subscribers under the same mutex, so that no event falls in between: what
\* a reader is owed it has, or it is on its way to it, or a full channel dropped it.
THEOREM NothingIsLost == Spec => []NothingSlipsThrough
<1>1. IInv => NothingSlipsThrough
    <2>1. SUFFICES ASSUME IInv, NEW s \in Subscribers, reader[s] \in {"reading", "stalled"},
                          NEW e \in Owed(s) \ (Range(Stream(s)) \cup dropped[s])
                   PROVE  \E p \in Reporters : call[p].event = e /\ s \in Range(call[p].to)
        BY DEF NothingSlipsThrough
    <2>2. StreamOK(history, got[s], sub[s].out, sub[s].hand, sub[s].ch)
        BY <2>1 DEF IInv, Streams
    <2>3. Range(Stream(s)) = On(s)
        BY <2>2, WholeStream DEF Stream, On
    <2>4. QED
        BY <2>1, <2>3 DEF IInv, Accounted
<1>2. QED
    BY <1>1, Invariant, PTL

=============================================================================
