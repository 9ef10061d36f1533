------------------------------ MODULE EventHub ------------------------------
(***************************************************************************)
(* control.EventHub: targets and sources report events of their runs, the  *)
(* hub numbers them, keeps the last ones of each run and hands them to     *)
(* subscribers - the ControlEventApplier, which is subscribed to all runs, *)
(* and the live API's event streams, of one run or of all.                 *)
(*                                                                         *)
(* The mutex covers the numbering, the replay and the set of subscribers;  *)
(* publishers deliver after releasing it, several at a time, and never     *)
(* wait: a full channel loses its oldest event.                            *)
(***************************************************************************)
EXTENDS Naturals, Sequences, FiniteSets, Functions

CONSTANTS
    Runs,         \* run keys with events
    Reporters,    \* targets and sources, which report with one call at a time
    RunOf,        \* the run a reporter belongs to
    Subscribers,  \* subscriptions, each used once
    All,          \* scope of SubscribeAll
    ReplayLimit,  \* events kept per run (256 in the code)
    Buffer,       \* capacity of a subscriber's channels (64 in the code)
    MaxEvents     \* bound on published events

ASSUME ScopeAssumption == All \notin Runs /\ RunOf \in [Reporters -> Runs]
ASSUME LimitAssumption == ReplayLimit \in Nat /\ Buffer \in Nat \ {0} /\ MaxEvents \in Nat

VARIABLES
    history,      \* history[n]: reporter of the event with sequence n
    replay,       \* runEvents.replay, as sequence numbers
    registered,   \* subscribers of the hub
    sub,          \* channels and goroutine of each subscription
    reader,       \* its context: "new", "reading", "stalled" or "ended"
    got,          \* events its reader took
    call,         \* the publish call of each reporter
    dropped       \* events lost to a full channel, for each subscription

vars == <<history, replay, registered, sub, reader, got, call, dropped>>

Event  == 1..MaxEvents
run(e) == RunOf[history[e]]

\* scope is a run or All; skipped are the events published before the subscription
\* that it does not ask for or that the hub no longer keeps.
Subscription == [scope : Runs \cup {All}, skipped : SUBSET Event,
                 ch : Seq(Event), hand : Seq(Event), out : Seq(Event)]
NoSubscription == [scope |-> All, skipped |-> {},
                   ch |-> <<>>, hand |-> <<>>, out |-> <<>>]

\* Events in the history of the runs in scope.
InScope(scope) == {e \in DOMAIN history : scope \in {All, run(e)}}

Returned == [event |-> 0, to |-> <<>>, full |-> FALSE]

Init == /\ history = <<>>
        /\ replay = [k \in Runs |-> <<>>]
        /\ registered = {}
        /\ sub = [s \in Subscribers |-> NoSubscription]
        /\ reader = [s \in Subscribers |-> "new"]
        /\ got = [s \in Subscribers |-> <<>>]
        /\ call = [p \in Reporters |-> Returned]
        /\ dropped = [s \in Subscribers |-> {}]

-----------------------------------------------------------------------------
(* publish                                                                 *)

\* Mutant: the overflow is computed before the event is appended.
LastAndOne(q, n) == IF Len(q) > n + 1 THEN SubSeq(q, Len(q) - n, Len(q)) ELSE q

\* The last n elements of q.
Last(q, n) == IF Len(q) > n THEN SubSeq(q, Len(q) - n + 1, Len(q)) ELSE q

\* Mutant: only the run's own subscribers are remembered.
RunSubscribersOnly(k) == {s \in registered : sub[s].scope = k}

\* The run's subscribers and those of all runs.
SubscribersOf(k) == {s \in registered : sub[s].scope \in {k, All}}

\* The order of delivery: the run's subscribers first, each set as the map yields it.
Orders(set) == {q \in [1..Cardinality(set) -> set] :
                   /\ IsInjective(q)
                   /\ \A i, j \in DOMAIN q :
                         sub[q[i]].scope # All /\ sub[q[j]].scope = All => i < j}

\* publish, under the mutex.
publish(p) ==
    /\ call[p] = Returned
    /\ Len(history) < MaxEvents
    /\ LET k == RunOf[p]
           e == Len(history) + 1
       IN  /\ history' = Append(history, p)
           /\ replay' = [replay EXCEPT ![k] = Last(Append(@, e), ReplayLimit)]
           /\ \E q \in Orders(SubscribersOf(k)) :
                 call' = [call EXCEPT ![p] =
                             IF q = <<>> THEN Returned
                             ELSE [event |-> e, to |-> q, full |-> FALSE]]
    /\ UNCHANGED <<registered, sub, reader, got, dropped>>

Delivering(p, s) == call[p].to # <<>> /\ Head(call[p].to) = s
HasRoom(s) == Len(sub[s].ch) < Buffer

\* deliverLatest: the send succeeds and the next subscriber is served.
Deliver(p, s) ==
    /\ Delivering(p, s) /\ ~call[p].full
    /\ HasRoom(s)
    /\ sub' = [sub EXCEPT ![s].ch = Append(@, call[p].event)]
    /\ call' = [call EXCEPT ![p] = IF Len(@.to) = 1 THEN Returned
                                   ELSE [call[p] EXCEPT !.to = Tail(@)]]
    /\ UNCHANGED <<history, replay, registered, reader, got, dropped>>

\* ... or the channel is full, and a separate receive makes room: by then the
\* goroutine may have taken an event, or another publisher sent one.
FindFull(p, s) ==
    /\ Delivering(p, s) /\ ~call[p].full
    /\ ~HasRoom(s)
    /\ call' = [call EXCEPT ![p].full = TRUE]
    /\ UNCHANGED <<history, replay, registered, sub, reader, got, dropped>>

\* Mutant: a full channel is waited for.
WaitForRoom(p, s) ==
    /\ Delivering(p, s) /\ call[p].full
    /\ HasRoom(s)
    /\ call' = [call EXCEPT ![p].full = FALSE]
    /\ UNCHANGED <<history, replay, registered, sub, reader, got, dropped>>

DropOldest(p, s) ==
    /\ Delivering(p, s) /\ call[p].full
    /\ call' = [call EXCEPT ![p].full = FALSE]
    /\ IF sub[s].ch = <<>> THEN UNCHANGED <<sub, dropped>>
       ELSE /\ dropped' = [dropped EXCEPT ![s] = @ \cup {Head(sub[s].ch)}]
            /\ sub' = [sub EXCEPT ![s].ch = Tail(@)]
    /\ UNCHANGED <<history, replay, registered, reader, got>>

-----------------------------------------------------------------------------
(* SubscribeAfter and SubscribeAllAfter                                    *)

\* The replayed events by sequence (the one order there is).
Sorted(kept) == {q \in [1..Cardinality(kept) -> kept] :
                    \A i, j \in DOMAIN q : i < j => q[i] < q[j]}

\* cloneEventsAfter: the events still in replay with a later sequence.
EventsAfter(k, after) == {e \in Range(replay[k]) : e > after}

\* Events a new subscription is not owed: those up to the one it resumes after and
\* those with ReplayLimit later ones in their run.
Unasked(scope, after) == {e \in InScope(scope) :
    e <= after \/ Cardinality({x \in InScope(run(e)) : x > e}) >= ReplayLimit}

\* Snapshot and registration are one critical section.  A live API client brings the
\* Last-Event-ID of an earlier connection, which may have been to an earlier manager;
\* the applier starts from 0.
Subscribe(s, scope, after) ==
    /\ reader[s] = "new"
    /\ reader' = [reader EXCEPT ![s] = "reading"]
    /\ registered' = registered \cup {s}
    /\ LET runs == IF scope = All THEN Runs ELSE {scope}
       IN  \E replayed \in Sorted(UNION {EventsAfter(k, after) : k \in runs}) :
              sub' = [sub EXCEPT ![s] =
                 [scope |-> scope, skipped |-> Unasked(scope, after),
                  ch |-> <<>>, hand |-> replayed, out |-> <<>>]]
    /\ UNCHANGED <<history, replay, got, call, dropped>>

\* Mutant: the goroutine selects among replay and channel.
ReceiveFirst(s) ==
    /\ s \in registered
    /\ sub[s].ch # <<>>
    /\ sub' = [sub EXCEPT ![s].hand = <<Head(sub[s].ch)>> \o @, ![s].ch = Tail(@)]
    /\ UNCHANGED <<history, replay, registered, reader, got, call, dropped>>

\* The goroutine: the replay, then event by event from the channel.
Receive(s) ==
    /\ s \in registered
    /\ sub[s].hand = <<>> /\ sub[s].ch # <<>>
    /\ sub' = [sub EXCEPT ![s].hand = <<Head(sub[s].ch)>>, ![s].ch = Tail(@)]
    /\ UNCHANGED <<history, replay, registered, reader, got, call, dropped>>

\* Mutant: the last place of out is left free.
ForwardOneLess(s) ==
    /\ s \in registered
    /\ sub[s].hand # <<>> /\ Len(sub[s].out) + 1 < Buffer
    /\ sub' = [sub EXCEPT ![s].out = Append(@, Head(sub[s].hand)), ![s].hand = Tail(@)]
    /\ UNCHANGED <<history, replay, registered, reader, got, call, dropped>>

Forward(s) ==
    /\ s \in registered
    /\ sub[s].hand # <<>> /\ Len(sub[s].out) < Buffer
    /\ sub' = [sub EXCEPT ![s].out = Append(@, Head(sub[s].hand)), ![s].hand = Tail(@)]
    /\ UNCHANGED <<history, replay, registered, reader, got, call, dropped>>

\* ControlEventApplier.Start or writeEventStream takes the next event.
Take(s) ==
    /\ reader[s] = "reading"
    /\ sub[s].out # <<>>
    /\ got' = [got EXCEPT ![s] = Append(@, Head(sub[s].out))]
    /\ sub' = [sub EXCEPT ![s].out = Tail(@)]
    /\ UNCHANGED <<history, replay, registered, reader, call, dropped>>

\* A live API client stops reading its response without closing it.
Stall(s) ==
    /\ reader[s] = "reading"
    /\ reader' = [reader EXCEPT ![s] = "stalled"]
    /\ UNCHANGED <<history, replay, registered, sub, got, call, dropped>>

\* The request's context ends.
Disconnect(s) ==
    /\ reader[s] \in {"reading", "stalled"}
    /\ reader' = [reader EXCEPT ![s] = "ended"]
    /\ UNCHANGED <<history, replay, registered, sub, got, call, dropped>>

\* The goroutine sees it and unsubscribes; publishers may still deliver to it.
unsubscribe(s) ==
    /\ s \in registered /\ reader[s] = "ended"
    /\ registered' = registered \ {s}
    /\ sub' = [sub EXCEPT ![s].hand = <<>>, ![s].out = <<>>]
    /\ UNCHANGED <<history, replay, reader, got, call, dropped>>

-----------------------------------------------------------------------------
PublisherStep(p) == \E s \in Subscribers :
    Deliver(p, s) \/ FindFull(p, s) \/ DropOldest(p, s)

Next == \/ \E p \in Reporters : publish(p) \/ PublisherStep(p)
        \/ \E s \in Subscribers :
              \/ \E scope \in Runs \cup {All}, after \in 0..MaxEvents :
                    Subscribe(s, scope, after)
              \/ Receive(s) \/ Forward(s) \/ Take(s)
              \/ Stall(s) \/ Disconnect(s) \/ unsubscribe(s)

\* The scheduler runs the goroutine of a call that delivers and of a subscription; a
\* reader that has not stalled takes its next event.
Fairness == /\ \A p \in Reporters : WF_vars(PublisherStep(p))
            /\ \A s \in Subscribers : /\ WF_vars(Receive(s)) /\ WF_vars(Forward(s))
                                      /\ WF_vars(Take(s)) /\ WF_vars(unsubscribe(s))

Spec == Init /\ [][Next]_vars
FairSpec == Spec /\ Fairness

-----------------------------------------------------------------------------
(* Properties                                                              *)

\* Type invariant; the replay of a run and the channels of a subscription keep to their
\* limits.
TypeOK ==
    /\ history \in Seq(Reporters) /\ Len(history) <= MaxEvents
    /\ replay \in [Runs -> Seq(Event)]
    /\ registered \subseteq Subscribers
    /\ sub \in [Subscribers -> Subscription]
    /\ reader \in [Subscribers -> {"new", "reading", "stalled", "ended"}]
    /\ got \in [Subscribers -> Seq(Event)]
    /\ call \in [Reporters -> [event : 0..MaxEvents, to : Seq(Subscribers), full : BOOLEAN]]
    /\ dropped \in [Subscribers -> SUBSET Event]
    /\ \A k \in Runs : Len(replay[k]) <= ReplayLimit
    /\ \A s \in Subscribers : Len(sub[s].ch) <= Buffer /\ Len(sub[s].out) <= Buffer

\* Events of subscription s on their way: what its reader took, then out, hand, ch.
Stream(s) == got[s] \o sub[s].out \o sub[s].hand \o sub[s].ch

\* A reader is given no event twice and the events of one reporter in the order it
\* reported them, drops and concurrent publishers notwithstanding: Running never
\* arrives after Succeeded, nor an acknowledgement before an earlier one.
InOrderOnce == \A s \in Subscribers :
    LET q == Stream(s)
    IN  \A i, j \in DOMAIN q :
           i < j => /\ q[i] # q[j]
                    /\ history[q[i]] = history[q[j]] => q[i] < q[j]

\* Every event published since s subscribed, and those in the replay it asked for.
Owed(s) == InScope(sub[s].scope) \ sub[s].skipped

\* No event falls between the replay and the subscription, and none is lost except
\* by a full channel: what a reader is owed it has, or it is in a channel, or its
\* publisher is about to deliver it, or a full channel dropped it.
NothingSlipsThrough == \A s \in Subscribers :
    reader[s] \in {"reading", "stalled"} =>
        \A e \in Owed(s) \ (Range(Stream(s)) \cup dropped[s]) :
            \E p \in Reporters : call[p].event = e /\ s \in Range(call[p].to)

\* publish returns, whatever its subscribers do: a reporter is not held up by a stalled
\* or vanished live API client.
PublishReturns == \A p \in Reporters : call[p] # Returned ~> call[p] = Returned

\* A reader that keeps reading gets every event it is owed that no channel dropped.
EventsArrive == \A s \in Subscribers, e \in Event :
    reader[s] = "reading" /\ e \in Owed(s)
        ~> e \in Range(got[s]) \cup dropped[s] \/ reader[s] # "reading"
=============================================================================
