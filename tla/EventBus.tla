------------------------------ MODULE EventBus ------------------------------
(***************************************************************************)
(* The event bus (state/event_bus.py) and the SSE endpoint that reads it   *)
(* (routes/events.py): the session tree, publish() with its bounded queues *)
(* and subscribe() with its keepalive, for clients that come and go.       *)
(*                                                                         *)
(* publish() is synchronous, so one action reaches every subscriber.  The  *)
(* endpoint is two nested generators: subscribe() waits for its queue, and *)
(* _event_generator() checks the connection and writes the frame.  The web *)
(* server is external: it may cancel a stream whose client is gone, or     *)
(* leave that to the generator.  An event is the number of its publish();  *)
(* its payload, and the unused filter patterns, are left out.              *)
(***************************************************************************)
EXTENDS Naturals, FiniteSets, SequencesExt

CONSTANTS Sessions,     \* session ids
          Clients,      \* SSE connections
          AllSessions,  \* the filter of a client that asks for every session
          MaxQueueSize, \* EventBus._MAX_QUEUE_SIZE
          MaxEvents     \* bound on the events published

ASSUME SessionsAssumption == IsFiniteSet(Sessions)
ASSUME AllSessionsAssumption == AllSessions \notin Sessions
ASSUME MaxQueueSizeAssumption == MaxQueueSize \in Nat \ {0}
ASSUME MaxEventsAssumption == MaxEvents \in Nat

VARIABLES
    children,    \* EventBus._children
    subscribers, \* clients whose _Subscriber is in EventBus._subscribers
    wants,       \* the session each client asked for
    queue,       \* each _Subscriber.queue
    state,       \* where each connection's generators are
    gone,        \* clients that have hung up
    published,   \* events published so far
    due,         \* the events each subscriber should be sent, were its queue unbounded
    seen         \* the events subscribe() has yielded, with their sequence numbers

vars == <<children, subscribers, wants, queue, state, gone, published, due, seen>>

\* "opening": the response has begun and the generators have not.  "waiting":
\* subscribe() awaits its queue.  "writing": what it yielded is being written.
\* "left": the endpoint has left its loop and subscribe() awaits its finalizer.
States == {"new", "opening", "waiting", "writing", "left", "closed"}

Events == 1..MaxEvents
Frame == [sequence : Nat, event : Events]

TypeOK ==
    /\ children \in [Sessions -> SUBSET Sessions]
    /\ subscribers \subseteq Clients
    /\ wants \in [Clients -> Sessions \cup {AllSessions}]
    /\ queue \in [Clients -> Seq(Events)]
    /\ \A c \in Clients : Len(queue[c]) <= MaxQueueSize
    /\ state \in [Clients -> States]
    /\ gone \subseteq Clients
    /\ published \in 0..MaxEvents
    /\ due \in [Clients -> Seq(Events)]
    /\ seen \in [Clients -> Seq(Frame)]

Init ==
    /\ children = [s \in Sessions |-> {}]
    /\ subscribers = {}
    /\ wants \in [Clients -> Sessions \cup {AllSessions}]
    /\ queue = [c \in Clients |-> <<>>]
    /\ state = [c \in Clients |-> "new"]
    /\ gone = {}
    /\ published = 0
    /\ due = [c \in Clients |-> <<>>]
    /\ seen = [c \in Clients |-> <<>>]
-----------------------------------------------------------------------------
\* Mutant: the search stops at the children.
DescendantsDirect(s) == children[s]

\* get_descendants(): the sets `visited` and `queue` of its breadth-first search,
\* one level at a time.
Descendants(s) ==
    LET Level[n \in 0..Cardinality(Sessions)] ==
            IF n = 0 THEN children[s]
            ELSE Level[n - 1] \cup UNION {children[t] : t \in Level[n - 1]}
    IN  Level[Cardinality(Sessions)]

\* _Subscriber.matches().
Matches(c, s) == wants[c] = AllSessions \/ s = wants[c] \/ s \in Descendants(wants[c])

\* Reference: the sessions below s are in every set that holds the children of s
\* and the children of its members.
Below(s) ==
    {t \in Sessions : \A X \in SUBSET Sessions :
        children[s] \subseteq X /\ (\A x \in X : children[x] \subseteq X) => t \in X}

\* The sessions whose events a client should be sent.
Follows(c) ==
    IF wants[c] = AllSessions THEN Sessions ELSE {wants[c]} \cup Below(wants[c])

\* Mutant: the queue has no bound.
EnqueueUnbounded(q, e) == Append(q, e)

\* put_nowait(), or get_nowait() of the oldest event and then put_nowait().
Enqueue(q, e) == Append(IF Len(q) < MaxQueueSize THEN q ELSE Tail(q), e)

\* register_child(): a session that was spawned joins the tree below the session that
\* spawned it.  A delegate may be given the id of an earlier one, so an id may have
\* several parents, and be below itself.
RegisterChild(p, s) ==
    /\ s \notin children[p]
    /\ children' = [children EXCEPT ![p] = @ \cup {s}]
    /\ UNCHANGED <<subscribers, wants, queue, state, gone, published, due, seen>>

\* A session's hook publishes an event.
Publish(s) ==
    /\ published < MaxEvents
    /\ published' = published + 1
    /\ queue' = [c \in Clients |->
                    IF c \in subscribers /\ Matches(c, s)
                    THEN Enqueue(queue[c], published + 1) ELSE queue[c]]
    /\ due' = [c \in Clients |->
                  IF c \in subscribers /\ s \in Follows(c)
                  THEN Append(due[c], published + 1) ELSE due[c]]
    /\ UNCHANGED <<children, subscribers, wants, state, gone, seen>>

\* EventBusDisplaySystem.show_message(), which a session's hooks call.
ShowMessage(s) == Publish(s)
-----------------------------------------------------------------------------
Goto(c, to) == state' = [state EXCEPT ![c] = to]

\* GET /events: the response begins.
Connect(c) ==
    /\ state[c] = "new"
    /\ Goto(c, "opening")
    /\ UNCHANGED <<children, subscribers, wants, queue, gone, published, due, seen>>

\* The client hangs up.
HangUp(c) ==
    /\ state[c] \notin {"new", "closed"} /\ c \notin gone
    /\ gone' = gone \cup {c}
    /\ UNCHANGED <<children, subscribers, wants, queue, state, published, due, seen>>

\* The generators start: subscribe() enters the list and awaits its queue.
Subscribe(c) ==
    /\ state[c] = "opening"
    /\ subscribers' = subscribers \cup {c}
    /\ Goto(c, "waiting")
    /\ UNCHANGED <<children, wants, queue, gone, published, due, seen>>

\* Mutant: a stack instead of a queue.
YieldEventLast(c) ==
    /\ state[c] = "waiting"
    /\ queue[c] # <<>>
    /\ queue' = [queue EXCEPT ![c] = Front(@)]
    /\ seen' = [seen EXCEPT ![c] =
                    Append(@, [sequence |-> Len(@) + 1, event |-> Last(queue[c])])]
    /\ Goto(c, "writing")
    /\ UNCHANGED <<children, subscribers, wants, gone, published, due>>

\* subscribe() gets the oldest event, numbers it and yields it.
YieldEvent(c) ==
    /\ state[c] = "waiting"
    /\ queue[c] # <<>>
    /\ queue' = [queue EXCEPT ![c] = Tail(@)]
    /\ seen' = [seen EXCEPT ![c] =
                    Append(@, [sequence |-> Len(@) + 1, event |-> Head(queue[c])])]
    /\ Goto(c, "writing")
    /\ UNCHANGED <<children, subscribers, wants, gone, published, due>>

\* Mutant: the get() that timed out had taken an event.
YieldKeepaliveLossy(c) ==
    /\ state[c] = "waiting"
    /\ queue' = [queue EXCEPT ![c] = IF @ = <<>> THEN @ ELSE Tail(@)]
    /\ Goto(c, "writing")
    /\ UNCHANGED <<children, subscribers, wants, gone, published, due, seen>>

\* Mutant: a timeout with nothing to send yields nothing.
YieldKeepaliveSilent(c) ==
    /\ state[c] = "waiting"
    /\ UNCHANGED vars

\* The wait timed out: a keepalive is yielded.  An event that comes in the loop
\* iteration in which the timer fires stays in the queue.
YieldKeepalive(c) ==
    /\ state[c] = "waiting"
    /\ Goto(c, "writing")
    /\ UNCHANGED <<children, subscribers, wants, queue, gone, published, due, seen>>

\* Mutant: an event that cannot be serialized ends the stream.
WriteOrDie(c) ==
    /\ state[c] = "writing"
    /\ Goto(c, "left") \/ (c \notin gone /\ Goto(c, "waiting"))
    /\ UNCHANGED <<children, subscribers, wants, queue, gone, published, due, seen>>

\* _event_generator() finds the client gone and leaves its loop, or writes the
\* frame, skipping an event it cannot serialize, and asks for the next.
Write(c) ==
    /\ state[c] = "writing"
    /\ Goto(c, IF c \in gone THEN "left" ELSE "waiting")
    /\ UNCHANGED <<children, subscribers, wants, queue, gone, published, due, seen>>

\* subscribe()'s finally clause: the event loop finalizes the generator that the
\* endpoint left, or the server cancels the stream of a client that is gone.
Unsubscribe(c) ==
    /\ \/ state[c] = "left"
       \/ state[c] \in {"waiting", "writing"} /\ c \in gone
    /\ subscribers' = subscribers \ {c}
    /\ queue' = [queue EXCEPT ![c] = <<>>]
    /\ Goto(c, "closed")
    /\ UNCHANGED <<children, wants, gone, published, due, seen>>

ClientStep(c) ==
    \/ Connect(c)
    \/ HangUp(c)
    \/ Subscribe(c)
    \/ YieldEvent(c)
    \/ YieldKeepalive(c)
    \/ Write(c)
    \/ Unsubscribe(c)

Next ==
    \/ \E p, s \in Sessions : RegisterChild(p, s)
    \/ \E s \in Sessions : Publish(s) \/ ShowMessage(s)
    \/ \E c \in Clients : ClientStep(c)

Spec == Init /\ [][Next]_vars

\* The event loop runs the generators, their timers and the finalizers of the
\* ones that were left.  An event that waits is preferred to the timeout: get()
\* returns it at once, so a keepalive can come first but not for ever.  A server
\* that cancels the streams of clients that are gone is not relied upon.
Fairness ==
    \A c \in Clients :
        /\ WF_vars(Subscribe(c))
        /\ SF_vars(YieldEvent(c))
        /\ WF_vars(YieldKeepalive(c))
        /\ WF_vars(Write(c))
        /\ WF_vars(state[c] = "left" /\ Unsubscribe(c))

FairSpec == Spec /\ Fairness
-----------------------------------------------------------------------------
SeenEvents(c) == {seen[c][i].event : i \in DOMAIN seen[c]}

\* A subscriber's queue is the latest run of what is due to it, from its session
\* and from all sessions spawned below it, also those spawned after it came, and
\* nothing else (event_bus.py:34-46, 84-99, 120-130).
QueueHoldsTheLatest == \A c \in subscribers : IsSuffix(queue[c], due[c])

\* Backpressure alone loses events: one that was neither sent nor is queued has
\* been followed by as many others as the queue holds (event_bus.py:122-130,
\* 159-163).
LostOnlyByOverflow ==
    \A c \in subscribers : \A i \in DOMAIN due[c] :
        due[c][i] \notin SeenEvents(c) \cup ToSet(queue[c]) =>
            i + MaxQueueSize <= Len(due[c])

\* The queue of a client that stays is emptied and its stream goes on, also past an
\* event that to_sse_dict() or json.dumps() refuses (events.py:46-58).
StreamsDrain ==
    \A c \in Clients :
        c \in subscribers /\ queue[c] # <<>> ~>
            c \in gone \/ (queue[c] = <<>> /\ state[c] = "waiting")

\* A client that hung up does not stay subscribed: at the latest the keepalive
\* makes the endpoint look at the connection (event_bus.py:161-163, 174-175,
\* events.py:37-39).
GoneClientsLeave == \A c \in Clients : c \in gone ~> c \notin subscribers

\* Claimed by docs/design/architecture.md:517 and docs/api-usage.md:218: a client
\* sees from the sequence numbers when events were dropped.
GapsShow ==
    \A c \in Clients : \A i \in 2..Len(seen[c]) :
        seen[c][i].sequence = seen[c][i - 1].sequence + 1 =>
            \A e \in ToSet(due[c]) : ~(seen[c][i - 1].event < e /\ e < seen[c][i].event)
-----------------------------------------------------------------------------
\* How far a client has come, seen from outside.
Phase(c) ==
    IF state[c] \in {"new", "opening"} THEN "before"
    ELSE IF state[c] = "closed" THEN "after" ELSE "listening"

Feed == INSTANCE LossyFeed
    WITH Sources <- Sessions, Capacity <- MaxQueueSize,
         phase <- [c \in Clients |-> Phase(c)],
         follows <- [c \in Clients |-> Follows(c)],
         waiting <- queue, sent <- seen, last <- published

\* The bus and the endpoint keep the promise of LossyFeed: whatever the tree, the
\* keepalives and the order of hanging up, a client is sent in order, each once and
\* numbered from 1 without gaps, the latest that its session and all sessions spawned
\* below it publish (event_bus.py:84-136, 150-180, events.py:33-58).
ImplementsLossyFeed == Feed!Spec
=============================================================================
