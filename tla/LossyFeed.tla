------------------------------ MODULE LossyFeed ------------------------------
(***************************************************************************)
(* What the daemon promises a client of GET /events.  From when it listens *)
(* until it leaves, it is sent whatever the sources it follows publish:    *)
(* each event once, in order, with numbers that count what it was sent.    *)
(* Of the events that wait for it the latest Capacity are kept, and it     *)
(* never ceases to follow a source.  How sources are found, what waits in  *)
(* which generator, keepalives and disconnection are not part of the       *)
(* promise.  EventBus implements it.                                       *)
(***************************************************************************)
EXTENDS Naturals, Sequences

CONSTANTS Clients,   \* connections
          Sources,   \* what publishes events
          Capacity   \* the events that wait for a client at most

VARIABLES phase,     \* each client's: "before", "listening", "after"
          follows,   \* the sources each client follows
          waiting,   \* the events that wait for each client
          sent,      \* what each client was sent: events with their numbers
          last       \* events published so far; each is named by its number

vars == <<phase, follows, waiting, sent, last>>

Init ==
    /\ phase = [c \in Clients |-> "before"]
    /\ follows \in [Clients -> SUBSET Sources]
    /\ waiting = [c \in Clients |-> <<>>]
    /\ sent = [c \in Clients |-> <<>>]
    /\ last = 0

\* The latest of q that can wait.
Latest(q) ==
    LET lost == IF Len(q) > Capacity THEN Len(q) - Capacity ELSE 0
    IN  [i \in 1..(Len(q) - lost) |-> q[lost + i]]

\* A source publishes to those who listen and follow it.
Publish(s) ==
    /\ last' = last + 1
    /\ waiting' = [c \in Clients |->
                      IF phase[c] = "listening" /\ s \in follows[c]
                      THEN Latest(Append(waiting[c], last + 1)) ELSE waiting[c]]
    /\ UNCHANGED <<phase, follows, sent>>

\* Clients come to follow more sources.
Follow ==
    /\ follows' \in [Clients -> SUBSET Sources]
    /\ \A c \in Clients : follows[c] \subseteq follows'[c]
    /\ UNCHANGED <<phase, waiting, sent, last>>

\* c begins to listen: nothing of what was published before waits for it.
Join(c) ==
    /\ phase[c] = "before"
    /\ phase' = [phase EXCEPT ![c] = "listening"]
    /\ UNCHANGED <<follows, waiting, sent, last>>

\* c is sent what has waited longest.
Send(c) ==
    /\ phase[c] = "listening" /\ waiting[c] # <<>>
    /\ sent' = [sent EXCEPT ![c] =
                   Append(@, [sequence |-> Len(@) + 1, event |-> Head(waiting[c])])]
    /\ waiting' = [waiting EXCEPT ![c] = Tail(@)]
    /\ UNCHANGED <<phase, follows, last>>

\* c leaves, and what waited for it is thrown away.
Leave(c) ==
    /\ phase[c] = "listening"
    /\ phase' = [phase EXCEPT ![c] = "after"]
    /\ waiting' = [waiting EXCEPT ![c] = <<>>]
    /\ UNCHANGED <<follows, sent, last>>

Next ==
    \/ Follow
    \/ \E s \in Sources : Publish(s)
    \/ \E c \in Clients : Join(c) \/ Send(c) \/ Leave(c)

Spec == Init /\ [][Next]_vars
=============================================================================
