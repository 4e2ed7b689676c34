------------------------------- MODULE Spawn -------------------------------
(***************************************************************************)
(* Child sessions: the session.spawn capability that the delegate tool     *)
(* calls inside its session's turn (spawn.py), and POST /spawn and         *)
(* /spawn/stream (routes/agents.py), beside clients that prompt, cancel,   *)
(* delete and resume any session they can name, children included.         *)
(*                                                                         *)
(* A call makes a kernel session, registers its handle, wires it to the    *)
(* parent (edge of the event tree, link of the cancellation tokens),       *)
(* prompts it and, for a delegate, tears it down.  The awaits are those of *)
(* building, of register()'s save, of the turn and of destroy(); what lies *)
(* between two of them is one action.                                      *)
(*                                                                         *)
(* The kernel is external: building may raise or be cancelled at any       *)
(* point, a turn ends when the delegates it called have ended, and         *)
(* cancelling a token cancels the tokens linked below it.                  *)
(***************************************************************************)
CONSTANTS Delegates, \* the calls of the delegate tool that may come
          Posts,     \* the POST /spawn and /spawn/stream that may come
          Resumes,   \* the POST /resume that may come
          Root,      \* a session that create() made
          Nobody     \* "no handle"

\* A call is named like the child it makes.
Calls == Delegates \cup Posts

ASSUME KindsAssumption == /\ Delegates \cap Posts = {}
                          /\ Calls \cap Resumes = {}
ASSUME RootAssumption == Root \notin Calls \cup Resumes
ASSUME NobodyAssumption == Nobody \notin Calls \cup Resumes \cup {Root}

\* The placeholder a POST falls back to when it gets no child session.
Stub(c) == <<c>>
Stubs == {Stub(c) : c \in Calls}

\* A placeholder's id is a fresh one, too.
ASSUME StubsAssumption == Stubs \cap (Calls \cup Resumes \cup {Root, Nobody}) = {}

\* An id is named for the session it was generated for: a delegate may be given
\* another one (sub_session_id), and a resumed session has the id it had.
Ids == {Root} \cup Calls \cup Stubs
Handles == Ids \cup Resumes

VARIABLES
    registry,  \* SessionManager._sessions
    name,      \* each handle's session id, or Nobody before there is one
    kernel,    \* each handle's kernel session: "none", "open" or "closed"
    turn,      \* whose prompt each handle's execute() runs: "idle", "own" (of the
               \* call that made the child) or "client"
    phase,     \* where each call is
    parent,    \* the handle each call spawns for, while it is under way
    child,     \* the handle each call prompts: its own or its placeholder
    below,     \* calls whose child EventBus._children has below its parent
    linked,    \* calls whose child's cancellation token hangs on the parent's
    hooked,    \* calls whose capture hook is on their child
    misled     \* calls whose capture hook recorded a turn that was not theirs

vars == <<registry, name, kernel, turn, phase, parent, child, below, linked, hooked,
          misled>>

\* "queued": a stream's task is created.  "closing": destroy() awaits.  "ended":
\* execute() was reached.  "aborted": the call raised before.
UnderWay == {"building", "saving", "queued", "running", "closing"}
Over == {"ended", "aborted"}

TypeOK ==
    /\ registry \in [Ids -> Handles \cup {Nobody}]
    /\ name \in [Handles -> Ids \cup {Nobody}]
    /\ kernel \in [Handles -> {"none", "open", "closed"}]
    /\ turn \in [Handles -> {"idle", "own", "client"}]
    /\ phase \in [Calls -> {"new"} \cup UnderWay \cup Over]
    /\ parent \in [Calls -> Handles \cup {Nobody}]
    /\ child \in [Calls -> Calls \cup Stubs]
    /\ below \subseteq Calls /\ linked \subseteq Calls /\ hooked \subseteq Calls
    /\ misled \subseteq Calls
    /\ \A i \in Ids : registry[i] # Nobody => name[registry[i]] = i

Init ==
    /\ registry = [i \in Ids |-> IF i = Root THEN Root ELSE Nobody]
    /\ name = [h \in Handles |-> IF h = Root THEN Root ELSE Nobody]
    /\ kernel = [h \in Handles |-> IF h = Root THEN "open" ELSE "none"]
    /\ turn = [h \in Handles |-> "idle"]
    /\ phase = [c \in Calls |-> "new"]
    /\ parent = [c \in Calls |-> Nobody]
    /\ child = [c \in Calls |-> c]
    /\ below = {} /\ linked = {} /\ hooked = {} /\ misled = {}

Live(i) == registry[i] # Nobody
MoveTo(c, p) == phase' = [phase EXCEPT ![c] = p]

\* The calls a session's turn awaits.
Awaited(h) == {d \in Delegates : parent[d] = h /\ phase[d] \in UnderWay}

\* destroy() up to the await of cleanup(): whatever handle has the id goes.
Pop(i) ==
    /\ registry' = [registry EXCEPT ![i] = Nobody]
    /\ kernel' = [h \in Handles |-> IF h = registry[i] THEN "closed" ELSE kernel[h]]
-----------------------------------------------------------------------------
\* The delegate tool of session p calls spawn_fn, in p's turn: an agent nobody
\* knows raises.  Only sessions that create(), resume() or spawn_fn made have the
\* capability.  The child gets an id of its own or that of an earlier delegate.
Delegate(c, p) ==
    /\ phase[c] = "new"
    /\ p \in {Root} \cup Resumes \cup {d \in Delegates : phase[d] = "running"}
    /\ turn[p] # "idle"
    /\ \/ /\ MoveTo(c, "building")
          /\ parent' = [parent EXCEPT ![c] = p]
          /\ \E i \in {c} \cup {name[d] : d \in {e \in Delegates : name[e] # Nobody}} :
                name' = [name EXCEPT ![c] = i]
       \/ MoveTo(c, "aborted") /\ UNCHANGED <<name, parent>>
    /\ UNCHANGED <<registry, kernel, turn, child, below, linked, hooked, misled>>

\* POST /spawn and /spawn/stream on a live session.
PostSpawn(c, i) ==
    /\ phase[c] = "new"
    /\ Live(i)
    /\ parent' = [parent EXCEPT ![c] = registry[i]]
    /\ name' = [name EXCEPT ![c] = c]
    /\ MoveTo(c, "building")
    /\ UNCHANGED <<registry, kernel, turn, child, below, linked, hooked, misled>>

Opened(h) == [kernel EXCEPT ![h] = "open"]

\* Mutant: the placeholder takes the id of the child it stands for.
AbandonKeepId(c, ks) ==
    /\ c \in Posts /\ child[c] = c
    /\ child' = [child EXCEPT ![c] = Stub(c)]
    /\ name' = [name EXCEPT ![Stub(c)] = Stub(c)]
    /\ kernel' = [ks EXCEPT ![Stub(c)] = "open"]
    /\ registry' = [registry EXCEPT ![name[c]] = Stub(c)]
    /\ MoveTo(c, "saving")
    /\ UNCHANGED parent

\* The call is over before it prompted anybody, and leaves what it has made: the
\* kernel sessions ks.  A POST that was not cancelled registers a placeholder
\* instead.
Abandon(c, ks) ==
    \/ /\ MoveTo(c, "aborted")
       /\ parent' = [parent EXCEPT ![c] = Nobody]
       /\ kernel' = ks
       /\ UNCHANGED <<registry, name, child>>
    \/ /\ c \in Posts /\ child[c] = c
       /\ child' = [child EXCEPT ![c] = Stub(c)]
       /\ name' = [name EXCEPT ![Stub(c)] = Stub(c)]
       /\ kernel' = [ks EXCEPT ![Stub(c)] = "open"]
       /\ registry' = [registry EXCEPT ![Stub(c)] = Stub(c)]
       /\ MoveTo(c, "saving")
       /\ UNCHANGED parent

\* A step of building the child raises or is cancelled, before or after the
\* kernel session exists.
BuildFails(c) ==
    /\ phase[c] = "building"
    /\ \/ Abandon(c, kernel)
       \/ c \in Delegates /\ Abandon(c, Opened(c))
    /\ UNCHANGED <<turn, below, linked, hooked, misled>>

\* Mutant: the capture hook is registered as soon as there is a child.
RegisterHooked(c) ==
    /\ phase[c] = "building"
    /\ ~Live(name[c])
    /\ registry' = [registry EXCEPT ![name[c]] = c]
    /\ kernel' = Opened(c)
    /\ hooked' = hooked \cup {c}
    /\ MoveTo(c, "saving")
    /\ UNCHANGED <<name, turn, parent, child, below, linked, misled>>

\* The child is built and register() is called: it refuses an id that is live,
\* and otherwise awaits the index's save.
Register(c) ==
    /\ phase[c] = "building"
    /\ \/ Live(name[c]) /\ Abandon(c, Opened(c))
       \/ /\ ~Live(name[c])
          /\ registry' = [registry EXCEPT ![name[c]] = c]
          /\ kernel' = Opened(c)
          /\ MoveTo(c, "saving")
          /\ UNCHANGED <<name, parent, child>>
    /\ UNCHANGED <<turn, below, linked, hooked, misled>>

\* The save fails or is cancelled: the handle stays registered.
SaveFails(c) ==
    /\ phase[c] = "saving"
    /\ Abandon(c, kernel)
    /\ UNCHANGED <<turn, below, linked, hooked, misled>>
-----------------------------------------------------------------------------
\* Mutant: destroy() raises if somebody else has deleted the child.
FinishRegistered(c) ==
    /\ linked' = linked \ {c}
    /\ hooked' = hooked \ {c}
    /\ \/ /\ c \in Delegates /\ Live(name[c])
          /\ Pop(name[c])
          /\ MoveTo(c, "closing")
          /\ UNCHANGED parent
       \/ /\ c \in Posts
          /\ MoveTo(c, "ended")
          /\ parent' = [parent EXCEPT ![c] = Nobody]
          /\ UNCHANGED <<registry, kernel>>

\* Mutant: the teardown follows the turn instead of being its finally clause.
FinishUnlessRaised(c) ==
    \/ /\ linked' = linked \ {c}
       /\ hooked' = hooked \ {c}
       /\ Pop(name[c])
       /\ MoveTo(c, "closing")
       /\ UNCHANGED parent
    \/ MoveTo(c, "ended") /\ UNCHANGED <<registry, kernel, parent, linked, hooked>>

\* The finally clause, up to the await of the child's cleanup: a delegate
\* destroys the id it made, and a child that was posted stays.
Finish(c) ==
    /\ linked' = linked \ {c}
    /\ hooked' = hooked \ {c}
    /\ \/ /\ c \in Delegates
          /\ Pop(name[c])
          /\ MoveTo(c, "closing")
          /\ UNCHANGED parent
       \/ /\ c \in Posts
          /\ MoveTo(c, "ended")
          /\ parent' = [parent EXCEPT ![c] = Nobody]
          /\ UNCHANGED <<registry, kernel>>

\* What hangs below h when each of these calls puts at[c] below its parent: the
\* smallest set that has h and is closed under them.
Spread(h, calls, at) ==
    LET With(T) == {h} \cup {at[c] : c \in T}
        Closed(T) == \A c \in calls : parent[c] \in With(T) => c \in T
    IN  With({c \in calls : \A T \in SUBSET calls : Closed(T) => c \in T})

\* The handles whose tokens POST /cancel on h reaches: cancelling a token cancels
\* those linked below it, and does nothing else here.
Reached(h) == Spread(h, linked, child)

\* Parent and child each have a cancellation token unless it is a placeholder.
Linkable(c) == {parent[c], child[c]} \cap Stubs = {}

\* Mutant: the tokens are linked only to a session that is no child itself.
LinkFlat(c) == linked \cup {d \in {c} : Linkable(c) /\ parent[c] = Root}

\* parent_cancel.register_child(child_cancel).
Link(c) == linked \cup {d \in {c} : Linkable(c)}

\* execute() of the child: it runs, or raises because somebody prompted the
\* child while it was being registered, or returns at once because the child is a
\* placeholder.
Prompt(c, hook) ==
    \/ /\ turn[child[c]] = "idle" /\ child[c] = c
       /\ turn' = [turn EXCEPT ![child[c]] = "own"]
       /\ linked' = Link(c)
       /\ hooked' = hook
       /\ MoveTo(c, "running")
       /\ UNCHANGED <<registry, kernel, parent>>
    \/ /\ turn[child[c]] # "idle" \/ child[c] # c
       /\ Finish(c)
       /\ UNCHANGED turn

\* The parent's handle and the event tree have the child from now on.
RegisterChild(c) == below' = below \cup {c}

\* The handles that GET /tree on the session of h shows, as far as their calls are
\* under way: below each the live sessions with the ids of its children.  No tree is
\* so deep (50) that the route cuts it.
Shown(h) ==
    LET listed == {c \in below : Live(name[child[c]])}
    IN  Spread(h, listed, [c \in listed |-> registry[name[child[c]]]])

\* register() returns: the child is wired to its parent and prompted, in this
\* step by a delegate and by POST /spawn, in a task by POST /spawn/stream.
Launch(c) ==
    /\ phase[c] = "saving"
    /\ RegisterChild(c)
    /\ \/ c \in Delegates /\ Prompt(c, hooked \cup {c})
       \/ c \in Posts /\ Prompt(c, hooked)
       \/ /\ c \in Posts
          /\ linked' = Link(c)
          /\ MoveTo(c, "queued")
          /\ UNCHANGED <<registry, kernel, turn, parent, hooked>>
    /\ UNCHANGED <<name, child, misled>>

\* The stream's task takes its first step.
StartTask(c) ==
    /\ phase[c] = "queued"
    /\ Prompt(c, hooked)
    /\ UNCHANGED <<name, child, below, misled>>

\* A turn on h is over, well or badly: the hook on it, if any, may have seen it
\* complete.
Idle(h) ==
    /\ Awaited(h) = {}
    /\ turn' = [turn EXCEPT ![h] = "idle"]
    /\ misled' = misled \cup {c \in hooked : c = h /\ turn[h] # "own"}

\* The child's turn ends.
TurnEnds(c) ==
    /\ phase[c] = "running"
    /\ Idle(child[c])
    /\ Finish(c)
    /\ UNCHANGED <<name, child, below>>

\* destroy() returns or raises, and the delegate with it.
CleanupEnds(c) ==
    /\ phase[c] = "closing"
    /\ MoveTo(c, "ended")
    /\ parent' = [parent EXCEPT ![c] = Nobody]
    /\ UNCHANGED <<registry, name, kernel, turn, child, below, linked, hooked,
                   misled>>
-----------------------------------------------------------------------------
\* A client prompts a live session that is not busy; a placeholder has answered
\* before anybody notices.
ClientPrompt(i) ==
    /\ Live(i) /\ registry[i] \notin Stubs
    /\ turn[registry[i]] = "idle"
    /\ turn' = [turn EXCEPT ![registry[i]] = "client"]
    /\ UNCHANGED <<registry, name, kernel, phase, parent, child, below, linked, hooked,
                   misled>>

\* That turn ends.
ClientTurnEnds(h) ==
    /\ turn[h] = "client"
    /\ Idle(h)
    /\ UNCHANGED <<registry, name, kernel, phase, parent, child, below, linked, hooked>>

\* A client deletes a live session; a turn under way goes on.
ClientDelete(i) ==
    /\ Live(i)
    /\ Pop(i)
    /\ UNCHANGED <<name, turn, phase, parent, child, below, linked, hooked, misled>>

\* A client resumes a delegate's child that is not live and has had the time to
\* save a transcript.
ClientResume(r, i) ==
    /\ name[r] = Nobody
    /\ ~Live(i)
    /\ \E d \in Delegates : name[d] = i /\ phase[d] \in {"running", "closing", "ended"}
    /\ name' = [name EXCEPT ![r] = i]
    /\ kernel' = [kernel EXCEPT ![r] = "open"]
    /\ registry' = [registry EXCEPT ![i] = r]
    /\ UNCHANGED <<turn, phase, parent, child, below, linked, hooked, misled>>

\* What a call that was made does next.
Advance(c) ==
    \/ BuildFails(c) \/ Register(c) \/ SaveFails(c)
    \/ Launch(c) \/ StartTask(c) \/ TurnEnds(c) \/ CleanupEnds(c)

Next ==
    \/ \E d \in Delegates, p \in Handles : Delegate(d, p)
    \/ \E p \in Posts, i \in Ids : PostSpawn(p, i)
    \/ \E c \in Calls : Advance(c)
    \/ \E i \in Ids : ClientPrompt(i) \/ ClientDelete(i)
    \/ \E h \in Handles : ClientTurnEnds(h)
    \/ \E r \in Resumes, i \in Ids : ClientResume(r, i)

Spec == Init /\ [][Next]_vars

\* The loop runs what is ready, the save thread progresses, and the kernel builds
\* a child, ends a turn that awaits no delegate, and cleans up, in one of its ways.
\* Each call takes finitely many steps, so it is enough that some call steps while
\* one can.  Nothing is assumed of clients, whose turns need not end.
Fairness == WF_vars(\E c \in Calls : Advance(c))

FairSpec == Spec /\ Fairness
-----------------------------------------------------------------------------
\* When a call has prompted its child, no exit leaves its token linked or its hook
\* in place, and a delegate's child is out of the registry and its kernel closed,
\* also when others prompted, deleted or resumed it meanwhile (spawn.py:382-392).
EndedLeavesNothing ==
    \A c \in Calls : phase[c] \in {"closing", "ended"} =>
        /\ c \notin linked \cup hooked
        /\ c \in Delegates => kernel[c] = "closed" /\ \A i \in Ids : registry[i] # c

\* What a delegate reports of its child's turn comes from that turn and not from
\* one that a client ran on the child (spawn.py:361-380, 394-400).
CaptureIsOwn == misled = {}

\* A child turn under way hangs together with what is above it, however deep: GET
\* /tree on any session above shows it unless it was deleted, the subscribers of its
\* parent are sent its events, and POST /cancel on any session above reaches it
\* (spawn.py:343-351, agents.py:127-134, sessions.py:571-596).
TurnsAreWired ==
    \A c \in Calls : phase[c] = "running" =>
        /\ c \in below
        /\ \A h \in Handles \ Stubs :
              /\ parent[c] \in Reached(h) \ Stubs => c \in Reached(h)
              /\ parent[c] \in Shown(h) /\ registry[name[c]] = c => c \in Shown(h)

\* Every spawn ends, whatever clients do to the sessions involved
\* (spawn.py:382-392, agents.py:136-151, 180-192).
SpawnsEnd == <>[](\A c \in Calls : phase[c] \notin UnderWay)

\* Claimed by spawn.py:391-392, "Cleanup: remove child from SessionManager,
\* teardown session": what a delegate tears down is the child it made.
TeardownIsOwn ==
    [][\A c \in Calls :
          phase[c] # "closing" /\ phase'[c] = "closing" =>
              \A h \in Handles \ {c} : kernel'[h] = kernel[h]]_vars
=============================================================================
