--------------------------- MODULE SessionHandle ---------------------------
(***************************************************************************)
(* One SessionHandle (state/session_handle.py) and every handler that      *)
(* drives it: POST /execute, POST /execute/stream, the spawn routes, POST  *)
(* /stale and DELETE.  The daemon is one asyncio event loop, so what a     *)
(* coroutine does between two awaits is one action; the awaits of          *)
(* session.execute() and session.cleanup(), and the gap between            *)
(* create_task() and the task's first step, are where others run.          *)
(*                                                                         *)
(* The kernel session is external: a run returns, raises or is cancelled.  *)
(* POST /cancel only forwards to the kernel, which may then end the run in *)
(* any of these three ways, so it needs no action.  Tools of a run that    *)
(* raised or was cancelled may go on beside the next run.                  *)
(***************************************************************************)
EXTENDS Naturals, FiniteSets

CONSTANTS Requests,    \* the requests that may ever prompt this session
          NoRequest    \* "no request"

ASSUME NoRequestAssumption == NoRequest \notin Requests

VARIABLES
    registered,   \* SessionManager._sessions still maps the id to this handle
    status,       \* SessionHandle._status
    locked,       \* SessionHandle._execute_lock is held
    turnCount,    \* SessionHandle._turn_count
    correlation,  \* turn number in SessionHandle._correlation_id, 0 for None
    stale,        \* SessionHandle._stale
    cleanup,      \* SessionHandle.cleanup(): "no", "running", "done"
    tasks,        \* app.state.background_tasks that prompt this handle
    phase,        \* where each request is
    promised,     \* turn number in the correlation id of r's 202, 0 if none
    turnOf,       \* turn number r's run was given, 0 if it never ran
    heard         \* last event published: the turn causing it, the turn it names

vars == <<registered, status, locked, turnCount, correlation, stale, cleanup,
          tasks, phase, promised, turnOf, heard>>

handleVars == <<status, locked, turnCount, correlation>>
\* Nothing but a run's own steps touches these.
runVars == <<handleVars, promised, turnOf, heard>>

Outcomes == {"returned", "raised", "cancelled"}
Refused == {"notFound", "busy", "bounced"}
Settled == Outcomes \cup Refused
Phases == {"new", "spawning", "queued", "executing"} \cup Settled

TypeOK ==
    /\ registered \in BOOLEAN
    /\ status \in {"idle", "executing", "completed", "failed"}
    /\ locked \in BOOLEAN
    /\ turnCount \in Nat
    /\ correlation \in Nat
    /\ stale \in BOOLEAN
    /\ cleanup \in {"no", "running", "done"}
    /\ tasks \subseteq Requests
    /\ phase \in [Requests -> Phases]
    /\ promised \in [Requests -> Nat]
    /\ turnOf \in [Requests -> Nat]
    /\ heard \in [by : Nat, names : Nat]

\* What carries no correlation id; nobody can tell which turn caused it.
Anonymous == [by |-> 0, names |-> 0]

\* The handle as the constructor leaves it, just registered.  If the session
\* is a spawned child, one request is the spawn call that made it and is still
\* inside SessionManager.register().
Init ==
    /\ registered = TRUE
    /\ status = "idle"
    /\ locked = FALSE
    /\ turnCount = 0
    /\ correlation = 0
    /\ stale = FALSE
    /\ cleanup = "no"
    /\ tasks = {}
    /\ \E spawner \in Requests \cup {NoRequest} :
          phase = [r \in Requests |-> IF r = spawner THEN "spawning" ELSE "new"]
    /\ promised = [r \in Requests |-> 0]
    /\ turnOf = [r \in Requests |-> 0]
    /\ heard = Anonymous
-----------------------------------------------------------------------------
IsBusy == status = "executing" \/ locked

\* Mutant: execute() without its test of the lock.
BeginTurnUnlocked(r) ==
    /\ locked' = TRUE
    /\ turnCount' = turnCount + 1
    /\ correlation' = turnCount + 1
    /\ status' = "executing"
    /\ turnOf' = [turnOf EXCEPT ![r] = turnCount + 1]
    /\ phase' = [phase EXCEPT ![r] = "executing"]
    /\ UNCHANGED <<registered, stale, cleanup, promised, heard>>

\* execute() up to the await of session.execute(): nothing suspends between
\* the test of the lock and the status.  r's phase was `from`.
BeginTurn(r) ==
    /\ ~locked
    /\ locked' = TRUE
    /\ turnCount' = turnCount + 1
    /\ correlation' = turnCount + 1
    /\ status' = "executing"
    /\ turnOf' = [turnOf EXCEPT ![r] = turnCount + 1]
    /\ phase' = [phase EXCEPT ![r] = "executing"]
    /\ UNCHANGED <<registered, stale, cleanup, promised, heard>>

\* Mutant: execute() takes its turn number before it tests the lock.
BounceCounted(r) ==
    /\ locked
    /\ phase' = [phase EXCEPT ![r] = "bounced"]
    /\ tasks' = tasks \ {r}
    /\ turnCount' = turnCount + 1
    /\ correlation' = turnCount + 1
    /\ UNCHANGED <<registered, stale, cleanup, status, locked, promised, turnOf, heard>>

\* execute() finds the lock held and raises RuntimeError.
Bounce(r) ==
    /\ locked
    /\ phase' = [phase EXCEPT ![r] = "bounced"]
    /\ tasks' = tasks \ {r}
    /\ UNCHANGED <<registered, stale, cleanup, runVars>>

\* _get_handle_or_404 and the is_busy guard, refusing.
Refuse(r) ==
    /\ phase[r] = "new"
    /\ \/ ~registered /\ phase' = [phase EXCEPT ![r] = "notFound"]
       \/ registered /\ IsBusy /\ phase' = [phase EXCEPT ![r] = "busy"]
    /\ UNCHANGED <<registered, stale, cleanup, tasks, runVars>>

\* Mutant: the route forgets the is_busy guard.
AdmissibleUnguarded(r) == phase[r] = "new" /\ registered

\* The same two guards, passed.
Admissible(r) == phase[r] = "new" /\ registered /\ ~IsBusy

\* POST /execute: guard and execute() in one step.
Execute(r) ==
    /\ Admissible(r)
    /\ BeginTurn(r)
    /\ UNCHANGED tasks

\* POST /spawn/{child_id}/resume, if this session is the child: as above, unless
\* the parent is not registered any more.
ResumeChild(r) ==
    \/ Execute(r)
    \/ /\ phase[r] = "new"
       /\ phase' = [phase EXCEPT ![r] = "notFound"]
       /\ UNCHANGED <<registered, stale, cleanup, tasks, runVars>>

\* POST /execute/stream: the 202 names the next turn, the task starts later.
ExecuteStream(r) ==
    /\ Admissible(r)
    /\ promised' = [promised EXCEPT ![r] = turnCount + 1]
    /\ tasks' = tasks \cup {r}
    /\ phase' = [phase EXCEPT ![r] = "queued"]
    /\ UNCHANGED <<registered, stale, cleanup, handleVars, turnOf, heard>>

\* Mutant: the task looks the session up again and hangs when it is gone.
StartTaskIfRegistered(r) ==
    /\ phase[r] = "queued"
    /\ registered
    /\ \/ BeginTurn(r) /\ UNCHANGED tasks
       \/ Bounce(r)

\* A background task's first step, for /execute/stream and /spawn/stream.
StartTask(r) ==
    /\ phase[r] = "queued"
    /\ \/ BeginTurn(r) /\ UNCHANGED tasks
       \/ Bounce(r)

\* The spawn call prompts its child as soon as register() returns, with no
\* guard: POST /spawn, and the spawn capability the delegate tool calls.
SpawnExecute(r) ==
    /\ phase[r] = "spawning"
    /\ \/ BeginTurn(r) /\ UNCHANGED tasks
       \/ Bounce(r)

\* POST /spawn/stream: as above, in a task.
SpawnStream(r) ==
    /\ phase[r] = "spawning"
    /\ tasks' = tasks \cup {r}
    /\ phase' = [phase EXCEPT ![r] = "queued"]
    /\ UNCHANGED <<registered, stale, cleanup, runVars>>

\* A run publishes while it is at work; what a run that raised or was cancelled left
\* behind may do so at any time after.
Publishes(r) == phase[r] \in {"executing", "raised", "cancelled"}

\* The kernel fires an event: the hook that _wire_events registered for it reads the
\* handle's correlation id at that moment.
Emit(r) ==
    /\ Publishes(r)
    /\ heard' = [by |-> turnOf[r], names |-> correlation]
    /\ UNCHANGED <<registered, stale, cleanup, tasks, phase, promised, turnOf,
                   handleVars>>

\* A hook of the run shows a message on the display that _wire_display set, which
\* publishes it without a correlation id.
ShowMessage(r) ==
    /\ Publishes(r)
    /\ heard' = Anonymous
    /\ UNCHANGED <<registered, stale, cleanup, tasks, phase, promised, turnOf,
                   handleVars>>
-----------------------------------------------------------------------------
\* Mutant: no finally clause, so CancelledError leaves the status alone.
StatusAfterNoFinally(outcome) ==
    IF outcome = "returned" THEN "idle"
    ELSE IF outcome = "raised" THEN "failed"
    ELSE status

\* Mutant: a status outside SessionStatus.
StatusAfterError(outcome) ==
    IF outcome = "returned" THEN "idle"
    ELSE IF outcome = "raised" THEN "error"
    ELSE IF status = "executing" THEN "failed" ELSE status

\* The status execute() leaves behind: the finally clause covers CancelledError,
\* and only a status still "executing" is its to change.
StatusAfter(outcome) ==
    IF outcome = "returned" THEN "idle"
    ELSE IF outcome = "raised" THEN "failed"
    ELSE IF status = "executing" THEN "failed" ELSE status

\* Mutant: the task is not discarded when it ends.
EndTurnKeepTask(r) ==
    /\ phase[r] = "executing"
    /\ \E outcome \in Outcomes :
          /\ phase' = [phase EXCEPT ![r] = outcome]
          /\ status' = StatusAfter(outcome)
    /\ locked' = FALSE
    /\ UNCHANGED <<registered, turnCount, correlation, stale, cleanup,
                   tasks, promised, turnOf, heard>>

\* Mutant: a run that raised gives its turn number back.
EndTurnUncount(r) ==
    /\ phase[r] = "executing"
    /\ \E outcome \in Outcomes :
          /\ phase' = [phase EXCEPT ![r] = outcome]
          /\ status' = StatusAfter(outcome)
          /\ turnCount' = IF outcome = "raised" THEN turnCount - 1 ELSE turnCount
    /\ locked' = FALSE
    /\ tasks' = tasks \ {r}
    /\ UNCHANGED <<registered, correlation, stale, cleanup, promised, turnOf, heard>>

\* session.execute() ends; the lock is released and the task, if any, discarded.
EndTurn(r) ==
    /\ phase[r] = "executing"
    /\ \E outcome \in Outcomes :
          /\ phase' = [phase EXCEPT ![r] = outcome]
          /\ status' = StatusAfter(outcome)
    /\ locked' = FALSE
    /\ tasks' = tasks \ {r}
    /\ UNCHANGED <<registered, turnCount, correlation, stale, cleanup,
                   promised, turnOf, heard>>

MarkStale ==
    /\ registered
    /\ stale' = TRUE
    /\ UNCHANGED <<registered, cleanup, tasks, phase, runVars>>

\* Mutant: the handle stays in the registry while cleanup() is awaited.
DestroyKeepRegistered ==
    /\ registered
    /\ cleanup = "no"
    /\ cleanup' = "running"
    /\ UNCHANGED <<registered, stale, tasks, phase, runVars>>

\* SessionManager.destroy(), from DELETE, from shutdown or from a spawn's
\* finally clause: the handle leaves the registry, then cleanup() is awaited.
Destroy ==
    /\ registered
    /\ registered' = FALSE
    /\ cleanup' = "running"
    /\ UNCHANGED <<stale, tasks, phase, runVars>>

\* session.cleanup() returned, raised or was cancelled.
CleanupDone ==
    /\ cleanup = "running"
    /\ cleanup' = "done"
    /\ status' = "completed"
    /\ UNCHANGED <<registered, stale, tasks, phase, locked, turnCount,
                   correlation, promised, turnOf, heard>>

RequestStep(r) ==
    \/ Refuse(r)
    \/ Execute(r)
    \/ ResumeChild(r)
    \/ ExecuteStream(r)
    \/ StartTask(r)
    \/ SpawnExecute(r)
    \/ SpawnStream(r)
    \/ Emit(r)
    \/ ShowMessage(r)
    \/ EndTurn(r)

Next == (\E r \in Requests : RequestStep(r)) \/ MarkStale \/ Destroy \/ CleanupDone

Spec == Init /\ [][Next]_vars

\* The event loop runs every task it was given, register() returns to the spawn
\* call that awaits it, and the kernel is assumed to end every run and every
\* cleanup.  Nobody is obliged to send a request or to delete the session.
Fairness ==
    /\ \A r \in Requests :
          /\ WF_vars(StartTask(r))
          /\ WF_vars(SpawnExecute(r) \/ SpawnStream(r))
          /\ WF_vars(EndTurn(r))
    /\ WF_vars(CleanupDone)

FairSpec == Spec /\ Fairness
-----------------------------------------------------------------------------
Begun(r) == turnOf[r] # 0

\* At most one run is inside session.execute(), and the lock is held exactly
\* while one is: the serialisation execute() promises (session_handle.py:216).
OneTurnAtATime ==
    /\ \A r, q \in Requests : phase[r] = "executing" /\ phase[q] = "executing" => r = q
    /\ locked <=> \E r \in Requests : phase[r] = "executing"

\* Turns are numbered 1..turnCount without gaps and no two runs share a number,
\* so a correlation id set by execute() names one run (session_handle.py:225-226).
TurnsNumberedOnce ==
    /\ \A r, q \in Requests : Begun(r) /\ turnOf[r] = turnOf[q] => r = q
    /\ \A r \in Requests : turnOf[r] <= turnCount
    /\ \A n \in 1..turnCount : \E r \in Requests : turnOf[r] = n

\* An event that the kernel fires while this handle's run is at work carries that run's
\* correlation id, although the hook reads the handle's mutable field (session_handle.py:155):
\* neither a prompt that bounces nor one that was promised the next turn has moved it on.
\* What a run left behind carries the id of the latest turn, which may not be its own but is
\* not an earlier one either.  Nothing is said of display messages, which carry no id, nor of
\* a spawned child's events, which name the child's own turn and not its parent's.
EventsNameTheirTurn ==
    /\ heard.by <= heard.names
    /\ \A r \in Requests :
          phase[r] = "executing" /\ turnOf[r] = heard.by => heard.names = heard.by

\* Once the task behind a 202 is over or running, the id the client was given
\* is the id of a turn that began, whoever's it was: a client waiting for it
\* does not wait for a turn that never happens (sessions.py:321-339).
PromisesNameRealTurns ==
    \A r \in Requests :
        promised[r] # 0 /\ phase[r] # "queued" => promised[r] \in 1..turnCount

\* Until cleanup() ends, the status says how the latest turn stands; a cancelled
\* run does not leave it at "executing" (session_handle.py:227-239).
StatusReportsLastTurn ==
    cleanup # "done" =>
        /\ turnCount = 0 => status = "idle"
        /\ \A r \in Requests :
              Begun(r) /\ turnOf[r] = turnCount =>
                  /\ phase[r] = "executing" => status = "executing"
                  /\ phase[r] = "returned" => status = "idle"
                  /\ phase[r] \in {"raised", "cancelled"} => status = "failed"

\* background_tasks keeps a task from the moment it is created until it ends:
\* dropped early it could be collected, dropped never it leaks (sessions.py:332-336).
TasksAreThePending ==
    /\ \A r \in Requests : phase[r] = "queued" => r \in tasks
    /\ \A r \in tasks : phase[r] \in {"queued", "executing"}

\* destroy() takes the handle out of the registry before it awaits cleanup, so
\* no request gets hold of a session being torn down (session_manager.py:483-487).
NothingAdmittedAfterDestroy ==
    [][cleanup # "no" =>
          \A r \in Requests : phase[r] = "new" => phase'[r] \in {"new", "notFound"}]_vars

\* Every prompt that was let in is over at some point: it ran, or it was told
\* the session is executing (sessions.py:324-332).
PromptsSettle ==
    \A r \in Requests :
        phase[r] \in {"spawning", "queued", "executing"} ~> phase[r] \in Settled

\* The session does not stay busy: both the flag and the lock that is_busy reads
\* are given back however a run ends (session_handle.py:204, 235-239).
BusyClears == IsBusy ~> ~IsBusy

\* Claimed by sessions.py:305-307: is_busy closes the window in which a second
\* request arrives before the first background task has begun.  If it did, no
\* two 202 responses would carry the same correlation id.
AcceptedIdsDistinct ==
    \A r, q \in Requests : promised[r] # 0 /\ promised[r] = promised[q] => r = q
-----------------------------------------------------------------------------
\* The request whose turn is running: the abstract holder.
Holder ==
    IF \E r \in Requests : phase[r] = "executing"
    THEN CHOOSE r \in Requests : phase[r] = "executing"
    ELSE NoRequest

Serial == INSTANCE SerialTurns
    WITH Clients <- Requests, Nobody <- NoRequest,
         holder <- Holder, count <- turnCount, turn <- turnOf

\* The handle and its handlers keep the promise SerialTurns states, the ending
\* of every turn included (session_handle.py:215-240).
ImplementsSerialTurns == Serial!FairSpec
=============================================================================
