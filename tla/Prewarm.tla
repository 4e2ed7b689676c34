------------------------------ MODULE Prewarm ------------------------------
(***************************************************************************)
(* The background task that prepares the default bundle (app.py, prewarm), *)
(* the flag that keeps session creation waiting for it (bundles_ready),    *)
(* POST /ready/retry (routes/health.py), which replaces the task, the      *)
(* shutdown that cancels it, POST /sessions and POST /resume for that      *)
(* bundle, and the routes that change what the registry has of it          *)
(* (routes/bundles.py, routes/reload.py).                                  *)
(*                                                                         *)
(* The registry, preparing and the throwaway session that warms the import *)
(* cache are external.  A load returns what the registry has or a newer    *)
(* version from the source, update() fetches the source's, and what the    *)
(* registry has only gets newer.  Preparing may hang: only wait_for's      *)
(* timeout ends it then, and the worker thread it leaves behind touches no *)
(* state here.                                                             *)
(***************************************************************************)
EXTENDS Naturals, FiniteSets

CONSTANTS Retries,  \* the POST /ready/retry requests that may come
          Requests, \* the requests for a session with the default bundle that may come
          Boot,     \* the task that startup creates
          NoTask,   \* "no task"
          MaxVersion \* of the default bundle

ASSUME BootAssumption == Boot \notin Retries
ASSUME VersionAssumption == MaxVersion \in Nat \ {0}
ASSUME NoTaskAssumption == NoTask \notin Retries \cup {Boot}

\* A retry and the task it creates have the same name.
Tasks == Retries \cup {Boot}

VARIABLES
    configured, \* there is a bundle registry and a default bundle
    ready,      \* app.state.bundles_ready is set
    error,      \* app.state.prewarm_error is set
    prepared,   \* the task whose PreparedBundle is cached in the SessionManager
    current,    \* app.state.prewarm_task
    task,       \* where each task is
    retry,      \* where each retry is
    awaits,     \* the task each retry has cancelled and awaits
    overlapped, \* two retries were under way at the same time
    stopping,   \* the lifespan's shutdown has begun
    source,     \* the bundle's version at its source
    known,      \* the version the registry has
    registered, \* the registry knows the bundle's name
    loaded,     \* the version each task's load returns
    refreshed,  \* the version the registry had when the last retry was answered
    meta,       \* the status in the run's meta.json
    create,     \* where each request for a session is
    given,      \* the version its session is made from
    due         \* what had been refreshed when it came

bundle == <<source, known, registered>>
creation == <<create, given, due>>
vars == <<configured, ready, error, prepared, current, task, retry, awaits, overlapped,
          stopping, meta, bundle, loaded, refreshed, creation>>

Running == {"starting", "loading", "preparing", "warming", "cancelling"}
Over == {"done", "failed", "cancelled"}
UnderWay == {"awaiting", "updating"}

TypeOK ==
    /\ configured \in BOOLEAN /\ ready \in BOOLEAN /\ error \in BOOLEAN
    /\ prepared \in Tasks \cup {NoTask}
    /\ current \in Tasks \cup {NoTask}
    /\ task \in [Tasks -> {"none"} \cup Running \cup Over]
    /\ retry \in [Retries -> {"new", "answered"} \cup UnderWay]
    /\ awaits \in [Retries -> Tasks \cup {NoTask}]
    /\ overlapped \in BOOLEAN /\ stopping \in BOOLEAN /\ registered \in BOOLEAN
    /\ meta \in {"running", "stopped"}
    /\ source \in 1..MaxVersion /\ known \in 0..source /\ refreshed \in 0..known
    /\ loaded \in [Tasks -> 0..source]
    /\ create \in [Requests -> {"new", "reading", "loading", "made", "refused"}]
    /\ given \in [Requests -> 0..source] /\ due \in [Requests -> 0..refreshed]
    /\ \A c \in Requests : create[c] = "made" => given[c] > 0

\* There may be no default bundle; or the registry could not be made, and the daemon
\* starts without one.
Configured == configured \in BOOLEAN

\* Startup creates the task if there is something to prepare, and otherwise
\* sets the flag.
Init ==
    /\ Configured
    /\ ready = ~configured
    /\ error = FALSE
    /\ prepared = NoTask
    /\ current = IF configured THEN Boot ELSE NoTask
    /\ task = [t \in Tasks |-> IF t = current THEN "starting" ELSE "none"]
    /\ retry = [r \in Retries |-> "new"]
    /\ awaits = [r \in Retries |-> NoTask]
    /\ overlapped = FALSE
    /\ stopping = FALSE /\ meta = "running"
    /\ source = 1 /\ known = 0 /\ refreshed = 0
    /\ registered = TRUE
    /\ loaded = [t \in Tasks |-> 0]
    /\ create = [c \in Requests |-> "new"]
    /\ given = [c \in Requests |-> 0]
    /\ due = [c \in Requests |-> 0]

\* The versions registry.load() may return; 0 when it raises.
Loads == IF registered THEN {v \in 1..source : v >= known} ELSE {0}

MoveTask(t, from, to) == task[t] = from /\ task' = [task EXCEPT ![t] = to]
-----------------------------------------------------------------------------
\* prewarm() starts and calls registry.load(): with nothing to prepare it is done
\* at once.
Begin(t) ==
    /\ \/ /\ configured
          /\ MoveTask(t, "starting", "loading")
          /\ \E v \in Loads : loaded' = [loaded EXCEPT ![t] = v]
          /\ UNCHANGED ready
       \/ /\ ~configured
          /\ MoveTask(t, "starting", "done")
          /\ ready' = TRUE
          /\ UNCHANGED loaded
    /\ UNCHANGED <<configured, error, prepared, current, retry, awaits, overlapped,
                   stopping, meta, bundle, refreshed, creation>>

Max2(a, b) == IF a > b THEN a ELSE b

\* registry.load() returns; the providers are injected.
Load(t) ==
    /\ loaded[t] > 0
    /\ MoveTask(t, "loading", "preparing")
    /\ known' = Max2(known, loaded[t])
    /\ UNCHANGED <<source, registered>>
    /\ UNCHANGED <<configured, ready, error, prepared, current, retry, awaits,
                   overlapped, stopping, meta, loaded, refreshed, creation>>

\* bundle.prepare() returns.
Prepare(t) ==
    /\ MoveTask(t, "preparing", "warming")
    /\ UNCHANGED <<configured, ready, error, prepared, current, retry, awaits,
                   overlapped, stopping, meta, bundle, loaded, refreshed, creation>>

\* SessionManager.set_prepared_bundle() and clear_prepared_bundle().
SetPrepared(t) == prepared' = t
ClearPrepared == prepared' = NoTask

\* The throwaway session is over, well or badly: the bundle is cached and the
\* flag is set.
Warm(t) ==
    /\ MoveTask(t, "warming", "done")
    /\ SetPrepared(t)
    /\ ready' = TRUE
    /\ UNCHANGED <<configured, error, current, retry, awaits, overlapped, stopping,
                   meta, bundle, loaded, refreshed, creation>>

\* Mutant: the flag is for bundles that are ready.
FailSilently(t) ==
    /\ error' = TRUE
    /\ UNCHANGED <<configured, ready, prepared, current, retry, awaits, overlapped,
                   stopping, meta, bundle, loaded, refreshed, creation>>

\* The except clause: the flag is set on failure too.
Fail(t) ==
    /\ error' = TRUE
    /\ ready' = TRUE
    /\ UNCHANGED <<configured, prepared, current, retry, awaits, overlapped, stopping,
                   meta, bundle, loaded, refreshed, creation>>

\* Mutant: an outcome of its own for a load that raised.
RaiseUndefined(t) ==
    /\ MoveTask(t, "loading", "error") \/ MoveTask(t, "preparing", "failed")
    /\ Fail(t)

\* Loading or preparing raises.
Raise(t) ==
    /\ MoveTask(t, "loading", "failed") \/ MoveTask(t, "preparing", "failed")
    /\ Fail(t)

\* Mutant: prepare() is awaited without a limit.
TimeOutNever(t) == FALSE /\ UNCHANGED vars

\* prepare() took longer than wait_for allows.
TimeOut(t) ==
    /\ MoveTask(t, "preparing", "failed")
    /\ Fail(t)

\* A task that was cancelled ends without a trace.
CancelDelivered(t) ==
    /\ MoveTask(t, "cancelling", "cancelled")
    /\ UNCHANGED <<configured, ready, error, prepared, current, retry, awaits,
                   overlapped, stopping, meta, bundle, loaded, refreshed, creation>>
-----------------------------------------------------------------------------
CurrentRuns == current # NoTask /\ task[current] \in Running

\* The flag is cleared and a new task takes the place of the old one.
Launch(r) ==
    /\ ready' = FALSE
    /\ task' = [task EXCEPT ![r] = "starting"]
    /\ current' = r
    /\ retry' = [retry EXCEPT ![r] = "answered"]

\* Mutant: the cached bundle stays until there is a new one.
RenewKeep(r) ==
    /\ UNCHANGED prepared
    /\ IF configured
       THEN retry' = [retry EXCEPT ![r] = "updating"] /\ UNCHANGED <<ready, task, current>>
       ELSE Launch(r)

\* No task is in the way: the cached bundle goes and, where there is a default
\* bundle, registry.update() is awaited.
Renew(r) ==
    /\ ClearPrepared
    /\ IF configured
       THEN retry' = [retry EXCEPT ![r] = "updating"] /\ UNCHANGED <<ready, task, current>>
       ELSE Launch(r)

\* Mutant: the task under way is left alone.
RetryBeginBeside(r) ==
    /\ retry[r] = "new"
    /\ ~stopping
    /\ error' = FALSE
    /\ overlapped' = (overlapped \/ \E q \in Retries : retry[q] \in UnderWay)
    /\ Renew(r)
    /\ UNCHANGED <<configured, awaits, stopping, meta, bundle, loaded, refreshed,
                   creation>>

\* ready_retry() up to its first await: the old error is forgotten, and a task
\* that is not done is cancelled and awaited.
RetryBegin(r) ==
    /\ retry[r] = "new"
    /\ ~stopping
    /\ error' = FALSE
    /\ overlapped' = (overlapped \/ \E q \in Retries : retry[q] \in UnderWay)
    /\ \/ /\ CurrentRuns
          /\ task' = [task EXCEPT ![current] = "cancelling"]
          /\ retry' = [retry EXCEPT ![r] = "awaiting"]
          /\ awaits' = [awaits EXCEPT ![r] = current]
          /\ UNCHANGED <<ready, prepared, current>>
       \/ ~CurrentRuns /\ Renew(r) /\ UNCHANGED awaits
    /\ UNCHANGED <<configured, stopping, meta, bundle, loaded, refreshed, creation>>

\* The cancelled task is over.
RetryResume(r) ==
    /\ retry[r] = "awaiting" /\ task[awaits[r]] \in Over
    /\ Renew(r)
    /\ UNCHANGED <<configured, error, awaits, overlapped, stopping, meta, bundle,
                   loaded, refreshed, creation>>

\* registry.update() is over, well or badly.
RetryStart(r) ==
    /\ retry[r] = "updating"
    /\ known' \in {known} \cup {v \in {source} : registered}
    /\ refreshed' = known'
    /\ Launch(r)
    /\ UNCHANGED <<configured, error, prepared, awaits, overlapped, stopping, meta,
                   source, registered, loaded, creation>>

\* The lifespan ends, with no request under way: the task is cancelled.
Stop ==
    /\ ~stopping
    /\ \A r \in Retries : retry[r] \notin UnderWay
    /\ \A c \in Requests : create[c] \notin {"reading", "loading"}
    /\ stopping' = TRUE
    /\ task' = IF CurrentRuns THEN [task EXCEPT ![current] = "cancelling"] ELSE task
    /\ UNCHANGED <<configured, ready, error, prepared, current, retry, awaits,
                   overlapped, meta, bundle, loaded, refreshed, creation>>

\* update_session_meta() merges the status into meta.json.
UpdateMeta(status) == meta' = status

\* The cancelled task is over, and meta.json says that the run has stopped.
StopEnds ==
    /\ stopping /\ meta = "running"
    /\ ~CurrentRuns
    /\ UpdateMeta("stopped")
    /\ UNCHANGED <<configured, ready, error, prepared, current, task, retry, awaits,
                   overlapped, stopping, bundle, loaded, refreshed, creation>>
-----------------------------------------------------------------------------
process == <<configured, ready, error, prepared, current, task, retry, awaits,
             overlapped, stopping, meta, loaded, refreshed>>

\* The bundle that is cached, or else one that the request loads itself.
Lookup(c) ==
    \/ /\ prepared # NoTask
       /\ create' = [create EXCEPT ![c] = "made"]
       /\ given' = [given EXCEPT ![c] = loaded[prepared]]
    \/ /\ prepared = NoTask
       /\ create' = [create EXCEPT ![c] = "loading"]
       /\ \E v \in Loads : given' = [given EXCEPT ![c] = v]

\* The request comes: it is refused while the flag is not set.
Arrive(c, admitted) ==
    /\ create[c] = "new" /\ ~stopping
    /\ due' = [due EXCEPT ![c] = refreshed]
    /\ \/ ready /\ admitted
       \/ ~ready /\ create' = [create EXCEPT ![c] = "refused"] /\ UNCHANGED given
    /\ UNCHANGED <<process, bundle>>

\* POST /sessions for the default bundle.
Create(c) == configured /\ Arrive(c, Lookup(c))

\* POST /resume: it reads the transcript and the metadata, which name the bundle.
Resume(c) ==
    /\ configured
    /\ Arrive(c, create' = [create EXCEPT ![c] = "reading"] /\ UNCHANGED given)

\* They are read.
ResumeReads(c) ==
    /\ create[c] = "reading"
    /\ Lookup(c)
    /\ UNCHANGED <<process, bundle, due>>

\* Its load or its preparation raises: the client is told that there is no session.
CreateFails(c) == create' = [create EXCEPT ![c] = "refused"] /\ UNCHANGED known

\* Its own load and preparation end.
CreateEnds(c) ==
    /\ create[c] = "loading"
    /\ \/ /\ given[c] > 0
          /\ create' = [create EXCEPT ![c] = "made"]
          /\ known' = Max2(known, given[c])
       \/ CreateFails(c)
    /\ UNCHANGED <<process, source, registered, given, due>>

\* The bundle's author publishes a version.
Publish ==
    /\ source < MaxVersion
    /\ source' = source + 1
    /\ UNCHANGED <<process, known, registered, creation>>

\* POST /bundles/register and DELETE /bundles/{name}: the cached PreparedBundle
\* is not touched.
RegisterBundle ==
    /\ ~stopping
    /\ registered' = TRUE
    /\ UNCHANGED <<process, source, known, creation>>

UnregisterBundle ==
    /\ ~stopping /\ registered
    /\ registered' = FALSE
    /\ UNCHANGED <<process, source, known, creation>>

\* POST /bundles/load, prepare and compose: what they load is returned and not kept.
LoadBundle ==
    /\ ~stopping /\ registered
    /\ known' \in Loads
    /\ UNCHANGED <<process, source, registered, creation>>

\* POST /reload/bundles loads each bundle that is registered.
ReloadBundles == LoadBundle

\* POST /bundles/{name}/update.
UpdateBundle ==
    /\ ~stopping /\ registered
    /\ known' = source
    /\ UNCHANGED <<process, source, registered, creation>>
-----------------------------------------------------------------------------
TaskStep(t) ==
    \/ Begin(t) \/ Load(t) \/ Prepare(t) \/ Warm(t)
    \/ Raise(t) \/ TimeOut(t) \/ CancelDelivered(t)

Next ==
    \/ \E t \in Tasks : TaskStep(t)
    \/ \E r \in Retries : RetryBegin(r) \/ RetryResume(r) \/ RetryStart(r)
    \/ Stop \/ StopEnds
    \/ \E c \in Requests : Create(c) \/ Resume(c) \/ ResumeReads(c) \/ CreateEnds(c)
    \/ Publish \/ RegisterBundle \/ UnregisterBundle
    \/ LoadBundle \/ ReloadBundles \/ UpdateBundle

Spec == Init /\ [][Next]_vars

\* The event loop runs its tasks and wait_for's timer fires.  The registry and
\* the throwaway session are assumed to answer, prepare() is not.
Fairness ==
    /\ \A t \in Tasks :
          /\ WF_vars(Begin(t))
          /\ WF_vars(task[t] = "loading" /\ (Load(t) \/ Raise(t)))
          /\ WF_vars(TimeOut(t))
          /\ WF_vars(Warm(t))
          /\ WF_vars(CancelDelivered(t))
    /\ \A r \in Retries : WF_vars(RetryResume(r)) /\ WF_vars(RetryStart(r))

FairSpec == Spec /\ Fairness
-----------------------------------------------------------------------------
Quiet ==
    /\ \A t \in Tasks : task[t] \notin Running
    /\ \A r \in Retries : retry[r] \notin UnderWay

\* What GET /ready says.
Answer == [ready |-> ready, error |-> error]

\* When nothing is under way any more, a client that polls GET /ready is told that
\* the bundles are ready, and they are or it is told the error, however many retries
\* cancelled however many tasks (app.py:95-110, health.py:93-102).
QuietMeansReady ==
    Quiet /\ ~stopping =>
        Answer.ready /\ (configured => prepared # NoTask \/ Answer.error)

\* Retries that come one after the other leave one task at work at a time, each
\* cancels and awaits the one before; and when meta.json says that the run has
\* stopped none is (health.py:115-122, app.py:256-274).
SerialRetriesOneTask ==
    ~overlapped =>
        /\ \A t, u \in Tasks : task[t] \in Running /\ task[u] \in Running => t = u
        /\ meta = "stopped" => \A t \in Tasks : task[t] \notin Running

\* Session creation is not held back for ever, even when prepare() hangs
\* (app.py:66-75, 104-110).
GuardReleases == ~ready ~> ready \/ stopping

\* With retries one after the other, a session that was asked for after a retry was
\* answered, created or resumed, is not made from a bundle older than that retry
\* fetched, whatever was cached, loading or preparing when the retry came, and
\* although a resume looks for it two awaits after the flag was tested
\* (health.py:115-136, app.py:97, session_manager.py:252-259, 363-400).
SessionsAreFresh ==
    ~overlapped => \A c \in Requests : create[c] = "made" => given[c] >= due[c]

\* Claimed by sessions.py:125, session creation is blocked while the bundles are
\* prewarming: while the task that prepares them runs, the flag is not set.
GuardHolds == configured /\ ready => ~CurrentRuns
=============================================================================
