# amplifierd in TLA+

amplifierd is a daemon that hosts agent sessions behind HTTP and streams their
events to clients.  This directory models the parts of it that keep state while
others run: sessions and their turns, child sessions and their teardown, the
registry and its index on disk, what is saved of each session and read back, the
event bus, and the preparation of the default bundle.  TLC checks the models on
small instances.  TLAPS proves their safety for every value of the constants: all
invariants and action properties of the runs, and that the session and the event
bus implement their abstract specifications.  Liveness is only model-checked.

Paths below are relative to `src/src/amplifierd/`.

## The system

The daemon is one asyncio event loop.  What a coroutine does between two awaits
happens without interruption, so an action of a model is such a stretch, and
every await is a point where all the others may act.  Threads enter in three
places: the index and the files of a session are saved in worker threads, and
bundles are prepared in one.

| component | state | operations | interacts with |
|---|---|---|---|
| `state/session_handle.py` SessionHandle | status, turn lock, turn count, correlation id, stale flag | execute, cancel, mark_stale, register_child, cleanup | called by the routes and by spawn; publishes to the EventBus; drives the kernel session |
| `routes/sessions.py`, `routes/agents.py` | `background_tasks` | execute, execute/stream, cancel, stale, delete, resume; spawn, spawn/stream, resume of a child | SessionManager for the handle, then the handle |
| `state/session_manager.py` SessionManager | registry of live handles, prepared-bundle cache | register, create, resume, destroy, shutdown | creates handles; changes and saves the SessionIndex |
| `state/session_index.py` SessionIndex | entries in memory, `index.json`, save lock | add, update, save (threads), load, rebuild | SessionManager; the disk |
| `state/event_bus.py` EventBus, `routes/events.py` | session tree, subscribers with bounded queues | publish, subscribe, register_child, get_descendants | the hooks of every session; SSE clients |
| `app.py` prewarm, `routes/health.py` | `bundles_ready`, `prewarm_error`, `prewarm_task`, the cache | prewarm, ready, ready/retry, startup, shutdown | gates create and resume; fills the SessionManager's cache |
| `routes/bundles.py`, `routes/reload.py` | what the registry has | register, unregister, load, prepare, compose, update, reload | the bundle registry, beside the cache, which they do not touch |
| `spawn.py` | capture hook, cancellation link, tree edge | the spawn capability the delegate tool calls | SessionManager.register/destroy, SessionHandle.execute, EventBus |
| `persistence.py` | `transcript.jsonl`, `metadata.json` | save hooks, load; PATCH writes metadata too | the kernel's context; SessionManager.resume |
| `daemon_session.py` | `meta.json` of the run | create, update, prune | startup and shutdown |
| `routes/approvals.py` | pending approvals, one future each | list, respond | nobody: nothing in `src/` creates one outside tests |
| the rest | none that outlives a request | configuration, security filters, providers, plugins, thin routes | see PROJECT.json, `components` |

What makes each part correct:

* **Session**: one turn at a time; turn numbers, correlation ids, status and
  tasks agree with the turns that ran; every prompt that was let in ends; a
  session being torn down is out of reach.
* **Registry and index**: a live handle is never replaced and never cleaned up;
  what a call was answered is on disk; `index.json` only moves forward; shutdown
  leaves nothing that was live; no save blocks the others for ever.
* **Event bus**: a subscriber is sent what its session and everything spawned
  below it publish, in order, once, and loses only to overflow; streams go on
  while the client stays and end when it goes.
* **Prewarm**: the guard on creation is released however preparation ends; with
  retries one after the other, one task works at a time, and no session is made
  from a bundle older than the last retry fetched.
* **Spawn**: a child's turn is wired to everything above it while it runs; a
  delegate leaves nothing behind on any exit, reports its own child's turn, and
  always returns.
* **Session files**: a turn whose end was saved is never lost; between turns the
  transcript is the session's context; the metadata counts no turn that is not on
  disk and merges what its writers say.  A thread that a cancelled or raised turn
  left writing can spoil the first three on disk, and nothing else can.

What is hard here is listed line by line in PROJECT.json under `hazards`: state
tested before an await and used after it, cancellation that bypasses
`except Exception`, threads that write a file the loop is changing, queues at
their limit, and the death of the process between two steps.

## The modules

| module | models | kind |
|---|---|---|
| `SerialTurns` | what a session promises whoever prompts it | abstract specification |
| `SessionHandle` | one handle and all handlers that drive it | detailed; implements `SerialTurns` |
| `SessionManager` | registry, index in memory and on disk, save threads, shutdown, restart | detailed |
| `LossyFeed` | what GET /events promises a client | abstract specification |
| `EventBus` | session tree, queues, the two generators of an SSE stream | detailed; implements `LossyFeed` |
| `Prewarm` | the prewarm task, its flag, retries and shutdown; creation and resume with the default bundle; the bundle routes | detailed |
| `Spawn` | delegates and posted children, their wiring and teardown, beside clients | detailed; composes handle, registry and tree |
| `SessionFiles` | the two save hooks, PATCH, DELETE and resume, on the files of one session | detailed |
| `MC...` | instances for TLC | model checking |
| `SessionHandleProofs`, `SessionManagerProofs`, `EventBusProofs`, `PrewarmProofs`, `SpawnProofs`, `SessionFilesProofs` | the theorems about each detailed module | proofs |

Definitions that begin a comment with "Mutant:" are wrong variants of the
definition that follows them.  No specification uses them: each shows which bug
breaks which property (PROJECT.json, `mutants`).

### SessionHandle

The variables from `status` to `stale` are the handle's fields; `registered` is
its place in `SessionManager._sessions`, `tasks` is `app.state.background_tasks`.
`phase`, `promised`, `turnOf` and `heard` record where each request is, the turn
number its 202 named, the turn it was given, and the last event published: the turn
that caused it and the turn it names.

* `Execute` is guard and `execute()` up to the kernel's await in one step: there
  is no suspension between them.  `ExecuteStream` only promises a number and
  queues a task; `StartTask` is that task's first step.  The gap between the two
  is where a second request gets in.
* `BeginTurn` and `Bounce` are the two ways `execute()` can go, `EndTurn` the end
  of the kernel's run: it returns, raises or is cancelled.
* The spawn calls prompt their child with no guard (`SpawnExecute`,
  `SpawnStream`); somebody else may have prompted it while `register()` was
  awaited.
* A run publishes in two ways.  `Emit` is the hook of `_wire_events`, which puts the
  handle's correlation id of the moment on the kernel's event; `ShowMessage` is the
  display of `_wire_display`, whose messages carry no id (`Anonymous`).  Tools that a
  raised or cancelled run left behind publish beside later runs (`Publishes`).
* `ResumeChild` prompts a child again: the guards of `Execute`, and a 404 when the
  parent's handle is gone.
* `Destroy` unregisters and `CleanupDone` ends the awaited cleanup.  A turn under
  way goes on: the code does not cancel it.

Any order of ready callbacks is allowed, where asyncio runs them first in first
out.  That allows more than the loop does, so what holds here holds there; the
counterexample of `session_handle_ids` needs no other order, since both requests
can be handled before the first task's step in the same loop iteration.

`SerialTurns` has a holder, a count and each client's turn.  The refinement maps
the holder to the request whose phase is "executing", the count to the turn
count and the turns to `turnOf`; status, lock, tasks and refusals are hidden.

### SessionManager

A call is a coroutine on its way through create, resume or destroy, and names
the handle it registered and the kernel session it opened.  `index` and `disk`
hold for each id a status and a version; the version counts the entry's changes
and only serves to tell older from newer.

* Creation and resume each await several external steps; the model keeps the
  awaits apart where they matter: before the kernel session exists ("loading"),
  while the transcript is injected ("restoring"), while the save thread waits for
  the lock ("saving") and while it holds it ("writing").
* `SaveBegin` takes the lock and lists the entries; `SaveEnd` writes each entry as
  it was listed or as it is by then, since the thread reads fields while the loop
  may change them; or the disk refuses and the call fails.
* `Restart` is the death of the process at any point and the start of another: the
  registry is empty, the index is loaded from `index.json` or, if there has never
  been one, rebuilt from the session directories.
* `shutdown()` is a loop of destroys, each a call of its own, beside other calls:
  background tasks still run then.
* `Listing` is what `list_sessions()` answers.  `Update` is the index's `update()`,
  which ignores an id it does not know; `ListingLosesNone` says that it need not.

### EventBus

An event is the number of its `publish()`.  `due` records, for each subscriber,
what it should be sent by a definition of "descendant" that does not look at the
code's search; `seen` what `subscribe()` yielded with its sequence number.
Subscribers share nothing but the tree and the synchronous loop of `publish()`,
so one client shows what each of several is sent.  The breadth-first search of
`get_descendants()` is written as its levels, a recursive function.
A delegate may be given the id of an earlier one, so the tree is not always one:
an id may get a second parent, and be below itself.

`LossyFeed` knows no tree and no generators: each client follows a growing set of
sources, of what they publish the latest `Capacity` events wait for it, and it is
sent them from the oldest, numbered as they are sent.  The refinement maps `waiting`
to the queue, `sent` to `seen`, `follows` to the client's session with all that is
below it by that independent definition (`Follows`), and `phase` to where the
generators are: "listening" from `subscribe()`'s entry into the list until its
`finally` clause.  Connection, keepalives, writing and hanging up are stutters.

### Prewarm

Each retry creates one task, which carries its name.  A cancelled task ends
without a trace at its next step.  The worker thread that a timed-out `prepare()`
leaves behind touches no state of the daemon and is left out.

The default bundle has versions: `source` is the one its author published last,
`known` the one the registry has.  `registry.load()` returns what the registry has
or something newer from the source, `registry.update()` fetches the source's; this
is all that is assumed of the registry.  `loaded` is the version each task works
with, `given` that of a session.  A request for a session tests the flag
(`Arrive`), takes the cached bundle or loads one (`Lookup`); a resume reads two
files in between.  The routes of `routes/bundles.py` and `routes/reload.py` change
`known` and `registered` and never the cache.  `refreshed` and `due` record what a
retry had fetched when it was answered, and when the request came.

At shutdown the requests are over, as uvicorn has it, before the lifespan cancels
the task; `StopEnds` then marks the run as stopped in `meta.json`.

### Spawn

A handle is named like the call that made it: the root, one per delegate or POST,
one per resume, and the placeholder a POST falls back to.  `name` gives each its
session id, since a delegate may be told to use an earlier child's id and a resumed
session has the id it had.  `registry` is the SessionManager's, `below` the edges
of the tree (in the handle and in the bus), `linked` the links of the cancellation
tokens, `hooked` the capture hooks.

* `Delegate` is the call in the parent's turn: any session that `create()`,
  `resume()` or the capability made can do it, so delegates nest.
* `BuildFails`, `Register` and `SaveFails` are the ways to the registered handle,
  and out.  `Launch` is everything from there to the child's turn, in one step,
  since `execute()` reaches the kernel without another await; or it bounces off a
  client's turn.
* `Finish` is the `finally` clause up to the await of `destroy()`, which goes by id.
* Clients prompt, delete and resume any session whose id they can know.

Of `POST /spawn` the model has what it shares with the delegate; its turns are those
of `SessionHandle`.  The kernel's tokens pass a cancellation down their links
(`Reached`).

### SessionFiles

One session id through several lives: the one `create()` made and those `resume()`
makes of it, each with its kernel context and hooks.  A deleted life's turn goes on,
and its hooks go on writing.  Turns are numbered as their prompts come, `runner` says
whose they are and `stage` how far they got; a context is the set of its messages.

* `ToolPost` takes a snapshot of the context unless its length has not grown past
  `_last_count`; `Write` is the thread that replaces the file, `Saved` the handler
  that goes on and sets the count.  Handlers of parallel tools overlap.
* `Complete` is `orchestrator:complete`: the transcript hook saves what is new, then
  the metadata hook follows (`TranscriptKept`, `Describe`).
* A turn ends without it when the kernel's run raises or is cancelled (`Raise`), or
  when it is cancelled inside one of the two hooks (`CancelSaving`,
  `CancelDescribing`); a tool can be cancelled by itself (`ToolCancelled`).  Nobody then
  waits for the threads.  A handler that is cancelled while its thread writes is gone
  (`HandlerCancelled`: `CancelledError` passes `except Exception`), the count stays what
  it was, and the thread goes on (`left`); a tool that was not cancelled, of a run that
  raised, goes on with its handler beside the next turn.  `late` says that the file is
  what such a thread wrote.
* `Write` skips messages that cannot be serialized (`Unwritable`), which `Saved` counts
  all the same; `Loaded` has lost those whose line `str.splitlines()` tears (`Torn`):
  JSON written with `ensure_ascii=False` may hold U+0085, U+2028 or U+2029.  The model
  takes all pieces of a torn line for unreadable, as they are unless one of them
  happens to be JSON.  The results that `resume()` makes up for tool calls without one
  are left out.
* Metadata is read (`ReadMeta`), merged and written (`WriteMeta`) by hooks and by
  the two PATCH routes; `raced` records that somebody wrote in between.
* `Resume` reads the transcript, `Register` comes many awaits later.
* `Crash` is the death of the process between any two steps.  A file is replaced
  whole: `write_with_backup` of amplifier_foundation, which the daemon cannot do
  without, is assumed to be atomic.  (The fallback in `_atomic_write` is not for
  overlapping writers, which would share its one `.tmp` file.)

Assumed of the kernel: as long as a turn neither raises nor is cancelled, the handlers
of its `tool:post` are through, or cancelled, before the answer is in the context and
`orchestrator:complete` is emitted.  System messages are left out, since they come back
from the bundle.  `kept` holds the turns whose end the transcript hook was content with;
`forked` says that somebody other than the id's current life wrote, or that it began
with an older or a late transcript, `compacted` that the kernel compacted a context.

## The runs

| run | instance | shows |
|---|---|---|
| `session_handle` | 3 requests | the seven invariants, no admission after destroy, every prompt settles, the session does not stay busy, and `SerialTurns` is implemented, its liveness included |
| `session_handle_ids` | 2 requests | **violated**: two 202 answers carry the same correlation id |
| `session_manager` | 2 ids, 4 calls | handles and kernel sessions agree, what was listed stays listed, shutdown leaves none, no handle is replaced |
| `session_manager_restart` | 1 id, 3 calls, 1 death | answered changes are durable, the disk never goes back, every call is answered |
| `event_bus` | 3 sessions, 1 client, queue of 2, 3 events | queues, loss, streams and disconnection, and `LossyFeed` is implemented |
| `event_bus_gaps` | 1 session, queue of 2, 5 events | **violated**: a drop leaves no gap in the sequence numbers |
| `prewarm` | 2 retries and the boot task, 2 bundle versions, 1 request for a session | readiness, one task under serial retries and none after the run, sessions are made from fresh bundles, the guard is released |
| `prewarm_guard` | 2 retries | **violated**: the guard opens while the current task runs |
| `spawn` | 2 delegates, 1 POST, 1 resume | teardown on every exit, wiring, capture, every spawn ends |
| `spawn_teardown` | 1 delegate, 1 resume | **violated**: a delegate tears down a session that a client resumed |
| `session_files` | 2 turns with a tool call and 2 parallel tools, a torn answer, an unwritable call, 1 resume, and 1 PATCH or 1 mishap | saved turns stay, the quiet transcript is current unless a thread was left behind, metadata merges and counts what is there |
| `session_files_directory` | 1 turn, 1 PATCH | **violated**: a PATCHed directory is overwritten at the end of the first turn |

The violated properties state what a comment or a document says; PROJECT.json
quotes the text under `findings`.

Bounds.  Every request, call and retry happens at most once, so the number of
them bounds the turns, versions and tasks.  Three requests suffice for one to
run, one to be queued and one to be refused.  Four calls on two ids bring two
sessions up and take both down, which is what `ShutdownLeavesNone` needs; three
calls on one id let two saves compete while a third follows, before or after a
restart (`MaxCrashes`).  Three sessions contain every chain, fan,
shared child and cycle that the search has to tell apart; `MaxEvents` is one more
than `MaxQueueSize`, so that a full queue overflows, and three more in
`event_bus_gaps`.  Ids and calls are interchangeable in `session_manager`, where
symmetry is used; no run with a liveness property uses it.  Two retries overlap or
follow each other, and `MaxVersion` of 2 makes one bundle older than another.  Two
delegates are side by side, nested, or the second takes the first one's id, with a
POST and a resume among them.  Deeper trees are left to the theorems, which have no
bound on them; `GET /tree` stops at depth 50, which the model does not.  In
`session_files`
two turns let a save of the first meet the second or its resume, two handlers of
`tool:post` (`MaxTools`) overlap each other, one tool call (`Steps`) is enough for their
snapshots to differ.  `MaxDisturbances` allows one PATCH, or one mishap: a turn that
raises, a cancelled turn or tool, a failed write, a compaction or a crash, at any point.
One cancelled turn is enough for its thread to overwrite the next turn's transcript, and
one PATCH to overlap a hook; both together are left to the theorems, which have no bound.
`PatchKeys` chooses what a PATCH changes.

Deadlock is not checked: once the bounded requests, calls or retries are over,
the system rightly has nothing to do.

Fairness.  The loop runs every ready callback, timers fire, worker threads
progress and `register()` returns: weak fairness of those steps.  The kernel is
assumed to end each run and each cleanup in one of its ways; liveness says
nothing about a kernel that hangs.  Nothing is assumed of clients: no request
need come, no session need be deleted.  `YieldEvent` has strong fairness because
a keepalive can disable it, but only when the timer fires in the very iteration in
which an event arrives; `get()` returns a waiting event at once otherwise.  The
bus's liveness assumes that a write to a client that stays returns, and that the
loop finalizes a generator its consumer left; that the web server cancels the stream
of a client that is gone is allowed and not assumed.  In `Prewarm`, `prepare()` is
not assumed to end, only its timeout.  In `Spawn` it is enough that some call steps
while one can, since each call takes finitely many steps; clients' turns on a
delegate's child need not end, and the delegate returns all the same.

## The proofs

The theorems hold for every value of the constants under the named assumptions of
the modules.  Most say that a null value is no element (`NoRequest`, `NoCall`,
`Nobody`) or that a bound is a number.  Five say more:

* `SessionsAssumption` (`EventBus`) and `StepsAssumption` (`SessionFiles`): the sessions,
  and the messages a turn may say, are finitely many, as they are in a process that ends.
* `StubsAssumption` (`Spawn`): a placeholder is no other handle; its id is fresh.
* `WritersAssumption` (`SessionFiles`): a PATCH is not a turn.
* `UnwritableAssumption` (`SessionFiles`): a prompt can be written, being the string of a
  JSON request.

Requests, calls, retries, delegates and clients may be infinitely many.

Each module proves `Invariance`, `Spec => []IInv` (`Invariant` in
`SessionHandleProofs`), from a lemma for the initial states and one for each part of
`IInv` that a step can disturb, with one case per action.  The invariants of the runs
follow from `IInv`, and the action properties from one step of it.  Those invariants
are not inductive: what `IInv` adds, and why, is this.

**SessionHandle.**

* `BegunPhases`: a request has a turn number exactly when it executes or ended a
  run, so whoever begins a turn has none yet;
* `RunningIsLatest`: the running turn has the latest number, and it is the one in
  the handle's correlation id.  Events of a run at work are attributed because of it,
  and `EventsNameGivenTurns` keeps a new run apart from what was published before;
* `PromisesBounded`: a 202 names at most the next turn, and a turn that has
  begun as soon as the lock is held or the task has left the queue.  A task is
  refused only under the lock, hence after the promised turn was given away;
* `CleanupFollowsRemoval`: the handle is registered exactly until cleanup begins.

`SerialSafety` proves `Spec => Serial!Spec`.  The abstract holder is a CHOOSE;
`HolderIsRunning` and `HolderIsNobody` say what it is, `OneTurnAtATime` making
it unique.  `BeginTurn` and `EndTurn` map to the abstract actions of the same
names, every other step to a stutter (`OthersStutter`).

**SessionManager.**

* `HandlesHaveOwners`: a registered handle is that of the call made for its id,
  which has got past `register()`.  So two live ids never share a kernel session, and
  no call closes another's: `LiveHandlesAreOpen`, `HandleNeverReplaced`.
* `DoomedAreListed`: a handle that shutdown found stays on its list until it is
  unregistered, and the call that owns it is past `register()`, so it cannot come back:
  `ShutdownLeavesNone`.
* `DiskIsBehind`: by version, the disk is behind the buffer of the thread that writes,
  and this behind the index in memory.  Only `OneWriter`, the lock, makes that stable;
  `DiskNeverGoesBack` is one step of it.
* `ChangesTravel`: a call's change is in memory when its save begins, in the buffer
  while the thread writes and on the disk when it is answered:
  `AnsweredChangesAreDurable`, through any number of crashes.

**EventBus.**

* `SearchIsExact`: for any finite graph, cycles included, the levels of
  `get_descendants()` add up to the sessions below the root: each level adds a session
  or is closed, so `Cardinality(Sessions)` levels are enough.
* `QueuedInOrder`: a queue is increasing and after everything that was sent;
  `NewcomersAreClean` and `SubscribersListen` say whose queues are in use.
* A suffix is a statement about two reversed sequences; `SuffixByPlace` turns it into
  one about places, in which `EnqueueKeepsTheEnd` and `TailKeepsTheEnd` are arithmetic.

`FeedIsImplemented` is the refinement: `Publish` maps to the feed's, because a queue
with drop-oldest holds the latest of one event more (`EnqueueKeepsTheLatest`) and the
search reaches exactly who follows (`MatchesWhoFollows`); `RegisterChild` to `Follow`,
since what is below a session only grows; `Subscribe`, `YieldEvent` and `Unsubscribe`
to `Join`, `Send` and `Leave`; the rest stutters.

**Prewarm.**

* `CancelledIsAwaited` and `SomebodyAnswers`: a task that was cancelled has a retry that
  waits for it and will start another, so that while the flag is down somebody is left
  to raise it: `QuietMeansReady`.
* `OneAfterTheOther`: as long as no retry came during another, the task at work is the
  current one and the retry awaits it: `SerialRetriesOneTask`.
* `NothingIsStale`: what is loading, cached or made is then no older than what the last
  retry fetched before it was asked for: `SessionsAreFresh`.

**Spawn.**

* `RegisteredOrClosed`: between registration and teardown a delegate's child is found
  by its id, or somebody who took its place has closed it: `EndedLeavesNothing`.
* `RunningIsWired` and `WiresAreTemporary`: hook, link and edge are there while the
  child's turn runs, and hook and link no longer than somebody will take them away.
* `SpreadIsClosed`: what GET /tree shows and what a cancellation reaches are closed
  under the edges, at any depth: `TurnsAreWired`.

**SessionFiles.**

* `SavesAreSnapshots` and `SavesInTime`: until a compaction a context only grows, and a
  save that its turn still waits for (`InTime`) has all the prompts of it.
* `SavesHaveTurns`: the last save of a turn that nothing disturbed is of the context as
  it is, after all others.  Nothing of the kind is said of a save that is `Late`.
* `DurableTurnsStay`: a turn whose last save is written is in the owner's context, in
  whatever the owner is still awaited to write, and in the file as long as no late write
  has come.  `AnswersAreNews` is what it needs of the debounce: the count, also one that a
  late handler sets, never takes a new answer for saved.  `AnsweredTurnsStay` follows.
* `FileIsCurrent` and `DesertersAreLate` give `QuietTranscriptIsCurrent`: a late write
  takes a turn that raised, or a turn or a tool that was cancelled.
* `CountsAreBehind`: no count of turns, on the disk or with any of its writers, is ahead
  of the owner's context, nor of the file unless a late write came:
  `TurnsCountedAreOnDisk`.  `FilePromptsAreInContext` carries it from one to the other.
  `HooksMerge` is what `MetadataMerges` needs to know of the keys a hook takes along.

Induction over data is not available as a theorem with an operator parameter.
`SetInduction` states it of sets of numbers and proves it from the well-foundedness of
inclusion between finite sets; `Recursion` uses it to give recursive functions on an
interval their values.

Only model-checked: liveness and the fairness of abstract specifications
(`PromptsSettle`, `BusyClears`, the fairness of `SerialTurns`, `CallsSettle`,
`StreamsDrain`, `GoneClientsLeave`, `GuardReleases`, `SpawnsEnd`), which need ENABLED
and are out of the prover's reach.

## Known divergences

Five runs show, by a counterexample, that the code does other than a comment or a
document says (PROJECT.json, `findings`).  Others were met while modelling and need
no run to be seen:

* `POST /stale` sets a flag that `execute()` neither reads nor clears, where
  `docs/design/architecture.md:538-549` has it reload the bundle.
* Two resumes of one session may both open a kernel session; `register()` refuses
  the second, whose kernel session stays open with no owner (`OpenFails`).
* `destroy()` marks an id "completed" after an await: a session resumed meanwhile is
  live and its entry says completed (`CleanupEnds`).
* `GET /health` counts `list_sessions()` as `active_sessions`, the historical ones
  included.
* After a compaction the debounce of the transcript hook skips saves until the
  context has outgrown its former length, turn boundaries included.
* `metadata.json` is read, merged and written without a lock: of two overlapping
  writers one may lose its keys (`raced`).
* `reload` and the update of a bundle leave the cached PreparedBundle in place: new
  sessions are made from the old one until a retry.
* A bundle's provider values do not survive an unset `${VAR}` in the settings, where
  comments in `providers.py` (127-129, 166-168) say so: the merge has replaced them
  before the expansion drops the key.
* `docs/design/architecture.md:532` attaches the correlation id to every event of an
  execution and has a child session's events inherit the parent's.  A spawned child is a
  SessionHandle like any other, and its events name the child's own turn
  (`session_handle.py:226`); display messages carry no id (`display.py:44-48`); and what a
  raised or cancelled run left behind publishes under the next run's id.
* A turn that raises or is cancelled leaves its threads writing (`persistence.py:167`,
  whose `except Exception` lets `CancelledError` pass).  An older snapshot can so land
  after the next turn's save: the answered turn is not in `transcript.jsonl`, and
  `metadata.json` counts it, until a turn's end is saved; a resume or a crash in between
  loses it (`late`).
* `write_transcript` skips messages it cannot serialize, and `load_transcript` drops those
  whose line `splitlines()` tears at U+0085, U+2028 or U+2029: the context after a resume
  is short of them, and the next save removes the torn ones from the file too
  (`persistence.py:74-76, 111-117`).
* A resume that read its transcript before another life's turns can overwrite them
  (`forked`): the transcript's properties are stated for one life at a time.

## Not modelled

* Approvals: nothing in `src/` asks for one, so there is no behaviour to model.
* Reads that change nothing: transcript, lineage, forks, tools, configuration, agents.
  The transcript route reads the file before it takes its revision; see `hazards`.
* The fork stub, which makes nothing; `POST /modes`, which sets one field of the
  kernel's state; the module, context and validation routes, which call the kernel
  and keep nothing.  The context routes call the context without awaiting it.
* Event payloads and names, unused filter patterns, message contents, working
  directories, last-activity times.
* Providers, errors, request models and configuration: data without state.  Security
  filters, certificates, plugins, the CLI and the log of a run: one pass or one
  process, nothing that others read back.
* The kernel, the bundle registry, the web server and the disk appear through the
  outcomes the code handles.

PROJECT.json gives the reason component by component; hazards no property covers
have a note there.

## Plan

In order:

1. Abstract specifications still to write, with their refinements checked and
   proved: a durable map for the index (`SessionManager` under versions), an
   append-only transcript (`SessionFiles`, as long as `Linear`).
2. `Providers`: the merge of settings into a bundle's mount plan, as an operator
   beside a reference definition.
3. `DaemonRun`: creation and pruning of run directories beside running daemons.
