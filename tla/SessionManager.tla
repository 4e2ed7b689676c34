--------------------------- MODULE SessionManager ---------------------------
(***************************************************************************)
(* The registry of live sessions (state/session_manager.py) and the index  *)
(* it keeps of all sessions, in memory and in index.json                   *)
(* (state/session_index.py): create, resume, destroy, shutdown, and the    *)
(* death and restart of the daemon at any point.                           *)
(*                                                                         *)
(* What a coroutine does between two awaits is one action of the event     *)
(* loop.  SessionIndex.save() runs in a thread of its own: the loop keeps  *)
(* changing the index while a save is under way.                           *)
(*                                                                         *)
(* The kernel is external: opening a session may fail, and closing one may *)
(* be cancelled.  The disk may refuse a write; os.replace is atomic.       *)
(***************************************************************************)
EXTENDS Naturals, FiniteSets

CONSTANTS Ids,        \* session ids
          Calls,      \* the calls that may ever be made on the manager
          NoCall,     \* "no call"
          NoId,       \* "no session id"
          MaxCrashes  \* how often the daemon may die

ASSUME NoCallAssumption == NoCall \notin Calls
ASSUME NoIdAssumption == NoId \notin Ids
ASSUME MaxCrashesAssumption == MaxCrashes \in Nat

VARIABLES
    sessions,   \* SessionManager._sessions: each id's handle, named by the call
                \* that registered it, or NoCall
    kernel,     \* the kernel session each call opened: "none", "open", "closed"
    index,      \* SessionIndex._entries: status and version of each id's entry
    disk,       \* index.json: likewise
    diskExists, \* whether index.json is there at all
    dirs,       \* ids with a session directory
    saver,      \* the call whose thread holds SessionIndex._save_lock
    buffer,     \* the entries each call's save thread listed
    phase,      \* where each call is
    target,     \* the session each call works on
    made,       \* version of the entry that the call's own change produced
    shutdown,   \* SessionManager.shutdown(): "no", "running", "done"
    todo,       \* ids shutdown() has yet to destroy
    closer,     \* the call that is shutdown()'s latest destroy()
    doomed,     \* handles that were registered when shutdown() began
    crashes     \* how often the daemon has died

registry == <<sessions, kernel>>
store == <<disk, diskExists, saver, buffer>>
closing == <<shutdown, todo, closer, doomed>>
vars == <<registry, index, store, dirs, phase, target, made, closing, crashes>>

Pending == {"loading", "restoring", "saving", "writing", "cleaning"}
\* "exists": register() refused the id.  "lost": the daemon died meanwhile.
Settled == {"done", "failed", "exists", "missing", "lost"}

\* An entry's version counts its changes: it tells an older entry from a newer
\* one and is no part of the program.
Entry == [status : {"absent", "idle", "completed"}, ver : Nat]
Absent == [status |-> "absent", ver |-> 0]
NoEntries == [id \in Ids |-> Absent]

TypeOK ==
    /\ sessions \in [Ids -> Calls \cup {NoCall}]
    /\ kernel \in [Calls -> {"none", "open", "closed"}]
    /\ {index, disk} \subseteq [Ids -> Entry]
    /\ buffer \in [Calls -> [Ids -> Entry]]
    /\ diskExists \in BOOLEAN
    /\ dirs \subseteq Ids
    /\ saver \in Calls \cup {NoCall}
    /\ phase \in [Calls -> {"new"} \cup Pending \cup Settled]
    /\ target \in [Calls -> Ids \cup {NoId}]
    /\ made \in [Calls -> Nat]
    /\ shutdown \in {"no", "running", "done"}
    /\ todo \subseteq Ids
    /\ closer \in Calls \cup {NoCall}
    /\ doomed \subseteq Calls
    /\ crashes \in 0..MaxCrashes

\* What the constructor makes of the disk: index.json if it is there, otherwise
\* an entry for each session directory that has a metadata.json, which its
\* first turn writes.
Loaded(entries) ==
    IF diskExists THEN entries = disk
    ELSE \E described \in SUBSET dirs :
            entries = [id \in Ids |-> IF id \in described
                                      THEN [status |-> "completed", ver |-> 0] ELSE Absent]

\* A daemon that starts beside whatever earlier ones left on the disk.
Init ==
    /\ dirs \in SUBSET Ids
    /\ diskExists \in BOOLEAN
    /\ disk \in [Ids -> [status : {"absent", "idle", "completed"}, ver : {0}]]
    /\ ~diskExists => \A id \in Ids : disk[id] = Absent
    /\ index \in [Ids -> [status : {"absent", "idle", "completed"}, ver : {0}]]
    /\ Loaded(index)
    /\ sessions = [id \in Ids |-> NoCall]
    /\ kernel = [c \in Calls |-> "none"]
    /\ saver = NoCall
    /\ buffer = [c \in Calls |-> NoEntries]
    /\ phase = [c \in Calls |-> "new"]
    /\ target = [c \in Calls |-> NoId]
    /\ made = [c \in Calls |-> 0]
    /\ shutdown = "no"
    /\ todo = {}
    /\ closer = NoCall
    /\ doomed = {}
    /\ crashes = 0

Live(id) == sessions[id] # NoCall

MoveTo(c, p) == phase' = [phase EXCEPT ![c] = p]

\* Mutant: str() of a status that is an Enum member and not a string.
RecordMember(c, id, status) ==
    /\ index' = [index EXCEPT ![id] =
                   [status |-> IF status = "idle" THEN "SessionStatus.IDLE" ELSE status,
                    ver |-> @.ver + 1]]
    /\ made' = [made EXCEPT ![c] = index[id].ver + 1]
    /\ MoveTo(c, "saving")

\* c's call changes id's entry, and goes on to save the index.
Record(c, id, status) ==
    /\ index' = [index EXCEPT ![id] = [status |-> status, ver |-> @.ver + 1]]
    /\ made' = [made EXCEPT ![c] = index[id].ver + 1]
    /\ MoveTo(c, "saving")

\* SessionIndex.update() ignores an id it does not know.
Update(c, id, status) ==
    \/ index[id].status # "absent" /\ Record(c, id, status)
    \/ index[id].status = "absent" /\ MoveTo(c, "saving") /\ UNCHANGED <<index, made>>

\* What list_sessions() says: the live sessions, and of the others what the index
\* has.
Listing ==
    [id \in {i \in Ids : Live(i) \/ index[i].status # "absent"} |->
        IF Live(id) THEN "active" ELSE index[id].status]

\* The directory of id is looked for under the project its entry names, then under
\* all of them.
HasDirectory(id) == id \in dirs
-----------------------------------------------------------------------------
\* Mutant: register() without its test of the id.
RegisterUnchecked(c, id) ==
    /\ sessions' = [sessions EXCEPT ![id] = c]
    /\ Record(c, id, "idle")

\* Mutant: register() leaves the index to whoever destroys the session.
RegisterUnindexed(c, id) ==
    \/ /\ Live(id)
       /\ MoveTo(c, "exists")
       /\ UNCHANGED <<sessions, index, made>>
    \/ /\ ~Live(id)
       /\ sessions' = [sessions EXCEPT ![id] = c]
       /\ MoveTo(c, "saving")
       /\ UNCHANGED <<index, made>>

\* register() up to the await of its save, given a kernel session for id.
Register(c, id) ==
    \/ /\ Live(id)
       /\ MoveTo(c, "exists")
       /\ UNCHANGED <<sessions, index, made>>
    \/ /\ ~Live(id)
       /\ sessions' = [sessions EXCEPT ![id] = c]
       /\ Record(c, id, "idle")

\* create() starts: it may await a bundle's load and prepare, and always awaits
\* create_session().
Create(c) ==
    /\ phase[c] = "new"
    /\ MoveTo(c, "loading")
    /\ UNCHANGED <<registry, index, store, dirs, target, made, closing, crashes>>

\* The kernel session is there, with an id nobody has used: create() makes its
\* directory and registers it.
CreateRegister(c) ==
    /\ phase[c] = "loading" /\ target[c] = NoId
    /\ \E id \in Ids :
          /\ id \notin dirs /\ index[id].status = "absent"
          /\ \A d \in Calls : target[d] # id
          /\ target' = [target EXCEPT ![c] = id]
          /\ dirs' = dirs \cup {id}
          /\ Register(c, id)
    /\ kernel' = [kernel EXCEPT ![c] = "open"]
    /\ UNCHANGED <<store, closing, crashes>>

\* resume() up to its first await: an active session is handed back, and one
\* without a directory is a 404.
Resume(c, id) ==
    /\ phase[c] = "new"
    /\ \/ Live(id) /\ MoveTo(c, "done") /\ UNCHANGED target
       \/ ~Live(id) /\ ~HasDirectory(id) /\ MoveTo(c, "missing") /\ UNCHANGED target
       \/ /\ ~Live(id) /\ HasDirectory(id)
          /\ MoveTo(c, "loading")
          /\ target' = [target EXCEPT ![c] = id]
    /\ UNCHANGED <<registry, index, store, dirs, made, closing, crashes>>

\* create_session() returns to resume(), which goes on to await the transcript's
\* injection.
OpenKernel(c) ==
    /\ phase[c] = "loading" /\ target[c] # NoId
    /\ kernel' = [kernel EXCEPT ![c] = "open"]
    /\ MoveTo(c, "restoring")
    /\ UNCHANGED <<sessions, index, store, dirs, target, made, closing, crashes>>

\* The transcript is injected and resume() registers the session.
ResumeRegister(c) ==
    /\ phase[c] = "restoring"
    /\ Register(c, target[c])
    /\ UNCHANGED <<kernel, store, dirs, target, closing, crashes>>

\* Some step of create() or resume() before register() raises: the kernel
\* session, if it was open, is nobody's now.
OpenFails(c) ==
    /\ phase[c] \in {"loading", "restoring"}
    /\ MoveTo(c, "failed")
    /\ \/ UNCHANGED kernel
       \/ target[c] = NoId /\ kernel' = [kernel EXCEPT ![c] = "open"]
    /\ UNCHANGED <<sessions, index, store, dirs, target, made, closing, crashes>>
-----------------------------------------------------------------------------
\* Mutant: the handle is taken out of the registry after cleanup().
DestroyKeepRegistered(c, id) ==
    /\ phase[c] = "new"
    /\ Live(id)
    /\ target' = [target EXCEPT ![c] = id]
    /\ kernel' = [kernel EXCEPT ![sessions[id]] = "closed"]
    /\ MoveTo(c, "cleaning")
    /\ UNCHANGED <<sessions, index, store, dirs, made, crashes>>

\* destroy() up to the await of cleanup(), for a handle that is there: nothing
\* suspends between the route's 404 test and the pop.  cleanup() begins at once.
Destroy(c, id) ==
    /\ phase[c] = "new"
    /\ Live(id)
    /\ target' = [target EXCEPT ![c] = id]
    /\ sessions' = [sessions EXCEPT ![id] = NoCall]
    /\ kernel' = [kernel EXCEPT ![sessions[id]] = "closed"]
    /\ MoveTo(c, "cleaning")
    /\ UNCHANGED <<index, store, dirs, made, crashes>>

\* cleanup() returns, even if the kernel raised, and the index is told; or it is
\* cancelled, and destroy() with it.
CleanupEnds(c) ==
    /\ phase[c] = "cleaning"
    /\ \/ Update(c, target[c], "completed")
       \/ /\ MoveTo(c, "failed")
          /\ UNCHANGED <<index, made>>
    /\ UNCHANGED <<registry, store, dirs, target, closing, crashes>>

\* DELETE of a session that is not live.
DestroyMissing(c, id) ==
    /\ phase[c] = "new"
    /\ ~Live(id)
    /\ MoveTo(c, "missing")
    /\ UNCHANGED <<registry, index, store, dirs, target, made, closing, crashes>>
-----------------------------------------------------------------------------
\* Mutant: save() takes its snapshot before it takes the lock.
SaveBeginUnlocked(c) ==
    /\ phase[c] = "saving"
    /\ saver' = c
    /\ buffer' = [buffer EXCEPT ![c] = index]
    /\ MoveTo(c, "writing")
    /\ UNCHANGED <<registry, index, disk, diskExists, dirs, target, made, closing, crashes>>

\* c's save thread takes the lock and lists the entries.
SaveBegin(c) ==
    /\ phase[c] = "saving"
    /\ saver = NoCall
    /\ saver' = c
    /\ buffer' = [buffer EXCEPT ![c] = index]
    /\ MoveTo(c, "writing")
    /\ UNCHANGED <<registry, index, disk, diskExists, dirs, target, made, closing, crashes>>

\* Mutant: a save that fails keeps the lock.
SaveEndKeepLock(c) ==
    /\ phase[c] = "writing"
    /\ \/ /\ disk' = buffer[c]
          /\ diskExists' = TRUE
          /\ saver' = NoCall
          /\ MoveTo(c, "done")
       \/ /\ MoveTo(c, "failed")
          /\ UNCHANGED <<disk, diskExists, saver>>
    /\ buffer' = [buffer EXCEPT ![c] = NoEntries]
    /\ UNCHANGED <<registry, index, dirs, target, made, closing, crashes>>

\* Mutant: a write that fails is not reported.
SaveEndSwallow(c) ==
    /\ phase[c] = "writing"
    /\ saver' = NoCall
    /\ MoveTo(c, "done")
    /\ \/ disk' = buffer[c] /\ diskExists' = TRUE
       \/ UNCHANGED <<disk, diskExists>>
    /\ buffer' = [buffer EXCEPT ![c] = NoEntries]
    /\ UNCHANGED <<registry, index, dirs, target, made, closing, crashes>>

\* The thread replaces index.json, or fails and leaves it alone.  It reads an
\* entry at some point after it listed it: an update made since may be in.  The
\* call it serves may have been cancelled, which does not stop the thread.
SaveEnd(c) ==
    /\ phase[c] = "writing"
    /\ saver' = NoCall
    /\ \/ /\ \E seen \in SUBSET {id \in Ids : buffer[c][id].status # "absent"} :
                disk' = [id \in Ids |-> IF id \in seen THEN index[id] ELSE buffer[c][id]]
          /\ diskExists' = TRUE
          /\ MoveTo(c, "done") \/ MoveTo(c, "failed")
       \/ /\ MoveTo(c, "failed")
          /\ UNCHANGED <<disk, diskExists>>
    /\ buffer' = [buffer EXCEPT ![c] = NoEntries]
    /\ UNCHANGED <<registry, index, dirs, target, made, closing, crashes>>
-----------------------------------------------------------------------------
\* shutdown() lists the sessions that are live.
ShutdownBegin ==
    /\ shutdown = "no"
    /\ shutdown' = "running"
    /\ todo' = {id \in Ids : Live(id)}
    /\ doomed' = {sessions[id] : id \in {i \in Ids : Live(i)}}
    /\ UNCHANGED <<registry, index, store, dirs, phase, target, made, closer, crashes>>

\* shutdown() awaits each destroy() before the next; a destroy() that fails or is
\* cancelled does not stop it.
ReadyToClose == shutdown = "running" /\ (closer # NoCall => phase[closer] \in Settled)

\* The next session goes.
ShutdownDestroy(c, id) ==
    /\ ReadyToClose
    /\ id \in todo
    /\ Destroy(c, id)
    /\ todo' = todo \ {id}
    /\ closer' = c
    /\ UNCHANGED <<shutdown, doomed>>

\* Somebody else destroyed it in the meantime.
ShutdownSkip(id) ==
    /\ ReadyToClose
    /\ id \in todo /\ ~Live(id)
    /\ todo' = todo \ {id}
    /\ UNCHANGED <<registry, index, store, dirs, phase, target, made, shutdown, closer,
                   doomed, crashes>>

\* Mutant: a destroy() that failed ends the loop.
ShutdownEndEarly ==
    /\ ReadyToClose
    /\ todo = {} \/ (closer # NoCall /\ phase[closer] = "failed")
    /\ shutdown' = "done"
    /\ UNCHANGED <<registry, index, store, dirs, phase, target, made, todo, closer,
                   doomed, crashes>>

\* shutdown() returns or, if it was cancelled on the way, raises.
ShutdownEnd ==
    /\ ReadyToClose
    /\ todo = {}
    /\ shutdown' = "done"
    /\ UNCHANGED <<registry, index, store, dirs, phase, target, made, todo, closer,
                   doomed, crashes>>

\* The process ends, at any point, and another one starts: the disk is what it
\* keeps, and calls under way are answered by nobody.
Restart ==
    /\ crashes < MaxCrashes
    /\ crashes' = crashes + 1
    /\ \E entries \in {disk} \cup [Ids -> {Absent, [status |-> "completed", ver |-> 0]}] :
          Loaded(entries) /\ index' = entries
    /\ sessions' = [id \in Ids |-> NoCall]
    /\ kernel' = [c \in Calls |-> IF kernel[c] = "open" THEN "closed" ELSE kernel[c]]
    /\ phase' = [c \in Calls |-> IF phase[c] \in Pending THEN "lost" ELSE phase[c]]
    /\ saver' = NoCall
    /\ buffer' = [c \in Calls |-> NoEntries]
    /\ shutdown' = "no" /\ todo' = {} /\ closer' = NoCall /\ doomed' = {}
    /\ UNCHANGED <<disk, diskExists, dirs, target, made>>

CallStep(c) ==
    \/ Create(c)
    \/ CreateRegister(c)
    \/ OpenKernel(c)
    \/ ResumeRegister(c)
    \/ OpenFails(c)
    \/ CleanupEnds(c)
    \/ SaveBegin(c)
    \/ SaveEnd(c)
    \/ \E id \in Ids :
          \/ Resume(c, id)
          \/ Destroy(c, id) /\ UNCHANGED closing
          \/ DestroyMissing(c, id)
          \/ ShutdownDestroy(c, id)

Next ==
    \/ \E c \in Calls : CallStep(c)
    \/ ShutdownBegin
    \/ \E id \in Ids : ShutdownSkip(id)
    \/ ShutdownEnd
    \/ Restart

Spec == Init /\ [][Next]_vars

\* The event loop and the thread pool run what they were given, and the kernel
\* is assumed to answer, well or badly.  Nobody is obliged to call.
Fairness ==
    \A c \in Calls :
        /\ WF_vars(CreateRegister(c) \/ OpenKernel(c) \/ OpenFails(c))
        /\ WF_vars(ResumeRegister(c) \/ OpenFails(c))
        /\ WF_vars(CleanupEnds(c))
        /\ WF_vars(SaveBegin(c))
        /\ WF_vars(SaveEnd(c))

FairSpec == Spec /\ Fairness
-----------------------------------------------------------------------------
\* What a call that was answered changed in the index is in index.json, in this
\* form or a later one, and stays there when the daemon dies: each save lists
\* the entries under the lock, so none writes less than it was asked to
\* (session_index.py:57-70, session_manager.py:159-172, 487-490).
AnsweredChangesAreDurable ==
    \A c \in Calls :
        phase[c] = "done" /\ made[c] # 0 => disk[target[c]].ver >= made[c]

\* index.json never goes back to an older state of an entry, although several
\* threads write it while the loop changes the entries (session_index.py:58-70).
DiskNeverGoesBack == [][\A id \in Ids : disk[id].ver <= disk'[id].ver]_vars

\* A live handle is never replaced by another one: of two resumes that both saw
\* the session inactive, the later register() gives way (session_manager.py:148).
HandleNeverReplaced ==
    [][\A id \in Ids : Live(id) => sessions'[id] \in {sessions[id], NoCall}]_vars

\* A handle that requests can reach has not been cleaned up: destroy() takes it
\* out before it awaits the cleanup (session_manager.py:483-487).
LiveHandlesAreOpen == \A id \in Ids : Live(id) => kernel[sessions[id]] = "open"

\* A session that GET /sessions lists is listed from then on, live or not, by what
\* the index has of it, unless the daemon dies: whatever becomes of a session that
\* was registered, its id can still be found to be resumed (session_manager.py:
\* 159-172, 187-220, 483-489).
ListingLosesNone ==
    [][crashes' = crashes => DOMAIN Listing \subseteq DOMAIN Listing']_vars

\* After shutdown() no session that was live when it began is, also when the
\* destruction of some failed or somebody else destroyed others
\* (session_manager.py:495-507).
ShutdownLeavesNone == shutdown = "done" => \A id \in Ids : sessions[id] \notin doomed

\* Every call is answered, unless the daemon dies: saves do not block each other
\* for ever, however they end (session_index.py:58, 71-80).
CallsSettle == \A c \in Calls : phase[c] \in Pending ~> phase[c] \in Settled
=============================================================================
