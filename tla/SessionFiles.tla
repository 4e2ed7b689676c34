---------------------------- MODULE SessionFiles ----------------------------
(***************************************************************************)
(* What is kept of one session on disk: transcript.jsonl and metadata.json *)
(* (persistence.py), written by the hooks of its turns, by PATCH           *)
(* (routes/sessions.py), and read back by SessionManager.resume().         *)
(*                                                                         *)
(* The id lives several lives: create() makes the first, each resume       *)
(* another, each with a kernel session, a context and hooks of its own.    *)
(* Every file operation is made in a worker thread and awaited, and a      *)
(* thread that has begun goes on when who awaits it is cancelled.  A       *)
(* transcript is replaced whole; metadata is read, merged and written      *)
(* back, and other threads may write in between.                           *)
(*                                                                         *)
(* The kernel is external: during a turn it adds messages, compacts them   *)
(* and emits tool:post when it likes, several at once for parallel tools.  *)
(* It waits for those handlers before it adds the answer and emits         *)
(* orchestrator:complete; a turn that raises or is cancelled does not wait *)
(* for anything, and its tools may go on beside the next turn.             *)
(*                                                                         *)
(* A context is the set of its messages: each is said once, and nothing    *)
(* here depends on their order.                                            *)
(***************************************************************************)
EXTENDS Naturals, FiniteSets

CONSTANTS First,          \* the life create() made
          Resumes,        \* the lives that POST /resume may make
          MaxTurns,       \* the prompts that may come
          Steps,          \* what a turn may say between prompt and answer
          Unwritable,     \* messages that json.dumps refuses
          Torn,           \* messages with a line separator other than the newline
          Patches,        \* the PATCH requests that may come
          PatchKeys,      \* what they may change: "name", "directory"
          Nobody,         \* "no life"
          MaxTools,       \* threads of tool:post handlers at the same time
          MaxDisturbances \* PATCH requests and mishaps: compactions, turns that raise or
                          \* are cancelled, failed writes, deaths of the daemon

ASSUME FirstAssumption == First \notin Resumes
ASSUME NobodyAssumption == Nobody \notin Resumes \cup {First}
ASSUME StepsAssumption == IsFiniteSet(Steps) /\ {"prompt", "answer"} \cap Steps = {}
ASSUME KeysAssumption == PatchKeys \subseteq {"name", "directory"}
ASSUME BoundsAssumption == {MaxTurns, MaxTools, MaxDisturbances} \subseteq Nat

\* Turns have the numbers in which their prompts come.
Turns == 1..MaxTurns
ASSUME WritersAssumption == Patches \cap Turns = {}

Lives == {First} \cup Resumes
Message == Turns \X (Steps \cup {"prompt", "answer"})

\* A prompt is the string of a JSON request.
ASSUME UnwritableAssumption ==
    Unwritable \subseteq Message /\ \A t \in Turns : <<t, "prompt">> \notin Unwritable
ASSUME TornAssumption == Torn \subseteq Message

\* What comes back whole when it is written and loaded.
Plain == Message \ (Unwritable \cup Torn)

\* A save is made by a handler of tool:post, or by that of orchestrator:complete.
EndOfTurn == 0
Saves == Turns \X (0..MaxTools)

\* metadata.json is written by the hook at a turn's end and by PATCH requests.
Writers == Turns \cup Patches

VARIABLES
    current,    \* SessionManager._sessions: the life the id has, or Nobody
    life,       \* each life's way through create() or resume(), DELETE and death
    context,    \* the kernel's context: the messages that are not the system's
    lastCount,  \* TranscriptSaveHook._last_count
    initial,    \* MetadataSaveHook._initial_metadata: what is still to be written
    runner,     \* the life that runs each turn, or Nobody
    stage,      \* of each turn: the kernel's, or in the hooks at its end
    save,       \* the snapshot each save writes, or {}
    written,    \* the saves whose thread is through and whose handler is not
    left,       \* those whose handler was cancelled and whose thread goes on
    transcript, \* transcript.jsonl, or {} when there is none
    writer,     \* where each write of metadata is
    update,     \* what it merges in
    base,       \* what it has read
    meta,       \* metadata.json
    patched,    \* for each key the last PATCH that was answered, by key
    kept,       \* turns that ended with their transcript saved, or up to date
    settled,    \* lives whose latest turn is among them
    owner,      \* the life that was registered last
    late,       \* transcript.jsonl is what a thread wrote that its turn had not waited for
    deserted,   \* a turn raised or was cancelled, or one of its tools was
    forked,     \* another life than the owner wrote, or the owner began behind
    raced,      \* metadata was written by who had read an older one
    compacted,  \* a context was compacted
    failed,     \* a write failed, was dropped, or died with the daemon
    mishaps

session == <<current, life, context, lastCount, runner, stage>>
saving == <<save, written, left, transcript, late>>
patching == <<writer, update, base, meta, patched, raced>>
ghosts == <<kept, settled, owner, deserted, forked, compacted>>
vars == <<session, initial, saving, patching, ghosts, failed, mishaps>>

Keys == {"bundle", "directory", "name", "turns"}
Empty == [k \in {} |-> 0]
Value(k) == CASE k = "turns" -> 0..MaxTurns
              [] k = "name" -> Patches
              [] OTHER -> {"asked"} \cup Patches
IsMetadata(f) == DOMAIN f \subseteq Keys /\ \A k \in DOMAIN f : f[k] \in Value(k)

\* The turn is the one its life runs: the life is busy.
Running == {"working", "saving", "describing"}
Idle(l) == \A t \in Turns : runner[t] = l => stage[t] \notin Running

TypeOK ==
    /\ current \in Lives \cup {Nobody} /\ owner \in Lives
    /\ life \in [Lives -> {"none", "building", "live", "deleted", "over"}]
    /\ context \in [Lives -> SUBSET Message]
    /\ lastCount \in [Lives -> Nat]
    /\ \A l \in Lives : life[l] = "live" <=> current = l
    /\ {initial, late, deserted, forked, raced, failed, compacted} \subseteq BOOLEAN
    /\ runner \in [Turns -> Lives \cup {Nobody}]
    /\ stage \in [Turns -> Running \cup {"none", "left", "over"}]
    /\ \A t \in Turns : stage[t] = "none" <=> runner[t] = Nobody
    /\ save \in [Saves -> SUBSET Message]
    /\ written \cup left \subseteq {s \in Saves : save[s] # {}} /\ written \cap left = {}
    /\ transcript \subseteq Message
    /\ writer \in [Writers -> {"none", "reading", "writing", "done"}]
    /\ \A w \in Writers : IsMetadata(update[w]) /\ IsMetadata(base[w])
    /\ IsMetadata(meta) /\ IsMetadata(patched)
    /\ kept \subseteq Turns /\ settled \subseteq Lives

Init ==
    /\ current = First /\ owner = First
    /\ life = [l \in Lives |-> IF l = First THEN "live" ELSE "none"]
    /\ context = [l \in Lives |-> {}]
    /\ lastCount = [l \in Lives |-> 0]
    /\ initial = TRUE
    /\ runner = [t \in Turns |-> Nobody]
    /\ stage = [t \in Turns |-> "none"]
    /\ save = [s \in Saves |-> {}]
    /\ written = {} /\ left = {} /\ transcript = {}
    /\ writer = [w \in Writers |-> "none"]
    /\ update = [w \in Writers |-> Empty]
    /\ base = [w \in Writers |-> Empty]
    /\ meta = Empty /\ patched = Empty
    /\ kept = {} /\ settled = {}
    /\ late = FALSE /\ deserted = FALSE /\ forked = FALSE /\ raced = FALSE
    /\ compacted = FALSE /\ failed = FALSE /\ mishaps = 0

Disturbances == mishaps + Cardinality({p \in Patches : writer[p] # "none"})
Mishap == Disturbances < MaxDisturbances /\ mishaps' = mishaps + 1

\* Mutant: what is not updated is dropped.
MergeNothing(old, new) == new

\* write_metadata(): {**existing, **metadata}.
Merge(old, new) ==
    [k \in DOMAIN old \cup DOMAIN new |-> IF k \in DOMAIN new THEN new[k] ELSE old[k]]

Prompts(messages) == {t \in Turns : <<t, "prompt">> \in messages}

\* The kernel has the answer of t.
Answered(t) == <<t, "answer">> \in context[runner[t]]

\* The saves of tool:post that t has to wait for.
Awaited(t) == {s \in Saves : s[1] = t /\ s[2] # EndOfTurn /\ save[s] # {} /\ s \notin left}
-----------------------------------------------------------------------------
\* A prompt on the session that is live and not busy: the kernel takes it into
\* the context.
Prompt(l, t) ==
    /\ current = l /\ Idle(l)
    /\ stage[t] = "none" /\ \A u \in 1..(t - 1) : stage[u] # "none"
    /\ runner' = [runner EXCEPT ![t] = l]
    /\ stage' = [stage EXCEPT ![t] = "working"]
    /\ context' = [context EXCEPT ![l] = @ \cup {<<t, "prompt">>}]
    /\ settled' = settled \ {l}
    /\ UNCHANGED <<current, life, lastCount, initial, saving, patching, kept, owner,
                   deserted, forked, compacted, failed, mishaps>>

\* The kernel adds a message to the context: a tool call or a tool's result.
Say(t, part) ==
    /\ stage[t] = "working" /\ ~Answered(t)
    /\ context' = [context EXCEPT ![runner[t]] = @ \cup {<<t, part>>}]
    /\ UNCHANGED <<current, life, lastCount, runner, stage, initial, saving, patching, ghosts,
                   failed, mishaps>>

\* The answer, when the handlers of tool:post are through.
Answer(t) == Awaited(t) = {} /\ Say(t, "answer")

\* The kernel compacts the context: of what was said, this turn's is left.
Compact(t) ==
    /\ stage[t] = "working" /\ Mishap
    /\ context' = [context EXCEPT ![runner[t]] = {m \in @ : m[1] = t}]
    /\ compacted' = TRUE
    /\ UNCHANGED <<current, life, lastCount, runner, stage, initial, saving, patching, kept,
                   settled, owner, deserted, forked, failed>>

\* Mutant: one message is not worth a save.
HasManyNews(l) == Cardinality(context[l]) > lastCount[l] + 1

\* The debounce of TranscriptSaveHook.
HasNews(l) == Cardinality(context[l]) > lastCount[l]

\* A handler of tool:post, a tick later: it reads the context and gives what it
\* read to a thread, unless there is nothing new.
ToolPost(s) ==
    LET t == s[1] IN
    /\ s[2] # EndOfTurn
    /\ \A i \in 1..s[2] : save[<<t, i>>] = {} <=> i = s[2]
    /\ Cardinality({i \in Saves : i[2] # EndOfTurn /\ save[i] # {}}) < MaxTools
    /\ stage[t] \in {"working", "left"} /\ (stage[t] = "working" => ~Answered(t))
    /\ HasNews(runner[t])
    /\ save' = [save EXCEPT ![s] = context[runner[t]]]
    /\ UNCHANGED <<session, initial, written, left, transcript, late, patching, ghosts, failed,
                   mishaps>>

\* What MetadataSaveHook takes along the first time.
Asked == [k \in {"bundle", "directory"} |-> "asked"]

\* Mutant: every message of the context counts as a turn.
DescribeMessages(t) ==
    /\ writer' = [writer EXCEPT ![t] = "reading"]
    /\ update' = [update EXCEPT ![t] = [k \in {"turns"} |-> Cardinality(context[runner[t]])]]
    /\ initial' = (initial /\ runner[t] # First)
    /\ stage' = [stage EXCEPT ![t] = "describing"]

\* MetadataSaveHook up to its thread: it counts the turns of the context and, the
\* first time, takes the initial metadata along.
Describe(t) ==
    LET turns == [k \in {"turns"} |-> Cardinality(Prompts(context[runner[t]]))]
        taken == runner[t] = First /\ initial
    IN  /\ writer' = [writer EXCEPT ![t] = "reading"]
        /\ update' = [update EXCEPT ![t] = IF taken THEN Merge(Asked, turns) ELSE turns]
        /\ initial' = (initial /\ ~taken)
        /\ stage' = [stage EXCEPT ![t] = "describing"]

\* The transcript's handler is through and that of the metadata begins.
TranscriptKept(t) ==
    /\ Describe(t)
    /\ kept' = kept \cup {t}
    /\ settled' = settled \cup {runner[t]}

\* Mutant: the handler of the transcript is registered for tool:post only.
CompleteUnsaved(t) ==
    /\ stage[t] = "working" /\ Answered(t)
    /\ Describe(t)
    /\ UNCHANGED <<current, life, context, lastCount, runner, saving, base, meta, patched,
                   raced, ghosts, failed, mishaps>>

\* The kernel emits orchestrator:complete: the handler of the transcript saves what
\* is new, and that of the metadata follows.
Complete(t) ==
    /\ stage[t] = "working" /\ Answered(t)
    /\ \/ /\ HasNews(runner[t])
          /\ save' = [save EXCEPT ![<<t, EndOfTurn>>] = context[runner[t]]]
          /\ stage' = [stage EXCEPT ![t] = "saving"]
          /\ UNCHANGED <<writer, update, initial, kept, settled>>
       \/ /\ ~HasNews(runner[t])
          /\ TranscriptKept(t)
          /\ UNCHANGED save
    /\ UNCHANGED <<current, life, context, lastCount, runner, written, left, transcript, late,
                   base, meta, patched, raced, owner, deserted, forked, compacted, failed,
                   mishaps>>

\* What happens to the turn t is nobody's care any more.
Desert == deserted' = TRUE /\ Mishap /\ UNCHANGED <<kept, settled, owner, forked, compacted>>

\* The kernel's run raises, or is cancelled, before that: nobody is told, and tools
\* that run beside it may go on.
Raise(t) ==
    /\ stage[t] = "working"
    /\ stage' = [stage EXCEPT ![t] = "left"]
    /\ Desert
    /\ UNCHANGED <<current, life, context, lastCount, runner, initial, saving, patching, failed>>

\* The handler that awaits a save is cancelled, which `except Exception` lets pass: the
\* count stays what it was and nothing follows.  A thread that is writing goes on; one
\* that has not begun never does.
HandlerCancelled(s) ==
    \/ /\ s \notin written
       /\ left' = left \cup {s}
       /\ UNCHANGED <<save, written>>
    \/ /\ save' = [save EXCEPT ![s] = {}]
       /\ written' = written \ {s}
       /\ UNCHANGED left

\* A tool is cancelled, with its turn, after it or without it.
ToolCancelled(s) ==
    /\ s \in Awaited(s[1])
    /\ HandlerCancelled(s)
    /\ Desert
    /\ UNCHANGED <<session, initial, transcript, late, patching, failed>>

\* The turn is cancelled while the transcript's handler awaits its save.
CancelSaving(t) ==
    /\ stage[t] = "saving"
    /\ stage' = [stage EXCEPT ![t] = "over"]
    /\ HandlerCancelled(<<t, EndOfTurn>>)
    /\ Desert
    /\ UNCHANGED <<current, life, context, lastCount, runner, initial, transcript, late,
                   patching, failed>>

\* The turn is cancelled while that of the metadata awaits its write.
CancelDescribing(t) ==
    /\ stage[t] = "describing"
    /\ stage' = [stage EXCEPT ![t] = "over"]
    /\ \/ UNCHANGED <<writer, update, failed>>
       \/ /\ writer[t] = "reading"
          /\ writer' = [writer EXCEPT ![t] = "none"]
          /\ update' = [update EXCEPT ![t] = Empty]
          /\ failed' = TRUE
    /\ Desert
    /\ UNCHANGED <<current, life, context, lastCount, runner, initial, saving, base, meta,
                   patched, raced>>
-----------------------------------------------------------------------------
\* A thread that its turn has not waited for, or does not wait for any more.
Late(s) == s \in left \/ stage[s[1]] # IF s[2] = EndOfTurn THEN "saving" ELSE "working"

\* The thread is through, and its handler, if there still is one, is not.
ThreadDone(s) ==
    IF s \in left
    THEN left' = left \ {s} /\ save' = [save EXCEPT ![s] = {}] /\ UNCHANGED written
    ELSE written' = written \cup {s} /\ UNCHANGED <<save, left>>

\* Mutant: the file is replaced by the messages that are new.
WriteNews(s) ==
    /\ save[s] # {} /\ s \notin written
    /\ transcript' = (save[s] \ transcript) \ Unwritable
    /\ late' = Late(s)
    /\ forked' = (forked \/ runner[s[1]] # owner)
    /\ ThreadDone(s)
    /\ UNCHANGED <<session, initial, patching, kept, settled, owner, deserted, compacted, failed,
                   mishaps>>

\* write_transcript() in its thread: messages that cannot be serialized are skipped.
Write(s) ==
    /\ save[s] # {} /\ s \notin written
    /\ transcript' = save[s] \ Unwritable
    /\ late' = Late(s)
    /\ forked' = (forked \/ runner[s[1]] # owner)
    /\ ThreadDone(s)
    /\ UNCHANGED <<session, initial, patching, kept, settled, owner, deserted, compacted, failed,
                   mishaps>>

\* The handler goes on after its thread; it counts the messages it had, skipped or not.
Saved(s) ==
    LET t == s[1] IN
    /\ s \in written
    /\ written' = written \ {s}
    /\ save' = [save EXCEPT ![s] = {}]
    /\ lastCount' = [lastCount EXCEPT ![runner[t]] = Cardinality(save[s])]
    /\ IF s[2] = EndOfTurn
       THEN TranscriptKept(t)
       ELSE UNCHANGED <<writer, update, initial, stage, kept, settled>>
    /\ UNCHANGED <<current, life, context, runner, left, transcript, late, base, meta, patched,
                   raced, owner, deserted, forked, compacted, failed, mishaps>>

\* The write fails: it is logged, the count stays what it was, and the metadata's
\* handler follows.
SaveFails(s) ==
    /\ save[s] # {} /\ s \notin written \cup left /\ Mishap
    /\ save' = [save EXCEPT ![s] = {}]
    /\ failed' = TRUE
    /\ IF s[2] = EndOfTurn
       THEN Describe(s[1])
       ELSE UNCHANGED <<writer, update, initial, stage>>
    /\ UNCHANGED <<current, life, context, lastCount, runner, written, left, transcript, late,
                   base, meta, patched, raced, ghosts>>

\* PATCH of the name or of the directory, on a session that is live or only on disk.
Patch(p, k) ==
    /\ writer[p] = "none" /\ Disturbances < MaxDisturbances
    /\ writer' = [writer EXCEPT ![p] = "reading"]
    /\ update' = [update EXCEPT ![p] = [j \in {k} |-> p]]
    /\ UNCHANGED <<session, initial, saving, base, meta, patched, raced, ghosts, failed, mishaps>>

\* PATCH of the metadata as a whole.
UpdateMetadata(p, k) == Patch(p, k)

\* write_metadata() in its thread reads what there is.
ReadMeta(w) ==
    /\ writer[w] = "reading"
    /\ writer' = [writer EXCEPT ![w] = "writing"]
    /\ base' = [base EXCEPT ![w] = meta]
    /\ UNCHANGED <<session, initial, saving, update, meta, patched, raced, ghosts, failed, mishaps>>

\* The write is over: a PATCH is answered, and the turn whose hook awaits it ends.
WriterDone(w) ==
    /\ writer' = [writer EXCEPT ![w] = IF w \in Patches THEN "done" ELSE "none"]
    /\ update' = [update EXCEPT ![w] = Empty]
    /\ base' = [base EXCEPT ![w] = Empty]
    /\ stage' = [t \in Turns |-> IF t = w THEN "over" ELSE stage[t]]

\* A PATCH that was written is answered.
PatchAnswered(w) == patched' = IF w \in Patches THEN Merge(patched, update[w]) ELSE patched

\* It writes the merged metadata.
WriteMeta(w) ==
    /\ writer[w] = "writing"
    /\ meta' = Merge(base[w], update[w])
    /\ PatchAnswered(w)
    /\ raced' = (raced \/ base[w] # meta)
    /\ WriterDone(w)
    /\ UNCHANGED <<current, life, context, lastCount, runner, initial, saving, ghosts, failed,
                   mishaps>>

\* It fails: a hook logs it, a PATCH is told 500.
MetaFails(w) ==
    /\ writer[w] \in {"reading", "writing"} /\ Mishap
    /\ failed' = TRUE
    /\ WriterDone(w)
    /\ UNCHANGED <<current, life, context, lastCount, runner, initial, saving, meta, patched,
                   raced, ghosts>>
-----------------------------------------------------------------------------
\* DELETE, or shutdown: a turn under way goes on.
Delete ==
    /\ current # Nobody
    /\ life' = [life EXCEPT ![current] = "deleted"]
    /\ current' = Nobody
    /\ UNCHANGED <<context, lastCount, runner, stage, initial, saving, patching, ghosts, failed,
                   mishaps>>

\* load_transcript() raises if there is no file.
HasTranscript == transcript # {}

\* What load_transcript() finds: the pieces of a torn line do not parse.  The results that
\* resume() makes up for tool calls without one are left out: they come on top.
Loaded == transcript \ Torn

\* POST /resume of a session that is not live reads its transcript, if there is
\* one; then its metadata; then it builds a session and puts the transcript into
\* its context.
Resume(r) ==
    /\ life[r] = "none"
    /\ current = Nobody
    /\ HasTranscript
    /\ life' = [life EXCEPT ![r] = "building"]
    /\ context' = [context EXCEPT ![r] = Loaded]
    /\ UNCHANGED <<current, lastCount, runner, stage, initial, saving, patching, ghosts, failed,
                   mishaps>>

\* register() takes the new session, unless the id is live by now: then nobody has
\* the session and it writes nothing.
Register(r) ==
    /\ life[r] = "building" /\ current = Nobody
    /\ current' = r /\ owner' = r
    /\ life' = [life EXCEPT ![r] = "live"]
    /\ forked' = (forked \/ late \/ context[r] # Loaded)
    /\ UNCHANGED <<context, lastCount, runner, stage, initial, saving, patching, kept, settled,
                   deserted, compacted, failed, mishaps>>

\* The daemon dies, and another is started.
Crash ==
    /\ Mishap
    /\ current' = Nobody
    /\ life' = [l \in Lives |-> IF life[l] = "none" THEN "none" ELSE "over"]
    /\ context' = [l \in Lives |-> {}]
    /\ lastCount' = [l \in Lives |-> 0]
    /\ stage' = [t \in Turns |-> IF stage[t] = "none" THEN "none" ELSE "over"]
    /\ save' = [s \in Saves |-> {}]
    /\ written' = {} /\ left' = {}
    /\ writer' = [w \in Writers |-> IF w \in Turns \/ writer[w] = "none" THEN "none" ELSE "done"]
    /\ update' = [w \in Writers |-> Empty]
    /\ base' = [w \in Writers |-> Empty]
    /\ failed' = (failed \/ \E w \in Writers : writer[w] \in {"reading", "writing"})
    /\ UNCHANGED <<runner, initial, transcript, late, meta, patched, raced, ghosts>>

Next ==
    \/ \E l \in Lives, t \in Turns : Prompt(l, t)
    \/ \E t \in Turns, part \in Steps : Say(t, part)
    \/ \E t \in Turns : \/ Answer(t) \/ Compact(t) \/ Complete(t) \/ Raise(t)
                        \/ CancelSaving(t) \/ CancelDescribing(t)
    \/ \E s \in Saves : ToolPost(s) \/ ToolCancelled(s) \/ Write(s) \/ Saved(s) \/ SaveFails(s)
    \/ \E p \in Patches, k \in PatchKeys : Patch(p, k) \/ UpdateMetadata(p, k)
    \/ \E w \in Writers : ReadMeta(w) \/ WriteMeta(w) \/ MetaFails(w)
    \/ \E r \in Resumes : Resume(r) \/ Register(r)
    \/ Delete \/ Crash

Spec == Init /\ [][Next]_vars
-----------------------------------------------------------------------------
\* One life at a time has the session, and no compaction has thrown messages away.
Linear == ~forked /\ ~compacted

\* A turn whose last save is over, or was not needed, is never lost, whatever overlapping
\* saves, cancellations, failing disks, deaths and resumes follow: prompt and answer are
\* in the context of the session that is live, unless they cannot be written or are torn,
\* and in the file, as long as that is not what a thread put there whose turn had raised
\* or was cancelled (persistence.py:50-80, 101-118, 148-173).
AnsweredTurnsStay ==
    Linear => \A t \in kept : LET said == {<<t, "prompt">>, <<t, "answer">>} \cap Plain IN
                  /\ ~late => said \subseteq transcript
                  /\ current # Nobody => said \subseteq context[current]

\* Between turns, when the hook of the last one was content, the file is all that can be
\* written of the session's context: the debounce does not skip what is not on disk.  Only
\* a thread can spoil that which wrote although nobody waited for it any more, and none
\* does unless a turn raised, or a turn or a tool was cancelled (persistence.py:157-173).
QuietTranscriptIsCurrent ==
    /\ Linear /\ ~late /\ current \in settled => transcript = context[current] \ Unwritable
    /\ late => deserted

\* metadata.json does not count turns that transcript.jsonl does not have, also when the
\* daemon dies between the two or a turn is cancelled there.  A write that failed, a torn
\* prompt and a thread that a turn left behind may part them (persistence.py:193-213,
\* 249-261).
TurnsCountedAreOnDisk ==
    Linear /\ ~late /\ ~failed /\ Torn \cap (Turns \X {"prompt"}) = {} /\ "turns" \in DOMAIN meta =>
        meta["turns"] <= Cardinality(Prompts(transcript))

\* While no two writers of metadata overlap and none fails or is dropped, what the bundle
\* was is on disk after the first turn, and the name is the last that was answered
\* (persistence.py:83-98, 209-213).
MetadataMerges ==
    ~raced /\ ~failed =>
        /\ ~initial /\ (\A t \in Turns : writer[t] = "none") => "bundle" \in DOMAIN meta
        /\ "name" \in DOMAIN patched =>
               "name" \in DOMAIN meta /\ meta["name"] = patched["name"]

\* Claimed by sessions.py:214, "Persist name and/or working_dir to
\* metadata.json on disk": a directory that was PATCHed stays until the next.
DirectorySticks ==
    ~raced /\ ~failed /\ "directory" \in DOMAIN patched =>
        meta["directory"] = patched["directory"]
=============================================================================
