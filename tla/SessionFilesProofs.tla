------------------------- MODULE SessionFilesProofs -------------------------
(***************************************************************************)
(* For any numbers of turns, resumes and PATCH requests, of parallel tools *)
(* and of mishaps, whatever cannot be written or is torn: the safety       *)
(* invariants of SessionFiles.                                             *)
(***************************************************************************)
EXTENDS SessionFiles, FiniteSetTheorems, TLAPS

\* A life whose kernel session is there.
Open(l) == life[l] \in {"live", "deleted"}
LastSave(t) == <<t, EndOfTurn>>

\* What of the turn t must not be lost.
Said(t) == {<<t, "prompt">>, <<t, "answer">>} \cap Plain

\* The turns that may not be lost: those kept, and those whose last save is written.
Durable == kept \cup {t \in Turns : LastSave(t) \in written}

\* A turn waits for this save.
InTime(s) == save[s] # {} /\ ~Late(s)

\* What writers take along and have read is kept by writer.
WritersHaveTheirs ==
    /\ update = [w \in Writers |-> update[w]]
    /\ base = [w \in Writers |-> base[w]]

\* A life counts and runs turns, one at a time, after it was registered and before the
\* daemon dies.
LivesRunTurns ==
    /\ current # Nobody => owner = current
    /\ \A l \in Lives : life[l] \in {"none", "building"} =>
           lastCount[l] = 0 /\ l \notin settled /\ \A t \in Turns : runner[t] # l
    /\ \A t \in Turns : stage[t] \in Running \cup {"left"} => Open(runner[t])
    /\ \A t, u \in Turns :
           stage[t] \in Running /\ stage[u] \in Running /\ runner[t] = runner[u] => t = u
    /\ \A t \in Turns : runner[t] \in settled => stage[t] \notin {"working", "saving"}

\* A save belongs to a life that is there.
SavesHaveLives ==
    \A s \in Saves : save[s] # {} => stage[s[1]] # "none" /\ Open(runner[s[1]])

\* The last save of a turn is of the context as it is, after all others, and made in its
\* stage of saving or by a thread that was left.
TurnSaves(t) ==
    /\ stage[t] \in Running => <<t, "prompt">> \in context[runner[t]]
    /\ stage[t] = "working" /\ Answered(t) => Awaited(t) = {}
    /\ stage[t] = "saving" => /\ LastSave(t) \notin left /\ Answered(t)
                              /\ save[LastSave(t)] = context[runner[t]]
    /\ stage[t] # "saving" /\ save[LastSave(t)] # {} =>
           stage[t] = "over" /\ LastSave(t) \in left

\* A turn's metadata is written at its end.
TurnDescribes(t) ==
    /\ stage[t] = "describing" => writer[t] # "none"
    /\ writer[t] # "none" => stage[t] \in {"describing", "over"}
    /\ writer[t] # "done"

\* Saves and turns go together.
SavesHaveTurns == SavesHaveLives /\ \A t \in Turns : TurnSaves(t) /\ TurnDescribes(t)

\* A turn that has not come has left no trace.
NoTraceBefore ==
    \A t \in Turns : stage[t] = "none" =>
        /\ \A l \in Lives : <<t, "answer">> \notin context[l]
        /\ \A s \in Saves : <<t, "answer">> \notin save[s]
        /\ <<t, "answer">> \notin transcript

\* Without a turn that raises and without cancellation, no save is late.
DesertersAreLate ==
    ~deserted =>
        /\ ~late /\ left = {}
        /\ \A t \in Turns : stage[t] # "left"
        /\ \A s \in Saves : save[s] # {} => ~Late(s)

\* Until a compaction, a context only grows, and what is saved and counted was in it.
SavesAreSnapshots ==
    ~compacted =>
        /\ \A s \in Saves : save[s] # {} => save[s] \subseteq context[runner[s[1]]]
        /\ \A l \in Lives : lastCount[l] <= Cardinality(context[l])

\* A save that its turn waits for has all the prompts of the context.
SavesInTime ==
    ~compacted => \A s \in Saves : InTime(s) =>
        Prompts(save[s]) = Prompts(context[runner[s[1]]])

\* The debounce does not take a turn that has its answer for saved.
AnswersAreNews ==
    Linear => \A t \in Turns : stage[t] = "working" /\ (~late \/ runner[t] # owner) =>
        /\ lastCount[runner[t]] <= Cardinality(context[runner[t]] \ {<<t, "answer">>})
        /\ \A s \in written : runner[s[1]] = runner[t] => <<t, "answer">> \notin save[s]

\* The turns that may not be lost are in the owner's context, in whatever the owner is
\* still awaited to write, and in the file as long as no late save has come.
DurableTurnsStay ==
    Linear => \A t \in Durable :
        /\ Open(owner) => Said(t) \subseteq context[owner]
        /\ \A s \in Saves : InTime(s) /\ runner[s[1]] = owner => Said(t) \subseteq save[s]
        /\ ~late => Said(t) \subseteq transcript

\* Between turns the file is what can be written of the owner's context.
FileIsCurrent ==
    Linear /\ ~late =>
        /\ Open(owner) /\ owner \in settled => transcript = context[owner] \ Unwritable
        /\ \A t \in Turns : LastSave(t) \in written /\ runner[t] = owner =>
               transcript = context[owner] \ Unwritable

\* load_transcript() loses no prompt.
PromptsStay == Torn \cap (Turns \X {"prompt"}) = {}

\* The owner's context has all prompts of the file and of the last saves that are written,
\* and the file those of the last saves.
FilePromptsAreInContext ==
    Linear /\ PromptsStay =>
        /\ Open(owner) => Prompts(transcript) \subseteq Prompts(context[owner])
        /\ \A t \in Turns : LastSave(t) \in written =>
               /\ Open(owner) => Prompts(save[LastSave(t)]) \subseteq Prompts(context[owner])
               /\ ~late => Prompts(save[LastSave(t)]) \subseteq Prompts(transcript)

\* A count of turns, if there is one, is not ahead of the prompts among the messages; nor
\* is any count in metadata.json or on its way there.
IsBehind(f, messages) == "turns" \in DOMAIN f => f["turns"] <= Cardinality(Prompts(messages))
AllBehind(messages) ==
    /\ IsBehind(meta, messages)
    /\ \A w \in Writers : IsBehind(update[w], messages) /\ IsBehind(base[w], messages)

\* No count of turns is ahead of the file or of the owner's context.
CountsAreBehind ==
    Linear /\ PromptsStay /\ ~failed =>
        /\ ~late => AllBehind(transcript)
        /\ Open(owner) => AllBehind(context[owner])

\* A hook never writes a name, and takes the bundle along while it is not on disk.
HooksMerge ==
    /\ \A t \in Turns : "name" \notin DOMAIN update[t]
    /\ ~raced /\ ~failed /\ ~initial =>
          "bundle" \in DOMAIN meta \/ \E t \in Turns : writer[t] # "none" /\ "bundle" \in DOMAIN update[t]

\* The inductive invariant.
IInv ==
    /\ TypeOK
    /\ WritersHaveTheirs
    /\ LivesRunTurns
    /\ SavesHaveTurns
    /\ NoTraceBefore
    /\ DesertersAreLate
    /\ SavesAreSnapshots
    /\ SavesInTime
    /\ AnswersAreNews
    /\ DurableTurnsStay
    /\ FileIsCurrent
    /\ FilePromptsAreInContext
    /\ CountsAreBehind
    /\ HooksMerge
    /\ MetadataMerges
-----------------------------------------------------------------------------
\* The names of the saves of a turn, and the lives.
LEMMA SaveNames ==
    /\ \A t \in Turns : /\ LastSave(t) \in Saves /\ LastSave(t)[1] = t
                        /\ LastSave(t)[2] = EndOfTurn
    /\ \A s \in Saves : /\ s[1] \in Turns /\ s = <<s[1], s[2]>>
                        /\ s[2] = EndOfTurn => s = LastSave(s[1])
    /\ First \in Lives /\ Resumes \subseteq Lives /\ Nobody \notin Lives
<1>1. MaxTools \in Nat
    BY BoundsAssumption
<1>2. First \in Lives /\ Resumes \subseteq Lives /\ Nobody \notin Lives
    BY NobodyAssumption DEF Lives
<1>3. QED
    BY <1>1, <1>2 DEF Saves, EndOfTurn, LastSave

\* Merging keeps metadata metadata.
LEMMA MergeIsMetadata ==
    ASSUME NEW f, NEW g, IsMetadata(f), IsMetadata(g)
    PROVE  /\ IsMetadata(Merge(f, g)) /\ DOMAIN Merge(f, g) = DOMAIN f \cup DOMAIN g
           /\ \A k \in DOMAIN g : Merge(f, g)[k] = g[k]
           /\ \A k \in DOMAIN f \ DOMAIN g : Merge(f, g)[k] = f[k]
BY DEF IsMetadata, Merge

\* Nothing is metadata too.
LEMMA EmptyIsMetadata == IsMetadata(Empty) /\ DOMAIN Empty = {}
BY DEF IsMetadata, Empty

\* Messages can be counted.
LEMMA FiniteMessages ==
    ASSUME NEW a, NEW b, b \subseteq Message, a \subseteq b
    PROVE  /\ IsFiniteSet(a) /\ IsFiniteSet(b)
           /\ Cardinality(a) \in Nat /\ Cardinality(b) \in Nat
           /\ Cardinality(a) <= Cardinality(b)
           /\ a # b => Cardinality(a) < Cardinality(b)
<1>1. IsFiniteSet(Turns)
    BY BoundsAssumption, FS_Interval DEF Turns
<1>2. IsFiniteSet(Steps \cup {"prompt", "answer"})
    <2>1. IsFiniteSet(Steps \cup {"prompt"})
        BY StepsAssumption, FS_AddElement
    <2>2. IsFiniteSet((Steps \cup {"prompt"}) \cup {"answer"})
        BY <2>1, FS_AddElement
    <2>3. (Steps \cup {"prompt"}) \cup {"answer"} = Steps \cup {"prompt", "answer"}
        OBVIOUS
    <2>4. QED
        BY <2>2, <2>3
<1>3. IsFiniteSet(Message)
    BY <1>1, <1>2, FS_Product DEF Message
<1>4. IsFiniteSet(b)
    BY <1>3, FS_Subset
<1>5. /\ IsFiniteSet(a) /\ Cardinality(a) <= Cardinality(b)
      /\ Cardinality(a) = Cardinality(b) => a = b
    BY <1>4, FS_Subset
<1>6. Cardinality(a) \in Nat /\ Cardinality(b) \in Nat
    BY <1>4, <1>5, FS_CardinalityType
<1>7. QED
    BY <1>4, <1>5, <1>6

\* Prompts can be counted.
LEMMA PromptsCount ==
    ASSUME NEW a, NEW b, Prompts(a) \subseteq Prompts(b)
    PROVE  /\ Cardinality(Prompts(a)) \in 0..MaxTurns
           /\ Cardinality(Prompts(b)) \in Nat
           /\ Cardinality(Prompts(a)) <= Cardinality(Prompts(b))
<1>1. MaxTurns \in Nat
    BY BoundsAssumption
<1>2. IsFiniteSet(Turns) /\ Cardinality(Turns) = MaxTurns
    BY <1>1, FS_Interval DEF Turns
<1>3. Prompts(a) \in SUBSET Turns /\ Prompts(b) \in SUBSET Turns
    BY DEF Prompts
<1>4. IsFiniteSet(Prompts(a)) /\ IsFiniteSet(Prompts(b))
    BY <1>2, <1>3, FS_Subset
<1>5. /\ Cardinality(Prompts(a)) <= MaxTurns
      /\ Cardinality(Prompts(a)) <= Cardinality(Prompts(b))
    BY <1>2, <1>3, <1>4, FS_Subset
<1>6. Cardinality(Prompts(a)) \in Nat /\ Cardinality(Prompts(b)) \in Nat
    BY <1>4, FS_CardinalityType
<1>7. QED
    BY <1>1, <1>5, <1>6

\* What the hook of the metadata takes along.
TurnsOf(messages) == [k \in {"turns"} |-> Cardinality(Prompts(messages))]

\* The count of turns is metadata.
LEMMA TurnsAreMetadata ==
    ASSUME NEW messages
    PROVE  /\ IsMetadata(TurnsOf(messages)) /\ DOMAIN TurnsOf(messages) = {"turns"}
           /\ TurnsOf(messages)["turns"] = Cardinality(Prompts(messages))
BY PromptsCount DEF IsMetadata, Keys, Value, TurnsOf

\* So is what the first hook takes along.
LEMMA AskedIsMetadata == IsMetadata(Asked) /\ DOMAIN Asked = {"bundle", "directory"}
BY DEF IsMetadata, Asked, Keys, Value

\* What a hook writes: a count, never a name, and the bundle the first time.
LEMMA DescriptionIsMetadata ==
    ASSUME NEW messages, NEW f, f = TurnsOf(messages) \/ f = Merge(Asked, TurnsOf(messages))
    PROVE  /\ IsMetadata(f) /\ "turns" \in DOMAIN f /\ "name" \notin DOMAIN f
           /\ f["turns"] = Cardinality(Prompts(messages))
           /\ f = Merge(Asked, TurnsOf(messages)) => "bundle" \in DOMAIN f
<1> DEFINE g == TurnsOf(messages)
<1>1. IsMetadata(g) /\ DOMAIN g = {"turns"} /\ g["turns"] = Cardinality(Prompts(messages))
    BY TurnsAreMetadata
<1>2. IsMetadata(Asked) /\ DOMAIN Asked = {"bundle", "directory"}
    BY AskedIsMetadata
<1> HIDE DEF g
<1>3. /\ IsMetadata(Merge(Asked, g)) /\ DOMAIN Merge(Asked, g) = {"bundle", "directory", "turns"}
      /\ Merge(Asked, g)["turns"] = g["turns"]
    <2>1. /\ IsMetadata(Merge(Asked, g)) /\ DOMAIN Merge(Asked, g) = DOMAIN Asked \cup DOMAIN g
          /\ \A k \in DOMAIN g : Merge(Asked, g)[k] = g[k]
        BY <1>1, <1>2, MergeIsMetadata, Zenon
    <2>2. QED
        BY <1>1, <1>2, <2>1
<1>4. f = g \/ f = Merge(Asked, g)
    BY DEF g
<1>5. QED
    BY <1>1, <1>3, <1>4 DEF g

\* What a PATCH writes: one key, which is not the count.
LEMMA PatchIsMetadata ==
    ASSUME NEW p \in Patches, NEW k \in PatchKeys
    PROVE  /\ IsMetadata([j \in {k} |-> p]) /\ DOMAIN [j \in {k} |-> p] = {k}
           /\ k \in {"name", "directory"}
BY KeysAssumption DEF IsMetadata, Keys, Value

-----------------------------------------------------------------------------
\* What the variables may hold, a group at a time: turns and their stages,
TypesOfTurns ==
    /\ runner \in [Turns -> Lives \cup {Nobody}]
    /\ stage \in [Turns -> Running \cup {"none", "left", "over"}]
    /\ \A t \in Turns : stage[t] = "none" <=> runner[t] = Nobody

\* saves and the transcript,
TypesOfFiles ==
    /\ save \in [Saves -> SUBSET Message]
    /\ written \cup left \subseteq {s \in Saves : save[s] # {}} /\ written \cap left = {}
    /\ transcript \subseteq Message

\* metadata and its writers,
TypesOfMetadata ==
    /\ writer \in [Writers -> {"none", "reading", "writing", "done"}]
    /\ WritersHaveTheirs
    /\ \A w \in Writers : IsMetadata(update[w]) /\ IsMetadata(base[w])
    /\ IsMetadata(meta) /\ IsMetadata(patched)

\* lives and contexts,
TypesOfLives ==
    /\ current \in Lives \cup {Nobody} /\ owner \in Lives
    /\ life \in [Lives -> {"none", "building", "live", "deleted", "over"}]
    /\ context \in [Lives -> SUBSET Message]
    /\ lastCount \in [Lives -> Nat]
    /\ \A l \in Lives : life[l] = "live" <=> current = l

\* and what is remembered of the run.
TypesOfGhosts ==
    /\ initial \in BOOLEAN /\ late \in BOOLEAN /\ deserted \in BOOLEAN /\ forked \in BOOLEAN
    /\ raced \in BOOLEAN /\ failed \in BOOLEAN /\ compacted \in BOOLEAN
    /\ kept \subseteq Turns /\ settled \subseteq Lives

\* What the parts of the type invariant say together.
LEMMA TypesTogether ==
    TypeOK /\ WritersHaveTheirs <=>
        TypesOfTurns /\ TypesOfFiles /\ TypesOfMetadata /\ TypesOfLives /\ TypesOfGhosts
BY DEF TypeOK, TypesOfTurns, TypesOfFiles, TypesOfMetadata, TypesOfLives, TypesOfGhosts

\* create() leaves the session with nothing on disk.
LEMMA InitIInv == Init => IInv
<1> SUFFICES ASSUME Init PROVE IInv
    OBVIOUS
<1>1. /\ update = [w \in Writers |-> Empty] /\ base = [w \in Writers |-> Empty]
      /\ meta = Empty /\ patched = Empty /\ DOMAIN Empty = {}
    BY EmptyIsMetadata DEF Init
<1>2. /\ \A s \in Saves : save[s] = {}
      /\ written = {} /\ left = {} /\ transcript = {} /\ kept = {} /\ settled = {}
      /\ \A t \in Turns : stage[t] = "none" /\ runner[t] = Nobody
      /\ \A l \in Lives : context[l] = {} /\ lastCount[l] = 0
      /\ \A w \in Writers : writer[w] = "none"
    BY DEF Init
<1>3. TypesOfTurns /\ TypesOfFiles /\ TypesOfGhosts
    BY <1>2 DEF Init, TypesOfTurns, TypesOfFiles, TypesOfGhosts
<1>4. TypesOfLives
    BY SaveNames DEF Init, TypesOfLives
<1>5. TypesOfMetadata
    BY <1>1, EmptyIsMetadata DEF Init, TypesOfMetadata, WritersHaveTheirs
<1>6. TypeOK /\ WritersHaveTheirs
    BY <1>3, <1>4, <1>5, TypesTogether
<1>7. LivesRunTurns
    BY <1>2, SaveNames DEF Init, LivesRunTurns, Running
<1>8. SavesHaveTurns
    BY <1>2, SaveNames DEF SavesHaveTurns, SavesHaveLives, TurnSaves, TurnDescribes, Running,
        Writers
<1>9. NoTraceBefore /\ DesertersAreLate
    BY <1>2 DEF Init, NoTraceBefore, DesertersAreLate
<1>10. SavesAreSnapshots
    BY <1>2, FS_EmptySet DEF SavesAreSnapshots
<1>11. SavesInTime /\ AnswersAreNews
    BY <1>2 DEF SavesInTime, InTime, AnswersAreNews
<1>12. DurableTurnsStay /\ FileIsCurrent
    BY <1>2 DEF DurableTurnsStay, Durable, FileIsCurrent
<1>13. FilePromptsAreInContext
    BY <1>2 DEF FilePromptsAreInContext, Prompts
<1>14. CountsAreBehind
    BY <1>1 DEF CountsAreBehind, AllBehind, IsBehind
<1>15. HooksMerge /\ MetadataMerges
    BY <1>1 DEF Init, HooksMerge, MetadataMerges, Writers
<1>16. QED
    BY <1>6, <1>7, <1>8, <1>9, <1>10, <1>11, <1>12, <1>13, <1>14, <1>15 DEF IInv
-----------------------------------------------------------------------------
\* What MetadataSaveHook does before its thread.
LEMMA Described ==
    ASSUME TypeOK, WritersHaveTheirs, NEW t \in Turns, Describe(t)
    PROVE  /\ writer' = [writer EXCEPT ![t] = "reading"]
           /\ stage' = [stage EXCEPT ![t] = "describing"]
           /\ update' = [w \in Writers |-> update'[w]]
           /\ \A w \in Writers \ {t} : update'[w] = update[w]
           /\ IsMetadata(update'[t]) /\ "turns" \in DOMAIN update'[t]
           /\ "name" \notin DOMAIN update'[t]
           /\ update'[t]["turns"] = Cardinality(Prompts(context[runner[t]]))
           /\ initial' \in BOOLEAN
           /\ (runner[t] = First /\ initial => ~initial' /\ "bundle" \in DOMAIN update'[t])
           /\ (~(runner[t] = First /\ initial) => initial' = initial)
<1> DEFINE messages == context[runner[t]]
           f == IF runner[t] = First /\ initial THEN Merge(Asked, TurnsOf(messages))
                ELSE TurnsOf(messages)
<1>1. /\ writer' = [writer EXCEPT ![t] = "reading"]
      /\ update' = [update EXCEPT ![t] = f]
      /\ initial' = (initial /\ ~(runner[t] = First /\ initial))
      /\ stage' = [stage EXCEPT ![t] = "describing"]
    BY DEF Describe, TurnsOf
<1>2. /\ IsMetadata(f) /\ "turns" \in DOMAIN f /\ "name" \notin DOMAIN f
      /\ f["turns"] = Cardinality(Prompts(messages))
      /\ f = Merge(Asked, TurnsOf(messages)) => "bundle" \in DOMAIN f
    BY DescriptionIsMetadata
<1>3. (runner[t] = First /\ initial) => f = Merge(Asked, TurnsOf(messages))
    OBVIOUS
<1> HIDE DEF f
<1>4. t \in Writers /\ update = [w \in Writers |-> update[w]]
    BY DEF Writers, WritersHaveTheirs
<1>5. /\ update' = [w \in Writers |-> update'[w]] /\ update'[t] = f
      /\ \A w \in Writers \ {t} : update'[w] = update[w]
    BY <1>1, <1>4
<1>6. initial \in BOOLEAN
    BY DEF TypeOK
<1>7. /\ initial' \in BOOLEAN
      /\ (runner[t] = First /\ initial => ~initial')
      /\ (~(runner[t] = First /\ initial) => initial' = initial)
    BY <1>1, <1>6, Zenon
<1>8. runner[t] = First /\ initial => "bundle" \in DOMAIN update'[t]
    BY <1>2, <1>3, <1>5, Zenon
<1>9. QED
    BY <1>1, <1>2, <1>5, <1>7, <1>8

\* When a write is over, the writer has nothing any more.
LEMMA Finished ==
    ASSUME TypeOK, WritersHaveTheirs, NEW w \in Writers, WriterDone(w)
    PROVE  /\ update' = [v \in Writers |-> update'[v]] /\ base' = [v \in Writers |-> base'[v]]
           /\ \A v \in Writers \ {w} : update'[v] = update[v] /\ base'[v] = base[v]
           /\ update'[w] = Empty /\ base'[w] = Empty
           /\ writer' = [writer EXCEPT ![w] = IF w \in Patches THEN "done" ELSE "none"]
           /\ \A t \in Turns \ {w} : stage'[t] = stage[t]
           /\ w \in Turns => stage'[w] = "over"
           /\ stage' \in [Turns -> Running \cup {"none", "left", "over"}]
BY DEF TypeOK, WritersHaveTheirs, WriterDone

\* A turn that has come has its life, and so has a save that is under way.
LEMMA TurnHasLife ==
    ASSUME TypeOK, NEW t \in Turns, stage[t] # "none" PROVE runner[t] \in Lives
BY DEF TypeOK

\* A save belongs to a turn and to the life that runs it.
LEMMA SaveHasTurn ==
    ASSUME TypeOK, SavesHaveTurns, NEW s \in Saves, save[s] # {}
    PROVE  /\ s[1] \in Turns /\ stage[s[1]] # "none" /\ runner[s[1]] \in Lives
           /\ Open(runner[s[1]])
           /\ s[2] = EndOfTurn => s = LastSave(s[1]) /\ (stage[s[1]] = "saving" \/ s \in left)
           /\ s[2] = EndOfTurn /\ s \in written => stage[s[1]] = "saving"
<1>1. s[1] \in Turns /\ (s[2] = EndOfTurn => s = LastSave(s[1]))
    BY SaveNames
<1>2. stage[s[1]] # "none" /\ runner[s[1]] \in Lives /\ Open(runner[s[1]])
    BY <1>1, TurnHasLife DEF SavesHaveTurns, SavesHaveLives
<1>3. s[2] = EndOfTurn => stage[s[1]] = "saving" \/ s \in left
    BY <1>1 DEF SavesHaveTurns, TurnSaves
<1>4. s \in written => s \notin left
    BY DEF TypeOK
<1>5. QED
    BY <1>1, <1>2, <1>3, <1>4

\* What is written is a save.
LEMMA WrittenIsSave ==
    ASSUME TypeOK, NEW s \in written PROVE s \in Saves /\ save[s] # {} /\ s \notin left
BY DEF TypeOK

\* The types of turns,
LEMMA TypesOfTurnsStep ==
    ASSUME TypeOK, SavesHaveTurns, [Next]_vars PROVE TypesOfTurns'
<1>1. ASSUME UNCHANGED <<runner, stage>> PROVE TypesOfTurns'
    BY <1>1 DEF TypeOK, TypesOfTurns
<1>2. ASSUME NEW t \in Turns, stage[t] # "none", runner' = runner,
             NEW g \in Running \cup {"left", "over"}, stage' = [stage EXCEPT ![t] = g]
      PROVE  TypesOfTurns'
    BY <1>2 DEF TypeOK, TypesOfTurns, Running
<1>3. ASSUME NEW l \in Lives, NEW t \in Turns, Prompt(l, t) PROVE TypesOfTurns'
    <2>1. l # Nobody
        BY SaveNames
    <2>2. QED
        BY <1>3, <2>1 DEF Prompt, TypeOK, TypesOfTurns, Running
<1>4. ASSUME NEW t \in Turns, Complete(t) PROVE TypesOfTurns'
    BY <1>4, <1>2 DEF Complete, TranscriptKept, Describe, Running
<1>5. ASSUME NEW t \in Turns, Raise(t) \/ CancelSaving(t) \/ CancelDescribing(t)
      PROVE  TypesOfTurns'
    BY <1>5, <1>2 DEF Raise, CancelSaving, CancelDescribing
<1>6. ASSUME NEW s \in Saves, Saved(s) \/ SaveFails(s) PROVE TypesOfTurns'
    <2>1. s[1] \in Turns /\ stage[s[1]] # "none"
        BY <1>6, SaveHasTurn, WrittenIsSave DEF Saved, SaveFails
    <2>2. /\ runner' = runner
          /\ stage' = stage \/ stage' = [stage EXCEPT ![s[1]] = "describing"]
        BY <1>6 DEF Saved, SaveFails, TranscriptKept, Describe
    <2>3. QED
        BY <1>1, <1>2, <2>1, <2>2 DEF Running
<1>7. ASSUME NEW w \in Writers, WriteMeta(w) \/ MetaFails(w) PROVE TypesOfTurns'
    <2>1. WriterDone(w) /\ runner' = runner
        BY <1>7 DEF WriteMeta, MetaFails
    <2>2. w \in Turns => stage[w] # "none"
        BY <1>7 DEF WriteMeta, MetaFails, SavesHaveTurns, TurnDescribes
    <2>3. QED
        BY <2>1, <2>2 DEF WriterDone, TypeOK, TypesOfTurns
<1>8. CASE Crash
    BY <1>8 DEF Crash, TypeOK, TypesOfTurns
<1>9. CASE \/ \E t \in Turns : Answer(t) \/ Compact(t)
           \/ \E t \in Turns, part \in Steps : Say(t, part)
           \/ \E s \in Saves : ToolPost(s) \/ ToolCancelled(s) \/ Write(s)
           \/ \E p \in Patches, k \in PatchKeys : Patch(p, k)
           \/ \E w \in Writers : ReadMeta(w)
           \/ \E r \in Resumes : Resume(r) \/ Register(r)
           \/ Delete \/ UNCHANGED vars
    BY <1>1, <1>9 DEF Answer, Say, Compact, ToolPost, ToolCancelled, Write, Patch, ReadMeta,
        Resume, Register, Delete, vars, session
<1>10. QED
    BY <1>3, <1>4, <1>5, <1>6, <1>7, <1>8, <1>9 DEF Next, UpdateMetadata

\* saves,
LEMMA TypesOfFilesStep ==
    ASSUME TypeOK, SavesHaveTurns, [Next]_vars PROVE TypesOfFiles'
<1>1. ASSUME UNCHANGED <<save, written, left, transcript>> PROVE TypesOfFiles'
    BY <1>1 DEF TypeOK, TypesOfFiles
<1>2. ASSUME NEW s \in Saves, save[s] = {}, NEW c \in SUBSET Message,
             save' = [save EXCEPT ![s] = c], UNCHANGED <<written, left, transcript>>
      PROVE  TypesOfFiles'
    BY <1>2 DEF TypeOK, TypesOfFiles
<1>3. ASSUME NEW s \in Saves, save[s] # {}, s \notin left, HandlerCancelled(s),
             transcript' = transcript
      PROVE  TypesOfFiles'
    BY <1>3 DEF TypeOK, TypesOfFiles, HandlerCancelled
<1>4. ASSUME NEW t \in Turns, Complete(t) PROVE TypesOfFiles'
    <2>1. runner[t] \in Lives /\ context[runner[t]] \in SUBSET Message
        BY <1>4, TurnHasLife DEF Complete, TypeOK
    <2>2. LastSave(t) \in Saves /\ (save[LastSave(t)] # {} => LastSave(t) \in left)
        BY <1>4, SaveNames DEF Complete, SavesHaveTurns, TurnSaves
    <2>3. UNCHANGED <<written, left, transcript>>
        BY <1>4 DEF Complete
    <2>4. /\ context[runner[t]] # {}
          /\ save' = save \/ save' = [save EXCEPT ![LastSave(t)] = context[runner[t]]]
        BY <1>4 DEF Complete, LastSave, Answered
    <2>5. QED
        BY <2>1, <2>2, <2>3, <2>4 DEF TypeOK, TypesOfFiles
<1>5. ASSUME NEW s \in Saves, ToolPost(s) PROVE TypesOfFiles'
    <2>1. s[1] \in Turns /\ stage[s[1]] # "none"
        BY <1>5, SaveNames DEF ToolPost
    <2>2. context[runner[s[1]]] \in SUBSET Message
        BY <2>1, TurnHasLife DEF TypeOK
    <2>3. /\ save' = [save EXCEPT ![s] = context[runner[s[1]]]]
          /\ UNCHANGED <<written, left, transcript>>
        BY <1>5 DEF ToolPost
    <2>4. save[s] = {}
        <3>1. s[2] \in 1..s[2] /\ s = <<s[1], s[2]>>
            BY <1>5, BoundsAssumption DEF ToolPost, Saves, EndOfTurn
        <3>2. QED
            BY <1>5, <3>1 DEF ToolPost
    <2>5. QED
        BY <1>2, <2>2, <2>3, <2>4
<1>6. ASSUME NEW s \in Saves, ToolCancelled(s) PROVE TypesOfFiles'
    BY <1>3, <1>6 DEF ToolCancelled, Awaited
<1>7. ASSUME NEW t \in Turns, CancelSaving(t) PROVE TypesOfFiles'
    <2>1. LastSave(t) \in Saves /\ save[LastSave(t)] # {} /\ LastSave(t) \notin left
        BY <1>7, SaveNames DEF CancelSaving, SavesHaveTurns, TurnSaves, Answered
    <2>2. QED
        BY <1>3, <1>7, <2>1 DEF CancelSaving, LastSave
<1>8. ASSUME NEW s \in Saves, Write(s) PROVE TypesOfFiles'
    BY <1>8 DEF Write, ThreadDone, TypeOK, TypesOfFiles
<1>9. ASSUME NEW s \in Saves, Saved(s) PROVE TypesOfFiles'
    BY <1>9 DEF Saved, TypeOK, TypesOfFiles
<1>10. ASSUME NEW s \in Saves, SaveFails(s) PROVE TypesOfFiles'
    BY <1>10 DEF SaveFails, TypeOK, TypesOfFiles
<1>11. CASE Crash
    BY <1>11 DEF Crash, TypeOK, TypesOfFiles
<1>12. CASE \/ \E l \in Lives, t \in Turns : Prompt(l, t)
            \/ \E t \in Turns : Answer(t) \/ Compact(t) \/ Raise(t) \/ CancelDescribing(t)
            \/ \E t \in Turns, part \in Steps : Say(t, part)
            \/ \E p \in Patches, k \in PatchKeys : Patch(p, k)
            \/ \E w \in Writers : ReadMeta(w) \/ WriteMeta(w) \/ MetaFails(w)
            \/ \E r \in Resumes : Resume(r) \/ Register(r)
            \/ Delete \/ UNCHANGED vars
    BY <1>1, <1>12 DEF Prompt, Answer, Say, Compact, Raise, CancelDescribing, Patch, ReadMeta,
        WriteMeta, MetaFails, Resume, Register, Delete, vars, saving
<1>13. QED
    BY <1>4, <1>5, <1>6, <1>7, <1>8, <1>9, <1>10, <1>11, <1>12 DEF Next, UpdateMetadata

\* lives,
LEMMA TypesOfLivesStep ==
    ASSUME TypeOK, SavesHaveTurns, [Next]_vars PROVE TypesOfLives'
<1>1. ASSUME UNCHANGED <<current, owner, life, context, lastCount>> PROVE TypesOfLives'
    BY <1>1 DEF TypeOK, TypesOfLives
<1>2. ASSUME NEW l \in Lives, NEW c \in SUBSET Message, context' = [context EXCEPT ![l] = c],
             UNCHANGED <<current, owner, life, lastCount>>
      PROVE  TypesOfLives'
    BY <1>2 DEF TypeOK, TypesOfLives
<1>3. ASSUME NEW l \in Lives, NEW t \in Turns, Prompt(l, t) PROVE TypesOfLives'
    <2>1. context[l] \cup {<<t, "prompt">>} \in SUBSET Message
        BY DEF TypeOK, Message
    <2>2. QED
        BY <1>2, <1>3, <2>1 DEF Prompt
<1>4. ASSUME NEW t \in Turns, NEW part \in Steps \cup {"prompt", "answer"}, Say(t, part)
      PROVE  TypesOfLives'
    <2>1. runner[t] \in Lives
        BY <1>4, TurnHasLife DEF Say
    <2>2. context[runner[t]] \cup {<<t, part>>} \in SUBSET Message
        BY <2>1 DEF TypeOK, Message
    <2>3. QED
        BY <1>2, <1>4, <2>1, <2>2 DEF Say, ghosts
<1>5. ASSUME NEW t \in Turns, Compact(t) PROVE TypesOfLives'
    <2>1. runner[t] \in Lives
        BY <1>5, TurnHasLife DEF Compact
    <2>2. {m \in context[runner[t]] : m[1] = t} \in SUBSET Message
        BY <2>1 DEF TypeOK
    <2>3. QED
        BY <1>2, <1>5, <2>1, <2>2 DEF Compact
<1>6. ASSUME NEW s \in Saves, Saved(s) PROVE TypesOfLives'
    <2>1. save[s] \subseteq Message
        BY DEF TypeOK
    <2>2. Cardinality(save[s]) \in Nat
        BY <2>1, FiniteMessages
    <2>3. QED
        BY <1>6, <2>2 DEF Saved, TypeOK, TypesOfLives
<1>7. ASSUME NEW r \in Resumes, Resume(r) PROVE TypesOfLives'
    <2>1. r \in Lives /\ life[r] # "live"
        BY <1>7, SaveNames DEF Resume
    <2>2. QED
        BY <1>7, <2>1 DEF Resume, TypeOK, TypesOfLives, ghosts, Loaded
<1>8. ASSUME NEW r \in Resumes, Register(r) PROVE TypesOfLives'
    BY <1>8, SaveNames DEF Register, TypeOK, TypesOfLives
<1>9. CASE Delete
    BY <1>9, SaveNames DEF Delete, TypeOK, TypesOfLives, ghosts
<1>10. CASE Crash
    BY <1>10, SaveNames DEF Crash, TypeOK, TypesOfLives, ghosts
<1>11. CASE \/ \E t \in Turns : Complete(t) \/ Raise(t) \/ CancelSaving(t) \/ CancelDescribing(t)
            \/ \E s \in Saves : ToolPost(s) \/ ToolCancelled(s) \/ Write(s) \/ SaveFails(s)
            \/ \E p \in Patches, k \in PatchKeys : Patch(p, k)
            \/ \E w \in Writers : ReadMeta(w) \/ WriteMeta(w) \/ MetaFails(w)
            \/ UNCHANGED vars
    BY <1>1, <1>11 DEF Complete, Raise, CancelSaving, CancelDescribing, Desert, ToolPost,
        ToolCancelled, Write, SaveFails, Patch, ReadMeta, WriteMeta, MetaFails, vars, session,
        ghosts
<1>12. QED
    BY <1>3, <1>4, <1>5, <1>6, <1>7, <1>8, <1>9, <1>10, <1>11 DEF Next, UpdateMetadata, Answer

\* metadata that a hook describes,
LEMMA DescriptionTypes ==
    ASSUME TypeOK, WritersHaveTheirs, NEW t \in Turns, Describe(t),
           UNCHANGED <<base, meta, patched>>
    PROVE  TypesOfMetadata'
<1>1. /\ writer' = [writer EXCEPT ![t] = "reading"] /\ t \in Writers
      /\ update' = [w \in Writers |-> update'[w]]
      /\ \A w \in Writers \ {t} : update'[w] = update[w]
      /\ IsMetadata(update'[t])
    BY Described DEF Writers
<1>2. \A w \in Writers : IsMetadata(update'[w])
    BY <1>1 DEF TypeOK
<1>3. QED
    BY <1>1, <1>2 DEF TypeOK, TypesOfMetadata, WritersHaveTheirs

\* metadata of a writer that ends,
LEMMA FinishedTypes ==
    ASSUME TypeOK, WritersHaveTheirs, NEW w \in Writers, WriterDone(w)
    PROVE  /\ writer' \in [Writers -> {"none", "reading", "writing", "done"}]
           /\ WritersHaveTheirs'
           /\ \A v \in Writers : IsMetadata(update'[v]) /\ IsMetadata(base'[v])
<1>1. /\ update' = [v \in Writers |-> update'[v]] /\ base' = [v \in Writers |-> base'[v]]
      /\ \A v \in Writers \ {w} : update'[v] = update[v] /\ base'[v] = base[v]
      /\ update'[w] = Empty /\ base'[w] = Empty
      /\ writer' = [writer EXCEPT ![w] = IF w \in Patches THEN "done" ELSE "none"]
    BY Finished
<1>2. QED
    BY <1>1, EmptyIsMetadata DEF TypeOK, WritersHaveTheirs

\* metadata and its writers,
LEMMA TypesOfMetadataStep ==
    ASSUME TypeOK, WritersHaveTheirs, SavesHaveTurns, [Next]_vars PROVE TypesOfMetadata'
<1>1. ASSUME UNCHANGED <<writer, update, base, meta, patched>> PROVE TypesOfMetadata'
    BY <1>1 DEF TypeOK, TypesOfMetadata, WritersHaveTheirs
<1>2. ASSUME NEW t \in Turns, Complete(t) PROVE TypesOfMetadata'
    <2>1. UNCHANGED <<base, meta, patched>>
        BY <1>2 DEF Complete
    <2>2. UNCHANGED <<writer, update>> \/ Describe(t)
        BY <1>2 DEF Complete, TranscriptKept
    <2>3. QED
        BY <1>1, <2>1, <2>2, DescriptionTypes
<1>3. ASSUME NEW s \in Saves, Saved(s) \/ SaveFails(s) PROVE TypesOfMetadata'
    <2>1. UNCHANGED <<base, meta, patched>> /\ s[1] \in Turns
        BY <1>3, SaveNames DEF Saved, SaveFails
    <2>2. UNCHANGED <<writer, update>> \/ Describe(s[1])
        BY <1>3 DEF Saved, SaveFails, TranscriptKept
    <2>3. QED
        BY <1>1, <2>1, <2>2, DescriptionTypes
<1>4. ASSUME NEW t \in Turns, CancelDescribing(t) PROVE TypesOfMetadata'
    <2>1. UNCHANGED <<base, meta, patched>>
        BY <1>4 DEF CancelDescribing
    <2>2. CASE UNCHANGED <<writer, update>>
        BY <1>1, <2>1, <2>2
    <2>3. CASE /\ writer' = [writer EXCEPT ![t] = "none"]
               /\ update' = [update EXCEPT ![t] = Empty]
        BY <2>1, <2>3, EmptyIsMetadata DEF TypeOK, TypesOfMetadata, WritersHaveTheirs
    <2>4. QED
        BY <1>4, <2>2, <2>3 DEF CancelDescribing
<1>5. ASSUME NEW p \in Patches, NEW k \in PatchKeys, Patch(p, k) PROVE TypesOfMetadata'
    <2> DEFINE f == [j \in {k} |-> p]
    <2>1. IsMetadata(f)
        BY PatchIsMetadata
    <2> HIDE DEF f
    <2>2. /\ p \in Writers /\ update' = [update EXCEPT ![p] = f]
          /\ writer' = [writer EXCEPT ![p] = "reading"]
          /\ UNCHANGED <<base, meta, patched>>
        BY <1>5 DEF Patch, Writers, f
    <2>3. update' = [w \in Writers |-> update'[w]] /\ \A w \in Writers : IsMetadata(update'[w])
        BY <2>1, <2>2 DEF TypeOK, WritersHaveTheirs
    <2>4. QED
        BY <2>2, <2>3 DEF TypeOK, TypesOfMetadata, WritersHaveTheirs
<1>6. ASSUME NEW w \in Writers, ReadMeta(w) PROVE TypesOfMetadata'
    <2>1. base' = [v \in Writers |-> base'[v]] /\ \A v \in Writers : IsMetadata(base'[v])
        BY <1>6 DEF ReadMeta, TypeOK, WritersHaveTheirs
    <2>2. QED
        BY <1>6, <2>1 DEF ReadMeta, TypeOK, TypesOfMetadata, WritersHaveTheirs
<1>7. ASSUME NEW w \in Writers, WriteMeta(w) PROVE TypesOfMetadata'
    <2>1. WriterDone(w) /\ meta' = Merge(base[w], update[w]) /\ PatchAnswered(w)
        BY <1>7 DEF WriteMeta
    <2>2. IsMetadata(meta')
        BY <2>1, MergeIsMetadata DEF TypeOK
    <2>3. IsMetadata(patched')
        BY <2>1, MergeIsMetadata DEF TypeOK, PatchAnswered
    <2>4. QED
        BY <2>1, <2>2, <2>3, FinishedTypes DEF TypesOfMetadata
<1>8. ASSUME NEW w \in Writers, MetaFails(w) PROVE TypesOfMetadata'
    <2>1. WriterDone(w) /\ meta' = meta /\ patched' = patched
        BY <1>8 DEF MetaFails
    <2>2. QED
        BY <2>1, FinishedTypes DEF TypesOfMetadata, TypeOK
<1>9. CASE Crash
    <2>1. /\ update' = [w \in Writers |-> Empty] /\ base' = [w \in Writers |-> Empty]
          /\ meta' = meta /\ patched' = patched
          /\ writer' \in [Writers -> {"none", "reading", "writing", "done"}]
        BY <1>9 DEF Crash
    <2>2. WritersHaveTheirs' /\ \A w \in Writers : IsMetadata(update'[w]) /\ IsMetadata(base'[w])
        BY <2>1, EmptyIsMetadata DEF WritersHaveTheirs
    <2>3. QED
        BY <2>1, <2>2 DEF TypesOfMetadata, TypeOK
<1>10. CASE \/ \E l \in Lives, t \in Turns : Prompt(l, t)
            \/ \E t \in Turns : Answer(t) \/ Compact(t) \/ Raise(t) \/ CancelSaving(t)
            \/ \E t \in Turns, part \in Steps : Say(t, part)
            \/ \E s \in Saves : ToolPost(s) \/ ToolCancelled(s) \/ Write(s)
            \/ \E r \in Resumes : Resume(r) \/ Register(r)
            \/ Delete \/ UNCHANGED vars
    BY <1>1, <1>10 DEF Prompt, Answer, Say, Compact, Raise, CancelSaving, ToolPost,
        ToolCancelled, Write, Resume, Register, Delete, vars, patching
<1>11. QED
    BY <1>2, <1>3, <1>4, <1>5, <1>6, <1>7, <1>8, <1>9, <1>10 DEF Next, UpdateMetadata

\* and what is remembered of the run.
LEMMA TypesOfGhostsStep ==
    ASSUME TypeOK, WritersHaveTheirs, SavesHaveTurns, [Next]_vars PROVE TypesOfGhosts'
<1>1. ASSUME UNCHANGED <<initial, late, deserted, forked, raced, failed, compacted, kept, settled>>
      PROVE  TypesOfGhosts'
    BY <1>1 DEF TypeOK, TypesOfGhosts
<1>2. ASSUME NEW l \in Lives, NEW t \in Turns, Prompt(l, t) PROVE TypesOfGhosts'
    BY <1>2 DEF Prompt, saving, patching, TypeOK, TypesOfGhosts
<1>3. ASSUME NEW t \in Turns, Compact(t) PROVE TypesOfGhosts'
    BY <1>3 DEF Compact, saving, patching, TypeOK, TypesOfGhosts
<1>4. ASSUME NEW t \in Turns, Describe(t), runner[t] \in Lives,
             UNCHANGED <<late, deserted, forked, raced, compacted>>, failed' \in BOOLEAN,
             \/ UNCHANGED <<kept, settled>>
             \/ kept' = kept \cup {t} /\ settled' = settled \cup {runner[t]}
      PROVE  TypesOfGhosts'
    <2>1. initial' \in BOOLEAN
        BY <1>4, Described
    <2>2. QED
        BY <1>4, <2>1 DEF TypeOK, TypesOfGhosts
<1>5. ASSUME NEW t \in Turns, Complete(t) PROVE TypesOfGhosts'
    <2>1. runner[t] \in Lives
        BY <1>5, TurnHasLife DEF Complete
    <2>2. UNCHANGED <<late, deserted, forked, raced, compacted, failed>>
        BY <1>5 DEF Complete
    <2>3. \/ UNCHANGED <<initial, kept, settled>>
          \/ TranscriptKept(t)
        BY <1>5 DEF Complete
    <2>4. QED
        BY <1>1, <1>4, <2>1, <2>2, <2>3 DEF TranscriptKept, TypeOK
<1>6. ASSUME NEW s \in Saves, Saved(s) PROVE TypesOfGhosts'
    <2>1. s[1] \in Turns /\ runner[s[1]] \in Lives
        BY <1>6, SaveHasTurn, WrittenIsSave DEF Saved
    <2>2. UNCHANGED <<late, deserted, forked, raced, compacted, failed>>
        BY <1>6 DEF Saved
    <2>3. \/ UNCHANGED <<initial, kept, settled>>
          \/ TranscriptKept(s[1])
        BY <1>6 DEF Saved
    <2>4. QED
        BY <1>1, <1>4, <2>1, <2>2, <2>3 DEF TranscriptKept, TypeOK
<1>7. ASSUME NEW s \in Saves, SaveFails(s) PROVE TypesOfGhosts'
    <2>1. s[1] \in Turns /\ runner[s[1]] \in Lives
        BY <1>7, SaveHasTurn DEF SaveFails
    <2>2. UNCHANGED <<late, deserted, forked, raced, compacted, kept, settled>> /\ failed' = TRUE
        BY <1>7 DEF SaveFails, ghosts
    <2>3. initial' = initial \/ Describe(s[1])
        BY <1>7 DEF SaveFails
    <2>4. QED
        BY <1>4, <2>1, <2>2, <2>3 DEF TypeOK, TypesOfGhosts
<1>8. ASSUME NEW t \in Turns, Raise(t) \/ CancelSaving(t) \/ CancelDescribing(t)
      PROVE  TypesOfGhosts'
    BY <1>8 DEF Raise, CancelSaving, CancelDescribing, Desert, saving, patching, TypeOK,
        TypesOfGhosts
<1>9. ASSUME NEW s \in Saves, ToolCancelled(s) PROVE TypesOfGhosts'
    BY <1>9 DEF ToolCancelled, Desert, patching, TypeOK, TypesOfGhosts
<1>10. ASSUME NEW s \in Saves, Write(s) PROVE TypesOfGhosts'
    <2>1. late' \in BOOLEAN /\ forked' \in BOOLEAN
        BY <1>10 DEF Write, Late, TypeOK
    <2>2. QED
        BY <1>10, <2>1 DEF Write, patching, TypeOK, TypesOfGhosts
<1>11. ASSUME NEW w \in Writers, WriteMeta(w) \/ MetaFails(w) PROVE TypesOfGhosts'
    BY <1>11 DEF WriteMeta, MetaFails, saving, ghosts, TypeOK, TypesOfGhosts
<1>12. ASSUME NEW r \in Resumes, Register(r) PROVE TypesOfGhosts'
    BY <1>12 DEF Register, saving, patching, TypeOK, TypesOfGhosts
<1>13. CASE Crash
    BY <1>13 DEF Crash, ghosts, TypeOK, TypesOfGhosts
<1>14. CASE \/ \E t \in Turns : Answer(t)
            \/ \E t \in Turns, part \in Steps : Say(t, part)
            \/ \E s \in Saves : ToolPost(s)
            \/ \E p \in Patches, k \in PatchKeys : Patch(p, k)
            \/ \E w \in Writers : ReadMeta(w)
            \/ \E r \in Resumes : Resume(r)
            \/ Delete \/ UNCHANGED vars
    BY <1>1, <1>14 DEF Answer, Say, ToolPost, Patch, ReadMeta, Resume, Delete, vars, saving,
        patching, ghosts
<1>15. QED
    BY <1>2, <1>3, <1>5, <1>6, <1>7, <1>8, <1>9, <1>10, <1>11, <1>12, <1>13, <1>14
        DEF Next, UpdateMetadata

\* Every step keeps turns to the lives that are registered,
LEMMA LivesRunTurnsStep ==
    ASSUME TypeOK, LivesRunTurns, SavesHaveTurns, [Next]_vars PROVE LivesRunTurns'
<1>1. ASSUME UNCHANGED <<current, owner, life, lastCount, settled, runner, stage>>
      PROVE  LivesRunTurns'
    BY <1>1 DEF LivesRunTurns, Open

<1>2. ASSUME NEW t \in Turns, stage[t] \in Running, NEW g \in Running \cup {"left", "over"},
             g # "working", g = "saving" => stage[t] = "working",
             stage' = [stage EXCEPT ![t] = g],
             UNCHANGED <<current, owner, life, runner>>,
             \A l \in Lives \ {runner[t]} : lastCount'[l] = lastCount[l],
             \/ settled' = settled
             \/ settled' = settled \cup {runner[t]} /\ g = "describing"
      PROVE  LivesRunTurns'
    <2>1. /\ stage'[t] = g /\ \A u \in Turns \ {t} : stage'[u] = stage[u]
        BY <1>2 DEF TypeOK
    <2>2. Open(runner[t]) /\ \A u \in Turns \ {t} : runner[u] = runner[t] => stage[u] \notin Running
        BY <1>2 DEF LivesRunTurns
    <2>3. \A l \in Lives : life[l] \in {"none", "building"} => l # runner[t]
        BY <2>2 DEF Open
    <2>4. \A u \in Turns : runner[u] \in settled' => stage'[u] \notin {"working", "saving"}
        BY <1>2, <2>1, <2>2 DEF LivesRunTurns, Running
    <2>5. ASSUME NEW u \in Turns, NEW v \in Turns, stage'[u] \in Running, stage'[v] \in Running,
                 runner[u] = runner[v]
          PROVE  u = v
        <3>1. u # t /\ v # t => u = v
            BY <2>1, <2>5 DEF LivesRunTurns
        <3>2. u = t \/ v = t => u = v
            BY <2>1, <2>2, <2>5
        <3>3. QED
            BY <3>1, <3>2
    <2>6. \A u \in Turns : stage'[u] \in Running \cup {"left"} => Open(runner[u])
        BY <1>2, <2>1, <2>2 DEF LivesRunTurns, Running
    <2>7. \A l \in Lives : life[l] \in {"none", "building"} =>
             lastCount'[l] = 0 /\ l \notin settled' /\ \A u \in Turns : runner[u] # l
        BY <1>2, <2>3 DEF LivesRunTurns
    <2>8. QED
        BY <1>2, <2>4, <2>5, <2>6, <2>7 DEF LivesRunTurns, Open
<1>3. ASSUME NEW l \in Lives, NEW t \in Turns, Prompt(l, t) PROVE LivesRunTurns'
    <2>1. /\ stage'[t] = "working" /\ \A u \in Turns \ {t} : stage'[u] = stage[u]
          /\ runner'[t] = l /\ \A u \in Turns \ {t} : runner'[u] = runner[u]
          /\ settled' = settled \ {l} /\ UNCHANGED <<current, owner, life, lastCount>>
        BY <1>3 DEF Prompt, TypeOK
    <2>2. life[l] = "live" /\ \A u \in Turns : runner[u] = l => stage[u] \notin Running
        BY <1>3 DEF Prompt, TypeOK, Idle
    <2>3. QED
        BY <2>1, <2>2 DEF LivesRunTurns, Open, Running
<1>4. ASSUME NEW t \in Turns, Complete(t) PROVE LivesRunTurns'
    <2>1. stage[t] = "working" /\ UNCHANGED <<current, owner, life, runner, lastCount>>
        BY <1>4 DEF Complete
    <2>2. \/ stage' = [stage EXCEPT ![t] = "saving"] /\ settled' = settled
          \/ stage' = [stage EXCEPT ![t] = "describing"] /\ settled' = settled \cup {runner[t]}
        BY <1>4 DEF Complete, TranscriptKept, Describe
    <2>3. QED
        BY <1>2, <2>1, <2>2 DEF Running
<1>5. ASSUME NEW t \in Turns, Raise(t) \/ CancelSaving(t) \/ CancelDescribing(t)
      PROVE  LivesRunTurns'
    <2>1. stage[t] \in Running /\ UNCHANGED <<current, owner, life, runner, lastCount, settled>>
        BY <1>5 DEF Raise, CancelSaving, CancelDescribing, Desert, Running
    <2>2. stage' = [stage EXCEPT ![t] = "left"] \/ stage' = [stage EXCEPT ![t] = "over"]
        BY <1>5 DEF Raise, CancelSaving, CancelDescribing
    <2>3. QED
        BY <1>2, <2>1, <2>2
<1>6. ASSUME NEW s \in Saves, Saved(s) PROVE LivesRunTurns'
    <2>1. /\ s[1] \in Turns /\ runner[s[1]] \in Lives /\ Open(runner[s[1]])
          /\ s[2] = EndOfTurn => stage[s[1]] = "saving"
        BY <1>6, SaveHasTurn, WrittenIsSave DEF Saved
    <2>2. /\ UNCHANGED <<current, owner, life, runner>>
          /\ \A l \in Lives \ {runner[s[1]]} : lastCount'[l] = lastCount[l]
        BY <1>6 DEF Saved, TypeOK
    <2>3. CASE s[2] = EndOfTurn
        <3>1. /\ stage' = [stage EXCEPT ![s[1]] = "describing"]
              /\ settled' = settled \cup {runner[s[1]]}
            BY <1>6, <2>3 DEF Saved, TranscriptKept, Describe
        <3>2. QED
            BY <1>2, <2>1, <2>2, <2>3, <3>1 DEF Running
    <2>4. CASE s[2] # EndOfTurn
        <3>1. UNCHANGED <<stage, settled>>
            BY <1>6, <2>4 DEF Saved
        <3>2. \A l \in Lives : life[l] \in {"none", "building"} => lastCount'[l] = lastCount[l]
            BY <2>1, <2>2 DEF Open
        <3>3. QED
            BY <2>2, <3>1, <3>2 DEF LivesRunTurns, Open
    <2>5. QED
        BY <2>3, <2>4
<1>7. ASSUME NEW s \in Saves, SaveFails(s) PROVE LivesRunTurns'
    <2>1. /\ s[1] \in Turns /\ (s[2] = EndOfTurn => stage[s[1]] = "saving")
          /\ UNCHANGED <<current, owner, life, runner, lastCount, settled>>
        BY <1>7, SaveHasTurn DEF SaveFails, ghosts
    <2>2. \/ stage' = stage
          \/ s[2] = EndOfTurn /\ stage' = [stage EXCEPT ![s[1]] = "describing"]
        BY <1>7 DEF SaveFails, Describe
    <2>3. QED
        BY <1>1, <1>2, <2>1, <2>2 DEF Running
<1>8. ASSUME NEW w \in Writers, WriteMeta(w) \/ MetaFails(w) PROVE LivesRunTurns'
    <2>1. WriterDone(w) /\ UNCHANGED <<current, owner, life, runner, lastCount, settled>>
        BY <1>8 DEF WriteMeta, MetaFails, ghosts
    <2>2. \A u \in Turns : stage'[u] = stage[u] \/ stage'[u] = "over"
        BY <2>1 DEF WriterDone
    <2>3. QED
        BY <2>1, <2>2 DEF LivesRunTurns, Open, Running
<1>9. ASSUME NEW r \in Resumes, Resume(r) PROVE LivesRunTurns'
    <2>1. /\ r \in Lives /\ life[r] = "none" /\ life' = [life EXCEPT ![r] = "building"]
          /\ UNCHANGED <<current, owner, lastCount, settled, runner, stage>>
        BY <1>9, SaveNames DEF Resume, ghosts
    <2>2. \A l \in Lives : /\ Open(l) => life'[l] = life[l]
                           /\ life'[l] \in {"none", "building"} => life[l] = "none" \/ life[l] = "building"
        BY <2>1 DEF TypeOK, Open
    <2>3. \A t \in Turns : stage[t] \in Running \cup {"left"} => runner[t] \in Lives
        BY TurnHasLife DEF Running
    <2>4. QED
        BY <2>1, <2>2, <2>3 DEF LivesRunTurns, Open
<1>10. ASSUME NEW r \in Resumes, Register(r) PROVE LivesRunTurns'
    <2>1. /\ r \in Lives /\ life[r] = "building" /\ life' = [life EXCEPT ![r] = "live"]
          /\ current' = r /\ owner' = r
          /\ UNCHANGED <<lastCount, settled, runner, stage>>
        BY <1>10, SaveNames DEF Register
    <2>2. \A l \in Lives : /\ Open(l) => life'[l] = life[l]
                           /\ life'[l] \in {"none", "building"} => life[l] = life'[l]
        BY <2>1 DEF TypeOK, Open
    <2>3. \A t \in Turns : stage[t] \in Running \cup {"left"} => runner[t] \in Lives
        BY TurnHasLife DEF Running
    <2>4. QED
        BY <2>1, <2>2, <2>3 DEF LivesRunTurns, Open
<1>11. CASE Delete
    <2>1. /\ current \in Lives /\ life[current] = "live"
          /\ life' = [life EXCEPT ![current] = "deleted"] /\ current' = Nobody
          /\ UNCHANGED <<owner, lastCount, settled, runner, stage>>
        BY <1>11 DEF Delete, ghosts, TypeOK
    <2>2. \A l \in Lives : /\ Open(l) => life'[l] \in {"live", "deleted"}
                           /\ life'[l] \in {"none", "building"} => life[l] = life'[l]
        BY <2>1 DEF TypeOK, Open
    <2>3. \A t \in Turns : stage[t] \in Running \cup {"left"} => runner[t] \in Lives
        BY TurnHasLife DEF Running
    <2>4. QED
        BY <2>1, <2>2, <2>3 DEF LivesRunTurns, Open
<1>12. CASE Crash
    <2>1. /\ current' = Nobody /\ UNCHANGED <<settled, runner>>
          /\ \A l \in Lives : lastCount'[l] = 0 /\ (life'[l] = "none" <=> life[l] = "none")
                              /\ life'[l] \in {"none", "over"}
          /\ \A t \in Turns : stage'[t] \in {"none", "over"}
        BY <1>12 DEF Crash, ghosts
    <2>2. QED
        BY <2>1 DEF LivesRunTurns, Running
<1>13. CASE \/ \E t \in Turns : Answer(t) \/ Compact(t)
            \/ \E t \in Turns, part \in Steps : Say(t, part)
            \/ \E s \in Saves : ToolPost(s) \/ ToolCancelled(s) \/ Write(s)
            \/ \E p \in Patches, k \in PatchKeys : Patch(p, k)
            \/ \E w \in Writers : ReadMeta(w)
            \/ UNCHANGED vars
    BY <1>1, <1>13 DEF Answer, Say, Compact, ToolPost, ToolCancelled, Desert, Write, Patch,
        ReadMeta, vars, session, ghosts
<1>14. QED
    BY <1>3, <1>4, <1>5, <1>6, <1>7, <1>8, <1>9, <1>10, <1>11, <1>12, <1>13
        DEF Next, UpdateMetadata

\* A turn that has come keeps its life, and a life stays open until the daemon dies.
LEMMA Steady ==
    ASSUME TypeOK, LivesRunTurns, SavesHaveTurns, [Next]_vars
    PROVE  /\ \A t \in Turns : stage[t] # "none" => runner'[t] = runner[t] /\ stage'[t] # "none"
           /\ Crash \/ \A l \in Lives : Open(l) => Open(l)'
<1>1. \A t \in Turns : stage[t] # "none" => runner'[t] = runner[t]
    <2>1. ASSUME NEW l \in Lives, NEW u \in Turns, Prompt(l, u), NEW t \in Turns, stage[t] # "none"
          PROVE  runner'[t] = runner[t]
        BY <2>1 DEF Prompt, TypeOK
    <2>2. CASE runner' = runner
        BY <2>2
    <2>3. QED
        BY <2>1, <2>2
            DEF Next, vars, session, Answer, Say, Compact, Complete, Raise, CancelSaving,
            CancelDescribing, ToolPost, ToolCancelled, Write, Saved, SaveFails, Patch,
            UpdateMetadata, ReadMeta, WriteMeta, MetaFails, Resume, Register, Delete, Crash
<1>2. TypesOfTurns'
    BY TypesOfTurnsStep
<1>3. \A t \in Turns : stage[t] # "none" => runner'[t] = runner[t] /\ stage'[t] # "none"
    BY <1>1, <1>2, SaveNames DEF TypesOfTurns, TypeOK
<1>4. ASSUME NEW r \in Resumes, Resume(r) \/ Register(r)
      PROVE  \A l \in Lives : Open(l) => Open(l)'
    BY <1>4 DEF Resume, Register, TypeOK, Open
<1>5. ASSUME Delete PROVE \A l \in Lives : Open(l) => Open(l)'
    BY <1>5 DEF Delete, TypeOK, Open
<1>6. CASE life' = life
    BY <1>3, <1>6 DEF Open
<1>7. Crash \/ \A l \in Lives : Open(l) => Open(l)'
    BY <1>4, <1>5, <1>6
    DEF Next, vars, session, Prompt, Answer, Say, Compact, Complete, Raise, CancelSaving,
        CancelDescribing, ToolPost, ToolCancelled, Write, Saved, SaveFails, Patch,
        UpdateMetadata, ReadMeta, WriteMeta, MetaFails
<1>8. QED
    BY <1>3, <1>7

\* A save begins as a snapshot of its turn's context and ends as nothing.
SaveBegins(s) ==
    /\ save[s] = {} /\ save' = [save EXCEPT ![s] = context[runner[s[1]]]]
    /\ \/ ToolPost(s)
       \/ Complete(s[1]) /\ s = LastSave(s[1]) /\ stage'[s[1]] = "saving"

\* What the steps do to the saves.
LEMMA SaveSteps ==
    ASSUME TypeOK, SavesHaveTurns, [Next]_vars, NEW s \in Saves
    PROVE  save'[s] \in {save[s], {}} \/ SaveBegins(s)
<1>1. ASSUME NEW t \in Turns, Complete(t) PROVE save'[s] \in {save[s], {}} \/ SaveBegins(s)
    <2>1. stage[t] = "working" /\ LastSave(t) \in Saves /\ LastSave(t)[1] = t
        BY <1>1, SaveNames DEF Complete
    <2>2. save[LastSave(t)] = {}
        BY <2>1 DEF SavesHaveTurns, TurnSaves
    <2>3. CASE save' = save
        BY <2>3
    <2>4. CASE /\ save' = [save EXCEPT ![LastSave(t)] = context[runner[t]]]
               /\ stage' = [stage EXCEPT ![t] = "saving"]
        <3>1. s # LastSave(t) => save'[s] = save[s]
            BY <2>4 DEF TypeOK
        <3>2. stage'[t] = "saving"
            BY <2>4 DEF TypeOK
        <3>3. s = LastSave(t) => SaveBegins(s)
            BY <1>1, <2>1, <2>2, <2>4, <3>2 DEF SaveBegins
        <3>4. QED
            BY <3>1, <3>3
    <2>5. QED
        BY <1>1, <2>3, <2>4 DEF Complete, LastSave
<1>2. ASSUME NEW i \in Saves, ToolPost(i) PROVE save'[s] \in {save[s], {}} \/ SaveBegins(s)
    <2>1. i[2] \in 1..i[2] /\ i = <<i[1], i[2]>>
        BY <1>2, BoundsAssumption DEF ToolPost, Saves, EndOfTurn
    <2>2. save[i] = {} /\ save' = [save EXCEPT ![i] = context[runner[i[1]]]]
        BY <1>2, <2>1 DEF ToolPost
    <2>3. s # i => save'[s] = save[s]
        BY <2>2 DEF TypeOK
    <2>4. i = s => SaveBegins(s)
        BY <1>2, <2>2 DEF SaveBegins
    <2>5. QED
        BY <2>3, <2>4
<1>3. ASSUME NEW i \in Saves, ToolCancelled(i) \/ Write(i) \/ Saved(i) \/ SaveFails(i)
      PROVE  save'[s] \in {save[s], {}}
    BY <1>3 DEF ToolCancelled, HandlerCancelled, Write, ThreadDone, Saved, SaveFails, TypeOK
<1>4. ASSUME NEW t \in Turns, CancelSaving(t) PROVE save'[s] \in {save[s], {}}
    BY <1>4 DEF CancelSaving, HandlerCancelled, TypeOK
<1>5. CASE Crash
    BY <1>5 DEF Crash
<1>6. CASE save' = save
    BY <1>6
<1>7. QED
    BY <1>1, <1>2, <1>3, <1>4, <1>5, <1>6
    DEF Next, vars, saving, Prompt, Answer, Say, Compact, Raise, CancelDescribing, Patch,
        UpdateMetadata, ReadMeta, WriteMeta, MetaFails, Resume, Register, Delete

\* A turn under way is the only one of its life, which is open.
LEMMA OneRuns ==
    ASSUME TypeOK, LivesRunTurns, NEW t \in Turns, stage[t] \in Running
    PROVE  /\ runner[t] \in Lives /\ Open(runner[t])
           /\ \A u \in Turns : stage[u] \in Running /\ runner[u] = runner[t] => u = t
<1>1. stage[t] # "none"
    BY DEF Running
<1>2. QED
    BY <1>1, TurnHasLife DEF LivesRunTurns

\* saves to the lives that are there,
LEMMA SavesHaveLivesStep ==
    ASSUME TypeOK, LivesRunTurns, SavesHaveTurns, [Next]_vars PROVE SavesHaveLives'
<1> SUFFICES ASSUME NEW s \in Saves, save'[s] # {}
             PROVE  stage'[s[1]] # "none" /\ Open(runner[s[1]])'
    BY DEF SavesHaveLives, Open
<1>1. s[1] \in Turns
    BY SaveNames
<1>2. ~Crash
    BY DEF Crash
<1>3. stage[s[1]] # "none" /\ Open(runner[s[1]])
    <2>1. CASE save'[s] \in {save[s], {}}
        BY <2>1 DEF SavesHaveTurns, SavesHaveLives
    <2>2. CASE SaveBegins(s)
        <3>1. stage[s[1]] \in {"working", "left"}
            BY <2>2 DEF SaveBegins, ToolPost, Complete
        <3>2. QED
            BY <1>1, <3>1 DEF LivesRunTurns, Running
    <2>3. QED
        BY <2>1, <2>2, SaveSteps
<1>4. runner'[s[1]] = runner[s[1]] /\ stage'[s[1]] # "none" /\ runner[s[1]] \in Lives
    BY <1>1, <1>3, Steady, TurnHasLife
<1>5. QED
    BY <1>2, <1>3, <1>4, Steady DEF Open

\* the last save of a turn to its end,
LEMMA TurnSavesStep ==
    ASSUME TypeOK, LivesRunTurns, SavesHaveTurns, [Next]_vars, NEW t \in Turns
    PROVE  TurnSaves(t)'
<1>1. /\ TurnSaves(t) /\ TurnDescribes(t) /\ LastSave(t) \in Saves
      /\ \A s \in Saves : s[1] = t /\ s[2] = EndOfTurn => s = LastSave(t)
    BY SaveNames DEF SavesHaveTurns
<1>2. /\ stage[t] \in {"working", "describing", "none", "left"} => save[LastSave(t)] = {}
      /\ stage[t] = "none" => Awaited(t) = {}
    <2>1. stage[t] = "none" => Awaited(t) = {}
        BY DEF SavesHaveTurns, SavesHaveLives, Awaited
    <2>2. QED
        BY <1>1, <2>1 DEF TurnSaves
\* Nothing that concerns the turn changes.
<1>3. ASSUME stage'[t] = stage[t], runner'[t] = runner[t],
             stage[t] \in Running => context'[runner[t]] = context[runner[t]],
             save'[LastSave(t)] = save[LastSave(t)],
             LastSave(t) \in left' <=> LastSave(t) \in left,
             Awaited(t)' \subseteq Awaited(t)
      PROVE  TurnSaves(t)'
    BY <1>1, <1>3 DEF TurnSaves, Answered, LastSave, Running
<1>4. ASSUME UNCHANGED <<save, left>>
      PROVE  /\ Awaited(t)' = Awaited(t) /\ save'[LastSave(t)] = save[LastSave(t)]
             /\ LastSave(t) \in left' <=> LastSave(t) \in left
    BY <1>4 DEF Awaited
\* It is over, or has nothing to save.
<1>5. ASSUME stage'[t] \in {"over", "left", "none"},
             save'[LastSave(t)] # {} => stage'[t] = "over" /\ LastSave(t) \in left'
      PROVE  TurnSaves(t)'
    BY <1>5 DEF TurnSaves, Running, LastSave
<1>6. ASSUME stage[t] = "saving", stage'[t] = "describing", save'[LastSave(t)] = {},
             runner'[t] = runner[t], context' = context
      PROVE  TurnSaves(t)'
    BY <1>1, <1>6 DEF TurnSaves, Running, LastSave
<1>7. ASSUME NEW l \in Lives, NEW u \in Turns, Prompt(l, u) PROVE TurnSaves(t)'
    <2>1. UNCHANGED <<save, left>> /\ context' = [context EXCEPT ![l] = @ \cup {<<u, "prompt">>}]
        BY <1>7 DEF Prompt, saving
    <2>2. CASE u = t
        <3>1. /\ stage[t] = "none" /\ stage'[t] = "working" /\ runner'[t] = l
              /\ <<t, "prompt">> \in context'[l]
            BY <1>7, <2>1, <2>2 DEF Prompt, TypeOK
        <3>2. Awaited(t)' = {} /\ save'[LastSave(t)] = {}
            BY <1>2, <1>4, <2>1, <3>1
        <3>3. QED
            BY <3>1, <3>2 DEF TurnSaves, LastSave
    <2>3. CASE u # t
        <3>1. stage'[t] = stage[t] /\ runner'[t] = runner[t]
            BY <1>7, <2>3 DEF Prompt, TypeOK
        <3>2. stage[t] \in Running => runner[t] # l
            BY <1>7 DEF Prompt, Idle
        <3>3. stage[t] \in Running => context'[runner[t]] = context[runner[t]]
            BY <2>1, <3>2, OneRuns DEF TypeOK
        <3>4. QED
            BY <1>3, <1>4, <2>1, <3>1, <3>3
    <2>4. QED
        BY <2>2, <2>3
<1>8. ASSUME NEW u \in Turns, stage[u] = "working", u # t, NEW c,
             context' = [context EXCEPT ![runner[u]] = c],
             UNCHANGED <<save, left, stage, runner>>
      PROVE  TurnSaves(t)'
    <2>1. stage[t] \in Running => runner[t] \in Lives /\ runner[t] # runner[u]
        BY <1>8, OneRuns DEF Running
    <2>2. stage[t] \in Running => context'[runner[t]] = context[runner[t]]
        BY <1>8, <2>1 DEF TypeOK
    <2>3. QED
        BY <1>3, <1>4, <1>8, <2>2
<1>9. ASSUME NEW u \in Turns, NEW part \in Steps \cup {"answer"}, Say(u, part),
             part = "answer" => Awaited(u) = {}
      PROVE  TurnSaves(t)'
    <2>1. /\ stage[u] = "working" /\ ~Answered(u) /\ UNCHANGED <<save, left, stage, runner>>
          /\ context' = [context EXCEPT ![runner[u]] = @ \cup {<<u, part>>}]
        BY <1>9 DEF Say, saving
    <2>2. CASE u = t
        <3>1. /\ runner[t] \in Lives
              /\ context'[runner[t]] = context[runner[t]] \cup {<<t, part>>}
            BY <2>1, <2>2, OneRuns DEF TypeOK, Running
        <3>2. <<t, "answer">> \in context'[runner[t]] => part = "answer"
            BY <2>1, <2>2, <3>1 DEF Answered
        <3>3. Answered(t)' => Awaited(t)' = {}
            BY <1>4, <1>9, <2>1, <2>2, <3>2 DEF Answered
        <3>4. <<t, "prompt">> \in context'[runner'[t]]
            BY <1>1, <2>1, <2>2, <3>1 DEF TurnSaves, Running
        <3>5. save'[LastSave(t)] = {} /\ stage'[t] = "working"
            BY <1>2, <2>1, <2>2
        <3>6. QED
            BY <3>3, <3>4, <3>5 DEF TurnSaves, LastSave
    <2>3. CASE u # t
        BY <1>8, <2>1, <2>3
    <2>4. QED
        BY <2>2, <2>3
<1>10. ASSUME NEW u \in Turns, Compact(u) PROVE TurnSaves(t)'
    <2>1. /\ stage[u] = "working" /\ UNCHANGED <<save, left, stage, runner>>
          /\ context' = [context EXCEPT ![runner[u]] = {m \in @ : m[1] = u}]
        BY <1>10 DEF Compact, saving
    <2>2. CASE u = t
        <3>1. /\ runner[t] \in Lives
              /\ context'[runner[t]] = {m \in context[runner[t]] : m[1] = t}
            BY <2>1, <2>2, OneRuns DEF TypeOK, Running
        <3>2. Answered(t)' => Awaited(t)' = {}
            BY <1>1, <1>4, <2>1, <2>2, <3>1 DEF Answered, TurnSaves
        <3>3. <<t, "prompt">> \in context'[runner'[t]]
            BY <1>1, <2>1, <2>2, <3>1 DEF TurnSaves, Running
        <3>4. save'[LastSave(t)] = {} /\ stage'[t] = "working"
            BY <1>2, <2>1, <2>2
        <3>5. QED
            BY <3>2, <3>3, <3>4 DEF TurnSaves, LastSave
    <2>3. CASE u # t
        BY <1>8, <2>1, <2>3
    <2>4. QED
        BY <2>2, <2>3
<1>11. ASSUME NEW s \in Saves, ToolPost(s) PROVE TurnSaves(t)'
    <2>1. /\ s[2] # EndOfTurn /\ UNCHANGED <<stage, runner, context, left>>
          /\ stage[s[1]] = "working" => ~Answered(s[1])
          /\ save' = [save EXCEPT ![s] = context[runner[s[1]]]]
        BY <1>11 DEF ToolPost, session
    <2>2. /\ save'[LastSave(t)] = save[LastSave(t)]
          /\ s[1] # t => Awaited(t)' = Awaited(t)
        BY <1>1, <2>1 DEF TypeOK, Awaited, LastSave
    <2>3. CASE s[1] = t
        BY <1>1, <2>1, <2>2, <2>3 DEF TurnSaves, Answered, LastSave
    <2>4. CASE s[1] # t
        BY <1>3, <2>1, <2>2, <2>4
    <2>5. QED
        BY <2>3, <2>4
<1>12. ASSUME NEW u \in Turns, Complete(u) PROVE TurnSaves(t)'
    <2>1. stage[u] = "working" /\ Answered(u) /\ UNCHANGED <<context, runner, left>>
        BY <1>12 DEF Complete
    <2>2. \/ /\ save' = [save EXCEPT ![LastSave(u)] = context[runner[u]]]
             /\ stage' = [stage EXCEPT ![u] = "saving"]
          \/ /\ save' = save /\ stage' = [stage EXCEPT ![u] = "describing"]
        BY <1>12 DEF Complete, TranscriptKept, Describe, LastSave
    <2>3. CASE u = t
        <3>1. LastSave(t) \notin left /\ runner[t] \in Lives
            BY <1>2, <2>1, <2>3, OneRuns DEF TypeOK, Running
        <3>2. /\ <<t, "prompt">> \in context'[runner'[t]] /\ Answered(t)'
              /\ stage'[t] = "saving" => save'[LastSave(t)] = context'[runner'[t]]
              /\ stage'[t] = "describing" => save'[LastSave(t)] = {}
              /\ stage'[t] \in {"saving", "describing"} /\ LastSave(t) \notin left'
            BY <1>1, <1>2, <2>1, <2>2, <2>3, <3>1 DEF TypeOK, TurnSaves, Answered, Running
        <3>3. QED
            BY <3>2 DEF TurnSaves, LastSave
    <2>4. CASE u # t
        <3>1. stage'[t] = stage[t] /\ LastSave(u) # LastSave(t)
            BY <2>2, <2>4 DEF TypeOK, LastSave
        <3>2. save'[LastSave(t)] = save[LastSave(t)] /\ Awaited(t)' = Awaited(t)
            <4>1. \A s \in Saves : s # LastSave(u) => save'[s] = save[s]
                BY <2>2 DEF TypeOK
            <4>2. \A s \in Saves : s[1] = t => s # LastSave(u)
                BY <2>4 DEF LastSave
            <4>3. QED
                BY <1>1, <2>1, <3>1, <4>1, <4>2 DEF Awaited
        <3>3. QED
            BY <1>3, <2>1, <3>1, <3>2
    <2>5. QED
        BY <2>3, <2>4
<1>13. ASSUME NEW u \in Turns, Raise(u) PROVE TurnSaves(t)'
    <2>1. /\ stage[u] = "working" /\ stage' = [stage EXCEPT ![u] = "left"]
          /\ UNCHANGED <<context, runner, save, left>>
        BY <1>13 DEF Raise, saving
    <2>2. CASE u = t
        <3>1. stage'[t] = "left" /\ save'[LastSave(t)] = {}
            BY <1>2, <2>1, <2>2 DEF TypeOK
        <3>2. QED
            BY <1>5, <3>1
    <2>3. CASE u # t
        <3>1. stage'[t] = stage[t]
            BY <2>1, <2>3 DEF TypeOK
        <3>2. QED
            BY <1>3, <1>4, <2>1, <3>1
    <2>4. QED
        BY <2>2, <2>3
<1>14. ASSUME NEW s \in Saves, HandlerCancelled(s), s # LastSave(t), stage'[t] = stage[t],
              UNCHANGED <<context, runner>>
       PROVE  TurnSaves(t)'
    <2>1. /\ save'[LastSave(t)] = save[LastSave(t)] /\ (LastSave(t) \in left' <=> LastSave(t) \in left)
          /\ Awaited(t)' \subseteq Awaited(t)
        BY <1>1, <1>14 DEF HandlerCancelled, Awaited, TypeOK
    <2>2. QED
        BY <1>3, <1>14, <2>1
<1>15. ASSUME NEW s \in Saves, ToolCancelled(s) PROVE TurnSaves(t)'
    <2>1. s # LastSave(t) /\ HandlerCancelled(s) /\ UNCHANGED <<context, runner, stage>>
        BY <1>15 DEF ToolCancelled, Awaited, LastSave, session
    <2>2. QED
        BY <1>14, <2>1
<1>16. ASSUME NEW u \in Turns, CancelSaving(u) PROVE TurnSaves(t)'
    <2>1. /\ stage[u] = "saving" /\ stage' = [stage EXCEPT ![u] = "over"]
          /\ HandlerCancelled(LastSave(u)) /\ UNCHANGED <<context, runner>>
          /\ LastSave(u) \in Saves
        BY <1>16, SaveNames DEF CancelSaving, LastSave
    <2>2. CASE u = t
        <3>1. stage'[t] = "over" /\ (save'[LastSave(t)] # {} => LastSave(t) \in left')
            BY <1>1, <2>1, <2>2 DEF TypeOK, HandlerCancelled
        <3>2. QED
            BY <1>5, <3>1
    <2>3. CASE u # t
        <3>1. stage'[t] = stage[t] /\ LastSave(u) # LastSave(t)
            BY <2>1, <2>3 DEF TypeOK, LastSave
        <3>2. QED
            BY <1>14, <2>1, <3>1
    <2>4. QED
        BY <2>2, <2>3
<1>17. ASSUME NEW u \in Turns, CancelDescribing(u) PROVE TurnSaves(t)'
    <2>1. /\ stage[u] = "describing" /\ stage' = [stage EXCEPT ![u] = "over"]
          /\ UNCHANGED <<context, runner, save, left>>
        BY <1>17 DEF CancelDescribing, saving
    <2>2. CASE u = t
        <3>1. stage'[t] = "over" /\ save'[LastSave(t)] = {}
            BY <1>2, <2>1, <2>2 DEF TypeOK
        <3>2. QED
            BY <1>5, <3>1
    <2>3. CASE u # t
        <3>1. stage'[t] = stage[t]
            BY <2>1, <2>3 DEF TypeOK
        <3>2. QED
            BY <1>3, <1>4, <2>1, <3>1
    <2>4. QED
        BY <2>2, <2>3
<1>18. ASSUME NEW s \in Saves, Write(s) PROVE TurnSaves(t)'
    <2>1. ThreadDone(s) /\ UNCHANGED <<context, runner, stage>>
        BY <1>18 DEF Write, session
    <2>2. CASE s \in left
        <3>1. left' = left \ {s} /\ save' = [save EXCEPT ![s] = {}]
            BY <2>1, <2>2 DEF ThreadDone
        <3>2. CASE s = LastSave(t)
            <4>1. save[LastSave(t)] # {} /\ stage[t] # "saving"
                BY <1>1, <2>2, <3>2 DEF TypeOK, TurnSaves
            <4>2. stage'[t] = "over" /\ save'[LastSave(t)] = {}
                BY <1>1, <2>1, <3>1, <3>2, <4>1 DEF TypeOK, TurnSaves
            <4>3. QED
                BY <1>5, <4>2
        <3>3. CASE s # LastSave(t)
            <4>1. /\ save'[LastSave(t)] = save[LastSave(t)]
                  /\ (LastSave(t) \in left' <=> LastSave(t) \in left)
                  /\ Awaited(t)' \subseteq Awaited(t)
                BY <1>1, <2>2, <3>1, <3>3 DEF TypeOK, Awaited
            <4>2. QED
                BY <1>3, <2>1, <4>1
        <3>4. QED
            BY <3>2, <3>3
    <2>3. CASE s \notin left
        <3>1. UNCHANGED <<save, left>>
            BY <2>1, <2>3 DEF ThreadDone
        <3>2. QED
            BY <1>3, <1>4, <2>1, <3>1
    <2>4. QED
        BY <2>2, <2>3
<1>19. ASSUME NEW s \in Saves, Saved(s) \/ SaveFails(s) PROVE TurnSaves(t)'
    <2>1. /\ UNCHANGED <<context, runner, left>> /\ save' = [save EXCEPT ![s] = {}]
          /\ s[1] \in Turns /\ (s[2] = EndOfTurn => s = LastSave(s[1]) /\ stage[s[1]] = "saving")
        BY <1>19, SaveHasTurn, WrittenIsSave DEF Saved, SaveFails
    <2>2. \/ s[2] = EndOfTurn /\ stage' = [stage EXCEPT ![s[1]] = "describing"]
          \/ s[2] # EndOfTurn /\ stage' = stage
        BY <1>19 DEF Saved, SaveFails, TranscriptKept, Describe
    <2>3. CASE s = LastSave(t)
        <3>1. /\ stage[t] = "saving" /\ stage'[t] = "describing"
              /\ save'[LastSave(t)] = {}
            BY <1>1, <2>1, <2>2, <2>3 DEF TypeOK, LastSave
        <3>2. QED
            BY <1>6, <2>1, <3>1
    <2>4. CASE s # LastSave(t)
        <3>1. /\ save'[LastSave(t)] = save[LastSave(t)] /\ Awaited(t)' \subseteq Awaited(t)
              /\ stage'[t] = stage[t]
            BY <1>1, <2>1, <2>2, <2>4 DEF TypeOK, Awaited
        <3>2. QED
            BY <1>3, <2>1, <3>1
    <2>5. QED
        BY <2>3, <2>4
<1>20. ASSUME NEW w \in Writers, WriteMeta(w) \/ MetaFails(w) PROVE TurnSaves(t)'
    <2>1. /\ UNCHANGED <<context, runner, save, left>> /\ WriterDone(w)
          /\ writer[w] # "none"
        BY <1>20 DEF WriteMeta, MetaFails, saving
    <2>2. CASE w = t
        <3>1. stage[t] \in {"describing", "over"} /\ stage'[t] = "over"
            BY <1>1, <2>1, <2>2 DEF TurnDescribes, WriterDone
        <3>2. save'[LastSave(t)] # {} => LastSave(t) \in left'
            BY <1>1, <2>1, <3>1 DEF TurnSaves
        <3>3. QED
            BY <1>5, <3>1, <3>2
    <2>3. CASE w # t
        <3>1. stage'[t] = stage[t]
            BY <2>1, <2>3 DEF WriterDone
        <3>2. QED
            BY <1>3, <1>4, <2>1, <3>1
    <2>4. QED
        BY <2>2, <2>3
<1>21. ASSUME NEW r \in Resumes, Resume(r) PROVE TurnSaves(t)'
    <2>1. /\ life[r] = "none" /\ context' = [context EXCEPT ![r] = Loaded] /\ r \in Lives
          /\ UNCHANGED <<save, left, stage, runner>>
        BY <1>21, SaveNames DEF Resume, saving
    <2>2. stage[t] \in Running => context'[runner[t]] = context[runner[t]]
        BY <2>1, OneRuns DEF TypeOK, Open
    <2>3. QED
        BY <1>3, <1>4, <2>1, <2>2
<1>22. CASE Crash
    <2>1. stage'[t] \in {"over", "none"} /\ save'[LastSave(t)] = {}
        BY <1>1, <1>22 DEF Crash
    <2>2. QED
        BY <1>5, <2>1
<1>23. CASE UNCHANGED <<stage, runner, context, save, left>>
    BY <1>3, <1>4, <1>23
<1>24. ASSUME NEW u \in Turns, Answer(u) \/ \E part \in Steps : Say(u, part) PROVE TurnSaves(t)'
    BY <1>9, <1>24, StepsAssumption DEF Answer
<1>25. QED
    BY <1>7, <1>10, <1>11, <1>12, <1>13, <1>15, <1>16, <1>17, <1>18, <1>19, <1>20, <1>21,
       <1>22, <1>23, <1>24
    DEF Next, vars, session, saving, Patch, UpdateMetadata, ReadMeta, Register, Delete

\* the metadata of a turn to its end,
LEMMA TurnDescribesStep ==
    ASSUME TypeOK, WritersHaveTheirs, LivesRunTurns, SavesHaveTurns, [Next]_vars, NEW t \in Turns
    PROVE  TurnDescribes(t)'
<1>1. TurnDescribes(t) /\ t \in Writers /\ t \notin Patches
    BY WritersAssumption DEF SavesHaveTurns, Writers
<1>2. ASSUME stage'[t] = stage[t], writer'[t] = writer[t] PROVE TurnDescribes(t)'
    BY <1>1, <1>2 DEF TurnDescribes
<1>3. ASSUME NEW u \in Turns, stage[u] # "describing", writer' = writer, NEW g,
             g \notin {"describing", "none"}, stage' = [stage EXCEPT ![u] = g],
             stage[u] # "over"
      PROVE  TurnDescribes(t)'
    BY <1>1, <1>3 DEF TypeOK, TurnDescribes
<1>4. ASSUME NEW u \in Turns, writer' = [writer EXCEPT ![u] = "reading"],
             stage' = [stage EXCEPT ![u] = "describing"]
      PROVE  TurnDescribes(t)'
    <2>1. CASE u = t
        BY <1>1, <1>4, <2>1 DEF TypeOK, TurnDescribes
    <2>2. CASE u # t
        BY <1>1, <1>2, <1>4, <2>2 DEF TypeOK
    <2>3. QED
        BY <2>1, <2>2
<1>5. ASSUME NEW l \in Lives, NEW u \in Turns, Prompt(l, u) PROVE TurnDescribes(t)'
    BY <1>3, <1>5 DEF Prompt, patching
<1>6. ASSUME NEW u \in Turns, Complete(u) PROVE TurnDescribes(t)'
    <2>1. stage[u] = "working"
        BY <1>6 DEF Complete
    <2>2. \/ writer' = writer /\ stage' = [stage EXCEPT ![u] = "saving"]
          \/ writer' = [writer EXCEPT ![u] = "reading"] /\ stage' = [stage EXCEPT ![u] = "describing"]
        BY <1>6 DEF Complete, TranscriptKept, Describe
    <2>3. QED
        BY <1>3, <1>4, <2>1, <2>2
<1>7. ASSUME NEW s \in Saves, Saved(s) \/ SaveFails(s) PROVE TurnDescribes(t)'
    <2>1. s[1] \in Turns
        BY SaveNames
    <2>2. \/ UNCHANGED <<writer, stage>>
          \/ /\ writer' = [writer EXCEPT ![s[1]] = "reading"]
             /\ stage' = [stage EXCEPT ![s[1]] = "describing"]
        BY <1>7 DEF Saved, SaveFails, TranscriptKept, Describe
    <2>3. QED
        BY <1>2, <1>4, <2>1, <2>2
<1>8. ASSUME NEW u \in Turns, Raise(u) \/ CancelSaving(u) PROVE TurnDescribes(t)'
    BY <1>3, <1>8 DEF Raise, CancelSaving, patching
<1>9. ASSUME NEW u \in Turns, CancelDescribing(u) PROVE TurnDescribes(t)'
    <2>1. /\ stage[u] = "describing" /\ stage' = [stage EXCEPT ![u] = "over"]
          /\ writer' = writer \/ writer' = [writer EXCEPT ![u] = "none"]
        BY <1>9 DEF CancelDescribing
    <2>2. CASE u = t
        BY <1>1, <2>1, <2>2 DEF TypeOK, TurnDescribes
    <2>3. CASE u # t
        <3>1. stage'[t] = stage[t] /\ writer'[t] = writer[t]
            BY <1>1, <2>1, <2>3 DEF TypeOK
        <3>2. QED
            BY <1>2, <3>1
    <2>4. QED
        BY <2>2, <2>3
<1>10. ASSUME NEW w \in Writers, WriteMeta(w) \/ MetaFails(w) PROVE TurnDescribes(t)'
    <2>1. WriterDone(w)
        BY <1>10 DEF WriteMeta, MetaFails
    <2>2. /\ writer' = [writer EXCEPT ![w] = IF w \in Patches THEN "done" ELSE "none"]

        BY <2>1 DEF WriterDone
    <2>3. CASE w = t
        BY <1>1, <2>1, <2>2, <2>3 DEF TypeOK, TurnDescribes, WriterDone
    <2>4. CASE w # t
        BY <1>1, <1>2, <2>1, <2>2, <2>4 DEF TypeOK, WriterDone
    <2>5. QED
        BY <2>3, <2>4
<1>11. ASSUME NEW w \in Writers, ReadMeta(w) PROVE TurnDescribes(t)'
    <2>1. /\ stage' = stage /\ writer[w] = "reading"
          /\ writer' = [writer EXCEPT ![w] = "writing"]
        BY <1>11 DEF ReadMeta, session
    <2>2. \/ writer'[t] = writer[t]
          \/ writer[t] = "reading" /\ writer'[t] = "writing"
        BY <1>1, <2>1 DEF TypeOK
    <2>3. QED
        BY <1>1, <2>1, <2>2 DEF TurnDescribes
<1>12. ASSUME NEW p \in Patches, NEW k \in PatchKeys, Patch(p, k) PROVE TurnDescribes(t)'
    <2>1. stage' = stage /\ writer'[t] = writer[t]
        BY <1>1, <1>12 DEF Patch, session, TypeOK
    <2>2. QED
        BY <1>2, <2>1
<1>13. CASE Crash
    <2>1. stage'[t] \in {"none", "over"} /\ writer'[t] = "none"
        BY <1>1, <1>13 DEF Crash
    <2>2. QED
        BY <2>1 DEF TurnDescribes
<1>14. CASE UNCHANGED <<stage, writer>>
    BY <1>2, <1>14
<1>15. QED
    BY <1>5, <1>6, <1>7, <1>8, <1>9, <1>10, <1>11, <1>12, <1>13, <1>14
    DEF Next, vars, session, patching, Answer, Say, Compact, ToolPost, ToolCancelled, Write,
        UpdateMetadata, Resume, Register, Delete

\* Every step keeps saves and turns together.
LEMMA SavesHaveTurnsStep ==
    ASSUME TypeOK, WritersHaveTheirs, LivesRunTurns, SavesHaveTurns, [Next]_vars
    PROVE  SavesHaveTurns'
BY SavesHaveLivesStep, TurnSavesStep, TurnDescribesStep DEF SavesHaveTurns

\* What is in a context was there, is said by a turn that has come, or was loaded.
LEMMA ContextSteps ==
    ASSUME TypeOK, LivesRunTurns, SavesHaveTurns, [Next]_vars, NEW l \in Lives,
           NEW m \in context'[l]
    PROVE  \/ m \in context[l]
           \/ \E t \in Turns : m[1] = t /\ stage'[t] # "none"
           \/ m \in transcript
<1>1. ASSUME NEW k \in Lives, NEW t \in Turns, Prompt(k, t)
      PROVE  m \in context[l] \/ (m[1] = t /\ stage'[t] # "none")
    <2>1. context'[l] \subseteq context[l] \cup {<<t, "prompt">>} /\ stage'[t] = "working"
        BY <1>1 DEF Prompt, TypeOK
    <2>2. QED
        BY <2>1
<1>2. ASSUME NEW t \in Turns, NEW part, Say(t, part)
      PROVE  m \in context[l] \/ (m[1] = t /\ stage'[t] # "none")
    <2>1. context'[l] \subseteq context[l] \cup {<<t, part>>} /\ stage'[t] = "working"
        BY <1>2 DEF Say, TypeOK
    <2>2. QED
        BY <2>1
<1>3. ASSUME NEW t \in Turns, Compact(t) PROVE m \in context[l]
    BY <1>3 DEF Compact, TypeOK
<1>4. ASSUME NEW r \in Resumes, Resume(r) PROVE m \in context[l] \/ m \in transcript
    BY <1>4 DEF Resume, Loaded, TypeOK
<1>5. ASSUME Crash PROVE m \in context[l]
    BY <1>5 DEF Crash
<1>6. CASE context' = context
    BY <1>6
<1>7. QED
    BY <1>1, <1>2, <1>3, <1>4, <1>5, <1>6
    DEF Next, vars, session, Answer, Complete, Raise, CancelSaving, CancelDescribing, ToolPost,
        ToolCancelled, Write, Saved, SaveFails, Patch, UpdateMetadata, ReadMeta, WriteMeta,
        MetaFails, Register, Delete

\* nothing of a turn that has not come,
LEMMA NoTraceBeforeStep ==
    ASSUME TypeOK, LivesRunTurns, SavesHaveTurns, NoTraceBefore, [Next]_vars
    PROVE  NoTraceBefore'
<1> SUFFICES ASSUME NEW t \in Turns, stage'[t] = "none"
             PROVE  /\ \A l \in Lives : <<t, "answer">> \notin context'[l]
                    /\ \A s \in Saves : <<t, "answer">> \notin save'[s]
                    /\ <<t, "answer">> \notin transcript'
    BY DEF NoTraceBefore
<1>1. stage[t] = "none"
    BY Steady
<1>2. /\ \A l \in Lives : <<t, "answer">> \notin context[l]
      /\ \A s \in Saves : <<t, "answer">> \notin save[s]
      /\ <<t, "answer">> \notin transcript
    BY <1>1 DEF NoTraceBefore
<1>3. \A l \in Lives : <<t, "answer">> \notin context'[l]
    BY <1>2, ContextSteps
<1>4. ASSUME NEW s \in Saves PROVE <<t, "answer">> \notin save'[s]
    <2>1. CASE save'[s] \in {save[s], {}}
        BY <1>2, <2>1
    <2>2. CASE SaveBegins(s)
        <3>1. s[1] \in Turns /\ stage[s[1]] \in {"working", "left"}
            BY <2>2, SaveNames DEF SaveBegins, ToolPost, Complete
        <3>2. runner[s[1]] \in Lives
            BY <3>1, TurnHasLife
        <3>3. save'[s] = context[runner[s[1]]]
            BY <2>2 DEF SaveBegins, TypeOK
        <3>4. QED
            BY <1>2, <3>2, <3>3
    <2>3. QED
        BY <2>1, <2>2, SaveSteps
<1>5. <<t, "answer">> \notin transcript'
    <2>1. ASSUME NEW s \in Saves, Write(s) PROVE <<t, "answer">> \notin transcript'
        BY <1>2, <2>1 DEF Write
    <2>2. CASE transcript' = transcript
        BY <1>2, <2>2
    <2>3. QED
        BY <2>1, <2>2
        DEF Next, vars, saving, Prompt, Answer, Say, Compact, Complete, Raise, CancelSaving,
            CancelDescribing, ToolPost, ToolCancelled, Saved, SaveFails, Patch, UpdateMetadata,
            ReadMeta, WriteMeta, MetaFails, Resume, Register, Delete, Crash
<1>6. QED
    BY <1>3, <1>4, <1>5

\* When the transcript changes, a thread writes it.
LEMMA TranscriptSteps ==
    ASSUME [Next]_vars
    PROVE  \/ UNCHANGED <<transcript, late>>
           \/ \E s \in Saves : Write(s)
BY DEF Next, vars, saving, Prompt, Answer, Say, Compact, Complete, Raise, CancelSaving,
       CancelDescribing, ToolPost, ToolCancelled, Saved, SaveFails, Patch, UpdateMetadata,
       ReadMeta, WriteMeta, MetaFails, Resume, Register, Delete, Crash

\* A stage changes along the turn's way.
StageMoves(t) ==
    \/ stage'[t] = stage[t]
    \/ /\ stage[t] = "none" /\ stage'[t] = "working"
       /\ \E l \in Lives : Prompt(l, t)
    \/ stage[t] = "working" /\ stage'[t] \in {"saving", "describing"} /\ Complete(t)
    \/ stage[t] = "working" /\ stage'[t] = "left" /\ Raise(t)
    \/ /\ stage[t] = "saving" /\ stage'[t] = "describing"
       /\ Saved(LastSave(t)) \/ SaveFails(LastSave(t))
    \/ stage[t] = "saving" /\ stage'[t] = "over" /\ CancelSaving(t)
    \/ stage[t] \in {"describing", "over"} /\ stage'[t] = "over"

\* What the steps do to the stages.
LEMMA StageSteps ==
    ASSUME TypeOK, SavesHaveTurns, [Next]_vars, ~Crash, NEW t \in Turns
    PROVE  StageMoves(t)
<1>1. ASSUME NEW u \in Turns, NEW g, stage' = [stage EXCEPT ![u] = g]
      PROVE  /\ u # t => stage'[t] = stage[t]
             /\ u = t => stage'[t] = g
    BY <1>1 DEF TypeOK
<1>2. ASSUME NEW l \in Lives, NEW u \in Turns, Prompt(l, u) PROVE StageMoves(t)
    <2>1. stage[u] = "none" /\ stage'[t] = IF u = t THEN "working" ELSE stage[t]
        BY <1>2 DEF Prompt, TypeOK
    <2>2. QED
        BY <1>2, <2>1 DEF StageMoves
<1>3. ASSUME NEW u \in Turns, Complete(u) PROVE StageMoves(t)
    <2>1. /\ stage[u] = "working"
          /\ stage' = [stage EXCEPT ![u] = "saving"] \/ stage' = [stage EXCEPT ![u] = "describing"]
        BY <1>3 DEF Complete, TranscriptKept, Describe
    <2>2. QED
        BY <1>1, <1>3, <2>1 DEF StageMoves
<1>4. ASSUME NEW u \in Turns, Raise(u) \/ CancelSaving(u) \/ CancelDescribing(u)
      PROVE  StageMoves(t)
    <2>1. CASE Raise(u)
        <3>1. stage[u] = "working" /\ stage'[t] = IF u = t THEN "left" ELSE stage[t]
            BY <2>1 DEF Raise, TypeOK
        <3>2. QED
            BY <2>1, <3>1 DEF StageMoves
    <2>2. CASE CancelSaving(u)
        <3>1. stage[u] = "saving" /\ stage'[t] = IF u = t THEN "over" ELSE stage[t]
            BY <2>2 DEF CancelSaving, TypeOK
        <3>2. QED
            BY <2>2, <3>1 DEF StageMoves
    <2>3. CASE CancelDescribing(u)
        BY <1>1, <2>3 DEF CancelDescribing, StageMoves
    <2>4. QED
        BY <1>4, <2>1, <2>2, <2>3
<1>5. ASSUME NEW s \in Saves, Saved(s) \/ SaveFails(s) PROVE StageMoves(t)
    <2>1. s[1] \in Turns /\ (s[2] = EndOfTurn => s = LastSave(s[1]) /\ stage[s[1]] = "saving")
        BY <1>5, SaveHasTurn, WrittenIsSave DEF Saved, SaveFails
    <2>2. \/ s[2] = EndOfTurn /\ stage' = [stage EXCEPT ![s[1]] = "describing"]
          \/ stage' = stage
        BY <1>5 DEF Saved, SaveFails, TranscriptKept, Describe
    <2>3. QED
        BY <1>1, <1>5, <2>1, <2>2 DEF StageMoves
<1>6. ASSUME NEW w \in Writers, WriteMeta(w) \/ MetaFails(w) PROVE StageMoves(t)
    <2>1. WriterDone(w) /\ writer[w] # "none"
        BY <1>6 DEF WriteMeta, MetaFails
    <2>2. w = t => stage[t] \in {"describing", "over"}
        BY <2>1 DEF SavesHaveTurns, TurnDescribes
    <2>3. stage'[t] = IF t = w THEN "over" ELSE stage[t]
        BY <2>1 DEF WriterDone
    <2>4. QED
        BY <2>2, <2>3 DEF StageMoves
<1>7. CASE stage' = stage
    BY <1>7 DEF StageMoves
<1>8. QED
    BY <1>2, <1>3, <1>4, <1>5, <1>6, <1>7
    DEF Next, vars, session, Answer, Say, Compact, ToolPost, ToolCancelled, Write, Patch,
        UpdateMetadata, ReadMeta, Resume, Register, Delete

\* A save that goes on is in time as long as its turn waits for it; its handler is
\* cancelled by desertion only.
LEMMA StaysInTime ==
    ASSUME TypeOK, SavesHaveTurns, [Next]_vars, NEW s \in Saves, InTime(s)', ~SaveBegins(s)
    PROVE  InTime(s) /\ save'[s] = save[s] /\ stage'[s[1]] = stage[s[1]]
<1>1. save'[s] # {} /\ save'[s] = save[s] /\ s \notin left'
    BY SaveSteps DEF InTime, Late
<1>2. s \notin left
    <2>1. ASSUME s \in left PROVE save'[s] = {} \/ s \in left'
        <3>1. ASSUME NEW i \in Saves, Write(i) PROVE save'[s] = {} \/ s \in left'
            BY <2>1, <3>1 DEF Write, ThreadDone, TypeOK
        <3>2. ASSUME NEW i \in Saves, ToolCancelled(i) PROVE s \in left'
            BY <2>1, <3>2 DEF ToolCancelled, HandlerCancelled
        <3>3. ASSUME NEW t \in Turns, CancelSaving(t) PROVE s \in left'
            BY <2>1, <3>3 DEF CancelSaving, HandlerCancelled
        <3>4. CASE Crash
            BY <3>4 DEF Crash
        <3>5. CASE left' = left
            BY <2>1, <3>5
        <3>6. QED
            BY <3>1, <3>2, <3>3, <3>4, <3>5
            DEF Next, vars, saving, Prompt, Answer, Say, Compact, Complete, Raise,
                CancelDescribing, ToolPost, Saved, SaveFails, Patch, UpdateMetadata, ReadMeta,
                WriteMeta, MetaFails, Resume, Register, Delete
    <2>2. QED
        BY <1>1, <2>1
<1>3. s[1] \in Turns /\ (s[2] = EndOfTurn => s = LastSave(s[1]))
    BY SaveNames
<1>4. stage'[s[1]] = IF s[2] = EndOfTurn THEN "saving" ELSE "working"
    BY DEF InTime, Late
<1>5. ~Crash
    BY <1>1 DEF Crash
<1>6. stage[s[1]] # "none"
    BY <1>1 DEF SavesHaveTurns, SavesHaveLives
<1>7. CASE s[2] = EndOfTurn
    <2>1. stage'[s[1]] = "saving" /\ s = LastSave(s[1])
        BY <1>3, <1>4, <1>7
    <2>2. ~(Complete(s[1]) /\ stage[s[1]] = "working")
        BY <1>1, <1>3, <2>1 DEF SavesHaveTurns, TurnSaves
    <2>3. stage'[s[1]] = stage[s[1]]
        BY <1>3, <1>5, <2>1, <2>2, StageSteps DEF StageMoves
    <2>4. QED
        BY <1>1, <1>2, <1>7, <2>1, <2>3 DEF InTime, Late
<1>8. CASE s[2] # EndOfTurn
    <2>1. stage'[s[1]] = stage[s[1]]
        BY <1>3, <1>4, <1>5, <1>6, <1>8, StageSteps DEF StageMoves
    <2>2. QED
        BY <1>1, <1>2, <1>4, <1>8, <2>1 DEF InTime, Late
<1>9. QED
    BY <1>7, <1>8

\* who is not deserted to its saves,
LEMMA DesertersAreLateStep ==
    ASSUME TypeOK, LivesRunTurns, SavesHaveTurns, DesertersAreLate, [Next]_vars
    PROVE  DesertersAreLate'
<1> SUFFICES ASSUME ~deserted'
             PROVE  /\ ~late' /\ left' = {}
                    /\ \A t \in Turns : stage'[t] # "left"
                    /\ \A s \in Saves : save'[s] # {} => ~Late(s)'
    BY DEF DesertersAreLate
<1>1. /\ ~deserted /\ \A t \in Turns : ~Raise(t) /\ ~CancelSaving(t) /\ ~CancelDescribing(t)
      /\ \A s \in Saves : ~ToolCancelled(s)
    <2>1. \A t \in Turns : ~Raise(t) /\ ~CancelSaving(t) /\ ~CancelDescribing(t)
        BY DEF Raise, CancelSaving, CancelDescribing, Desert
    <2>2. \A s \in Saves : ~ToolCancelled(s)
        BY DEF ToolCancelled, Desert
    <2>3. ~deserted
        BY <2>1, <2>2
        DEF Next, vars, ghosts, Prompt, Answer, Say, Compact, Complete, ToolPost, Write, Saved,
            SaveFails, Patch, UpdateMetadata, ReadMeta, WriteMeta, MetaFails, Resume, Register,
            Delete, Crash
    <2>4. QED
        BY <2>1, <2>2, <2>3
<1>2. /\ ~late /\ left = {} /\ \A t \in Turns : stage[t] # "left"
      /\ \A s \in Saves : save[s] # {} => ~Late(s)
    BY <1>1 DEF DesertersAreLate
<1>3. left' = {}
    <2>1. ASSUME NEW s \in Saves, Write(s) PROVE left' = {}
        BY <1>2, <2>1 DEF Write, ThreadDone
    <2>2. QED
        BY <1>1, <1>2, <2>1
        DEF Next, vars, saving, Prompt, Answer, Say, Compact, Complete, ToolPost, Saved,
            SaveFails, Patch, UpdateMetadata, ReadMeta, WriteMeta, MetaFails, Resume, Register,
            Delete, Crash
<1>4. ~late'
    <2>1. ASSUME NEW s \in Saves, Write(s) PROVE ~late'
        BY <1>2, <2>1 DEF Write
    <2>2. QED
        BY <1>2, <2>1, TranscriptSteps
<1>5. ASSUME NEW t \in Turns PROVE stage'[t] # "left"
    <2>1. CASE Crash
        BY <2>1 DEF Crash
    <2>2. CASE ~Crash
        <3>1. StageMoves(t)
            BY <2>2, StageSteps
        <3>2. QED
            BY <1>1, <1>2, <3>1 DEF StageMoves
    <2>3. QED
        BY <2>1, <2>2
<1>6. ASSUME NEW s \in Saves, save'[s] # {} PROVE ~Late(s)'
    <2>1. s[1] \in Turns /\ ~Crash /\ (s[2] = EndOfTurn => s = LastSave(s[1]))
        BY <1>6, SaveNames DEF Crash
    <2>2. StageMoves(s[1])
        BY <2>1, StageSteps
    <2>3. CASE SaveBegins(s)
        <3>1. CASE ToolPost(s)
            <4>1. s[2] # EndOfTurn /\ stage'[s[1]] = stage[s[1]] /\ stage[s[1]] = "working"
                BY <1>2, <2>1, <3>1 DEF ToolPost, session
            <4>2. QED
                BY <1>3, <4>1 DEF Late
        <3>2. CASE s = LastSave(s[1]) /\ stage'[s[1]] = "saving"
            <4>1. s[2] = EndOfTurn
                BY <2>1, <3>2, SaveNames
            <4>2. QED
                BY <1>3, <3>2, <4>1 DEF Late
        <3>3. QED
            BY <2>3, <3>1, <3>2 DEF SaveBegins
    <2>4. CASE save'[s] = save[s]
        <3>1. stage[s[1]] = IF s[2] = EndOfTurn THEN "saving" ELSE "working"
            BY <1>2, <1>6, <2>4 DEF Late
        <3>2. CASE s[2] = EndOfTurn
            <4>1. /\ Saved(LastSave(s[1])) => save'[LastSave(s[1])] = {}
                  /\ SaveFails(LastSave(s[1])) => save'[LastSave(s[1])] = {}
                BY <2>1, SaveNames DEF Saved, SaveFails, TypeOK
            <4>2. stage'[s[1]] = "saving"
                BY <1>1, <1>6, <2>1, <2>2, <3>1, <3>2, <4>1 DEF StageMoves
            <4>3. QED
                BY <1>3, <3>2, <4>2 DEF Late
        <3>3. CASE s[2] # EndOfTurn
            <4>1. s \in Awaited(s[1])
                BY <1>2, <1>6, <2>4, <3>3 DEF Awaited
            <4>2. ~Complete(s[1])
                BY <2>1, <3>1, <3>3, <4>1 DEF Complete, SavesHaveTurns, TurnSaves
            <4>3. stage'[s[1]] = "working"
                BY <1>1, <2>1, <2>2, <3>1, <3>3, <4>2 DEF StageMoves
            <4>4. QED
                BY <1>3, <3>3, <4>3 DEF Late
        <3>4. QED
            BY <3>2, <3>3
    <2>5. QED
        BY <1>6, <2>3, <2>4, SaveSteps
<1>7. QED
    BY <1>3, <1>4, <1>5, <1>6

\* Without a compaction, the context of an open life grows.
LEMMA ContextGrows ==
    ASSUME TypeOK, LivesRunTurns, SavesHaveTurns, [Next]_vars, ~Crash, ~compacted',
           NEW l \in Lives, life[l] # "none"
    PROVE  context[l] \subseteq context'[l]
<1>1. \A t \in Turns : ~Compact(t)
    BY DEF Compact
<1>2. ASSUME NEW k \in Lives, NEW t \in Turns, Prompt(k, t)
      PROVE  context[l] \subseteq context'[l]
    BY <1>2 DEF Prompt, TypeOK
<1>3. ASSUME NEW t \in Turns, NEW part, Say(t, part)
      PROVE  context[l] \subseteq context'[l]
    BY <1>3 DEF Say, TypeOK
<1>4. ASSUME NEW r \in Resumes, Resume(r) PROVE context[l] \subseteq context'[l]
    <2>1. life[r] = "none" /\ context' = [context EXCEPT ![r] = Loaded] /\ r # l
        BY <1>4 DEF Resume
    <2>2. context'[l] = context[l]
        BY <2>1 DEF TypeOK
    <2>3. QED
        BY <2>2
<1>5. CASE context' = context
    BY <1>5
<1>6. QED
    BY <1>1, <1>2, <1>3, <1>4, <1>5
    DEF Next, vars, session, Answer, Complete, Raise, CancelSaving, CancelDescribing, ToolPost,
        ToolCancelled, Write, Saved, SaveFails, Patch, UpdateMetadata, ReadMeta, WriteMeta,
        MetaFails, Register, Delete

\* A compaction is remembered.
LEMMA CompactedStays ==
    ASSUME TypeOK, [Next]_vars
    PROVE  /\ compacted => compacted'
           /\ forked => forked'
           /\ failed => failed'
<1>1. compacted => compacted'
    BY DEF Next, vars, ghosts, Prompt, Answer, Say, Compact, Complete, Raise, CancelSaving,
        CancelDescribing, Desert, ToolPost, ToolCancelled, Write, Saved, SaveFails, Patch,
        UpdateMetadata, ReadMeta, WriteMeta, MetaFails, Resume, Register, Delete, Crash
<1>2. forked => forked'
    BY DEF Next, vars, ghosts, Prompt, Answer, Say, Compact, Complete, Raise, CancelSaving,
        CancelDescribing, Desert, ToolPost, ToolCancelled, Write, Saved, SaveFails, Patch,
        UpdateMetadata, ReadMeta, WriteMeta, MetaFails, Resume, Register, Delete, Crash
<1>3. failed => failed'
    BY DEF Next, vars, ghosts, Prompt, Answer, Say, Compact, Complete, Raise, CancelSaving,
        CancelDescribing, Desert, ToolPost, ToolCancelled, Write, Saved, SaveFails, Patch,
        UpdateMetadata, ReadMeta, WriteMeta, MetaFails, Resume, Register, Delete, Crash
<1>4. QED
    BY <1>1, <1>2, <1>3

\* saves and counts to what the context was,
LEMMA SavesAreSnapshotsStep ==
    ASSUME TypeOK, LivesRunTurns, SavesHaveTurns, SavesAreSnapshots, TypeOK', [Next]_vars
    PROVE  SavesAreSnapshots'
<1> SUFFICES ASSUME ~compacted'
             PROVE  /\ \A s \in Saves : save'[s] # {} => save'[s] \subseteq context'[runner'[s[1]]]
                    /\ \A l \in Lives : lastCount'[l] <= Cardinality(context'[l])
    BY DEF SavesAreSnapshots
<1>1. /\ \A s \in Saves : save[s] # {} => save[s] \subseteq context[runner[s[1]]]
      /\ \A l \in Lives : lastCount[l] <= Cardinality(context[l])
    BY CompactedStays DEF SavesAreSnapshots
<1>2. ASSUME NEW s \in Saves, save'[s] # {}
      PROVE  save'[s] \subseteq context'[runner'[s[1]]]
    <2>1. s[1] \in Turns /\ ~Crash
        BY <1>2, SaveNames DEF Crash
    <2>2. /\ stage[s[1]] # "none" /\ runner[s[1]] \in Lives
          /\ Open(runner[s[1]]) /\ save'[s] \subseteq context[runner[s[1]]]
        <3>1. CASE save'[s] \in {save[s], {}}
            BY <1>1, <1>2, <3>1, SaveHasTurn
        <3>2. CASE SaveBegins(s)
            <4>1. stage[s[1]] \in {"working", "left"} /\ save'[s] = context[runner[s[1]]]
                BY <3>2 DEF SaveBegins, ToolPost, Complete, TypeOK
            <4>2. QED
                BY <2>1, <4>1, TurnHasLife DEF LivesRunTurns, Running
        <3>3. QED
            BY <3>1, <3>2, SaveSteps
    <2>3. runner'[s[1]] = runner[s[1]] /\ context[runner[s[1]]] \subseteq context'[runner[s[1]]]
        BY <2>1, <2>2, Steady, ContextGrows DEF Open
    <2>4. QED
        BY <2>2, <2>3
<1>3. ASSUME NEW l \in Lives PROVE lastCount'[l] <= Cardinality(context'[l])
    <2>1. context[l] \in SUBSET Message /\ context'[l] \in SUBSET Message
        BY DEF TypeOK
    <2>2. Cardinality(context[l]) \in Nat /\ Cardinality(context'[l]) \in Nat
        BY <2>1, FiniteMessages
    <2>3. ASSUME NEW s \in Saves, Saved(s)
          PROVE  lastCount'[l] <= Cardinality(context'[l])
        <3>1. /\ context' = context /\ save[s] # {} /\ runner[s[1]] \in Lives
              /\ lastCount' = [lastCount EXCEPT ![runner[s[1]]] = Cardinality(save[s])]
            BY <2>3, SaveHasTurn, WrittenIsSave DEF Saved
        <3>2. CASE l = runner[s[1]]
            <4>1. save[s] \subseteq context[l] /\ lastCount'[l] = Cardinality(save[s])
                BY <1>1, <3>1, <3>2 DEF TypeOK
            <4>2. QED
                BY <2>1, <3>1, <4>1, FiniteMessages
        <3>3. CASE l # runner[s[1]]
            BY <1>1, <3>1, <3>3 DEF TypeOK
        <3>4. QED
            BY <3>2, <3>3
    <2>4. CASE Crash
        <3>1. lastCount'[l] = 0
            BY <2>4 DEF Crash
        <3>2. QED
            BY <2>2, <3>1
    <2>5. CASE lastCount' = lastCount /\ ~Crash
        <3>1. CASE life[l] # "none"
            <4>1. Cardinality(context[l]) <= Cardinality(context'[l])
                BY <2>1, <2>5, <3>1, ContextGrows, FiniteMessages
            <4>2. QED
                BY <1>1, <2>2, <2>5, <4>1 DEF TypeOK
        <3>2. CASE life[l] = "none"
            BY <2>2, <2>5, <3>2 DEF LivesRunTurns
        <3>3. QED
            BY <3>1, <3>2
    <2>6. QED
        BY <2>3, <2>4, <2>5
        DEF Next, vars, session, Prompt, Answer, Say, Compact, Complete, Raise, CancelSaving,
            CancelDescribing, ToolPost, ToolCancelled, Write, SaveFails, Patch, UpdateMetadata,
            ReadMeta, WriteMeta, MetaFails, Resume, Register, Delete
<1>4. QED
    BY <1>2, <1>3

\* No prompt comes to a life that runs a turn.
LEMMA PromptsSteady ==
    ASSUME TypeOK, LivesRunTurns, SavesHaveTurns, [Next]_vars, ~Crash, ~compacted',
           NEW t \in Turns, stage[t] \in Running
    PROVE  Prompts(context'[runner[t]]) = Prompts(context[runner[t]])
<1> DEFINE l == runner[t]
<1>1. l \in Lives /\ Open(l)
    BY OneRuns
<1>2. ASSUME NEW k \in Lives, NEW u \in Turns, Prompt(k, u)
      PROVE  Prompts(context'[l]) = Prompts(context[l])
    <2>1. k # l /\ context' = [context EXCEPT ![k] = @ \cup {<<u, "prompt">>}]
        BY <1>2 DEF Prompt, Idle
    <2>2. context'[l] = context[l]
        BY <1>1, <2>1 DEF TypeOK
    <2>3. QED
        BY <2>2
<1>3. ASSUME NEW u \in Turns, NEW part, part # "prompt", Say(u, part)
      PROVE  Prompts(context'[l]) = Prompts(context[l])
    <2>1. context'[l] = context[l] \/ context'[l] = context[l] \cup {<<u, part>>}
        BY <1>1, <1>3 DEF Say, TypeOK
    <2>2. QED
        BY <1>3, <2>1 DEF Prompts
<1>4. ASSUME NEW r \in Resumes, Resume(r) PROVE Prompts(context'[l]) = Prompts(context[l])
    <2>1. r # l /\ context' = [context EXCEPT ![r] = Loaded]
        BY <1>1, <1>4 DEF Resume, Open
    <2>2. context'[l] = context[l]
        BY <1>1, <2>1 DEF TypeOK
    <2>3. QED
        BY <2>2
<1>5. \A u \in Turns : ~Compact(u)
    BY DEF Compact
<1>6. CASE context' = context
    BY <1>6
<1>7. ASSUME NEW u \in Turns, Answer(u) \/ \E part \in Steps : Say(u, part)
      PROVE  Prompts(context'[l]) = Prompts(context[l])
    BY <1>3, <1>7, StepsAssumption DEF Answer
<1>8. QED
    BY <1>2, <1>4, <1>5, <1>6, <1>7
    DEF Next, vars, session, Complete, Raise, CancelSaving, CancelDescribing, ToolPost,
        ToolCancelled, Write, Saved, SaveFails, Patch, UpdateMetadata, ReadMeta, WriteMeta,
        MetaFails, Register, Delete

\* A save that begins in time is one of a turn under way.
LEMMA BeginsInTime ==
    ASSUME TypeOK, LivesRunTurns, NEW s \in Saves, SaveBegins(s)
    PROVE  /\ s[1] \in Turns /\ runner[s[1]] \in Lives /\ Open(runner[s[1]])
           /\ save'[s] = context[runner[s[1]]]
           /\ UNCHANGED <<context, runner, owner, life, transcript, late, compacted, forked>>
           /\ InTime(s)' => stage[s[1]] = "working"
<1>1. s[1] \in Turns /\ (s = LastSave(s[1]) => s[2] = EndOfTurn)
    BY SaveNames
<1>2. stage[s[1]] \in {"working", "left"}
    BY DEF SaveBegins, ToolPost, Complete
<1>3. runner[s[1]] \in Lives /\ Open(runner[s[1]])
    BY <1>1, <1>2, TurnHasLife DEF LivesRunTurns, Running
<1>4. save'[s] = context[runner[s[1]]]
    BY DEF SaveBegins, TypeOK
<1>5. UNCHANGED <<context, runner, owner, life, transcript, late, compacted, forked>>
    BY DEF SaveBegins, ToolPost, Complete, session, ghosts
<1>6. InTime(s)' => stage[s[1]] = "working"
    <2>1. CASE ToolPost(s)
        BY <1>1, <2>1 DEF ToolPost, session, InTime, Late
    <2>2. CASE Complete(s[1])
        BY <2>2 DEF Complete
    <2>3. QED
        BY <2>1, <2>2 DEF SaveBegins
<1>7. QED
    BY <1>1, <1>3, <1>4, <1>5, <1>6

\* A save in time is of a turn under way, which is saving only when it is its last.
LEMMA InTimeRuns ==
    ASSUME TypeOK, LivesRunTurns, SavesHaveTurns, NEW s \in Saves, InTime(s)
    PROVE  /\ save[s] # {} /\ s \notin left
           /\ s[1] \in Turns /\ runner[s[1]] \in Lives /\ Open(runner[s[1]])
           /\ stage[s[1]] \in Running
           /\ s[2] = EndOfTurn => s = LastSave(s[1]) /\ stage[s[1]] = "saving"
           /\ s[2] # EndOfTurn => stage[s[1]] = "working" /\ ~Answered(s[1])
<1>1. save[s] # {} /\ s \notin left /\ s[1] \in Turns /\ (s[2] = EndOfTurn => s = LastSave(s[1]))
    BY SaveNames DEF InTime, Late
<1>2. /\ s[2] = EndOfTurn => stage[s[1]] = "saving"
      /\ s[2] # EndOfTurn => stage[s[1]] = "working"
    BY DEF InTime, Late
<1>3. s[2] # EndOfTurn => s \in Awaited(s[1])
    BY <1>1 DEF Awaited
<1>4. s[2] # EndOfTurn => ~Answered(s[1])
    BY <1>1, <1>2, <1>3 DEF SavesHaveTurns, TurnSaves
<1>5. stage[s[1]] \in Running
    BY <1>2 DEF Running
<1>6. QED
    BY <1>1, <1>2, <1>4, <1>5, OneRuns

\* saves in time to the prompts that have come,
LEMMA SavesInTimeStep ==
    ASSUME TypeOK, LivesRunTurns, SavesHaveTurns, SavesInTime, [Next]_vars
    PROVE  SavesInTime'
<1> SUFFICES ASSUME ~compacted', NEW s \in Saves, InTime(s)'
             PROVE  Prompts(save'[s]) = Prompts(context'[runner'[s[1]]])
    BY DEF SavesInTime, Prompts
<1>1. ~compacted /\ ~Crash
    <2>1. save'[s] # {}
        BY DEF InTime
    <2>2. QED
        BY <2>1, CompactedStays DEF Crash
<1>2. CASE SaveBegins(s)
    <2>1. save'[s] = context[runner[s[1]]] /\ UNCHANGED <<context, runner>>
        BY <1>2, BeginsInTime
    <2>2. QED
        BY <2>1
<1>3. CASE ~SaveBegins(s)
    <2>1. InTime(s) /\ save'[s] = save[s]
        BY <1>3, StaysInTime
    <2>2. s[1] \in Turns /\ stage[s[1]] \in Running
        BY <2>1, InTimeRuns
    <2>3. Prompts(save[s]) = Prompts(context[runner[s[1]]])
        BY <1>1, <2>1 DEF SavesInTime
    <2>4. Prompts(context'[runner[s[1]]]) = Prompts(context[runner[s[1]]])
        BY <1>1, <2>2, PromptsSteady
    <2>5. runner'[s[1]] = runner[s[1]]
        BY <2>2, Steady DEF Running
    <2>6. QED
        BY <2>1, <2>3, <2>4, <2>5
<1>4. QED
    BY <1>2, <1>3

\* The thread of a save that a turn waits for, or waited for, is through.
LEMMA WriteInTime ==
    ASSUME TypeOK, LivesRunTurns, SavesHaveTurns, NEW s \in Saves, Write(s), ~forked', ~late'
    PROVE  /\ InTime(s) /\ runner[s[1]] = owner /\ ~forked
BY DEF Write, InTime, TypeOK

\* What the steps do to the saves whose thread is through.
LEMMA WrittenSteps ==
    ASSUME TypeOK, [Next]_vars, NEW s \in written'
    PROVE  \/ s \in written
           \/ s \in Saves /\ Write(s) /\ s \notin left
<1>1. ASSUME NEW i \in Saves, Write(i) PROVE s \in written \/ (s = i /\ i \notin left)
    BY <1>1 DEF Write, ThreadDone
<1>2. ASSUME NEW i \in Saves, ToolCancelled(i) \/ Saved(i) PROVE s \in written
    BY <1>2 DEF ToolCancelled, HandlerCancelled, Saved
<1>3. ASSUME NEW t \in Turns, CancelSaving(t) PROVE s \in written
    BY <1>3 DEF CancelSaving, HandlerCancelled
<1>4. ~Crash
    BY DEF Crash
<1>5. CASE written' = written
    BY <1>5
<1>6. QED
    BY <1>1, <1>2, <1>3, <1>4, <1>5
    DEF Next, vars, saving, Prompt, Answer, Say, Compact, Complete, Raise, CancelDescribing,
        ToolPost, SaveFails, Patch, UpdateMetadata, ReadMeta, WriteMeta, MetaFails, Resume,
        Register, Delete

\* What is written is what was to be written.
LEMMA WrittenStays ==
    ASSUME TypeOK, TypeOK', SavesHaveTurns, [Next]_vars, NEW s \in written'
    PROVE  s \in Saves /\ save[s] # {} /\ save'[s] = save[s] /\ s \notin left'
<1>1. s \in Saves /\ save'[s] # {} /\ s \notin left'
    BY DEF TypeOK
<1>2. save[s] # {}
    BY <1>1, WrittenSteps DEF Write, TypeOK
<1>3. QED
    BY <1>1, <1>2, SaveSteps DEF SaveBegins

\* the answer of a turn to what is not saved,
LEMMA AnswersAreNewsStep ==
    ASSUME TypeOK, TypeOK', LivesRunTurns, SavesHaveTurns, NoTraceBefore, SavesAreSnapshots,
           AnswersAreNews, [Next]_vars
    PROVE  AnswersAreNews'
<1> SUFFICES ASSUME Linear', NEW t \in Turns, stage'[t] = "working",
                    ~late' \/ runner'[t] # owner'
             PROVE  /\ lastCount'[runner'[t]]
                          <= Cardinality(context'[runner'[t]] \ {<<t, "answer">>})
                    /\ \A s \in written' : runner'[s[1]] = runner'[t] => <<t, "answer">> \notin save'[s]
    BY DEF AnswersAreNews
<1> DEFINE l == runner[t]
           ans == <<t, "answer">>
<1>1. ~forked /\ ~compacted /\ ~compacted' /\ ~forked' /\ Linear
    BY CompactedStays DEF Linear
<1>2. ~Crash
    BY DEF Crash
<1>3. StageMoves(t)
    BY <1>2, StageSteps
<1>4. CASE stage[t] # "working"
    <2>1. stage[t] = "none" /\ \E k \in Lives : Prompt(k, t)
        BY <1>3, <1>4 DEF StageMoves
    <2>2. PICK k \in Lives : Prompt(k, t)
        BY <2>1
    <2>3. /\ runner'[t] = k /\ lastCount' = lastCount /\ UNCHANGED <<save, written>>
          /\ context'[k] = context[k] \cup {<<t, "prompt">>}
        BY <2>2 DEF Prompt, saving, TypeOK
    <2>4. ans \notin context[k] /\ \A s \in Saves : ans \notin save[s]
        BY <2>1 DEF NoTraceBefore
    <2>5. context[k] \subseteq context'[k] \ {ans} /\ context'[k] \ {ans} \subseteq Message
        BY <2>3, <2>4 DEF TypeOK
    <2>6. Cardinality(context[k]) <= Cardinality(context'[k] \ {ans})
        BY <2>5, FiniteMessages
    <2>7. lastCount[k] <= Cardinality(context[k]) /\ lastCount[k] \in Nat
        BY <1>1 DEF SavesAreSnapshots, TypeOK
    <2>8. Cardinality(context[k]) \in Nat /\ Cardinality(context'[k] \ {ans}) \in Nat
        BY <2>5, FiniteMessages
    <2>9. lastCount'[k] <= Cardinality(context'[k] \ {ans})
        BY <2>3, <2>6, <2>7, <2>8
    <2>10. \A s \in written' : ans \notin save'[s]
        BY <2>3, <2>4 DEF TypeOK
    <2>11. QED
        BY <2>3, <2>9, <2>10
<1>5. CASE stage[t] = "working"
    <2>1. /\ runner'[t] = l /\ l \in Lives /\ Open(l)
          /\ \A u \in Turns : stage[u] \in Running /\ runner[u] = l => u = t
        BY <1>5, Steady, OneRuns DEF Running
    <2>2. /\ context[l] \subseteq context'[l] /\ context[l] \in SUBSET Message
          /\ context'[l] \in SUBSET Message /\ lastCount[l] \in Nat
        BY <1>1, <1>2, <2>1, ContextGrows DEF Open, TypeOK
    \* Before the step, the answer was not saved.
    <2>3. /\ lastCount[l] <= Cardinality(context[l] \ {ans})
          /\ \A s \in written : runner[s[1]] = l => ans \notin save[s]
        <3>1. CASE ~late \/ l # owner
            BY <1>1, <1>5, <3>1 DEF AnswersAreNews
        <3>2. CASE late /\ l = owner
            <4>1. \A r \in Resumes : ~Register(r)
                BY <1>1, <3>2 DEF Register
            <4>2. owner' = owner
                BY <4>1
                DEF Next, vars, ghosts, Prompt, Answer, Say, Compact, Complete, Raise,
                    CancelSaving, CancelDescribing, Desert, ToolPost, ToolCancelled, Write,
                    Saved, SaveFails, Patch, UpdateMetadata, ReadMeta, WriteMeta, MetaFails,
                    Resume, Delete, Crash
            <4>3. ~late'
                BY <2>1, <3>2, <4>2
            <4>4. PICK i \in Saves : Write(i)
                BY <3>2, <4>3, TranscriptSteps
            <4>5. InTime(i) /\ runner[i[1]] = owner
                BY <1>1, <4>3, <4>4, WriteInTime
            <4>6. i[1] = t
                BY <2>1, <3>2, <4>5, InTimeRuns
            <4>7. i[2] # EndOfTurn
                BY <1>5, <4>5, <4>6, InTimeRuns
            <4>8. ans \notin context[l]
                BY <4>5, <4>6, <4>7, InTimeRuns DEF Answered
            <4>9. \A s \in Saves : save[s] # {} /\ runner[s[1]] = l => ans \notin save[s]
                BY <1>1, <4>8 DEF SavesAreSnapshots
            <4>10. context[l] \ {ans} = context[l]
                BY <4>8
            <4>11. lastCount[l] <= Cardinality(context[l])
                BY <1>1, <2>1 DEF SavesAreSnapshots
            <4>12. QED
                BY <4>9, <4>10, <4>11, WrittenIsSave
        <3>3. QED
            BY <3>1, <3>2 DEF TypeOK
    <2>4. Cardinality(context[l] \ {ans}) <= Cardinality(context'[l] \ {ans})
        BY <2>2, FiniteMessages
    <2>5. /\ Cardinality(context[l] \ {ans}) \in Nat /\ Cardinality(context'[l] \ {ans}) \in Nat
        BY <2>2, FiniteMessages
    <2>6. lastCount'[l] <= Cardinality(context'[l] \ {ans})
        <3>1. ASSUME NEW s \in Saves, Saved(s)
              PROVE  lastCount'[l] <= Cardinality(context'[l] \ {ans})
            <4>1. /\ s \in written /\ save[s] # {} /\ context' = context
                  /\ lastCount' = [lastCount EXCEPT ![runner[s[1]]] = Cardinality(save[s])]
                BY <3>1, WrittenIsSave DEF Saved
            <4>2. CASE runner[s[1]] = l
                <5>1. lastCount'[l] = Cardinality(save[s])
                    BY <2>1, <4>1, <4>2 DEF TypeOK
                <5>2. save[s] \subseteq context[l] \ {ans}
                    BY <1>1, <2>3, <4>1, <4>2 DEF SavesAreSnapshots
                <5>3. context[l] \ {ans} \subseteq Message
                    BY <2>2
                <5>4. Cardinality(save[s]) <= Cardinality(context[l] \ {ans})
                    BY <5>2, <5>3, FiniteMessages
                <5>5. QED
                    BY <4>1, <5>1, <5>4
            <4>3. CASE runner[s[1]] # l
                <5>1. lastCount'[l] = lastCount[l]
                    BY <2>1, <4>1, <4>3 DEF TypeOK
                <5>2. QED
                    BY <2>3, <4>1, <5>1
            <4>4. QED
                BY <4>2, <4>3
        <3>2. CASE lastCount' = lastCount
            BY <2>2, <2>3, <2>4, <2>5, <3>2
        <3>3. QED
            BY <1>2, <3>1, <3>2
            DEF Next, vars, session, Prompt, Answer, Say, Compact, Complete, Raise, CancelSaving,
                CancelDescribing, ToolPost, ToolCancelled, Write, SaveFails, Patch,
                UpdateMetadata, ReadMeta, WriteMeta, MetaFails, Resume, Register, Delete
    <2>7. ASSUME NEW s \in written', runner'[s[1]] = l PROVE ans \notin save'[s]
        <3>1. s \in Saves /\ save[s] # {} /\ save'[s] = save[s] /\ s[1] \in Turns
            BY WrittenStays, SaveNames
        <3>2. runner[s[1]] = l
            BY <2>7, <3>1, Steady, SaveHasTurn
        <3>3. CASE s \in written
            BY <2>3, <3>1, <3>2, <3>3
        <3>4. CASE Write(s) /\ s \notin left
            <4>1. runner[s[1]] = owner /\ UNCHANGED <<owner, runner>>
                BY <1>1, <3>4 DEF Write, session
            <4>2. InTime(s)
                BY <1>1, <2>1, <3>1, <3>2, <3>4, <4>1, WriteInTime
            <4>3. s[1] = t
                BY <2>1, <3>1, <3>2, <4>2, InTimeRuns
            <4>4. s[2] # EndOfTurn
                BY <1>5, <3>1, <4>2, <4>3, InTimeRuns
            <4>5. ans \notin context[l]
                BY <3>1, <4>2, <4>3, <4>4, InTimeRuns DEF Answered
            <4>6. QED
                BY <1>1, <3>1, <3>2, <4>5 DEF SavesAreSnapshots
        <3>5. QED
            BY <3>3, <3>4, WrittenSteps
    <2>8. QED
        BY <2>1, <2>6, <2>7
<1>6. QED
    BY <1>4, <1>5

\* The owner is who was registered last.
LEMMA OwnerSteps ==
    ASSUME TypeOK, [Next]_vars, \A r \in Resumes : ~Register(r)
    PROVE  owner' = owner /\ (Open(owner)' => Open(owner) /\ ~Crash)
<1>1. owner' = owner
    BY DEF Next, vars, ghosts, Prompt, Answer, Say, Compact, Complete, Raise, CancelSaving,
           CancelDescribing, Desert, ToolPost, ToolCancelled, Write, Saved, SaveFails, Patch,
           UpdateMetadata, ReadMeta, WriteMeta, MetaFails, Resume, Delete, Crash
<1>2. ASSUME NEW r \in Resumes, Resume(r), Open(owner)' PROVE Open(owner)
    <2>1. life' = [life EXCEPT ![r] = "building"] /\ owner \in Lives
        BY <1>2 DEF Resume, TypeOK
    <2>2. life'[owner] \in {"live", "deleted"}
        BY <1>1, <1>2 DEF Open
    <2>3. QED
        BY <2>1, <2>2 DEF TypeOK, Open
<1>3. ASSUME Delete, Open(owner)' PROVE Open(owner)
    BY <1>1, <1>3 DEF Delete, TypeOK, Open
<1>4. ASSUME Crash PROVE ~Open(owner)'
    BY <1>1, <1>4 DEF Crash, TypeOK, Open
<1>5. life' = life => (Open(owner)' => Open(owner))
    BY <1>1 DEF Open
<1>6. Open(owner)' => Open(owner)
    BY <1>2, <1>3, <1>4, <1>5
    DEF Next, vars, session, Prompt, Answer, Say, Compact, Complete, Raise, CancelSaving,
        CancelDescribing, ToolPost, ToolCancelled, Write, Saved, SaveFails, Patch,
        UpdateMetadata, ReadMeta, WriteMeta, MetaFails
<1>7. QED
    BY <1>1, <1>4, <1>6

\* Who is registered begins with what is in the file, and with nothing of its own.
LEMMA Registered ==
    ASSUME TypeOK, LivesRunTurns, NEW r \in Resumes, Register(r), ~forked'
    PROVE  /\ r \in Lives /\ owner' = r /\ ~late /\ ~forked /\ context[r] = transcript \ Torn
           /\ r \notin settled /\ \A t \in Turns : runner[t] # r
           /\ UNCHANGED <<context, runner, stage, save, written, left, transcript, late, update,
                          base, meta, kept, settled, compacted, failed>>
<1>1. /\ r \in Lives /\ owner' = r /\ life[r] = "building" /\ ~late /\ ~forked
      /\ context[r] = transcript \ Torn
    BY SaveNames DEF Register, TypeOK, Loaded
<1>2. r \notin settled /\ \A t \in Turns : runner[t] # r
    BY <1>1 DEF LivesRunTurns
<1>3. UNCHANGED <<context, runner, stage, save, written, left, transcript, late, update, base,
                  meta, kept, settled, compacted, failed>>
    BY DEF Register, saving, patching
<1>4. QED
    BY <1>1, <1>2, <1>3

\* A turn's end that is not saved for want of news comes after a late write only.
LEMMA NoNews ==
    ASSUME TypeOK, LivesRunTurns, AnswersAreNews, Linear, NEW t \in Turns,
           Complete(t), ~HasNews(runner[t])
    PROVE  late /\ runner[t] = owner
<1> DEFINE l == runner[t]
           ans == <<t, "answer">>
<1>1. stage[t] = "working" /\ l \in Lives /\ ans \in context[l]
    BY OneRuns DEF Complete, Answered, Running
<1>2. context[l] \subseteq Message /\ lastCount[l] \in Nat
    BY <1>1 DEF TypeOK
<1>3. context[l] \ {ans} \subseteq context[l] /\ context[l] \ {ans} # context[l]
    BY <1>1
<1>4. /\ Cardinality(context[l] \ {ans}) < Cardinality(context[l])
      /\ Cardinality(context[l]) \in Nat /\ Cardinality(context[l] \ {ans}) \in Nat
    BY <1>2, <1>3, FiniteMessages
<1>5. ~(lastCount[l] <= Cardinality(context[l] \ {ans}))
    BY <1>2, <1>4 DEF HasNews
<1>6. QED
    BY <1>1, <1>5 DEF AnswersAreNews, TypeOK

\* What else a turn's end without news is.
LEMMA EndsUnsaved ==
    ASSUME TypeOK, LivesRunTurns, SavesHaveTurns, NEW t \in Turns, Complete(t)
    PROVE  /\ stage[t] = "working" /\ runner[t] \in Lives /\ Open(runner[t])
           /\ {<<t, "prompt">>, <<t, "answer">>} \subseteq context[runner[t]]
           /\ UNCHANGED <<context, runner, written, left, transcript, late, base, meta, owner,
                          life, forked, compacted, failed>>
           /\ \/ HasNews(runner[t]) /\ UNCHANGED <<kept, settled, update>>
              \/ /\ ~HasNews(runner[t]) /\ save' = save /\ stage'[t] = "describing"
                 /\ TranscriptKept(t)
<1>1. stage[t] = "working" /\ Answered(t)
    BY DEF Complete
<1>2. /\ runner[t] \in Lives /\ Open(runner[t])
      /\ {<<t, "prompt">>, <<t, "answer">>} \subseteq context[runner[t]]
    BY <1>1, OneRuns DEF SavesHaveTurns, TurnSaves, Answered, Running
<1>3. UNCHANGED <<context, runner, written, left, transcript, late, base, meta, owner, life,
                  forked, compacted, failed>>
    BY DEF Complete
<1>4. \/ HasNews(runner[t]) /\ UNCHANGED <<kept, settled, update>>
      \/ /\ ~HasNews(runner[t]) /\ save' = save /\ stage'[t] = "describing"
         /\ TranscriptKept(t)
    BY DEF Complete, TranscriptKept, Describe, TypeOK
<1>5. QED
    BY <1>1, <1>2, <1>3, <1>4

\* A turn comes to be one that may not be lost when its last save is written, or when it
\* ends without one.
LEMMA DurableSteps ==
    ASSUME TypeOK, TypeOK', SavesHaveTurns, [Next]_vars, NEW t \in Durable'
    PROVE  \/ t \in Durable
           \/ t \in Turns /\ Write(LastSave(t)) /\ LastSave(t) \notin left
           \/ t \in Turns /\ Complete(t) /\ ~HasNews(runner[t])
<1>1. CASE LastSave(t) \in written' /\ t \in Turns
    BY <1>1, WrittenSteps DEF Durable
<1>2. CASE t \in kept'
    <2>1. ASSUME NEW s \in Saves, Saved(s) PROVE t \in Durable
        <3>1. s \in written /\ s[1] \in Turns /\ (s[2] = EndOfTurn => s = LastSave(s[1]))
            BY <2>1, SaveNames DEF Saved
        <3>2. kept' = kept \/ (s[2] = EndOfTurn /\ kept' = kept \cup {s[1]})
            BY <2>1 DEF Saved, TranscriptKept
        <3>3. QED
            BY <1>2, <3>1, <3>2 DEF Durable
    <2>2. ASSUME NEW u \in Turns, Complete(u), t \notin kept PROVE u = t /\ ~HasNews(runner[t])
        BY <1>2, <2>2 DEF Complete, TranscriptKept
    <2>3. CASE t \in kept
        BY <2>3 DEF Durable
    <2>4. CASE kept' = kept
        BY <1>2, <2>3, <2>4
    <2>5. t \in Turns
        BY <1>2 DEF TypeOK
    <2>6. QED
        BY <2>1, <2>2, <2>3, <2>4, <2>5
        DEF Next, vars, ghosts, Prompt, Answer, Say, Compact, Raise, CancelSaving,
            CancelDescribing, Desert, ToolPost, ToolCancelled, Write, SaveFails, Patch,
            UpdateMetadata, ReadMeta, WriteMeta, MetaFails, Resume, Register, Delete, Crash
<1>3. QED
    BY <1>1, <1>2 DEF Durable, LastSave

\* A save in time of a life is of the one turn it runs.
LEMMA InTimeIsOfTheTurn ==
    ASSUME TypeOK, LivesRunTurns, SavesHaveTurns, NEW t \in Turns, stage[t] \in Running,
           NEW s \in Saves, InTime(s), runner[s[1]] = runner[t]
    PROVE  s[1] = t /\ (stage[t] = "saving" => s = LastSave(t)) /\ stage[t] # "describing"
<1>1. s[1] = t
    BY InTimeRuns, OneRuns
<1>2. QED
    BY <1>1, InTimeRuns

\* The last save of a turn that is saving holds what may not be lost of it.
LEMMA LastSaveHolds ==
    ASSUME TypeOK, LivesRunTurns, SavesHaveTurns, NEW t \in Turns,
           save[LastSave(t)] # {}, LastSave(t) \notin left
    PROVE  /\ stage[t] = "saving" /\ runner[t] \in Lives /\ Open(runner[t]) /\ InTime(LastSave(t))
           /\ save[LastSave(t)] = context[runner[t]] /\ Said(t) \subseteq save[LastSave(t)]
<1>1. stage[t] = "saving" /\ save[LastSave(t)] = context[runner[t]]
    BY DEF SavesHaveTurns, TurnSaves
<1>2. /\ runner[t] \in Lives /\ Open(runner[t])
      /\ {<<t, "prompt">>, <<t, "answer">>} \subseteq context[runner[t]]
    BY <1>1, OneRuns DEF SavesHaveTurns, TurnSaves, Answered, Running
<1>3. InTime(LastSave(t))
    BY <1>1, SaveNames DEF InTime, Late
<1>4. QED
    BY <1>1, <1>2, <1>3 DEF Said

\* the turns that may not be lost to where they are,
LEMMA DurableTurnsStayStep ==
    ASSUME TypeOK, TypeOK', LivesRunTurns, SavesHaveTurns, SavesAreSnapshots, AnswersAreNews,
           DurableTurnsStay, [Next]_vars
    PROVE  DurableTurnsStay'
<1> SUFFICES ASSUME Linear', NEW t \in Durable'
             PROVE  /\ Open(owner)' => Said(t) \subseteq context'[owner']
                    /\ \A s \in Saves : InTime(s)' /\ runner'[s[1]] = owner' =>
                           Said(t) \subseteq save'[s]
                    /\ ~late' => Said(t) \subseteq transcript'
    BY DEF DurableTurnsStay, Open, Said
<1>1. Linear /\ ~compacted /\ ~forked /\ ~compacted' /\ ~forked'
    BY CompactedStays DEF Linear
\* A turn that already was among them.
<1>2. ASSUME t \in Durable
      PROVE  /\ Open(owner)' => Said(t) \subseteq context'[owner']
             /\ \A s \in Saves : InTime(s)' /\ runner'[s[1]] = owner' =>
                    Said(t) \subseteq save'[s]
             /\ ~late' => Said(t) \subseteq transcript'
    <2>1. /\ Open(owner) => Said(t) \subseteq context[owner]
          /\ \A s \in Saves : InTime(s) /\ runner[s[1]] = owner => Said(t) \subseteq save[s]
          /\ ~late => Said(t) \subseteq transcript
        BY <1>1, <1>2 DEF DurableTurnsStay
    <2>2. ASSUME NEW r \in Resumes, Register(r)
          PROVE  /\ Said(t) \subseteq context'[owner']
                 /\ \A s \in Saves : InTime(s)' => runner'[s[1]] # owner'
        <3>1. /\ owner' = r /\ context' = context /\ context[r] = transcript \ Torn /\ ~late
              /\ runner' = runner /\ \A u \in Turns : runner[u] # r
            BY <1>1, <2>2, Registered
        <3>2. Said(t) \cap Torn = {}
            BY DEF Said, Plain
        <3>3. QED
            BY <2>1, <3>1, <3>2, SaveNames
    <2>3. ASSUME Open(owner)' PROVE Said(t) \subseteq context'[owner']
        <3>1. CASE \A r \in Resumes : ~Register(r)
            <4>1. owner' = owner /\ Open(owner) /\ ~Crash
                BY <2>3, <3>1, OwnerSteps
            <4>2. owner \in Lives /\ life[owner] # "none"
                BY <4>1 DEF TypeOK, Open
            <4>3. context[owner] \subseteq context'[owner]
                BY <1>1, <4>1, <4>2, ContextGrows
            <4>4. QED
                BY <2>1, <4>1, <4>3
        <3>2. QED
            BY <2>2, <3>1
    <2>4. ASSUME NEW s \in Saves, InTime(s)', runner'[s[1]] = owner'
          PROVE  Said(t) \subseteq save'[s]
        <3>1. CASE SaveBegins(s)
            <4>1. /\ save'[s] = context[runner[s[1]]] /\ UNCHANGED <<runner, owner>>
                  /\ Open(runner[s[1]])
                BY <3>1, BeginsInTime
            <4>2. QED
                BY <2>1, <2>4, <4>1
        <3>2. CASE ~SaveBegins(s)
            <4>1. InTime(s) /\ save'[s] = save[s]
                BY <2>4, <3>2, StaysInTime
            <4>2. s[1] \in Turns /\ stage[s[1]] \in Running
                BY <4>1, InTimeRuns
            <4>3. runner'[s[1]] = runner[s[1]]
                BY <4>2, Steady DEF Running
            <4>4. owner' = owner
                BY <2>2, <2>4, OwnerSteps
            <4>5. QED
                BY <2>1, <2>4, <4>1, <4>3, <4>4
        <3>3. QED
            BY <3>1, <3>2
    <2>5. ASSUME ~late' PROVE Said(t) \subseteq transcript'
        <3>1. ASSUME NEW s \in Saves, Write(s) PROVE Said(t) \subseteq transcript'
            <4>1. InTime(s) /\ runner[s[1]] = owner
                BY <1>1, <2>5, <3>1, WriteInTime
            <4>2. Said(t) \subseteq save[s]
                BY <2>1, <4>1
            <4>3. transcript' = save[s] \ Unwritable
                BY <3>1 DEF Write
            <4>4. QED
                BY <4>2, <4>3 DEF Said, Plain
        <3>2. CASE UNCHANGED <<transcript, late>>
            BY <2>1, <2>5, <3>2
        <3>3. QED
            BY <3>1, <3>2, TranscriptSteps
    <2>6. QED
        BY <2>3, <2>4, <2>5
\* A turn whose last save is written now.
<1>3. ASSUME t \in Turns, Write(LastSave(t)), LastSave(t) \notin left
      PROVE  /\ Open(owner)' => Said(t) \subseteq context'[owner']
             /\ \A s \in Saves : InTime(s)' /\ runner'[s[1]] = owner' =>
                    Said(t) \subseteq save'[s]
             /\ ~late' => Said(t) \subseteq transcript'
    <2>1. /\ UNCHANGED <<owner, runner, context, stage, save, left>>
          /\ transcript' = save[LastSave(t)] \ Unwritable
          /\ save[LastSave(t)] # {} /\ runner[t] = owner
        BY <1>1, <1>3, SaveNames DEF Write, ThreadDone, session
    <2>2. /\ stage[t] = "saving" /\ save[LastSave(t)] = context[owner]
          /\ Said(t) \subseteq save[LastSave(t)]
        BY <1>3, <2>1, LastSaveHolds
    <2>3. ASSUME NEW s \in Saves, InTime(s)', runner'[s[1]] = owner'
          PROVE  Said(t) \subseteq save'[s]
        <3>1. InTime(s)
            BY <2>1, <2>3 DEF InTime, Late
        <3>2. s = LastSave(t)
            BY <1>3, <2>1, <2>2, <2>3, <3>1, InTimeIsOfTheTurn DEF Running
        <3>3. QED
            BY <2>1, <2>2, <3>2
    <2>4. Said(t) \subseteq transcript'
        BY <2>1, <2>2 DEF Said, Plain
    <2>5. QED
        BY <2>1, <2>2, <2>3, <2>4
\* A turn that ends without a save.
<1>4. ASSUME t \in Turns, Complete(t), ~HasNews(runner[t])
      PROVE  /\ Open(owner)' => Said(t) \subseteq context'[owner']
             /\ \A s \in Saves : InTime(s)' /\ runner'[s[1]] = owner' =>
                    Said(t) \subseteq save'[s]
             /\ ~late' => Said(t) \subseteq transcript'
    <2>1. late /\ runner[t] = owner
        BY <1>1, <1>4, NoNews
    <2>2. /\ stage[t] = "working" /\ UNCHANGED <<context, runner, owner, late, left, save>>
          /\ {<<t, "prompt">>, <<t, "answer">>} \subseteq context[owner]
          /\ stage'[t] = "describing" /\ \A u \in Turns \ {t} : stage'[u] = stage[u]
        <3>1. /\ stage[t] = "working" /\ UNCHANGED <<context, runner, owner, late, left, save>>
              /\ {<<t, "prompt">>, <<t, "answer">>} \subseteq context[owner]
              /\ stage'[t] = "describing" /\ TranscriptKept(t)
            BY <1>4, <2>1, EndsUnsaved
        <3>2. stage' = [stage EXCEPT ![t] = "describing"]
            BY <3>1 DEF TranscriptKept, Describe
        <3>3. \A u \in Turns \ {t} : stage'[u] = stage[u]
            BY <3>2 DEF TypeOK
        <3>4. QED
            BY <3>1, <3>3
    <2>3. ASSUME NEW s \in Saves, InTime(s)', runner'[s[1]] = owner' PROVE FALSE
        <3>1. s[1] # t
            BY <2>2, <2>3 DEF InTime, Late
        <3>2. InTime(s)
            BY <2>2, <2>3, <3>1, SaveNames DEF InTime, Late
        <3>3. s[1] = t
            BY <1>4, <2>1, <2>2, <2>3, <3>2, InTimeIsOfTheTurn DEF Running
        <3>4. QED
            BY <3>1, <3>3
    <2>4. QED
        BY <2>1, <2>2, <2>3 DEF Said
<1>5. QED
    BY <1>2, <1>3, <1>4, DurableSteps

\* A life counts as settled when its turn's end has been saved.
LEMMA SettledSteps ==
    ASSUME TypeOK, [Next]_vars, NEW l \in settled'
    PROVE  \/ l \in settled
           \/ \E t \in Turns : /\ runner[t] = l
                               /\ \/ Saved(LastSave(t))
                                  \/ Complete(t) /\ ~HasNews(l)
<1>1. ASSUME NEW s \in Saves, Saved(s), l \notin settled
      PROVE  s[1] \in Turns /\ s = LastSave(s[1]) /\ runner[s[1]] = l
    BY <1>1, SaveNames DEF Saved, TranscriptKept
<1>2. ASSUME NEW t \in Turns, Complete(t), l \notin settled
      PROVE  runner[t] = l /\ ~HasNews(l)
    BY <1>2 DEF Complete, TranscriptKept
<1>3. settled' \subseteq settled => l \in settled
    OBVIOUS
<1>4. ASSUME NEW k \in Lives, NEW t \in Turns, Prompt(k, t) PROVE settled' \subseteq settled
    BY <1>4 DEF Prompt
<1>5. CASE settled' = settled
    BY <1>5
<1>6. QED
    BY <1>1, <1>2, <1>3, <1>4, <1>5
    DEF Next, vars, ghosts, Answer, Say, Compact, Raise, CancelSaving, CancelDescribing, Desert,
        ToolPost, ToolCancelled, Write, SaveFails, Patch, UpdateMetadata, ReadMeta, WriteMeta,
        MetaFails, Resume, Register, Delete, Crash

\* A context that changes is of a life that takes a prompt, or whose turn is working, or that
\* is being built.
LEMMA ContextChanges ==
    ASSUME TypeOK, LivesRunTurns, [Next]_vars, ~Crash, NEW l \in Lives, Open(l)
    PROVE  \/ context'[l] = context[l]
           \/ \E t \in Turns : stage[t] = "working" /\ runner[t] = l
           \/ l \notin settled' /\ \A t \in Turns : runner[t] = l => stage[t] \notin Running
<1> DEFINE Goal == \/ context'[l] = context[l]
                   \/ \E t \in Turns : stage[t] = "working" /\ runner[t] = l
                   \/ l \notin settled' /\ \A t \in Turns : runner[t] = l => stage[t] \notin Running
<1>1. ASSUME NEW k \in Lives, NEW t \in Turns, Prompt(k, t) PROVE Goal
    <2>1. CASE k = l
        BY <1>1, <2>1 DEF Prompt, Idle
    <2>2. CASE k # l
        BY <1>1, <2>2 DEF Prompt, TypeOK
    <2>3. QED
        BY <2>1, <2>2
<1>2. ASSUME NEW t \in Turns, NEW c, stage[t] = "working", context' = [context EXCEPT ![runner[t]] = c]
      PROVE  Goal
    BY <1>2 DEF TypeOK
<1>3. ASSUME NEW t \in Turns, NEW part, Say(t, part) PROVE Goal
    BY <1>2, <1>3 DEF Say
<1>4. ASSUME NEW t \in Turns, Compact(t) PROVE Goal
    BY <1>2, <1>4 DEF Compact
<1>5. ASSUME NEW r \in Resumes, Resume(r) PROVE context'[l] = context[l]
    BY <1>5 DEF Resume, Open, TypeOK
<1>6. CASE context' = context
    BY <1>6
<1>7. QED
    BY <1>1, <1>3, <1>4, <1>5, <1>6
    DEF Next, vars, session, Answer, Complete, Raise, CancelSaving, CancelDescribing, ToolPost,
        ToolCancelled, Write, Saved, SaveFails, Patch, UpdateMetadata, ReadMeta, WriteMeta,
        MetaFails, Register, Delete

\* the file between turns to the owner's context,
LEMMA FileIsCurrentStep ==
    ASSUME TypeOK, TypeOK', LivesRunTurns, SavesHaveTurns, SavesHaveTurns', AnswersAreNews,
           FileIsCurrent, [Next]_vars
    PROVE  FileIsCurrent'
<1> SUFFICES ASSUME Linear', ~late',
                    \/ Open(owner)' /\ owner' \in settled'
                    \/ \E t \in Turns : LastSave(t) \in written' /\ runner'[t] = owner'
             PROVE  transcript' = context'[owner'] \ Unwritable
    BY DEF FileIsCurrent, Open, LastSave
<1>1. Linear /\ ~compacted /\ ~forked /\ ~compacted' /\ ~forked'
    BY CompactedStays DEF Linear
\* What is written still of the owner's turn is of the owner that was.
<1>2. ASSUME NEW t \in Turns, LastSave(t) \in written', runner'[t] = owner'
      PROVE  /\ stage[t] = "saving" /\ runner[t] = owner' /\ Open(owner)' /\ stage'[t] = "saving"
             /\ save[LastSave(t)] = context[runner[t]]
    <2>1. /\ LastSave(t) \in Saves /\ save[LastSave(t)] # {} /\ LastSave(t) \notin left'
          /\ save'[LastSave(t)] = save[LastSave(t)] /\ LastSave(t)[1] = t
        BY <1>2, WrittenStays, SaveNames
    <2>2. stage[t] # "none" /\ runner'[t] = runner[t]
        BY <2>1, SaveHasTurn, Steady
    <2>3. LastSave(t) \notin left
        BY <1>2, WrittenSteps, WrittenIsSave
    <2>4. stage[t] = "saving" /\ save[LastSave(t)] = context[runner[t]]
        BY <2>1, <2>3, LastSaveHolds
    <2>5. stage'[t] = "saving" /\ Open(runner[t])'
        BY <2>1 DEF SavesHaveTurns, SavesHaveLives, TurnSaves, LastSave
    <2>6. QED
        BY <1>2, <2>2, <2>4, <2>5 DEF Open
<1>3. \A r \in Resumes : ~Register(r)
    <2>1. ASSUME NEW r \in Resumes, Register(r) PROVE FALSE
        <3>1. owner' = r /\ r \notin settled' /\ \A t \in Turns : runner'[t] # r
            BY <1>1, <2>1, Registered
        <3>2. QED
            BY <3>1
    <2>2. QED
        BY <2>1
<1>4. /\ owner' = owner /\ ~Crash /\ Open(owner) /\ owner \in Lives
    BY <1>2, <1>3, OwnerSteps DEF TypeOK
\* The thread of the last save is through.
<1>5. ASSUME NEW s \in Saves, Write(s) PROVE transcript' = context'[owner'] \ Unwritable
    <2>1. /\ InTime(s) /\ runner[s[1]] = owner /\ transcript' = save[s] \ Unwritable
          /\ UNCHANGED <<settled, context, runner>>
        BY <1>1, <1>5, WriteInTime DEF Write, session
    <2>2. s[1] \in Turns /\ stage[s[1]] \in {"working", "saving"}
        BY <2>1, InTimeRuns
    <2>3. owner' \notin settled'
        BY <1>4, <2>1, <2>2 DEF LivesRunTurns
    <2>4. PICK t \in Turns : LastSave(t) \in written' /\ runner'[t] = owner'
        BY <2>3
    <2>5. stage[t] = "saving" /\ runner[t] = owner /\ save[LastSave(t)] = context[owner]
        BY <1>2, <1>4, <2>4
    <2>6. s = LastSave(t)
        BY <2>1, <2>5, InTimeIsOfTheTurn DEF Running
    <2>7. QED
        BY <1>4, <2>1, <2>5, <2>6
\* The file is what it was.
<1>6. ASSUME UNCHANGED <<transcript, late>>, \A s \in Saves : ~Write(s)
      PROVE  transcript' = context'[owner'] \ Unwritable
    <2>1. transcript = context[owner] \ Unwritable
        <3>1. ASSUME owner \in settled PROVE transcript = context[owner] \ Unwritable
            BY <1>1, <1>4, <1>6, <3>1 DEF FileIsCurrent
        <3>2. ASSUME NEW t \in Turns, LastSave(t) \in written, runner[t] = owner
              PROVE  transcript = context[owner] \ Unwritable
            BY <1>1, <1>4, <1>6, <3>2 DEF FileIsCurrent
        <3>3. CASE owner' \in settled'
            <4>1. ASSUME NEW t \in Turns, runner[t] = owner, Saved(LastSave(t))
                  PROVE  transcript = context[owner] \ Unwritable
                BY <3>2, <4>1 DEF Saved
            <4>2. ASSUME NEW t \in Turns, Complete(t), runner[t] = owner, ~HasNews(owner)
                  PROVE  FALSE
                BY <1>1, <1>6, <4>2, NoNews
            <4>3. QED
                BY <1>4, <3>1, <3>3, <4>1, <4>2, SettledSteps
        <3>4. ASSUME NEW t \in Turns, LastSave(t) \in written', runner'[t] = owner'
              PROVE  transcript = context[owner] \ Unwritable
            BY <1>2, <1>4, <1>6, <3>2, <3>4, WrittenSteps
        <3>5. QED
            BY <3>3, <3>4
    <2>2. context'[owner] = context[owner]
        <3>1. ASSUME NEW t \in Turns, stage[t] = "working", runner[t] = owner PROVE FALSE
            <4>1. owner \notin settled
                BY <3>1 DEF LivesRunTurns
            <4>2. ASSUME NEW u \in Turns, runner[u] = owner, Saved(LastSave(u)) PROVE FALSE
                <5>1. stage[u] = "saving"
                    BY <4>2, SaveHasTurn, SaveNames, WrittenIsSave DEF Saved
                <5>2. QED
                    BY <3>1, <4>2, <5>1, OneRuns DEF Running
            <4>3. ASSUME NEW u \in Turns, Complete(u), runner[u] = owner, ~HasNews(owner)
                  PROVE  FALSE
                BY <1>1, <1>6, <4>3, NoNews
            <4>4. owner' \notin settled'
                BY <1>4, <4>1, <4>2, <4>3, SettledSteps
            <4>5. PICK u \in Turns : LastSave(u) \in written' /\ runner'[u] = owner'
                BY <4>4
            <4>6. stage[u] = "saving" /\ runner[u] = owner
                BY <1>2, <1>4, <4>5
            <4>7. QED
                BY <3>1, <4>6, OneRuns DEF Running
        <3>2. ASSUME owner \notin settled', \A t \in Turns : runner[t] = owner => stage[t] \notin Running
              PROVE  FALSE
            <4>1. PICK u \in Turns : LastSave(u) \in written' /\ runner'[u] = owner'
                BY <1>4, <3>2
            <4>2. stage[u] = "saving" /\ runner[u] = owner
                BY <1>2, <1>4, <4>1
            <4>3. QED
                BY <3>2, <4>2 DEF Running
        <3>3. QED
            BY <1>4, <3>1, <3>2, ContextChanges
    <2>3. QED
        BY <1>4, <1>6, <2>1, <2>2
<1>7. QED
    BY <1>5, <1>6, TranscriptSteps

\* What is written in time of a context has its prompts.
LEMMA PromptsWritten ==
    ASSUME NEW m PROVE Prompts(m \ Unwritable) = Prompts(m)
BY UnwritableAssumption DEF Prompts

\* What is loaded of a transcript, too, as long as no prompt is torn.
LEMMA PromptsLoaded ==
    ASSUME PromptsStay, NEW m PROVE Prompts(m \ Torn) = Prompts(m)
BY DEF Prompts, PromptsStay

\* A save that is written in time brings the prompts of the owner's context.
LEMMA WritesPrompts ==
    ASSUME TypeOK, LivesRunTurns, SavesHaveTurns, SavesAreSnapshots, SavesInTime,
           NEW s \in Saves, Write(s), ~forked', ~compacted
    PROVE  /\ Prompts(transcript') = Prompts(save[s])
           /\ owner \in Lives /\ Open(owner)
           /\ Prompts(save[s]) \subseteq Prompts(context[owner])
           /\ ~late' => Prompts(save[s]) = Prompts(context[owner])
           /\ UNCHANGED <<owner, context, life, compacted, update, base, meta, failed>>
<1>1. /\ save[s] # {} /\ transcript' = save[s] \ Unwritable /\ runner[s[1]] = owner
      /\ UNCHANGED <<owner, context, life, compacted, update, base, meta, failed>>
    BY DEF Write, session, patching
<1>2. /\ owner \in Lives /\ Open(owner)
      /\ save[s] \subseteq context[owner]
    BY <1>1, SaveHasTurn DEF SavesAreSnapshots
<1>3. Prompts(save[s]) \subseteq Prompts(context[owner])
    BY <1>2 DEF Prompts
<1>4. ~late' => Prompts(save[s]) = Prompts(context[owner])
    BY <1>1, WriteInTime DEF SavesInTime
<1>5. QED
    BY <1>1, <1>2, <1>3, <1>4, PromptsWritten

\* the prompts of the file to the owner's context,
LEMMA FilePromptsAreInContextStep ==
    ASSUME TypeOK, TypeOK', LivesRunTurns, SavesHaveTurns, SavesAreSnapshots, SavesInTime,
           FilePromptsAreInContext, [Next]_vars
    PROVE  FilePromptsAreInContext'
<1> SUFFICES ASSUME Linear', PromptsStay
             PROVE  /\ Open(owner)' => Prompts(transcript') \subseteq Prompts(context'[owner'])
                    /\ \A t \in Turns : LastSave(t) \in written' =>
                         /\ Open(owner)' => Prompts(save'[LastSave(t)]) \subseteq Prompts(context'[owner'])
                         /\ ~late' => Prompts(save'[LastSave(t)]) \subseteq Prompts(transcript')
    BY DEF FilePromptsAreInContext, Open, LastSave, Prompts
<1>1. Linear /\ ~compacted /\ ~forked /\ ~compacted' /\ ~forked'
    BY CompactedStays DEF Linear
<1>2. /\ Open(owner) => Prompts(transcript) \subseteq Prompts(context[owner])
      /\ \A t \in Turns : LastSave(t) \in written =>
           /\ Open(owner) => Prompts(save[LastSave(t)]) \subseteq Prompts(context[owner])
           /\ ~late => Prompts(save[LastSave(t)]) \subseteq Prompts(transcript)
    BY <1>1 DEF FilePromptsAreInContext
<1>3. ASSUME NEW r \in Resumes, Register(r)
      PROVE  /\ Prompts(transcript') \subseteq Prompts(context'[owner'])
             /\ \A t \in Turns : LastSave(t) \in written' =>
                  /\ Prompts(save'[LastSave(t)]) \subseteq Prompts(context'[owner'])
                  /\ Prompts(save'[LastSave(t)]) \subseteq Prompts(transcript')
    <2>1. /\ owner' = r /\ context[r] = transcript \ Torn /\ ~late
          /\ UNCHANGED <<context, transcript, save, written>>
        BY <1>1, <1>3, Registered
    <2>2. Prompts(context'[owner']) = Prompts(transcript)
        BY <2>1, PromptsLoaded
    <2>3. QED
        BY <1>2, <2>1, <2>2
<1>4. ASSUME \A r \in Resumes : ~Register(r), Open(owner)'
      PROVE  /\ owner' = owner /\ Open(owner)
             /\ Prompts(context[owner]) \subseteq Prompts(context'[owner'])
    <2>1. owner' = owner /\ Open(owner) /\ ~Crash
        BY <1>4, OwnerSteps
    <2>2. owner \in Lives /\ life[owner] # "none"
        BY <2>1 DEF TypeOK, Open
    <2>3. context[owner] \subseteq context'[owner]
        BY <1>1, <2>1, <2>2, ContextGrows
    <2>4. QED
        BY <2>1, <2>3 DEF Prompts
<1>5. ASSUME NEW s \in Saves, Write(s)
      PROVE  /\ Open(owner)' => Prompts(transcript') \subseteq Prompts(context'[owner'])
             /\ \A t \in Turns : LastSave(t) \in written' =>
                  /\ Open(owner)' => Prompts(save'[LastSave(t)]) \subseteq Prompts(context'[owner'])
                  /\ ~late' => Prompts(save'[LastSave(t)]) \subseteq Prompts(transcript')
    <2>1. /\ Prompts(transcript') = Prompts(save[s])
          /\ Open(owner) /\ Prompts(save[s]) \subseteq Prompts(context[owner])
          /\ ~late' => Prompts(save[s]) = Prompts(context[owner])
          /\ UNCHANGED <<owner, context>>
        BY <1>1, <1>5, WritesPrompts
    <2>2. ASSUME NEW t \in Turns, LastSave(t) \in written'
          PROVE  Prompts(save[LastSave(t)]) \subseteq Prompts(context[owner])
        <3>1. CASE LastSave(t) \in written
            BY <1>2, <2>1, <3>1
        <3>2. CASE Write(LastSave(t))
            BY <1>1, <2>2, <3>2, SaveNames, WritesPrompts
        <3>3. QED
            BY <2>2, <3>1, <3>2, WrittenSteps
    <2>3. \A t \in Turns : LastSave(t) \in written' => save'[LastSave(t)] = save[LastSave(t)]
        BY WrittenStays
    <2>4. QED
        BY <2>1, <2>2, <2>3
<1>6. ASSUME UNCHANGED <<transcript, late>>, \A s \in Saves : ~Write(s),
             \A r \in Resumes : ~Register(r)
      PROVE  /\ Open(owner)' => Prompts(transcript') \subseteq Prompts(context'[owner'])
             /\ \A t \in Turns : LastSave(t) \in written' =>
                  /\ Open(owner)' => Prompts(save'[LastSave(t)]) \subseteq Prompts(context'[owner'])
                  /\ ~late' => Prompts(save'[LastSave(t)]) \subseteq Prompts(transcript')
    <2>1. \A t \in Turns : LastSave(t) \in written' =>
              LastSave(t) \in written /\ save'[LastSave(t)] = save[LastSave(t)]
        BY <1>6, WrittenSteps, WrittenStays
    <2>2. QED
        BY <1>2, <1>4, <1>6, <2>1
<1>7. QED
    BY <1>3, <1>5, <1>6, TranscriptSteps

\* A count that is behind a file is behind one that has more prompts.
LEMMA StaysBehind ==
    ASSUME NEW f, NEW a, NEW b, IsMetadata(f), IsBehind(f, a), Prompts(a) \subseteq Prompts(b)
    PROVE  IsBehind(f, b)
<1>1. /\ Cardinality(Prompts(a)) \in 0..MaxTurns
      /\ Cardinality(Prompts(b)) \in Nat
      /\ Cardinality(Prompts(a)) <= Cardinality(Prompts(b))
      /\ MaxTurns \in Nat
    BY PromptsCount, BoundsAssumption
<1>2. "turns" \in DOMAIN f => f["turns"] \in 0..MaxTurns
    BY DEF IsMetadata, Value
<1>3. QED
    BY <1>1, <1>2 DEF IsBehind


\* Neither what is merged of two that are behind is ahead, nor what is empty.
LEMMA MergeIsBehind ==
    ASSUME NEW f, NEW g, NEW a, IsMetadata(f), IsMetadata(g), IsBehind(f, a), IsBehind(g, a)
    PROVE  IsBehind(Merge(f, g), a) /\ IsBehind(Empty, a)
<1>1. /\ DOMAIN Merge(f, g) = DOMAIN f \cup DOMAIN g
      /\ \A k \in DOMAIN g : Merge(f, g)[k] = g[k]
      /\ \A k \in DOMAIN f \ DOMAIN g : Merge(f, g)[k] = f[k]
    BY MergeIsMetadata, Zenon
<1>2. QED
    BY <1>1, EmptyIsMetadata DEF IsBehind


\* After a step, no count is ahead of the messages.
BehindNext(messages) ==
    /\ IsBehind(meta', messages)
    /\ \A w \in Writers : IsBehind(update'[w], messages) /\ IsBehind(base'[w], messages)

\* A count that is behind messages is behind more messages.
LEMMA BehindNextGrows ==
    ASSUME TypeOK', NEW a, NEW b, BehindNext(a), Prompts(a) \subseteq Prompts(b)
    PROVE  BehindNext(b)
<1>1. ASSUME NEW f, IsMetadata(f), IsBehind(f, a) PROVE IsBehind(f, b)
    BY <1>1, StaysBehind
<1>2. /\ IsMetadata(meta') /\ \A w \in Writers : IsMetadata(update'[w]) /\ IsMetadata(base'[w])
    BY DEF TypeOK, IsMetadata, Value
<1>3. QED
    BY <1>1, <1>2 DEF BehindNext

\* The writers leave the counts behind what they were behind, unless a hook counts a context
\* that is ahead of it.
LEMMA WritersStayBehind ==
    ASSUME TypeOK, WritersHaveTheirs, SavesHaveTurns, [Next]_vars, ~failed', NEW a, AllBehind(a),
           \A t \in Turns : Saved(LastSave(t)) \/ (Complete(t) /\ ~HasNews(runner[t])) =>
               Prompts(context[runner[t]]) \subseteq Prompts(a)
    PROVE  BehindNext(a)
<1>1. ASSUME UNCHANGED <<update, base, meta>> PROVE BehindNext(a)
    BY <1>1 DEF AllBehind, BehindNext
<1>2. ASSUME NEW t \in Turns, Describe(t), UNCHANGED <<base, meta>>,
             Prompts(context[runner[t]]) \subseteq Prompts(a)
      PROVE  BehindNext(a)
    <2>1. /\ \A w \in Writers \ {t} : update'[w] = update[w]
          /\ update'[t]["turns"] = Cardinality(Prompts(context[runner[t]]))
        BY <1>2, Described
    <2>2. Cardinality(Prompts(context[runner[t]])) <= Cardinality(Prompts(a))
        BY <1>2, PromptsCount
    <2>3. IsBehind(update'[t], a)
        BY <2>1, <2>2 DEF IsBehind
    <2>4. QED
        BY <1>2, <2>1, <2>3 DEF AllBehind, BehindNext
<1>3. ASSUME NEW t \in Turns, Complete(t) PROVE BehindNext(a)
    <2>1. UNCHANGED <<base, meta>>
        BY <1>3 DEF Complete
    <2>2. update' = update \/ (~HasNews(runner[t]) /\ Describe(t))
        BY <1>3 DEF Complete, TranscriptKept
    <2>3. QED
        BY <1>1, <1>2, <1>3, <2>1, <2>2
<1>4. ASSUME NEW s \in Saves, Saved(s) PROVE BehindNext(a)
    <2>1. UNCHANGED <<base, meta>> /\ s[1] \in Turns /\ (s[2] = EndOfTurn => s = LastSave(s[1]))
        BY <1>4, SaveNames DEF Saved
    <2>2. update' = update \/ (s[2] = EndOfTurn /\ Describe(s[1]))
        BY <1>4 DEF Saved, TranscriptKept
    <2>3. QED
        BY <1>1, <1>2, <1>4, <2>1, <2>2
<1>5. \A s \in Saves : ~SaveFails(s)
    BY DEF SaveFails
<1>6. ASSUME NEW t \in Turns, CancelDescribing(t) PROVE BehindNext(a)
    BY <1>1, <1>6 DEF CancelDescribing
<1>7. ASSUME NEW p \in Patches, NEW k \in PatchKeys, Patch(p, k) PROVE BehindNext(a)
    <2> DEFINE f == [j \in {k} |-> p]
    <2>1. DOMAIN f = {k} /\ k # "turns"
        BY PatchIsMetadata
    <2>2. update' = [update EXCEPT ![p] = f] /\ UNCHANGED <<base, meta>>
        BY <1>7 DEF Patch
    <2> HIDE DEF f
    <2>3. \A w \in Writers : update'[w] = update[w] \/ update'[w] = f
        BY <2>2 DEF WritersHaveTheirs
    <2>4. IsBehind(f, a)
        BY <2>1 DEF IsBehind
    <2>5. QED
        BY <2>2, <2>3, <2>4 DEF AllBehind, BehindNext
<1>8. ASSUME NEW w \in Writers, ReadMeta(w) PROVE BehindNext(a)
    <2>1. base' = [base EXCEPT ![w] = meta] /\ UNCHANGED <<update, meta>>
        BY <1>8 DEF ReadMeta
    <2>2. \A v \in Writers : base'[v] = base[v] \/ base'[v] = meta
        BY <2>1 DEF WritersHaveTheirs
    <2>3. QED
        BY <2>1, <2>2 DEF AllBehind, BehindNext
<1>9. ASSUME NEW w \in Writers, WriteMeta(w) PROVE BehindNext(a)
    <2>1. WriterDone(w) /\ meta' = Merge(base[w], update[w])
        BY <1>9 DEF WriteMeta
    <2>2. IsBehind(meta', a) /\ IsBehind(Empty, a)
        <3>1. /\ IsMetadata(base[w]) /\ IsMetadata(update[w])
              /\ IsBehind(base[w], a) /\ IsBehind(update[w], a)
            BY DEF TypeOK, AllBehind
        <3>2. QED
            BY <2>1, <3>1, MergeIsBehind, Zenon
    <2>3. \A v \in Writers : update'[v] \in {update[v], Empty} /\ base'[v] \in {base[v], Empty}
        BY <2>1, Finished
    <2>4. QED
        BY <2>1, <2>2, <2>3 DEF AllBehind, BehindNext
<1>10. \A w \in Writers : ~MetaFails(w)
    BY DEF MetaFails
<1>11. CASE Crash
    <2>1. (\A w \in Writers : update'[w] = Empty /\ base'[w] = Empty) /\ meta' = meta
        BY <1>11 DEF Crash
    <2>2. IsBehind(Empty, a)
        BY EmptyIsMetadata DEF IsBehind
    <2>3. QED
        BY <2>1, <2>2 DEF AllBehind, BehindNext
<1>12. QED
    BY <1>1, <1>3, <1>4, <1>5, <1>6, <1>7, <1>8, <1>9, <1>10, <1>11
    DEF Next, vars, patching, Prompt, Answer, Say, Compact, Raise, CancelSaving, ToolPost,
        ToolCancelled, Write, UpdateMetadata, Resume, Register, Delete

\* the counts of turns behind the file,
LEMMA CountsAreBehindStep ==
    ASSUME TypeOK, TypeOK', WritersHaveTheirs, LivesRunTurns, SavesHaveTurns, SavesAreSnapshots,
           SavesInTime, AnswersAreNews, FilePromptsAreInContext, CountsAreBehind, [Next]_vars
    PROVE  CountsAreBehind'
<1> SUFFICES ASSUME Linear', PromptsStay, ~failed'
             PROVE  /\ ~late' => BehindNext(transcript')
                    /\ Open(owner)' => BehindNext(context'[owner'])
    BY DEF CountsAreBehind, Open, AllBehind, BehindNext, IsBehind, Prompts
<1>1. Linear /\ ~compacted /\ ~forked /\ ~failed /\ ~compacted' /\ ~forked'
    BY CompactedStays DEF Linear
<1>2. (~late => AllBehind(transcript)) /\ (Open(owner) => AllBehind(context[owner]))
    BY <1>1 DEF CountsAreBehind
<1>3. ASSUME NEW t \in Turns, Saved(LastSave(t))
      PROVE  /\ Open(owner) => Prompts(context[runner[t]]) \subseteq Prompts(context[owner])
             /\ ~late => Prompts(context[runner[t]]) \subseteq Prompts(transcript)
    <2>1. LastSave(t) \in written /\ save[LastSave(t)] # {} /\ LastSave(t) \notin left
        BY <1>3, WrittenIsSave DEF Saved
    <2>2. save[LastSave(t)] = context[runner[t]]
        BY <2>1, LastSaveHolds
    <2>3. QED
        BY <1>1, <2>1, <2>2 DEF FilePromptsAreInContext
<1>4. ASSUME ~late' PROVE BehindNext(transcript')
    <2>1. ASSUME NEW s \in Saves, Write(s) PROVE BehindNext(transcript')
        <3>1. /\ Prompts(transcript') = Prompts(context[owner]) /\ Open(owner)
              /\ UNCHANGED <<update, base, meta>>
            BY <1>1, <1>4, <2>1, WritesPrompts
        <3>2. BehindNext(context[owner])
            BY <1>2, <3>1 DEF AllBehind, BehindNext
        <3>3. QED
            BY <3>1, <3>2, BehindNextGrows
    <2>2. CASE UNCHANGED <<transcript, late>>
        <3>1. ~late /\ AllBehind(transcript)
            BY <1>2, <1>4, <2>2
        <3>2. \A t \in Turns : ~(Complete(t) /\ ~HasNews(runner[t]))
            BY <1>1, <3>1, NoNews
        <3>3. BehindNext(transcript)
            BY <1>3, <3>1, <3>2, WritersStayBehind
        <3>4. QED
            BY <2>2, <3>3
    <2>3. QED
        BY <2>1, <2>2, TranscriptSteps
<1>5. ASSUME Open(owner)' PROVE BehindNext(context'[owner'])
    <2>1. ASSUME NEW r \in Resumes, Register(r) PROVE BehindNext(context'[owner'])
        <3>1. /\ owner' = r /\ context' = context /\ context[r] = transcript \ Torn /\ ~late
              /\ UNCHANGED <<update, base, meta>>
            BY <1>1, <2>1, Registered
        <3>2. Prompts(context'[owner']) = Prompts(transcript)
            BY <3>1, PromptsLoaded
        <3>3. BehindNext(transcript)
            BY <1>2, <3>1 DEF AllBehind, BehindNext
        <3>4. QED
            BY <3>2, <3>3, BehindNextGrows
    <2>2. CASE \A r \in Resumes : ~Register(r)
        <3>1. owner' = owner /\ Open(owner) /\ ~Crash
            BY <1>5, <2>2, OwnerSteps
        <3>2. owner \in Lives /\ life[owner] # "none"
            BY <3>1 DEF TypeOK, Open
        <3>3. Prompts(context[owner]) \subseteq Prompts(context'[owner'])
            BY <1>1, <3>1, <3>2, ContextGrows DEF Prompts
        <3>4. \A t \in Turns : Complete(t) /\ ~HasNews(runner[t]) => runner[t] = owner
            BY <1>1, NoNews
        <3>5. BehindNext(context[owner])
            BY <1>2, <1>3, <3>1, <3>4, WritersStayBehind
        <3>6. QED
            BY <3>3, <3>5, BehindNextGrows
    <2>3. QED
        BY <2>1, <2>2
<1>6. QED
    BY <1>4, <1>5

\* The first hook takes the bundle along; a later one finds it on disk, or on its way.
LEMMA DescribeMerges ==
    ASSUME TypeOK, WritersHaveTheirs, HooksMerge, MetadataMerges,
           NEW t \in Turns, Describe(t), writer[t] = "none",
           UNCHANGED <<meta, patched, raced, failed>>
    PROVE  HooksMerge' /\ MetadataMerges'
<1>1. /\ writer' = [writer EXCEPT ![t] = "reading"]
      /\ \A w \in Writers \ {t} : update'[w] = update[w]
      /\ "name" \notin DOMAIN update'[t]
      /\ (runner[t] = First /\ initial => ~initial' /\ "bundle" \in DOMAIN update'[t])
      /\ (~(runner[t] = First /\ initial) => initial' = initial)
    BY Described, Zenon
<1>2. Turns \subseteq Writers
    BY DEF Writers
<1>3. \A u \in Turns : "name" \notin DOMAIN update'[u]
    BY <1>1, <1>2 DEF HooksMerge
<1>4. writer'[t] # "none" /\ \A u \in Turns \ {t} : writer'[u] = writer[u]
    BY <1>1, <1>2 DEF TypeOK
<1>5. ~raced' /\ ~failed' /\ ~initial' =>
          \/ "bundle" \in DOMAIN meta'
          \/ \E u \in Turns : writer'[u] # "none" /\ "bundle" \in DOMAIN update'[u]
    <2>1. CASE runner[t] = First /\ initial
        BY <1>1, <1>4, <2>1
    <2>2. CASE ~(runner[t] = First /\ initial)
        BY <1>1, <1>2, <1>4, <2>2 DEF HooksMerge
    <2>3. QED
        BY <2>1, <2>2
<1>6. HooksMerge'
    BY <1>3, <1>5 DEF HooksMerge
<1>7. MetadataMerges'
    BY <1>4 DEF MetadataMerges
<1>8. QED
    BY <1>6, <1>7

\* A write that has read what it replaces adds to it.
LEMMA WriteMerges ==
    ASSUME TypeOK, WritersHaveTheirs, HooksMerge, MetadataMerges, NEW w \in Writers, WriteMeta(w)
    PROVE  HooksMerge' /\ MetadataMerges'
<1>1. /\ WriterDone(w) /\ meta' = Merge(base[w], update[w]) /\ PatchAnswered(w)
      /\ raced' = (raced \/ base[w] # meta) /\ UNCHANGED <<initial, failed>>
      /\ raced \in BOOLEAN
    BY DEF WriteMeta, TypeOK
<1>2. \A v \in Writers : v # w => update'[v] = update[v] /\ writer'[v] = writer[v]
    BY <1>1, Finished DEF TypeOK
<1>3. /\ update'[w] = Empty /\ Turns \subseteq Writers
      /\ w \in Turns => writer'[w] = "none" /\ w \notin Patches
    BY <1>1, Finished, WritersAssumption DEF Writers, TypeOK
<1>4. \A t \in Turns : "name" \notin DOMAIN update'[t]
    BY <1>2, <1>3, EmptyIsMetadata DEF HooksMerge
<1>5. ASSUME ~raced'
      PROVE  /\ ~raced /\ DOMAIN meta' = DOMAIN meta \cup DOMAIN update[w]
             /\ \A k \in DOMAIN update[w] : meta'[k] = update[w][k]
             /\ \A k \in DOMAIN meta \ DOMAIN update[w] : meta'[k] = meta[k]
    <2>1. base[w] = meta /\ IsMetadata(meta) /\ IsMetadata(update[w]) /\ ~raced
        BY <1>1, <1>5 DEF TypeOK
    <2>2. meta' = Merge(meta, update[w])
        BY <1>1, <2>1
    <2>3. /\ DOMAIN Merge(meta, update[w]) = DOMAIN meta \cup DOMAIN update[w]
          /\ \A k \in DOMAIN update[w] : Merge(meta, update[w])[k] = update[w][k]
          /\ \A k \in DOMAIN meta \ DOMAIN update[w] : Merge(meta, update[w])[k] = meta[k]
        BY DEF Merge
    <2>4. QED
        BY <2>1, <2>2, <2>3, Zenon
<1>6. ~raced' /\ ~failed /\ ~initial =>
          \/ "bundle" \in DOMAIN meta'
          \/ \E t \in Turns : writer'[t] # "none" /\ "bundle" \in DOMAIN update'[t]
    BY <1>2, <1>3, <1>5 DEF HooksMerge
<1>7. ASSUME ~raced', ~failed, "name" \in DOMAIN patched'
      PROVE  "name" \in DOMAIN meta' /\ meta'["name"] = patched'["name"]
    <2>1. CASE w \in Patches
        <3>1. /\ patched' = Merge(patched, update[w]) /\ IsMetadata(patched)
              /\ IsMetadata(update[w])
            BY <1>1, <2>1 DEF PatchAnswered, TypeOK
        <3>2. /\ DOMAIN Merge(patched, update[w]) = DOMAIN patched \cup DOMAIN update[w]
              /\ \A k \in DOMAIN update[w] : Merge(patched, update[w])[k] = update[w][k]
              /\ \A k \in DOMAIN patched \ DOMAIN update[w] :
                     Merge(patched, update[w])[k] = patched[k]
            BY DEF Merge
        <3>3. QED
            BY <1>5, <1>7, <3>1, <3>2 DEF MetadataMerges
    <2>2. CASE w \notin Patches
        <3>1. patched' = patched /\ "name" \notin DOMAIN update[w]
            BY <1>1, <2>2 DEF PatchAnswered, Writers, HooksMerge
        <3>2. QED
            BY <1>5, <1>7, <3>1 DEF MetadataMerges
    <2>3. QED
        BY <2>1, <2>2
<1>8. HooksMerge'
    BY <1>1, <1>4, <1>6 DEF HooksMerge
<1>9. MetadataMerges'
    BY <1>1, <1>6, <1>7 DEF MetadataMerges
<1>10. QED
    BY <1>8, <1>9

\* and the bundle and the name in the metadata.
LEMMA MetadataMergesStep ==
    ASSUME TypeOK, WritersHaveTheirs, SavesHaveTurns, HooksMerge, MetadataMerges, [Next]_vars
    PROVE  HooksMerge' /\ MetadataMerges'
<1>1. ASSUME UNCHANGED <<initial, writer, update, meta, patched, raced, failed>>
      PROVE  HooksMerge' /\ MetadataMerges'
    BY <1>1 DEF HooksMerge, MetadataMerges
<1>2. ASSUME NEW t \in Turns, Complete(t) PROVE HooksMerge' /\ MetadataMerges'
    <2>1. stage[t] = "working" /\ UNCHANGED <<meta, patched, raced, failed>>
        BY <1>2 DEF Complete
    <2>2. writer[t] = "none"
        BY <2>1 DEF SavesHaveTurns, TurnDescribes
    <2>3. CASE UNCHANGED <<writer, update, initial>>
        BY <1>1, <2>1, <2>3
    <2>4. CASE Describe(t)
        BY <2>1, <2>2, <2>4, DescribeMerges
    <2>5. QED
        BY <1>2, <2>3, <2>4 DEF Complete, TranscriptKept
<1>3. ASSUME NEW s \in Saves, Saved(s) PROVE HooksMerge' /\ MetadataMerges'
    <2>1. /\ s[1] \in Turns /\ (s[2] = EndOfTurn => stage[s[1]] = "saving")
          /\ UNCHANGED <<meta, patched, raced, failed>>
        BY <1>3, SaveHasTurn, WrittenIsSave DEF Saved
    <2>2. s[2] = EndOfTurn => writer[s[1]] = "none"
        BY <2>1 DEF SavesHaveTurns, TurnDescribes
    <2>3. CASE UNCHANGED <<writer, update, initial>>
        BY <1>1, <2>1, <2>3
    <2>4. CASE s[2] = EndOfTurn /\ Describe(s[1])
        BY <2>1, <2>2, <2>4, DescribeMerges
    <2>5. QED
        BY <1>3, <2>3, <2>4 DEF Saved, TranscriptKept
\* After a failure, only the hooks' updates matter.
<1>4. ASSUME failed', \A t \in Turns : "name" \notin DOMAIN update'[t]
      PROVE  HooksMerge' /\ MetadataMerges'
    BY <1>4 DEF HooksMerge, MetadataMerges
<1>5. ASSUME NEW s \in Saves, SaveFails(s) PROVE HooksMerge' /\ MetadataMerges'
    <2>1. failed' /\ s[1] \in Turns
        BY <1>5, SaveNames DEF SaveFails
    <2>2. update' = update \/ Describe(s[1])
        BY <1>5 DEF SaveFails
    <2>3. ASSUME Describe(s[1]), NEW t \in Turns PROVE "name" \notin DOMAIN update'[t]
        <3>1. CASE t = s[1]
            BY <2>1, <2>3, <3>1, Described
        <3>2. CASE t # s[1]
            <4>1. update'[t] = update[t]
                BY <2>1, <2>3, <3>2, Described DEF Writers
            <4>2. QED
                BY <4>1 DEF HooksMerge
        <3>3. QED
            BY <3>1, <3>2
    <2>4. update' = update => \A t \in Turns : "name" \notin DOMAIN update'[t]
        BY DEF HooksMerge
    <2>5. QED
        BY <1>4, <2>1, <2>2, <2>3, <2>4
<1>6. ASSUME NEW t \in Turns, CancelDescribing(t) PROVE HooksMerge' /\ MetadataMerges'
    <2>1. UNCHANGED <<initial, meta, patched, raced>>
        BY <1>6 DEF CancelDescribing
    <2>2. CASE UNCHANGED <<writer, update, failed>>
        BY <1>1, <2>1, <2>2
    <2>3. CASE update' = [update EXCEPT ![t] = Empty] /\ failed' = TRUE
        <3>1. \A u \in Turns : update'[u] = update[u] \/ update'[u] = Empty
            BY <2>3 DEF WritersHaveTheirs, Writers
        <3>2. \A u \in Turns : "name" \notin DOMAIN update'[u]
            BY <3>1, EmptyIsMetadata DEF HooksMerge
        <3>3. QED
            BY <1>4, <2>3, <3>2
    <2>4. QED
        BY <1>6, <2>2, <2>3 DEF CancelDescribing
<1>7. ASSUME NEW p \in Patches, NEW k \in PatchKeys, Patch(p, k)
      PROVE  HooksMerge' /\ MetadataMerges'
    <2>1. /\ p \notin Turns /\ UNCHANGED <<initial, meta, patched, raced, failed>>
          /\ writer' = [writer EXCEPT ![p] = "reading"]
          /\ update' = [update EXCEPT ![p] = [j \in {k} |-> p]]
        BY <1>7, WritersAssumption DEF Patch
    <2>2. \A t \in Turns : update'[t] = update[t] /\ writer'[t] = writer[t]
        BY <2>1 DEF WritersHaveTheirs, Writers, TypeOK
    <2>3. QED
        BY <2>1, <2>2 DEF HooksMerge, MetadataMerges
<1>8. ASSUME NEW w \in Writers, ReadMeta(w) PROVE HooksMerge' /\ MetadataMerges'
    <2>1. /\ UNCHANGED <<initial, update, meta, patched, raced, failed>>
          /\ writer[w] # "none" /\ writer' = [writer EXCEPT ![w] = "writing"]
        BY <1>8 DEF ReadMeta
    <2>2. \A t \in Turns : writer'[t] = "none" <=> writer[t] = "none"
        BY <2>1 DEF Writers, TypeOK
    <2>3. QED
        BY <2>1, <2>2 DEF HooksMerge, MetadataMerges
<1>9. ASSUME NEW w \in Writers, WriteMeta(w) PROVE HooksMerge' /\ MetadataMerges'
    BY <1>9, WriteMerges
<1>10. ASSUME NEW w \in Writers, MetaFails(w) PROVE HooksMerge' /\ MetadataMerges'
    <2>1. failed' /\ WriterDone(w)
        BY <1>10 DEF MetaFails
    <2>2. \A t \in Turns : update'[t] \in {update[t], Empty}
        BY <2>1, Finished DEF Writers
    <2>3. \A t \in Turns : "name" \notin DOMAIN update'[t]
        BY <2>2, EmptyIsMetadata DEF HooksMerge
    <2>4. QED
        BY <1>4, <2>1, <2>3
<1>11. CASE Crash
    <2>1. /\ \A w \in Writers : update'[w] = Empty
          /\ UNCHANGED <<initial, meta, patched, raced>>
          /\ failed' = (failed \/ \E w \in Writers : writer[w] \in {"reading", "writing"})
        BY <1>11 DEF Crash
    <2>2. ~failed' => ~failed /\ \A t \in Turns : writer[t] = "none"
        BY <2>1 DEF TypeOK, Writers, SavesHaveTurns, TurnDescribes
    <2>3. \A t \in Turns : "name" \notin DOMAIN update'[t]
        BY <2>1, EmptyIsMetadata DEF Writers
    <2>4. CASE ~failed'
        BY <2>1, <2>2, <2>3, <2>4 DEF HooksMerge, MetadataMerges
    <2>5. QED
        BY <1>4, <2>3, <2>4
<1>12. QED
    BY <1>1, <1>2, <1>3, <1>5, <1>6, <1>7, <1>8, <1>9, <1>10, <1>11
    DEF Next, vars, patching, ghosts, Prompt, Answer, Say, Compact, Raise, CancelSaving, Desert,
        ToolPost, ToolCancelled, Write, UpdateMetadata, Resume, Register, Delete
-----------------------------------------------------------------------------
\* Every step of the hooks, the worker threads, cancellation, PATCH, resume, DELETE and
\* death keeps the inductive invariant.
LEMMA StepIInv == IInv /\ [Next]_vars => IInv'
<1> SUFFICES ASSUME IInv, [Next]_vars PROVE IInv'
    OBVIOUS
<1>1. /\ TypeOK /\ WritersHaveTheirs /\ LivesRunTurns /\ SavesHaveTurns /\ NoTraceBefore
      /\ DesertersAreLate /\ SavesAreSnapshots /\ SavesInTime /\ AnswersAreNews
      /\ DurableTurnsStay /\ FileIsCurrent /\ FilePromptsAreInContext /\ CountsAreBehind
      /\ HooksMerge /\ MetadataMerges
    BY DEF IInv
<1>2. TypesOfTurns' /\ TypesOfFiles' /\ TypesOfMetadata' /\ TypesOfLives' /\ TypesOfGhosts'
    BY <1>1, TypesOfTurnsStep, TypesOfFilesStep, TypesOfMetadataStep, TypesOfLivesStep,
       TypesOfGhostsStep, Zenon
<1>3. TypeOK' /\ WritersHaveTheirs'
    BY <1>2 DEF TypeOK, TypesOfTurns, TypesOfFiles, TypesOfMetadata, TypesOfLives, TypesOfGhosts
<1>4. LivesRunTurns' /\ SavesHaveTurns' /\ NoTraceBefore' /\ DesertersAreLate'
    BY <1>1, LivesRunTurnsStep, SavesHaveTurnsStep, NoTraceBeforeStep, DesertersAreLateStep, Zenon
<1>5. SavesAreSnapshots' /\ SavesInTime' /\ AnswersAreNews'
    BY <1>1, <1>3, SavesAreSnapshotsStep, SavesInTimeStep, AnswersAreNewsStep, Zenon
<1>6. DurableTurnsStay' /\ FileIsCurrent'
    BY <1>1, <1>3, <1>4, DurableTurnsStayStep, FileIsCurrentStep, Zenon
<1>7. FilePromptsAreInContext' /\ CountsAreBehind'
    BY <1>1, <1>3, FilePromptsAreInContextStep, CountsAreBehindStep, Zenon
<1>8. HooksMerge' /\ MetadataMerges'
    BY <1>1, MetadataMergesStep, Zenon
<1>9. QED
    BY <1>3, <1>4, <1>5, <1>6, <1>7, <1>8 DEF IInv

\* The inductive invariant holds in every state the files of a session and its hooks
\* can come to, with turns that end, raise or are cancelled while their threads go on
\* (persistence.py, session_manager.py's resume()).
THEOREM Invariance == Spec => []IInv
BY InitIInv, StepIInv, PTL DEF Spec

\* What the files, the hooks and the writers hold is what they may hold.
THEOREM Typing == Spec => []TypeOK
<1>1. IInv => TypeOK
    BY DEF IInv
<1>2. QED
    BY <1>1, Invariance, PTL

\* The prompt and the answer of a turn whose end was saved are in the context of the session
\* that is live, after any overlapping saves, cancelled handlers, failing writes, deaths and
\* resumes, and on disk as long as the file is not what a thread left behind put there; that
\* is for messages that survive writing and loading, with one life at a time and no
\* compaction (persistence.py:60-80, 101-118, 148-173).
THEOREM AnsweredTurns == Spec => []AnsweredTurnsStay
<1>1. IInv => AnsweredTurnsStay
    <2> SUFFICES ASSUME IInv, Linear, NEW t \in kept
                 PROVE  /\ ~late => Said(t) \subseteq transcript
                        /\ current # Nobody => Said(t) \subseteq context[current]
        BY DEF AnsweredTurnsStay, Said
    <2>1. TypeOK /\ LivesRunTurns /\ DurableTurnsStay /\ t \in Durable
        BY DEF IInv, Durable
    <2>2. ~late => Said(t) \subseteq transcript
        BY <2>1 DEF DurableTurnsStay
    <2>3. ASSUME current # Nobody PROVE Said(t) \subseteq context[current]
        <3>1. owner = current /\ Open(owner)
            BY <2>1, <2>3 DEF LivesRunTurns, TypeOK, Open
        <3>2. QED
            BY <2>1, <3>1 DEF DurableTurnsStay
    <2>4. QED
        BY <2>2, <2>3
<1>2. QED
    BY <1>1, Invariance, PTL

\* Between turns, the file is what can be written of the live session's context, unless a
\* thread wrote it that its turn had not waited for, and that takes a turn that raised or was
\* cancelled, or a cancelled tool (persistence.py:157-173).
THEOREM QuietTranscript == Spec => []QuietTranscriptIsCurrent
<1>1. IInv => QuietTranscriptIsCurrent
    <2> SUFFICES ASSUME IInv PROVE QuietTranscriptIsCurrent
        OBVIOUS
    <2>1. TypeOK /\ LivesRunTurns /\ FileIsCurrent /\ DesertersAreLate
        BY DEF IInv
    <2>2. ASSUME Linear, ~late, current \in settled
          PROVE  transcript = context[current] \ Unwritable
        <3>1. current \in Lives
            BY <2>1, <2>2 DEF TypeOK
        <3>2. owner = current /\ Open(owner)
            BY <2>1, <3>1, SaveNames DEF LivesRunTurns, TypeOK, Open
        <3>3. QED
            BY <2>1, <2>2, <3>2 DEF FileIsCurrent
    <2>3. late => deserted
        BY <2>1 DEF DesertersAreLate
    <2>4. QED
        BY <2>2, <2>3 DEF QuietTranscriptIsCurrent
<1>2. QED
    BY <1>1, Invariance, PTL

\* metadata.json counts no turn that transcript.jsonl does not have, whenever the daemon dies
\* and whatever is cancelled, as long as no write fails, no prompt is torn and the file is not
\* what a thread left behind put there (persistence.py:193-213, 249-261).
THEOREM CountedTurns == Spec => []TurnsCountedAreOnDisk
<1>1. IInv => TurnsCountedAreOnDisk
    BY DEF IInv, CountsAreBehind, AllBehind, IsBehind, PromptsStay, TurnsCountedAreOnDisk
<1>2. QED
    BY <1>1, Invariance, PTL

\* Without overlapping or failing writers, the bundle is on disk after the first turn and
\* the name is the last that was answered (persistence.py:83-98, 209-213).
THEOREM Merging == Spec => []MetadataMerges
<1>1. IInv => MetadataMerges
    BY DEF IInv
<1>2. QED
    BY <1>1, Invariance, PTL
=============================================================================
