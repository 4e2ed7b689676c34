------------------------ MODULE SessionManagerProofs ------------------------
(***************************************************************************)
(* For any sets of ids and of calls and any number of crashes: the safety  *)
(* invariants and the action properties of SessionManager.                 *)
(***************************************************************************)
EXTENDS SessionManager, TLAPS

\* Where a call is once it has registered its handle, or has destroyed one and
\* told the index.
Recorded == {"saving", "writing"} \cup Settled

\* A call knows the id it works on by the time it uses it.
TargetsKnown ==
    \A c \in Calls :
        /\ phase[c] \in {"restoring", "saving", "writing", "cleaning"} => target[c] # NoId
        /\ made[c] # 0 => target[c] # NoId /\ phase[c] \in Recorded

\* A handle belongs to the call that was made for its id, and that call has
\* registered it: no call owns two handles.
HandlesHaveOwners ==
    \A id \in Ids : Live(id) =>
        /\ target[sessions[id]] = id
        /\ phase[sessions[id]] \in Recorded
        /\ kernel[sessions[id]] = "open"

\* A resume that injects the transcript has its kernel session.
RestoringIsOpen == \A c \in Calls : phase[c] = "restoring" => kernel[c] = "open"

\* A live session has an entry.
LiveAreIndexed == \A id \in Ids : Live(id) => index[id].status # "absent"

\* The thread that holds the lock is the one that writes.
OneWriter == \A c \in Calls : phase[c] = "writing" <=> saver = c

\* What is on the disk is no newer than what the writer listed, and that no newer
\* than the index in memory.  Without index.json there is nothing on the disk.
DiskIsBehind ==
    /\ \A id \in Ids : disk[id].ver <= index[id].ver
    /\ saver # NoCall => \A id \in Ids : /\ disk[id].ver <= buffer[saver][id].ver
                                         /\ buffer[saver][id].ver <= index[id].ver
    /\ ~diskExists => disk = NoEntries

\* A call's change is in the index when its save begins, in what its thread
\* listed while it writes, and on the disk when it is answered.
ChangesTravel ==
    \A c \in Calls : made[c] # 0 =>
        /\ phase[c] = "saving" => made[c] <= index[target[c]].ver
        /\ phase[c] = "writing" => made[c] <= buffer[c][target[c]].ver
        /\ phase[c] = "done" => made[c] <= disk[target[c]].ver

\* A handle that shutdown() found is on its list for as long as it is registered,
\* and no call that found one has yet to register.
DoomedAreListed ==
    /\ \A id \in Ids : sessions[id] \in doomed => id \in todo
    /\ \A c \in doomed : phase[c] \in Recorded
    /\ shutdown = "done" => todo = {}

\* The registry's part of the invariant.
RegistryInv == RestoringIsOpen /\ HandlesHaveOwners /\ LiveAreIndexed /\ DoomedAreListed

\* The index file's part.
FileInv == OneWriter /\ DiskIsBehind /\ ChangesTravel

\* The inductive invariant.
IInv ==
    /\ TypeOK
    /\ TargetsKnown
    /\ RestoringIsOpen
    /\ HandlesHaveOwners
    /\ LiveAreIndexed
    /\ OneWriter
    /\ DiskIsBehind
    /\ ChangesTravel
    /\ DoomedAreListed
-----------------------------------------------------------------------------
\* A daemon that has just started satisfies the invariant.
LEMMA InitIInv == Init => IInv
  <1> SUFFICES ASSUME Init PROVE IInv
    OBVIOUS
  <1>1. NoEntries \in [Ids -> Entry]
    BY DEF NoEntries, Absent, Entry
  <1>2. /\ index \in [Ids -> Entry] /\ disk \in [Ids -> Entry]
        /\ \A id \in Ids : index[id].ver = 0 /\ disk[id].ver = 0
    BY DEF Init, Entry
  <1>3. TypeOK
    BY <1>1, <1>2, MaxCrashesAssumption DEF Init, TypeOK
  <1>4. TargetsKnown /\ RestoringIsOpen /\ HandlesHaveOwners /\ LiveAreIndexed
    BY DEF Init, TargetsKnown, RestoringIsOpen, HandlesHaveOwners, LiveAreIndexed, Live
  <1>5. OneWriter /\ ChangesTravel /\ DoomedAreListed
    BY NoCallAssumption DEF Init, OneWriter, ChangesTravel, DoomedAreListed
  <1>6. ~diskExists => disk = NoEntries
    BY <1>2 DEF Init, NoEntries
  <1>7. DiskIsBehind
    BY <1>2, <1>6 DEF Init, DiskIsBehind
  <1> QED
    BY <1>3, <1>4, <1>5, <1>7 DEF IInv

\* What Record makes of an index of entries.
LEMMA RecordTyped ==
    ASSUME TypeOK, NEW c \in Calls, NEW id \in Ids, NEW status \in {"idle", "completed"},
           Record(c, id, status)
    PROVE  /\ index' \in [Ids -> Entry]
           /\ made' \in [Calls -> Nat]
           /\ index'[id] = [status |-> status, ver |-> index[id].ver + 1]
           /\ \A other \in Ids \ {id} : index'[other] = index[other]
           /\ made'[c] = index[id].ver + 1 /\ made'[c] # 0
           /\ \A d \in Calls \ {c} : made'[d] = made[d]
  <1>1. index \in [Ids -> Entry] /\ made \in [Calls -> Nat] /\ index[id].ver \in Nat
    BY DEF TypeOK, Entry
  <1>2. [status |-> status, ver |-> index[id].ver + 1] \in Entry
    BY <1>1 DEF Entry
  <1> QED
    BY <1>1, <1>2 DEF Record

\* Versions only grow when an entry is recorded, and no entry is lost.
LEMMA RecordGrows ==
    ASSUME TypeOK, NEW c \in Calls, NEW id \in Ids, NEW status \in {"idle", "completed"},
           Record(c, id, status)
    PROVE  \A i \in Ids : /\ index[i].ver <= index'[i].ver
                          /\ index[i].status # "absent" => index'[i].status # "absent"
  <1>1. \A i \in Ids : index[i].ver \in Nat
    BY DEF TypeOK, Entry
  <1>2. /\ index'[id] = [status |-> status, ver |-> index[id].ver + 1]
        /\ \A i \in Ids \ {id} : index'[i] = index[i]
    BY RecordTyped
  <1>3. index[id].ver <= index'[id].ver /\ index'[id].status # "absent"
    BY <1>1, <1>2
  <1>4. \A i \in Ids \ {id} : index[i].ver <= index'[i].ver
    BY <1>1, <1>2
  <1> QED
    BY <1>2, <1>3, <1>4

\* The entries a daemon may start with.
LEMMA LoadedTyped ==
    ASSUME TypeOK, DiskIsBehind, Restart
    PROVE  /\ index' \in [Ids -> Entry]
           /\ \A id \in Ids : disk[id].ver <= index'[id].ver
  <1>1. PICK entries \in {disk} \cup [Ids -> {Absent, [status |-> "completed", ver |-> 0]}] :
           Loaded(entries) /\ index' = entries
    BY DEF Restart
  <1>2. disk \in [Ids -> Entry]
    BY DEF TypeOK
  <1>3. index' \in [Ids -> Entry]
    BY <1>1, <1>2 DEF Absent, Entry
  <1>4. CASE diskExists
    BY <1>1, <1>2, <1>3, <1>4 DEF Loaded, Entry
  <1>5. CASE ~diskExists
    BY <1>2, <1>3, <1>5 DEF DiskIsBehind, NoEntries, Absent, Entry
  <1> QED
    BY <1>3, <1>4, <1>5

\* SaveEnd puts entries on the disk that are no older than what was listed.
LEMMA SaveEndTyped ==
    ASSUME TypeOK, OneWriter, DiskIsBehind, NEW c \in Calls, SaveEnd(c)
    PROVE  /\ saver = c
           /\ disk' \in [Ids -> Entry] /\ diskExists' \in BOOLEAN
           /\ \A id \in Ids : disk[id].ver <= disk'[id].ver /\ disk'[id].ver <= index[id].ver
           /\ phase'[c] = "done" =>
                 \A id \in Ids : buffer[c][id].ver <= disk'[id].ver
           /\ diskExists' = FALSE => disk' = disk /\ diskExists = FALSE
           /\ buffer' \in [Calls -> [Ids -> Entry]]
           /\ phase' \in [Calls -> {"new"} \cup Pending \cup Settled]
           /\ phase'[c] \in {"done", "failed"}
           /\ \A d \in Calls \ {c} : phase'[d] = phase[d] /\ buffer'[d] = buffer[d]
  <1>0. /\ disk \in [Ids -> Entry] /\ index \in [Ids -> Entry] /\ diskExists \in BOOLEAN
        /\ buffer \in [Calls -> [Ids -> Entry]] /\ buffer[c] \in [Ids -> Entry]
        /\ phase \in [Calls -> {"new"} \cup Pending \cup Settled]
    BY DEF TypeOK
  <1>1. saver = c /\ saver # NoCall
    BY NoCallAssumption DEF SaveEnd, OneWriter
  <1>2. \A id \in Ids : disk[id].ver <= buffer[c][id].ver /\ buffer[c][id].ver <= index[id].ver
    BY <1>1 DEF DiskIsBehind
  <1>3. NoEntries \in [Ids -> Entry]
    BY DEF NoEntries, Absent, Entry
  <1>4. /\ phase' \in [Calls -> {"new"} \cup Pending \cup Settled]
        /\ phase'[c] \in {"done", "failed"}
        /\ \A d \in Calls \ {c} : phase'[d] = phase[d]
    BY <1>0 DEF SaveEnd, MoveTo, Settled
  <1>5. /\ buffer' \in [Calls -> [Ids -> Entry]]
        /\ \A d \in Calls \ {c} : buffer'[d] = buffer[d]
    BY <1>0, <1>3 DEF SaveEnd
  <1>6. \A id \in Ids : /\ disk[id].ver \in Nat /\ index[id].ver \in Nat
                        /\ buffer[c][id].ver \in Nat
    BY <1>0 DEF Entry
  <1>7. CASE UNCHANGED <<disk, diskExists>> /\ MoveTo(c, "failed")
    BY <1>0, <1>1, <1>4, <1>5, <1>6, <1>7 DEF DiskIsBehind, MoveTo
  <1>8. ASSUME NEW seen \in SUBSET Ids,
               disk' = [id \in Ids |-> IF id \in seen THEN index[id] ELSE buffer[c][id]],
               diskExists' = TRUE
        PROVE  /\ disk' \in [Ids -> Entry]
               /\ \A id \in Ids : /\ disk[id].ver <= disk'[id].ver
                                  /\ disk'[id].ver <= index[id].ver
                                  /\ buffer[c][id].ver <= disk'[id].ver
    BY <1>0, <1>2, <1>6, <1>8
  <1>9. CASE /\ \E seen \in SUBSET {id \in Ids : buffer[c][id].status # "absent"} :
                   disk' = [id \in Ids |-> IF id \in seen THEN index[id] ELSE buffer[c][id]]
             /\ diskExists' = TRUE
    BY <1>0, <1>1, <1>4, <1>5, <1>8, <1>9
  <1> QED
    BY <1>7, <1>9 DEF SaveEnd
-----------------------------------------------------------------------------
\* Every step keeps the variables in their types, and a call that has recorded
\* a change knows its id.
LEMMA TypingStep == IInv /\ [Next]_vars => TypeOK' /\ TargetsKnown'
  <1> SUFFICES ASSUME IInv, [Next]_vars PROVE TypeOK' /\ TargetsKnown'
    OBVIOUS
  <1> USE DEF IInv
  <1>0. TypeOK /\ TargetsKnown
    OBVIOUS
  <1>a. /\ sessions \in [Ids -> Calls \cup {NoCall}]
        /\ kernel \in [Calls -> {"none", "open", "closed"}]
        /\ phase \in [Calls -> {"new"} \cup Pending \cup Settled]
        /\ target \in [Calls -> Ids \cup {NoId}]
        /\ made \in [Calls -> Nat]
    BY DEF TypeOK
  <1>b. NoEntries \in [Ids -> Entry]
    BY DEF NoEntries, Absent, Entry
  <1>c. ASSUME NEW c \in Calls, NEW id \in Ids, Register(c, id), target' \in [Calls -> Ids \cup {NoId}],
               target'[c] = id, \A d \in Calls \ {c} : target'[d] = target[d]
        PROVE  /\ sessions' \in [Ids -> Calls \cup {NoCall}] /\ index' \in [Ids -> Entry]
               /\ phase' \in [Calls -> {"new"} \cup Pending \cup Settled]
               /\ made' \in [Calls -> Nat] /\ TargetsKnown'
    <2>1. CASE Record(c, id, "idle") /\ sessions' = [sessions EXCEPT ![id] = c]
      <3>1. /\ index' \in [Ids -> Entry] /\ made' \in [Calls -> Nat]
            /\ \A d \in Calls \ {c} : made'[d] = made[d]
        BY <2>1, RecordTyped
      <3>2. phase' = [phase EXCEPT ![c] = "saving"]
        BY <2>1 DEF Record, MoveTo
      <3> QED
        BY <1>a, <1>c, <2>1, <3>1, <3>2, NoIdAssumption
           DEF TargetsKnown, Recorded, Pending
    <2>2. CASE MoveTo(c, "exists") /\ UNCHANGED <<sessions, index, made>>
      BY <1>a, <1>c, <2>2, NoIdAssumption DEF TypeOK, MoveTo, TargetsKnown, Recorded, Settled
    <2> QED
      BY <1>c, <2>1, <2>2 DEF Register
  <1>1. ASSUME NEW c \in Calls, Create(c) PROVE TypeOK' /\ TargetsKnown'
    BY <1>a, <1>1 DEF TypeOK, TargetsKnown, Recorded, Create, MoveTo, Pending, Settled, registry, store, closing
  <1>2. ASSUME NEW c \in Calls, CreateRegister(c) PROVE TypeOK' /\ TargetsKnown'
    <2>1. PICK id \in Ids : Register(c, id) /\ target' = [target EXCEPT ![c] = id]
                            /\ dirs' = dirs \cup {id}
      BY <1>2 DEF CreateRegister
    <2> QED
      BY <1>a, <1>c, <1>2, <2>1 DEF TypeOK, CreateRegister, store, closing
  <1>3. ASSUME NEW c \in Calls, OpenKernel(c) PROVE TypeOK' /\ TargetsKnown'
    BY <1>a, <1>3 DEF TypeOK, TargetsKnown, Recorded, OpenKernel, MoveTo, Pending, Settled, store, closing
  <1>4. ASSUME NEW c \in Calls, ResumeRegister(c) PROVE TypeOK' /\ TargetsKnown'
    <2>1. target[c] \in Ids /\ Register(c, target[c])
      BY <1>a, <1>4 DEF ResumeRegister, TargetsKnown
    <2> QED
      BY <1>a, <1>c, <1>4, <2>1 DEF TypeOK, ResumeRegister, store, closing
  <1>5. ASSUME NEW c \in Calls, OpenFails(c) PROVE TypeOK' /\ TargetsKnown'
    BY <1>a, <1>5 DEF TypeOK, TargetsKnown, Recorded, OpenFails, MoveTo, Pending, Settled, store, closing
  <1>6. ASSUME NEW c \in Calls, CleanupEnds(c) PROVE TypeOK' /\ TargetsKnown'
    <2>1. target[c] \in Ids /\ made[c] = 0
      BY <1>a, <1>6 DEF CleanupEnds, TargetsKnown, Recorded, Settled
    <2>2. CASE Record(c, target[c], "completed")
      <3>1. /\ index' \in [Ids -> Entry] /\ made' \in [Calls -> Nat]
            /\ \A d \in Calls \ {c} : made'[d] = made[d]
        BY <2>1, <2>2, RecordTyped
      <3>2. phase' = [phase EXCEPT ![c] = "saving"]
        BY <2>2 DEF Record, MoveTo
      <3> QED
        BY <1>a, <1>6, <2>1, <3>1, <3>2, NoIdAssumption
           DEF TypeOK, TargetsKnown, Recorded, Pending, CleanupEnds, registry, store, closing
    <2>3. CASE /\ MoveTo(c, "saving") \/ MoveTo(c, "failed")
               /\ UNCHANGED <<index, made>>
      BY <1>a, <1>6, <2>1, <2>3, NoIdAssumption
         DEF TypeOK, TargetsKnown, Recorded, MoveTo, Pending, Settled, CleanupEnds, registry, store, closing
    <2> QED
      BY <1>6, <2>2, <2>3 DEF CleanupEnds, Update
  <1>7. ASSUME NEW c \in Calls, SaveBegin(c) PROVE TypeOK' /\ TargetsKnown'
    BY <1>a, <1>7 DEF TypeOK, TargetsKnown, Recorded, SaveBegin, MoveTo, Pending, Settled, registry, closing
  <1>8. ASSUME NEW c \in Calls, SaveEnd(c) PROVE TypeOK' /\ TargetsKnown'
    <2>1. /\ disk' \in [Ids -> Entry] /\ diskExists' \in BOOLEAN
          /\ buffer' \in [Calls -> [Ids -> Entry]]
          /\ phase' \in [Calls -> {"new"} \cup Pending \cup Settled]
          /\ phase'[c] \in {"done", "failed"}
          /\ \A d \in Calls \ {c} : phase'[d] = phase[d]
      BY <1>8, SaveEndTyped
    <2>2. saver' = NoCall /\ UNCHANGED <<registry, index, dirs, target, made, closing, crashes>>
      BY <1>8 DEF SaveEnd
    <2>3. TypeOK'
      BY <1>0, <2>1, <2>2 DEF TypeOK, registry, closing
    <2>4. TargetsKnown'
      BY <1>0, <2>1, <2>2 DEF TargetsKnown, Recorded, Settled
    <2> QED
      BY <2>3, <2>4
  <1>9. ASSUME NEW c \in Calls, NEW id \in Ids, Resume(c, id) PROVE TypeOK' /\ TargetsKnown'
    <2>1. target' \in [Calls -> Ids \cup {NoId}] /\ \A d \in Calls \ {c} : target'[d] = target[d]
      BY <1>a, <1>9 DEF Resume
    <2>2. made[c] = 0
      BY <1>a, <1>9 DEF Resume, TargetsKnown, Recorded, Settled
    <2> QED
      BY <1>a, <1>9, <2>1, <2>2
         DEF TypeOK, TargetsKnown, Recorded, Resume, MoveTo, Pending, Settled, registry, store, closing
  <1>10. ASSUME NEW c \in Calls, NEW id \in Ids, Destroy(c, id)
         PROVE  /\ sessions' \in [Ids -> Calls \cup {NoCall}]
                /\ kernel' \in [Calls -> {"none", "open", "closed"}]
                /\ phase' \in [Calls -> {"new"} \cup Pending \cup Settled]
                /\ target' \in [Calls -> Ids \cup {NoId}]
                /\ TargetsKnown'
                /\ UNCHANGED <<index, store, dirs, made, crashes>>
    <2>1. made[c] = 0
      BY <1>a, <1>10 DEF Destroy, TargetsKnown, Recorded, Settled
    <2> QED
      BY <1>a, <1>10, <2>1, NoIdAssumption
         DEF TargetsKnown, Recorded, Destroy, MoveTo, Pending
  <1>11. ASSUME NEW c \in Calls, NEW id \in Ids, Destroy(c, id), UNCHANGED closing
         PROVE  TypeOK' /\ TargetsKnown'
    BY <1>10, <1>11 DEF TypeOK, store, closing
  <1>12. ASSUME NEW c \in Calls, NEW id \in Ids, DestroyMissing(c, id) PROVE TypeOK' /\ TargetsKnown'
    BY <1>a, <1>12 DEF TypeOK, TargetsKnown, Recorded, DestroyMissing, MoveTo, Pending, Settled, registry, store, closing
  <1>13. ASSUME NEW c \in Calls, NEW id \in Ids, ShutdownDestroy(c, id) PROVE TypeOK' /\ TargetsKnown'
    BY <1>10, <1>13 DEF TypeOK, ShutdownDestroy, store, closing
  <1>14. ASSUME ShutdownBegin PROVE TypeOK' /\ TargetsKnown'
    BY <1>a, <1>14 DEF TypeOK, TargetsKnown, ShutdownBegin, Live, registry, store
  <1>15. ASSUME NEW id \in Ids, ShutdownSkip(id) PROVE TypeOK' /\ TargetsKnown'
    BY <1>15 DEF TypeOK, TargetsKnown, ShutdownSkip, registry, store
  <1>16. ASSUME ShutdownEnd PROVE TypeOK' /\ TargetsKnown'
    BY <1>16 DEF TypeOK, TargetsKnown, ShutdownEnd, registry, store
  <1>17. ASSUME Restart PROVE TypeOK' /\ TargetsKnown'
    <2>1. index' \in [Ids -> Entry]
      BY <1>17, LoadedTyped
    <2>2. /\ phase' \in [Calls -> {"new"} \cup Pending \cup Settled]
          /\ \A c \in Calls : phase'[c] = phase[c] \/ phase'[c] = "lost"
          /\ \A c \in Calls : phase'[c] \notin Pending
      BY <1>a, <1>17 DEF Restart, Pending, Settled
    <2>3. TargetsKnown'
      BY <1>17, <2>2 DEF Restart, TargetsKnown, Recorded, Pending, Settled
    <2>4. crashes' \in 0..MaxCrashes
      BY <1>17, MaxCrashesAssumption DEF Restart, TypeOK
    <2> QED
      BY <1>a, <1>b, <1>17, <2>1, <2>2, <2>3, <2>4 DEF TypeOK, Restart
  <1>18. CASE UNCHANGED vars
    BY <1>18 DEF TypeOK, TargetsKnown, vars, registry, store, closing
  <1> QED
    BY <1>1, <1>2, <1>3, <1>4, <1>5, <1>6, <1>7, <1>8, <1>9, <1>11, <1>12, <1>13, <1>14,
       <1>15, <1>16, <1>17, <1>18 DEF Next, CallStep
-----------------------------------------------------------------------------
\* A step of a call that has not registered yet, which leaves the registry, the
\* index and shutdown() alone.
LEMMA EarlyStepKeepsRegistry ==
    ASSUME IInv, NEW c \in Calls, phase[c] \notin Recorded,
           phase'[c] = "restoring" => kernel'[c] = "open",
           UNCHANGED <<sessions, index, closing>>,
           \A d \in Calls \ {c} : /\ phase'[d] = phase[d]
                                  /\ target'[d] = target[d]
                                  /\ kernel'[d] = kernel[d]
    PROVE  RegistryInv'
  <1> USE DEF IInv, closing
  <1>1. sessions \in [Ids -> Calls \cup {NoCall}] /\ doomed \subseteq Calls /\ c \notin doomed
    BY DEF TypeOK, DoomedAreListed
  <1>2. \A id \in Ids : Live(id) => sessions[id] \in Calls \ {c}
    BY <1>1 DEF HandlesHaveOwners, Live
  <1>3. RestoringIsOpen' /\ HandlesHaveOwners' /\ LiveAreIndexed'
    BY <1>2 DEF RestoringIsOpen, HandlesHaveOwners, LiveAreIndexed, Live
  <1>4. DoomedAreListed'
    BY <1>1 DEF DoomedAreListed
  <1> QED
    BY <1>3, <1>4 DEF RegistryInv

\* A step that leaves the handles alone and takes no entry out of the index.
LEMMA LateStepKeepsRegistry ==
    ASSUME IInv,
           UNCHANGED <<sessions, kernel, target, closing>>,
           \A d \in Calls : /\ phase[d] \in Recorded => phase'[d] \in Recorded
                            /\ phase'[d] = "restoring" => phase[d] = "restoring",
           \A id \in Ids : index[id].status # "absent" => index'[id].status # "absent"
    PROVE  RegistryInv'
  <1> USE DEF IInv, closing
  <1>1. sessions \in [Ids -> Calls \cup {NoCall}] /\ doomed \subseteq Calls
    BY DEF TypeOK
  <1>2. RestoringIsOpen' /\ HandlesHaveOwners' /\ LiveAreIndexed'
    BY <1>1 DEF RestoringIsOpen, HandlesHaveOwners, LiveAreIndexed, Live
  <1>3. DoomedAreListed'
    BY <1>1 DEF DoomedAreListed
  <1> QED
    BY <1>2, <1>3 DEF RegistryInv

\* register(): a call that comes second leaves the first one's handle alone.
LEMMA RegisterKeepsRegistry ==
    ASSUME IInv, NEW c \in Calls, NEW id \in Ids, Register(c, id),
           phase[c] \in {"loading", "restoring"},
           target'[c] = id, kernel'[c] = "open",
           \A d \in Calls \ {c} : target'[d] = target[d] /\ kernel'[d] = kernel[d],
           UNCHANGED closing
    PROVE  RegistryInv'
  <1> USE DEF IInv
  <1>0. phase[c] \notin Recorded
    BY DEF Recorded, Settled
  <1>1. /\ sessions \in [Ids -> Calls \cup {NoCall}] /\ doomed \subseteq Calls /\ c \notin doomed
        /\ phase \in [Calls -> {"new"} \cup Pending \cup Settled]
    BY <1>0 DEF TypeOK, DoomedAreListed
  <1>2. CASE MoveTo(c, "exists") /\ UNCHANGED <<sessions, index, made>>
    BY <1>0, <1>1, <1>2, EarlyStepKeepsRegistry DEF MoveTo
  <1>3. CASE ~Live(id) /\ sessions' = [sessions EXCEPT ![id] = c] /\ Record(c, id, "idle")
    <2>1. \A i \in Ids : index[i].status # "absent" => index'[i].status # "absent"
      BY <1>3, RecordGrows
    <2>2. index'[id] = [status |-> "idle", ver |-> index[id].ver + 1]
      BY <1>3, RecordTyped
    <2>3. phase'[c] = "saving" /\ \A d \in Calls \ {c} : phase'[d] = phase[d]
      BY <1>1, <1>3 DEF Record, MoveTo
    <2>4. \A i \in Ids \ {id} : sessions'[i] = sessions[i] /\ sessions[i] # c
      BY <1>0, <1>1, <1>3, NoCallAssumption DEF HandlesHaveOwners, Live
    <2>5. sessions'[id] = c /\ c # NoCall
      BY <1>1, <1>3, NoCallAssumption
    <2>6. RestoringIsOpen' /\ HandlesHaveOwners' /\ LiveAreIndexed'
      BY <1>1, <2>1, <2>2, <2>3, <2>4, <2>5
         DEF RestoringIsOpen, HandlesHaveOwners, LiveAreIndexed, Live, Recorded
    <2>7. DoomedAreListed'
      BY <1>1, <2>3, <2>4, <2>5 DEF DoomedAreListed, Recorded, closing
    <2> QED
      BY <2>6, <2>7 DEF RegistryInv
  <1> QED
    BY <1>2, <1>3 DEF Register

\* destroy(): the handle leaves the registry with its own kernel session.
LEMMA DestroyKeepsRegistry ==
    ASSUME IInv, NEW c \in Calls, NEW id \in Ids, Destroy(c, id),
           UNCHANGED <<shutdown, doomed>>,
           todo' \in {todo, todo \ {id}}
    PROVE  RegistryInv'
  <1> USE DEF IInv, Destroy
  <1>1. /\ sessions \in [Ids -> Calls \cup {NoCall}] /\ doomed \subseteq Calls
        /\ phase \in [Calls -> {"new"} \cup Pending \cup Settled]
        /\ target \in [Calls -> Ids \cup {NoId}]
        /\ kernel \in [Calls -> {"none", "open", "closed"}]
    BY DEF TypeOK
  <1>2. c \notin doomed /\ phase[c] \notin Recorded
    BY DEF DoomedAreListed, Recorded, Settled
  <1>3. \A i \in Ids \ {id} :
           Live(i) => sessions[i] # c /\ sessions[i] # sessions[id] /\ sessions[i] \in Calls
    BY <1>1, <1>2 DEF HandlesHaveOwners, Live
  <1>4. sessions'[id] = NoCall /\ \A i \in Ids \ {id} : sessions'[i] = sessions[i]
    BY <1>1
  <1>5. \A d \in Calls \ {c} : target'[d] = target[d] /\ phase'[d] = phase[d]
    BY <1>1 DEF MoveTo
  <1>6. \A d \in Calls \ {sessions[id]} : kernel'[d] = kernel[d]
    BY <1>1
  <1>7. HandlesHaveOwners'
    BY <1>3, <1>4, <1>5, <1>6 DEF HandlesHaveOwners, Live
  <1>7a. RestoringIsOpen'
    BY <1>1, <1>5, <1>6 DEF RestoringIsOpen, HandlesHaveOwners, Recorded, Settled, MoveTo
  <1>8. LiveAreIndexed'
    BY <1>4 DEF LiveAreIndexed, Live
  <1>9. DoomedAreListed'
    <2>1. NoCall \notin doomed
      BY <1>1, NoCallAssumption
    <2> QED
      BY <1>1, <1>2, <1>4, <1>5, <2>1 DEF DoomedAreListed
  <1> QED
    BY <1>7, <1>7a, <1>8, <1>9 DEF RegistryInv

\* Every step keeps the registry's part of the invariant.
LEMMA RegistryStep == IInv /\ [Next]_vars => RegistryInv'
  <1> SUFFICES ASSUME IInv, [Next]_vars PROVE RegistryInv'
    OBVIOUS
  <1> USE DEF IInv
  <1>0. /\ sessions \in [Ids -> Calls \cup {NoCall}]
        /\ kernel \in [Calls -> {"none", "open", "closed"}]
        /\ phase \in [Calls -> {"new"} \cup Pending \cup Settled]
        /\ target \in [Calls -> Ids \cup {NoId}]
        /\ doomed \subseteq Calls
    BY DEF TypeOK
  <1>1. ASSUME NEW c \in Calls,
               \/ Create(c) \/ OpenKernel(c) \/ OpenFails(c)
               \/ \E id \in Ids : Resume(c, id) \/ DestroyMissing(c, id)
        PROVE  RegistryInv'
    <2>1. phase[c] \notin Recorded
      BY <1>1 DEF Create, OpenKernel, OpenFails, Resume, DestroyMissing, Recorded, Settled
    <2>2. UNCHANGED <<sessions, index, closing>>
      BY <1>1 DEF Create, OpenKernel, OpenFails, Resume, DestroyMissing, registry
    <2>3. \A d \in Calls \ {c} : /\ phase'[d] = phase[d]
                                 /\ target'[d] = target[d]
                                 /\ kernel'[d] = kernel[d]
      BY <1>0, <1>1 DEF Create, OpenKernel, OpenFails, Resume, DestroyMissing, MoveTo, registry
    <2>4. phase'[c] = "restoring" => kernel'[c] = "open"
      BY <1>0, <1>1 DEF Create, OpenKernel, OpenFails, Resume, DestroyMissing, MoveTo
    <2> QED
      BY <2>1, <2>2, <2>3, <2>4, EarlyStepKeepsRegistry
  <1>2. ASSUME NEW c \in Calls, CreateRegister(c) PROVE RegistryInv'
    <2>1. PICK id \in Ids : Register(c, id) /\ target' = [target EXCEPT ![c] = id]
      BY <1>2 DEF CreateRegister
    <2>2. kernel' = [kernel EXCEPT ![c] = "open"] /\ UNCHANGED closing /\ phase[c] = "loading"
      BY <1>2 DEF CreateRegister
    <2> QED
      BY <1>0, <2>1, <2>2, RegisterKeepsRegistry
  <1>3. ASSUME NEW c \in Calls, ResumeRegister(c) PROVE RegistryInv'
    <2>1. target[c] \in Ids
      BY <1>0, <1>3 DEF ResumeRegister, TargetsKnown
    <2>2. kernel[c] = "open"
      BY <1>3 DEF ResumeRegister, RestoringIsOpen
    <2> QED
      BY <1>3, <2>1, <2>2, RegisterKeepsRegistry DEF ResumeRegister
  <1>4. ASSUME NEW c \in Calls, CleanupEnds(c) PROVE RegistryInv'
    <2>1. target[c] \in Ids
      BY <1>0, <1>4 DEF CleanupEnds, TargetsKnown
    <2>2. \A id \in Ids : index[id].status # "absent" => index'[id].status # "absent"
      BY <1>4, <2>1, RecordGrows DEF CleanupEnds, Update
    <2>3. \A d \in Calls : /\ phase[d] \in Recorded => phase'[d] \in Recorded
                           /\ phase'[d] = "restoring" => phase[d] = "restoring"
      BY <1>0, <1>4 DEF CleanupEnds, Update, Record, MoveTo, Recorded, Settled
    <2> QED
      BY <1>4, <2>2, <2>3, LateStepKeepsRegistry DEF CleanupEnds, registry
  <1>5. ASSUME NEW c \in Calls, SaveBegin(c) \/ SaveEnd(c) PROVE RegistryInv'
    <2>1. \A d \in Calls : /\ phase[d] \in Recorded => phase'[d] \in Recorded
                           /\ phase'[d] = "restoring" => phase[d] = "restoring"
      BY <1>0, <1>5 DEF SaveBegin, SaveEnd, MoveTo, Recorded, Settled
    <2> QED
      BY <1>5, <2>1, LateStepKeepsRegistry DEF SaveBegin, SaveEnd, registry
  <1>6. ASSUME NEW c \in Calls, NEW id \in Ids,
               (Destroy(c, id) /\ UNCHANGED closing) \/ ShutdownDestroy(c, id)
        PROVE  RegistryInv'
    BY <1>6, DestroyKeepsRegistry DEF ShutdownDestroy, closing
  <1>7. ASSUME ShutdownBegin PROVE RegistryInv'
    <2>1. RestoringIsOpen' /\ HandlesHaveOwners' /\ LiveAreIndexed'
      BY <1>7 DEF ShutdownBegin, RestoringIsOpen, HandlesHaveOwners, LiveAreIndexed, Live, registry
    <2>2. \A d \in doomed' : d \in Calls /\ phase[d] \in Recorded
      BY <1>0, <1>7 DEF ShutdownBegin, HandlesHaveOwners, Live
    <2>3. \A id \in Ids : sessions[id] \in doomed' => id \in todo'
      BY <1>7, <2>2, NoCallAssumption DEF ShutdownBegin, Live
    <2> QED
      BY <1>7, <2>1, <2>2, <2>3 DEF ShutdownBegin, DoomedAreListed, RegistryInv, registry
  <1>8. ASSUME NEW id \in Ids, ShutdownSkip(id) PROVE RegistryInv'
    <2>1. sessions[id] \notin doomed
      BY <1>0, <1>8, NoCallAssumption DEF ShutdownSkip, Live
    <2> QED
      BY <1>8, <2>1 DEF ShutdownSkip, ReadyToClose, RestoringIsOpen, HandlesHaveOwners,
                        LiveAreIndexed, Live, DoomedAreListed, RegistryInv, registry
  <1>9. ASSUME ShutdownEnd PROVE RegistryInv'
    BY <1>9 DEF ShutdownEnd, RestoringIsOpen, HandlesHaveOwners, LiveAreIndexed, Live,
                DoomedAreListed, RegistryInv, registry
  <1>10. ASSUME Restart PROVE RegistryInv'
    BY <1>0, <1>10 DEF Restart, Pending, RestoringIsOpen, HandlesHaveOwners, LiveAreIndexed, Live, DoomedAreListed, RegistryInv
  <1>11. CASE UNCHANGED vars
    BY <1>11, LateStepKeepsRegistry DEF vars, registry
  <1> QED
    BY <1>1, <1>2, <1>3, <1>4, <1>5, <1>6, <1>7, <1>8, <1>9, <1>10, <1>11 DEF Next, CallStep
-----------------------------------------------------------------------------
\* A step that touches neither the disk nor the lock, and after which no call
\* that was not yet saving or settled claims a change of the index.
LEMMA MemoryStepKeepsFile ==
    ASSUME IInv, UNCHANGED <<index, store, made>>,
           NEW c \in Calls, phase[c] \notin Recorded, phase'[c] # "writing",
           \A d \in Calls \ {c} : phase'[d] = phase[d] /\ target'[d] = target[d]
    PROVE  FileInv'
  <1> USE DEF IInv, store
  <1>1. made[c] = 0 /\ saver # c
    BY DEF TargetsKnown, OneWriter, Recorded
  <1>2. OneWriter'
    BY <1>1 DEF OneWriter
  <1>3. DiskIsBehind'
    BY DEF DiskIsBehind
  <1>4. ChangesTravel'
    BY <1>1 DEF ChangesTravel
  <1> QED
    BY <1>2, <1>3, <1>4 DEF FileInv

\* A call that records its change, in an index whose other entries it leaves
\* alone, while another call's thread may be writing.
LEMMA RecordKeepsFile ==
    ASSUME IInv, NEW c \in Calls, NEW id \in Ids, NEW status \in {"idle", "completed"},
           Record(c, id, status), phase[c] \notin Recorded, target'[c] = id,
           \A d \in Calls \ {c} : target'[d] = target[d],
           UNCHANGED store
    PROVE  FileInv'
  <1> USE DEF IInv, store
  <1>1. saver # c
    BY DEF OneWriter, Recorded
  <1>2. phase'[c] = "saving" /\ \A d \in Calls \ {c} : phase'[d] = phase[d]
    BY DEF Record, MoveTo, TypeOK
  <1>3. /\ \A i \in Ids : index[i].ver <= index'[i].ver
        /\ index' \in [Ids -> Entry] /\ made' \in [Calls -> Nat]
        /\ index'[id].ver = index[id].ver + 1
        /\ made'[c] = index[id].ver + 1
        /\ \A d \in Calls \ {c} : made'[d] = made[d]
    <2>1. index'[id] = [status |-> status, ver |-> index[id].ver + 1]
      BY RecordTyped
    <2>2. \A i \in Ids : index[i].ver <= index'[i].ver
      BY RecordGrows
    <2>3. /\ index' \in [Ids -> Entry] /\ made' \in [Calls -> Nat]
          /\ made'[c] = index[id].ver + 1
          /\ \A d \in Calls \ {c} : made'[d] = made[d]
      BY RecordTyped
    <2> QED
      BY <2>1, <2>2, <2>3
  <1>4. /\ disk \in [Ids -> Entry] /\ index \in [Ids -> Entry] /\ made \in [Calls -> Nat]
        /\ buffer \in [Calls -> [Ids -> Entry]] /\ saver \in Calls \cup {NoCall}
        /\ target \in [Calls -> Ids \cup {NoId}]
    BY DEF TypeOK
  <1>5. OneWriter'
    BY <1>1, <1>2 DEF OneWriter, Recorded
  <1>6. DiskIsBehind'
    BY <1>3, <1>4 DEF DiskIsBehind, Entry
  <1>7. ChangesTravel'
    <2> SUFFICES ASSUME NEW d \in Calls, made'[d] # 0
                 PROVE  /\ phase'[d] = "saving" => made'[d] <= index'[target'[d]].ver
                        /\ phase'[d] = "writing" => made'[d] <= buffer[d][target'[d]].ver
                        /\ phase'[d] = "done" => made'[d] <= disk[target'[d]].ver
      BY DEF ChangesTravel
    <2>1. CASE d = c
      BY <1>2, <1>3, <1>4, <2>1 DEF Entry
    <2>2. CASE d # c
      <3>1. target[d] \in Ids
        BY <1>3, <1>4, <2>2 DEF TargetsKnown
      <3>2. index[target[d]].ver <= index'[target[d]].ver
        BY <1>3, <3>1
      <3>3. index[target[d]].ver \in Nat /\ index'[target[d]].ver \in Nat /\ made[d] \in Nat
        BY <1>3, <1>4, <3>1 DEF Entry
      <3> QED
        BY <1>2, <1>3, <2>2, <3>2, <3>3 DEF ChangesTravel
    <2> QED
      BY <2>1, <2>2
  <1> QED
    BY <1>5, <1>6, <1>7 DEF FileInv

\* The thread takes the lock and lists the index as it is: nothing on the disk is
\* newer, and every change under way is in.
LEMMA SaveBeginKeepsFile ==
    ASSUME IInv, NEW c \in Calls, SaveBegin(c)
    PROVE  FileInv'
  <1> USE DEF IInv, SaveBegin, MoveTo
  <1>1. /\ disk \in [Ids -> Entry] /\ index \in [Ids -> Entry] /\ made \in [Calls -> Nat]
        /\ buffer \in [Calls -> [Ids -> Entry]]
        /\ phase \in [Calls -> {"new"} \cup Pending \cup Settled]
    BY DEF TypeOK
  <1>2. OneWriter'
    BY <1>1, NoCallAssumption DEF OneWriter
  <1>3. DiskIsBehind'
    BY <1>1 DEF DiskIsBehind, Entry
  <1>4. ChangesTravel'
    BY <1>1 DEF ChangesTravel
  <1> QED
    BY <1>2, <1>3, <1>4 DEF FileInv

\* The thread leaves on the disk what it listed, or something later, and the lock
\* to the next one; or it leaves the disk alone and its call is not answered.
LEMMA SaveEndKeepsFile ==
    ASSUME IInv, NEW c \in Calls, SaveEnd(c)
    PROVE  FileInv'
  <1> USE DEF IInv
  <1>1. /\ saver = c /\ saver' = NoCall /\ phase[c] = "writing" /\ UNCHANGED <<made, target, index>>
        /\ \A id \in Ids : disk[id].ver <= disk'[id].ver /\ disk'[id].ver <= index[id].ver
        /\ phase'[c] = "done" => \A id \in Ids : buffer[c][id].ver <= disk'[id].ver
        /\ diskExists' = FALSE => disk' = disk /\ diskExists = FALSE
        /\ diskExists' \in BOOLEAN
        /\ phase'[c] \in {"done", "failed"}
        /\ \A d \in Calls \ {c} : phase'[d] = phase[d] /\ buffer'[d] = buffer[d]
        /\ disk' \in [Ids -> Entry]
    BY SaveEndTyped DEF SaveEnd
  <1>2. /\ disk \in [Ids -> Entry] /\ made \in [Calls -> Nat]
        /\ buffer \in [Calls -> [Ids -> Entry]] /\ target \in [Calls -> Ids \cup {NoId}]
    BY DEF TypeOK
  <1>3. OneWriter'
    BY <1>1, NoCallAssumption DEF OneWriter
  <1>4. DiskIsBehind'
    BY <1>1 DEF DiskIsBehind
  <1>5. ChangesTravel'
    <2> SUFFICES ASSUME NEW d \in Calls, made[d] # 0
                 PROVE  /\ phase'[d] = "saving" => made[d] <= index[target[d]].ver
                        /\ phase'[d] = "writing" => made[d] <= buffer'[d][target[d]].ver
                        /\ phase'[d] = "done" => made[d] <= disk'[target[d]].ver
      BY <1>1 DEF ChangesTravel
    <2>1. target[d] \in Ids
      BY <1>2 DEF TargetsKnown
    <2>2. /\ disk[target[d]].ver \in Nat /\ disk'[target[d]].ver \in Nat /\ made[d] \in Nat
          /\ buffer[d][target[d]].ver \in Nat
      BY <1>1, <1>2, <2>1 DEF Entry
    <2>3. CASE d = c
      BY <1>1, <2>1, <2>2, <2>3 DEF ChangesTravel
    <2>4. CASE d # c
      BY <1>1, <2>1, <2>2, <2>4 DEF ChangesTravel
    <2> QED
      BY <2>3, <2>4
  <1> QED
    BY <1>3, <1>4, <1>5 DEF FileInv

\* Every step keeps the index file's part of the invariant.
LEMMA FileStep == IInv /\ [Next]_vars => FileInv'
  <1> SUFFICES ASSUME IInv, [Next]_vars PROVE FileInv'
    OBVIOUS
  <1> USE DEF IInv
  <1>0. /\ phase \in [Calls -> {"new"} \cup Pending \cup Settled]
        /\ target \in [Calls -> Ids \cup {NoId}]
    BY DEF TypeOK
  <1>1. ASSUME NEW c \in Calls,
               \/ Create(c) \/ OpenKernel(c) \/ OpenFails(c)
               \/ \E id \in Ids : Resume(c, id) \/ DestroyMissing(c, id) \/ Destroy(c, id)
        PROVE  FileInv'
    <2>1. phase[c] \notin Recorded
      BY <1>1 DEF Create, OpenKernel, OpenFails, Resume, DestroyMissing, Destroy, Recorded, Settled
    <2>2. UNCHANGED <<index, store, made>>
      BY <1>1 DEF Create, OpenKernel, OpenFails, Resume, DestroyMissing, Destroy
    <2>3. /\ \A d \in Calls \ {c} : phase'[d] = phase[d] /\ target'[d] = target[d]
          /\ phase'[c] # "writing"
      BY <1>0, <1>1 DEF Create, OpenKernel, OpenFails, Resume, DestroyMissing, Destroy, MoveTo
    <2> QED
      BY <2>1, <2>2, <2>3, MemoryStepKeepsFile
  <1>2. ASSUME NEW c \in Calls, NEW id \in Ids, Register(c, id),
               phase[c] \in {"loading", "restoring"}, target'[c] = id,
               \A d \in Calls \ {c} : target'[d] = target[d], UNCHANGED store
        PROVE  FileInv'
    <2>1. phase[c] \notin Recorded
      BY <1>2 DEF Recorded, Settled
    <2>2. CASE MoveTo(c, "exists") /\ UNCHANGED <<index, made>>
      BY <1>0, <1>2, <2>1, <2>2, MemoryStepKeepsFile DEF MoveTo
    <2>3. CASE Record(c, id, "idle")
      BY <1>2, <2>1, <2>3, RecordKeepsFile
    <2> QED
      BY <1>2, <2>2, <2>3 DEF Register
  <1>3. ASSUME NEW c \in Calls, CreateRegister(c) PROVE FileInv'
    <2>1. PICK id \in Ids : Register(c, id) /\ target' = [target EXCEPT ![c] = id]
      BY <1>3 DEF CreateRegister
    <2> QED
      BY <1>0, <1>2, <1>3, <2>1 DEF CreateRegister
  <1>4. ASSUME NEW c \in Calls, ResumeRegister(c) PROVE FileInv'
    <2>1. target[c] \in Ids
      BY <1>0, <1>4 DEF ResumeRegister, TargetsKnown
    <2> QED
      BY <1>2, <1>4, <2>1 DEF ResumeRegister
  <1>5. ASSUME NEW c \in Calls, CleanupEnds(c) PROVE FileInv'
    <2>1. target[c] \in Ids /\ phase[c] \notin Recorded /\ UNCHANGED <<store, target>>
      BY <1>0, <1>5 DEF CleanupEnds, TargetsKnown, Recorded, Settled
    <2>2. CASE Record(c, target[c], "completed")
      BY <2>1, <2>2, RecordKeepsFile
    <2>3. CASE /\ MoveTo(c, "saving") \/ MoveTo(c, "failed")
               /\ UNCHANGED <<index, made>>
      BY <1>0, <2>1, <2>3, MemoryStepKeepsFile DEF MoveTo
    <2> QED
      BY <1>5, <2>2, <2>3 DEF CleanupEnds, Update
  <1>6. ASSUME NEW c \in Calls, NEW id \in Ids, ShutdownDestroy(c, id) PROVE FileInv'
    BY <1>1, <1>6 DEF ShutdownDestroy
  <1>7. CASE \/ ShutdownBegin \/ ShutdownEnd \/ \E id \in Ids : ShutdownSkip(id)
             \/ UNCHANGED vars
    <2>1. UNCHANGED <<index, store, phase, target, made>>
      BY <1>7 DEF ShutdownBegin, ShutdownEnd, ShutdownSkip, vars
    <2> QED
      BY <2>1 DEF store, OneWriter, DiskIsBehind, ChangesTravel, FileInv
  <1>8. ASSUME Restart PROVE FileInv'
    <2>1. \A id \in Ids : disk'[id].ver <= index'[id].ver
      BY <1>8, LoadedTyped DEF Restart
    <2>2. \A d \in Calls : phase'[d] \notin Pending /\ (phase'[d] = "done" => phase[d] = "done")
      BY <1>0, <1>8 DEF Restart, Pending, Settled
    <2>3. OneWriter' /\ DiskIsBehind'
      BY <1>8, <2>1, <2>2, NoCallAssumption DEF Restart, OneWriter, DiskIsBehind, Pending
    <2>4. ChangesTravel'
      BY <1>8, <2>2 DEF Restart, ChangesTravel, Pending
    <2> QED
      BY <2>3, <2>4 DEF FileInv
  <1> QED
    BY <1>1, <1>3, <1>4, <1>5, <1>6, <1>7, <1>8, SaveBeginKeepsFile, SaveEndKeepsFile
       DEF Next, CallStep
-----------------------------------------------------------------------------
\* Every step keeps the invariant.
LEMMA NextIInv == IInv /\ [Next]_vars => IInv'
  BY TypingStep, RegistryStep, FileStep DEF IInv, RegistryInv, FileInv

\* The invariant of the registry and its index, for any number of calls.
THEOREM Invariance == Spec => []IInv
  BY InitIInv, NextIInv, PTL DEF Spec

\* The variables keep to their types; among them an entry's status is one that
\* SessionIndex may hold (session_index.py:57-70).
THEOREM Typing == Spec => []TypeOK
  <1>1. IInv => TypeOK
    BY DEF IInv
  <1> QED
    BY <1>1, Invariance, PTL

\* Whatever two resumes and a DELETE do to each other, a handle that requests can
\* reach has an open kernel session (session_manager.py:148, 483-487).
THEOREM LiveHandlesStayOpen == Spec => []LiveHandlesAreOpen
  <1>1. IInv => LiveHandlesAreOpen
    BY DEF IInv, HandlesHaveOwners, LiveHandlesAreOpen
  <1> QED
    BY <1>1, Invariance, PTL

\* After shutdown() none of the sessions that it found is live, however its
\* destroys ended (session_manager.py:495-507).
THEOREM ShutdownClearsRegistry == Spec => []ShutdownLeavesNone
  <1>1. IInv => ShutdownLeavesNone
    BY DEF IInv, DoomedAreListed, ShutdownLeavesNone
  <1> QED
    BY <1>1, Invariance, PTL

\* An answered call's change of the index is on the disk and survives any number
\* of crashes (session_index.py:57-70, session_manager.py:159-172, 487-490).
THEOREM AnsweredIsDurable == Spec => []AnsweredChangesAreDurable
  <1>1. IInv => AnsweredChangesAreDurable
    BY DEF IInv, ChangesTravel, AnsweredChangesAreDurable
  <1> QED
    BY <1>1, Invariance, PTL

\* index.json never goes back to an older state of an entry (session_index.py:
\* 58-70).
THEOREM DiskIsMonotone == Spec => DiskNeverGoesBack
  <1>1. ASSUME IInv, [Next]_vars PROVE \A id \in Ids : disk[id].ver <= disk'[id].ver
    <2>1. \A id \in Ids : disk[id].ver \in Nat
      BY <1>1 DEF IInv, TypeOK, Entry
    <2>2. CASE \E c \in Calls : SaveEnd(c)
      BY <1>1, <2>2, SaveEndTyped DEF IInv
    <2>3. CASE UNCHANGED disk
      BY <2>1, <2>3
    <2>4. (\E c \in Calls : SaveEnd(c)) \/ UNCHANGED disk
      BY <1>1 DEF Next, CallStep, Create, CreateRegister, OpenKernel, ResumeRegister, OpenFails,
         CleanupEnds, SaveBegin, Resume, Destroy, DestroyMissing, ShutdownDestroy, ShutdownBegin,
         ShutdownSkip, ShutdownEnd, Restart, store, vars
    <2> QED
      BY <2>2, <2>3, <2>4
  <1> QED
    BY <1>1, Invariance, PTL DEF Spec, DiskNeverGoesBack

\* A registered handle is never replaced: the later register() gives way
\* (session_manager.py:148).
THEOREM HandlesAreNotReplaced == Spec => HandleNeverReplaced
  <1>1. ASSUME IInv, [Next]_vars
        PROVE  \A id \in Ids : Live(id) => sessions'[id] \in {sessions[id], NoCall}
    <2>0. sessions \in [Ids -> Calls \cup {NoCall}]
      BY <1>1 DEF IInv, TypeOK
    <2>1. CASE \E c \in Calls, id \in Ids : Register(c, id)
      BY <2>0, <2>1 DEF Register
    <2>2. CASE \E c \in Calls, id \in Ids : Destroy(c, id)
      BY <2>0, <2>2 DEF Destroy
    <2>3. CASE Restart
      BY <2>3 DEF Restart
    <2>4. CASE UNCHANGED sessions
      BY <2>4
    <2>5. ASSUME NEW c \in Calls, ResumeRegister(c) PROVE target[c] \in Ids
      BY <1>1, <2>5 DEF ResumeRegister, IInv, TypeOK, TargetsKnown
    <2>6. \/ \E c \in Calls, id \in Ids : Register(c, id) \/ Destroy(c, id)
          \/ Restart
          \/ UNCHANGED sessions
      BY <1>1, <2>5 DEF Next, CallStep, Create, CreateRegister, OpenKernel, ResumeRegister,
         OpenFails, CleanupEnds, SaveBegin, SaveEnd, Resume, DestroyMissing, ShutdownDestroy,
         ShutdownBegin, ShutdownSkip, ShutdownEnd, registry, vars
    <2> QED
      BY <2>1, <2>2, <2>3, <2>4, <2>6
  <1> QED
    BY <1>1, Invariance, PTL DEF Spec, HandleNeverReplaced

\* GET /sessions loses no session while the daemon lives: a live one has an entry,
\* and none is taken out of the index (session_manager.py:159-172, 187-220, 483-489).
THEOREM ListingKeepsAll == Spec => ListingLosesNone
  <1>1. ASSUME IInv, IInv', [Next]_vars, crashes' = crashes
        PROVE  DOMAIN Listing \subseteq DOMAIN Listing'
    <2>0. ~Restart
      BY <1>1 DEF Restart, IInv, TypeOK
    <2>1. ASSUME NEW id \in Ids, index[id].status # "absent"
          PROVE  index'[id].status # "absent"
      <3>1. CASE \E c \in Calls, i \in Ids, st \in {"idle", "completed"} : Record(c, i, st)
        BY <1>1, <2>1, <3>1, RecordGrows DEF IInv
      <3>2. CASE UNCHANGED index
        BY <2>1, <3>2
      <3>3. ASSUME NEW c \in Calls, ResumeRegister(c) \/ CleanupEnds(c) PROVE target[c] \in Ids
        BY <1>1, <3>3 DEF ResumeRegister, CleanupEnds, IInv, TypeOK, TargetsKnown
      <3>4. \/ \E c \in Calls, i \in Ids, st \in {"idle", "completed"} : Record(c, i, st)
            \/ UNCHANGED index
        BY <1>1, <2>0, <3>3 DEF Next, CallStep, Create, CreateRegister, OpenKernel,
           ResumeRegister, OpenFails, CleanupEnds, Register, Update, SaveBegin, SaveEnd, Resume,
           Destroy, DestroyMissing, ShutdownDestroy, ShutdownBegin, ShutdownSkip, ShutdownEnd, vars
      <3> QED
        BY <3>1, <3>2, <3>4
    <2>2. DOMAIN Listing = {i \in Ids : index[i].status # "absent"}
      BY <1>1 DEF Listing, IInv, LiveAreIndexed
    <2>3. DOMAIN Listing' = {i \in Ids : index'[i].status # "absent"}
      BY <1>1 DEF Listing, IInv, LiveAreIndexed
    <2> QED
      BY <2>1, <2>2, <2>3
  <1> QED
    BY <1>1, Invariance, PTL DEF Spec, ListingLosesNone
=============================================================================
