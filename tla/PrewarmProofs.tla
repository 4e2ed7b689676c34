--------------------------- MODULE PrewarmProofs ---------------------------
(***************************************************************************)
(* For any sets of retries and requests and any number of versions: the    *)
(* safety invariants of Prewarm.                                           *)
(***************************************************************************)
EXTENDS Prewarm, TLAPS

\* A retry creates its task once, when it is answered.
LaunchedOnce == \A r \in Retries : retry[r] # "answered" => task[r] = "none"

\* What has been loaded has a version, and what is cached comes of a task that is
\* done.
LoadedHasVersion ==
    /\ \A t \in Tasks : task[t] \in {"preparing", "warming"} => loaded[t] > 0
    /\ prepared # NoTask => task[prepared] = "done" /\ loaded[prepared] > 0

\* A retry awaits a task that was cancelled; and unless the daemon is stopping, a
\* task that was cancelled is awaited by a retry that will replace it.
CancelledIsAwaited ==
    /\ \A r \in Retries :
          retry[r] = "awaiting" =>
              awaits[r] \in Tasks /\ task[awaits[r]] \in {"cancelling"} \cup Over
    /\ ~stopping => \A t \in Tasks : task[t] = "cancelling" =>
          \E r \in Retries : retry[r] = "awaiting" /\ awaits[r] = t

\* Somebody is still to answer for the flag, or it says what there is to say.
SomebodyAnswers ==
    ~stopping =>
        \/ \E t \in Tasks : task[t] \in Running
        \/ \E r \in Retries : retry[r] \in UnderWay
        \/ ready /\ (configured => prepared # NoTask \/ error)

\* The shutdown begins with no request under way, and none comes after it.
StopIsQuiet ==
    /\ stopping => \A r \in Retries : retry[r] \notin UnderWay
    /\ meta = "stopped" => stopping

\* Retries one after the other: the task at work is the current one, the retry
\* under way is the only one, and it awaits the current task, or has seen it end.
OneAfterTheOther ==
    ~overlapped =>
        /\ \A t \in Tasks : task[t] \in Running => t = current
        /\ \A q, r \in Retries : retry[q] \in UnderWay /\ retry[r] \in UnderWay => q = r
        /\ \A r \in Retries : retry[r] = "awaiting" => awaits[r] = current
        /\ \A r \in Retries : retry[r] = "updating" =>
              prepared = NoTask /\ \A t \in Tasks : task[t] \notin Running
        /\ meta = "stopped" => \A t \in Tasks : task[t] \notin Running

\* Retries one after the other: what is at work, cached, loading or made is no older
\* than what the last retry fetched, or the last before it was asked for.
NothingIsStale ==
    /\ \A c \in Requests : create[c] = "loading" => given[c] = 0 \/ due[c] <= given[c]
    /\ ~overlapped =>
          /\ \A t \in Tasks : task[t] = "loading" => loaded[t] = 0 \/ refreshed <= loaded[t]
          /\ \A t \in Tasks : task[t] \in {"preparing", "warming"} => refreshed <= loaded[t]
          /\ prepared # NoTask => refreshed <= loaded[prepared]
          /\ \A c \in Requests : create[c] = "made" => due[c] <= given[c]

\* The inductive invariant.
IInv ==
    /\ TypeOK
    /\ LaunchedOnce
    /\ LoadedHasVersion
    /\ CancelledIsAwaited
    /\ SomebodyAnswers
    /\ StopIsQuiet
    /\ OneAfterTheOther
    /\ NothingIsStale
-----------------------------------------------------------------------------
\* A daemon that has just started satisfies the invariant.
LEMMA InitIInv == Init => IInv
  <1> SUFFICES ASSUME Init PROVE IInv
    OBVIOUS
  <1> USE DEF Init, Configured
  <1>1. Boot \in Tasks /\ NoTask \notin Tasks /\ Retries \subseteq Tasks
    BY NoTaskAssumption DEF Tasks
  <1>2. \A r \in Retries : task[r] = "none"
    BY <1>1, BootAssumption, NoTaskAssumption
  <1>3. TypeOK
    <2>1. task \in [Tasks -> {"none"} \cup Running \cup Over] /\ current \in Tasks \cup {NoTask}
      BY <1>1 DEF Running, Over
    <2>2. source \in 1..MaxVersion /\ known \in 0..source /\ refreshed \in 0..known
      BY VersionAssumption
    <2> QED
      BY <2>1, <2>2 DEF TypeOK
  <1>4. LaunchedOnce /\ LoadedHasVersion
    BY <1>1, <1>2 DEF LaunchedOnce, LoadedHasVersion
  <1>5. CancelledIsAwaited /\ StopIsQuiet
    BY <1>1 DEF CancelledIsAwaited, StopIsQuiet, UnderWay
  <1>6. SomebodyAnswers
    BY <1>1 DEF SomebodyAnswers, Running
  <1>7. OneAfterTheOther /\ NothingIsStale
    BY <1>1 DEF OneAfterTheOther, NothingIsStale, Running, UnderWay
  <1> QED
    BY <1>3, <1>4, <1>5, <1>6, <1>7 DEF IInv

\* The types that the proofs need, one variable at a time.
LEMMA Types ==
    ASSUME TypeOK
    PROVE  /\ prepared \in Tasks \cup {NoTask} /\ current \in Tasks \cup {NoTask}
           /\ task \in [Tasks -> {"none"} \cup Running \cup Over]
           /\ retry \in [Retries -> {"new", "answered"} \cup UnderWay]
           /\ awaits \in [Retries -> Tasks \cup {NoTask}]
           /\ source \in Nat /\ known \in Nat /\ refreshed \in Nat
           /\ known <= source /\ refreshed <= known
           /\ loaded \in [Tasks -> Nat] /\ \A t \in Tasks : loaded[t] <= source
           /\ create \in [Requests -> {"new", "reading", "loading", "made", "refused"}]
           /\ given \in [Requests -> Nat] /\ \A c \in Requests : given[c] <= source
           /\ due \in [Requests -> Nat] /\ \A c \in Requests : due[c] <= refreshed
           /\ Retries \subseteq Tasks /\ NoTask \notin Tasks
  BY NoTaskAssumption, VersionAssumption DEF TypeOK, Tasks

\* A task's own steps.
LEMMA TaskStepKeepsIInv ==
    ASSUME IInv, NEW t \in Tasks, TaskStep(t)
    PROVE  IInv'
  <1> USE DEF IInv
  <1>a. /\ prepared \in Tasks \cup {NoTask} /\ current \in Tasks \cup {NoTask}
        /\ task \in [Tasks -> {"none"} \cup Running \cup Over]
        /\ awaits \in [Retries -> Tasks \cup {NoTask}]
        /\ retry \in [Retries -> {"new", "answered"} \cup UnderWay]
        /\ source \in Nat /\ known \in Nat /\ refreshed \in Nat
        /\ known <= source /\ refreshed <= known
        /\ loaded \in [Tasks -> Nat] /\ \A u \in Tasks : loaded[u] <= source
        /\ Retries \subseteq Tasks /\ NoTask \notin Tasks
    BY Types
  \* What moves is one task, from a state in which it runs.
  <1>b. ASSUME NEW from \in Running, NEW to \in Running \cup Over,
               MoveTask(t, from, to), to # "starting",
               UNCHANGED <<current, retry, awaits, overlapped, stopping, meta>>,
               to # "cancelling",
               from # "cancelling" \/ to = "cancelled"
        PROVE  /\ LaunchedOnce' /\ CancelledIsAwaited' /\ StopIsQuiet'
               /\ task' \in [Tasks -> {"none"} \cup Running \cup Over]
               /\ \A u \in Tasks \ {t} : task'[u] = task[u]
               /\ task[t] = from /\ task'[t] = to
               /\ (~overlapped => \A r \in Retries : retry[r] # "updating")
    <2>1. /\ task' \in [Tasks -> {"none"} \cup Running \cup Over]
          /\ \A u \in Tasks \ {t} : task'[u] = task[u]
          /\ task[t] = from /\ task'[t] = to
      BY <1>a, <1>b DEF MoveTask
    <2>2. LaunchedOnce'
      BY <1>a, <1>b, <2>1 DEF LaunchedOnce, Running
    <2>3. CancelledIsAwaited'
      BY <1>a, <1>b, <2>1 DEF CancelledIsAwaited, Running, Over
    <2>4. StopIsQuiet'
      BY <1>b DEF StopIsQuiet
    <2>5. ~overlapped => \A r \in Retries : retry[r] # "updating"
      BY <1>b, <2>1 DEF OneAfterTheOther
    <2> QED
      BY <2>1, <2>2, <2>3, <2>4, <2>5
  <1>c. ASSUME UNCHANGED <<configured, current, retry, awaits, overlapped, stopping, meta, source,
                           registered, refreshed, creation>>,
               ready' \in BOOLEAN, error' \in BOOLEAN,
               prepared' \in Tasks \cup {NoTask},
               task' \in [Tasks -> {"none"} \cup Running \cup Over],
               known' \in known..source,
               loaded' \in [Tasks -> 0..source]
        PROVE  TypeOK'
    <2>1. known' \in 0..source' /\ refreshed' \in 0..known'
      BY <1>a, <1>c
    <2> QED
      BY <1>c, <2>1 DEF TypeOK, creation
  <1>d. loaded \in [Tasks -> 0..source] /\ ready \in BOOLEAN /\ error \in BOOLEAN /\ known \in known..source
    BY <1>a DEF TypeOK
  <1>1. CASE Begin(t)
    <2> DEFINE to == IF configured THEN "loading" ELSE "done"
    <2>0. /\ MoveTask(t, "starting", to)
          /\ UNCHANGED <<configured, error, prepared, current, retry, awaits, overlapped,
                         stopping, meta, bundle, refreshed, creation>>
      BY <1>1 DEF Begin
    <2>1. /\ LaunchedOnce' /\ CancelledIsAwaited' /\ StopIsQuiet'
          /\ task' \in [Tasks -> {"none"} \cup Running \cup Over]
          /\ \A u \in Tasks \ {t} : task'[u] = task[u]
          /\ task[t] = "starting" /\ task'[t] = to
          /\ (~overlapped => \A r \in Retries : retry[r] # "updating")
      <3>1. to \in Running \cup Over /\ "starting" \in Running
        BY DEF Running, Over
      <3> HIDE DEF to
      <3>2. to # "starting" /\ to # "cancelling"
        BY DEF to
      <3> QED
        BY <1>b, <2>0, <3>1, <3>2
    <2>2. /\ \A u \in Tasks \ {t} : loaded'[u] = loaded[u]
          /\ loaded' \in [Tasks -> 0..source]
          /\ to = "loading" => loaded'[t] = 0 \/ refreshed <= loaded'[t]
          /\ ready' = IF configured THEN ready ELSE TRUE
      <3>1. CASE ~configured
        BY <1>1, <1>d, <3>1 DEF Begin, MoveTask
      <3>2. CASE configured
        <4>1. PICK v \in Loads : loaded' = [loaded EXCEPT ![t] = v]
          BY <1>1, <3>2 DEF Begin
        <4>2. v \in 0..source /\ (v = 0 \/ refreshed <= v)
          BY <1>a DEF Loads
        <4>3. ready' = ready
          BY <1>1, <3>2 DEF Begin
        <4> QED
          BY <1>d, <3>2, <4>1, <4>2, <4>3
      <3> QED
        BY <3>1, <3>2
    <2>3. TypeOK'
      BY <1>c, <1>d, <2>0, <2>1, <2>2, <1>a DEF bundle
    <2>4. LoadedHasVersion'
      BY <1>a, <2>0, <2>1, <2>2 DEF LoadedHasVersion
    <2>5. SomebodyAnswers'
      BY <2>0, <2>1, <2>2 DEF SomebodyAnswers, Running
    <2>6. OneAfterTheOther'
      BY <2>0, <2>1 DEF OneAfterTheOther, Running
    <2>7. NothingIsStale'
      BY <1>a, <2>0, <2>1, <2>2 DEF NothingIsStale, LoadedHasVersion, creation
    <2> QED
      BY <2>1, <2>3, <2>4, <2>5, <2>6, <2>7
  <1>2. CASE Load(t)
    <2>0. MoveTask(t, "loading", "preparing") /\ loaded[t] > 0
          /\ UNCHANGED <<configured, ready, error, prepared, current, retry, awaits, overlapped,
                         stopping, meta, source, registered, loaded, refreshed, creation>>
      BY <1>2 DEF Load
    <2>1. /\ LaunchedOnce' /\ CancelledIsAwaited' /\ StopIsQuiet'
          /\ task' \in [Tasks -> {"none"} \cup Running \cup Over]
          /\ \A u \in Tasks \ {t} : task'[u] = task[u]
          /\ task[t] = "loading" /\ task'[t] = "preparing"
          /\ (~overlapped => \A r \in Retries : retry[r] # "updating")
      BY <1>b, <2>0 DEF Running
    <2>2. known' \in known..source
      BY <1>2, <1>a DEF Load, Max2
    <2>3. TypeOK'
      BY <1>c, <1>d, <1>a, <2>0, <2>1, <2>2
    <2>4. LoadedHasVersion'
      BY <1>a, <2>0, <2>1 DEF LoadedHasVersion
    <2>5. SomebodyAnswers'
      BY <2>0, <2>1 DEF SomebodyAnswers, Running
    <2>6. OneAfterTheOther'
      BY <2>0, <2>1 DEF OneAfterTheOther, Running
    <2>7. NothingIsStale'
      BY <1>a, <2>0, <2>1 DEF NothingIsStale, creation
    <2> QED
      BY <2>1, <2>3, <2>4, <2>5, <2>6, <2>7
  <1>3. CASE Prepare(t)
    <2>0. MoveTask(t, "preparing", "warming")
          /\ UNCHANGED <<configured, ready, error, prepared, current, retry, awaits, overlapped,
                         stopping, meta, bundle, loaded, refreshed, creation>>
      BY <1>3 DEF Prepare
    <2>1. /\ LaunchedOnce' /\ CancelledIsAwaited' /\ StopIsQuiet'
          /\ task' \in [Tasks -> {"none"} \cup Running \cup Over]
          /\ \A u \in Tasks \ {t} : task'[u] = task[u]
          /\ task[t] = "preparing" /\ task'[t] = "warming"
          /\ (~overlapped => \A r \in Retries : retry[r] # "updating")
      BY <1>b, <2>0 DEF Running
    <2>3. TypeOK'
      BY <1>c, <1>d, <1>a, <2>0, <2>1 DEF bundle
    <2>4. LoadedHasVersion'
      BY <1>a, <2>0, <2>1 DEF LoadedHasVersion
    <2>5. SomebodyAnswers'
      BY <2>0, <2>1 DEF SomebodyAnswers, Running
    <2>6. OneAfterTheOther'
      BY <2>0, <2>1 DEF OneAfterTheOther, Running
    <2>7. NothingIsStale'
      BY <1>a, <2>0, <2>1 DEF NothingIsStale, creation
    <2> QED
      BY <2>1, <2>3, <2>4, <2>5, <2>6, <2>7
  <1>4. CASE Warm(t)
    <2>0. MoveTask(t, "warming", "done") /\ prepared' = t /\ ready' = TRUE
          /\ UNCHANGED <<configured, error, current, retry, awaits, overlapped,
                         stopping, meta, bundle, loaded, refreshed, creation>>
      BY <1>4 DEF Warm, SetPrepared
    <2>1. /\ LaunchedOnce' /\ CancelledIsAwaited' /\ StopIsQuiet'
          /\ task' \in [Tasks -> {"none"} \cup Running \cup Over]
          /\ \A u \in Tasks \ {t} : task'[u] = task[u]
          /\ task[t] = "warming" /\ task'[t] = "done"
          /\ (~overlapped => \A r \in Retries : retry[r] # "updating")
      BY <1>b, <2>0 DEF Running, Over
    <2>3. TypeOK'
      BY <1>c, <1>d, <1>a, <2>0, <2>1 DEF bundle
    <2>4. LoadedHasVersion'
      BY <1>a, <2>0, <2>1 DEF LoadedHasVersion
    <2>5. SomebodyAnswers'
      BY <1>a, <2>0 DEF SomebodyAnswers
    <2>6. OneAfterTheOther'
      BY <2>0, <2>1 DEF OneAfterTheOther, Running
    <2>7. NothingIsStale'
      BY <1>a, <2>0, <2>1 DEF NothingIsStale, creation
    <2> QED
      BY <2>1, <2>3, <2>4, <2>5, <2>6, <2>7
  <1>5. CASE Raise(t) \/ TimeOut(t)
    <2>0. /\ MoveTask(t, "loading", "failed") \/ MoveTask(t, "preparing", "failed")
          /\ ready' = TRUE /\ error' = TRUE
          /\ UNCHANGED <<configured, prepared, current, retry, awaits, overlapped,
                         stopping, meta, bundle, loaded, refreshed, creation>>
      BY <1>5 DEF Raise, TimeOut, Fail
    <2>1. /\ LaunchedOnce' /\ CancelledIsAwaited' /\ StopIsQuiet'
          /\ task' \in [Tasks -> {"none"} \cup Running \cup Over]
          /\ \A u \in Tasks \ {t} : task'[u] = task[u]
          /\ task[t] \in {"loading", "preparing"} /\ task'[t] = "failed"
      BY <1>b, <2>0 DEF Running, Over
    <2>3. TypeOK'
      BY <1>c, <1>d, <1>a, <2>0, <2>1 DEF bundle
    <2>4. LoadedHasVersion'
      BY <1>a, <2>0, <2>1 DEF LoadedHasVersion
    <2>5. SomebodyAnswers'
      BY <2>0 DEF SomebodyAnswers
    <2>6. OneAfterTheOther'
      BY <2>0, <2>1 DEF OneAfterTheOther, Running
    <2>7. NothingIsStale'
      BY <1>a, <2>0, <2>1 DEF NothingIsStale, creation
    <2> QED
      BY <2>1, <2>3, <2>4, <2>5, <2>6, <2>7
  <1>6. CASE CancelDelivered(t)
    <2>0. MoveTask(t, "cancelling", "cancelled")
          /\ UNCHANGED <<configured, ready, error, prepared, current, retry, awaits, overlapped,
                         stopping, meta, bundle, loaded, refreshed, creation>>
      BY <1>6 DEF CancelDelivered
    <2>1. /\ LaunchedOnce' /\ CancelledIsAwaited' /\ StopIsQuiet'
          /\ task' \in [Tasks -> {"none"} \cup Running \cup Over]
          /\ \A u \in Tasks \ {t} : task'[u] = task[u]
          /\ task[t] = "cancelling" /\ task'[t] = "cancelled"
      BY <1>b, <2>0 DEF Running, Over
    <2>3. TypeOK'
      BY <1>c, <1>d, <1>a, <2>0, <2>1 DEF bundle
    <2>4. LoadedHasVersion'
      BY <1>a, <2>0, <2>1 DEF LoadedHasVersion
    <2>5. SomebodyAnswers'
      BY <2>0, <2>1 DEF SomebodyAnswers, CancelledIsAwaited, UnderWay
    <2>6. OneAfterTheOther'
      BY <2>0, <2>1 DEF OneAfterTheOther, Running
    <2>7. NothingIsStale'
      BY <1>a, <2>0, <2>1 DEF NothingIsStale, creation
    <2> QED
      BY <2>1, <2>3, <2>4, <2>5, <2>6, <2>7
  <1> QED
    BY <1>1, <1>2, <1>3, <1>4, <1>5, <1>6 DEF TaskStep

\* Launch(r): the flag is cleared and r's task takes over, whatever is at work.
LEMMA LaunchKeepsIInv ==
    ASSUME IInv, NEW r \in Retries, Launch(r), retry[r] # "answered", ~stopping,
           ~overlapped' => \A q \in Retries : retry[q] \in UnderWay => q = r,
           ~overlapped' => \A t \in Tasks : task[t] \notin Running,
           ~overlapped' => ~overlapped,
           prepared' \in {prepared, NoTask},
           ~overlapped' => prepared' = NoTask,
           retry[r] = "awaiting" => task[awaits[r]] \in Over,
           error' \in BOOLEAN, overlapped' \in BOOLEAN,
           known' \in known..source, refreshed' \in {refreshed, known'},
           UNCHANGED <<configured, awaits, stopping, meta, source, registered, loaded, creation>>
    PROVE  IInv'
  <1> USE DEF IInv, Launch, creation
  <1>a. /\ prepared \in Tasks \cup {NoTask} /\ current \in Tasks \cup {NoTask}
        /\ task \in [Tasks -> {"none"} \cup Running \cup Over]
        /\ awaits \in [Retries -> Tasks \cup {NoTask}]
        /\ retry \in [Retries -> {"new", "answered"} \cup UnderWay]
        /\ source \in Nat /\ known \in Nat /\ refreshed \in Nat
        /\ known <= source /\ refreshed <= known
        /\ due \in [Requests -> Nat] /\ \A c \in Requests : due[c] <= refreshed
        /\ r \in Tasks /\ Retries \subseteq Tasks /\ NoTask \notin Tasks
    BY Types
  <1>1. /\ task'[r] = "starting" /\ retry'[r] = "answered" /\ task[r] = "none" /\ ~stopping'
        /\ \A t \in Tasks \ {r} : task'[t] = task[t]
        /\ \A q \in Retries \ {r} : retry'[q] = retry[q]
        /\ task' \in [Tasks -> {"none"} \cup Running \cup Over]
        /\ retry' \in [Retries -> {"new", "answered"} \cup UnderWay]
    BY <1>a DEF LaunchedOnce, Running
  <1>2. TypeOK'
    <2>1. known' \in 0..source /\ refreshed' \in 0..known' /\ refreshed <= refreshed'
      BY <1>a
    <2>2. due' \in [Requests -> 0..refreshed']
      BY <1>a, <2>1
    <2> QED
      BY <1>a, <1>1, <2>1, <2>2 DEF TypeOK
  <1>3. LaunchedOnce' /\ StopIsQuiet'
    BY <1>a, <1>1 DEF LaunchedOnce, StopIsQuiet
  <1>4. LoadedHasVersion'
    BY <1>a, <1>1 DEF LoadedHasVersion
  <1>5. CancelledIsAwaited'
    <2>1. \A q \in Retries : retry'[q] = "awaiting" =>
             awaits[q] \in Tasks /\ task'[awaits[q]] \in {"cancelling"} \cup Over
      BY <1>a, <1>1 DEF CancelledIsAwaited, Over
    <2>2. ASSUME NEW t \in Tasks, task'[t] = "cancelling"
          PROVE  \E q \in Retries : retry'[q] = "awaiting" /\ awaits[q] = t
      <3>1. PICK q \in Retries : retry[q] = "awaiting" /\ awaits[q] = t /\ task[t] = "cancelling"
        BY <1>1, <2>2 DEF CancelledIsAwaited
      <3>2. q # r
        BY <3>1 DEF Over
      <3> QED
        BY <1>1, <3>1, <3>2
    <2> QED
      BY <2>1, <2>2 DEF CancelledIsAwaited
  <1>6. SomebodyAnswers'
    BY <1>a, <1>1 DEF SomebodyAnswers, Running
  <1>7. OneAfterTheOther'
    <2> SUFFICES ASSUME ~overlapped' PROVE OneAfterTheOther'
      BY DEF OneAfterTheOther
    <2>1. \A t \in Tasks : task'[t] \in Running => t = r
      BY <1>1
    <2>2. \A q \in Retries : retry'[q] \notin UnderWay
      BY <1>1 DEF UnderWay
    <2>3. meta' # "stopped"
      BY DEF StopIsQuiet
    <2> QED
      BY <2>1, <2>2, <2>3 DEF OneAfterTheOther, UnderWay
  <1>8. NothingIsStale'
    <2>1. \A c \in Requests : create[c] = "loading" => given[c] = 0 \/ due[c] <= given[c]
      BY DEF NothingIsStale
    <2>2. CASE ~overlapped'
      BY <1>1, <2>1, <2>2 DEF NothingIsStale, Running
    <2> QED
      BY <2>1, <2>2 DEF NothingIsStale
  <1> QED
    BY <1>2, <1>3, <1>4, <1>5, <1>6, <1>7, <1>8

\* Renew(r): the cached bundle goes and r goes on to update the registry, or
\* launches its task at once.
LEMMA RenewKeepsIInv ==
    ASSUME IInv, NEW r \in Retries, Renew(r), retry[r] \in {"new", "awaiting"}, ~stopping,
           ~overlapped' => \A q \in Retries : retry[q] \in UnderWay => q = r,
           ~overlapped' => \A t \in Tasks : task[t] \notin Running,
           ~overlapped' => ~overlapped,
           retry[r] = "awaiting" => task[awaits[r]] \in Over,
           error' \in BOOLEAN, overlapped' \in BOOLEAN,
           UNCHANGED <<configured, awaits, stopping, meta, bundle, loaded, refreshed, creation>>
    PROVE  IInv'
  <1> USE DEF IInv, Renew, ClearPrepared, bundle
  <1>a. /\ task \in [Tasks -> {"none"} \cup Running \cup Over]
        /\ retry \in [Retries -> {"new", "answered"} \cup UnderWay]
        /\ source \in Nat /\ known \in Nat /\ refreshed \in Nat
        /\ known <= source /\ refreshed <= known
        /\ Retries \subseteq Tasks /\ NoTask \notin Tasks
    BY Types
  <1>1. CASE ~configured
    <2>1. Launch(r) /\ known' \in known..source /\ refreshed' \in {refreshed, known'}
      BY <1>1, <1>a
    <2> QED
      BY <2>1, LaunchKeepsIInv
  <1>2. CASE configured
    <2>1. /\ retry' = [retry EXCEPT ![r] = "updating"] /\ UNCHANGED <<ready, task, current>>
          /\ prepared' = NoTask
      BY <1>2
    <2>2. /\ retry'[r] = "updating" /\ \A q \in Retries \ {r} : retry'[q] = retry[q]
          /\ retry' \in [Retries -> {"new", "answered"} \cup UnderWay]
      BY <1>a, <2>1 DEF UnderWay
    <2>3. TypeOK'
      BY <2>1, <2>2 DEF TypeOK, creation
    <2>4. LaunchedOnce' /\ StopIsQuiet' /\ LoadedHasVersion'
      BY <2>1, <2>2 DEF LaunchedOnce, StopIsQuiet, LoadedHasVersion
    <2>5. CancelledIsAwaited'
      BY <2>1, <2>2 DEF CancelledIsAwaited, Over
    <2>6. SomebodyAnswers'
      BY <2>2 DEF SomebodyAnswers, UnderWay
    <2>7. OneAfterTheOther'
      <3> SUFFICES ASSUME ~overlapped' PROVE OneAfterTheOther'
        BY DEF OneAfterTheOther
      <3>1. \A q \in Retries : retry'[q] \in UnderWay => q = r
        BY <2>2
      <3>2. \A q \in Retries : retry'[q] # "awaiting"
        BY <2>2, <3>1 DEF UnderWay
      <3> QED
        BY <2>1, <3>1, <3>2 DEF OneAfterTheOther
    <2>8. NothingIsStale'
      BY <2>1, <2>2 DEF NothingIsStale, creation
    <2> QED
      BY <2>3, <2>4, <2>5, <2>6, <2>7, <2>8
  <1> QED
    BY <1>1, <1>2

\* POST /ready/retry up to its first await.
LEMMA RetryBeginKeepsIInv ==
    ASSUME IInv, NEW r \in Retries, RetryBegin(r)
    PROVE  IInv'
  <1> USE DEF IInv, RetryBegin
  <1>a. /\ task \in [Tasks -> {"none"} \cup Running \cup Over] /\ current \in Tasks \cup {NoTask}
        /\ awaits \in [Retries -> Tasks \cup {NoTask}]
        /\ retry \in [Retries -> {"new", "answered"} \cup UnderWay]
        /\ prepared \in Tasks \cup {NoTask} /\ Retries \subseteq Tasks /\ NoTask \notin Tasks
    BY Types
  <1>b. /\ overlapped' \in BOOLEAN
        /\ ~overlapped' => ~overlapped /\ \A q \in Retries : retry[q] \notin UnderWay
    BY DEF TypeOK
  <1>1. CASE ~CurrentRuns
    <2>1. ~overlapped' => \A t \in Tasks : task[t] \notin Running
      BY <1>a, <1>b, <1>1 DEF OneAfterTheOther, CurrentRuns
    <2>2. Renew(r) /\ UNCHANGED awaits
      BY <1>1
    <2> QED
      BY <1>b, <2>1, <2>2, RenewKeepsIInv
  <1>2. CASE CurrentRuns
    <2>1. /\ current \in Tasks /\ task[current] \in Running
          /\ UNCHANGED <<configured, ready, prepared, current, stopping, meta, bundle, loaded,
                         refreshed, creation>>
          /\ error' = FALSE /\ ~stopping
      BY <1>a, <1>2 DEF CurrentRuns
    <2>2. /\ task'[current] = "cancelling" /\ \A t \in Tasks \ {current} : task'[t] = task[t]
          /\ retry'[r] = "awaiting" /\ \A q \in Retries \ {r} : retry'[q] = retry[q]
          /\ awaits'[r] = current /\ \A q \in Retries \ {r} : awaits'[q] = awaits[q]
      BY <1>a, <1>2, <2>1
    <2>3. /\ task' \in [Tasks -> {"none"} \cup Running \cup Over]
          /\ retry' \in [Retries -> {"new", "answered"} \cup UnderWay]
          /\ awaits' \in [Retries -> Tasks \cup {NoTask}]
      BY <1>a, <1>2, <2>1 DEF Running, UnderWay
    <2>4. TypeOK'
      BY <1>b, <2>1, <2>3 DEF TypeOK, bundle, creation
    <2>5. LaunchedOnce'
      BY <1>a, <2>1, <2>2 DEF LaunchedOnce, Running
    <2>6. LoadedHasVersion'
      BY <1>a, <2>1, <2>2 DEF LoadedHasVersion, Running
    <2>7. CancelledIsAwaited'
      BY <2>1, <2>2 DEF CancelledIsAwaited
    <2>8. SomebodyAnswers' /\ StopIsQuiet'
      BY <2>1, <2>2 DEF SomebodyAnswers, StopIsQuiet, UnderWay
    <2>9. OneAfterTheOther'
      <3> SUFFICES ASSUME ~overlapped' PROVE OneAfterTheOther'
        BY DEF OneAfterTheOther
      <3>1. \A t \in Tasks : task'[t] \in Running => t = current
        BY <1>b, <2>2 DEF OneAfterTheOther
      <3>2. \A q \in Retries : retry'[q] \in UnderWay => q = r
        BY <1>b, <2>2
      <3>3. \A q \in Retries : retry'[q] # "updating" /\ (retry'[q] = "awaiting" => q = r)
        BY <2>2, <3>2 DEF UnderWay
      <3>4. meta' # "stopped"
        BY <2>1 DEF StopIsQuiet
      <3> QED
        BY <2>1, <2>2, <3>1, <3>2, <3>3, <3>4 DEF OneAfterTheOther
    <2>10. NothingIsStale'
      BY <1>b, <2>1, <2>2 DEF NothingIsStale, creation
    <2> QED
      BY <2>4, <2>5, <2>6, <2>7, <2>8, <2>9, <2>10
  <1> QED
    BY <1>1, <1>2

\* The other steps of a retry.
LEMMA RetryStepKeepsIInv ==
    ASSUME IInv, NEW r \in Retries, RetryResume(r) \/ RetryStart(r)
    PROVE  IInv'
  <1> USE DEF IInv
  <1>a. /\ source \in Nat /\ known \in Nat /\ refreshed \in Nat
        /\ known <= source /\ refreshed <= known /\ overlapped \in BOOLEAN /\ error \in BOOLEAN
    BY Types DEF TypeOK
  <1>b. retry[r] \in UnderWay /\ ~stopping
    BY DEF RetryResume, RetryStart, UnderWay, StopIsQuiet
  <1>c. ~overlapped => \A q \in Retries : retry[q] \in UnderWay => q = r
    BY <1>b DEF OneAfterTheOther
  <1>1. CASE RetryResume(r)
    <2>1. /\ retry[r] = "awaiting" /\ task[awaits[r]] \in Over /\ Renew(r)
          /\ UNCHANGED <<configured, error, awaits, overlapped, stopping, meta, bundle,
                         loaded, refreshed, creation>>
      BY <1>1 DEF RetryResume
    <2>2. ~overlapped => \A t \in Tasks : task[t] \notin Running
      BY <2>1 DEF OneAfterTheOther, Over, Running
    <2> QED
      BY <1>a, <1>b, <1>c, <2>1, <2>2, RenewKeepsIInv
  <1>2. CASE RetryStart(r)
    <2>1. /\ retry[r] = "updating" /\ Launch(r) /\ refreshed' = known'
          /\ UNCHANGED <<configured, error, prepared, awaits, overlapped, stopping, meta,
                         source, registered, loaded, creation>>
      BY <1>2 DEF RetryStart
    <2>2. known' \in known..source
      BY <1>2, <1>a DEF RetryStart
    <2>3. ~overlapped => prepared = NoTask /\ \A t \in Tasks : task[t] \notin Running
      BY <2>1 DEF OneAfterTheOther
    <2> QED
      BY <1>a, <1>b, <1>c, <2>1, <2>2, <2>3, LaunchKeepsIInv
  <1> QED
    BY <1>1, <1>2

\* The daemon's shutdown.
LEMMA StopKeepsIInv == ASSUME IInv, Stop \/ StopEnds PROVE IInv'
  <1> USE DEF IInv
  <1>a. /\ task \in [Tasks -> {"none"} \cup Running \cup Over] /\ current \in Tasks \cup {NoTask}
        /\ prepared \in Tasks \cup {NoTask} /\ Retries \subseteq Tasks /\ NoTask \notin Tasks
    BY Types
  <1>1. CASE Stop
    <2>1. /\ stopping' = TRUE /\ \A r \in Retries : retry[r] \notin UnderWay
          /\ UNCHANGED <<configured, ready, error, prepared, current, retry, awaits,
                         overlapped, meta, bundle, loaded, refreshed, creation>>
      BY <1>1 DEF Stop
    <2>2. /\ task' \in [Tasks -> {"none"} \cup Running \cup Over]
          /\ \A t \in Tasks : \/ task'[t] = task[t]
                              \/ /\ task[t] \in Running /\ task'[t] = "cancelling"
                                 /\ t = current
      BY <1>1, <1>a DEF Stop, CurrentRuns, Running
    <2>3. TypeOK'
      BY <2>1, <2>2 DEF TypeOK, bundle, creation
    <2>4. LaunchedOnce'
      BY <1>a, <2>1, <2>2 DEF LaunchedOnce, Running
    <2>5. LoadedHasVersion'
      BY <1>a, <2>1, <2>2 DEF LoadedHasVersion, Running
    <2>6. CancelledIsAwaited'
      BY <2>1 DEF CancelledIsAwaited, UnderWay
    <2>7. SomebodyAnswers' /\ StopIsQuiet'
      BY <2>1 DEF SomebodyAnswers, StopIsQuiet
    <2>8. OneAfterTheOther'
      BY <2>1, <2>2 DEF OneAfterTheOther, Running
    <2>9. NothingIsStale'
      BY <2>1, <2>2 DEF NothingIsStale, creation
    <2> QED
      BY <2>3, <2>4, <2>5, <2>6, <2>7, <2>8, <2>9
  <1>2. CASE StopEnds
    <2>1. /\ stopping /\ ~CurrentRuns /\ meta' = "stopped"
          /\ UNCHANGED <<configured, ready, error, prepared, current, task, retry, awaits,
                         overlapped, stopping, bundle, loaded, refreshed, creation>>
      BY <1>2 DEF StopEnds, UpdateMeta
    <2>2. TypeOK'
      BY <2>1 DEF TypeOK, bundle, creation
    <2>3. OneAfterTheOther'
      BY <1>a, <2>1 DEF OneAfterTheOther, CurrentRuns
    <2> QED
      BY <2>1, <2>2, <2>3 DEF LaunchedOnce, LoadedHasVersion, CancelledIsAwaited, SomebodyAnswers,
         StopIsQuiet, NothingIsStale, creation
  <1> QED
    BY <1>1, <1>2

\* A step that leaves the process alone: what is left to keep is the types and the
\* requests' part.
LEMMA OutsideStepKeepsIInv ==
    ASSUME IInv, UNCHANGED process, TypeOK',
           \A c \in Requests :
               /\ create'[c] = "loading" => given'[c] = 0 \/ due'[c] <= given'[c]
               /\ ~overlapped => (create'[c] = "made" => due'[c] <= given'[c])
    PROVE  IInv'
  BY DEF IInv, process, LaunchedOnce, LoadedHasVersion, CancelledIsAwaited, SomebodyAnswers,
     StopIsQuiet, OneAfterTheOther, NothingIsStale

\* Looking for the cached bundle gives one that is recent enough, or a load.
LEMMA LookupIsFresh ==
    ASSUME IInv, NEW c \in Requests, Lookup(c)
    PROVE  /\ create'[c] \in {"made", "loading"} /\ given'[c] \in 0..source
           /\ create'[c] = "made" => given'[c] > 0 /\ (~overlapped => refreshed <= given'[c])
           /\ create'[c] = "loading" => given'[c] = 0 \/ refreshed <= given'[c]
           /\ \A d \in Requests \ {c} : create'[d] = create[d] /\ given'[d] = given[d]
           /\ create' \in [Requests -> {"new", "reading", "loading", "made", "refused"}]
           /\ given' \in [Requests -> 0..source]
  <1> USE DEF IInv
  <1>1. /\ prepared \in Tasks \cup {NoTask} /\ source \in Nat /\ known \in Nat /\ refreshed \in Nat
        /\ known <= source /\ refreshed <= known
        /\ loaded \in [Tasks -> Nat] /\ \A t \in Tasks : loaded[t] <= source
        /\ create \in [Requests -> {"new", "reading", "loading", "made", "refused"}]
        /\ given \in [Requests -> Nat] /\ \A d \in Requests : given[d] <= source
    BY Types
  <1>2. CASE prepared # NoTask
    <2>1. create' = [create EXCEPT ![c] = "made"] /\ given' = [given EXCEPT ![c] = loaded[prepared]]
      BY <1>2 DEF Lookup
    <2>2. loaded[prepared] \in 1..source /\ (~overlapped => refreshed <= loaded[prepared])
      BY <1>1, <1>2 DEF LoadedHasVersion, NothingIsStale
    <2> QED
      BY <1>1, <2>1, <2>2
  <1>3. CASE prepared = NoTask
    <2>1. PICK v \in Loads : given' = [given EXCEPT ![c] = v]
      BY <1>3 DEF Lookup
    <2>2. create' = [create EXCEPT ![c] = "loading"]
      BY <1>3 DEF Lookup
    <2>3. v \in 0..source /\ (v = 0 \/ refreshed <= v)
      BY <1>1 DEF Loads
    <2> QED
      BY <1>1, <2>1, <2>2, <2>3
  <1> QED
    BY <1>2, <1>3

\* POST /sessions and POST /resume.
LEMMA RequestStepKeepsIInv ==
    ASSUME IInv, NEW c \in Requests,
           Create(c) \/ Resume(c) \/ ResumeReads(c) \/ CreateEnds(c)
    PROVE  IInv'
  <1> USE DEF IInv
  <1>a. /\ source \in Nat /\ known \in Nat /\ refreshed \in Nat
        /\ known <= source /\ refreshed <= known
        /\ create \in [Requests -> {"new", "reading", "loading", "made", "refused"}]
        /\ given \in [Requests -> Nat] /\ \A d \in Requests : given[d] <= source
        /\ due \in [Requests -> Nat] /\ \A d \in Requests : due[d] <= refreshed
    BY Types
  <1>b. \A d \in Requests :
           /\ create[d] = "loading" => given[d] = 0 \/ due[d] <= given[d]
           /\ ~overlapped => (create[d] = "made" => due[d] <= given[d])
    BY DEF NothingIsStale
  <1>c. \A d \in Requests : create[d] = "made" => given[d] > 0
    BY DEF TypeOK
  \* Only c's own entries change, and they end up as they should.
  <1>d. ASSUME UNCHANGED <<process, source, registered>>, known' \in known..source,
               create' \in [Requests -> {"new", "reading", "loading", "made", "refused"}],
               given' \in [Requests -> 0..source], due' \in [Requests -> 0..refreshed],
               \A d \in Requests \ {c} :
                  create'[d] = create[d] /\ given'[d] = given[d] /\ due'[d] = due[d],
               create'[c] = "loading" => given'[c] = 0 \/ due'[c] <= given'[c],
               create'[c] = "made" => given'[c] > 0 /\ (~overlapped => due'[c] <= given'[c])
        PROVE  IInv'
    <2>1. TypeOK'
      <3>1. known' \in 0..source /\ refreshed \in 0..known'
        BY <1>a, <1>d
      <3>2. \A d \in Requests : create'[d] = "made" => given'[d] > 0
        BY <1>c, <1>d
      <3> QED
        BY <1>d, <3>1, <3>2 DEF TypeOK, process
    <2> QED
      BY <1>b, <1>d, <2>1, OutsideStepKeepsIInv DEF process
  <1>1. CASE Create(c) \/ Resume(c)
    <2>1. /\ due' = [due EXCEPT ![c] = refreshed] /\ UNCHANGED <<process, bundle>>
          /\ \/ Lookup(c)
             \/ /\ create' \in {[create EXCEPT ![c] = "refused"], [create EXCEPT ![c] = "reading"]}
                /\ UNCHANGED given
      BY <1>1 DEF Create, Resume, Arrive
    <2>2. due' \in [Requests -> 0..refreshed] /\ due'[c] = refreshed
          /\ \A d \in Requests \ {c} : due'[d] = due[d]
      BY <1>a, <2>1
    <2>3. known' \in known..source
      BY <1>a, <2>1 DEF bundle
    <2>4. CASE Lookup(c)
      <3>1. /\ create'[c] \in {"made", "loading"} /\ given'[c] \in 0..source
            /\ create'[c] = "made" => given'[c] > 0 /\ (~overlapped => refreshed <= given'[c])
            /\ create'[c] = "loading" => given'[c] = 0 \/ refreshed <= given'[c]
            /\ \A d \in Requests \ {c} : create'[d] = create[d] /\ given'[d] = given[d]
            /\ create' \in [Requests -> {"new", "reading", "loading", "made", "refused"}]
            /\ given' \in [Requests -> 0..source]
        BY <2>4, LookupIsFresh
      <3> QED
        BY <1>d, <2>1, <2>2, <2>3, <3>1 DEF bundle
    <2>5. CASE /\ create' \in {[create EXCEPT ![c] = "refused"], [create EXCEPT ![c] = "reading"]}
               /\ UNCHANGED given
      <3>1. /\ create'[c] \in {"refused", "reading"}
            /\ \A d \in Requests \ {c} : create'[d] = create[d]
            /\ create' \in [Requests -> {"new", "reading", "loading", "made", "refused"}]
            /\ given' \in [Requests -> 0..source]
        BY <1>a, <2>5
      <3> QED
        BY <1>d, <2>1, <2>2, <2>3, <2>5, <3>1 DEF bundle
    <2> QED
      BY <2>1, <2>4, <2>5
  <1>2. CASE ResumeReads(c)
    <2>1. Lookup(c) /\ UNCHANGED <<process, bundle, due>>
      BY <1>2 DEF ResumeReads
    <2>2. /\ create'[c] \in {"made", "loading"} /\ given'[c] \in 0..source
          /\ create'[c] = "made" => given'[c] > 0 /\ (~overlapped => refreshed <= given'[c])
          /\ create'[c] = "loading" => given'[c] = 0 \/ refreshed <= given'[c]
          /\ \A d \in Requests \ {c} : create'[d] = create[d] /\ given'[d] = given[d]
          /\ create' \in [Requests -> {"new", "reading", "loading", "made", "refused"}]
          /\ given' \in [Requests -> 0..source]
      BY <2>1, LookupIsFresh
    <2>3. known' \in known..source /\ due' \in [Requests -> 0..refreshed]
      BY <1>a, <2>1 DEF bundle
    <2>4. due'[c] <= refreshed /\ due'[c] \in Nat /\ given'[c] \in Nat
      BY <1>a, <2>1, <2>2
    <2> QED
      BY <1>a, <1>d, <2>1, <2>2, <2>3, <2>4 DEF bundle
  <1>3. CASE CreateEnds(c)
    <2>1. /\ create[c] = "loading" /\ UNCHANGED <<process, source, registered, given, due>>
          /\ \/ given[c] > 0 /\ create' = [create EXCEPT ![c] = "made"] /\ known' = Max2(known, given[c])
             \/ create' = [create EXCEPT ![c] = "refused"] /\ UNCHANGED known
      BY <1>3 DEF CreateEnds, CreateFails
    <2>2. /\ known' \in known..source
          /\ given' \in [Requests -> 0..source] /\ due' \in [Requests -> 0..refreshed]
          /\ create' \in [Requests -> {"new", "reading", "loading", "made", "refused"}]
          /\ \A d \in Requests \ {c} : create'[d] = create[d]
          /\ (create'[c] = "made" /\ given[c] > 0) \/ create'[c] = "refused"
      BY <1>a, <2>1 DEF Max2
    <2>3. create'[c] = "made" => given'[c] > 0 /\ due'[c] <= given'[c]
      BY <1>a, <1>b, <2>1, <2>2
    <2> QED
      BY <1>d, <2>1, <2>2, <2>3
  <1> QED
    BY <1>1, <1>2, <1>3

\* What happens to the bundle at its source and in the registry.
LEMMA BundleStepKeepsIInv ==
    ASSUME IInv,
           Publish \/ RegisterBundle \/ UnregisterBundle \/ LoadBundle \/ ReloadBundles \/ UpdateBundle
    PROVE  IInv'
  <1> USE DEF IInv
  <1>a. /\ source \in Nat /\ known \in Nat /\ refreshed \in Nat
        /\ known <= source /\ refreshed <= known
        /\ loaded \in [Tasks -> Nat] /\ \A t \in Tasks : loaded[t] <= source
        /\ given \in [Requests -> Nat] /\ \A c \in Requests : given[c] <= source
    BY Types
  <1>b. UNCHANGED <<process, creation>>
    BY DEF Publish, RegisterBundle, UnregisterBundle, LoadBundle, ReloadBundles, UpdateBundle
  <1>1. source' \in 1..MaxVersion /\ source <= source' /\ known' \in 0..source' /\ known <= known'
    <2>0. source \in 1..MaxVersion /\ MaxVersion \in Nat
      BY VersionAssumption DEF TypeOK
    <2>1. CASE Publish
      BY <1>a, <2>0, <2>1 DEF Publish
    <2>2. CASE RegisterBundle \/ UnregisterBundle
      BY <1>a, <2>0, <2>2 DEF RegisterBundle, UnregisterBundle
    <2>3. CASE LoadBundle \/ ReloadBundles
      BY <1>a, <2>0, <2>3 DEF LoadBundle, ReloadBundles, Loads
    <2>4. CASE UpdateBundle
      BY <1>a, <2>0, <2>4 DEF UpdateBundle
    <2> QED
      BY <2>1, <2>2, <2>3, <2>4
  <1>c. registered' \in BOOLEAN
    BY DEF Publish, RegisterBundle, UnregisterBundle, LoadBundle, ReloadBundles, UpdateBundle, TypeOK
  <1>2. /\ refreshed \in 0..known' /\ loaded \in [Tasks -> 0..source']
        /\ given \in [Requests -> 0..source']
    BY <1>a, <1>1
  <1>3. TypeOK'
    BY <1>b, <1>c, <1>1, <1>2 DEF TypeOK, process, creation
  <1>4. \A c \in Requests :
           /\ create[c] = "loading" => given[c] = 0 \/ due[c] <= given[c]
           /\ ~overlapped => (create[c] = "made" => due[c] <= given[c])
    BY DEF NothingIsStale
  <1> QED
    BY <1>b, <1>3, <1>4, OutsideStepKeepsIInv DEF creation

\* Every step keeps the invariant.
LEMMA NextIInv == IInv /\ [Next]_vars => IInv'
  <1> SUFFICES ASSUME IInv, [Next]_vars PROVE IInv'
    OBVIOUS
  <1>1. CASE UNCHANGED vars
    BY <1>1 DEF vars, bundle, creation, IInv, TypeOK, LaunchedOnce, LoadedHasVersion, CancelledIsAwaited,
       SomebodyAnswers, StopIsQuiet, OneAfterTheOther, NothingIsStale
  <1>2. CASE Next
    BY <1>2, TaskStepKeepsIInv, RetryBeginKeepsIInv, RetryStepKeepsIInv, StopKeepsIInv,
       RequestStepKeepsIInv, BundleStepKeepsIInv DEF Next
  <1> QED
    BY <1>1, <1>2
-----------------------------------------------------------------------------
\* The invariant of the daemon's start, for any number of retries and requests.
THEOREM Invariance == Spec => []IInv
  BY InitIInv, NextIInv, PTL DEF Spec

\* The variables keep to their types; among them, a session is made of a bundle that
\* was loaded (app.py:88-97, session_manager.py:252-259).
THEOREM Typing == Spec => []TypeOK
  <1>1. IInv => TypeOK
    BY DEF IInv
  <1> QED
    BY <1>1, Invariance, PTL

\* When nothing is under way, the flag is set and there is a bundle or an error to
\* tell, however retries, cancellations and timeouts met (app.py:95-110,
\* health.py:93-102).
THEOREM QuietIsReady == Spec => []QuietMeansReady
  <1>1. IInv => QuietMeansReady
    BY DEF IInv, SomebodyAnswers, QuietMeansReady, Quiet, Answer
  <1> QED
    BY <1>1, Invariance, PTL

\* Retries one after the other leave one task at work, and none when the run has
\* stopped (health.py:115-122, app.py:256-274).
THEOREM SerialRetriesAreSafe == Spec => []SerialRetriesOneTask
  <1>1. IInv => SerialRetriesOneTask
    BY DEF IInv, OneAfterTheOther, SerialRetriesOneTask
  <1> QED
    BY <1>1, Invariance, PTL

\* Retries one after the other: no session is made from a bundle older than the retry
\* that was answered before it was asked for (health.py:115-136, app.py:97,
\* session_manager.py:252-259, 363-400).
THEOREM FreshSessions == Spec => []SessionsAreFresh
  <1>1. IInv => SessionsAreFresh
    BY Types DEF IInv, NothingIsStale, SessionsAreFresh
  <1> QED
    BY <1>1, Invariance, PTL
=============================================================================
