------------------------ MODULE SessionHandleProofs ------------------------
(***************************************************************************)
(* For any set of requests: the safety invariants of SessionHandle, and    *)
(* that it implements the safety part of SerialTurns.                      *)
(***************************************************************************)
EXTENDS SessionHandle, TLAPS

\* A request has a turn number exactly when its run has begun.
BegunPhases ==
    \A r \in Requests : Begun(r) <=> phase[r] \in {"executing"} \cup Outcomes

\* The run that holds the lock has the latest turn number, and the handle's
\* correlation id is that number.
RunningIsLatest ==
    /\ correlation = turnCount
    /\ \A r \in Requests : phase[r] = "executing" => turnOf[r] = turnCount

\* No event names a turn that has not begun.
EventsNameGivenTurns == heard.names <= turnCount

\* A 202 names the turn after the ones that had begun: by the time its task can
\* be refused, or has begun, that turn has been given to someone.
PromisesBounded ==
    \A r \in Requests :
        promised[r] # 0 =>
            /\ promised[r] <= turnCount + 1
            /\ locked \/ phase[r] # "queued" => promised[r] <= turnCount

\* cleanup() is called once, by the destroy() that unregisters the handle.
CleanupFollowsRemoval == registered <=> cleanup = "no"

\* The inductive invariant.
IInv ==
    /\ TypeOK
    /\ OneTurnAtATime
    /\ TurnsNumberedOnce
    /\ BegunPhases
    /\ RunningIsLatest
    /\ EventsNameTheirTurn
    /\ EventsNameGivenTurns
    /\ PromisesBounded
    /\ StatusReportsLastTurn
    /\ TasksAreThePending
    /\ CleanupFollowsRemoval

\* The handle as constructed satisfies the invariant.
LEMMA InitIInv == Init => IInv
  <1> SUFFICES ASSUME Init PROVE IInv
    OBVIOUS
  <1>0. \A r \in Requests : phase[r] \in {"new", "spawning"}
    BY DEF Init
  <1>1. TypeOK
    BY <1>0 DEF Init, TypeOK, Phases, Settled, Outcomes, Refused, Anonymous
  <1>2. OneTurnAtATime /\ BegunPhases /\ TasksAreThePending
    BY <1>0 DEF Init, OneTurnAtATime, BegunPhases, TasksAreThePending, Begun, Outcomes
  <1>3. TurnsNumberedOnce
    BY DEF Init, TurnsNumberedOnce, Begun
  <1>4. RunningIsLatest /\ EventsNameTheirTurn /\ EventsNameGivenTurns /\ PromisesBounded
    BY <1>0 DEF Init, RunningIsLatest, EventsNameTheirTurn, EventsNameGivenTurns,
        PromisesBounded, Anonymous
  <1>5. StatusReportsLastTurn /\ CleanupFollowsRemoval
    BY <1>0 DEF Init, StatusReportsLastTurn, Begun, CleanupFollowsRemoval
  <1> QED
    BY <1>1, <1>2, <1>3, <1>4, <1>5 DEF IInv

\* A request that has no turn yet may begin one: this is execute() up to its
\* await, for whichever handler called it.
LEMMA BeginTurnKeepsIInv ==
    ASSUME IInv, NEW r \in Requests, BeginTurn(r),
           phase[r] \in {"new", "spawning", "queued"},
           tasks' = tasks
    PROVE  IInv'
  <1> USE DEF IInv, BeginTurn
  <1>0. /\ turnCount \in Nat /\ turnOf \in [Requests -> Nat] /\ phase \in [Requests -> Phases]
        /\ promised \in [Requests -> Nat] /\ heard \in [by : Nat, names : Nat]
    BY DEF TypeOK
  <1>1. TypeOK'
    BY <1>0 DEF TypeOK, Phases
  <1>2. \A q \in Requests : phase[q] # "executing"
    BY DEF OneTurnAtATime
  <1>3. OneTurnAtATime'
    BY <1>0, <1>2 DEF OneTurnAtATime
  <1>4. turnOf[r] = 0
    BY DEF BegunPhases, Begun, Outcomes
  <1>5. TurnsNumberedOnce'
    BY <1>0, <1>4 DEF TurnsNumberedOnce, Begun
  <1>6. BegunPhases'
    BY <1>0 DEF BegunPhases, Begun, Outcomes
  <1>7. RunningIsLatest' /\ EventsNameTheirTurn' /\ EventsNameGivenTurns'
    BY <1>0, <1>2, <1>4 DEF RunningIsLatest, EventsNameTheirTurn, EventsNameGivenTurns
  <1>8. PromisesBounded'
    BY <1>0 DEF PromisesBounded
  <1>9. StatusReportsLastTurn'
    BY <1>0, <1>5 DEF StatusReportsLastTurn, TurnsNumberedOnce, Begun
  <1>10. TasksAreThePending' /\ CleanupFollowsRemoval'
    BY <1>0 DEF TasksAreThePending, CleanupFollowsRemoval
  <1> QED
    BY <1>1, <1>3, <1>5, <1>6, <1>7, <1>8, <1>9, <1>10

\* A step that leaves every run, the lock and the handle's turn state alone and
\* only moves a request from one phase without a turn to another.
LEMMA IdleStepKeepsIInv ==
    ASSUME IInv, NEW r \in Requests, NEW p \in {"queued"} \cup Refused,
           phase[r] \in {"new", "spawning", "queued"},
           phase' = [phase EXCEPT ![r] = p],
           tasks' = IF p = "queued" THEN tasks \cup {r} ELSE tasks \ {r},
           promised' = promised \/ (p = "queued" /\ ~locked /\
                                    promised' = [promised EXCEPT ![r] = turnCount + 1]),
           p # "queued" => phase[r] # "queued" \/ locked,
           UNCHANGED <<registered, stale, cleanup, handleVars, turnOf, heard>>
    PROVE  IInv'
  <1> USE DEF IInv, handleVars
  <1>0. /\ turnCount \in Nat /\ turnOf \in [Requests -> Nat] /\ phase \in [Requests -> Phases]
        /\ promised \in [Requests -> Nat] /\ p \notin {"executing"} \cup Outcomes
    BY DEF TypeOK, Refused, Outcomes
  <1>1. TypeOK'
    BY <1>0 DEF TypeOK, Phases, Settled
  <1>2. OneTurnAtATime'
    BY <1>0 DEF OneTurnAtATime
  <1>3. TurnsNumberedOnce'
    BY <1>0 DEF TurnsNumberedOnce, Begun
  <1>4. BegunPhases'
    BY <1>0 DEF BegunPhases, Begun, Outcomes
  <1>5. RunningIsLatest' /\ EventsNameTheirTurn' /\ EventsNameGivenTurns'
    BY <1>0 DEF RunningIsLatest, EventsNameTheirTurn, EventsNameGivenTurns
  <1>6. PromisesBounded'
    BY <1>0 DEF PromisesBounded
  <1>7. StatusReportsLastTurn'
    BY <1>0 DEF StatusReportsLastTurn, BegunPhases, Begun, Outcomes
  <1>8. TasksAreThePending' /\ CleanupFollowsRemoval'
    BY <1>0 DEF TasksAreThePending, CleanupFollowsRemoval, Refused
  <1> QED
    BY <1>1, <1>2, <1>3, <1>4, <1>5, <1>6, <1>7, <1>8

\* The end of a run: the lock is free again and the status says how it ended.
LEMMA EndTurnKeepsIInv ==
    ASSUME IInv, NEW r \in Requests, EndTurn(r)
    PROVE  IInv'
  <1> USE DEF IInv, EndTurn
  <1>0. /\ turnCount \in Nat /\ turnOf \in [Requests -> Nat] /\ phase \in [Requests -> Phases]
        /\ promised \in [Requests -> Nat] /\ heard \in [by : Nat, names : Nat]
    BY DEF TypeOK
  <1>1. PICK o \in Outcomes : phase' = [phase EXCEPT ![r] = o] /\ status' = StatusAfter(o)
    OBVIOUS
  <1>2. TypeOK'
    BY <1>0, <1>1 DEF TypeOK, Phases, Settled, Outcomes, StatusAfter
  <1>3. \A q \in Requests : q # r => phase[q] # "executing"
    BY DEF OneTurnAtATime
  <1>4. OneTurnAtATime'
    BY <1>0, <1>1, <1>3 DEF OneTurnAtATime, Outcomes
  <1>5. TurnsNumberedOnce'
    BY <1>0 DEF TurnsNumberedOnce, Begun
  <1>6. BegunPhases'
    BY <1>0, <1>1 DEF BegunPhases, Begun, Outcomes
  <1>7. RunningIsLatest' /\ EventsNameTheirTurn' /\ EventsNameGivenTurns'
    BY <1>0, <1>1, <1>3, <1>4 DEF RunningIsLatest, EventsNameTheirTurn,
        EventsNameGivenTurns, OneTurnAtATime
  <1>8. PromisesBounded'
    <2>1. locked
      BY DEF OneTurnAtATime
    <2> QED
      BY <1>0, <2>1 DEF PromisesBounded
  <1>9. StatusReportsLastTurn'
    <2> SUFFICES ASSUME cleanup # "done" PROVE StatusReportsLastTurn'
      BY DEF StatusReportsLastTurn
    <2>1. turnOf[r] = turnCount /\ turnOf[r] # 0 /\ status = "executing"
      BY <1>0 DEF RunningIsLatest, BegunPhases, Begun, StatusReportsLastTurn
    <2>2. \A q \in Requests : Begun(q) /\ turnOf[q] = turnCount => q = r
      BY <2>1 DEF TurnsNumberedOnce
    <2> QED
      BY <1>0, <1>1, <2>1, <2>2 DEF StatusReportsLastTurn, StatusAfter, Begun, Outcomes
  <1>10. TasksAreThePending' /\ CleanupFollowsRemoval'
    BY <1>0, <1>1 DEF TasksAreThePending, CleanupFollowsRemoval, Outcomes
  <1> QED
    BY <1>2, <1>4, <1>5, <1>6, <1>7, <1>8, <1>9, <1>10

\* Every step of the handle and of its handlers keeps the invariant.
LEMMA NextIInv == IInv /\ [Next]_vars => IInv'
  <1> SUFFICES ASSUME IInv, [Next]_vars PROVE IInv'
    OBVIOUS
  <1>0. ASSUME NEW r \in Requests, NEW p \in Refused, phase[r] = "new",
               phase' = [phase EXCEPT ![r] = p],
               UNCHANGED <<registered, stale, cleanup, tasks, runVars>>
        PROVE  IInv'
    <2>1. r \notin tasks
      BY <1>0 DEF IInv, TasksAreThePending
    <2> QED
      BY <1>0, <2>1, IdleStepKeepsIInv DEF runVars, Refused
  <1>1. ASSUME NEW r \in Requests, Refuse(r) PROVE IInv'
    BY <1>0, <1>1 DEF Refuse, Refused
  <1>2. ASSUME NEW r \in Requests, Execute(r) PROVE IInv'
    BY <1>2, BeginTurnKeepsIInv DEF Execute, Admissible
  <1>3. ASSUME NEW r \in Requests, ResumeChild(r) PROVE IInv'
    BY <1>0, <1>2, <1>3 DEF ResumeChild, Refused
  <1>4. ASSUME NEW r \in Requests, ExecuteStream(r) PROVE IInv'
    <2>1. phase[r] = "new" /\ ~locked
      BY <1>4 DEF ExecuteStream, Admissible, IsBusy
    <2> QED
      BY <1>4, <2>1, IdleStepKeepsIInv DEF ExecuteStream
  <1>5. ASSUME NEW r \in Requests, Bounce(r), phase[r] \in {"spawning", "queued"} PROVE IInv'
    BY <1>5, IdleStepKeepsIInv DEF Bounce, runVars, Refused
  <1>6. ASSUME NEW r \in Requests, StartTask(r) PROVE IInv'
    BY <1>5, <1>6, BeginTurnKeepsIInv DEF StartTask
  <1>7. ASSUME NEW r \in Requests, SpawnExecute(r) PROVE IInv'
    BY <1>5, <1>7, BeginTurnKeepsIInv DEF SpawnExecute
  <1>8. ASSUME NEW r \in Requests, SpawnStream(r) PROVE IInv'
    BY <1>8, IdleStepKeepsIInv DEF SpawnStream, runVars
  <1>9. ASSUME NEW r \in Requests, Emit(r) \/ ShowMessage(r) PROVE IInv'
    <2> USE <1>9 DEF Emit, ShowMessage, Anonymous, IInv, handleVars
    <2>0. /\ turnOf[r] \in Nat /\ correlation = turnCount /\ turnOf[r] <= turnCount
          /\ phase[r] = "executing" => turnOf[r] = correlation
      BY DEF TypeOK, RunningIsLatest, TurnsNumberedOnce
    <2>1. TypeOK' /\ EventsNameTheirTurn' /\ EventsNameGivenTurns' /\ CleanupFollowsRemoval'
      <3>1. CASE Emit(r)
        <4>1. heard' = [by |-> turnOf[r], names |-> turnCount]
          BY <2>0, <3>1
        <4>2. \A q \in Requests : phase[q] = "executing" => turnOf[q] = turnCount
          BY DEF RunningIsLatest
        <4> QED
          BY <2>0, <3>1, <4>1, <4>2 DEF TypeOK, EventsNameTheirTurn, EventsNameGivenTurns,
              CleanupFollowsRemoval
      <3>2. CASE ShowMessage(r)
        BY <3>2 DEF TypeOK, EventsNameTheirTurn, EventsNameGivenTurns, CleanupFollowsRemoval,
            BegunPhases, Begun, Outcomes
      <3> QED
        BY <3>1, <3>2
    <2>2. OneTurnAtATime' /\ BegunPhases' /\ TasksAreThePending'
      BY DEF OneTurnAtATime, BegunPhases, TasksAreThePending, Begun
    <2>3. TurnsNumberedOnce' /\ RunningIsLatest'
      BY DEF TurnsNumberedOnce, RunningIsLatest, Begun
    <2>4. PromisesBounded' /\ StatusReportsLastTurn'
      BY DEF PromisesBounded, StatusReportsLastTurn, Begun
    <2> QED
      BY <2>1, <2>2, <2>3, <2>4
  <1>10. ASSUME NEW r \in Requests, EndTurn(r) PROVE IInv'
    BY <1>10, EndTurnKeepsIInv
  <1>11. ASSUME MarkStale \/ Destroy \/ CleanupDone \/ UNCHANGED vars PROVE IInv'
    <2> USE <1>11 DEF MarkStale, Destroy, CleanupDone, vars, runVars, handleVars, IInv
    <2>0. TypeOK' /\ EventsNameTheirTurn' /\ EventsNameGivenTurns'
      BY DEF TypeOK, EventsNameTheirTurn, EventsNameGivenTurns
    <2>1. CleanupFollowsRemoval'
      <3>1. CASE MarkStale
        BY <3>1 DEF CleanupFollowsRemoval
      <3>2. CASE Destroy
        BY <3>2 DEF CleanupFollowsRemoval
      <3>3. CASE CleanupDone
        BY <3>3 DEF CleanupFollowsRemoval
      <3>4. CASE UNCHANGED vars
        BY <3>4 DEF CleanupFollowsRemoval
      <3> QED
        BY <3>1, <3>2, <3>3, <3>4
    <2>2. OneTurnAtATime' /\ BegunPhases' /\ TasksAreThePending'
      BY DEF OneTurnAtATime, BegunPhases, TasksAreThePending, Begun
    <2>3. TurnsNumberedOnce' /\ RunningIsLatest'
      BY DEF TurnsNumberedOnce, RunningIsLatest, Begun
    <2>4. PromisesBounded' /\ StatusReportsLastTurn'
      BY DEF PromisesBounded, StatusReportsLastTurn, CleanupFollowsRemoval, Begun
    <2> QED
      BY <2>0, <2>1, <2>2, <2>3, <2>4
  <1> QED
    BY <1>1, <1>2, <1>4, <1>6, <1>7, <1>8, <1>9, <1>10, <1>11, <1>3 DEF Next, RequestStep

\* The invariant holds in every reachable state.
THEOREM Invariant == Spec => []IInv
  BY InitIInv, NextIInv, PTL DEF Spec

\* The handle's fields and the handlers' places stay in their ranges.
THEOREM TypeCorrect == Spec => []TypeOK
  BY Invariant, PTL DEF IInv

\* At most one run is inside session.execute(), and the lock is held exactly
\* while one is, however many requests, streams and spawns compete for it.
THEOREM OneTurn == Spec => []OneTurnAtATime
  BY Invariant, PTL DEF IInv

\* Turn numbers are given once each and without gaps, so a correlation id set
\* by execute() names one run.
THEOREM NumberedOnce == Spec => []TurnsNumberedOnce
  BY Invariant, PTL DEF IInv

\* An event the kernel fires while a run is at work carries the correlation id of that run;
\* what a run left behind never carries that of an earlier one (session_handle.py:155).
THEOREM EventsAttributed == Spec => []EventsNameTheirTurn
  BY Invariant, PTL DEF IInv

\* The turn a 202 names has begun by the time its own task begins or is refused.
THEOREM PromisesReal == Spec => []PromisesNameRealTurns
  <1>1. IInv => PromisesNameRealTurns
    BY DEF IInv, TypeOK, PromisesBounded, PromisesNameRealTurns
  <1> QED
    BY <1>1, Invariant, PTL

\* Until cleanup() ends the status tells how the latest turn stands.
THEOREM StatusTruthful == Spec => []StatusReportsLastTurn
  BY Invariant, PTL DEF IInv

\* background_tasks holds the tasks that are pending or running, and no other.
THEOREM TasksTracked == Spec => []TasksAreThePending
  BY Invariant, PTL DEF IInv

\* Once destroy() has begun, a new request can only be told 404.
THEOREM AdmissionStops == Spec => NothingAdmittedAfterDestroy
  <1> DEFINE Stops == cleanup # "no" =>
        \A r \in Requests : phase[r] = "new" => phase'[r] \in {"new", "notFound"}
  <1>1. IInv /\ [Next]_vars => [Stops]_vars
    <2> SUFFICES ASSUME IInv, Next, cleanup # "no", NEW r \in Requests, phase[r] = "new"
                 PROVE  phase'[r] \in {"new", "notFound"}
      BY DEF vars
    <2>1. ~registered /\ phase \in [Requests -> Phases]
      BY DEF IInv, CleanupFollowsRemoval, TypeOK
    <2>2. ASSUME NEW q \in Requests, RequestStep(q)
          PROVE  phase'[r] \in {"new", "notFound"}
      <3>1. CASE Refuse(q)
        BY <2>1, <3>1 DEF Refuse
      <3>2. CASE Execute(q) \/ ResumeChild(q) \/ ExecuteStream(q)
        BY <2>1, <3>2 DEF Execute, ResumeChild, ExecuteStream, Admissible
      <3>3. CASE StartTask(q) \/ SpawnExecute(q) \/ SpawnStream(q)
        BY <2>1, <3>3 DEF StartTask, SpawnExecute, SpawnStream, BeginTurn, Bounce
      <3>4. CASE Emit(q) \/ ShowMessage(q) \/ EndTurn(q)
        BY <2>1, <3>4 DEF Emit, ShowMessage, EndTurn
      <3> QED
        BY <2>2, <3>1, <3>2, <3>3, <3>4 DEF RequestStep
    <2>3. CASE MarkStale \/ Destroy \/ CleanupDone
      BY <2>3 DEF MarkStale, Destroy, CleanupDone
    <2> QED
      BY <2>2, <2>3 DEF Next
  <1>2. NothingAdmittedAfterDestroy <=> [][Stops]_vars
    BY DEF NothingAdmittedAfterDestroy
  <1> QED
    BY <1>1, <1>2, Invariant, PTL DEF Spec
-----------------------------------------------------------------------------
\* While r's run is inside session.execute(), r is the abstract holder.
LEMMA HolderIsRunning ==
    ASSUME OneTurnAtATime, NEW r \in Requests, phase[r] = "executing"
    PROVE  Holder = r
  <1>1. \A q \in Requests : phase[q] = "executing" => q = r
    BY DEF OneTurnAtATime
  <1> QED
    BY <1>1 DEF Holder

\* While no run is, nobody is.
LEMMA HolderIsNobody ==
    ASSUME \A r \in Requests : phase[r] # "executing"
    PROVE  Holder = NoRequest
  BY DEF Holder

\* A begun turn is a begun turn of the abstract session.
LEMMA BeginTurnSimulated ==
    ASSUME IInv, IInv', NEW r \in Requests, BeginTurn(r),
           phase[r] \in {"new", "spawning", "queued"}
    PROVE  Serial!BeginTurn(r)
  <1>1. Holder = NoRequest
    BY HolderIsNobody DEF IInv, OneTurnAtATime, BeginTurn
  <1>2. phase'[r] = "executing"
    BY DEF IInv, TypeOK, BeginTurn
  <1>3. Holder' = r
    <2>1. \A q \in Requests : phase'[q] = "executing" => q = r
      BY <1>2 DEF IInv, OneTurnAtATime
    <2> QED
      BY <1>2, <2>1 DEF Holder
  <1>4. turnOf[r] = 0
    BY DEF IInv, BegunPhases, Begun, Outcomes
  <1> QED
    BY <1>1, <1>3, <1>4 DEF Serial!BeginTurn, BeginTurn

\* The end of a run is the end of the abstract holder's turn.
LEMMA EndTurnSimulated ==
    ASSUME IInv, IInv', NEW r \in Requests, EndTurn(r)
    PROVE  Serial!EndTurn(r)
  <1>1. Holder = r
    BY HolderIsRunning DEF IInv, EndTurn
  <1>2. \A q \in Requests : phase'[q] # "executing"
    BY DEF IInv, OneTurnAtATime, EndTurn
  <1>3. Holder' = NoRequest
    BY <1>2 DEF Holder
  <1> QED
    BY <1>1, <1>3 DEF Serial!EndTurn, EndTurn

\* A step that lets no run begin or end is invisible to the abstract session.
LEMMA OthersStutter ==
    ASSUME UNCHANGED <<turnCount, turnOf>>,
           \A q \in Requests : phase'[q] = "executing" <=> phase[q] = "executing"
    PROVE  UNCHANGED Serial!vars
  <1>1. CASE \A q \in Requests : phase[q] # "executing"
    BY <1>1 DEF Holder, Serial!vars
  <1>2. CASE \E q \in Requests : phase[q] = "executing"
    <2> DEFINE Running(f) == CHOOSE q \in Requests : f[q] = "executing"
    <2>1. (CHOOSE q \in Requests : phase'[q] = "executing")
            = (CHOOSE q \in Requests : phase[q] = "executing")
      OBVIOUS
    <2> QED
      BY <1>2, <2>1 DEF Holder, Serial!vars
  <1> QED
    BY <1>1, <1>2

\* The handle with all its handlers implements the safety part of SerialTurns.
THEOREM SerialSafety == Spec => Serial!Spec
  <1>1. Init => Serial!Init
    <2> SUFFICES ASSUME Init PROVE Serial!Init
      OBVIOUS
    <2>1. \A r \in Requests : phase[r] # "executing"
      BY DEF Init
    <2> QED
      BY <2>1, HolderIsNobody DEF Init, Serial!Init
  <1>2. IInv /\ IInv' /\ [Next]_vars => [Serial!Next]_(Serial!vars)
    <2> SUFFICES ASSUME IInv, IInv', [Next]_vars
                 PROVE  Serial!Next \/ UNCHANGED Serial!vars
      OBVIOUS
    <2>0. phase \in [Requests -> Phases]
      BY DEF IInv, TypeOK
    <2>1. ASSUME NEW r \in Requests, BeginTurn(r), phase[r] \in {"new", "spawning", "queued"}
          PROVE  Serial!Next
      BY <2>1, BeginTurnSimulated DEF Serial!Next
    <2>2. ASSUME NEW r \in Requests, Bounce(r), phase[r] \in {"spawning", "queued"}
          PROVE  UNCHANGED Serial!vars
      BY <2>0, <2>2, OthersStutter DEF Bounce, runVars, handleVars
    <2>3. ASSUME NEW r \in Requests, RequestStep(r)
          PROVE  Serial!Next \/ UNCHANGED Serial!vars
      <3>1. CASE Refuse(r)
        BY <2>0, <3>1, OthersStutter DEF Refuse, runVars, handleVars
      <3>2. CASE Execute(r)
        BY <2>1, <3>2 DEF Execute, Admissible
      <3>3. CASE ResumeChild(r)
        BY <2>0, <3>2, <3>3, OthersStutter DEF ResumeChild, runVars, handleVars
      <3>4. CASE ExecuteStream(r)
        BY <2>0, <3>4, OthersStutter DEF ExecuteStream, Admissible, handleVars
      <3>5. CASE StartTask(r)
        BY <2>1, <2>2, <3>5 DEF StartTask
      <3>6. CASE SpawnExecute(r)
        BY <2>1, <2>2, <3>6 DEF SpawnExecute
      <3>7. CASE SpawnStream(r)
        BY <2>0, <3>7, OthersStutter DEF SpawnStream, runVars, handleVars
      <3>8. CASE Emit(r) \/ ShowMessage(r)
        BY <3>8, OthersStutter DEF Emit, ShowMessage, handleVars
      <3>9. CASE EndTurn(r)
        BY <3>9, EndTurnSimulated DEF Serial!Next
      <3> QED
        BY <2>3, <3>1, <3>2, <3>4, <3>5, <3>6, <3>7, <3>8, <3>9, <3>3 DEF RequestStep
    <2>4. CASE MarkStale \/ Destroy \/ CleanupDone \/ UNCHANGED vars
      BY <2>4, OthersStutter DEF MarkStale, Destroy, CleanupDone, vars, runVars, handleVars
    <2> QED
      BY <2>3, <2>4 DEF Next
  <1> QED
    BY <1>1, <1>2, Invariant, PTL DEF Spec, Serial!Spec
=============================================================================
