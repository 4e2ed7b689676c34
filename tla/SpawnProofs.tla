---------------------------- MODULE SpawnProofs ----------------------------
(***************************************************************************)
(* For any sets of delegates, of POSTs and of clients' resumes: the safety *)
(* invariants of Spawn.                                                    *)
(***************************************************************************)
EXTENDS Spawn, TLAPS

\* A call's child has an id from the moment the call is under way, and a delegate's
\* child has the id of some delegate; a placeholder's id is its own.
ChildrenAreNamed ==
    /\ \A c \in Calls : phase[c] = "new" => name[c] = Nobody
    /\ \A c \in Calls : phase[c] \in UnderWay \cup {"ended"} => name[c] \in Ids
    /\ \A d \in Delegates : name[d] \in Delegates \cup {Nobody}
    /\ \A c \in Calls : name[Stub(c)] \in {Nobody, Stub(c)}

\* A call prompts the child it has made, or else, if it is a POST, its placeholder.
ChildIsOwnOrStub ==
    \A c \in Calls :
        /\ child[c] \in {c, Stub(c)}
        /\ c \in Delegates \/ phase[c] \in {"new", "building"} => child[c] = c

\* Nobody finds a child before it is registered.  From then on, until the delegate
\* tears it down, it is found by its id, or has been closed by whoever took its
\* place.
RegisteredOrClosed ==
    /\ \A c \in Calls : phase[c] \in {"new", "building"} => \A i \in Ids : registry[i] # c
    /\ \A c \in Delegates : phase[c] \in {"saving", "queued", "running"} =>
          registry[name[c]] = c \/ kernel[c] = "closed"

\* While a call's prompt runs, the turn of its child is the call's own, and the
\* child hangs below its parent in the event tree and, unless that is a
\* placeholder, in the tree of cancellation tokens.
RunningIsWired ==
    /\ \A c \in Calls : phase[c] \in {"queued", "running"} => c \in below
    /\ \A c \in Calls : phase[c] = "running" =>
          /\ child[c] = c
          /\ turn[c] = "own"
          /\ parent[c] \notin Stubs => c \in linked

\* Hooks and links are there only as long as somebody will take them away.
WiresAreTemporary ==
    \A c \in Calls :
        /\ c \in hooked => phase[c] = "running"
        /\ c \in linked => phase[c] \in {"queued", "running"}

\* The inductive invariant.
IInv ==
    /\ TypeOK
    /\ ChildrenAreNamed
    /\ ChildIsOwnOrStub
    /\ RegisteredOrClosed
    /\ RunningIsWired
    /\ WiresAreTemporary
    /\ EndedLeavesNothing
    /\ CaptureIsOwn
-----------------------------------------------------------------------------
\* Calls, placeholders, resumed sessions and the root are different things.
LEMMA Kinds ==
    /\ Delegates \subseteq Calls /\ Posts \subseteq Calls /\ Delegates \cap Posts = {}
    /\ \A c \in Calls : c \in Delegates \/ c \in Posts
    /\ Ids \subseteq Handles /\ Nobody \notin Handles /\ Root \in Ids /\ Resumes \subseteq Handles
    /\ \A c \in Calls : /\ c \in Ids /\ c \notin Stubs /\ c \notin Resumes /\ c # Root
                        /\ Stub(c) \in Ids /\ Stub(c) \in Stubs
                        /\ Stub(c) \notin Calls /\ Stub(c) \notin Resumes /\ Stub(c) # Root
    /\ \A c, d \in Calls : Stub(c) = Stub(d) => c = d
  <1>1. \A c \in Calls : Stub(c) \in Stubs
    BY DEF Stubs
  <1>2. \A c, d \in Calls : Stub(c) = Stub(d) => c = d
    BY DEF Stub
  <1> QED
    BY <1>1, <1>2, KindsAssumption, RootAssumption, NobodyAssumption, StubsAssumption
       DEF Calls, Ids, Handles

\* A daemon with one session satisfies the invariant.
LEMMA InitIInv == Init => IInv
  <1> SUFFICES ASSUME Init PROVE IInv
    OBVIOUS
  <1> USE Kinds DEF Init
  <1>1. TypeOK
    BY DEF TypeOK, Stubs
  <1>2. ChildrenAreNamed /\ ChildIsOwnOrStub
    BY DEF ChildrenAreNamed, ChildIsOwnOrStub, UnderWay
  <1>3. RegisteredOrClosed /\ RunningIsWired /\ WiresAreTemporary
    BY DEF RegisteredOrClosed, RunningIsWired, WiresAreTemporary
  <1>4. EndedLeavesNothing /\ CaptureIsOwn
    BY DEF EndedLeavesNothing, CaptureIsOwn
  <1> QED
    BY <1>1, <1>2, <1>3, <1>4 DEF IInv

\* A delegate tool or a client asks for a child: the call is under way, and nothing
\* else has changed.
LEMMA AskKeepsIInv ==
    ASSUME IInv, NEW c \in Calls,
           \/ \E p \in Handles : c \in Delegates /\ Delegate(c, p)
           \/ \E i \in Ids : c \in Posts /\ PostSpawn(c, i)
    PROVE  IInv'
  <1> USE Kinds DEF IInv
  <1>1. phase[c] = "new" /\ UNCHANGED <<registry, kernel, turn, child, below, linked, hooked, misled>>
    BY DEF Delegate, PostSpawn
  <1>2. /\ registry \in [Ids -> Handles \cup {Nobody}]
        /\ name \in [Handles -> Ids \cup {Nobody}]
        /\ phase \in [Calls -> {"new"} \cup UnderWay \cup Over]
        /\ parent \in [Calls -> Handles \cup {Nobody}]
        /\ \A i \in Ids : registry[i] # Nobody => name[registry[i]] = i
    BY DEF TypeOK
  <1>3. /\ phase'[c] \in {"building", "aborted"} /\ phase' \in [Calls -> {"new"} \cup UnderWay \cup Over]
        /\ \A d \in Calls \ {c} : phase'[d] = phase[d]
    BY <1>1, <1>2 DEF Delegate, PostSpawn, MoveTo, UnderWay, Over
  <1>4. /\ parent' \in [Calls -> Handles \cup {Nobody}]
        /\ \A d \in Calls \ {c} : parent'[d] = parent[d]
    <2>1. \A i \in Ids : Live(i) => registry[i] \in Handles
      BY <1>2 DEF Live
    <2> QED
      BY <1>2, <2>1 DEF Delegate, PostSpawn
  <1>5. /\ name' \in [Handles -> Ids \cup {Nobody}]
        /\ \A h \in Handles \ {c} : name'[h] = name[h]
        /\ phase'[c] = "building" => name'[c] \in Ids
        /\ c \in Delegates => name'[c] \in Delegates \cup {Nobody}
    <2>1. CASE \E p \in Handles : c \in Delegates /\ Delegate(c, p)
      <3>1. CASE phase' = [phase EXCEPT ![c] = "aborted"] /\ UNCHANGED name
        BY <1>2, <2>1, <3>1 DEF ChildrenAreNamed
      <3>2. CASE \E i \in {c} \cup {name[d] : d \in {e \in Delegates : name[e] # Nobody}} :
                    name' = [name EXCEPT ![c] = i]
        <4>1. PICK i \in {c} \cup {name[d] : d \in {e \in Delegates : name[e] # Nobody}} :
                    name' = [name EXCEPT ![c] = i]
          BY <3>2
        <4>2. i \in Delegates
          BY <2>1 DEF ChildrenAreNamed
        <4> QED
          BY <1>2, <4>1, <4>2
      <3> QED
        BY <2>1, <3>1, <3>2 DEF Delegate, MoveTo
    <2>2. CASE \E i \in Ids : c \in Posts /\ PostSpawn(c, i)
      BY <1>2, <2>2 DEF PostSpawn
    <2> QED
      BY <2>1, <2>2
  <1>6. \A i \in Ids : registry[i] # c
    BY <1>1 DEF RegisteredOrClosed
  <1>7. TypeOK'
    BY <1>1, <1>2, <1>3, <1>4, <1>5, <1>6 DEF TypeOK
  <1>8. ChildrenAreNamed' /\ ChildIsOwnOrStub'
    BY <1>1, <1>2, <1>3, <1>5 DEF ChildrenAreNamed, ChildIsOwnOrStub, UnderWay
  <1>9. RegisteredOrClosed' /\ RunningIsWired' /\ WiresAreTemporary'
    BY <1>1, <1>3, <1>4, <1>5, <1>6 DEF RegisteredOrClosed, RunningIsWired, WiresAreTemporary
  <1>10. EndedLeavesNothing' /\ CaptureIsOwn'
    BY <1>1, <1>3 DEF EndedLeavesNothing, CaptureIsOwn
  <1> QED
    BY <1>7, <1>8, <1>9, <1>10

\* A call gives up before it prompted anybody, with its child's kernel session or
\* without; a POST goes on with a placeholder.
LEMMA AbandonKeepsIInv ==
    ASSUME IInv, NEW c \in Calls, phase[c] \in {"building", "saving"}, NEW ks, Abandon(c, ks),
           ks = kernel \/ (phase[c] = "building" /\ ks = Opened(c)),
           UNCHANGED <<turn, below, linked, hooked, misled>>
    PROVE  IInv'
  <1> USE Kinds DEF IInv
  <1>1. /\ registry \in [Ids -> Handles \cup {Nobody}]
        /\ name \in [Handles -> Ids \cup {Nobody}]
        /\ kernel \in [Handles -> {"none", "open", "closed"}]
        /\ phase \in [Calls -> {"new"} \cup UnderWay \cup Over]
        /\ parent \in [Calls -> Handles \cup {Nobody}]
        /\ child \in [Calls -> Calls \cup Stubs]
        /\ \A i \in Ids : registry[i] # Nobody => name[registry[i]] = i
    BY DEF TypeOK
  <1>2. ks \in [Handles -> {"none", "open", "closed"}] /\ \A h \in Handles \ {c} : ks[h] = kernel[h]
    BY <1>1 DEF Opened
  <1>3. CASE /\ MoveTo(c, "aborted") /\ parent' = [parent EXCEPT ![c] = Nobody]
             /\ kernel' = ks /\ UNCHANGED <<registry, name, child>>
    <2>1. /\ phase'[c] = "aborted" /\ phase' \in [Calls -> {"new"} \cup UnderWay \cup Over]
          /\ \A d \in Calls \ {c} : phase'[d] = phase[d] /\ parent'[d] = parent[d]
          /\ parent' \in [Calls -> Handles \cup {Nobody}]
      BY <1>1, <1>3 DEF MoveTo, Over
    <2>2. TypeOK'
      BY <1>2, <1>3, <2>1 DEF TypeOK
    <2>3. ChildrenAreNamed' /\ ChildIsOwnOrStub'
      BY <1>3, <2>1 DEF ChildrenAreNamed, ChildIsOwnOrStub, UnderWay
    <2>4. RegisteredOrClosed' /\ RunningIsWired' /\ WiresAreTemporary'
      BY <1>2, <1>3, <2>1 DEF RegisteredOrClosed, RunningIsWired, WiresAreTemporary
    <2>5. EndedLeavesNothing' /\ CaptureIsOwn'
      BY <1>2, <1>3, <2>1 DEF EndedLeavesNothing, CaptureIsOwn
    <2> QED
      BY <2>2, <2>3, <2>4, <2>5
  <1>4. CASE /\ c \in Posts /\ child[c] = c
             /\ child' = [child EXCEPT ![c] = Stub(c)]
             /\ name' = [name EXCEPT ![Stub(c)] = Stub(c)]
             /\ kernel' = [ks EXCEPT ![Stub(c)] = "open"]
             /\ registry' = [registry EXCEPT ![Stub(c)] = Stub(c)]
             /\ MoveTo(c, "saving") /\ UNCHANGED parent
    <2> HIDE DEF IInv
    <2>0. /\ Stub(c) \in Ids /\ Stub(c) \in Handles /\ Stub(c) \in Stubs /\ Stub(c) \notin Calls
          /\ \A d \in Calls : d # c => Stub(d) # Stub(c)
      OBVIOUS
    <2>1. /\ phase'[c] = "saving" /\ phase' \in [Calls -> {"new"} \cup UnderWay \cup Over]
          /\ \A d \in Calls \ {c} : phase'[d] = phase[d]
      BY <1>1, <1>4 DEF MoveTo, UnderWay
    <2>2. /\ child'[c] = Stub(c) /\ \A d \in Calls \ {c} : child'[d] = child[d]
          /\ child' \in [Calls -> Calls \cup Stubs]
      BY <1>1, <1>4, <2>0
    <2>3. /\ name'[Stub(c)] = Stub(c) /\ \A h \in Handles \ {Stub(c)} : name'[h] = name[h]
          /\ name' \in [Handles -> Ids \cup {Nobody}]
      BY <1>1, <1>4, <2>0
    <2>4. /\ \A h \in Handles \ {c, Stub(c)} : kernel'[h] = kernel[h]
          /\ kernel' \in [Handles -> {"none", "open", "closed"}]
      BY <1>2, <1>4, <2>0
    <2>5. /\ registry'[Stub(c)] = Stub(c) /\ \A i \in Ids \ {Stub(c)} : registry'[i] = registry[i]
          /\ registry' \in [Ids -> Handles \cup {Nobody}]
      BY <1>1, <1>4, <2>0
    <2>6. \A i \in Ids \ {Stub(c)} : registry[i] # Stub(c)
      BY <1>1, <2>0 DEF IInv, ChildrenAreNamed
    <2>7. TypeOK'
      <3>1. \A i \in Ids : registry'[i] # Nobody => name'[registry'[i]] = i
        BY <1>1, <2>3, <2>5, <2>6
      <3> QED
        BY <1>4, <2>1, <2>2, <2>3, <2>4, <2>5, <3>1 DEF IInv, TypeOK
    <2>8. ChildrenAreNamed'
      BY <1>4, <2>0, <2>1, <2>3 DEF IInv, ChildrenAreNamed, UnderWay
    <2>9. ChildIsOwnOrStub'
      BY <1>4, <2>1, <2>2 DEF IInv, ChildIsOwnOrStub
    <2>10. RegisteredOrClosed'
      <3>1. \A d \in Calls : phase'[d] \in {"new", "building"} => \A i \in Ids : registry'[i] # d
        BY <2>0, <2>1, <2>5 DEF IInv, RegisteredOrClosed
      <3>2. \A d \in Delegates : name[d] # Stub(c) /\ d # c /\ name'[d] = name[d]
        BY <1>4, <2>0, <2>3 DEF IInv, ChildrenAreNamed
      <3>3. ASSUME NEW d \in Delegates, phase'[d] \in {"saving", "queued", "running"}
            PROVE  registry'[name'[d]] = d \/ kernel'[d] = "closed"
        BY <2>0, <2>1, <2>4, <2>5, <3>2, <3>3 DEF IInv, RegisteredOrClosed, ChildrenAreNamed, UnderWay
      <3> QED
        BY <3>1, <3>3 DEF RegisteredOrClosed
    <2>11. RunningIsWired' /\ WiresAreTemporary'
      BY <1>4, <2>1, <2>2 DEF IInv, RunningIsWired, WiresAreTemporary
    <2>12. EndedLeavesNothing' /\ CaptureIsOwn'
      BY <1>4, <2>0, <2>1, <2>4, <2>5 DEF IInv, EndedLeavesNothing, CaptureIsOwn
    <2> QED
      BY <2>7, <2>8, <2>9, <2>10, <2>11, <2>12 DEF IInv
  <1> QED
    BY <1>3, <1>4 DEF Abandon

\* Building fails, register() refuses, or its save fails.
LEMMA FailKeepsIInv ==
    ASSUME IInv, NEW c \in Calls, BuildFails(c) \/ SaveFails(c)
    PROVE  IInv'
  <1>1. PICK ks \in {kernel, Opened(c)} :
           Abandon(c, ks) /\ (ks = kernel \/ (phase[c] = "building" /\ ks = Opened(c)))
    BY DEF BuildFails, SaveFails
  <1>2. phase[c] \in {"building", "saving"} /\ UNCHANGED <<turn, below, linked, hooked, misled>>
    BY DEF BuildFails, SaveFails
  <1> QED
    BY <1>1, <1>2, AbandonKeepsIInv

\* The child is built, and registered unless its id is live.
LEMMA RegisterKeepsIInv ==
    ASSUME IInv, NEW c \in Calls, Register(c)
    PROVE  IInv'
  <1> USE Kinds
  <1>1. /\ registry \in [Ids -> Handles \cup {Nobody}]
        /\ kernel \in [Handles -> {"none", "open", "closed"}]
        /\ phase \in [Calls -> {"new"} \cup UnderWay \cup Over]
        /\ \A i \in Ids : registry[i] # Nobody => name[registry[i]] = i
    BY DEF IInv, TypeOK
  <1>2. phase[c] = "building" /\ UNCHANGED <<turn, below, linked, hooked, misled>>
    BY DEF Register
  <1>3. CASE Abandon(c, Opened(c))
    BY <1>2, <1>3, AbandonKeepsIInv
  <1>4. CASE /\ ~Live(name[c]) /\ registry' = [registry EXCEPT ![name[c]] = c]
             /\ kernel' = Opened(c) /\ MoveTo(c, "saving") /\ UNCHANGED <<name, parent, child>>
    <2>1. name[c] \in Ids /\ registry[name[c]] = Nobody
      BY <1>2, <1>4 DEF IInv, ChildrenAreNamed, UnderWay, Live
    <2>2. /\ registry'[name[c]] = c /\ \A i \in Ids \ {name[c]} : registry'[i] = registry[i]
          /\ registry' \in [Ids -> Handles \cup {Nobody}]
      BY <1>1, <1>4, <2>1
    <2>3. /\ kernel'[c] = "open" /\ \A h \in Handles \ {c} : kernel'[h] = kernel[h]
          /\ kernel' \in [Handles -> {"none", "open", "closed"}]
      BY <1>1, <1>4 DEF Opened
    <2>4. /\ phase'[c] = "saving" /\ \A d \in Calls \ {c} : phase'[d] = phase[d]
          /\ phase' \in [Calls -> {"new"} \cup UnderWay \cup Over]
      BY <1>1, <1>4 DEF MoveTo, UnderWay
    <2>5. TypeOK'
      <3>1. \A i \in Ids : registry'[i] # Nobody => name'[registry'[i]] = i
        BY <1>1, <1>4, <2>2
      <3> QED
        BY <1>2, <1>4, <2>2, <2>3, <2>4, <3>1 DEF IInv, TypeOK
    <2>6. ChildrenAreNamed' /\ ChildIsOwnOrStub'
      BY <1>2, <1>4, <2>4 DEF IInv, ChildrenAreNamed, ChildIsOwnOrStub, UnderWay
    <2>7. RegisteredOrClosed'
      <3>1. \A d \in Calls : phase'[d] \in {"new", "building"} => \A i \in Ids : registry'[i] # d
        BY <2>2, <2>4 DEF IInv, RegisteredOrClosed
      <3>2. ASSUME NEW d \in Delegates, phase'[d] \in {"saving", "queued", "running"}
            PROVE  registry'[name[d]] = d \/ kernel'[d] = "closed"
        BY <2>1, <2>2, <2>3, <2>4, <3>2, NobodyAssumption
           DEF IInv, RegisteredOrClosed, ChildrenAreNamed, UnderWay
      <3> QED
        BY <1>4, <3>1, <3>2 DEF RegisteredOrClosed
    <2>8. RunningIsWired' /\ WiresAreTemporary'
      BY <1>2, <1>4, <2>4 DEF IInv, RunningIsWired, WiresAreTemporary
    <2>9. EndedLeavesNothing' /\ CaptureIsOwn'
      BY <1>2, <2>2, <2>3, <2>4 DEF IInv, EndedLeavesNothing, CaptureIsOwn
    <2> QED
      BY <2>5, <2>6, <2>7, <2>8, <2>9 DEF IInv
  <1> QED
    BY <1>3, <1>4 DEF Register

\* destroy() up to its await: whoever had the id is closed, and nobody else.
LEMMA PopTyped ==
    ASSUME TypeOK, NEW i \in Ids, Pop(i)
    PROVE  /\ registry' \in [Ids -> Handles \cup {Nobody}]
           /\ kernel' \in [Handles -> {"none", "open", "closed"}]
           /\ registry'[i] = Nobody /\ \A j \in Ids \ {i} : registry'[j] = registry[j]
           /\ \A h \in Handles : kernel'[h] = IF h = registry[i] THEN "closed" ELSE kernel[h]
  BY DEF TypeOK, Pop

\* The finally clause of a call that has prompted its child, or could not.
LEMMA FinishKeepsIInv ==
    ASSUME IInv, NEW c \in Calls, Finish(c), phase[c] \in {"saving", "queued", "running"},
           below' \in {below, below \cup {c}},
           turn' \in [Handles -> {"idle", "own", "client"}],
           \A d \in Calls \ {c} : turn'[d] = turn[d],
           UNCHANGED <<name, child, misled>>
    PROVE  IInv'
  <1> USE Kinds
  <1>1. /\ registry \in [Ids -> Handles \cup {Nobody}]
        /\ kernel \in [Handles -> {"none", "open", "closed"}]
        /\ phase \in [Calls -> {"new"} \cup UnderWay \cup Over]
        /\ parent \in [Calls -> Handles \cup {Nobody}]
        /\ below \subseteq Calls /\ linked \subseteq Calls /\ hooked \subseteq Calls
        /\ \A i \in Ids : registry[i] # Nobody => name[registry[i]] = i
    BY DEF IInv, TypeOK
  <1>2. /\ linked' = linked \ {c} /\ hooked' = hooked \ {c}
        /\ below' \subseteq Calls /\ \A d \in Calls : d \in below => d \in below'
    BY <1>1 DEF Finish
  <1>3. /\ phase'[c] \in {"closing", "ended"} /\ \A d \in Calls \ {c} : phase'[d] = phase[d]
        /\ phase' \in [Calls -> {"new"} \cup UnderWay \cup Over]
    BY <1>1 DEF Finish, MoveTo, UnderWay, Over
  <1>4. /\ parent' \in [Calls -> Handles \cup {Nobody}]
        /\ \A d \in Calls \ {c} : parent'[d] = parent[d]
    BY <1>1 DEF Finish
  <1>5. name[c] \in Ids
    BY DEF IInv, ChildrenAreNamed, UnderWay
  \* What becomes of the registry and of the kernel sessions.
  <1>6. /\ registry' \in [Ids -> Handles \cup {Nobody}]
        /\ kernel' \in [Handles -> {"none", "open", "closed"}]
        /\ \A i \in Ids : registry'[i] = registry[i] \/ registry'[i] = Nobody
        /\ \A h \in Handles : kernel[h] = "closed" => kernel'[h] = "closed"
        /\ \A i \in Ids, h \in Handles :
              registry[i] = h => registry'[i] = h \/ kernel'[h] = "closed"
    <2>1. CASE UNCHANGED <<registry, kernel>>
      BY <1>1, <2>1
    <2>2. CASE Pop(name[c])
      BY <1>5, <2>2, PopTyped DEF IInv
    <2> QED
      BY <2>1, <2>2 DEF Finish
  <1>7. c \in Delegates => kernel'[c] = "closed" /\ \A i \in Ids : registry'[i] # c
    <2> SUFFICES ASSUME c \in Delegates PROVE kernel'[c] = "closed" /\ \A i \in Ids : registry'[i] # c
      OBVIOUS
    <2>1. Pop(name[c])
      BY DEF Finish
    <2>2. /\ registry'[name[c]] = Nobody /\ \A j \in Ids \ {name[c]} : registry'[j] = registry[j]
          /\ \A h \in Handles : kernel'[h] = IF h = registry[name[c]] THEN "closed" ELSE kernel[h]
      BY <1>5, <2>1, PopTyped DEF IInv
    <2>3. registry[name[c]] = c \/ kernel[c] = "closed"
      BY DEF IInv, RegisteredOrClosed
    <2>4. \A j \in Ids : registry[j] = c => j = name[c]
      BY <1>1, NobodyAssumption
    <2> QED
      BY <2>2, <2>3, <2>4, NobodyAssumption
  <1>8. TypeOK'
    <2>1. \A i \in Ids : registry'[i] # Nobody => name'[registry'[i]] = i
      BY <1>1, <1>6
    <2> QED
      BY <1>1, <1>2, <1>3, <1>4, <1>6, <2>1 DEF IInv, TypeOK
  <1>9. ChildrenAreNamed' /\ ChildIsOwnOrStub'
    BY <1>3, <1>5 DEF IInv, ChildrenAreNamed, ChildIsOwnOrStub
  <1>10. RegisteredOrClosed'
    <2>1. \A d \in Calls : phase'[d] \in {"new", "building"} => \A i \in Ids : registry'[i] # d
      BY <1>3, <1>6, NobodyAssumption DEF IInv, RegisteredOrClosed
    <2>2. ASSUME NEW d \in Delegates, phase'[d] \in {"saving", "queued", "running"}
          PROVE  registry'[name[d]] = d \/ kernel'[d] = "closed"
      BY <1>3, <1>6, <2>2 DEF IInv, RegisteredOrClosed, ChildrenAreNamed, UnderWay
    <2> QED
      BY <2>1, <2>2 DEF RegisteredOrClosed
  <1>11. RunningIsWired' /\ WiresAreTemporary'
    BY <1>2, <1>3, <1>4 DEF IInv, RunningIsWired, WiresAreTemporary
  <1>12. EndedLeavesNothing' /\ CaptureIsOwn'
    <2>1. \A d \in Calls \ {c} : \A i \in Ids : registry[i] # d => registry'[i] # d
      BY <1>6, NobodyAssumption
    <2> QED
      BY <1>2, <1>3, <1>6, <1>7, <2>1 DEF IInv, EndedLeavesNothing, CaptureIsOwn
  <1> QED
    BY <1>8, <1>9, <1>10, <1>11, <1>12 DEF IInv

\* The child is wired to its parent and its turn begins, or will begin in a task.
LEMMA WireKeepsIInv ==
    ASSUME IInv, NEW c \in Calls, phase[c] \in {"saving", "queued"},
           linked' = Link(c), c \in below', below' \in {below, below \cup {c}},
           \/ /\ child[c] = c /\ MoveTo(c, "running")
              /\ turn' = [turn EXCEPT ![c] = "own"]
              /\ hooked' \in {hooked, hooked \cup {c}}
           \/ MoveTo(c, "queued") /\ UNCHANGED <<turn, hooked>>,
           UNCHANGED <<registry, name, kernel, parent, child, misled>>
    PROVE  IInv'
  <1> USE Kinds
  <1>1. /\ phase \in [Calls -> {"new"} \cup UnderWay \cup Over]
        /\ turn \in [Handles -> {"idle", "own", "client"}]
        /\ below \subseteq Calls /\ linked \subseteq Calls /\ hooked \subseteq Calls
        /\ c \in Handles
    BY DEF IInv, TypeOK
  <1>2. /\ phase'[c] \in {"queued", "running"} /\ \A d \in Calls \ {c} : phase'[d] = phase[d]
        /\ phase' \in [Calls -> {"new"} \cup UnderWay \cup Over]
    BY <1>1 DEF MoveTo, UnderWay
  <1>3. /\ turn' \in [Handles -> {"idle", "own", "client"}]
        /\ \A d \in Calls \ {c} : turn'[d] = turn[d]
    BY <1>1
  <1>4. /\ \A d \in Calls \ {c} : d \in linked' <=> d \in linked
        /\ \A d \in Calls \ {c} : d \in hooked' <=> d \in hooked
        /\ \A d \in Calls : d \in below => d \in below'
        /\ below' \subseteq Calls /\ linked' \subseteq Calls /\ hooked' \subseteq Calls
    BY <1>1 DEF Link
  <1>5. phase'[c] = "running" =>
           child[c] = c /\ turn'[c] = "own" /\ (parent[c] \notin Stubs => c \in linked')
    BY <1>1 DEF MoveTo, Link, Linkable
  <1>6. c \in hooked' => phase'[c] = "running"
    BY <1>1 DEF MoveTo, IInv, WiresAreTemporary
  <1>7. TypeOK'
    BY <1>2, <1>3, <1>4 DEF IInv, TypeOK
  <1>8. ChildrenAreNamed' /\ ChildIsOwnOrStub'
    BY <1>2 DEF IInv, ChildrenAreNamed, ChildIsOwnOrStub, UnderWay
  <1>9. RegisteredOrClosed'
    BY <1>2 DEF IInv, RegisteredOrClosed
  <1>10. RunningIsWired' /\ WiresAreTemporary'
    BY <1>2, <1>3, <1>4, <1>5, <1>6 DEF IInv, RunningIsWired, WiresAreTemporary
  <1>11. EndedLeavesNothing' /\ CaptureIsOwn'
    BY <1>2, <1>4 DEF IInv, EndedLeavesNothing, CaptureIsOwn
  <1> QED
    BY <1>7, <1>8, <1>9, <1>10, <1>11 DEF IInv

\* The child is prompted: its turn begins, or the call is over.
LEMMA PromptKeepsIInv ==
    ASSUME IInv, NEW c \in Calls, phase[c] \in {"saving", "queued"},
           NEW hook \in {hooked, hooked \cup {c}}, Prompt(c, hook),
           c \in below', below' \in {below, below \cup {c}},
           UNCHANGED <<name, child, misled>>
    PROVE  IInv'
  <1>1. CASE /\ child[c] = c /\ turn' = [turn EXCEPT ![child[c]] = "own"]
             /\ linked' = Link(c) /\ hooked' = hook /\ MoveTo(c, "running")
             /\ UNCHANGED <<registry, kernel, parent>>
    BY <1>1, WireKeepsIInv
  <1>2. CASE Finish(c) /\ UNCHANGED turn
    <2>1. turn \in [Handles -> {"idle", "own", "client"}]
      BY DEF IInv, TypeOK
    <2> QED
      BY <1>2, <2>1, FinishKeepsIInv
  <1> QED
    BY <1>1, <1>2 DEF Prompt

\* register() has returned, or the stream's task begins.
LEMMA LaunchKeepsIInv ==
    ASSUME IInv, NEW c \in Calls, Launch(c) \/ StartTask(c)
    PROVE  IInv'
  <1>1. CASE Launch(c)
    <2>1. /\ phase[c] = "saving" /\ below' = below \cup {c} /\ UNCHANGED <<name, child, misled>>
      BY <1>1 DEF Launch, RegisterChild
    <2>2. CASE Prompt(c, hooked) \/ Prompt(c, hooked \cup {c})
      BY <2>1, <2>2, PromptKeepsIInv
    <2>3. CASE /\ linked' = Link(c) /\ MoveTo(c, "queued")
               /\ UNCHANGED <<registry, kernel, turn, parent, hooked>>
      BY <2>1, <2>3, WireKeepsIInv
    <2> QED
      BY <1>1, <2>2, <2>3 DEF Launch
  <1>2. CASE StartTask(c)
    <2>1. /\ phase[c] = "queued" /\ Prompt(c, hooked) /\ below' = below /\ c \in below
          /\ UNCHANGED <<name, child, misled>>
      BY <1>2 DEF StartTask, IInv, RunningIsWired
    <2> QED
      BY <2>1, PromptKeepsIInv
  <1> QED
    BY <1>1, <1>2

\* The child's turn ends: whoever recorded it recorded a turn of its own.
LEMMA TurnEndsKeepsIInv ==
    ASSUME IInv, NEW c \in Calls, TurnEnds(c)
    PROVE  IInv'
  <1>1. /\ phase[c] = "running" /\ child[c] = c /\ turn[c] = "own"
        /\ Finish(c) /\ UNCHANGED <<name, child, below>>
    BY DEF TurnEnds, IInv, RunningIsWired
  <1>2. turn' = [turn EXCEPT ![c] = "idle"] /\ misled' = misled
    BY <1>1 DEF TurnEnds, Idle
  <1>3. turn' \in [Handles -> {"idle", "own", "client"}] /\ \A d \in Calls \ {c} : turn'[d] = turn[d]
    BY <1>2, Kinds DEF IInv, TypeOK
  <1> QED
    BY <1>1, <1>2, <1>3, FinishKeepsIInv

\* The delegate's destroy() is over.
LEMMA CleanupEndsKeepsIInv ==
    ASSUME IInv, NEW c \in Calls, CleanupEnds(c)
    PROVE  IInv'
  <1> USE Kinds DEF CleanupEnds
  <1>1. /\ phase \in [Calls -> {"new"} \cup UnderWay \cup Over]
        /\ parent \in [Calls -> Handles \cup {Nobody}]
    BY DEF IInv, TypeOK
  <1>2. /\ phase'[c] = "ended" /\ \A d \in Calls \ {c} : phase'[d] = phase[d] /\ parent'[d] = parent[d]
        /\ phase' \in [Calls -> {"new"} \cup UnderWay \cup Over]
        /\ parent' \in [Calls -> Handles \cup {Nobody}]
    BY <1>1 DEF MoveTo, Over
  <1>3. TypeOK'
    BY <1>2 DEF IInv, TypeOK
  <1>4. ChildrenAreNamed' /\ ChildIsOwnOrStub' /\ RegisteredOrClosed'
    BY <1>2 DEF IInv, ChildrenAreNamed, ChildIsOwnOrStub, RegisteredOrClosed, UnderWay
  <1>5. RunningIsWired' /\ WiresAreTemporary' /\ EndedLeavesNothing' /\ CaptureIsOwn'
    BY <1>2 DEF IInv, RunningIsWired, WiresAreTemporary, EndedLeavesNothing, CaptureIsOwn
  <1> QED
    BY <1>3, <1>4, <1>5 DEF IInv

\* A client's own turn on a session, which is none of the calls' turns.
LEMMA ClientTurnKeepsIInv ==
    ASSUME IInv,
           \/ \E i \in Ids : ClientPrompt(i)
           \/ \E h \in Handles : ClientTurnEnds(h)
    PROVE  IInv'
  <1> USE Kinds
  <1>1. /\ turn \in [Handles -> {"idle", "own", "client"}]
        /\ registry \in [Ids -> Handles \cup {Nobody}]
        /\ hooked \subseteq Calls
    BY DEF IInv, TypeOK
  <1>2. /\ turn' \in [Handles -> {"idle", "own", "client"}]
        /\ \A h \in Handles : turn[h] = "own" => turn'[h] = "own"
        /\ UNCHANGED <<registry, name, kernel, phase, parent, child, below, linked, hooked>>
    BY <1>1 DEF ClientPrompt, ClientTurnEnds, Idle, Live
  <1>3. misled' = {}
    <2>1. \A d \in hooked : turn[d] = "own"
      BY <1>1 DEF IInv, WiresAreTemporary, RunningIsWired
    <2> QED
      BY <2>1 DEF IInv, CaptureIsOwn, ClientPrompt, ClientTurnEnds, Idle
  <1>4. TypeOK'
    BY <1>2, <1>3 DEF IInv, TypeOK
  <1> QED
    BY <1>2, <1>3, <1>4 DEF IInv, ChildrenAreNamed, ChildIsOwnOrStub, RegisteredOrClosed, RunningIsWired,
       WiresAreTemporary, EndedLeavesNothing, CaptureIsOwn

\* A client deletes a session: a delegate whose child it was finds it closed.
LEMMA ClientDeleteKeepsIInv ==
    ASSUME IInv, NEW i \in Ids, ClientDelete(i)
    PROVE  IInv'
  <1> USE Kinds
  <1>1. /\ registry \in [Ids -> Handles \cup {Nobody}]
        /\ \A j \in Ids : registry[j] # Nobody => name[registry[j]] = j
    BY DEF IInv, TypeOK
  <1>2. /\ registry' \in [Ids -> Handles \cup {Nobody}]
        /\ kernel' \in [Handles -> {"none", "open", "closed"}]
        /\ registry'[i] = Nobody /\ \A j \in Ids \ {i} : registry'[j] = registry[j]
        /\ \A h \in Handles : kernel'[h] = IF h = registry[i] THEN "closed" ELSE kernel[h]
    BY PopTyped DEF ClientDelete, IInv
  <1>3. UNCHANGED <<name, turn, phase, parent, child, below, linked, hooked, misled>>
    BY DEF ClientDelete
  <1>4. TypeOK'
    <2>1. \A j \in Ids : registry'[j] # Nobody => name'[registry'[j]] = j
      BY <1>1, <1>2, <1>3
    <2> QED
      BY <1>2, <1>3, <2>1 DEF IInv, TypeOK
  <1>5. RegisteredOrClosed'
    <2>1. ASSUME NEW d \in Delegates, phase[d] \in {"saving", "queued", "running"}
          PROVE  registry'[name[d]] = d \/ kernel'[d] = "closed"
      BY <1>2, <2>1 DEF IInv, RegisteredOrClosed, ChildrenAreNamed, UnderWay
    <2>2. \A d \in Calls : phase[d] \in {"new", "building"} => \A j \in Ids : registry'[j] # d
      BY <1>2, NobodyAssumption DEF IInv, RegisteredOrClosed
    <2> QED
      BY <1>3, <2>1, <2>2 DEF RegisteredOrClosed
  <1>6. EndedLeavesNothing'
    BY <1>2, <1>3, NobodyAssumption DEF IInv, EndedLeavesNothing
  <1> QED
    BY <1>3, <1>4, <1>5, <1>6 DEF IInv, ChildrenAreNamed, ChildIsOwnOrStub, RunningIsWired,
       WiresAreTemporary, CaptureIsOwn

\* A client resumes a delegate's child that is not live.
LEMMA ClientResumeKeepsIInv ==
    ASSUME IInv, NEW r \in Resumes, NEW i \in Ids, ClientResume(r, i)
    PROVE  IInv'
  <1> USE Kinds
  <1>1. /\ registry \in [Ids -> Handles \cup {Nobody}]
        /\ name \in [Handles -> Ids \cup {Nobody}]
        /\ kernel \in [Handles -> {"none", "open", "closed"}]
        /\ \A j \in Ids : registry[j] # Nobody => name[registry[j]] = j
    BY DEF IInv, TypeOK
  <1>2. /\ name[r] = Nobody /\ registry[i] = Nobody /\ r \notin Calls /\ r \notin Stubs
        /\ UNCHANGED <<turn, phase, parent, child, below, linked, hooked, misled>>
    BY KindsAssumption, StubsAssumption DEF ClientResume, Live
  <1>3. /\ registry' \in [Ids -> Handles \cup {Nobody}]
        /\ registry'[i] = r /\ \A j \in Ids \ {i} : registry'[j] = registry[j]
        /\ name' \in [Handles -> Ids \cup {Nobody}]
        /\ name'[r] = i /\ \A h \in Handles \ {r} : name'[h] = name[h]
        /\ kernel' \in [Handles -> {"none", "open", "closed"}]
        /\ \A h \in Handles \ {r} : kernel'[h] = kernel[h]
    BY <1>1 DEF ClientResume
  <1>4. \A j \in Ids : registry[j] # r
    BY <1>1, <1>2, NobodyAssumption
  <1>5. TypeOK'
    <2>1. \A j \in Ids : registry'[j] # Nobody => name'[registry'[j]] = j
      BY <1>1, <1>3, <1>4
    <2> QED
      BY <1>2, <1>3, <2>1 DEF IInv, TypeOK
  <1>6. ChildrenAreNamed'
    BY <1>2, <1>3 DEF IInv, ChildrenAreNamed
  <1>7. RegisteredOrClosed'
    <2>1. ASSUME NEW d \in Delegates, phase[d] \in {"saving", "queued", "running"}
          PROVE  registry'[name'[d]] = d \/ kernel'[d] = "closed"
      BY <1>2, <1>3, <2>1, NobodyAssumption DEF IInv, RegisteredOrClosed, ChildrenAreNamed, UnderWay
    <2>2. \A d \in Calls : phase[d] \in {"new", "building"} => \A j \in Ids : registry'[j] # d
      BY <1>2, <1>3 DEF IInv, RegisteredOrClosed
    <2> QED
      BY <1>2, <2>1, <2>2 DEF RegisteredOrClosed
  <1>8. EndedLeavesNothing'
    BY <1>2, <1>3 DEF IInv, EndedLeavesNothing
  <1> QED
    BY <1>2, <1>5, <1>6, <1>7, <1>8 DEF IInv, ChildIsOwnOrStub, RunningIsWired, WiresAreTemporary,
       CaptureIsOwn

\* Every step keeps the invariant.
LEMMA NextIInv == IInv /\ [Next]_vars => IInv'
  <1> SUFFICES ASSUME IInv, [Next]_vars PROVE IInv'
    OBVIOUS
  <1>1. CASE UNCHANGED vars
    BY <1>1 DEF vars, IInv, TypeOK, ChildrenAreNamed, ChildIsOwnOrStub, RegisteredOrClosed,
       RunningIsWired, WiresAreTemporary, EndedLeavesNothing, CaptureIsOwn
  <1>2. CASE \E c \in Calls : Advance(c)
    BY <1>2, FailKeepsIInv, RegisterKeepsIInv, LaunchKeepsIInv, TurnEndsKeepsIInv,
       CleanupEndsKeepsIInv DEF Advance
  <1>3. CASE \/ \E d \in Delegates, p \in Handles : Delegate(d, p)
             \/ \E p \in Posts, i \in Ids : PostSpawn(p, i)
    BY <1>3, AskKeepsIInv, Kinds
  <1> QED
    BY <1>1, <1>2, <1>3, ClientTurnKeepsIInv, ClientDeleteKeepsIInv, ClientResumeKeepsIInv DEF Next
-----------------------------------------------------------------------------
\* What hangs below h is closed under the calls that put something below.
LEMMA SpreadIsClosed ==
    ASSUME NEW h, NEW calls, NEW at, NEW c \in calls, parent[c] \in Spread(h, calls, at)
    PROVE  at[c] \in Spread(h, calls, at)
  <1> DEFINE With(T) == {h} \cup {at[d] : d \in T}
             Closed(T) == \A d \in calls : parent[d] \in With(T) => d \in T
             Hit == {d \in calls : \A T \in SUBSET calls : Closed(T) => d \in T}
  <1>1. Spread(h, calls, at) = With(Hit)
    BY DEF Spread
  <1>2. ASSUME NEW T \in SUBSET calls, Closed(T) PROVE c \in T
    <2>1. Hit \subseteq T
      BY <1>2
    <2>2. parent[c] \in With(T)
      BY <1>1, <2>1
    <2> QED
      BY <1>2, <2>2
  <1>3. c \in Hit
    BY <1>2
  <1> QED
    BY <1>1, <1>3

\* A running child is reached and shown from wherever its parent is.
LEMMA WiredFollows == IInv => TurnsAreWired
  <1> SUFFICES ASSUME IInv, NEW c \in Calls, phase[c] = "running"
               PROVE  /\ c \in below
                      /\ \A h \in Handles \ Stubs :
                            /\ parent[c] \in Reached(h) \ Stubs => c \in Reached(h)
                            /\ parent[c] \in Shown(h) /\ registry[name[c]] = c => c \in Shown(h)
    BY DEF TurnsAreWired
  <1>1. c \in below /\ child[c] = c /\ (parent[c] \notin Stubs => c \in linked)
    BY DEF IInv, RunningIsWired
  <1>2. ASSUME NEW h, parent[c] \in Reached(h) \ Stubs PROVE c \in Reached(h)
    BY <1>1, <1>2, SpreadIsClosed DEF Reached
  <1>3. ASSUME NEW h, parent[c] \in Shown(h), registry[name[c]] = c PROVE c \in Shown(h)
    <2> DEFINE listed == {d \in below : Live(name[child[d]])}
               at == [d \in listed |-> registry[name[child[d]]]]
    <2>1. Shown(h) = Spread(h, listed, at)
      BY DEF Shown
    <2>2. c \in listed /\ at[c] = c
      BY <1>1, <1>3, NobodyAssumption DEF Live
    <2> HIDE DEF listed, at
    <2> QED
      BY <1>3, <2>1, <2>2, SpreadIsClosed
  <1> QED
    BY <1>1, <1>2, <1>3
-----------------------------------------------------------------------------
\* The invariant of the spawns, for any number of calls and clients.
THEOREM Invariance == Spec => []IInv
  BY InitIInv, NextIInv, PTL DEF Spec

\* The variables keep to their types; among them, a handle is registered under its
\* own id, whoever took whose place (session_manager.py:148-157).
THEOREM Typing == Spec => []TypeOK
  <1>1. IInv => TypeOK
    BY DEF IInv
  <1> QED
    BY <1>1, Invariance, PTL

\* Whatever clients did meanwhile, a call that is over has left no token linked and
\* no hook in place, and a delegate no session (spawn.py:382-392).
THEOREM NothingIsLeft == Spec => []EndedLeavesNothing
  <1>1. IInv => EndedLeavesNothing
    BY DEF IInv
  <1> QED
    BY <1>1, Invariance, PTL

\* A delegate reports its own turn and nobody else's (spawn.py:361-380, 394-400).
THEOREM CapturesAreOwn == Spec => []CaptureIsOwn
  <1>1. IInv => CaptureIsOwn
    BY DEF IInv
  <1> QED
    BY <1>1, Invariance, PTL

\* At any depth that GET /tree does not cut, a running child is shown below, and
\* cancelled with, every session above it (spawn.py:343-351, agents.py:127-134,
\* sessions.py:571-596).
THEOREM TurnsStayWired == Spec => []TurnsAreWired
  BY WiredFollows, Invariance, PTL
=============================================================================
