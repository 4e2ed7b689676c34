--------------------------- MODULE EventBusProofs ---------------------------
(***************************************************************************)
(* For any finite set of sessions, any clients and any bounds: the search  *)
(* of get_descendants() finds what it should, the safety invariants of     *)
(* EventBus hold, and it implements LossyFeed.                             *)
(***************************************************************************)
EXTENDS EventBus, FiniteSetTheorems, TLAPS

\* Induction, as a fact about sets: a set that has 0, and with each number the next,
\* has them all.  A number that it lacked would come with a least one, by the
\* well-foundedness of inclusion between finite sets.
LEMMA SetInduction ==
    ASSUME NEW T, 0 \in T, \A n \in Nat : n \in T => n + 1 \in T
    PROVE  Nat \subseteq T
<1> SUFFICES ASSUME NEW k \in Nat, k \notin T PROVE FALSE
    OBVIOUS
<1> DEFINE UpTo(n) == {i \in Nat : i < n}
           Missing == {UpTo(n) : n \in Nat \ T}
<1>1. \A n \in Nat : IsFiniteSet(UpTo(n))
    <2> SUFFICES ASSUME NEW n \in Nat PROVE IsFiniteSet(UpTo(n))
        OBVIOUS
    <2>1. QED
        BY FS_BoundedSetOfNaturals
<1>2. Missing \subseteq FiniteSubsetsOf(Nat)
    BY <1>1 DEF FiniteSubsetsOf
<1>3. Missing # {}
    OBVIOUS
<1> HIDE DEF Missing
<1>4. PICK x \in Missing : \A y \in Missing : ~(<<y, x>> \in StrictSubsetOrdering(Nat))
    BY <1>2, <1>3, WFMin, FS_StrictSubsetOrderingWellFounded
<1>5. PICK m \in Nat \ T : x = UpTo(m)
    BY DEF Missing
<1>6. m - 1 \in Nat \ T
    BY m \in Nat \ T
<1>7. UpTo(m - 1) \in Missing
    BY <1>6 DEF Missing
<1>8. <<UpTo(m - 1), x>> \in StrictSubsetOrdering(Nat)
    <2>1. UpTo(m - 1) \subseteq UpTo(m) /\ m - 1 \in UpTo(m) /\ m - 1 \notin UpTo(m - 1)
        BY <1>6
    <2>2. UpTo(m - 1) \in SUBSET Nat /\ UpTo(m) \in SUBSET Nat
        OBVIOUS
    <2>3. QED
        BY <1>5, <2>1, <2>2 DEF StrictSubsetOrdering
<1>9. QED
    BY <1>4, <1>7, <1>8

\* A function on 0..N whose values are made one from the other.
LEMMA Recursion ==
    ASSUME NEW N \in Nat, NEW S, NEW first \in S, NEW next \in [S -> S]
    PROVE  \E g \in [0..N -> S] :
               g[0] = first /\ \A n \in 1..N : g[n] = next[g[n - 1]]
<1> DEFINE Good(n, g) == g[0] = first /\ \A k \in 1..n : g[k] = next[g[k - 1]]
           Defined == {n \in Nat : \E g \in [0..n -> S] : Good(n, g)}
<1>1. 0 \in Defined
    <2>1. Good(0, [k \in 0..0 |-> first]) /\ [k \in 0..0 |-> first] \in [0..0 -> S]
        OBVIOUS
    <2>2. QED
        BY <2>1
<1>2. ASSUME NEW n \in Nat, n \in Defined PROVE n + 1 \in Defined
    <2>1. PICK g \in [0..n -> S] : Good(n, g)
        BY <1>2
    <2> DEFINE h == [k \in 0..(n + 1) |-> IF k <= n THEN g[k] ELSE next[g[n]]]
    <2>2. h \in [0..(n + 1) -> S]
        BY <2>1
    <2>3. h[0] = first
        BY <2>1
    <2>4. \A k \in 1..(n + 1) : h[k] = next[h[k - 1]]
        <3> SUFFICES ASSUME NEW k \in 1..(n + 1) PROVE h[k] = next[h[k - 1]]
            OBVIOUS
        <3>1. CASE k = n + 1
            <4>1. h[k] = next[g[n]] /\ h[k - 1] = g[n]
                BY <3>1
            <4>2. QED
                BY <4>1
        <3>2. CASE k \in 1..n
            <4>1. h[k] = g[k] /\ h[k - 1] = g[k - 1]
                BY <3>2
            <4>2. g[k] = next[g[k - 1]]
                BY <2>1, <3>2
            <4>3. QED
                BY <4>1, <4>2
        <3>3. QED
            BY <3>1, <3>2
    <2> HIDE DEF h
    <2>5. QED
        BY <2>2, <2>3, <2>4
<1> HIDE DEF Defined
<1>3. N \in Defined
    BY <1>1, <1>2, SetInduction
<1>4. QED
    BY <1>3 DEF Defined

\* The sessions one level further down than those of a set.
Wider(T) == T \cup UNION {children[t] : t \in T}

\* The levels of get_descendants() are the ones its loop makes, each from the one before.
LEMMA LevelsOf ==
    ASSUME TypeOK, NEW s \in Sessions
    PROVE  \E g \in [0..Cardinality(Sessions) -> SUBSET Sessions] :
               /\ g[0] = children[s]
               /\ \A n \in 1..Cardinality(Sessions) : g[n] = Wider(g[n - 1])
               /\ Descendants(s) = g[Cardinality(Sessions)]
<1> DEFINE N == Cardinality(Sessions)
           Sets == SUBSET Sessions
           First == children[s]
           Def(g, n) == IF n = 0 THEN children[s]
                        ELSE g[n - 1] \cup UNION {children[t] : t \in g[n - 1]}
           Level == CHOOSE g : g = [n \in 0..N |-> Def(g, n)]
           Widen == [T \in SUBSET Sessions |-> Wider(T)]
<1>1. N \in Nat
    BY SessionsAssumption, FS_CardinalityType
<1>2. First \in Sets /\ Widen \in [Sets -> Sets]
    BY DEF TypeOK, Wider
<1>3. Descendants(s) = Level[N]
    BY DEF Descendants
<1> HIDE DEF N, Widen, Sets, First
<1>4. PICK g \in [0..N -> Sets] :
          g[0] = First /\ \A n \in 1..N : g[n] = Widen[g[n - 1]]
    <2> HIDE DEF Def, Level
    <2>1. \A S : \A first \in S : \A next \in [S -> S] :
              \E g \in [0..N -> S] :
                  g[0] = first /\ \A n \in 1..N : g[n] = next[g[n - 1]]
        BY <1>1, Recursion
    <2>2. QED
        BY <1>2, <2>1
<1> USE DEF Sets, First
<1>5. ASSUME NEW n \in 1..N PROVE g[n] = Wider(g[n - 1])
    <2>1. g[n - 1] \in SUBSET Sessions
        BY <1>1
    <2>2. QED
        BY <1>4, <2>1 DEF Widen
<1>6. g = [n \in 0..N |-> Def(g, n)]
    <2>1. ASSUME NEW n \in 0..N PROVE g[n] = Def(g, n)
        <3>1. CASE n = 0
            BY <3>1, <1>4
        <3>2. CASE n \in 1..N
            BY <3>2, <1>1, <1>5 DEF Wider
        <3>3. QED
            BY <1>1, <3>1, <3>2
    <2>2. QED
        BY <2>1
<1> HIDE DEF Def
<1>7. Level = [n \in 0..N |-> Def(Level, n)]
    BY <1>6
<1> HIDE DEF Level
<1>8. Level[0] = children[s] /\ \A n \in 1..N : Level[n] = Wider(Level[n - 1])
    <2>1. \A n \in 0..N : Level[n] = Def(Level, n)
        BY <1>7, Zenon
    <2>2. Level[0] = children[s]
        BY <1>1, <2>1, 0 \in 0..N, Zenon DEF Def
    <2>3. ASSUME NEW n \in 1..N PROVE Level[n] = Wider(Level[n - 1])
        <3>1. n \in 0..N /\ n # 0
            BY <1>1
        <3>2. Level[n] = Def(Level, n)
            BY <2>1, <3>1, Zenon
        <3>3. QED
            BY <3>1, <3>2, Zenon DEF Def, Wider
    <2>4. QED
        BY <2>2, <2>3
<1>9. \A n \in 0..N : Level[n] \in SUBSET Sessions
    <2> DEFINE Typed == {n \in Nat : n <= N => Level[n] \in SUBSET Sessions}
    <2>1. 0 \in Typed
        BY <1>2, <1>8
    <2>2. ASSUME NEW n \in Nat, n \in Typed PROVE n + 1 \in Typed
        <3> SUFFICES ASSUME n + 1 <= N PROVE Level[n + 1] \in SUBSET Sessions
            OBVIOUS
        <3>1. Level[n] \in SUBSET Sessions
            BY <1>1, <2>2
        <3>2. Level[n + 1] = Wider(Level[n])
            BY <1>1, <1>8, n + 1 \in 1..N, (n + 1) - 1 = n
        <3>3. QED
            BY <3>1, <3>2 DEF Wider, TypeOK
    <2> HIDE DEF Typed
    <2>3. Nat \subseteq Typed
        BY <2>1, <2>2, SetInduction
    <2>4. QED
        BY <1>1, <2>3 DEF Typed
<1>10. Level \in [0..N -> SUBSET Sessions]
    BY <1>7, <1>9
<1>11. QED
    BY <1>3, <1>8, <1>10 DEF N

\* A set of sessions that has the children of its members.
IsClosed(T) == \A t \in T : children[t] \subseteq T

\* get_descendants() finds the sessions below s and no others, however the tree
\* branches and wherever it comes back to itself: each level but the last adds a
\* session, so there are no more levels than sessions.
THEOREM SearchIsExact ==
    ASSUME TypeOK, NEW s \in Sessions
    PROVE  Descendants(s) = Below(s)
<1> DEFINE N == Cardinality(Sessions)
<1>1. N \in Nat
    BY SessionsAssumption, FS_CardinalityType
<1>2. PICK g \in [0..N -> SUBSET Sessions] :
          /\ g[0] = children[s]
          /\ \A n \in 1..N : g[n] = Wider(g[n - 1])
          /\ Descendants(s) = g[N]
    BY LevelsOf
<1> HIDE DEF N
<1>3. children \in [Sessions -> SUBSET Sessions]
    BY DEF TypeOK
<1>4. ASSUME NEW n \in Nat, n + 1 <= N
      PROVE  /\ g[n] \in SUBSET Sessions /\ g[n + 1] \in SUBSET Sessions
             /\ g[n + 1] = Wider(g[n])
    <2>1. n \in 0..N /\ n + 1 \in 1..N /\ n + 1 \in 0..N /\ (n + 1) - 1 = n
        BY <1>1, <1>4
    <2>2. QED
        BY <1>2, <2>1
<1>5. ASSUME NEW n \in 0..N
      PROVE  /\ IsFiniteSet(g[n]) /\ Cardinality(g[n]) \in Nat /\ Cardinality(g[n]) <= N
             /\ g[n] \in SUBSET Sessions
    <2>1. g[n] \in SUBSET Sessions
        BY <1>2
    <2>2. QED
        BY <2>1, SessionsAssumption, FS_Subset, FS_CardinalityType DEF N
<1>6. \A n \in 0..N : IsClosed(g[n]) \/ n + 1 <= Cardinality(g[n])
    <2> DEFINE Grown == {n \in Nat : n <= N => \/ IsClosed(g[n])
                                             \/ n + 1 <= Cardinality(g[n])}
    <2>1. 0 \in Grown
        <3>1. 0 \in 0..N
            BY <1>1
        <3>2. CASE g[0] = {}
            BY <3>2 DEF IsClosed
        <3>3. CASE g[0] # {}
            <4>1. Cardinality(g[0]) # 0
                BY <3>1, <3>3, <1>5, FS_EmptySet
            <4>2. QED
                BY <3>1, <4>1, <1>5
        <3>4. QED
            BY <3>2, <3>3
    <2>2. ASSUME NEW n \in Nat, n \in Grown PROVE n + 1 \in Grown
        <3> SUFFICES ASSUME n + 1 <= N
                     PROVE  IsClosed(g[n + 1]) \/ (n + 1) + 1 <= Cardinality(g[n + 1])
            OBVIOUS
        <3>1. n \in 0..N /\ n + 1 \in 0..N
            BY <1>1
        <3>2. g[n] \subseteq g[n + 1]
            BY <1>4 DEF Wider
        <3>3. CASE IsClosed(g[n])
            <4>1. g[n + 1] = g[n]
                <5>1. Wider(g[n]) \subseteq g[n]
                    BY <3>3 DEF Wider, IsClosed
                <5>2. g[n + 1] = Wider(g[n])
                    BY <1>4
                <5>3. QED
                    BY <3>2, <5>1, <5>2
            <4>2. QED
                BY <4>1, <3>3
        <3>4. CASE ~IsClosed(g[n])
            <4>1. g[n + 1] # g[n]
                BY <1>4, <3>4 DEF Wider, IsClosed
            <4>2. /\ Cardinality(g[n]) <= Cardinality(g[n + 1])
                  /\ Cardinality(g[n]) # Cardinality(g[n + 1])
                BY <3>1, <3>2, <4>1, <1>5, FS_Subset
            <4>3. n + 1 <= Cardinality(g[n])
                BY <2>2, <3>1, <3>4
            <4>4. Cardinality(g[n]) \in Nat /\ Cardinality(g[n + 1]) \in Nat
                BY <1>5, <3>1
            <4>5. QED
                BY <4>2, <4>3, <4>4
        <3>5. QED
            BY <3>3, <3>4
    <2> HIDE DEF Grown
    <2>3. Nat \subseteq Grown
        BY <2>1, <2>2, SetInduction
    <2>4. QED
        BY <1>1, <2>3 DEF Grown
<1>7. IsClosed(g[N])
    <2>1. N \in 0..N
        BY <1>1
    <2>2. Cardinality(g[N]) \in Nat /\ Cardinality(g[N]) <= N
        BY <1>5, <2>1
    <2>3. QED
        BY <1>1, <1>6, <2>1, <2>2
<1>8. \A n \in 0..N : g[0] \subseteq g[n] /\ g[n] \subseteq Below(s)
    <2> DEFINE Between == {n \in Nat : n <= N => g[0] \subseteq g[n] /\ g[n] \subseteq Below(s)}
    <2>1. 0 \in Between
        BY <1>2, <1>3 DEF Below
    <2>2. ASSUME NEW n \in Nat, n \in Between PROVE n + 1 \in Between
        <3> SUFFICES ASSUME n + 1 <= N
                     PROVE  g[0] \subseteq g[n + 1] /\ g[n + 1] \subseteq Below(s)
            OBVIOUS
        <3>1. g[0] \subseteq g[n] /\ g[n] \subseteq Below(s)
            BY <1>1, <2>2
        <3>2. ASSUME NEW t \in g[n] PROVE children[t] \subseteq Below(s)
            BY <1>3, <1>4, <3>1, <3>2 DEF Below
        <3>3. QED
            BY <1>4, <3>1, <3>2 DEF Wider
    <2> HIDE DEF Between
    <2>3. Nat \subseteq Between
        BY <2>1, <2>2, SetInduction
    <2>4. QED
        BY <1>1, <2>3 DEF Between
<1>9. Below(s) \subseteq g[N]
    <2>1. g[N] \in SUBSET Sessions /\ children[s] \subseteq g[N]
        BY <1>1, <1>2, <1>8
    <2>2. QED
        BY <1>7, <2>1 DEF Below, IsClosed
<1>10. g[N] \subseteq Below(s)
    BY <1>1, <1>8
<1>11. QED
    BY <1>2, <1>9, <1>10
-----------------------------------------------------------------------------
\* Numbers that grow from each place to the next.
Increasing(q) == \A i \in 1..Len(q) : \A j \in 1..(i - 1) : q[j] < q[i]

\* q is what d ends with.
IsEndOf(q, d) ==
    /\ Len(q) <= Len(d)
    /\ \A i \in 1..Len(q) : q[i] = d[(Len(d) - Len(q)) + i]

\* What is of d neither in S nor in q has been followed by as many as a queue holds.
OverflowOnly(d, q, S) ==
    \A i \in DOMAIN d : d[i] \notin S \cup ToSet(q) => i + MaxQueueSize <= Len(d)

\* Who is not subscribed yet has neither been sent anything nor should have been.
NewcomersAreClean ==
    \A c \in Clients : state[c] \in {"new", "opening"} =>
        c \notin subscribers /\ queue[c] = <<>> /\ due[c] = <<>>

\* The subscribers are the clients whose subscribe() has begun and not ended.
SubscribersListen ==
    \A c \in Clients : c \in subscribers <=> state[c] \in {"waiting", "writing", "left"}

\* What is queued has been published, in this order, and after all that was sent.
QueuedInOrder ==
    \A c \in Clients :
        /\ Increasing(queue[c])
        /\ \A i \in 1..Len(queue[c]) : queue[c][i] <= published
        /\ \A k \in 1..Len(seen[c]) :
              /\ seen[c][k].event <= published
              /\ \A i \in 1..Len(queue[c]) : seen[c][k].event < queue[c][i]

\* Events are sent in the order they were published, each once, and numbered from 1
\* without gaps on each connection.
SentInOrder ==
    \A c \in Clients : \A i \in DOMAIN seen[c] :
        /\ seen[c][i].sequence = i
        /\ \A j \in 1..(i - 1) : seen[c][j].event < seen[c][i].event

\* The inductive invariant.
IInv ==
    /\ TypeOK
    /\ NewcomersAreClean
    /\ SubscribersListen
    /\ QueuedInOrder
    /\ QueueHoldsTheLatest
    /\ SentInOrder
    /\ LostOnlyByOverflow
-----------------------------------------------------------------------------
\* A suffix, place by place.
LEMMA SuffixByPlace ==
    ASSUME NEW S, NEW q \in Seq(S), NEW d \in Seq(S)
    PROVE  IsSuffix(q, d) <=> IsEndOf(q, d)
<1> DEFINE n == Len(q)
           m == Len(d)
           rq == [i \in 1..n |-> q[(n - i) + 1]]
           rd == [i \in 1..m |-> d[(m - i) + 1]]
<1>1. n \in Nat /\ m \in Nat
    OBVIOUS
<1>2. rq \in Seq(S) /\ rd \in Seq(S) /\ Len(rq) = n /\ Len(rd) = m
    OBVIOUS
<1>3. Reverse(q) = rq /\ Reverse(d) = rd
    BY DEF Reverse
<1>4. IsSuffix(q, d) <=> n <= m /\ SubSeq(rq, 1, n) = SubSeq(rd, 1, n)
    BY <1>2, <1>3 DEF IsSuffix, IsPrefix
<1>5. ASSUME n <= m
      PROVE  SubSeq(rq, 1, n) = SubSeq(rd, 1, n) <=> \A i \in 1..n : rq[i] = rd[i]
    <2>1. /\ SubSeq(rq, 1, n) = [i \in 1..n |-> rq[i]]
          /\ SubSeq(rd, 1, n) = [i \in 1..n |-> rd[i]]
        BY <1>1, <1>2, <1>5
    <2> HIDE DEF rq, rd, n
    <2>2. QED
        BY <2>1
<1>6. ASSUME n <= m
      PROVE  (\A i \in 1..n : rq[i] = rd[i]) <=> (\A i \in 1..n : q[i] = d[(m - n) + i])
    <2>1. \A i \in 1..n : rq[i] = q[(n - i) + 1] /\ rd[i] = d[(m - i) + 1]
        BY <1>1, <1>6
    <2> HIDE DEF rq, rd
    <2>2. ASSUME \A i \in 1..n : rq[i] = rd[i], NEW i \in 1..n PROVE q[i] = d[(m - n) + i]
        <3>1. (n - i) + 1 \in 1..n /\ (n - ((n - i) + 1)) + 1 = i
              /\ (m - ((n - i) + 1)) + 1 = (m - n) + i
            BY <1>1
        <3>2. QED
            BY <2>1, <2>2, <3>1
    <2>3. ASSUME \A i \in 1..n : q[i] = d[(m - n) + i], NEW i \in 1..n PROVE rq[i] = rd[i]
        <3>1. (n - i) + 1 \in 1..n /\ (m - n) + ((n - i) + 1) = (m - i) + 1
            BY <1>1
        <3>2. QED
            BY <2>1, <2>3, <3>1
    <2>4. QED
        BY <2>2, <2>3
<1>7. QED
    BY <1>4, <1>5, <1>6 DEF IsEndOf

\* What put_nowait() does to a queue, after get_nowait() when it is full.
LEMMA EnqueueAppends ==
    ASSUME NEW q \in Seq(Events), Len(q) <= MaxQueueSize, NEW e \in Events
    PROVE  LET r == Enqueue(q, e)
               lost == (Len(q) + 1) - Len(r)
           IN  /\ r \in Seq(Events) /\ Len(r) <= MaxQueueSize /\ Len(r) >= 1
               /\ lost \in {0, 1} /\ (lost = 1 => Len(q) = MaxQueueSize)
               /\ \A i \in 1..(Len(r) - 1) : r[i] = q[i + lost]
               /\ r[Len(r)] = e
<1> DEFINE k == IF Len(q) < MaxQueueSize THEN q ELSE Tail(q)
<1>1. Len(q) \in Nat /\ MaxQueueSize \in Nat /\ MaxQueueSize >= 1
    BY MaxQueueSizeAssumption
<1>2. Enqueue(q, e) = Append(k, e)
    BY DEF Enqueue
<1>3. CASE Len(q) < MaxQueueSize
    BY <1>1, <1>2, <1>3
<1>4. CASE Len(q) = MaxQueueSize
    <2>1. q # <<>> /\ k = Tail(q)
        BY <1>1, <1>4
    <2>2. /\ Tail(q) \in Seq(Events) /\ Len(Tail(q)) = Len(q) - 1
          /\ \A i \in 1..Len(Tail(q)) : Tail(q)[i] = q[i + 1]
        BY <2>1
    <2> HIDE DEF k
    <2>3. QED
        BY <1>1, <1>2, <1>4, <2>1, <2>2
<1>5. QED
    BY <1>1, <1>3, <1>4

\* It ends what is due with what was appended to both, and loses at most what is
\* then followed by a full queue.
LEMMA EnqueueKeepsTheEnd ==
    ASSUME NEW q \in Seq(Events), Len(q) <= MaxQueueSize, NEW e \in Events,
           NEW d \in Seq(Events), IsEndOf(q, d), NEW S, OverflowOnly(d, q, S)
    PROVE  /\ IsEndOf(Enqueue(q, e), Append(d, e))
           /\ OverflowOnly(Append(d, e), Enqueue(q, e), S)
<1> DEFINE r == Enqueue(q, e)
           a == Append(d, e)
           lost == (Len(q) + 1) - Len(r)
<1>1. /\ r \in Seq(Events) /\ Len(r) <= MaxQueueSize /\ Len(r) >= 1
      /\ lost \in {0, 1} /\ (lost = 1 => Len(q) = MaxQueueSize)
      /\ \A i \in 1..(Len(r) - 1) : r[i] = q[i + lost]
      /\ r[Len(r)] = e
    BY EnqueueAppends
<1>2. /\ a \in Seq(Events) /\ Len(a) = Len(d) + 1 /\ a[Len(a)] = e
      /\ \A i \in 1..Len(d) : a[i] = d[i]
    OBVIOUS
<1>3. Len(q) \in Nat /\ Len(d) \in Nat /\ Len(r) \in Nat /\ MaxQueueSize \in Nat
    BY <1>1, MaxQueueSizeAssumption
<1>4. Len(q) <= Len(d) /\ \A i \in 1..Len(q) : q[i] = d[(Len(d) - Len(q)) + i]
    BY DEF IsEndOf
<1> HIDE DEF r, a
<1>5. IsEndOf(r, a)
    <2>1. Len(r) <= Len(a)
        BY <1>1, <1>2, <1>3, <1>4
    <2>2. ASSUME NEW i \in 1..Len(r) PROVE r[i] = a[(Len(a) - Len(r)) + i]
        <3>1. CASE i = Len(r)
            BY <3>1, <1>1, <1>2, <1>3
        <3>2. CASE i # Len(r)
            <4>1. /\ i \in 1..(Len(r) - 1) /\ i + lost \in 1..Len(q)
                  /\ (Len(d) - Len(q)) + (i + lost) = (Len(a) - Len(r)) + i
                  /\ (Len(a) - Len(r)) + i \in 1..Len(d)
                BY <3>2, <1>1, <1>2, <1>3, <1>4
            <4>2. r[i] = q[i + lost] /\ q[i + lost] = d[(Len(a) - Len(r)) + i]
                BY <4>1, <1>1, <1>4
            <4>3. QED
                BY <4>1, <4>2, <1>2
        <3>3. QED
            BY <3>1, <3>2
    <2>3. QED
        BY <2>1, <2>2 DEF IsEndOf
<1>6. OverflowOnly(a, r, S)
    <2> SUFFICES ASSUME NEW i \in 1..Len(a), a[i] \notin S, a[i] \notin ToSet(r)
                 PROVE  i + MaxQueueSize <= Len(a)
        BY <1>2 DEF OverflowOnly
    <2>1. \A j \in 1..Len(r) : r[j] \in ToSet(r)
        BY <1>1 DEF ToSet
    <2>2. i # Len(a)
        BY <1>1, <1>2, <1>3, <2>1
    <2>3. i \in 1..Len(d) /\ a[i] = d[i]
        BY <1>2, <1>3, <2>2
    <2>4. CASE d[i] \notin ToSet(q)
        <3>1. i + MaxQueueSize <= Len(d)
            BY <2>3, <2>4 DEF OverflowOnly
        <3>2. QED
            BY <3>1, <1>2, <1>3
    <2>5. CASE d[i] \in ToSet(q)
        <3>1. CASE lost = 0
            <4>1. PICK j \in 1..Len(q) : d[i] = q[j]
                BY <2>5 DEF ToSet
            <4>2. j \in 1..(Len(r) - 1) /\ r[j] = q[j]
                BY <3>1, <1>1, <1>3
            <4>3. QED
                BY <4>1, <4>2, <2>1, <2>3, <1>3
        <3>2. CASE lost = 1 /\ i <= (Len(d) - Len(q)) + 1
            BY <3>2, <1>1, <1>2, <1>3
        <3>3. CASE lost = 1 /\ i > (Len(d) - Len(q)) + 1
            <4> DEFINE j == i - (Len(d) - Len(q))
            <4>1. Len(r) = Len(q) /\ i \in Nat /\ i <= Len(d)
                BY <3>3, <2>3, <1>3
            <4>2. /\ j \in 1..Len(q) /\ (Len(d) - Len(q)) + j = i
                  /\ j - 1 \in 1..(Len(r) - 1) /\ (j - 1) + lost = j /\ j - 1 \in 1..Len(r)
                BY <4>1, <3>3, <1>3
            <4>3. q[j] = d[i]
                BY <4>2, <1>4
            <4>4. r[j - 1] = q[j]
                BY <4>2, <1>1
            <4>5. r[j - 1] \in ToSet(r)
                BY <4>2, <2>1
            <4>6. QED
                BY <4>3, <4>4, <4>5, <2>3
        <3>4. QED
            BY <3>1, <3>2, <3>3, <2>3, <1>1, <1>3
    <2>6. QED
        BY <2>4, <2>5
<1>7. QED
    BY <1>5, <1>6 DEF r, a

\* It stays in order when what is appended comes after all of it.
LEMMA EnqueueKeepsTheOrder ==
    ASSUME NEW q \in Seq(Events), Len(q) <= MaxQueueSize, NEW e \in Events,
           Increasing(q), \A i \in 1..Len(q) : q[i] < e
    PROVE  /\ Increasing(Enqueue(q, e))
           /\ \A i \in 1..Len(Enqueue(q, e)) :
                 Enqueue(q, e)[i] = e \/ \E j \in 1..Len(q) : Enqueue(q, e)[i] = q[j]
<1> DEFINE r == Enqueue(q, e)
           lost == (Len(q) + 1) - Len(r)
<1>1. /\ r \in Seq(Events) /\ Len(r) >= 1 /\ lost \in {0, 1}
      /\ \A i \in 1..(Len(r) - 1) : r[i] = q[i + lost]
      /\ r[Len(r)] = e
    BY EnqueueAppends
<1>2. Len(q) \in Nat /\ Len(r) \in Nat
    BY <1>1
<1> HIDE DEF r
<1>3. \A i \in 1..(Len(r) - 1) : i + lost \in 1..Len(q)
    BY <1>1, <1>2
<1>4. ASSUME NEW i \in 1..Len(r), NEW j \in 1..(i - 1) PROVE r[j] < r[i]
    <2>1. j \in 1..(Len(r) - 1) /\ j + lost \in 1..Len(q) /\ r[j] = q[j + lost]
        BY <1>1, <1>2, <1>3
    <2>2. CASE i = Len(r)
        BY <2>1, <2>2, <1>1
    <2>3. CASE i # Len(r)
        <3>1. i \in 1..(Len(r) - 1) /\ i + lost \in 1..Len(q) /\ r[i] = q[i + lost]
            BY <1>1, <1>2, <1>3, <2>3
        <3>2. j + lost \in 1..((i + lost) - 1)
            BY <1>1, <1>2
        <3>3. QED
            BY <2>1, <3>1, <3>2 DEF Increasing
    <2>4. QED
        BY <2>2, <2>3
<1>5. ASSUME NEW i \in 1..Len(r) PROVE r[i] = e \/ \E j \in 1..Len(q) : r[i] = q[j]
    <2>1. CASE i = Len(r)
        BY <2>1, <1>1
    <2>2. CASE i # Len(r)
        <3>1. i \in 1..(Len(r) - 1)
            BY <2>2, <1>2
        <3>2. QED
            BY <3>1, <1>1, <1>3
    <2>3. QED
        BY <2>1, <2>2
<1>6. QED
    BY <1>4, <1>5 DEF Increasing, r
-----------------------------------------------------------------------------
\* A bus begins without subscribers.
LEMMA InitIInv == Init => IInv
<1> SUFFICES ASSUME Init PROVE IInv
    OBVIOUS
<1>1. TypeOK
    BY MaxQueueSizeAssumption, MaxEventsAssumption DEF Init, TypeOK, States
<1>2. \A c \in Clients : queue[c] = <<>> /\ due[c] = <<>> /\ seen[c] = <<>>
    BY DEF Init
<1>3. subscribers = {}
    BY DEF Init
<1>4. SubscribersListen
    BY DEF Init, SubscribersListen
<1>5. QED
    BY <1>1, <1>2, <1>3, <1>4
    DEF IInv, NewcomersAreClean, QueuedInOrder, Increasing, QueueHoldsTheLatest, SentInOrder,
        LostOnlyByOverflow

\* What a queue gives away is its oldest event; the rest still ends what is due.
LEMMA TailFacts ==
    ASSUME NEW q \in Seq(Events), q # <<>>
    PROVE  /\ Tail(q) \in Seq(Events) /\ Len(q) \in Nat \ {0} /\ Len(Tail(q)) = Len(q) - 1
           /\ \A i \in 1..Len(Tail(q)) : Tail(q)[i] = q[i + 1] /\ i + 1 \in 1..Len(q)
           /\ Head(q) = q[1] /\ 1 \in 1..Len(q) /\ q[1] \in Events
    OBVIOUS

\* A queue that drops its oldest item keeps the others in their places,
LEMMA TailKeepsTheRest ==
    ASSUME NEW q \in Seq(Events), q # <<>>
    PROVE  ToSet(q) \subseteq ToSet(Tail(q)) \cup {q[1]}
<1> SUFFICES ASSUME NEW i \in 1..Len(q), i # 1 PROVE q[i] \in ToSet(Tail(q))
    <2>1. DOMAIN q = 1..Len(q)
        OBVIOUS
    <2>2. QED
        BY <2>1 DEF ToSet
<1>1. /\ Tail(q) \in Seq(Events) /\ Len(q) \in Nat /\ Len(Tail(q)) = Len(q) - 1
      /\ \A j \in 1..Len(Tail(q)) : Tail(q)[j] = q[j + 1]
    BY TailFacts
<1>2. i - 1 \in 1..Len(Tail(q)) /\ (i - 1) + 1 = i
    BY <1>1
<1>3. Tail(q)[i - 1] = q[i] /\ i - 1 \in DOMAIN Tail(q)
    BY <1>1, <1>2
<1>4. QED
    BY <1>3 DEF ToSet

\* and ends as it ended.
LEMMA TailKeepsTheEnd ==
    ASSUME NEW q \in Seq(Events), q # <<>>, NEW d \in Seq(Events), IsEndOf(q, d)
    PROVE  IsEndOf(Tail(q), d)
<1>1. /\ Tail(q) \in Seq(Events) /\ Len(q) \in Nat \ {0} /\ Len(Tail(q)) = Len(q) - 1
      /\ \A j \in 1..Len(Tail(q)) : Tail(q)[j] = q[j + 1] /\ j + 1 \in 1..Len(q)
    BY TailFacts
<1>2. Len(d) \in Nat /\ Len(q) <= Len(d) /\ Len(Tail(q)) \in Nat
    BY <1>1 DEF IsEndOf
<1>3. ASSUME NEW i \in 1..Len(Tail(q))
      PROVE  Tail(q)[i] = d[(Len(d) - Len(Tail(q))) + i]
    <2>1. (Len(d) - Len(Tail(q))) + i = (Len(d) - Len(q)) + (i + 1)
        BY <1>1, <1>2
    <2>2. QED
        BY <1>1, <2>1 DEF IsEndOf
<1>4. QED
    BY <1>1, <1>2, <1>3 DEF IsEndOf

\* Every step keeps the types,
LEMMA TypingStep ==
    ASSUME TypeOK, [Next]_vars PROVE TypeOK'
<1> USE DEF TypeOK, Goto, States
<1>1. ASSUME NEW p \in Sessions, NEW s \in Sessions, RegisterChild(p, s) PROVE TypeOK'
    BY <1>1 DEF RegisterChild
<1>2. ASSUME NEW s \in Sessions, Publish(s) PROVE TypeOK'
    <2>1. published + 1 \in Events /\ published' = published + 1 /\ published' \in 0..MaxEvents
        BY <1>2, MaxEventsAssumption DEF Publish, Events
    <2>2. ASSUME NEW c \in Clients
          PROVE  /\ Enqueue(queue[c], published + 1) \in Seq(Events)
                 /\ Len(Enqueue(queue[c], published + 1)) <= MaxQueueSize
        BY <2>1, EnqueueAppends
    <2>3. /\ queue' \in [Clients -> Seq(Events)]
          /\ \A c \in Clients : Len(queue'[c]) <= MaxQueueSize
        BY <1>2, <2>2 DEF Publish
    <2>4. due' \in [Clients -> Seq(Events)]
        BY <1>2, <2>1 DEF Publish
    <2>5. QED
        BY <1>2, <2>1, <2>3, <2>4 DEF Publish
<1>3. ASSUME NEW c \in Clients, ClientStep(c) PROVE TypeOK'
    <2>1. CASE Connect(c)
        BY <2>1 DEF Connect
    <2>2. CASE HangUp(c)
        BY <2>2 DEF HangUp
    <2>3. CASE Subscribe(c)
        BY <2>3 DEF Subscribe
    <2>4. CASE YieldEvent(c)
        <3>1. /\ Tail(queue[c]) \in Seq(Events) /\ Len(Tail(queue[c])) <= MaxQueueSize
              /\ Head(queue[c]) \in Events
            BY <2>4, TailFacts, MaxQueueSizeAssumption DEF YieldEvent
        <3>2. /\ queue' \in [Clients -> Seq(Events)]
              /\ \A d \in Clients : Len(queue'[d]) <= MaxQueueSize
            BY <2>4, <3>1 DEF YieldEvent
        <3>3. [sequence |-> Len(seen[c]) + 1, event |-> Head(queue[c])] \in Frame
            BY <3>1 DEF Frame
        <3>4. seen' \in [Clients -> Seq(Frame)]
            BY <2>4, <3>3 DEF YieldEvent
        <3>5. QED
            BY <2>4, <3>2, <3>4 DEF YieldEvent
    <2>5. CASE YieldKeepalive(c)
        BY <2>5 DEF YieldKeepalive
    <2>6. CASE Write(c)
        BY <2>6 DEF Write
    <2>7. CASE Unsubscribe(c)
        BY <2>7, MaxQueueSizeAssumption DEF Unsubscribe
    <2>8. QED
        BY <1>3, <2>1, <2>2, <2>3, <2>4, <2>5, <2>6, <2>7 DEF ClientStep
<1>4. CASE UNCHANGED vars
    BY <1>4 DEF vars
<1>5. QED
    BY <1>1, <1>2, <1>3, <1>4 DEF Next, ShowMessage

\* newcomers without queues,
LEMMA NewcomersStep ==
    ASSUME IInv, [Next]_vars PROVE NewcomersAreClean'
<1> USE DEF IInv, TypeOK, NewcomersAreClean, Goto
<1>1. ASSUME NEW p \in Sessions, NEW s \in Sessions, RegisterChild(p, s)
      PROVE  NewcomersAreClean'
    BY <1>1 DEF RegisterChild
<1>2. ASSUME NEW s \in Sessions, Publish(s) PROVE NewcomersAreClean'
    BY <1>2 DEF Publish
<1>3. ASSUME NEW c \in Clients, ClientStep(c) PROVE NewcomersAreClean'
    BY <1>3 DEF ClientStep, Connect, HangUp, Subscribe, YieldEvent, YieldKeepalive, Write,
                Unsubscribe
<1>4. CASE UNCHANGED vars
    BY <1>4 DEF vars
<1>5. QED
    BY <1>1, <1>2, <1>3, <1>4 DEF Next, ShowMessage

\* and who listens in the list.
LEMMA SubscribersStep ==
    ASSUME IInv, [Next]_vars PROVE SubscribersListen'
<1> USE DEF IInv, TypeOK, SubscribersListen, Goto
<1>1. ASSUME UNCHANGED <<subscribers, state>> PROVE SubscribersListen'
    BY <1>1
<1>2. ASSUME NEW c \in Clients, ClientStep(c) PROVE SubscribersListen'
    <2>1. CASE Connect(c) \/ HangUp(c)
        BY <2>1 DEF Connect, HangUp
    <2>2. CASE Subscribe(c)
        BY <2>2 DEF Subscribe
    <2>3. CASE YieldEvent(c) \/ YieldKeepalive(c) \/ Write(c)
        BY <2>3 DEF YieldEvent, YieldKeepalive, Write
    <2>4. CASE Unsubscribe(c)
        BY <2>4 DEF Unsubscribe
    <2>5. QED
        BY <1>2, <2>1, <2>2, <2>3, <2>4 DEF ClientStep
<1>3. QED
    BY <1>1, <1>2 DEF Next, ShowMessage, RegisterChild, Publish, vars

\* The order is a matter of these three variables.
LEMMA OrderStays ==
    ASSUME IInv, UNCHANGED <<queue, published, seen>>
    PROVE  QueuedInOrder' /\ SentInOrder'
BY DEF IInv, QueuedInOrder, Increasing, SentInOrder

\* Every step keeps what is queued in order.
LEMMA OrderStep ==
    ASSUME IInv, [Next]_vars PROVE QueuedInOrder' /\ SentInOrder'
<1>1. ASSUME NEW p \in Sessions, NEW s \in Sessions, RegisterChild(p, s)
      PROVE  QueuedInOrder' /\ SentInOrder'
    BY <1>1, OrderStays DEF RegisterChild
<1>2. ASSUME NEW s \in Sessions, Publish(s) PROVE QueuedInOrder' /\ SentInOrder'
    <2> DEFINE e == published + 1
    <2>1. e \in Events /\ published \in Nat /\ published' = e /\ seen' = seen
        BY <1>2, MaxEventsAssumption DEF Publish, Events, IInv, TypeOK
    <2>2. SentInOrder'
        BY <2>1 DEF IInv, SentInOrder
    <2>3. ASSUME NEW c \in Clients
          PROVE  /\ Increasing(queue'[c])
                 /\ \A i \in 1..Len(queue'[c]) : queue'[c][i] <= published'
                 /\ \A k \in 1..Len(seen'[c]) :
                       /\ seen'[c][k].event <= published'
                       /\ \A i \in 1..Len(queue'[c]) : seen'[c][k].event < queue'[c][i]
        <3> DEFINE q == queue[c]
        <3>1. /\ q \in Seq(Events) /\ Len(q) <= MaxQueueSize
              /\ Increasing(q) /\ \A i \in 1..Len(q) : q[i] <= published
              /\ \A i \in 1..Len(q) : q[i] \in Nat
            BY MaxEventsAssumption DEF IInv, TypeOK, QueuedInOrder, Events
        <3>2. /\ seen[c] \in Seq(Frame)
              /\ \A k \in 1..Len(seen[c]) :
                    /\ seen[c][k].event \in Nat
                    /\ seen[c][k].event <= published
                    /\ \A i \in 1..Len(q) : seen[c][k].event < q[i]
            <4>1. seen[c] \in Seq(Frame)
                BY DEF IInv, TypeOK
            <4>2. ASSUME NEW k \in 1..Len(seen[c]) PROVE seen[c][k].event \in Nat
                <5>1. seen[c][k] \in Frame
                    BY <4>1
                <5>2. QED
                    BY <5>1, MaxEventsAssumption DEF Frame, Events
            <4>3. QED
                BY <4>1, <4>2 DEF IInv, QueuedInOrder
        <3>3. CASE queue'[c] = q
            BY <3>1, <3>2, <3>3, <2>1
        <3>4. CASE queue'[c] = Enqueue(q, e)
            <4>1. \A i \in 1..Len(q) : q[i] < e
                BY <3>1, <2>1
            <4>2. /\ Increasing(Enqueue(q, e))
                  /\ \A i \in 1..Len(Enqueue(q, e)) :
                        Enqueue(q, e)[i] = e \/ \E j \in 1..Len(q) : Enqueue(q, e)[i] = q[j]
                BY <2>1, <3>1, <4>1, EnqueueKeepsTheOrder
            <4>3. \A i \in 1..Len(Enqueue(q, e)) : Enqueue(q, e)[i] <= e
                BY <4>1, <4>2, <2>1, <3>1
            <4>4. \A k \in 1..Len(seen[c]) : seen[c][k].event < e
                BY <3>2, <2>1
            <4>5. \A k \in 1..Len(seen[c]) : \A i \in 1..Len(Enqueue(q, e)) :
                      seen[c][k].event < Enqueue(q, e)[i]
                BY <4>2, <4>4, <3>2
            <4> HIDE DEF e
            <4>6. QED
                BY <3>2, <3>4, <4>2, <4>3, <4>4, <4>5, <2>1 DEF e
        <3>5. queue'[c] \in {q, Enqueue(q, e)}
            BY <1>2 DEF Publish, IInv, TypeOK
        <3>6. QED
            BY <3>3, <3>4, <3>5
    <2>4. QED
        BY <2>2, <2>3 DEF QueuedInOrder
<1>3. ASSUME NEW c \in Clients, ClientStep(c) PROVE QueuedInOrder' /\ SentInOrder'
    <2>1. CASE Connect(c) \/ HangUp(c) \/ Subscribe(c) \/ YieldKeepalive(c) \/ Write(c)
        BY <2>1, OrderStays DEF Connect, HangUp, Subscribe, YieldKeepalive, Write
    <2>2. CASE YieldEvent(c)
        <3> DEFINE q == queue[c]
                   f == [sequence |-> Len(seen[c]) + 1, event |-> Head(q)]
        <3>1. /\ q \in Seq(Events) /\ q # <<>> /\ seen[c] \in Seq(Frame)
              /\ queue' = [queue EXCEPT ![c] = Tail(q)]
              /\ seen' = [seen EXCEPT ![c] = Append(seen[c], f)]
              /\ published' = published
            BY <2>2 DEF YieldEvent, IInv, TypeOK
        <3>2. /\ Tail(q) \in Seq(Events) /\ Len(q) \in Nat \ {0} /\ Len(Tail(q)) = Len(q) - 1
              /\ \A i \in 1..Len(Tail(q)) : Tail(q)[i] = q[i + 1] /\ i + 1 \in 1..Len(q)
              /\ Head(q) = q[1] /\ 1 \in 1..Len(q) /\ q[1] \in Events
            BY <3>1, TailFacts
        <3>3. f \in Frame /\ f.sequence = Len(seen[c]) + 1 /\ f.event = q[1]
            BY <3>1, <3>2 DEF Frame
        <3>4. /\ Append(seen[c], f) \in Seq(Frame)
              /\ Len(Append(seen[c], f)) = Len(seen[c]) + 1
              /\ \A k \in 1..Len(seen[c]) : Append(seen[c], f)[k] = seen[c][k]
              /\ Append(seen[c], f)[Len(seen[c]) + 1] = f
              /\ Len(seen[c]) \in Nat
            BY <3>1, <3>3
        <3> HIDE DEF f
        <3>5. \A i \in 1..Len(Tail(q)) : q[1] < Tail(q)[i]
            BY <3>2 DEF IInv, QueuedInOrder, Increasing
        <3>6. Increasing(Tail(q)) /\ \A i \in 1..Len(Tail(q)) : Tail(q)[i] <= published
            BY <3>2 DEF IInv, QueuedInOrder, Increasing
        <3>7. ASSUME NEW k \in 1..Len(Append(seen[c], f))
              PROVE  /\ Append(seen[c], f)[k].event <= published
                     /\ \A i \in 1..Len(Tail(q)) : Append(seen[c], f)[k].event < Tail(q)[i]
            <4>1. CASE k \in 1..Len(seen[c])
                BY <4>1, <3>2, <3>4 DEF IInv, QueuedInOrder
            <4>2. CASE k = Len(seen[c]) + 1
                BY <4>2, <3>2, <3>3, <3>4, <3>5 DEF IInv, QueuedInOrder
            <4>3. QED
                BY <4>1, <4>2, <3>4
        <3>8. ASSUME NEW k \in 1..Len(Append(seen[c], f))
              PROVE  /\ Append(seen[c], f)[k].sequence = k
                     /\ \A j \in 1..(k - 1) :
                           Append(seen[c], f)[j].event < Append(seen[c], f)[k].event
            <4>1. CASE k \in 1..Len(seen[c])
                BY <4>1, <3>1, <3>4 DEF IInv, SentInOrder
            <4>2. CASE k = Len(seen[c]) + 1
                BY <4>2, <3>2, <3>3, <3>4 DEF IInv, QueuedInOrder
            <4>3. QED
                BY <4>1, <4>2, <3>4
        <3>9. QueuedInOrder'
            <4> SUFFICES ASSUME NEW d \in Clients
                         PROVE  /\ Increasing(queue'[d])
                                /\ \A i \in 1..Len(queue'[d]) : queue'[d][i] <= published
                                /\ \A k \in 1..Len(seen'[d]) :
                                      /\ seen'[d][k].event <= published
                                      /\ \A i \in 1..Len(queue'[d]) :
                                            seen'[d][k].event < queue'[d][i]
                BY <3>1 DEF QueuedInOrder
            <4>1. CASE d = c
                <5>1. queue'[d] = Tail(q) /\ seen'[d] = Append(seen[c], f)
                    BY <3>1, <4>1 DEF IInv, TypeOK
                <5>2. QED
                    BY <5>1, <3>6, <3>7
            <4>2. CASE d # c
                <5>1. queue'[d] = queue[d] /\ seen'[d] = seen[d]
                    BY <3>1, <4>2 DEF IInv, TypeOK
                <5>2. QED
                    BY <5>1 DEF IInv, QueuedInOrder
            <4>3. QED
                BY <4>1, <4>2
        <3>10. SentInOrder'
            <4> SUFFICES ASSUME NEW d \in Clients, NEW k \in DOMAIN seen'[d]
                         PROVE  /\ seen'[d][k].sequence = k
                                /\ \A j \in 1..(k - 1) : seen'[d][j].event < seen'[d][k].event
                BY DEF SentInOrder
            <4>1. CASE d = c
                <5>1. seen'[d] = Append(seen[c], f)
                    BY <3>1, <4>1 DEF IInv, TypeOK
                <5>2. k \in 1..Len(Append(seen[c], f))
                    BY <5>1, <3>4
                <5>3. QED
                    BY <5>1, <5>2, <3>8
            <4>2. CASE d # c
                <5>1. seen'[d] = seen[d]
                    BY <3>1, <4>2 DEF IInv, TypeOK
                <5>2. QED
                    BY <5>1 DEF IInv, SentInOrder
            <4>3. QED
                BY <4>1, <4>2
        <3>11. QED
            BY <3>9, <3>10
    <2>3. CASE Unsubscribe(c)
        <3>1. /\ published' = published /\ seen' = seen
              /\ \A d \in Clients : queue'[d] \in {queue[d], <<>>}
            BY <2>3 DEF Unsubscribe, IInv, TypeOK
        <3>2. QED
            BY <3>1 DEF IInv, QueuedInOrder, Increasing, SentInOrder
    <2>4. QED
        BY <1>3, <2>1, <2>2, <2>3 DEF ClientStep
<1>4. CASE UNCHANGED vars
    BY <1>4, OrderStays DEF vars
<1>5. QED
    BY <1>1, <1>2, <1>3, <1>4 DEF Next, ShowMessage

\* What a subscriber is owed, place by place.
EndsAreQueued ==
    \A c \in subscribers :
        /\ IsEndOf(queue[c], due[c])
        /\ OverflowOnly(due[c], queue[c], SeenEvents(c))

\* What was lost and what is queued, place by place,
LEMMA EndsFromSuffixes == TypeOK /\ QueueHoldsTheLatest /\ LostOnlyByOverflow => EndsAreQueued
<1> SUFFICES ASSUME TypeOK, QueueHoldsTheLatest, LostOnlyByOverflow, NEW c \in subscribers
             PROVE  IsEndOf(queue[c], due[c]) /\ OverflowOnly(due[c], queue[c], SeenEvents(c))
    BY DEF EndsAreQueued
<1>1. queue[c] \in Seq(Events) /\ due[c] \in Seq(Events)
    BY DEF TypeOK
<1>2. IsEndOf(queue[c], due[c])
    BY <1>1, SuffixByPlace DEF QueueHoldsTheLatest
<1>3. QED
    BY <1>2 DEF LostOnlyByOverflow, OverflowOnly

\* and back.
LEMMA SuffixesFromEnds == TypeOK /\ EndsAreQueued => QueueHoldsTheLatest /\ LostOnlyByOverflow
<1> SUFFICES ASSUME TypeOK, EndsAreQueued PROVE QueueHoldsTheLatest /\ LostOnlyByOverflow
    OBVIOUS
<1>1. ASSUME NEW c \in subscribers PROVE IsSuffix(queue[c], due[c])
    <2>1. queue[c] \in Seq(Events) /\ due[c] \in Seq(Events)
        BY DEF TypeOK
    <2>2. QED
        BY <2>1, SuffixByPlace DEF EndsAreQueued
<1>2. LostOnlyByOverflow
    BY DEF EndsAreQueued, LostOnlyByOverflow, OverflowOnly
<1>3. QED
    BY <1>1, <1>2 DEF QueueHoldsTheLatest

\* The search reaches whom an event is due to, and nobody else.
LEMMA MatchesWhoFollows ==
    ASSUME TypeOK, NEW c \in Clients, NEW s \in Sessions
    PROVE  Matches(c, s) <=> s \in Follows(c)
<1>1. CASE wants[c] = AllSessions
    BY <1>1 DEF Matches, Follows
<1>2. CASE wants[c] \in Sessions
    <2>1. Descendants(wants[c]) = Below(wants[c])
        BY <1>2, SearchIsExact
    <2>2. QED
        BY <2>1 DEF Matches, Follows
<1>3. QED
    BY <1>1, <1>2 DEF TypeOK

\* Every step keeps a queue the end of what was due to its client.
LEMMA EndsStep ==
    ASSUME IInv, [Next]_vars PROVE EndsAreQueued'
<1>1. EndsAreQueued
    BY EndsFromSuffixes DEF IInv
<1>2. ASSUME UNCHANGED <<queue, due, seen>>, subscribers' \subseteq subscribers
      PROVE  EndsAreQueued'
    BY <1>1, <1>2 DEF EndsAreQueued, SeenEvents
<1>3. ASSUME NEW p \in Sessions, NEW s \in Sessions, RegisterChild(p, s) PROVE EndsAreQueued'
    BY <1>2, <1>3 DEF RegisterChild
<1>4. ASSUME NEW s \in Sessions, Publish(s) PROVE EndsAreQueued'
    <2> DEFINE e == published + 1
    <2>1. /\ e \in Events /\ seen' = seen /\ subscribers' = subscribers
          /\ subscribers \subseteq Clients
        BY <1>4, MaxEventsAssumption DEF Publish, Events, IInv, TypeOK
    <2> SUFFICES ASSUME NEW c \in subscribers
                 PROVE  /\ IsEndOf(queue'[c], due'[c])
                        /\ OverflowOnly(due'[c], queue'[c], SeenEvents(c))
        BY <2>1 DEF EndsAreQueued, SeenEvents
    <2>2. Matches(c, s) <=> s \in Follows(c)
        BY <2>1, MatchesWhoFollows DEF IInv
    <2>3. /\ queue'[c] = IF Matches(c, s) THEN Enqueue(queue[c], e) ELSE queue[c]
          /\ due'[c] = IF s \in Follows(c) THEN Append(due[c], e) ELSE due[c]
        BY <1>4, <2>1 DEF Publish
    <2>4. /\ queue[c] \in Seq(Events) /\ Len(queue[c]) <= MaxQueueSize
          /\ due[c] \in Seq(Events)
        BY <2>1 DEF IInv, TypeOK
    <2>5. IsEndOf(queue[c], due[c]) /\ OverflowOnly(due[c], queue[c], SeenEvents(c))
        BY <1>1 DEF EndsAreQueued
    <2>6. /\ IsEndOf(Enqueue(queue[c], e), Append(due[c], e))
          /\ OverflowOnly(Append(due[c], e), Enqueue(queue[c], e), SeenEvents(c))
        BY <2>1, <2>4, <2>5, EnqueueKeepsTheEnd
    <2>7. QED
        BY <2>2, <2>3, <2>5, <2>6
<1>5. ASSUME NEW c \in Clients, ClientStep(c) PROVE EndsAreQueued'
    <2>1. CASE Connect(c) \/ HangUp(c) \/ YieldKeepalive(c) \/ Write(c)
        BY <2>1, <1>2 DEF Connect, HangUp, YieldKeepalive, Write
    <2>2. CASE Subscribe(c)
        <3>1. queue[c] = <<>> /\ due[c] = <<>>
            BY <2>2 DEF Subscribe, IInv, NewcomersAreClean
        <3>2. IsEndOf(queue[c], due[c]) /\ OverflowOnly(due[c], queue[c], SeenEvents(c))
            BY <3>1 DEF IsEndOf, OverflowOnly
        <3>3. QED
            BY <2>2, <3>2, <1>1 DEF Subscribe, EndsAreQueued, SeenEvents
    <2>3. CASE YieldEvent(c)
        <3> DEFINE q == queue[c]
                   f == [sequence |-> Len(seen[c]) + 1, event |-> Head(q)]
        <3>1. /\ q \in Seq(Events) /\ q # <<>> /\ seen[c] \in Seq(Frame)
              /\ queue' = [queue EXCEPT ![c] = Tail(q)]
              /\ seen' = [seen EXCEPT ![c] = Append(seen[c], f)]
              /\ due' = due /\ subscribers' = subscribers
              /\ subscribers \subseteq Clients /\ due[c] \in Seq(Events)
            BY <2>3 DEF YieldEvent, IInv, TypeOK
        <3>2. /\ Tail(q) \in Seq(Events) /\ Len(q) \in Nat \ {0} /\ Len(Tail(q)) = Len(q) - 1
              /\ \A i \in 1..Len(Tail(q)) : Tail(q)[i] = q[i + 1] /\ i + 1 \in 1..Len(q)
              /\ Head(q) = q[1] /\ 1 \in 1..Len(q) /\ q[1] \in Events
            BY <3>1, TailFacts
        <3>3. SeenEvents(c) \cup {q[1]} \subseteq {Append(seen[c], f)[i].event :
                                                     i \in DOMAIN Append(seen[c], f)}
            <4>1. f \in Frame /\ f.event = q[1]
                BY <3>1, <3>2 DEF Frame
            <4>2. /\ Append(seen[c], f) \in Seq(Frame)
                  /\ DOMAIN Append(seen[c], f) = 1..(Len(seen[c]) + 1)
                  /\ \A k \in DOMAIN seen[c] : /\ Append(seen[c], f)[k] = seen[c][k]
                                               /\ k \in 1..(Len(seen[c]) + 1)
                  /\ Append(seen[c], f)[Len(seen[c]) + 1] = f
                  /\ Len(seen[c]) + 1 \in 1..(Len(seen[c]) + 1)
                BY <3>1, <4>1
            <4> HIDE DEF f
            <4>3. QED
                BY <4>1, <4>2 DEF SeenEvents
        <3> HIDE DEF f
        <3>4. IsEndOf(q, due[c]) => IsEndOf(Tail(q), due[c])
            BY <3>1, TailKeepsTheEnd
        <3>5. ToSet(q) \subseteq ToSet(Tail(q)) \cup {q[1]}
            BY <3>1, TailKeepsTheRest
        <3> SUFFICES ASSUME NEW d \in subscribers
                     PROVE  /\ IsEndOf(queue'[d], due[d])
                            /\ OverflowOnly(due[d], queue'[d], SeenEvents(d)')
            BY <3>1 DEF EndsAreQueued
        <3>6. IsEndOf(queue[d], due[d]) /\ OverflowOnly(due[d], queue[d], SeenEvents(d))
            BY <1>1 DEF EndsAreQueued
        <3>7. CASE d = c
            <4>1. queue'[d] = Tail(q) /\ seen'[d] = Append(seen[c], f)
                BY <3>1, <3>7 DEF IInv, TypeOK
            <4>2. SeenEvents(c) \cup {q[1]} \subseteq SeenEvents(d)'
                BY <3>3, <4>1 DEF SeenEvents
            <4>3. SeenEvents(c) \cup ToSet(q) \subseteq SeenEvents(d)' \cup ToSet(Tail(q))
                BY <3>5, <4>2
            <4>4. OverflowOnly(due[d], Tail(q), SeenEvents(d)')
                BY <3>6, <3>7, <4>3 DEF OverflowOnly
            <4>5. QED
                BY <3>4, <3>6, <3>7, <4>1, <4>4
        <3>8. CASE d # c
            <4>1. queue'[d] = queue[d] /\ seen'[d] = seen[d]
                BY <3>1, <3>8 DEF IInv, TypeOK
            <4>2. SeenEvents(d)' = SeenEvents(d)
                BY <4>1 DEF SeenEvents
            <4>3. QED
                BY <3>6, <4>1, <4>2
        <3>9. QED
            BY <3>7, <3>8
    <2>4. CASE Unsubscribe(c)
        <3>1. /\ due' = due /\ seen' = seen /\ subscribers' = subscribers \ {c}
              /\ \A d \in subscribers' : queue'[d] = queue[d]
            BY <2>4 DEF Unsubscribe, IInv, TypeOK
        <3>2. QED
            BY <3>1, <1>1 DEF EndsAreQueued, SeenEvents
    <2>5. QED
        BY <1>5, <2>1, <2>2, <2>3, <2>4 DEF ClientStep
<1>6. CASE UNCHANGED vars
    BY <1>6, <1>2 DEF vars
<1>7. QED
    BY <1>3, <1>4, <1>5, <1>6 DEF Next, ShowMessage
-----------------------------------------------------------------------------
\* The inductive invariant holds in every reachable state.
THEOREM Invariance == Spec => []IInv
<1>1. ASSUME IInv, [Next]_vars PROVE IInv'
    <2>1. /\ TypeOK' /\ NewcomersAreClean' /\ SubscribersListen' /\ QueuedInOrder'
          /\ SentInOrder' /\ EndsAreQueued'
        BY <1>1, TypingStep, NewcomersStep, SubscribersStep, OrderStep, EndsStep DEF IInv
    <2>2. QueueHoldsTheLatest' /\ LostOnlyByOverflow'
        BY <2>1, SuffixesFromEnds, PTL
    <2>3. QED
        BY <2>1, <2>2 DEF IInv
<1>2. QED
    BY InitIInv, <1>1, PTL DEF Spec

\* The types of all variables (TypeOK), and no queue is longer than its bound.
THEOREM Typing == Spec => []TypeOK
    BY Invariance, PTL DEF IInv

\* A subscriber's queue holds the latest of what is due to it, from its session and
\* all sessions below it, and nothing else (event_bus.py:34-46, 84-99, 120-130).
THEOREM QueuesAreLatest == Spec => []QueueHoldsTheLatest
    BY Invariance, PTL DEF IInv

\* What a connection is sent is numbered without gaps and comes in the order of
\* publication, each event once (event_bus.py:160-173).
THEOREM SendingKeepsOrder == Spec => []SentInOrder
    BY Invariance, PTL DEF IInv

\* No event is lost to a subscriber unless a full queue of others followed it
\* (event_bus.py:122-130, 159-163).
THEOREM OverflowAloneLoses == Spec => []LostOnlyByOverflow
    BY Invariance, PTL DEF IInv
-----------------------------------------------------------------------------
\* A sequence that is the same place by place is the same.
LEMMA SameSequence ==
    ASSUME NEW a \in Seq(Events), NEW n \in Nat, NEW f, n = Len(a),
           f = [i \in 1..n |-> f[i]], \A i \in 1..n : f[i] = a[i]
    PROVE  f = a
OBVIOUS

\* What a full queue does with one event more is to keep the latest of them.
LEMMA EnqueueKeepsTheLatest ==
    ASSUME NEW q \in Seq(Events), Len(q) <= MaxQueueSize, NEW e \in Events
    PROVE  Enqueue(q, e) = Feed!Latest(Append(q, e))
<1> DEFINE r == Enqueue(q, e)
           b == Append(q, e)
           lost == IF Len(b) > MaxQueueSize THEN Len(b) - MaxQueueSize ELSE 0
           k == (Len(q) + 1) - Len(r)
<1>1. /\ Len(q) \in Nat /\ MaxQueueSize \in Nat \ {0} /\ b \in Seq(Events)
      /\ Len(b) = Len(q) + 1 /\ \A i \in 1..Len(q) : b[i] = q[i]
      /\ b[Len(q) + 1] = e
    BY MaxQueueSizeAssumption
<1>2. /\ r \in Seq(Events) /\ Len(r) <= MaxQueueSize /\ Len(r) >= 1
      /\ k \in {0, 1} /\ (k = 1 => Len(q) = MaxQueueSize)
      /\ \A i \in 1..(Len(r) - 1) : r[i] = q[i + k]
      /\ r[Len(r)] = e
    BY EnqueueAppends
<1>3. Len(r) \in Nat
    BY <1>2
<1> HIDE DEF r, b
<1>4. lost = k /\ Len(b) - lost = Len(r) /\ lost \in {0, 1} /\ Len(r) + k = Len(q) + 1
    BY <1>1, <1>2, <1>3
<1> HIDE DEF lost, k
<1>5. \A i \in 1..Len(r) : b[lost + i] = r[i]
    <2> SUFFICES ASSUME NEW i \in 1..Len(r) PROVE b[lost + i] = r[i]
        OBVIOUS
    <2>1. CASE i = Len(r)
        <3>1. lost + i = Len(q) + 1
            BY <1>1, <1>3, <1>4, <2>1
        <3>2. QED
            BY <1>1, <1>2, <2>1, <3>1
    <2>2. CASE i \in 1..(Len(r) - 1)
        <3>1. lost + i = i + k /\ i + k \in 1..Len(q)
            BY <1>1, <1>2, <1>3, <1>4, <2>2
        <3>2. QED
            BY <1>1, <1>2, <2>2, <3>1
    <2>3. QED
        BY <1>3, <2>1, <2>2
<1>6. Feed!Latest(b) = [i \in 1..Len(r) |-> b[lost + i]]
    BY <1>4 DEF Feed!Latest, lost
<1>7. Feed!Latest(b) = r
    BY <1>2, <1>3, <1>5, <1>6, SameSequence
<1>8. QED
    BY <1>7 DEF r, b

\* Below grows with the tree, and so does what a client follows.
LEMMA FollowsGrow ==
    ASSUME TypeOK, NEW p \in Sessions, NEW s \in Sessions, RegisterChild(p, s), NEW c \in Clients
    PROVE  /\ Follows(c) \subseteq Follows(c)'
           /\ Follows(c)' \in SUBSET Sessions
<1>1. /\ wants' = wants /\ wants[c] \in Sessions \cup {AllSessions}
      /\ \A t \in Sessions : children[t] \subseteq children'[t]
    BY DEF RegisterChild, TypeOK
<1>2. ASSUME NEW r \in Sessions PROVE Below(r) \subseteq Below(r)'
    BY <1>1 DEF Below
<1>3. \A r : Below(r)' \subseteq Sessions
    BY DEF Below
<1>4. QED
    BY <1>1, <1>2, <1>3 DEF Follows

\* What is not told of a bus is not told of its feed.
LEMMA FeedStutters ==
    ASSUME UNCHANGED <<children, wants, queue, seen, published>>,
           \A c \in Clients : Phase(c)' = Phase(c)
    PROVE  UNCHANGED Feed!vars
<1>1. \A c \in Clients : Follows(c)' = Follows(c)
    BY DEF Follows, Below
<1>2. QED
    BY <1>1 DEF Feed!vars

\* Where a client's generators go on, its phase is what it was, or the next.
LEMMA Phases ==
    ASSUME TypeOK, NEW c \in Clients, NEW to \in States, Goto(c, to)
    PROVE  /\ Phase(c)' = IF to \in {"new", "opening"} THEN "before"
                          ELSE IF to = "closed" THEN "after" ELSE "listening"
           /\ \A d \in Clients : d # c => Phase(d)' = Phase(d)
BY DEF TypeOK, Goto, Phase

\* The bus and the endpoint implement LossyFeed: every step of theirs is a step of the
\* feed or one that it does not see (event_bus.py:84-136, 150-180, events.py:33-58).
THEOREM FeedIsImplemented == Spec => ImplementsLossyFeed
<1>1. Init => Feed!Init
    <2> SUFFICES ASSUME Init PROVE Feed!Init
        OBVIOUS
    <2>1. \A c \in Clients : Phase(c) = "before" /\ Follows(c) \in SUBSET Sessions
        BY DEF Init, Phase, Follows, Below
    <2>2. QED
        BY <2>1 DEF Init, Feed!Init
<1>2. IInv /\ IInv' /\ [Next]_vars => [Feed!Next]_(Feed!vars)
    <2> SUFFICES ASSUME IInv, [Next]_vars
                 PROVE  Feed!Next \/ UNCHANGED Feed!vars
        OBVIOUS
    <2>1. TypeOK /\ NewcomersAreClean
        BY DEF IInv
    <2>2. ASSUME NEW p \in Sessions, NEW s \in Sessions, RegisterChild(p, s) PROVE Feed!Follow
        <3>1. UNCHANGED <<state, queue, seen, published>>
            BY <2>2 DEF RegisterChild
        <3>2. \A c \in Clients : Phase(c)' = Phase(c)
            BY <3>1 DEF Phase
        <3>3. QED
            BY <2>1, <2>2, <3>1, <3>2, FollowsGrow DEF Feed!Follow
    <2>3. ASSUME NEW s \in Sessions, Publish(s) PROVE Feed!Publish(s)
        <3>1. /\ UNCHANGED <<children, wants, state, seen>> /\ published' = published + 1
              /\ published + 1 \in Events
              /\ queue' = [c \in Clients |->
                              IF c \in subscribers /\ Matches(c, s)
                              THEN Enqueue(queue[c], published + 1) ELSE queue[c]]
            BY <2>1, <2>3, MaxEventsAssumption DEF Publish, TypeOK, Events
        <3>2. \A c \in Clients : Phase(c)' = Phase(c) /\ Follows(c)' = Follows(c)
            BY <3>1 DEF Phase, Follows, Below
        <3>3. ASSUME NEW c \in Clients
              PROVE  /\ c \in subscribers <=> Phase(c) = "listening"
                     /\ Matches(c, s) <=> s \in Follows(c)
                     /\ Enqueue(queue[c], published + 1) =
                            Feed!Latest(Append(queue[c], published + 1))
            <4>1. Matches(c, s) <=> s \in Follows(c)
                BY <2>1, MatchesWhoFollows
            <4>2. Enqueue(queue[c], published + 1) = Feed!Latest(Append(queue[c], published + 1))
                BY <2>1, <3>1, EnqueueKeepsTheLatest DEF TypeOK
            <4>3. c \in subscribers <=> Phase(c) = "listening"
                BY <2>1 DEF SubscribersListen, IInv, Phase, TypeOK, States
            <4>4. QED
                BY <4>1, <4>2, <4>3
        <3>4. queue' = [c \in Clients |->
                           IF Phase(c) = "listening" /\ s \in Follows(c)
                           THEN Feed!Latest(Append(queue[c], published + 1)) ELSE queue[c]]
            BY <3>1, <3>3
        <3>5. QED
            BY <3>1, <3>2, <3>4 DEF Feed!Publish
    <2>4. ASSUME NEW c \in Clients, ClientStep(c) PROVE Feed!Next \/ UNCHANGED Feed!vars
        <3>1. CASE HangUp(c)
            <4>1. UNCHANGED <<children, wants, queue, seen, published, state>>
                BY <3>1 DEF HangUp
            <4>2. \A d \in Clients : Phase(d)' = Phase(d)
                BY <4>1 DEF Phase
            <4>3. QED
                BY <4>1, <4>2, FeedStutters
        <3>2. CASE Connect(c) \/ YieldKeepalive(c) \/ Write(c)
            <4>1. UNCHANGED <<children, wants, queue, seen, published>>
                BY <3>2 DEF Connect, YieldKeepalive, Write
            <4>2. PICK to \in States : Goto(c, to) /\ (to = "opening" <=> state[c] = "new")
                                      /\ to \notin {"new", "closed"}
                                      /\ state[c] \notin {"opening", "closed"}
                BY <3>2 DEF Connect, YieldKeepalive, Write, States
            <4>3. Phase(c)' = Phase(c)
                BY <2>1, <4>2, Phases DEF Phase
            <4>4. \A d \in Clients : d # c => Phase(d)' = Phase(d)
                BY <2>1, <4>2, Phases
            <4>5. QED
                BY <4>1, <4>3, <4>4, FeedStutters
        <3>3. CASE Subscribe(c)
            <4>1. /\ UNCHANGED <<children, wants, queue, seen, published>>
                  /\ Goto(c, "waiting") /\ "waiting" \in States /\ Phase(c) = "before"
                BY <3>3 DEF Subscribe, States, Phase
            <4>2. /\ Phase(c)' = "listening"
                  /\ \A d \in Clients : d # c => Phase(d)' = Phase(d)
                BY <2>1, <4>1, Phases
            <4>3. \A d \in Clients : Follows(d)' = Follows(d)
                BY <4>1 DEF Follows, Below
            <4>4. Feed!Join(c)
                BY <4>1, <4>2, <4>3 DEF Feed!Join
            <4>5. QED
                BY <4>4 DEF Feed!Next
        <3>4. CASE YieldEvent(c)
            <4>1. /\ UNCHANGED <<children, wants, published>>
                  /\ Goto(c, "writing") /\ "writing" \in States /\ Phase(c) = "listening"
                BY <3>4 DEF YieldEvent, States, Phase
            <4>2. \A d \in Clients : Phase(d)' = Phase(d) /\ Follows(d)' = Follows(d)
                BY <2>1, <4>1, Phases DEF Follows, Below
            <4>3. Feed!Send(c)
                BY <3>4, <4>1, <4>2 DEF YieldEvent, Feed!Send
            <4>4. QED
                BY <4>3 DEF Feed!Next
        <3>5. CASE Unsubscribe(c)
            <4>1. /\ UNCHANGED <<children, wants, seen, published>>
                  /\ queue' = [queue EXCEPT ![c] = <<>>]
                  /\ Goto(c, "closed") /\ "closed" \in States /\ Phase(c) = "listening"
                BY <3>5 DEF Unsubscribe, States, Phase
            <4>2. /\ Phase(c)' = "after"
                  /\ \A d \in Clients : d # c => Phase(d)' = Phase(d)
                BY <2>1, <4>1, Phases
            <4>3. \A d \in Clients : Follows(d)' = Follows(d)
                BY <4>1 DEF Follows, Below
            <4>4. Feed!Leave(c)
                BY <4>1, <4>2, <4>3 DEF Feed!Leave
            <4>5. QED
                BY <4>4 DEF Feed!Next
        <3>6. QED
            BY <2>4, <3>1, <3>2, <3>3, <3>4, <3>5 DEF ClientStep
    <2>5. CASE UNCHANGED vars
        <3>1. UNCHANGED <<children, wants, queue, seen, published, state>>
            BY <2>5 DEF vars
        <3>2. \A c \in Clients : Phase(c)' = Phase(c)
            BY <3>1 DEF Phase
        <3>3. QED
            BY <3>1, <3>2, FeedStutters
    <2>6. QED
        BY <2>2, <2>3, <2>4, <2>5 DEF Next, ShowMessage, Feed!Next
<1>3. QED
    BY <1>1, <1>2, Invariance, PTL DEF Spec, ImplementsLossyFeed, Feed!Spec
=============================================================================
