\* Two delegates, side by side or nested, and a POST /spawn, beside a client that
\* may resume one of their children.
CONSTANTS
    Delegates = {d1, d2}
    Posts = {p1}
    Resumes = {r1}
    Root = Root
    Nobody = Nobody
SPECIFICATION FairSpec
CHECK_DEADLOCK FALSE
INVARIANTS
    TypeOK
    EndedLeavesNothing
    CaptureIsOwn
    TurnsAreWired
PROPERTY SpawnsEnd
