\* Two sessions and four calls: two may bring the sessions up while two more,
\* shutdown's included, take them down.
CONSTANTS
    Ids = {s1, s2}
    Calls = {c1, c2, c3, c4}
    NoCall = NoCall
    NoId = NoId
    MaxCrashes = 0
SPECIFICATION Spec
SYMMETRY CallSymmetry
CHECK_DEADLOCK FALSE
INVARIANTS
    TypeOK
    LiveHandlesAreOpen
    ShutdownLeavesNone
PROPERTIES
    HandleNeverReplaced
    ListingLosesNone
