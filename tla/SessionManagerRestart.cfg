\* One session, whose daemon dies at any point and starts again.
CONSTANTS
    Ids = {s1}
    Calls = {c1, c2, c3}
    NoCall = NoCall
    NoId = NoId
    MaxCrashes = 1
SPECIFICATION FairSpec
CHECK_DEADLOCK FALSE
INVARIANT AnsweredChangesAreDurable
PROPERTIES
    DiskNeverGoesBack
    CallsSettle
