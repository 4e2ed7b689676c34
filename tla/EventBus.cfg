\* Three sessions below each other in any way, one client, and more events than its
\* queue holds.
CONSTANTS
    Sessions = {s1, s2, s3}
    Clients = {c1}
    AllSessions = AllSessions
    MaxQueueSize = 2
    MaxEvents = 3
SPECIFICATION FairSpec
CHECK_DEADLOCK FALSE
INVARIANTS
    TypeOK
    QueueHoldsTheLatest
    LostOnlyByOverflow
PROPERTIES
    ImplementsLossyFeed
    StreamsDrain
    GoneClientsLeave
