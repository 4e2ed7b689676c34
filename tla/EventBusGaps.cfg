\* A client that reads more slowly than its session publishes.
CONSTANTS
    Sessions = {s1}
    Clients = {c1}
    AllSessions = AllSessions
    MaxQueueSize = 2
    MaxEvents = 5
SPECIFICATION Spec
CHECK_DEADLOCK FALSE
INVARIANT GapsShow
