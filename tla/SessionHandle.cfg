\* Three requests: one may be the spawn call that made the session, one can be
\* running, one queued, one refused, in every order.
CONSTANTS
    Requests = {r1, r2, r3}
    NoRequest = NoRequest
SPECIFICATION FairSpec
CHECK_DEADLOCK FALSE
INVARIANTS
    TypeOK
    OneTurnAtATime
    TurnsNumberedOnce
    EventsNameTheirTurn
    PromisesNameRealTurns
    StatusReportsLastTurn
    TasksAreThePending
PROPERTIES
    NothingAdmittedAfterDestroy
    PromptsSettle
    BusyClears
    ImplementsSerialTurns
