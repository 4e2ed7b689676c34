\* Two retries at the same time.
CONSTANTS
    Retries = {r1, r2}
    Requests = {}
    Boot = Boot
    NoTask = NoTask
    MaxVersion = 1
SPECIFICATION Spec
CHECK_DEADLOCK FALSE
INVARIANT GuardHolds
