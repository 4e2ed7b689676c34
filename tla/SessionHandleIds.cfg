\* Two streams accepted before the first one's task has begun.
CONSTANTS
    Requests = {r1, r2}
    NoRequest = NoRequest
SPECIFICATION Spec
CHECK_DEADLOCK FALSE
INVARIANT AcceptedIdsDistinct
