\* Two retries, in sequence or at the same time, beside the boot task, and a session
\* created or resumed while the bundle changes at its source.
CONSTANTS
    Retries = {r1, r2}
    Requests = {c1}
    Boot = Boot
    NoTask = NoTask
    MaxVersion = 2
SPECIFICATION FairSpec
CHECK_DEADLOCK FALSE
INVARIANTS
    TypeOK
    QuietMeansReady
    SerialRetriesOneTask
    SessionsAreFresh
PROPERTY GuardReleases
