\* Two turns with parallel tools, a resume, and either a PATCH or one thing that goes wrong.
CONSTANTS
    First = First
    Resumes = {r1}
    MaxTurns = 2
    Patches = {p1}
    PatchKeys = {"name"}
    Nobody = Nobody
    Steps = {"call"}
    Unwritable <- UnwritableCall
    Torn <- TornAnswer
    MaxTools = 2
    MaxDisturbances = 1
SPECIFICATION Spec
CHECK_DEADLOCK FALSE
INVARIANTS
    TypeOK
    AnsweredTurnsStay
    QuietTranscriptIsCurrent
    TurnsCountedAreOnDisk
    MetadataMerges
