\* A PATCH of the directory of a session that has not had a turn.
CONSTANTS
    First = First
    Resumes = {r1}
    MaxTurns = 1
    Patches = {p1}
    PatchKeys = {"directory"}
    Nobody = Nobody
    Steps = {"call"}
    Unwritable = {}
    Torn = {}
    MaxTools = 1
    MaxDisturbances = 1
SPECIFICATION Spec
CHECK_DEADLOCK FALSE
INVARIANT DirectorySticks
