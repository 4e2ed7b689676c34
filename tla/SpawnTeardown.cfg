\* A delegate whose child a client deletes and resumes while its turn runs.
CONSTANTS
    Delegates = {d1}
    Posts = {}
    Resumes = {r1}
    Root = Root
    Nobody = Nobody
SPECIFICATION Spec
CHECK_DEADLOCK FALSE
PROPERTY TeardownIsOwn
