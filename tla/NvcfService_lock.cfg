SPECIFICATION Spec
CONSTANTS
    Workers = {w1, w2}
    Reqs = {r1, r2}
    Presigned = {}
    ForceId = force
    None = none
    Free = free
    Orphan = orphan
    MaxTerms = 2
    MaxCrashes = 1
SYMMETRY Symmetry
INVARIANTS OneAtATime FailureIsNotDone AnsweredIsRecorded
CHECK_DEADLOCK FALSE
