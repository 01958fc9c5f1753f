SPECIFICATION LiveSpec
CONSTANTS
    Workers = {w1, w2}
    Reqs = {r1, r2}
    Presigned = {}
    ForceId = force
    None = none
    Free = free
    Orphan = orphan
    MaxTerms = 0
    MaxCrashes = 1
PROPERTIES StatusSettles BusyEnds
CHECK_DEADLOCK FALSE
