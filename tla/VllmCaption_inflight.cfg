SPECIFICATION LiveSpec
CONSTANTS
    Windows = {1, 2, 3}
    Stage2 = TRUE
    Inflight = TRUE
    MaxInflight = 2
    MaxRetries = 2
    NoWindow = 0
    Unknown = unknown
    Empty = empty
    Missing = missing
    MaxCalls = 2
    MaxFaults = 3
INVARIANTS NoWindowLost
PROPERTIES KeepsPromise BatchesEnd
CHECK_DEADLOCK FALSE
