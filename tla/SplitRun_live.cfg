SPECIFICATION LiveSpec
CONSTANTS
  Workers = {w1, w2}
  w1 = w1
  w2 = w2
  Sessions = {1, 2}
  NumChunks <- TwoThenOne
  NumCams = 1
  Clips = {1, 2}
  Filtered = {}
  Encoded = {1}
  Outputs = {"metaGroup", "cdsGroup"}
  Threads = 4
  MaxAttempts = 1
  LocalStore = FALSE
  MultiCam = FALSE
  Limit = 1
  Unreadable = {}
  MaxErrors = 1
  MaxFaults = 0
  MaxCrashes = 1
PROPERTY AllRecorded
INVARIANT GroupExact
