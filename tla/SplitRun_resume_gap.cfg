SPECIFICATION Spec
CONSTANTS
  Workers = {w1, w2}
  w1 = w1
  w2 = w2
  Sessions = {1}
  NumChunks <- TwoChunks
  NumCams = 1
  Clips = {1}
  Filtered = {}
  Encoded = {1}
  Outputs = {"mp4", "embGroup", "metaGroup"}
  Threads = 4
  MaxAttempts = 2
  LocalStore = FALSE
  MultiCam = FALSE
  Limit = 0
  Unreadable = {}
  MaxErrors = 0
  MaxFaults = 0
  MaxCrashes = 1
SYMMETRY WorkerSymmetry
INVARIANT ResumedIsComplete
