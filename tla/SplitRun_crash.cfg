SPECIFICATION Spec
CONSTANTS
  Workers = {w1, w2}
  w1 = w1
  w2 = w2
  Sessions = {1}
  NumChunks <- TwoChunks
  NumCams = 1
  Clips = {1, 2}
  Filtered = {2}
  Encoded = {1, 2}
  Outputs = {"mp4", "mp4Filtered"}
  Threads = 4
  MaxAttempts = 2
  LocalStore = TRUE
  MultiCam = FALSE
  Limit = 0
  Unreadable = {}
  MaxErrors = 0
  MaxFaults = 2
  MaxCrashes = 1
SYMMETRY WorkerSymmetry
INVARIANTS RecordAfterClips SkippedIsWritten ReturnAccountsForAll
PROPERTY RecordWrittenOnce
