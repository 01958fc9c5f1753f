CONSTANTS
  Video = {"v1"}
  NumChunks = 2
  MaxRuns = 3
  MaxRepeats = 1
SPECIFICATION Spec
INVARIANTS
  CommittedOnce
  ArchivedIsCommitted
  StagedIsCommitted
  SummaryIsComplete
CHECK_DEADLOCK FALSE
