SPECIFICATION Spec
CONSTANTS
  Inputs <- AllInputs
  Rate = 4
  BatchStep = 3
  BatchMargin = 1
  ChunkWeight = 3
  MaxSampled = 8
INVARIANTS
  ShotsBecomeClips
  EveryFrameInOneWindow
  FramesMatchWindows
  RatesAgree
CHECK_DEADLOCK FALSE
