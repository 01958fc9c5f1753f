CONSTANTS
  NumClips = 4
  Bins = {"b1", "b2"}
  NoBin = "nobin"
  Metas <- MCMetas
  Dedups <- MCDedups
  TargetSize = 2
  MaxTarsPerPart = 1
  MinClipsPerTar = 2
  DropSmallShards = TRUE
  Packers = {"p1", "p2"}
  MaxDeaths = 1
SPECIFICATION LiveSpec
INVARIANTS
  PackedOnce
  ListedIsComplete
  EmbeddingsFit
PROPERTY ShardedInTheEnd
CHECK_DEADLOCK FALSE
