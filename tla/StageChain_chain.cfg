CONSTANTS
  Clip = {"c1", "c2"}
  Window = {"w1", "w2"}
  Configs <- AllConfigs
SPECIFICATION Spec
INVARIANTS
  ClipAccounting
  FramesMatchConsumers
  MissingHasReason
  EvidenceKeptByPrep
  JudgesSeeCaptions
  OnlyOwnFaultsRaise
  NoFalsePrepFailure
CHECK_DEADLOCK FALSE
