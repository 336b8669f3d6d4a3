SPECIFICATION Spec
CONSTANTS
  MissGrace = 2
  IgnHintAfter = 2
  SlabsTries = 2
  SpillMax = 2
  Chunk = 1
  MaxSeconds = 2
  MaxCalls = 2
  MaxBoots = 1
INVARIANTS
  TypeOK
  SecondsAreKept
  RecoveryInitAfterSilence
PROPERTIES
  RecoverySettles
CHECK_DEADLOCK FALSE
