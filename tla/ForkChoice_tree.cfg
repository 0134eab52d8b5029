CONSTANTS
  Instances <- TreeInstances
  SlotsPerEpoch = 2
  BlockSlots = {4, 5, 7, 9}
  Targets = {"current"}
  Validators = {1}
  None = None
  Committee <- EveryValidator
  ProposerScoreBoost = 40
  ReorgWeightThreshold = 20
  MaxSlot = 10
  MaxSkip = 1
  AnyRoot = FALSE
  MaxLate = 0
  MaxBatch = 1
  MaxPtc = 0
SPECIFICATION Spec
INVARIANTS TreeIsConsistent CheckpointsAreHeld NoPanic
PROPERTIES PruningIsExact
CHECK_DEADLOCK FALSE
