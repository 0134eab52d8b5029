CONSTANTS
  Instances <- RejectedInstances
  SlotsPerEpoch = 8
  BlockSlots = {1, 2, 3}
  Targets = {}
  Validators = {1, 2}
  None = None
  Committee <- EveryValidator
  ProposerScoreBoost = 40
  ReorgWeightThreshold = 20
  MaxSlot = 3
  MaxSkip = 1
  AnyRoot = FALSE
  MaxLate = 0
  MaxBatch = 1
  MaxPtc = 0
SPECIFICATION Spec
INVARIANTS DecidedHeadIsGhostHead
CHECK_DEADLOCK FALSE
