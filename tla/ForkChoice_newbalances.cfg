CONSTANTS
  Instances <- BalanceInstances
  SlotsPerEpoch = 2
  BlockSlots = {4, 5}
  Targets = {"current"}
  Validators = {1}
  None = None
  Committee <- EveryValidator
  ProposerScoreBoost = 40
  ReorgWeightThreshold = 20
  MaxSlot = 7
  MaxSkip = 1
  AnyRoot = FALSE
  MaxLate = 0
  MaxBatch = 1
  MaxPtc = 0
SPECIFICATION Spec
INVARIANTS NeverBelowZero
CHECK_DEADLOCK FALSE
