CONSTANTS
  Instances <- VoteInstances
  SlotsPerEpoch = 2
  BlockSlots = {4, 5, 7}
  Targets = {"current"}
  Validators = {1}
  None = None
  Committee <- EveryValidator
  ProposerScoreBoost = 40
  ReorgWeightThreshold = 20
  MaxSlot = 8
  MaxSkip = 1
  AnyRoot = FALSE
  MaxLate = 0
  MaxBatch = 1
  MaxPtc = 1
SPECIFICATION Spec
INVARIANTS BalancesMatchVotes PayloadBalancesMatchVotes HeadIsCurrent
CHECK_DEADLOCK FALSE
