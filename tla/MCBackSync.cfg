\* A checkpoint sync at slot 4 or 5, crashes, faults and a lapse.
SPECIFICATION Spec
CONSTANTS
  b0 = b0 b1 = b1 b2 = b2 b4 = b4 b5 = b5 f2 = f2 g0 = g0
  None = None
  Blocks <- MCBlocks
  Chain <- MCChain
  SlotOf <- MCSlotOf
  Parent <- MCParent
  Genesis = b0
  Previous = {f2}
  WithData = {b4}
  Anchors = {b4, b5}
  BadAnswers <- MCBadAnswers
  ServeFrom = 1
  Span = 3
  MaxBatches = 2
  MaxTroubles = 2
INVARIANTS
  HistoryIsCovered
  EarliestIsHeld
  BackSyncedIsComplete
  ArchivedIsComplete
PROPERTIES
  OnlyChainIsStored
  BackSyncEnds
