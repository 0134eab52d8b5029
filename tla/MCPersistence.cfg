CONSTANTS
  Workers = {w1, w2}
  HighTasks = {}
  MidTasks = {}
  LowTasks <- PersistTasks
  PersistenceTasks <- PersistTasks
  Handles = 1
  MaxNotifying = 1
  None = None
  Blobs = {b1}
  Envelopes = {e1}
  Columns = {c1}
  MaxSlot = 3
  LastBlock = 0
  FinalityLag = 2
  HeadAge = 0
  MaxInFlight = 2
  MaxFailures = 1
SPECIFICATION FairPersistenceSpec
INVARIANTS PersistedIsSaved ColumnsSurvive
PROPERTIES ColumnsAreSaved
