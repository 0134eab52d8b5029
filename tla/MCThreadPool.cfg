CONSTANTS
  Workers = {w1, w2}
  HighTasks = {h1, h2}
  MidTasks = {m1}
  LowTasks = {l1, p1, p2}
  PersistenceTasks = {p1, p2}
  Handles = 2
  MaxNotifying = 2
  None = None
SPECIFICATION FairSpec
INVARIANTS WorkConserving OnePersistenceTask
PROPERTIES HighTasksRun WorkersStop
CHECK_DEADLOCK FALSE
