SPECIFICATION FairSpec
CONSTANTS
  Calls = {c1, c2}
  Roots = {r1}
  Slots = {1, 2}
  Entries = {e1, e2}
  None = None
INVARIANTS
  NoStateIsLost
PROPERTIES
  ImplementsAtomicCache
  CallsReturn
