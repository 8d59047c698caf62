CONSTANTS
  NOwners = 2
  NChunks = 0
  Logs <- CutTwice
  MaxGroup = 2
  Faults = {{"crash"}}
SPECIFICATION Spec
CHECK_DEADLOCK FALSE
INVARIANTS RecordsHonest
