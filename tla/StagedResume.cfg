CONSTANTS
  NOwners = 2
  NChunks = 1
  Logs <- NoLog
  MaxGroup = 1
  Faults = {{"loss", "crash", "fail"}}
SPECIFICATION FairSpec
CHECK_DEADLOCK FALSE
INVARIANTS RecordsHonest
PROPERTIES Converges
