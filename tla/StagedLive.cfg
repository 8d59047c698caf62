CONSTANTS
  NOwners = 2
  NChunks = 0
  Logs <- Live
  MaxGroup = 2
  Faults = {{"loss"}}
SPECIFICATION FairSpec
CHECK_DEADLOCK FALSE
INVARIANTS TypeOK NoShareForgotten  RecordedDurable
PROPERTIES Converges
