CONSTANTS
  NOwners = 2
  NChunks = 2
  Logs <- NoLog
  MaxGroup = 1
  Faults = {{"loss"}}
SPECIFICATION Spec
CHECK_DEADLOCK FALSE
PROPERTIES CommitsWholeCycles
