CONSTANTS
  NOwners = 2
  NChunks = 0
  Logs <- Cut
  MaxGroup = 1
  Faults = {{"loss", "crash", "fail"}, {"crash", "reconnect"}}
SPECIFICATION Spec
CHECK_DEADLOCK FALSE
PROPERTIES CommitsWholeCycles
