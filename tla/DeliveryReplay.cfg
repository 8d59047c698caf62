CONSTANTS
  ta = ta
  tb = tb
  Tables = {ta}
  Logs <- Short
  Gated = {}
  QueueCap = 1
  Faults = {{"loss", "reconnect"}}
SPECIFICATION FairSpec
PROPERTIES Converges
