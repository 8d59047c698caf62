CONSTANTS
  ta = ta
  tb = tb
  Tables = {ta}
  Logs <- OneTable
  Gated = {ta}
  QueueCap = 1
  Faults = {{"loss", "crash"}, {"reconnect"}}
SPECIFICATION Spec
INVARIANTS TypeOK  PositionDurable
