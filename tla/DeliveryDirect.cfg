CONSTANTS
  ta = ta
  tb = tb
  Tables = {ta, tb}
  Logs <- TwoTables
  Gated = {}
  QueueCap = 1
  Faults = {{"loss"}}
SPECIFICATION FairSpec
INVARIANTS NothingForgotten FrontierDurable
PROPERTIES Converges 
