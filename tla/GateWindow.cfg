CONSTANTS
  Targets = {a, c}
  Hash = {a}
  Staged = {a}
  MaxItems = 4
  MaxWindows = 1
  ReaderBuf = 1
  GateMax = 1
  CycleMax = 2
  CanFail = FALSE
SPECIFICATION FairSpec
INVARIANTS TypeOK NoneSkipped HeldWithinBounds
PROPERTIES TagWindowLive EveryBatchSent CatchUpEnds
