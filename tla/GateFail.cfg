CONSTANTS
  Targets = {a, b}
  Hash = {b}
  Staged = {b}
  MaxItems = 3
  MaxWindows = 2
  ReaderBuf = 1
  GateMax = 1
  CycleMax = 2
  CanFail = TRUE
SPECIFICATION Spec
PROPERTIES OrderKept
INVARIANTS NoStaleRow
