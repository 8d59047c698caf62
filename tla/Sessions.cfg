SPECIFICATION FairSpec
CONSTANTS
  MaxLives = 3
  MaxLosses = 2
  MaxResets = 1
INVARIANTS
  TypeOK
  OnePublished
  LostSuperseded
  EpochBehind
PROPERTY
  Reattaches
