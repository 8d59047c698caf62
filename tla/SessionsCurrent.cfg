SPECIFICATION Spec
CONSTANTS
  MaxLives = 2
  MaxLosses = 1
  MaxResets = 0
INVARIANT
  AttachedCurrent
