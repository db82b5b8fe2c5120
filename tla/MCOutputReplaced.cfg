SPECIFICATION Spec
CONSTANTS
  a = a
  b = b
  c = c
  Writers <- TwoWriters
  Forced = {b}
  MaxErrors = 0
  MaxLosses = 0
  MaxMeddling = 0
PROPERTY KeepsExisting
CHECK_DEADLOCK FALSE
