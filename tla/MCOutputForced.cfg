SPECIFICATION Spec
CONSTANTS
  a = a
  b = b
  c = c
  Writers <- ThreeWriters
  Forced = {b, c}
  MaxErrors = 1
  MaxLosses = 1
  MaxMeddling = 1
INVARIANT NeverTorn
\* The system stops when every writer has returned.
CHECK_DEADLOCK FALSE
