SPECIFICATION Spec
CONSTANTS
  a = a
  b = b
  c = c
  Writers <- ThreeWriters
  Forced = {}
  MaxErrors = 2
  MaxLosses = 1
  MaxMeddling = 0
INVARIANTS TypeOK NoReservationLeft
PROPERTY KeepsPromise
\* The system stops when every writer has returned.
CHECK_DEADLOCK FALSE
