SPECIFICATION Spec
CONSTANTS
  m = m
  n1 = n1
  n2 = n2
  Master = m
  Nodes <- BothNodes
  Interval = 12
  Start <- Counted
  Scenarios <- CountersAndLimits
  AbsoluteThreshold = 1000000
  RelativeNum = 1
  RelativeDen = 20
  LimitGrace = 30
INVARIANTS TypeOK HealthyNotAccused AccumulationCaught DeviationCaught OverdueCaught
