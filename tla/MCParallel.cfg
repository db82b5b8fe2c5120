SPECIFICATION FairSpec
CONSTANTS
  m = m
  n1 = n1
  n2 = n2
  cm = cm
  c1 = c1
  c2 = c2
  Master = m
  Panels <- ThreePanels
  PanelOrder <- ThreeInOrder
  ExpectedGUID <- GUIDs
  MasterNodeGUID <- GUIDs
  PanelConcurrency = 2
  SampleCap = 2
  Worlds <- ParallelWorlds
  MaxFaults <- NoFault
  Cancellable = {1}
  AbsoluteThreshold = 100
  RelativeNum = 1
  RelativeDen = 20
  LimitGrace = 30
INVARIANTS BoundedInFlight BudgetFair
PROPERTIES QuietHandover Termination
\* Termination is what rules a deadlock out here.
CHECK_DEADLOCK FALSE
