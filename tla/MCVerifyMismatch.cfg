SPECIFICATION Spec
CONSTANTS
  m = m
  n1 = n1
  n2 = n2
  cm = cm
  c1 = c1
  c2 = c2
  Master = m
  Panels <- TwoPanels
  PanelOrder <- TwoInOrder
  ExpectedGUID <- GUIDs
  MasterNodeGUID <- GUIDs
  PanelConcurrency = 2
  SampleCap = 2
  Worlds <- VerifyWorlds
  MaxFaults <- NoFault
  Cancellable = {}
  AbsoluteThreshold = 100
  RelativeNum = 1
  RelativeDen = 20
  LimitGrace = 30
INVARIANT ProvenMismatchBlocks
