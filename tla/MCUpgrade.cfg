SPECIFICATION Spec
CONSTANTS
  m = m
  n1 = n1
  n2 = n2
  cm = cm
  c1 = c1
  cl = cl
  cd = cd
  Master = m
  Panels <- AllPanels
  PanelOrder <- InOrder
  ExpectedGUID <- GUIDs
  MasterNodeGUID <- GUIDs
  PanelConcurrency = 2
  Worlds <- AllWorlds
  Clusters <- BothScenarios
  Starts <- BothStarts
  Moves <- Upgrades
  Arguments <- AllArguments
  DrawOrder <- AnyOrder
  Bounds <- BothBounds
  AbsoluteThreshold = 100
  RelativeNum = 1
  RelativeDen = 20
  LimitGrace = 30
INVARIANTS TypeOK ReadyMeansUnchanged NoFalseRegression DeliveredOrSaid
PROPERTY BaselineSurvivesVerify
\* The system stops when the runs are used up.
CHECK_DEADLOCK FALSE
