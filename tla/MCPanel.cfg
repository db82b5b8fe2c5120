\* Links: up to two edits of any output, one answer may be lost; the operator edits
\* clients meanwhile.  Lists: every way to write them, and every drift.
SPECIFICATION PanelSpec
CONSTANTS
  AbsoluteThreshold = 64
  RelativeNum = 1
  RelativeDen = 20
  LimitGrace = 30
  Accounts <- Own
  LinkOf <- ThreeProtocols
  DrawOrder <- Order
  SampleCap = 2
  External = TRUE
  Styles <- LinkStyles
  Alterations = {"user", "port", "param", "fewer"}
  Defects = {"port", "user", "scheme", "empty"}
  Busy = TRUE
  MaxEdits = 2
  MaxLost = 1
  Panel <- Panel1
  RowStyles = {"digits", "text", "nested", "capitals", "shouted", "terse", "implied",
               "renamed", "untracked", "typed", "rekeyed"}
  RowDamages = {"settings"}
  RowDrifts = {"network", "security", "protocol", "absent"}
INVARIANTS TypeOK DifferenceExactly SpoiledIsSaid LossIsUnknown StrataCovered
           EncodingIsIrrelevant DriftExactly
PROPERTY RewritingIsNoChange
