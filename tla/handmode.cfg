SPECIFICATION Spec
CONSTANTS
  Creator = "creator"
  Stager = {"s1"}
  Hand = {"h1"}
  Label = {"review"}
  Report = {"report"}
  HandKind <- MCHandKind
  Used <- MCUsed
  Overlap = TRUE
  MaxCalls = 4
  MaxDeaths = 0
CHECK_DEADLOCK FALSE
PROPERTIES
  HandModeAppends
