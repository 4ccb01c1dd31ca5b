SPECIFICATION Spec
CONSTANTS
  Shared = "shared"
  HostOf <- MCHostOf
  WideOf <- MCWideOf
  Scenes <- MCChild
  MaxFails = 0
CHECK_DEADLOCK FALSE
PROPERTIES
  PlannedAgain
