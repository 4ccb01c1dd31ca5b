SPECIFICATION Spec
CONSTANTS
  Shared = "shared"
  HostOf <- MCHostOf
  WideOf <- MCWideOf
  Scenes <- MCBoundary
  MaxFails = 0
CHECK_DEADLOCK FALSE
PROPERTIES
  DefaultIsBoundary
