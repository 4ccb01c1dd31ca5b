SPECIFICATION Spec
CONSTANTS
  Shared = "shared"
  HostOf <- MCHostOf
  WideOf <- MCWideOf
  Scenes <- MCScenes
  MaxFails = 2
CHECK_DEADLOCK FALSE
INVARIANTS
  TypeOK
  NothingDangles
  OrderKept
  PlansFit
  FindsItsTarget
  UndoFindsItsWay
PROPERTIES
  MeaningKept
  TargetsGone
  ProtectedUntouched
  ChildIsAPlan
  UndoRestores
  RestoreBringsBack
  RestoredMeansTheSame
