SPECIFICATION Spec
CONSTANTS
  Session = {"c1", "c2", "r1"}
  Worker = {"w1"}
  Requests = {"apply", "review", "reconcile"}
  NoSession = "none"
  Path <- MCPath
  Value <- MCValue
  Scope <- MCScope
  Shared = "shared"
  ScopeOf <- MCScopeOf
  EditValue <- MCEditPolicy
  OwnEdits = FALSE
  Answers = {TRUE, FALSE}
  Acks = {"none", "review", "preguard"}
  CutAnswers = FALSE
  Kind <- MCKind
  Component <- MCComponent
  Forward <- MCForward
  Inverse <- MCInverse
  Before <- MCBefore
  After <- MCAfter
  CompOf <- MCCompOf
  Context <- MCContext
  RefValue <- MCRefValue
  PlanSkipped <- MCPlanSkipped
  Source <- MCSource
  Baseline <- MCBaseline
  Related <- MCRelated
  InitState <- MCRestore
  InitTree <- MCRestoreTree
  MaxEdits = 2
  MaxJobs = 2
  MaxFaults = 1
INVARIANTS
  EvidenceShowsPlan
PROPERTIES
  RestoreAfterSettled
  WritesOnPlannedValue
