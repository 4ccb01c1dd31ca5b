SPECIFICATION Spec
CONSTANTS
  Session = {"c1"}
  Worker = {"w1"}
  Requests = {"apply", "review", "commit", "push"}
  NoSession = "none"
  Path <- MCPath
  Value <- MCValue
  Scope <- MCScope
  Shared = "shared"
  ScopeOf <- MCScopeOf
  EditValue <- MCEditValue
  OwnEdits = FALSE
  Answers = {TRUE, FALSE}
  Acks = {"none", "review", "preguard"}
  CutAnswers = TRUE
  Kind <- MCKind
  Component <- MCComponent
  Forward <- MCForward
  Inverse <- MCInverse
  Before <- MCBefore
  After <- MCAfter
  CompOf <- MCCompOf
  Context <- MCContext
  RefValue <- MCRefValue
  PlanSkipped <- MCPlanSkipped
  Source <- MCSource
  Baseline <- MCBaseline
  Related <- MCRelated
  InitState <- MCPlanned
  InitTree <- MCPlannedTree
  MaxEdits = 0
  MaxJobs = 2
  MaxFaults = 0
INVARIANTS
  JobsAccounted
