SPECIFICATION Spec
CONSTANTS
  Session = {"c1", "c2"}
  Worker = {"w1", "w2"}
  Requests = {"apply", "commit", "push"}
  NoSession = "none"
  Path <- MCPath
  Value <- MCValue
  Scope <- MCScope
  Shared = "shared"
  ScopeOf <- MCScopeOf
  EditValue <- MCEditValue
  OwnEdits = FALSE
  Answers = {TRUE}
  Acks = {"none"}
  CutAnswers = FALSE
  Kind <- MCKind
  Component <- MCComponent
  Forward <- MCForward
  Inverse <- MCInverse
  Before <- MCBefore
  After <- MCAfter
  CompOf <- MCCompOf
  Context <- MCContext
  RefValue <- MCRefValue
  PlanSkipped <- MCPlanSkipped
  Source <- MCSource
  Baseline <- MCBaseline
  Related <- MCRelated
  InitState <- MCPlanned
  InitTree <- MCPlannedTree
  MaxEdits = 0
  MaxJobs = 2
  MaxFaults = 1
INVARIANTS
  MarkerCoversUnresolved
  OneJobAtATime
  JobsAccounted
  HalfWrittenIsLocked
PROPERTIES
  LedgerKept
