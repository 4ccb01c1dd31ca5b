SPECIFICATION Spec
CONSTANTS
  Conn = {"c1"}
  Session = {"s1"}
  MaxJobs = 2
  Kinds = {"analysis", "diff", "candidate", "commit", "push"}
  Writes = 1
  MaxEdits = 2
  MaxAges = 1
  MaxFaults = 1
CHECK_DEADLOCK FALSE
INVARIANTS
  TypeOK
  ProvedPairWasLive
  ExpiryStrandsNothing
  JobLockIsAccountedFor
  OneStagePerSession
PROPERTIES
  JobsEnd
