SPECIFICATION Spec
CONSTANTS
  Creator = "creator"
  Stager = {"s1", "s2"}
  Hand = {"h1"}
  Label = {"review"}
  Report = {"report"}
  HandKind <- MCHandKind
  Used <- MCUsed
  Overlap = FALSE
  MaxCalls = 4
  MaxDeaths = 2
CHECK_DEADLOCK FALSE
INVARIANTS
  TypeOK
  RecordedIsThere
  JournalIsChained
  ManifestBehindJournal
  DamageIsLocal
PROPERTIES
  RegisterKept
