SPECIFICATION Spec
CONSTANTS
  None = None
  Unbounded = Unbounded
  Misspelled = Misspelled
  Me = "me"
  Other = "other"
  MyPath = "w.yaml"
  TimeoutMsMax = 7
  MaxRuns = 2
  Key <- MCKey
  KeySize <- MCKeySize
  LegalKey <- MCLegalKey
  ControlFlowPath <- MCControlFlowPath
  ResolvePath <- MCResolvePath
  Contract <- MCContract
  Scenario <- MCScenario
  Produced <- MCProduced
  SiblingBox <- MCSiblingBox
INVARIANTS
  SeedsFit
  OwnershipKept
  BudgetHolds
  VerifyAgreesWithRun
CHECK_DEADLOCK FALSE
