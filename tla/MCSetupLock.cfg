SPECIFICATION FairSpec
CONSTANTS
  r1 = r1
  r2 = r2
  r3 = r3
  a = a
  b = b
  None = None
  Process = {r1, r2, r3}
  Plugin = {a, b}
  Needs <- MCNeeds
  Installs <- MCInstalls
  Forced = {r3}
  MaxCrashes = 2
INVARIANTS
  TypeOK
  OverlapNeedsTheft
  LockHasAnOwner
  SuccessIsProvisioned
PROPERTY
  SetupEnds
CHECK_DEADLOCK FALSE
