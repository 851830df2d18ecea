CONSTANTS
  Run = {1, 2, 3}
  Past = {1, 2}
  History <- MCHistory
  Outcome = {"ok", "interrupted"}
  operator = operator
  shared = shared
  own = own
  x = x
  y = y
  Operator = operator
  Pid = {x, y}
  LogOf <- MCLogOf
  Buffered = {3}
  Bounds <- MCBounds
  Tolerance = 1
  MaxSegment = 1
  MaxSkew = 1
  MaxPasses = 1
  None = None
  Torn = Torn
SPECIFICATION Spec
INVARIANTS
  EntriesMatchLogs
  RetentionHonoured
  DisplayHonest
PROPERTY LiveRunsKept
CHECK_DEADLOCK FALSE
