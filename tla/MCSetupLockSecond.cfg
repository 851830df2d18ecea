SPECIFICATION Spec
CONSTANTS
  r1 = r1
  r2 = r2
  r3 = r3
  a = a
  b = b
  None = None
  Process = {r1, r2}
  Plugin = {a}
  Needs <- MCPairNeeds
  Installs <- MCPairNeeds
  Forced = {}
  MaxCrashes = 0
INVARIANT
  NoSecondInstall
CHECK_DEADLOCK FALSE
