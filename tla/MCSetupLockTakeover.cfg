SPECIFICATION Spec
CONSTANTS
  r1 = r1
  r2 = r2
  r3 = r3
  a = a
  b = b
  None = None
  Process = {r1, r2, r3}
  Plugin = {a, b}
  Needs <- MCNeeds
  Installs <- MCInstalls
  Forced = {}
  MaxCrashes = 1
INVARIANT
  ExclusiveInstall
CHECK_DEADLOCK FALSE
