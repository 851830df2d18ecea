CONSTANTS
  p1 = p1
  p2 = p2
  c1 = c1
  c2 = c2
  Caller = {p1, p2}
  Client = {c1, c2}
  None = None
  RetryMax = 1
  QueueSizeMax = 2
  MaxWrites = 3
  MaxDrops = 1
SPECIFICATION Spec
INVARIANTS
  QueueHonest
  ClientTracked
CHECK_DEADLOCK FALSE
PROPERTY CreateAnswered
