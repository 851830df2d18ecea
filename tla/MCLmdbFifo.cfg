CONSTANTS
  p1 = p1
  p2 = p2
  narrow = narrow
  wide = wide
  a = a
  b = b
  Process = {p1, p2}
  Key = {narrow, wide}
  Value = {a, b}
  QueueSizeMax <- MCQueueSizeMax
  None = None
  Absent = Absent
SYMMETRY MCSymmetry
SPECIFICATION Spec
INVARIANTS
  TypeOK
  SlotsMatchCursors
PROPERTY ImplementsBoundedQueue
