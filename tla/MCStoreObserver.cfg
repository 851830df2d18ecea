CONSTANTS
  writing = writing
  queue = queue
  a = a
  b = b
  Process = {writing}
  Key = {queue}
  Value = {a, b}
  QueueSizeMax <- MCQueueSizeMax
  None = None
  Absent = Absent
SYMMETRY MCSymmetry
SPECIFICATION ObserverSpec
INVARIANTS
  ReconstructionExact
  PeekedInOrder
