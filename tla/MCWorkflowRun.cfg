CONSTANTS
  jobs = jobs
  report = report
  StepCount = 3
  ControlFlow = {3}
  Bounded = {1}
  Key = {jobs, report}
  Capacity <- MCCapacity
  Reads <- MCReads
  Writes <- MCWrites
  WritesOnError <- MCWritesOnError
  Seeded = {jobs}
  Shared = {jobs}
  MaxIteration = 3
  None = None
SPECIFICATION FairSpec
INVARIANTS
  TypeOK
  StreamWellFormed
  ConclusionHonest
  StoredInOrder
  DeliveredOnce
  NothingLostSilently
  ConsumersAgree
PROPERTIES
  StopIsFinal
  AbortEnds
  EndsUnlessHungOrLooping
  ImplementsRunControl
