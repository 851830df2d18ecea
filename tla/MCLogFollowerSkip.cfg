\* A synchronous log of which every segment is kept.
CONSTANTS
    MaxBytes = 2
    MaxFiles = 3
    MarkerSize = 1
    LineSizes <- Synchronous
    MaxLines <- SynchronousLines
    MaxSegment = 4
    MaxFaults = 0
SPECIFICATION Spec
INVARIANTS NoSegmentSkipped
CHECK_DEADLOCK FALSE
