\* A buffered log whose events may be too long to share a segment with a marker.
CONSTANTS
    MaxBytes = 2
    MaxFiles = 2
    MarkerSize = 1
    LineSizes <- LongBuffered
    MaxLines <- LongBufferedLines
    MaxSegment = 4
    MaxFaults = 0
SPECIFICATION Spec
INVARIANTS SealedHoldsAnEvent
CHECK_DEADLOCK FALSE
