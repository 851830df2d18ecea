\* maxBytes 3: a rolled segment holds its marker and two short events or a long
\* one; what is longer than it can hold is the business of MCLogFollowerLong.
CONSTANTS
    MaxBytes = 3
    MaxFiles = 1
    MarkerSize = 1
    LineSizes <- BothModes
    MaxLines <- BothModesLines
    MaxSegment = 4
    MaxFaults = 2
SPECIFICATION Spec
INVARIANTS TypeOK SealedInOrder KeptFiles DeliveredOnce BegunIsFinished
PROPERTIES SealedIsFinal RunEndIsDurable FollowerCatchesUp
CHECK_DEADLOCK FALSE
