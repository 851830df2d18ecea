--------------------------- MODULE MCLogFollower ---------------------------
(* Small instances of LogFollower: both modes; a buffered log whose events    *)
(* can be longer than a segment can hold behind its marker; a short one.      *)
EXTENDS LogFollower

BothModes      == [sync |-> {1, 2}, async |-> {1}]
BothModesLines == [sync |-> 3, async |-> 5]

LongBuffered      == [async |-> {1, 2}]
LongBufferedLines == [async |-> 2]

Synchronous      == [sync |-> {1, 2}]
SynchronousLines == [sync |-> 3]
=============================================================================
