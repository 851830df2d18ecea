--------------------------- MODULE MCWorkflowRun ---------------------------
(* A step that reports, a worker that takes a job and puts it back when it *)
(* fails, and a gate that reads the report and may send the run back.  One *)
(* job is seeded, two fit, and other runs put and take jobs meanwhile.     *)
EXTENDS StreamConsumers
CONSTANTS jobs, report
MCCapacity == [k \in {jobs, report} |-> 2]
MCReads == <<{}, {jobs}, {report}>>
MCWrites == <<{report}, {}, {}>>
MCWritesOnError == <<{}, {jobs}, {}>>
=============================================================================
