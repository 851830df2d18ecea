----------------------------- MODULE RunControl -----------------------------
(***************************************************************************)
(* The course of one run: which state the supervisor and the machine are   *)
(* in, which step is selected and whose result is at hand.  There are no   *)
(* queues, no events and no outcomes: a transaction may succeed or fail,   *)
(* a handler may return, throw or hang, and a control-flow step may answer *)
(* with any step.  Nothing counts, so that a workflow that loops for ever  *)
(* is a behaviour of this module as it is one of the code.  WorkflowRun    *)
(* implements it.                                                          *)
(***************************************************************************)
EXTENDS Integers

CONSTANTS
  StepCount,    \* steps are 1 .. StepCount, the source's index plus one
  ControlFlow,  \* the steps whose contract is a control-flow one
  Bounded       \* the steps that declare a timeoutMs

Step == 1 .. StepCount

VARIABLES
  progress,  \* the supervisor: bootstrapping, seeding, supervising, concluded, rejected
  phase,     \* the machine's state
  todoStep,  \* the step selected
  last,      \* the step whose result the machine holds, or 0
  aborted    \* the AbortSignal has fired

vars == <<progress, phase, todoStep, last, aborted>>

Init ==
  /\ progress = "bootstrapping"
  /\ phase = "idle"
  /\ todoStep = 1
  /\ last = 0
  /\ aborted = FALSE

Over == progress \in {"concluded", "rejected"}

-----------------------------------------------------------------------------
(* The bootstrap. *)

(* The documents, the plugins and the lock are loaded, resolved, checked.  *)
Prepare ==
  /\ progress = "bootstrapping"
  /\ progress' = "seeding"
  /\ UNCHANGED <<phase, todoStep, last, aborted>>

(* A stage fails, the seeding among them. *)
FailBootstrap ==
  /\ progress \in {"bootstrapping", "seeding"}
  /\ progress' = "concluded"
  /\ UNCHANGED <<phase, todoStep, last, aborted>>

OpenStoreThrows ==
  /\ progress = "seeding"
  /\ progress' = "rejected"
  /\ UNCHANGED <<phase, todoStep, last, aborted>>

(* An abort that came during the bootstrap is honoured here. *)
Launch ==
  /\ progress = "seeding"
  /\ IF aborted THEN progress' = "concluded" /\ UNCHANGED phase
                ELSE progress' = "supervising" /\ phase' = "starting"
  /\ UNCHANGED <<todoStep, last, aborted>>

-----------------------------------------------------------------------------
(* The machine. *)

Transition(from, to) ==
  /\ progress = "supervising"
  /\ phase = from
  /\ phase' = to
  /\ UNCHANGED <<progress, aborted>>

(* The definitions are preloaded within the preflight bound, or not. *)
Started ==
  /\ Transition("starting", "selecting") \/ Transition("starting", "stopping")
  /\ UNCHANGED <<todoStep, last>>

(* The next step in order, or the one a control-flow step names. *)
Select ==
  /\ Transition("selecting", "syncingDb")
  /\ \/ last \notin ControlFlow /\ last # StepCount /\ todoStep' = last + 1
     \/ last \in ControlFlow /\ todoStep' \in Step
  /\ UNCHANGED last

(* No step is left, or a control-flow step asked to exit. *)
SelectExit ==
  /\ Transition("selecting", "exiting")
  /\ last = StepCount \/ last \in ControlFlow
  /\ UNCHANGED <<todoStep, last>>

(* A control-flow step asked to fail, or its answer cannot be read. *)
SelectFailed ==
  /\ Transition("selecting", "stopping")
  /\ last # 0
  /\ UNCHANGED <<todoStep, last>>

(* The outputs of the last step are stored and the inputs taken. *)
SyncDone ==
  /\ Transition("syncingDb", "running")
  /\ last' = 0
  /\ UNCHANGED todoStep

SyncFailed ==
  /\ Transition("syncingDb", "exiting")
  /\ UNCHANGED <<todoStep, last>>

(* The handler returned, with a result or a logical error. *)
RunDone ==
  /\ Transition("running", "selecting")
  /\ last' = todoStep
  /\ UNCHANGED todoStep

(* The definition did not load, the input did not validate, or the handler *)
(* threw.                                                                  *)
RunFailed ==
  /\ Transition("running", "exiting")
  /\ UNCHANGED <<todoStep, last>>

RunTimedOut ==
  /\ todoStep \in Bounded
  /\ RunFailed

ExitDone ==
  /\ Transition("exiting", "stopping")
  /\ UNCHANGED <<todoStep, last>>

-----------------------------------------------------------------------------

(* Remembered during the bootstrap; afterwards the machine stops at once.  *)
Abort ==
  /\ ~Over
  /\ ~aborted
  /\ aborted' = TRUE
  /\ phase' = IF progress = "supervising" THEN "stopping" ELSE phase
  /\ UNCHANGED <<progress, todoStep, last>>

Conclude ==
  /\ progress = "supervising"
  /\ phase = "stopping"
  /\ progress' = "concluded"
  /\ UNCHANGED <<phase, todoStep, last, aborted>>

Rest == Over /\ UNCHANGED vars

Bootstrap == Prepare \/ FailBootstrap \/ OpenStoreThrows \/ Launch

Machine ==
  \/ Started
  \/ Select \/ SelectExit \/ SelectFailed
  \/ SyncDone \/ SyncFailed
  \/ RunTimedOut
  \/ ExitDone

Next ==
  \/ Bootstrap
  \/ Machine
  \/ RunDone \/ RunFailed
  \/ Abort \/ Conclude
  \/ Rest

Spec == Init /\ [][Next]_vars
=============================================================================
