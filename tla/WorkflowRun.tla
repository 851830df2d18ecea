---------------------------- MODULE WorkflowRun ----------------------------
(***************************************************************************)
(* One run of a workflow, from runWorkflowInstance to its conclusion: the  *)
(* bootstrap stages, the state machine that selects, feeds and runs steps, *)
(* the store transactions between two steps, the event producer that       *)
(* watches the machine, and the abort signal of an operator.               *)
(*                                                                         *)
(* The queues are those of BoundedQueue: a transaction puts the outputs of *)
(* the step before and takes the inputs of the step after, or does neither.*)
(* Other runs share them (PeerPuts, PeerTakes).  A transaction runs, and   *)
(* commits, while its machine state is being entered; the machine learns   *)
(* the outcome (verdict) later, and an abort can come in between.          *)
(*                                                                         *)
(* RunControl is the course of a run without its queues and events: this   *)
(* module implements it.                                                   *)
(***************************************************************************)
EXTENDS Integers, Sequences, FiniteSets, SequencesExt

CONSTANTS
  StepCount,      \* steps are 1 .. StepCount, the source's index plus one
  ControlFlow,    \* the steps whose contract is a control-flow one
  Bounded,        \* the steps that declare a timeoutMs
  Key,            \* the queues the steps share
  Capacity,       \* Capacity[k]: how many entries queue k holds
  Reads,          \* Reads[i]: the queues step i takes an input from
  Writes,         \* Writes[i]: the queues step i puts its outputs in
  WritesOnError,  \* WritesOnError[i]: the queues for its error record
  Seeded,         \* the queues the workflow's seed data is put in
  Shared,         \* the queues other runs put in and take from meanwhile
  MaxIteration,   \* bound: how often a control-flow step may jump to one step
  None

Step == 1 .. StepCount

(* One execution of one step: what an event's step object identifies. *)
Execution == [index : Step, iteration : Nat]

(* What a queue holds: the output of an execution of this run, or an entry *)
(* of the seed data or of another run.                                     *)
SeedEntry == [index |-> 0, iteration |-> 0]
PeerEntry == [index |-> 0, iteration |-> 1]
Entry == Execution \cup {SeedEntry, PeerEntry}

(* What a handler that returned leaves in doneStep: the contents for the   *)
(* step's output (or error) boxes, and the label of a control-flow step.   *)
(* An unstorable record is one a key or value size guard refuses.          *)
Logical == "logical error"
Result == {"value", Logical, "exit", "fail", "unknown label", "jump"}
DoneStep == [step : Execution, result : Result, target : Step, storable : BOOLEAN]

(* A step's boxes are queues with room for one entry at least. *)
ASSUME WorkflowAssumption ==
  /\ StepCount \in Nat \ {0}
  /\ Capacity \in [Key -> Nat \ {0}]
  /\ Reads \in [Step -> SUBSET Key]
  /\ Writes \in [Step -> SUBSET Key] /\ WritesOnError \in [Step -> SUBSET Key]
  /\ Seeded \subseteq Key /\ Shared \subseteq Key
  /\ None \notin Execution \cup DoneStep \cup {"ok", "err", "error", "timeout"}

Stage == <<"workspace", "workflow", "seed-override", "lock", "resolve",
           "seed-validation", "store">>

VARIABLES
  progress,   \* the supervisor: bootstrapping, seeding, supervising, and then
              \* concluded, or rejected when it threw
  stage,      \* the bootstrap stage under way, an index of Stage
  phase,      \* the machine's state
  todoStep,   \* the step selected: its index, or None
  doneStep,   \* the result whose outputs are not stored yet, or None
  inputs,     \* what the last store transaction took for todoStep
  verdict,    \* the outcome the invoked store transaction settled with
  error,      \* the machine's context.error: None, "error" or "timeout"
  queue,      \* queue[k]: the committed contents of queue k, oldest first
  inFlight,   \* the producer's step in flight, or None
  iteration,  \* iteration[i]: the producer's next iteration of step i
  stream,     \* the events emitted, oldest first
  aborted,    \* the AbortSignal has fired
  interrupted,\* the supervisor has acted on it (markInterrupted)
  completed,  \* history: the executions that left a doneStep, in order
  stored      \* history: the executions whose outputs were committed

machineVars == <<phase, todoStep, doneStep, inputs, verdict, error>>
producerVars == <<inFlight, iteration, stream>>
signalVars == <<aborted, interrupted>>
vars == <<progress, stage, machineVars, queue, producerVars, signalVars,
          completed, stored>>

Init ==
  /\ progress = "bootstrapping"
  /\ stage = 1
  /\ phase = "idle"
  /\ todoStep = 1
  /\ doneStep = None
  /\ inputs = <<>>
  /\ verdict = None
  /\ error = None
  /\ queue \in {q \in [Key -> {<<>>, <<PeerEntry>>}] : \A k \in Key \ Shared : q[k] = <<>>}
  /\ inFlight = None
  /\ iteration = [i \in Step |-> 0]
  /\ stream = <<>>
  /\ aborted = FALSE
  /\ interrupted = FALSE
  /\ completed = <<>>
  /\ stored = <<>>

(* The promise of the run has settled, its sinks are closed. *)
Over == progress \in {"concluded", "rejected"}

-----------------------------------------------------------------------------
(* The event producer. *)

Emitted(kind) == \E i \in DOMAIN stream : stream[i].event = kind
StartOf(s) == [event |-> "step.start", step |-> s, inputs |-> inputs']
EndOf(outcome) == [event |-> "step.end", step |-> inFlight, outcome |-> outcome]

StepsEnded(events) == Cardinality({i \in DOMAIN events : events[i].event = "step.end"})
StepsFailed(events) ==
  Cardinality({i \in DOMAIN events : events[i].event = "step.end" /\ events[i].outcome # "ok"})

(* Ends a run that never started, and ends one twice. *)
EndedAlways(events, outcome) ==
  Append(events, [event |-> "run.end", outcome |-> outcome,
                  stepsTotal |-> StepsEnded(events), stepsFailed |-> StepsFailed(events)])

(* end: only a started run gets a run.end, and only one.  A step still in  *)
(* flight is abandoned by an interruption and reported failed otherwise.   *)
Ended(events, outcome) ==
  IF ~Emitted("run.start") \/ Emitted("run.end") THEN events
  ELSE LET closed == IF inFlight # None /\ outcome # "interrupted"
                     THEN Append(events, EndOf("error")) ELSE events
       IN Append(closed, [event |-> "run.end", outcome |-> outcome,
                          stepsTotal |-> StepsEnded(closed), stepsFailed |-> StepsFailed(closed)])

BeginStep ==
  LET s == [index |-> todoStep', iteration |-> iteration[todoStep']]
  IN /\ inFlight' = s
     /\ iteration' = [iteration EXCEPT ![todoStep'] = @ + 1]
     /\ stream' = Append(stream, StartOf(s))

(* An interrupted step gets no step.end; one that left a doneStep ends as  *)
(* it says, any other with the machine's error.                            *)
FinishStep ==
  /\ inFlight' = None
  /\ UNCHANGED iteration
  /\ stream' =
       IF interrupted' THEN stream
       ELSE IF doneStep' # None /\ doneStep'.step.index = inFlight.index
            THEN Append(stream, EndOf(IF doneStep'.result = Logical THEN "error" ELSE "ok"))
            ELSE Append(stream, EndOf(error'))

(* The producer sees the machine's snapshot after every transition. *)
Observe ==
  \/ phase # "running" /\ phase' = "running" /\ BeginStep
  \/ phase = "running" /\ phase' # "running" /\ FinishStep
  \/ (phase = "running" <=> phase' = "running") /\ UNCHANGED producerVars

-----------------------------------------------------------------------------
(* The store transactions.  Put(q, ks, e) appends e to the queues of ks.   *)

OutputKeys(d) == IF d.result = Logical THEN WritesOnError[d.step.index]
                                       ELSE Writes[d.step.index]
Put(q, ks, e) == [k \in Key |-> IF k \in ks THEN Append(q[k], e) ELSE q[k]]

(* Puts into a full queue. *)
CanPutAnyway(ks) == \A k \in ks : Len(queue[k]) <= Capacity[k]

CanPut(ks) == \A k \in ks : Len(queue[k]) < Capacity[k]

(* The boxes of doneStep can all be written; without one there are none. *)
CanStore(d) == d # None => d.storable /\ CanPut(OutputKeys(d))
AfterStore(d) == IF d = None THEN queue ELSE Put(queue, OutputKeys(d), d.step)
StoredWith(d) == IF d = None THEN stored ELSE Append(stored, d.step)

(* Step i can be fed from the queues q, and what it then takes and leaves. *)
CanFeed(i, q) == \A k \in Reads[i] : q[k] # <<>>
Taken(i, q) == [k \in Reads[i] |-> Head(q[k])]
AfterFeeding(i, q) == [k \in Key |-> IF k \in Reads[i] THEN Tail(q[k]) ELSE q[k]]

(* Keeps the puts of a transaction whose gets fail. *)
SyncDataKeepingPuts(i, d) ==
  \/ /\ CanStore(d) /\ CanFeed(i, AfterStore(d))
     /\ queue' = AfterFeeding(i, AfterStore(d))
     /\ inputs' = Taken(i, AfterStore(d))
     /\ stored' = StoredWith(d)
     /\ verdict' = "ok"
  \/ /\ CanStore(d) /\ ~CanFeed(i, AfterStore(d))
     /\ queue' = AfterStore(d)
     /\ verdict' = "err"
     /\ UNCHANGED <<inputs, stored>>
  \/ /\ ~CanStore(d)
     /\ verdict' = "err"
     /\ UNCHANGED <<queue, inputs, stored>>

(* syncData, entered with step i selected: the outputs of the step before  *)
(* and the inputs of step i in one transaction.                            *)
SyncData(i, d) ==
  LET able == CanStore(d) /\ CanFeed(i, AfterStore(d))
  IN \/ /\ able
        /\ queue' = AfterFeeding(i, AfterStore(d))
        /\ inputs' = Taken(i, AfterStore(d))
        /\ stored' = StoredWith(d)
        /\ verdict' = "ok"
     \/ /\ ~able
        /\ verdict' = "err"
        /\ UNCHANGED <<queue, inputs, stored>>

(* exitFunc: the outputs of the last step, alone. *)
ExitStore(d) ==
  \/ /\ CanStore(d)
     /\ queue' = AfterStore(d)
     /\ stored' = StoredWith(d)
     /\ verdict' = "ok"
     /\ UNCHANGED inputs
  \/ /\ ~CanStore(d)
     /\ verdict' = "err"
     /\ UNCHANGED <<queue, inputs, stored>>

-----------------------------------------------------------------------------
(* The bootstrap.  A failure emits bootstrap.error and ends the run.       *)

Failed(events) == Append(events, [event |-> "bootstrap.error"])

(* run.start is emitted once the documents have given the run its names,   *)
(* which is after the seed overrides are applied.                          *)
PassStage ==
  /\ progress = "bootstrapping"
  /\ IF stage = Len(Stage) THEN progress' = "seeding" /\ UNCHANGED stage
                           ELSE stage' = stage + 1 /\ UNCHANGED progress
  /\ stream' = IF Stage[stage] = "seed-override"
               THEN Append(stream, [event |-> "run.start"]) ELSE stream
  /\ UNCHANGED <<machineVars, queue, inFlight, iteration, signalVars,
                 completed, stored>>

FailStage ==
  /\ progress = "bootstrapping"
  /\ progress' = "concluded"
  /\ stream' = Ended(Failed(stream), "error")
  /\ UNCHANGED <<stage, machineVars, queue, inFlight, iteration, signalVars,
                 completed, stored>>

(* LMDB cannot open the environment: the exception passes through to the   *)
(* caller, and no event tells of it.                                       *)
OpenStoreThrows ==
  /\ progress = "seeding"
  /\ progress' = "rejected"
  /\ UNCHANGED <<stage, machineVars, queue, producerVars, signalVars,
                 completed, stored>>

(* The store is open.  Seeding is one transaction, after which an abort is *)
(* honoured before the machine starts.                                     *)
SeedAndLaunch ==
  /\ progress = "seeding"
  /\ CanPut(Seeded)
  /\ queue' = Put(queue, Seeded, SeedEntry)
  /\ LET seeded == IF Seeded = {} THEN stream
                   ELSE Append(stream, [event |-> "storage.seed"])
     IN \/ /\ aborted
           /\ progress' = "concluded"
           /\ stream' = Ended(seeded, "interrupted")
           /\ UNCHANGED phase
        \/ /\ ~aborted
           /\ progress' = "supervising"
           /\ phase' = "starting"
           /\ stream' = seeded
  /\ UNCHANGED <<stage, todoStep, doneStep, inputs, verdict, error, inFlight,
                 iteration, signalVars, completed, stored>>

SeedFails ==
  /\ progress = "seeding"
  /\ Seeded # {}
  /\ progress' = "concluded"
  /\ stream' = Ended(Failed(stream), "error")
  /\ UNCHANGED <<stage, machineVars, queue, inFlight, iteration, signalVars,
                 completed, stored>>

-----------------------------------------------------------------------------
(* The machine.  Every transition is watched by the producer.              *)

Transition(from, to) ==
  /\ progress = "supervising"
  /\ phase = from
  /\ phase' = to
  /\ UNCHANGED <<progress, stage, signalVars>>

StartDone ==
  /\ Transition("starting", "selecting")
  /\ UNCHANGED <<todoStep, doneStep, inputs, verdict, error, queue, completed,
                 stored>>
  /\ Observe

(* A boundary, type, preload or seed check failed, or preloading took more *)
(* than the preflight bound.                                               *)
StartFailed ==
  /\ Transition("starting", "stopping")
  /\ error' \in {"error", "timeout"}
  /\ UNCHANGED <<todoStep, doneStep, inputs, verdict, queue, completed, stored>>
  /\ Observe

(* The step selectFunc answers: 0 stands for its null. *)
Selected ==
  IF doneStep = None THEN 1
  ELSE IF doneStep.step.index \notin ControlFlow
       THEN IF doneStep.step.index < StepCount THEN doneStep.step.index + 1 ELSE 0
       ELSE IF doneStep.result = "exit" THEN 0 ELSE doneStep.target

(* A control-flow step that asks to fail, names no step, or has returned a *)
(* logical error and so has no label to read.                              *)
Unselectable ==
  /\ doneStep # None
  /\ doneStep.step.index \in ControlFlow
  /\ doneStep.result \in {"fail", "unknown label", Logical}

SelectStep ==
  /\ Transition("selecting", "syncingDb")
  /\ ~Unselectable /\ Selected # 0
  /\ todoStep' = Selected
  /\ SyncData(Selected, doneStep)
  /\ UNCHANGED <<doneStep, error, completed>>
  /\ Observe

SelectExit ==
  /\ Transition("selecting", "exiting")
  /\ ~Unselectable /\ Selected = 0
  /\ ExitStore(doneStep)
  /\ UNCHANGED <<todoStep, doneStep, error, completed>>
  /\ Observe

(* Also when the contract of the done step cannot be loaded. *)
SelectFailed ==
  /\ Transition("selecting", "stopping")
  /\ doneStep # None
  /\ error' = "error"
  /\ UNCHANGED <<todoStep, doneStep, inputs, verdict, queue, completed, stored>>
  /\ Observe

(* Forgets to clear doneStep once its outputs are stored. *)
SyncDoneKeepingDone ==
  /\ Transition("syncingDb", "running")
  /\ verdict = "ok"
  /\ UNCHANGED <<todoStep, doneStep, inputs, verdict, error, queue, completed,
                 stored>>
  /\ Observe

SyncDone ==
  /\ Transition("syncingDb", "running")
  /\ verdict = "ok"
  /\ doneStep' = None
  /\ UNCHANGED <<todoStep, inputs, verdict, error, queue, completed, stored>>
  /\ Observe

(* Selects again, and so waits for ever for an input that never comes. *)
SyncFailedRetrying ==
  /\ Transition("syncingDb", "selecting")
  /\ verdict = "err"
  /\ UNCHANGED <<todoStep, doneStep, inputs, verdict, error, queue, completed,
                 stored>>
  /\ Observe

(* The outputs that could not be stored with the inputs are tried alone.   *)
SyncFailed ==
  /\ Transition("syncingDb", "exiting")
  /\ verdict = "err"
  /\ ExitStore(doneStep)
  /\ error' = "error"
  /\ UNCHANGED <<todoStep, doneStep, completed>>
  /\ Observe

(* The handler returned.  That no step is jumped to once it has run        *)
(* MaxIteration times is a bound of this model: the code has no such limit *)
(* and RunControl none either.                                             *)
RunDone(d) ==
  /\ Transition("running", "selecting")
  /\ d.step = inFlight
  /\ d.result \in IF todoStep \in ControlFlow THEN Result \ {"value"} ELSE {"value", Logical}
  /\ d.result = "jump" => iteration[d.target] < MaxIteration
  /\ d.result # "jump" => d.target = 1
  /\ doneStep' = d
  /\ completed' = Append(completed, d.step)
  /\ UNCHANGED <<todoStep, inputs, verdict, error, queue, stored>>
  /\ Observe

(* The definition did not load, the input did not validate, or the handler *)
(* threw.                                                                  *)
RunFailed ==
  /\ Transition("running", "exiting")
  /\ ExitStore(doneStep)
  /\ error' = "error"
  /\ UNCHANGED <<todoStep, doneStep, completed>>
  /\ Observe

RunTimedOut ==
  /\ Transition("running", "exiting")
  /\ todoStep \in Bounded
  /\ ExitStore(doneStep)
  /\ error' = "timeout"
  /\ UNCHANGED <<todoStep, doneStep, completed>>
  /\ Observe

(* Overwrites the error the run already had. *)
ExitDoneForgetting ==
  /\ Transition("exiting", "stopping")
  /\ error' = IF verdict = "err" THEN "error" ELSE None
  /\ UNCHANGED <<todoStep, doneStep, inputs, verdict, queue, completed, stored>>
  /\ Observe

(* Takes the answer of the last transaction for a success. *)
ExitDoneUnchecked ==
  /\ Transition("exiting", "stopping")
  /\ UNCHANGED <<todoStep, doneStep, inputs, verdict, error, queue, completed,
                 stored>>
  /\ Observe

(* The last transaction has settled; its error, if any, is the run's. *)
ExitDone ==
  /\ Transition("exiting", "stopping")
  /\ error' = IF verdict = "err" THEN "error" ELSE error
  /\ UNCHANGED <<todoStep, doneStep, inputs, verdict, queue, completed, stored>>
  /\ Observe

-----------------------------------------------------------------------------
(* The operator, the supervisor's end, and the other runs.                 *)

(* Marks the run interrupted and waits for the machine to stop by itself. *)
AbortWithoutStop ==
  /\ ~Over
  /\ ~aborted
  /\ aborted' = TRUE
  /\ interrupted' = (progress = "supervising")
  /\ UNCHANGED <<phase, producerVars>>
  /\ UNCHANGED <<progress, stage, todoStep, doneStep, inputs, verdict, error,
                 queue, completed, stored>>

(* While the bootstrap lasts the signal is only remembered; afterwards the *)
(* machine is stopped at once, whatever it is doing.                       *)
Abort ==
  /\ ~Over
  /\ ~aborted
  /\ aborted' = TRUE
  /\ interrupted' = (progress = "supervising")
  /\ IF progress = "supervising" THEN phase' = "stopping" /\ Observe
                                 ELSE UNCHANGED <<phase, producerVars>>
  /\ UNCHANGED <<progress, stage, todoStep, doneStep, inputs, verdict, error,
                 queue, completed, stored>>

Outcome == IF interrupted THEN "interrupted"
           ELSE IF error # None THEN error ELSE "ok"

Conclude ==
  /\ progress = "supervising"
  /\ phase = "stopping"
  /\ progress' = "concluded"
  /\ stream' = Ended(stream, Outcome)
  /\ inFlight' = None
  /\ UNCHANGED <<stage, machineVars, queue, iteration, signalVars, completed,
                 stored>>

PeerPuts(k) ==
  /\ ~Over
  /\ Len(queue[k]) < Capacity[k]
  /\ queue' = [queue EXCEPT ![k] = Append(@, PeerEntry)]
  /\ UNCHANGED <<progress, stage, machineVars, producerVars, signalVars,
                 completed, stored>>

PeerTakes(k) ==
  /\ ~Over
  /\ queue[k] # <<>>
  /\ queue' = [queue EXCEPT ![k] = Tail(@)]
  /\ UNCHANGED <<progress, stage, machineVars, producerVars, signalVars,
                 completed, stored>>

(* A run that is over does nothing more. *)
Rest == Over /\ UNCHANGED vars

Machine ==
  \/ StartDone \/ StartFailed
  \/ SelectStep \/ SelectExit \/ SelectFailed
  \/ SyncDone \/ SyncFailed
  \/ RunTimedOut
  \/ ExitDone

Handler ==
  \/ RunFailed
  \/ \E s \in {inFlight} \ {None}, r \in Result, t \in Step, b \in BOOLEAN :
       RunDone([step |-> s, result |-> r, target |-> t, storable |-> b])

Next ==
  \/ PassStage \/ FailStage \/ OpenStoreThrows \/ SeedAndLaunch \/ SeedFails
  \/ Machine \/ Handler
  \/ Abort \/ Conclude
  \/ \E k \in Shared : PeerPuts(k) \/ PeerTakes(k)
  \/ Rest

Spec == Init /\ [][Next]_vars

(* Everything but a handler, the operator and the other runs is a          *)
(* continuation the event loop gets to: a bounded step's timer fires, a    *)
(* bootstrap stage returns.  A handler without a timeout may never return. *)
FairSpec ==
  /\ Spec
  /\ WF_vars(PassStage \/ FailStage)
  /\ WF_vars(OpenStoreThrows \/ SeedAndLaunch \/ SeedFails)
  /\ WF_vars(Machine)
  /\ WF_vars(Conclude)

-----------------------------------------------------------------------------

Indices(kind) == {i \in DOMAIN stream : stream[i].event = kind}

(* TypeOK: what every variable holds. *)
TypeOK ==
  /\ progress \in {"bootstrapping", "seeding", "supervising", "concluded", "rejected"}
  /\ stage \in DOMAIN Stage
  /\ phase \in {"idle", "starting", "selecting", "syncingDb", "running", "exiting", "stopping"}
  /\ todoStep \in Step
  /\ doneStep \in DoneStep \cup {None}
  /\ verdict \in {None, "ok", "err"}
  /\ error \in {None, "error", "timeout"}
  /\ \A k \in Key : queue[k] \in Seq(Entry) /\ Len(queue[k]) <= Capacity[k]
  /\ inFlight \in Execution \cup {None}
  /\ iteration \in [Step -> Nat]
  /\ completed \in Seq(Execution) /\ stored \in Seq(Execution)
  /\ aborted \in BOOLEAN /\ interrupted \in BOOLEAN

(* StreamWellFormed: the stream of a run reads as one run.  run.start      *)
(* comes first of the events that need a run, each step.end closes the     *)
(* step.start right before it and a step left open is the last, no two     *)
(* executions share an index and iteration, and a run.end is final, closes *)
(* a started run only, and counts the step.end events before it.           *)
StreamWellFormed ==
  /\ \A i \in Indices("step.end") :
       stream[i - 1].event = "step.start" /\ stream[i - 1].step = stream[i].step
  /\ \A i, j \in Indices("step.start") :
       /\ i < j => stream[i + 1].event = "step.end" /\ stream[i].step # stream[j].step
       /\ i < Len(stream) => stream[i + 1].event \in {"step.end", "run.end"}
  /\ \A i \in Indices("run.end") :
       /\ i = Len(stream) /\ Emitted("run.start")
       /\ stream[i].stepsTotal = Cardinality(Indices("step.end"))
  /\ \A i \in Indices("step.start") : \E j \in Indices("run.start") : j < i
  /\ inFlight # None <=>
       progress = "supervising" /\ stream[Len(stream)].event = "step.start" /\ ~interrupted

(* ConclusionHonest: a concluded run that started has said how it ended:   *)
(* interrupted exactly when the operator's signal was acted on, a failure  *)
(* when a stage or the machine failed, and a bound that expired on the     *)
(* last step is still the reason the run gives, whatever exiting did.  The *)
(* one exception is a store that cannot be opened: run.start is then the   *)
(* last that is heard of the run.                                          *)
ConclusionHonest ==
  /\ progress = "concluded" /\ Emitted("run.start") =>
       LET last == stream[Len(stream)]
       IN /\ last.event = "run.end"
          /\ last.outcome = "interrupted" => aborted
          /\ interrupted => last.outcome = "interrupted"
          /\ last.outcome = "ok" => error = None /\ Indices("bootstrap.error") = {}
          /\ \A i \in Indices("step.end") :
               stream[i].outcome = "timeout" => last.outcome = "timeout" \/ interrupted
  /\ progress = "rejected" =>
       stage = Len(Stage) /\ phase = "idle" /\ stream[Len(stream)].event = "run.start"

(* StoredInOrder: the outputs of completed executions are committed once   *)
(* each, in the order they completed, without a gap, and all of them       *)
(* before the handler of the next step runs on what it may read of them.   *)
StoredInOrder ==
  /\ IsPrefix(stored, completed)
  /\ Len(completed) <= Len(stored) + 1
  /\ phase = "running" => stored = completed

(* DeliveredOnce: an output put in a queue is there, or was handed to one  *)
(* execution, and never both or twice: a store transaction that fails half *)
(* way and is tried again by exiting duplicates nothing.                   *)
DeliveredOnce ==
  \A k \in Key : \A e \in ToSet(completed) :
    Cardinality({i \in Indices("step.start") :
                   k \in DOMAIN stream[i].inputs /\ stream[i].inputs[k] = e})
      + Cardinality({j \in DOMAIN queue[k] : queue[k][j] = e}) <= 1

(* NothingLostSilently: a run that ends ok has stored the outputs of every *)
(* completed execution; outputs are missing only from a run that says it   *)
(* failed or was interrupted, and then only those of the last execution.   *)
NothingLostSilently ==
  progress = "concluded" /\ stored # completed =>
    /\ stream[Len(stream)].outcome # "ok"
    /\ stored = Front(completed)

(* StopIsFinal: once the abort is acted on, or the machine has failed for  *)
(* good, no step starts and nothing of this run reaches the store.         *)
StopIsFinal ==
  [][(interrupted \/ phase = "stopping") =>
       UNCHANGED stored /\ Indices("step.start")' = Indices("step.start")]_vars

(* AbortEnds: an abort ends the run, even in a handler that hangs. *)
AbortEnds == aborted ~> Over

(* EndsUnlessHungOrLooping: a run ends, unless it stays for ever in a step *)
(* that declares no timeout, or jumps back take a step to MaxIteration     *)
(* executions, however many that are.  Nothing else can keep it: not a     *)
(* queue that is full or empty, nor a result that cannot be stored.        *)
EndsUnlessHungOrLooping ==
  <>(\/ Over
     \/ \E i \in Step : iteration[i] = MaxIteration
     \/ [](phase = "running" /\ todoStep \notin Bounded))

(* The course of the run: last is the step whose result is at hand. *)
Abstract == INSTANCE RunControl WITH
  last <- IF doneStep = None THEN 0 ELSE doneStep.step.index

(* ImplementsRunControl: whatever queues, verdicts, producer and other     *)
(* runs do, the machine goes from step to step as RunControl lets it: it   *)
(* feeds a step once and fails for good when it cannot, goes back only     *)
(* where a control-flow step sends it, and stops where it is on an abort.  *)
ImplementsRunControl == Abstract!Spec
=============================================================================
