------------------------- MODULE WorkflowResolution -------------------------
(***************************************************************************)
(* From a valid document to what the machine runs: the contracts of the    *)
(* plugins it declares, the location of every box a step reads or writes,  *)
(* the seeds one entry at a time, and the checks that need the contracts.  *)
(***************************************************************************)
EXTENDS SeedOverrides

CONSTANTS
  Contract  \* Contract[p][op]: the contract of operation op of plugin p

(* Where a plugin is looked for: the commands search from several folders. *)
Loaded(p, installed, folders) == installed[p] \cap folders # {}

(* The lock records, for some plugins, the hash of their contracts. *)
LockAgrees(doc, lock) ==
  \A p \in doc.plugins : p \in DOMAIN lock.hashes => lock.hashes[p] = "installed"

BoundedTimeout(t) == t \in 1 .. TimeoutMsMax

(* A step names an operation of a declared plugin whose contract is of a   *)
(* type that goes with its path and its outputs, and a bound that is one.  *)
StepResolves(doc, step) ==
  /\ step.plugin \in doc.plugins
  /\ step.operation \in DOMAIN Contract[step.plugin]
  /\ LET contract == Contract[step.plugin][step.operation]
     IN /\ contract.type \in {"operation", "control-flow"}
        /\ contract.type = "control-flow" => DOMAIN step.outputs = {}
        /\ contract.type = "operation" => step.operation \notin ControlFlowPath
        /\ contract.timeoutMs = None \/ BoundedTimeout(contract.timeoutMs)

(* The document's bound, then the contract's; the word takes both away. *)
EffectiveTimeout(step) ==
  LET t == IF step.timeoutMs # None THEN step.timeoutMs
           ELSE Contract[step.plugin][step.operation].timeoutMs
  IN IF t = Unbounded THEN None ELSE t

(* A read names a workflow when the binding does, or else the key table. *)
ReadLocation(doc, ref) ==
  LET workflow == IF ref.workflow # None THEN ref.workflow ELSE Owner(doc, ref.key)
      own == [key |-> ref.key, strategy |-> StrategyFor(doc, ref.key)]
  IN IF workflow = None THEN own
     ELSE [key |-> own.key, strategy |-> own.strategy, workflow |-> workflow]

WriteLocation(doc, ref) == [key |-> ref.key, strategy |-> StrategyFor(doc, ref.key)]

ResolveStep(doc, step) ==
  [plugin |-> step.plugin, operation |-> step.operation,
   input |-> [f \in DOMAIN step.inputs |-> ReadLocation(doc, step.inputs[f])],
   output |-> [f \in DOMAIN step.outputs |-> WriteLocation(doc, step.outputs[f])],
   error |-> [f \in DOMAIN step.errors |-> WriteLocation(doc, step.errors[f])],
   timeoutMs |-> EffectiveTimeout(step)]

(* The entries a seed becomes, in order: one, or one for each element. *)
SeedValues(doc, k) ==
  IF SeedExpandsList(StrategyFor(doc, k)) THEN Elements(doc.keys[k].seed) ELSE <<doc.keys[k].seed>>

SeedEntries(doc, k) ==
  [i \in DOMAIN SeedValues(doc, k) |->
     [key |-> k, strategy |-> StrategyFor(doc, k), value |-> SeedValues(doc, k)[i]]]

(* Boxes are separate: the order of the keys decides nothing. *)
SeedData(doc) ==
  LET seeded == SetToSeq({k \in DOMAIN doc.keys : HasSeed(doc, k)})
  IN FlattenSeq([i \in DOMAIN seeded |-> SeedEntries(doc, seeded[i])])

(* Every declared plugin loads, the lock agrees, every step resolves; the  *)
(* bindings and the shape of the seeds are checked once more.              *)
Resolves(doc, loaded, lock) ==
  /\ NoLiteralBindings(doc)
  /\ OwnershipConsistent(doc)
  /\ doc.plugins \subseteq loaded
  /\ LockAgrees(doc, lock)
  /\ \A i \in DOMAIN doc.steps : StepResolves(doc, doc.steps[i])
  /\ \A k \in DOMAIN doc.keys :
       HasSeed(doc, k) => FifoSeedIsList(doc.keys[k].seed, StrategyFor(doc, k))

Resolve(doc) ==
  [steps |-> [i \in DOMAIN doc.steps |-> ResolveStep(doc, doc.steps[i])],
   seedData |-> SeedData(doc)]

-----------------------------------------------------------------------------
(* What is checked of the resolved workflow. *)

ReadsHere(location) ==
  "workflow" \notin DOMAIN location \/ location.workflow = Me

(* The schema of the contract for a field, if it has one, takes the value. *)
Accepts(step, f, value) ==
  LET schemas == Contract[step.plugin][step.operation].accepts
  IN f \in DOMAIN schemas => value \in schemas[f]

(* Every seed is one the steps that read its key here can be handed. *)
SeedDataAccepted(resolved) ==
  \A i \in DOMAIN resolved.seedData : \A j \in DOMAIN resolved.steps :
    LET seed == resolved.seedData[i]
        step == resolved.steps[j]
    IN \A f \in DOMAIN step.input :
         step.input[f].key = seed.key /\ ReadsHere(step.input[f])
           => Accepts(step, f, seed.value)

(* No location names a workspace, and no write a workflow. *)
BoundariesHold(resolved) ==
  \A j \in DOMAIN resolved.steps :
    LET step == resolved.steps[j]
    IN /\ \A f \in DOMAIN step.input :
            DOMAIN step.input[f] \subseteq {"key", "strategy", "workflow"}
       /\ \A f \in DOMAIN step.output : DOMAIN step.output[f] \subseteq {"key", "strategy"}
       /\ \A f \in DOMAIN step.error : DOMAIN step.error[f] \subseteq {"key", "strategy"}
=============================================================================
