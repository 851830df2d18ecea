-------------------------- MODULE WorkflowDocument --------------------------
(***************************************************************************)
(* A workflow document and what validateWorkflowType asks of it, before    *)
(* anything else is read: its key table, the bindings of its steps, and    *)
(* the checks in the order the code makes them.  A check is an operator    *)
(* that says whether the document passes; what a problem reads like is     *)
(* left out.  A field that is not there is None.                           *)
(***************************************************************************)
EXTENDS BoxStrategies

CONSTANTS
  LegalKey,         \* the keys made of the allowed characters
  Me,               \* the name of the workflow of the document
  Unbounded,        \* the word for a step without a bound
  TimeoutMsMax,     \* the longest bound
  ControlFlowPath   \* the operations whose path begins with control-flow/

(* timeoutMs is compared with the longest bound a timer takes. *)
ASSUME TimeoutAssumption == TimeoutMsMax \in Nat \ {0}

Role == {"inputs", "outputs", "errors"}

-----------------------------------------------------------------------------
(* The key table: every declared key, its strategy, seed and owner. *)

HasSeed(doc, k) == k \in DOMAIN doc.keys /\ doc.keys[k].seed # None

(* The workflow the key table says a key belongs to. *)
Owner(doc, k) == IF k \in DOMAIN doc.keys THEN doc.keys[k].workflow ELSE None

StrategyFor(doc, k) ==
  IF k \in DOMAIN doc.keys /\ doc.keys[k].strategy # None
  THEN doc.keys[k].strategy ELSE doc.defaultStrategy

(* The keys whose bytes are counted as declared here. *)
OwnDeclaredKeys(doc) == {k \in DOMAIN doc.keys : Owner(doc, k) = None}

-----------------------------------------------------------------------------
(* The bindings of every step, in any of the three roles. *)

Bindings(doc) ==
  UNION {{[step |-> i, role |-> r, field |-> f, key |-> doc.steps[i][r][f].key,
           workflow |-> doc.steps[i][r][f].workflow] : f \in DOMAIN doc.steps[i][r]} :
         i \in DOMAIN doc.steps, r \in Role}

CrossWorkflow(doc, b) == b.workflow # None \/ Owner(doc, b.key) # None

(* Forgets what the errors of a step are written to. *)
BoundKeysWithoutErrors(doc) ==
  {b.key : b \in {c \in Bindings(doc) : ~CrossWorkflow(doc, c) /\ c.role # "errors"}}

(* The keys some step binds in this workflow's own store. *)
BoundKeys(doc) == {b.key : b \in {c \in Bindings(doc) : ~CrossWorkflow(doc, c)}}

-----------------------------------------------------------------------------
(* The checks of one value, and of one key. *)

ValueSizeFits(v, s) == MeasureValueSize(v) <= s.valueSizeMax

FifoSeedIsList(v, s) == SeedExpandsList(s) => v.list

FifoSeedLengthFits(v, s) == Len(v.sizes) <= SeedCapacityOf(s)

(* What a seed, or the value an override puts in its place, must satisfy:  *)
(* one value for a cell, or for a queue a list whose length and elements   *)
(* fit.                                                                    *)
SeedShapeFits(v, s) ==
  IF SeedExpandsList(s)
  THEN /\ FifoSeedIsList(v, s)
       /\ FifoSeedLengthFits(v, s)
       /\ \A i \in DOMAIN v.sizes : ValueSizeFits(Scalar(v.sizes[i]), s)
  ELSE ValueSizeFits(v, s)

KeySizeFits(k) == KeySize[k] <= RAWBOX_KEY_SIZE_MAX

KeyCharactersLegal(k) == k \in LegalKey

-----------------------------------------------------------------------------
(* The passes of validateWorkflowType. *)

KindIsWorkflow(doc) == doc.kind = "Workflow"

FormatVersionSupported(doc) == doc.formatVersion \in {None, "1.0"}

(* { value: ... } is no binding any more. *)
NoLiteralBindings(doc) ==
  \A i \in DOMAIN doc.steps : \A f \in DOMAIN doc.steps[i].inputs :
    ~doc.steps[i].inputs[f].literal

(* A bound is a whole number of milliseconds from 1, or the one word. *)
TimeoutsWellSpelled(doc) ==
  \A i \in DOMAIN doc.steps :
    doc.steps[i].timeoutMs \in {None, Unbounded} \cup (1 .. TimeoutMsMax)

(* storage.strategies and storage.seed moved into storage.keys. *)
NoRemovedBlocks(doc) == ~doc.removedBlock

(* The strategies written in the document: the default one, and those of   *)
(* the entries that have one.                                              *)
StrategyBlocks(doc) ==
  {doc.defaultStrategy} \cup ({doc.keys[k].strategy : k \in DOMAIN doc.keys} \ {None})

(* The parsed document: its fields, those of an entry of its key table, and *)
(* the types a number, a value and a list of bindings are parsed to.       *)
Shaped(doc) ==
  /\ DOMAIN doc = {"kind", "formatVersion", "removedBlock", "defaultStrategy", "keys",
                   "plugins", "steps"}
  /\ DOMAIN doc.keys \subseteq Key
  /\ \A k \in DOMAIN doc.keys :
       /\ DOMAIN doc.keys[k] = {"strategy", "seed", "workflow"}
       /\ doc.keys[k].seed \in Value \cup {None}
  /\ \A s \in StrategyBlocks(doc) : s.valueSizeMax \in Int /\ s.queueSizeMax \in Int
  /\ \A b \in Bindings(doc) : b.key \in Key
  /\ \A i \in DOMAIN doc.steps : \A r \in Role : IsFiniteSet(DOMAIN doc.steps[i][r])

(* No block carries a field of another strategy, or of none. *)
StrategyFieldsKnown(doc) == \A s \in StrategyBlocks(doc) : ~s.strayField

StrategySchema(s) ==
  /\ s.valueSizeMax >= 1
  /\ s.name = "lmdb-fifo" => s.queueSizeMax >= QueueSizeMaxMin
  /\ s.name = "redis-fifo" => s.queueSizeMax >= 1
  /\ (s.backend # None) <=> (s.name \notin LmdbNames)

(* A write names no workflow, and a control-flow step writes no output. *)
StepSchema(step) ==
  /\ \A f \in DOMAIN step.outputs : step.outputs[f].workflow = None
  /\ \A f \in DOMAIN step.errors : step.errors[f].workflow = None
  /\ step.operation \in ControlFlowPath => DOMAIN step.outputs = {}

SchemaHolds(doc) ==
  /\ doc.formatVersion # None
  /\ \A s \in StrategyBlocks(doc) : StrategySchema(s)
  /\ \A i \in DOMAIN doc.steps : StepSchema(doc.steps[i])

(* A key of another workflow has no seed here, and is not this one's own. *)
KeyTableConsistent(doc) ==
  \A k \in DOMAIN doc.keys :
    Owner(doc, k) # None => ~HasSeed(doc, k) /\ Owner(doc, k) # Me

(* Takes outputs for the only bindings that write. *)
OwnershipOfOutputs(doc) ==
  \A b \in Bindings(doc) :
    Owner(doc, b.key) # None =>
      b.role # "outputs" /\ b.workflow \in {None, Owner(doc, b.key)}

(* A key that belongs to another workflow is only read, and from there. *)
OwnershipConsistent(doc) ==
  \A b \in Bindings(doc) :
    Owner(doc, b.key) # None =>
      b.role = "inputs" /\ b.workflow \in {None, Owner(doc, b.key)}

(* Every key some step writes or some entry seeds. *)
SuppliedKeys(doc) ==
  {k \in DOMAIN doc.keys : HasSeed(doc, k)} \cup
  {b.key : b \in {c \in Bindings(doc) : c.role # "inputs"}}

(* A key of its own that the workflow reads is supplied by something. *)
ReadsAreSupplied(doc) ==
  \A b \in Bindings(doc) :
    b.role = "inputs" /\ ~CrossWorkflow(doc, b) => b.key \in SuppliedKeys(doc)

(* Keys and seeds fit their bounds, and the reads what is written. *)
StorageSizesFit(doc) ==
  /\ \A k \in DOMAIN doc.keys \cup BoundKeys(doc) : KeySizeFits(k) /\ KeyCharactersLegal(k)
  /\ \A k \in DOMAIN doc.keys :
       HasSeed(doc, k) => SeedShapeFits(doc.keys[k].seed, StrategyFor(doc, k))
  /\ ReadsAreSupplied(doc)

(* A transaction does not span two stores: the default strategy and every  *)
(* key of the workflow's own resolve to one.                               *)
StoreParticipants(doc) ==
  {doc.defaultStrategy} \cup
  {StrategyFor(doc, k) : k \in OwnDeclaredKeys(doc) \cup BoundKeys(doc)}

OneStore(doc) ==
  Cardinality({StoreIdentityOf(s) : s \in StoreParticipants(doc)}) = 1

(* Each pass is made only of a document that went through those before. *)
ValidWorkflowType(doc) ==
  /\ KindIsWorkflow(doc)
  /\ FormatVersionSupported(doc)
  /\ NoLiteralBindings(doc)
  /\ TimeoutsWellSpelled(doc)
  /\ NoRemovedBlocks(doc)
  /\ StrategyFieldsKnown(doc)
  /\ SchemaHolds(doc)
  /\ KeyTableConsistent(doc)
  /\ OwnershipConsistent(doc)
  /\ StorageSizesFit(doc)
  /\ OneStore(doc)

-----------------------------------------------------------------------------
(* What verify prints, and what the runner can run. *)

(* The figure a volume is sized with. *)
DataBytesMax(doc) ==
  BudgetForStorage([k \in OwnDeclaredKeys(doc) \cup BoundKeys(doc) |-> StrategyFor(doc, k)])

(* The reads of other workflows' boxes, whose bytes are counted there. *)
CrossWorkflowReads(doc) ==
  {b \in Bindings(doc) : b.role = "inputs" /\ CrossWorkflow(doc, b)}

(* The runner opens a store for the two lmdb strategies only. *)
StrategiesWired(doc) == \A s \in StrategyBlocks(doc) : s.name \in LmdbNames

(* The backends a document names: ids into the workspace's map. *)
BackendReferences(doc) == {s.backend : s \in StrategyBlocks(doc)} \ {None}
=============================================================================
