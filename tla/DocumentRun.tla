---------------------------- MODULE DocumentRun ----------------------------
(***************************************************************************)
(* The life of one workflow document: workflow verify, and workflow run    *)
(* again and again over the boxes the runs before it left.  Both commands  *)
(* check the document, each on its own, in a pipeline that ends at the     *)
(* first problem.  A run that is accepted writes its seeds in one          *)
(* transaction, then its steps move values between boxes.  The events, the *)
(* deadlines and the aborts of a run are those of module WorkflowRun.      *)
(***************************************************************************)
EXTENDS WorkflowResolution

CONSTANTS
  Scenario,   \* the documents and their surroundings
  Other,      \* another workflow of the workspace
  Produced,   \* the values a handler returns
  SiblingBox, \* the boxes the other workflow left
  MaxRuns     \* bound: the runs of one document

(* The flags as they come, and the blocks of a workspace document. *)
ShapedAround(w) ==
  /\ w.flags \in Seq(Range(w.flags))
  /\ \A i \in DOMAIN w.flags : w.flags[i].value \in Value \cup {None}
  /\ \A b \in w.workspace.seedOverrides :
       b.values # None => \A k \in DOMAIN b.values : b.values[k] \in Value

IsBox(b) == b = [cell |-> b.cell, head |-> b.head, tail |-> b.tail, data |-> b.data]

ASSUME ScenarioAssumption ==
  \A s \in Scenario : Shaped(s.document) /\ ShapedAround(s.around)

(* None is neither a value nor a cursor. *)
ASSUME ValueAssumption == Produced \subseteq Value /\ None \notin Value \cup Nat

ASSUME SiblingAssumption == Other # Me /\ IsBox(SiblingBox)

VARIABLES
  document,   \* the workflow document
  around,     \* the workspace, the flags, what auto-setup left installed
  verified,   \* what workflow verify said: unknown, passed or refused
  stage,      \* where the run is
  resolved,   \* the resolved workflow, None before
  at,         \* the step whose handler runs
  box,        \* box[w][k]: what the store holds of key k of workflow w
  runs        \* how often a run was accepted

vars == <<document, around, verified, stage, resolved, at, box, runs>>

-----------------------------------------------------------------------------
(* The boxes of a key: the cell of an lmdb-kv strategy, and the ring of an *)
(* lmdb-fifo one, each under keys of its own.                              *)

EmptyBox == [cell |-> None, head |-> None, tail |-> None, data |-> <<>>]

Cursor(c) == IF c = None THEN 0 ELSE c

(* The store's own guard, on the widest key the strategy derives. *)
StoreTakes(k, s, v) ==
  /\ BudgetForKey(k, s).keySizeMax <= LMDB_KEY_SIZE_MAX
  /\ ValueSizeFits(v, s)

(* A put is refused when the store does not take the value, or a ring has  *)
(* no slot but the one it keeps free.                                      *)
PutTaken(b, k, s, v) ==
  /\ StoreTakes(k, s, v)
  /\ s.name # "lmdb-kv" => NextSlot(Cursor(b.head), s.queueSizeMax) # Cursor(b.tail)

Put(b, s, v) ==
  LET head == Cursor(b.head)
  IN IF s.name = "lmdb-kv" THEN [b EXCEPT !.cell = v]
     ELSE [b EXCEPT !.head = NextSlot(head, s.queueSizeMax),
                    !.data = [i \in DOMAIN @ \cup {head} |-> IF i = head THEN v ELSE @[i]]]

(* A get finds a value, or nothing; what it leaves. *)
GetFinds(b, s) ==
  IF s.name = "lmdb-kv" THEN b.cell # None ELSE Cursor(b.head) # Cursor(b.tail)

Got(b, s) ==
  LET tail == Cursor(b.tail)
  IN IF s.name = "lmdb-kv" THEN b
     ELSE [b EXCEPT !.tail = NextSlot(tail, s.queueSizeMax),
                    !.data = [i \in DOMAIN @ \ {tail} |-> @[i]]]

(* One operation of a transaction, which does nothing once it is aborted. *)
PutIn(t, put) ==
  LET b == t.boxes[Me][put.key]
  IN IF ~t.aborted /\ PutTaken(b, put.key, put.strategy, put.value)
     THEN [aborted |-> FALSE,
           boxes |-> [t.boxes EXCEPT ![Me][put.key] = Put(b, put.strategy, put.value)]]
     ELSE [aborted |-> TRUE, boxes |-> t.boxes]

GetFrom(t, location) ==
  LET w == IF ReadsHere(location) THEN Me ELSE location.workflow
      b == t.boxes[w][location.key]
  IN IF ~t.aborted /\ GetFinds(b, location.strategy)
     THEN [aborted |-> FALSE,
           boxes |-> [t.boxes EXCEPT ![w][location.key] = Got(b, location.strategy)]]
     ELSE [aborted |-> TRUE, boxes |-> t.boxes]

(* The puts and then the gets of one transaction, which the first that is  *)
(* refused aborts.                                                         *)
Begun(boxes) == [aborted |-> FALSE, boxes |-> boxes]
Transaction(boxes, puts, locations) ==
  FoldLeft(GetFrom, FoldLeft(PutIn, Begun(boxes), puts), locations)

(* The fields of a record of locations, one after the other. *)
InOrder(locations) ==
  LET fields == SetToSeq(DOMAIN locations) IN [i \in DOMAIN fields |-> locations[fields[i]]]

-----------------------------------------------------------------------------
(* The checks of the two commands. *)

(* The first directory upwards with a workspace document decides; of       *)
(* several, the one that lists the workflow.                               *)
WorkspaceFound(directories) ==
  \E i \in DOMAIN directories :
    /\ \A j \in 1 .. i - 1 : directories[j] = {}
    /\ LET listing == {d \in directories[i] : d.lists}
       IN Cardinality(directories[i]) = 1 \/ Cardinality(listing) = 1

(* maxBytes and maxFiles are declared together or not at all. *)
LogRotationWhole(workspace) == Cardinality(workspace.rotate) \in {0, 2}

(* The ids a document names, and the variables of their connections. *)
BackendsKnown(doc, w) == BackendReferences(doc) \subseteq w.workspace.backends
BackendVariablesSet(doc, w) == BackendReferences(doc) \subseteq w.connectable

(* Every backend is declared, and every variable of its connection is set. *)
BackendsResolve(doc, w) ==
  BackendReferences(doc) # {} => ~w.scratch /\ BackendsKnown(doc, w) /\ BackendVariablesSet(doc, w)

(* A run validates the workspace document, verify takes it as it is. *)
WorkspaceLoads(w) == w.scratch \/ w.workspace.schemaHolds

LockReadable(w) == w.lock.valid

Overrides(w) ==
  ReduceOverrideLayers(IF w.scratch THEN <<>> ELSE WorkspaceLayer(w.workspace), FlagLayer(w.flags))

Merged(doc, w) == WithReplacedSeeds(doc, Overrides(w))

(* What comes before the workspace is read. *)
DocumentAccepted(doc, w) ==
  /\ SeedFlagsParse(w.flags)
  /\ ValidWorkflowType(doc)
  /\ w.scratch \/ WorkspaceFound(w.directories)

OverridesAccepted(doc, w) ==
  /\ ~w.scratch => OverridePathsConsistent(w.workspace)
  /\ OverridesApply(doc, Overrides(w))

LoadedFrom(w, folders) == {p \in DOMAIN w.installed : Loaded(p, w.installed, folders)}

(* Where either command looks.  A run also asks, at last, Node, from the   *)
(* runner's own dependencies; verify keeps that off and looks next to the  *)
(* document instead.                                                       *)
SearchFolders == {"target", "workspace", "cwd"}
RunFolders == SearchFolders \cup {"runner"}
VerifyFolders == SearchFolders \cup {"workflow"}

(* Resolves the document without the overrides that were checked. *)
VerifyPassesUnmerged(doc, w) ==
  /\ DocumentAccepted(doc, w)
  /\ w.scratch \/ LogRotationWhole(w.workspace)
  /\ BackendsResolve(doc, w)
  /\ OverridesAccepted(doc, w)
  /\ LockReadable(w)
  /\ Resolves(doc, LoadedFrom(w, VerifyFolders), w.lock)
  /\ BoundariesHold(Resolve(doc))
  /\ SeedDataAccepted(Resolve(doc))

VerifyPasses(doc, w) ==
  /\ DocumentAccepted(doc, w)
  /\ w.scratch \/ LogRotationWhole(w.workspace)
  /\ BackendsResolve(doc, w)
  /\ OverridesAccepted(doc, w)
  /\ LockReadable(w)
  /\ Resolves(Merged(doc, w), LoadedFrom(w, VerifyFolders), w.lock)
  /\ BoundariesHold(Resolve(Merged(doc, w)))
  /\ SeedDataAccepted(Resolve(Merged(doc, w)))

RunPasses(doc, w) ==
  /\ DocumentAccepted(doc, w)
  /\ WorkspaceLoads(w)
  /\ w.scratch \/ LogRotationWhole(w.workspace)
  /\ OverridesAccepted(doc, w)
  /\ LockReadable(w)
  /\ Resolves(Merged(doc, w), LoadedFrom(w, RunFolders), w.lock)
  /\ SeedDataAccepted(Resolve(Merged(doc, w)))
  /\ StrategiesWired(Merged(doc, w))

-----------------------------------------------------------------------------

Init ==
  /\ \E s \in Scenario : document = s.document /\ around = s.around
  /\ verified = "unknown"
  /\ stage = "idle"
  /\ resolved = None
  /\ at = 0
  /\ box = [w \in {Me, Other} |-> [k \in Key |-> IF w = Me THEN EmptyBox ELSE SiblingBox]]
  /\ runs = 0

Verify ==
  /\ stage = "idle"
  /\ verified = "unknown"
  /\ verified' = IF VerifyPasses(document, around) THEN "passed" ELSE "refused"
  /\ UNCHANGED <<document, around, stage, resolved, at, box, runs>>

(* --fresh removes what a scratch workspace holds, before the run begins. *)
Cleared ==
  IF around.scratch /\ around.fresh
  THEN [w \in DOMAIN box |-> [k \in Key |-> EmptyBox]] ELSE box

Bootstrap ==
  /\ stage = "idle"
  /\ RunPasses(document, around)
  /\ stage' = "seeding"
  /\ resolved' = Resolve(Merged(document, around))
  /\ runs' = runs + 1
  /\ box' = Cleared
  /\ UNCHANGED <<document, around, verified, at>>

Refuse ==
  /\ stage = "idle"
  /\ ~RunPasses(document, around)
  /\ stage' = "refused"
  /\ box' = IF DocumentAccepted(document, around) THEN Cleared ELSE box
  /\ UNCHANGED <<document, around, verified, resolved, at, runs>>

(* Every run writes every seed, whatever the boxes hold. *)
Seed ==
  LET after == Transaction(box, resolved.seedData, <<>>)
  IN /\ stage = "seeding"
     /\ stage' = IF after.aborted THEN "seedRefused" ELSE "seeded"
     /\ box' = IF after.aborted THEN box ELSE after.boxes
     /\ UNCHANGED <<document, around, verified, resolved, at, runs>>

(* One transaction between two steps: it stores what the one returned and  *)
(* reads what the next one takes.  When it aborts, or when there is no     *)
(* step left, exiting stores what was returned on its own.                 *)
Sync(puts, next) ==
  LET fed == Transaction(box, puts, InOrder(resolved.steps[next].input))
      exited == Transaction(box, puts, <<>>)
      goesOn == next \in DOMAIN resolved.steps /\ ~fed.aborted
  IN /\ box' = IF goesOn THEN fed.boxes ELSE IF ~exited.aborted THEN exited.boxes ELSE box
     /\ stage' = IF goesOn THEN "running" ELSE "ended"
     /\ at' = IF goesOn THEN next ELSE 0
     /\ UNCHANGED <<document, around, verified, resolved, runs>>

FirstStep == stage = "seeded" /\ Sync(<<>>, 1)

(* A handler returns its outputs, or its errors; a control-flow step also  *)
(* the step that is next.                                                  *)
StepReturns(v) ==
  /\ stage = "running"
  /\ \E locations \in {resolved.steps[at].output, resolved.steps[at].error} :
       LET writes == InOrder(locations)
           puts == [i \in DOMAIN writes |-> [key |-> writes[i].key, strategy |-> writes[i].strategy, value |-> v]]
       IN \/ Sync(puts, at + 1)
          \/ /\ Contract[resolved.steps[at].plugin][resolved.steps[at].operation].type = "control-flow"
             /\ \E next \in DOMAIN resolved.steps : Sync(puts, next)

(* A handler throws, or is not done in time: nothing is stored. *)
StepFails ==
  /\ stage = "running"
  /\ stage' = "ended"
  /\ at' = 0
  /\ UNCHANGED <<document, around, verified, resolved, box, runs>>

(* The same document is run again, over what the last run left. *)
RunAgain ==
  /\ stage \in {"ended", "seedRefused"}
  /\ runs < MaxRuns
  /\ stage' = "idle"
  /\ UNCHANGED <<document, around, verified, resolved, at, box, runs>>

Next ==
  \/ Verify
  \/ Bootstrap
  \/ Refuse
  \/ Seed
  \/ FirstStep
  \/ \E v \in Produced : StepReturns(v)
  \/ StepFails
  \/ RunAgain

Spec == Init /\ [][Next]_vars

-----------------------------------------------------------------------------

(* Whether a seed, as a whole, is what a box holds. *)
Holds(b, s, v) ==
  IF s.name = "lmdb-kv" THEN b.cell = v
  ELSE /\ Cursor(b.tail) = 0
       /\ Cursor(b.head) = Len(v.sizes)
       /\ \A i \in DOMAIN v.sizes : b.data[i - 1] = Scalar(v.sizes[i])

(* The value a key starts with: that of a flag, else of the workspace's    *)
(* block, else of the document.                                            *)
StartValue(k) ==
  IF k \in DOMAIN FlagLayer(around.flags) THEN FlagLayer(around.flags)[k]
  ELSE IF ~around.scratch /\ k \in DOMAIN WorkspaceLayer(around.workspace)
  THEN WorkspaceLayer(around.workspace)[k] ELSE document.keys[k].seed

(* Seeds that were accepted are written: on a store without leftovers the  *)
(* seeding transaction is never refused, every seeded key then holds       *)
(* exactly the value of the last layer that names it, no other key holds   *)
(* anything, and every step can take the values it is going to read.       *)
SeedsFit ==
  /\ stage = "seedRefused" => runs > 1
  /\ stage = "seeded" /\ runs = 1 =>
       \A k \in Key :
         IF HasSeed(document, k)
         THEN Holds(box[Me][k], StrategyFor(document, k), StartValue(k))
         ELSE box[Me][k] = EmptyBox
  /\ stage = "seeded" =>
       \A i \in DOMAIN document.steps : \A f \in DOMAIN document.steps[i].inputs :
         LET ref == document.steps[i].inputs[f]
             contract == Contract[document.steps[i].plugin][document.steps[i].operation]
         IN /\ ~CrossWorkflow(document, ref) /\ HasSeed(document, ref.key)
            /\ f \in DOMAIN contract.accepts
            => IF SeedExpandsList(StrategyFor(document, ref.key))
               THEN \A j \in DOMAIN StartValue(ref.key).sizes :
                      Scalar(StartValue(ref.key).sizes[j]) \in contract.accepts[f]
               ELSE StartValue(ref.key) \in contract.accepts[f]

(* A key that belongs to another workflow is read from there, however the  *)
(* binding spells it.                                                      *)
OwnedReadsGoToOwner ==
  resolved # None =>
    \A i \in DOMAIN resolved.steps : \A f \in DOMAIN resolved.steps[i].input :
      LET location == resolved.steps[i].input[f]
      IN Owner(document, location.key) # None =>
           ~ReadsHere(location) /\ location.workflow = Owner(document, location.key)

(* A key belongs to one workflow: a run never makes a box of its own for a *)
(* key its document says is another's, takes from another workflow only    *)
(* entries of queues it says it reads there.                               *)
OwnershipKept ==
  /\ \A k \in Key : Owner(document, k) # None => box[Me][k] = EmptyBox
  /\ \A k \in Key :
       \/ box[Other][k] = SiblingBox
       \/ around.scratch /\ around.fresh
       \/ /\ \E b \in CrossWorkflowReads(document) :
               b.key = k /\ Other \in {b.workflow, Owner(document, k)}
          /\ [box[Other][k] EXCEPT !.tail = SiblingBox.tail, !.data = SiblingBox.data] = SiblingBox
          /\ DOMAIN box[Other][k].data \subseteq DOMAIN SiblingBox.data
  /\ OwnedReadsGoToOwner

(* The bytes of everything a workflow has in the store. *)
BoxBytes(b, k) ==
  (IF b.cell = None THEN 0 ELSE EntryDataBytes(KeySize[k], MeasureValueSize(b.cell)))
  + SumFunction([i \in DOMAIN b.data |-> EntryDataBytes(FifoDataKeySize(k, i), MeasureValueSize(b.data[i]))])
  + Cardinality({c \in {"head", "tail"} : b[c] # None}) * CursorBytes(k)

(* The figure verify prints bounds what the store holds, after any number  *)
(* of steps and runs, whatever the handlers return and the overrides say.  *)
BudgetHolds ==
  SumFunction([k \in Key |-> BoxBytes(box[Me][k], k)])
    <= (IF ValidWorkflowType(document) THEN DataBytesMax(document) ELSE 0)

(* A plugin of the document that is loaded from some folders only. *)
FoundOnlyBy(doc, w, folders, others) ==
  \E p \in doc.plugins : p \in LoadedFrom(w, folders) \ LoadedFrom(w, others)

(* What verify is known to pass and a run to refuse ... *)
RefusedByRunOnly ==
  \/ ~StrategiesWired(document)
  \/ ~WorkspaceLoads(around)
  \/ FoundOnlyBy(document, around, VerifyFolders, RunFolders)

(* ... and what verify refuses and runs. *)
RefusedByVerifyOnly == FoundOnlyBy(document, around, RunFolders, VerifyFolders)

(* verify and run see the same document: but for these four differences,   *)
(* what verify passed is not refused by a run before its first write, and  *)
(* what verify refused never runs.                                         *)
VerifyAgreesWithRun ==
  /\ verified = "passed" /\ stage = "refused" => RefusedByRunOnly
  /\ verified = "refused" /\ (stage \notin {"idle", "refused"} \/ runs # 0) => RefusedByVerifyOnly
=============================================================================
