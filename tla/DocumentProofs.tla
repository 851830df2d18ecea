--------------------------- MODULE DocumentProofs ---------------------------
(***************************************************************************)
(* Theorems about documents, for every document and all surroundings: what *)
(* the overrides of seeds leave as it was, that the pipelines of the two   *)
(* commands accept the same documents, but for the differences named, and  *)
(* what the runs of a document do to boxes and to their bytes.  A          *)
(* transaction is a fold, the seeds of a document are a sequence of        *)
(* sequences, a figure is a sum: what those are is proved first, with the  *)
(* results of FoldTheorems.                                                *)
(***************************************************************************)
EXTENDS DocumentRun, FiniteSetTheorems, SequenceTheorems, TLAPS

-----------------------------------------------------------------------------
(* What an override leaves as it was. *)

LEMMA ReplacedFields ==
  ASSUME NEW doc, Shaped(doc), NEW overrides
  PROVE  LET merged == WithReplacedSeeds(doc, overrides)
         IN /\ merged.kind = doc.kind
            /\ merged.formatVersion = doc.formatVersion
            /\ merged.removedBlock = doc.removedBlock
            /\ merged.defaultStrategy = doc.defaultStrategy
            /\ merged.plugins = doc.plugins
            /\ merged.steps = doc.steps
            /\ DOMAIN merged.keys = DOMAIN doc.keys
            /\ \A k \in DOMAIN doc.keys :
                 /\ merged.keys[k].strategy = doc.keys[k].strategy
                 /\ merged.keys[k].workflow = doc.keys[k].workflow
                 /\ k \in DOMAIN overrides => merged.keys[k].seed = overrides[k]
                 /\ k \notin DOMAIN overrides => merged.keys[k].seed = doc.keys[k].seed
BY DEF Shaped, WithReplacedSeeds

(* Owners, strategies and bindings are those of the document. *)
LEMMA ReplacedTable ==
  ASSUME NEW doc, Shaped(doc), NEW overrides
  PROVE  LET merged == WithReplacedSeeds(doc, overrides)
         IN /\ \A k : Owner(merged, k) = Owner(doc, k)
            /\ \A k : StrategyFor(merged, k) = StrategyFor(doc, k)
            /\ Bindings(merged) = Bindings(doc)
            /\ StrategyBlocks(merged) = StrategyBlocks(doc)
            /\ OwnDeclaredKeys(merged) = OwnDeclaredKeys(doc)
            /\ BoundKeys(merged) = BoundKeys(doc)
<1>. DEFINE merged == WithReplacedSeeds(doc, overrides)
<1>. HIDE DEF merged
<1>0. /\ merged.defaultStrategy = doc.defaultStrategy
      /\ merged.steps = doc.steps
      /\ DOMAIN merged.keys = DOMAIN doc.keys
      /\ \A k \in DOMAIN doc.keys :
           /\ merged.keys[k].strategy = doc.keys[k].strategy
           /\ merged.keys[k].workflow = doc.keys[k].workflow
  BY ReplacedFields DEF merged
<1>1. \A k : Owner(merged, k) = Owner(doc, k)
  BY <1>0 DEF Owner
<1>2. \A k : StrategyFor(merged, k) = StrategyFor(doc, k)
  BY <1>0 DEF StrategyFor
<1>3. Bindings(merged) = Bindings(doc)
  BY <1>0 DEF Bindings
<1>4. StrategyBlocks(merged) = StrategyBlocks(doc)
  BY <1>0 DEF StrategyBlocks
<1>5. OwnDeclaredKeys(merged) = OwnDeclaredKeys(doc)
  BY <1>0, <1>1 DEF OwnDeclaredKeys
<1>6. BoundKeys(merged) = BoundKeys(doc)
  BY <1>1, <1>3 DEF BoundKeys, CrossWorkflow
<1>. QED  BY <1>1, <1>2, <1>3, <1>4, <1>5, <1>6 DEF merged

(* The figure verify prints before it reads the overrides is the one of    *)
(* the document they are applied to.                                       *)
THEOREM OverridesKeepBudget ==
  ASSUME NEW doc, Shaped(doc), NEW overrides
  PROVE  DataBytesMax(WithReplacedSeeds(doc, overrides)) = DataBytesMax(doc)
<1>. DEFINE merged == WithReplacedSeeds(doc, overrides)
<1>1. /\ OwnDeclaredKeys(merged) \cup BoundKeys(merged) = OwnDeclaredKeys(doc) \cup BoundKeys(doc)
      /\ \A k : StrategyFor(merged, k) = StrategyFor(doc, k)
  BY ReplacedTable
<1>. HIDE DEF merged
<1>2. [k \in OwnDeclaredKeys(merged) \cup BoundKeys(merged) |-> StrategyFor(merged, k)]
        = [k \in OwnDeclaredKeys(doc) \cup BoundKeys(doc) |-> StrategyFor(doc, k)]
  BY <1>1
<1>. QED  BY <1>2 DEF DataBytesMax, merged

(* An override leaves a document that was accepted acceptable: the runner  *)
(* does not validate it again.                                             *)
THEOREM OverridesKeepValidity ==
  ASSUME NEW doc, Shaped(doc), NEW overrides,
         ValidWorkflowType(doc), OverridesApply(doc, overrides),
         \A k \in DOMAIN overrides : overrides[k] # None
  PROVE  ValidWorkflowType(WithReplacedSeeds(doc, overrides))
<1>. DEFINE merged == WithReplacedSeeds(doc, overrides)
<1>1. /\ merged.kind = doc.kind
      /\ merged.formatVersion = doc.formatVersion
      /\ merged.removedBlock = doc.removedBlock
      /\ merged.defaultStrategy = doc.defaultStrategy
      /\ merged.steps = doc.steps
      /\ DOMAIN merged.keys = DOMAIN doc.keys
      /\ \A k \in DOMAIN doc.keys :
           /\ k \in DOMAIN overrides => merged.keys[k].seed = overrides[k]
           /\ k \notin DOMAIN overrides => merged.keys[k].seed = doc.keys[k].seed
  BY ReplacedFields
<1>2. /\ \A k : Owner(merged, k) = Owner(doc, k)
      /\ \A k : StrategyFor(merged, k) = StrategyFor(doc, k)
      /\ Bindings(merged) = Bindings(doc)
      /\ StrategyBlocks(merged) = StrategyBlocks(doc)
      /\ OwnDeclaredKeys(merged) = OwnDeclaredKeys(doc)
      /\ BoundKeys(merged) = BoundKeys(doc)
  BY ReplacedTable
<1>. HIDE DEF merged
<1>3. \A k \in DOMAIN doc.keys :
        /\ HasSeed(merged, k) <=> HasSeed(doc, k)
        /\ HasSeed(merged, k) => SeedShapeFits(merged.keys[k].seed, StrategyFor(merged, k))
  <2>1. ASSUME NEW k \in DOMAIN doc.keys, k \in DOMAIN overrides
        PROVE  /\ HasSeed(merged, k) /\ HasSeed(doc, k)
               /\ SeedShapeFits(merged.keys[k].seed, StrategyFor(merged, k))
    BY <1>1, <1>2, <2>1 DEF OverridesApply, Overridable, OverrideShapeFits, HasSeed
  <2>2. ASSUME NEW k \in DOMAIN doc.keys, k \notin DOMAIN overrides
        PROVE  /\ HasSeed(merged, k) <=> HasSeed(doc, k)
               /\ HasSeed(merged, k) => SeedShapeFits(merged.keys[k].seed, StrategyFor(merged, k))
    BY <1>1, <1>2, <2>2 DEF HasSeed, ValidWorkflowType, StorageSizesFit
  <2>. QED  BY <2>1, <2>2
<1>4. KindIsWorkflow(merged) /\ FormatVersionSupported(merged) /\ NoRemovedBlocks(merged)
  BY <1>1 DEF ValidWorkflowType, KindIsWorkflow, FormatVersionSupported, NoRemovedBlocks
<1>5. NoLiteralBindings(merged) /\ TimeoutsWellSpelled(merged)
  BY <1>1 DEF ValidWorkflowType, NoLiteralBindings, TimeoutsWellSpelled
<1>6. StrategyFieldsKnown(merged)
  BY <1>2 DEF ValidWorkflowType, StrategyFieldsKnown
<1>7. SchemaHolds(merged)
  BY <1>1, <1>2 DEF ValidWorkflowType, SchemaHolds
<1>8. KeyTableConsistent(merged)
  BY <1>1, <1>2, <1>3 DEF ValidWorkflowType, KeyTableConsistent
<1>9. OwnershipConsistent(merged)
  BY <1>2 DEF ValidWorkflowType, OwnershipConsistent
<1>10. StorageSizesFit(merged)
  <2>1. SuppliedKeys(merged) = SuppliedKeys(doc)
    BY <1>1, <1>2, <1>3 DEF SuppliedKeys
  <2>2. ReadsAreSupplied(merged)
    BY <1>2, <2>1 DEF ValidWorkflowType, StorageSizesFit, ReadsAreSupplied, CrossWorkflow
  <2>. QED  BY <1>1, <1>2, <1>3, <2>2 DEF ValidWorkflowType, StorageSizesFit
<1>11. OneStore(merged)
  <2>1. StoreParticipants(merged) = StoreParticipants(doc)
    BY <1>1, <1>2 DEF StoreParticipants
  <2>. QED  BY <2>1 DEF ValidWorkflowType, OneStore
<1>. QED
  BY <1>4, <1>5, <1>6, <1>7, <1>8, <1>9, <1>10, <1>11 DEF ValidWorkflowType, merged

-----------------------------------------------------------------------------
(* The two pipelines. *)

(* The locations a step resolves to are made of the fields allowed, so     *)
(* that the check of boundaries only verify makes refuses nothing.         *)
LEMMA ResolvedBoundaries == \A doc : BoundariesHold(Resolve(doc))
<1>. SUFFICES ASSUME NEW doc PROVE BoundariesHold(Resolve(doc))
  OBVIOUS
<1>1. \A ref : DOMAIN WriteLocation(doc, ref) = {"key", "strategy"}
  BY DEF WriteLocation
<1>2. \A ref : DOMAIN ReadLocation(doc, ref) \subseteq {"key", "strategy", "workflow"}
  <2>1. SUFFICES ASSUME NEW ref
                 PROVE  DOMAIN ReadLocation(doc, ref) \subseteq {"key", "strategy", "workflow"}
    OBVIOUS
  <2>. DEFINE workflow == IF ref.workflow # None THEN ref.workflow ELSE Owner(doc, ref.key)
  <2>2. CASE workflow = None
    BY <2>2 DEF ReadLocation
  <2>3. CASE workflow # None
    BY <2>3 DEF ReadLocation
  <2>. QED  BY <2>2, <2>3
<1>3. ASSUME NEW j \in DOMAIN doc.steps
      PROVE  LET step == ResolveStep(doc, doc.steps[j])
             IN /\ \A f \in DOMAIN step.input :
                     DOMAIN step.input[f] \subseteq {"key", "strategy", "workflow"}
                /\ \A f \in DOMAIN step.output : DOMAIN step.output[f] \subseteq {"key", "strategy"}
                /\ \A f \in DOMAIN step.error : DOMAIN step.error[f] \subseteq {"key", "strategy"}
  <2>. DEFINE step == ResolveStep(doc, doc.steps[j])
  <2>1. /\ step.input = [f \in DOMAIN doc.steps[j].inputs |-> ReadLocation(doc, doc.steps[j].inputs[f])]
        /\ step.output = [f \in DOMAIN doc.steps[j].outputs |-> WriteLocation(doc, doc.steps[j].outputs[f])]
        /\ step.error = [f \in DOMAIN doc.steps[j].errors |-> WriteLocation(doc, doc.steps[j].errors[f])]
    BY DEF ResolveStep
  <2>. HIDE DEF step
  <2>2. QED  BY <1>1, <1>2, <2>1 DEF step
<1>4. Resolve(doc).steps = [i \in DOMAIN doc.steps |-> ResolveStep(doc, doc.steps[i])]
  BY DEF Resolve
<1>. QED  BY <1>3, <1>4 DEF BoundariesHold

(* The plugins of a document that some folders have are found in others    *)
(* too, unless one is found in the first only.                             *)
LEMMA FoundByBoth ==
  ASSUME NEW doc, Shaped(doc), NEW w, NEW folders, NEW others,
         Resolves(Merged(doc, w), LoadedFrom(w, folders), w.lock),
         ~FoundOnlyBy(doc, w, folders, others)
  PROVE  Resolves(Merged(doc, w), LoadedFrom(w, others), w.lock)
<1>1. Merged(doc, w).plugins = doc.plugins
  BY ReplacedFields DEF Merged
<1>2. doc.plugins \subseteq LoadedFrom(w, others)
  BY <1>1 DEF FoundOnlyBy, Resolves
<1>. QED  BY <1>1, <1>2 DEF Resolves

LEMMA MergedStrategies ==
  ASSUME NEW doc, Shaped(doc), NEW w
  PROVE  StrategiesWired(Merged(doc, w)) <=> StrategiesWired(doc)
BY ReplacedTable DEF Merged, StrategiesWired

(* A document of wired strategies names no backend. *)
LEMMA WiredNeedsNoBackend ==
  ASSUME NEW doc, SchemaHolds(doc), StrategiesWired(doc)
  PROVE  BackendReferences(doc) = {}
BY DEF SchemaHolds, StrategiesWired, StrategySchema, BackendReferences

LEMMA RunImpliesVerify ==
  ASSUME NEW doc, Shaped(doc), NEW w, RunPasses(doc, w),
         ~FoundOnlyBy(doc, w, RunFolders, VerifyFolders)
  PROVE  VerifyPasses(doc, w)
<1>1. BackendsResolve(doc, w)
  <2>1. SchemaHolds(doc)
    BY DEF RunPasses, DocumentAccepted, ValidWorkflowType
  <2>2. StrategiesWired(doc)
    BY MergedStrategies DEF RunPasses
  <2>. QED  BY <2>1, <2>2, WiredNeedsNoBackend DEF BackendsResolve
<1>2. Resolves(Merged(doc, w), LoadedFrom(w, VerifyFolders), w.lock)
  BY FoundByBoth DEF RunPasses
<1>3. BoundariesHold(Resolve(Merged(doc, w)))
  BY ResolvedBoundaries
<1>. QED  BY <1>1, <1>2, <1>3 DEF RunPasses, VerifyPasses

LEMMA VerifyMostlyImpliesRun ==
  ASSUME Shaped(document), VerifyPasses(document, around), ~RunPasses(document, around)
  PROVE  RefusedByRunOnly
<1>1. CASE ~WorkspaceLoads(around)
  BY <1>1 DEF RefusedByRunOnly
<1>2. CASE ~StrategiesWired(Merged(document, around))
  BY <1>2, MergedStrategies DEF RefusedByRunOnly
<1>3. CASE ~Resolves(Merged(document, around), LoadedFrom(around, RunFolders), around.lock)
  <2>1. Resolves(Merged(document, around), LoadedFrom(around, VerifyFolders), around.lock)
    BY DEF VerifyPasses
  <2>. QED  BY <1>3, <2>1, FoundByBoth DEF RefusedByRunOnly
<1>. QED  BY <1>1, <1>2, <1>3 DEF RunPasses, VerifyPasses

-----------------------------------------------------------------------------
(* The life of a document.  Neither it nor its surroundings change, so     *)
(* that what either pipeline once said stays what it says.                 *)

PipelineInv ==
  /\ Shaped(document)
  /\ verified = "passed" => VerifyPasses(document, around)
  /\ verified = "refused" => ~VerifyPasses(document, around)
  /\ stage = "refused" => ~RunPasses(document, around)
  /\ stage \notin {"idle", "refused"} \/ runs # 0 => RunPasses(document, around)
  /\ resolved # None => /\ resolved = Resolve(Merged(document, around))
                        /\ RunPasses(document, around)

LEMMA PipelineInit == Init => PipelineInv
BY ScenarioAssumption DEF Init, PipelineInv

LEMMA PipelineStep == PipelineInv /\ [Next]_vars => PipelineInv'
<1>. SUFFICES ASSUME PipelineInv, [Next]_vars PROVE PipelineInv'
  OBVIOUS
<1>1. UNCHANGED <<document, around>>
  BY DEF Next, vars, Verify, Bootstrap, Refuse, Seed, FirstStep, StepReturns, StepFails, RunAgain, Sync
<1>2. /\ Shaped(document)'
      /\ VerifyPasses(document, around)' <=> VerifyPasses(document, around)
      /\ RunPasses(document, around)' <=> RunPasses(document, around)
      /\ Resolve(Merged(document, around))' = Resolve(Merged(document, around))
  BY <1>1 DEF PipelineInv
<1>. USE DEF PipelineInv
<1>3. CASE Verify
  BY <1>2, <1>3 DEF Verify
<1>4. CASE Bootstrap
  BY <1>2, <1>4 DEF Bootstrap
<1>5. CASE Refuse
  BY <1>2, <1>5 DEF Refuse
<1>6. CASE Seed
  BY <1>2, <1>6 DEF Seed
<1>7. CASE FirstStep
  BY <1>2, <1>7 DEF FirstStep, Sync
<1>8. ASSUME NEW v \in Produced, StepReturns(v) PROVE PipelineInv'
  BY <1>2, <1>8 DEF StepReturns, Sync
<1>9. CASE StepFails
  BY <1>2, <1>9 DEF StepFails
<1>10. CASE RunAgain
  BY <1>2, <1>10 DEF RunAgain
<1>11. CASE UNCHANGED vars
  BY <1>2, <1>11 DEF vars
<1>. QED
  BY <1>3, <1>4, <1>5, <1>6, <1>7, <1>8, <1>9, <1>10, <1>11 DEF Next

(* verify and run accept the same documents, in all surroundings, but for  *)
(* a workspace document only run validates, strategies the runner has no   *)
(* store for, and plugins that are next to the document, where only verify *)
(* looks, or only among the runner's own dependencies, where only run does.*)
THEOREM VerifyAndRunAgree == Spec => []VerifyAgreesWithRun
<1>1. PipelineInv => VerifyAgreesWithRun
  BY RunImpliesVerify, VerifyMostlyImpliesRun
     DEF PipelineInv, VerifyAgreesWithRun, RefusedByVerifyOnly
<1>. QED  BY PipelineInit, PipelineStep, <1>1, PTL DEF Spec

(* A read of a key of another workflow resolves to that workflow's box.    *)
LEMMA OwnedReadLocation ==
  ASSUME NEW doc, OwnershipConsistent(doc), \A k : Owner(doc, k) # None => Owner(doc, k) # Me,
         NEW i \in DOMAIN doc.steps, NEW f \in DOMAIN doc.steps[i].inputs,
         Owner(doc, doc.steps[i].inputs[f].key) # None
  PROVE  LET location == ReadLocation(doc, doc.steps[i].inputs[f])
         IN /\ location.key = doc.steps[i].inputs[f].key
            /\ ~ReadsHere(location)
            /\ location.workflow = Owner(doc, doc.steps[i].inputs[f].key)
<1>. DEFINE ref == doc.steps[i].inputs[f]
            owner == Owner(doc, ref.key)
<1>1. ref.workflow \in {None, owner}
  <2>. DEFINE b == [step |-> i, role |-> "inputs", field |-> f, key |-> ref.key,
                    workflow |-> ref.workflow]
  <2>1. b \in Bindings(doc)
    <3>. DEFINE Of(j, r) == {[step |-> j, role |-> r, field |-> g, key |-> doc.steps[j][r][g].key,
                              workflow |-> doc.steps[j][r][g].workflow] : g \in DOMAIN doc.steps[j][r]}
    <3>1. b \in Of(i, "inputs")
      OBVIOUS
    <3>2. Of(i, "inputs") \in {Of(j, r) : j \in DOMAIN doc.steps, r \in Role}
      <4>. HIDE DEF Of
      <4>. QED  BY DEF Role
    <3>3. Bindings(doc) = UNION {Of(j, r) : j \in DOMAIN doc.steps, r \in Role}
      BY DEF Bindings
    <3>. HIDE DEF Of, b
    <3>. QED  BY <3>1, <3>2, <3>3
  <2>2. Owner(doc, b.key) # None => b.workflow \in {None, Owner(doc, b.key)}
    BY <2>1 DEF OwnershipConsistent
  <2>. QED  BY <2>2
<1>2. owner # Me
  OBVIOUS
<1>3. ReadLocation(doc, ref) = [key |-> ref.key, strategy |-> StrategyFor(doc, ref.key), workflow |-> owner]
  BY <1>1 DEF ReadLocation
<1>. QED  BY <1>2, <1>3 DEF ReadsHere

(* However a binding spells it, a key that is declared another workflow's  *)
(* is read from that workflow.                                             *)
THEOREM OwnedReads == Spec => []OwnedReadsGoToOwner
<1>1. PipelineInv => OwnedReadsGoToOwner
  <2>. SUFFICES ASSUME PipelineInv, resolved # None,
                       NEW i \in DOMAIN resolved.steps, NEW f \in DOMAIN resolved.steps[i].input,
                       Owner(document, resolved.steps[i].input[f].key) # None
                PROVE  /\ ~ReadsHere(resolved.steps[i].input[f])
                       /\ resolved.steps[i].input[f].workflow
                            = Owner(document, resolved.steps[i].input[f].key)
    BY DEF OwnedReadsGoToOwner
  <2>. DEFINE doc == Merged(document, around)
  <2>1. RunPasses(document, around) /\ resolved = Resolve(doc)
    BY DEF PipelineInv
  <2>2. /\ \A k : Owner(doc, k) = Owner(document, k)
        /\ DOMAIN doc.keys = DOMAIN document.keys
    BY ReplacedTable, ReplacedFields DEF PipelineInv, Merged
  <2>3. OwnershipConsistent(doc)
    BY <2>1 DEF RunPasses, Resolves
  <2>4. \A k : Owner(document, k) # None => Owner(document, k) # Me
    BY <2>1 DEF RunPasses, DocumentAccepted, ValidWorkflowType, KeyTableConsistent, Owner
  <2>. HIDE DEF doc
  <2>5. i \in DOMAIN doc.steps /\ resolved.steps[i] = ResolveStep(doc, doc.steps[i])
    BY <2>1 DEF Resolve
  <2>6. /\ f \in DOMAIN doc.steps[i].inputs
        /\ resolved.steps[i].input[f] = ReadLocation(doc, doc.steps[i].inputs[f])
    BY <2>5 DEF ResolveStep
  <2>. DEFINE ref == doc.steps[i].inputs[f]
  <2>7. ReadLocation(doc, ref).key = ref.key
    BY DEF ReadLocation
  <2>8. /\ ~ReadsHere(ReadLocation(doc, ref))
        /\ ReadLocation(doc, ref).workflow = Owner(doc, ref.key)
    BY <2>2, <2>3, <2>4, <2>5, <2>6, <2>7, OwnedReadLocation
  <2>. QED  BY <2>2, <2>6, <2>7, <2>8
<1>. QED  BY PipelineInit, PipelineStep, <1>1, PTL DEF Spec
-----------------------------------------------------------------------------
(* Sets and sequences one after the other, as sequences. *)

(* A finite set as a sequence: each element once. *)
LEMMA SetToSeqElements ==
  ASSUME NEW S, IsFiniteSet(S)
  PROVE  /\ SetToSeq(S) \in Seq(S)
         /\ Len(SetToSeq(S)) = Cardinality(S)
         /\ \A i, j \in 1 .. Len(SetToSeq(S)) : SetToSeq(S)[i] = SetToSeq(S)[j] => i = j
         /\ \A x \in S : \E i \in 1 .. Len(SetToSeq(S)) : SetToSeq(S)[i] = x
<1>. DEFINE n == Cardinality(S)
            F == {f \in [1 .. n -> S] : IsInjective(f)}
            s == SetToSeq(S)
<1>1. n \in Nat /\ \E f : f \in Bijection(1 .. n, S)
  BY FS_CardinalityType DEF ExistsBijection
<1>2. s \in F
  <2>1. F # {}
    BY <1>1 DEF Bijection, Injection
  <2>2. s = CHOOSE f \in F : TRUE
    BY DEF SetToSeq
  <2>. HIDE DEF F, s
  <2>. QED  BY <2>1, <2>2
<1>3. s \in [1 .. n -> S] /\ IsInjective(s)
  <2>. HIDE DEF s
  <2>. QED  BY <1>2
<1>4. s \in Seq(S) /\ Len(s) = n /\ DOMAIN s = 1 .. n
  <2>. HIDE DEF s, n
  <2>. QED  BY <1>1, <1>3
<1>5. \A i, j \in 1 .. n : s[i] = s[j] => i = j
  BY <1>3, <1>4 DEF IsInjective
<1>6. \A x \in S : \E i \in 1 .. n : s[i] = x
  <2>1. IsFiniteSet(1 .. n) /\ Cardinality(1 .. n) = n
    BY <1>1, FS_Interval
  <2>2. s \in Injection(1 .. n, S)
    <3>. HIDE DEF s, n
    <3>. QED  BY <1>3 DEF Injection
  <2>3. s \in Surjection(1 .. n, S)
    <3>. HIDE DEF s
    <3>. QED  BY <2>1, <2>2, FS_Injection
  <2>. QED  BY <2>3 DEF Surjection
<1>. HIDE DEF s, n
<1>. QED  BY <1>4, <1>5, <1>6 DEF s, n

Then(s, t) == s \o t
Concats == INSTANCE FoldTheorems WITH Op <- Then

(* Sequences one after the other, in as many steps as there are.           *)
LEMMA FlattenSteps ==
  ASSUME NEW X, NEW s \in Seq(Seq(X))
  PROVE  \E r : /\ r[0] = <<>>
                /\ \A k \in 1 .. Len(s) : r[k] = r[k - 1] \o s[k]
                /\ \A k \in 0 .. Len(s) : r[k] \in Seq(X)
                /\ FlattenSeq(s) = r[Len(s)]
<1>. DEFINE n == Len(s)
            F(f) == f = [i \in 1 .. Len(s) |-> IF i = 1 THEN s[i] ELSE f[i - 1] \o s[i]]
            g == CHOOSE f : F(f)
            r == [k \in 0 .. n |-> IF k = 0 THEN <<>> ELSE g[k]]
<1>1. n \in Nat /\ \A k \in 1 .. n : s[k] \in Seq(X)
  OBVIOUS
<1>2. F(g)
  <2>1. PICK q : /\ q[0] = <<>>
                 /\ \A k \in 1 .. n : q[k] = Then(q[k - 1], s[k])
    <3>. DEFINE e == <<>>
    <3>. HIDE DEF e
    <3>1. \E q : /\ q[0] = e
                 /\ \A k \in 1 .. Len(s) : q[k] = Then(q[k - 1], s[k])
                 /\ Concats!FoldLeft(Then, e, s) = q[Len(s)]
      BY Concats!FoldSteps
    <3>. QED  BY <3>1 DEF e
  <2>. DEFINE f == [k \in 1 .. n |-> q[k]]
  <2>2. ASSUME NEW k \in 1 .. n PROVE f[k] = IF k = 1 THEN s[k] ELSE f[k - 1] \o s[k]
    <3>1. CASE k = 1
      <4>1. <<>> \o s[1] = s[1] /\ 1 - 1 = 0
        BY <1>1, <3>1
      <4>2. q[1] = Then(q[1 - 1], s[1])
        BY <2>1, <3>1
      <4>. QED  BY <2>1, <3>1, <4>1, <4>2 DEF Then
    <3>2. CASE k # 1
      <4>1. k - 1 \in 1 .. n
        BY <1>1, <3>2
      <4>. QED  BY <2>1, <3>2, <4>1 DEF Then
    <3>. QED  BY <3>1, <3>2
  <2>3. f = [k \in 1 .. n |-> f[k]]
    OBVIOUS
  <2>. HIDE DEF f
  <2>4. F(f)
    BY <2>2, <2>3
  <2>. HIDE DEF F
  <2>. QED  BY <2>4
<1>3. FlattenSeq(s) = IF n = 0 THEN s ELSE g[n]
  BY DEF FlattenSeq
<1>4. \A k \in 1 .. n : g[k] = IF k = 1 THEN s[k] ELSE g[k - 1] \o s[k]
  <2>. HIDE DEF g
  <2>. QED  BY <1>2
<1>. HIDE DEF g, F
<1>5. r[0] = <<>>
  BY <1>1
<1>6. ASSUME NEW k \in 1 .. n PROVE r[k] = r[k - 1] \o s[k]
  <2>1. k \in 0 .. n /\ k - 1 \in 0 .. n
    BY <1>1
  <2>2. CASE k = 1
    <3>1. <<>> \o s[1] = s[1]
      BY <1>1, <2>2
    <3>. QED  BY <1>4, <1>5, <2>1, <2>2, <3>1
  <2>3. CASE k # 1
    <3>1. k - 1 # 0 /\ k # 0
      BY <1>1, <2>3
    <3>. QED  BY <1>4, <2>1, <2>3, <3>1
  <2>. QED  BY <2>2, <2>3
<1>7. FlattenSeq(s) = r[n]
  BY <1>1, <1>3
<1>. HIDE DEF r
<1>8. \A k \in 0 .. n : r[k] \in Seq(X)
  <2>. DEFINE Bad == {k \in 0 .. n : r[k] \notin Seq(X)}
  <2>. SUFFICES ASSUME Bad # {} PROVE FALSE
    OBVIOUS
  <2>1. PICK k \in Bad : \A j \in Bad : k <= j
    <3>1. Bad \in SUBSET Nat
      BY <1>1
    <3>. HIDE DEF Bad
    <3>. QED  BY <3>1, Concats!LeastNat
  <2>2. k # 0
    <3>1. <<>> \in Seq(X)
      OBVIOUS
    <3>. QED  BY <1>5, <2>1, <3>1
  <2>3. k - 1 \in 0 .. n /\ k \in 1 .. n /\ ~(k <= k - 1)
    BY <2>1, <2>2
  <2>4. r[k - 1] \in Seq(X) /\ s[k] \in Seq(X)
    BY <1>1, <2>1, <2>3
  <2>5. r[k - 1] \o s[k] \in Seq(X)
    BY <2>4
  <2>. QED  BY <1>6, <2>1, <2>3, <2>5
<1>. QED  BY <1>5, <1>6, <1>7, <1>8 DEF n

(* Whatever is in one of them is somewhere in all. *)
LEMMA FlattenHas ==
  ASSUME NEW X, NEW s \in Seq(Seq(X)), NEW i \in 1 .. Len(s), NEW j \in 1 .. Len(s[i])
  PROVE  \E p \in DOMAIN FlattenSeq(s) : FlattenSeq(s)[p] = s[i][j]
<1>. DEFINE n == Len(s)
            e == s[i][j]
            Has(u) == \E p \in DOMAIN u : u[p] = e
<1>1. PICK r : /\ r[0] = <<>>
               /\ \A k \in 1 .. n : r[k] = r[k - 1] \o s[k]
               /\ \A k \in 0 .. n : r[k] \in Seq(X)
               /\ FlattenSeq(s) = r[n]
  BY FlattenSteps
<1>2. n \in Nat /\ (\A k \in 1 .. n : s[k] \in Seq(X)) /\ i \in Nat /\ i >= 1 /\ i <= n
  OBVIOUS
<1>3. \A k \in i .. n : Has(r[k])
  <2>. DEFINE Bad == {k \in i .. n : ~Has(r[k])}
  <2>. SUFFICES ASSUME Bad # {} PROVE FALSE
    OBVIOUS
  <2>1. PICK k \in Bad : \A m \in Bad : k <= m
    <3>1. Bad \in SUBSET Nat
      BY <1>2
    <3>. HIDE DEF Bad
    <3>. QED  BY <3>1, Concats!LeastNat
  <2>2. /\ k \in 1 .. n /\ k - 1 \in 0 .. n /\ ~Has(r[k]) /\ ~(k <= k - 1)
        /\ k # i => k - 1 \in i .. n
    BY <1>2, <2>1
  <2>. DEFINE u == r[k - 1]
              v == s[k]
  <2>3. u \in Seq(X) /\ v \in Seq(X) /\ r[k] = u \o v
    BY <1>1, <1>2, <2>2
  <2>4. k # i => Has(u)
    BY <2>1, <2>2
  <2>5. k = i => Has(v)
    <3>1. k = i => j \in 1 .. Len(v) /\ v[j] = e
      OBVIOUS
    <3>2. DOMAIN v = 1 .. Len(v)
      <4>. HIDE DEF v
      <4>. QED  BY <2>3
    <3>. HIDE DEF v, e
    <3>. QED  BY <3>1, <3>2
  <2>. HIDE DEF u, v, e
  <2>6. /\ \A p \in DOMAIN u : p \in DOMAIN (u \o v) /\ (u \o v)[p] = u[p]
        /\ \A p \in DOMAIN v : Len(u) + p \in DOMAIN (u \o v) /\ (u \o v)[Len(u) + p] = v[p]
    <3>1. u \in Seq(X) /\ v \in Seq(X)
      BY <2>3
    <3>2. ASSUME NEW p \in DOMAIN u PROVE p \in DOMAIN (u \o v) /\ (u \o v)[p] = u[p]
      BY <3>1, <3>2
    <3>3. ASSUME NEW p \in DOMAIN v
          PROVE  Len(u) + p \in DOMAIN (u \o v) /\ (u \o v)[Len(u) + p] = v[p]
      BY <3>1, <3>3
    <3>. QED  BY <3>2, <3>3
  <2>. DEFINE w == u \o v
  <2>7. (Has(u) => Has(w)) /\ (Has(v) => Has(w))
    <3>. HIDE DEF w
    <3>1. ASSUME NEW p \in DOMAIN u, u[p] = e PROVE Has(w)
      BY <2>6, <3>1 DEF w
    <3>2. ASSUME NEW p \in DOMAIN v, v[p] = e PROVE Has(w)
      BY <2>6, <3>2 DEF w
    <3>. QED  BY <3>1, <3>2
  <2>8. Has(w)
    <3>. HIDE DEF Has, w
    <3>. QED  BY <2>4, <2>5, <2>7
  <2>9. r[k] = w
    BY <2>3
  <2>. HIDE DEF Has, w
  <2>. QED  BY <2>2, <2>8, <2>9
<1>4. n \in i .. n
  BY <1>2
<1>. QED  BY <1>1, <1>3, <1>4
-----------------------------------------------------------------------------
(* Sums. *)

(* A smallest one of finite sets. *)
LEMMA SmallestSet ==
  ASSUME NEW F, F # {}, \A T \in F : IsFiniteSet(T)
  PROVE  \E T \in F : \A U \in F : Cardinality(T) <= Cardinality(U)
<1>. DEFINE C == {Cardinality(T) : T \in F}
<1>1. C \in SUBSET Nat /\ C # {}
  BY FS_CardinalityType
<1>2. PICK n \in C : \A m \in C : n <= m
  <2>. HIDE DEF C
  <2>. QED  BY <1>1, Concats!LeastNat
<1>. QED  BY <1>2

Integral(f) == IsFiniteSet(DOMAIN f) /\ \A x \in DOMAIN f : f[x] \in Int

(* g[T] is the sum of f over T, of the elements in the order of CHOOSE.    *)
Sums(g, f) ==
  g = [T \in SUBSET DOMAIN f |->
         IF T = {} THEN 0 ELSE f[CHOOSE x \in T : TRUE] + g[T \ {CHOOSE x \in T : TRUE}]]

LEMMA SumsExist ==
  ASSUME NEW f, IsFiniteSet(DOMAIN f)
  PROVE  \E g : Sums(g, f)
<1>. DEFINE S == DOMAIN f
            pick(T) == CHOOSE x \in T : TRUE
            UpTo(n) == {T \in SUBSET S : Cardinality(T) <= n}
            Fits(g, n) == g = [T \in UpTo(n) |-> IF T = {} THEN 0 ELSE f[pick(T)] + g[T \ {pick(T)}]]
            Bad == {n \in Nat : ~\E g : Fits(g, n)}
<1>0. \A T \in SUBSET S : IsFiniteSet(T) /\ Cardinality(T) \in Nat
  BY FS_Subset, FS_CardinalityType
<1>1. ASSUME Bad # {} PROVE FALSE
  <2>1. PICK n \in Bad : \A j \in Bad : n <= j
    <3>. HIDE DEF Bad
    <3>1. Bad \in SUBSET Nat
      BY DEF Bad
    <3>. QED  BY <1>1, <3>1, Concats!LeastNat
  <2>2. n # 0
    <3>. DEFINE g == [T \in UpTo(0) |-> 0]
    <3>1. \A T \in UpTo(0) : T = {}
      <4>1. ASSUME NEW T \in UpTo(0) PROVE T = {}
        BY <1>0, <4>1, FS_EmptySet
      <4>. QED  BY <4>1
    <3>2. Fits(g, 0)
      <4>. HIDE DEF UpTo
      <4>. QED  BY <3>1
    <3>. HIDE DEF Fits, g
    <3>. QED  BY <2>1, <3>2
  <2>3. n - 1 \in Nat /\ n \in Nat /\ ~(n <= n - 1)
    BY <2>1, <2>2
  <2>4. PICK g : Fits(g, n - 1)
    <3>. HIDE DEF Fits
    <3>. QED  BY <2>1, <2>3
  <2>. DEFINE h == [T \in UpTo(n) |-> IF T = {} THEN 0 ELSE f[pick(T)] + g[T \ {pick(T)}]]
  <2>5. ASSUME NEW T \in UpTo(n - 1) PROVE T \in UpTo(n) /\ h[T] = g[T]
    <3>1. T \in UpTo(n)
      BY <1>0, <2>3, <2>5
    <3>2. g[T] = IF T = {} THEN 0 ELSE f[pick(T)] + g[T \ {pick(T)}]
      <4>. HIDE DEF UpTo, pick
      <4>. QED  BY <2>4, <2>5
    <3>. HIDE DEF UpTo, pick
    <3>. QED  BY <3>1, <3>2
  <2>6. ASSUME NEW T \in UpTo(n), T # {} PROVE T \ {pick(T)} \in UpTo(n - 1)
    <3>1. pick(T) \in T /\ IsFiniteSet(T) /\ Cardinality(T) <= n
      BY <1>0, <2>6
    <3>2. Cardinality(T \ {pick(T)}) = Cardinality(T) - 1
      <4>. HIDE DEF pick
      <4>. QED  BY <3>1, FS_RemoveElement
    <3>3. T \ {pick(T)} \in SUBSET S
      OBVIOUS
    <3>. HIDE DEF pick
    <3>. QED  BY <1>0, <2>3, <2>6, <3>1, <3>2, <3>3
  <2>. HIDE DEF UpTo, pick
  <2>7. \A T \in UpTo(n) : h[T] = IF T = {} THEN 0 ELSE f[pick(T)] + h[T \ {pick(T)}]
    <3>1. ASSUME NEW T \in UpTo(n) PROVE h[T] = IF T = {} THEN 0 ELSE f[pick(T)] + h[T \ {pick(T)}]
      <4>1. h[T] = IF T = {} THEN 0 ELSE f[pick(T)] + g[T \ {pick(T)}]
        OBVIOUS
      <4>. HIDE DEF h
      <4>. QED  BY <2>5, <2>6, <4>1
    <3>. QED  BY <3>1
  <2>8. h = [T \in UpTo(n) |-> h[T]]
    OBVIOUS
  <2>. HIDE DEF h
  <2>9. Fits(h, n)
    BY <2>7, <2>8
  <2>. HIDE DEF Fits
  <2>. QED  BY <2>1, <2>9
<1>2. \E g : Fits(g, Cardinality(S))
  <2>1. Cardinality(S) \in Nat
    BY FS_CardinalityType
  <2>. HIDE DEF Fits, S
  <2>. QED  BY <1>1, <2>1
<1>3. UpTo(Cardinality(S)) = SUBSET S
  BY FS_Subset
<1>. HIDE DEF UpTo
<1>. QED  BY <1>2, <1>3 DEF Sums

(* The order does not matter. *)
LEMMA SumsAdd ==
  ASSUME NEW f, NEW g, Sums(g, f), Integral(f)
  PROVE  /\ g[{}] = 0
         /\ \A T \in SUBSET DOMAIN f :
              /\ g[T] \in Int
              /\ \A x \in T : g[T] = f[x] + g[T \ {x}]
<1>. USE DEF Integral
<1>. DEFINE pick(T) == CHOOSE x \in T : TRUE
            Adds(T) == g[T] \in Int /\ \A x \in T : g[T] = f[x] + g[T \ {x}]
            Bad == {T \in SUBSET DOMAIN f : ~Adds(T)}
<1>1. \A T \in SUBSET DOMAIN f : g[T] = IF T = {} THEN 0 ELSE f[pick(T)] + g[T \ {pick(T)}]
  BY DEF Sums
<1>2. \A T \in SUBSET DOMAIN f : T # {} => pick(T) \in T
  OBVIOUS
<1>. HIDE DEF pick
<1>3. ASSUME Bad # {} PROVE FALSE
  <2>1. \A T \in SUBSET DOMAIN f : IsFiniteSet(T) /\ Cardinality(T) \in Nat
    BY FS_Subset, FS_CardinalityType
  <2>2. PICK T \in Bad : \A U \in Bad : Cardinality(T) <= Cardinality(U)
    <3>. HIDE DEF Adds
    <3>1. \A U \in Bad : IsFiniteSet(U)
      BY <2>1
    <3>. HIDE DEF Bad
    <3>. QED  BY <1>3, <3>1, SmallestSet
  <2>3. \A U \in SUBSET DOMAIN f : Cardinality(U) < Cardinality(T) => Adds(U)
    BY <2>1, <2>2
  <2>4. \A x \in T : T \ {x} \in SUBSET DOMAIN f /\ Adds(T \ {x})
    <3>1. ASSUME NEW x \in T PROVE T \ {x} \in SUBSET DOMAIN f /\ Cardinality(T \ {x}) < Cardinality(T)
      BY <2>1, <2>2, FS_RemoveElement
    <3>. HIDE DEF Adds
    <3>. QED  BY <2>3, <3>1
  <2>5. T \in SUBSET DOMAIN f /\ ~Adds(T)
    BY <2>2
  <2>6. T # {}
    BY <1>1, <2>5
  <2>7. g[T] = f[pick(T)] + g[T \ {pick(T)}] /\ pick(T) \in T /\ g[T \ {pick(T)}] \in Int
    BY <1>1, <1>2, <2>4, <2>5, <2>6
  <2>8. ASSUME NEW x \in T, x # pick(T) PROVE g[T] = f[x] + g[T \ {x}]
    <3>. DEFINE c == pick(T)
                U == T \ {c}
                V == T \ {x}
    <3>1. x \in U /\ c \in V /\ U \ {x} = V \ {c} /\ f[x] \in Int /\ f[c] \in Int
      BY <2>5, <2>7, <2>8
    <3>5. g[U \ {x}] = g[V \ {c}]
      <4>. HIDE DEF U, V, c
      <4>. QED  BY <3>1
    <3>2. g[U] = f[x] + g[U \ {x}] /\ g[V] = f[c] + g[V \ {c}] /\ g[U] \in Int /\ g[V] \in Int
      BY <2>4, <2>7, <2>8, <3>1
    <3>3. g[U \ {x}] \in Int
      <4>1. Cardinality(U \ {x}) < Cardinality(T) /\ U \ {x} \in SUBSET DOMAIN f
        <5>1. Cardinality(U) = Cardinality(T) - 1 /\ IsFiniteSet(U) /\ Cardinality(U) \in Nat
          BY <2>1, <2>5, <2>7, FS_RemoveElement
        <5>2. Cardinality(U \ {x}) = Cardinality(U) - 1
          BY <3>1, <5>1, FS_RemoveElement
        <5>. QED  BY <2>1, <2>5, <5>1, <5>2
      <4>. QED  BY <2>3, <4>1
    <3>4. g[T] = f[c] + g[U]
      BY <2>7
    <3>. HIDE DEF c, U, V
    <3>. QED  BY <3>1, <3>2, <3>3, <3>4, <3>5 DEF V
  <2>9. g[T] \in Int
    BY <2>5, <2>7
  <2>. QED  BY <2>5, <2>7, <2>8, <2>9
<1>4. g[{}] = 0
  BY <1>1
<1>. QED  BY <1>3, <1>4

(* A sum of what is nowhere larger, over no more that counts.              *)
LEMMA SumsCompare ==
  ASSUME NEW f, NEW g, Sums(g, f), Integral(f),
         NEW e, NEW h, Sums(h, e), Integral(e),
         DOMAIN e \subseteq DOMAIN f,
         \A x \in DOMAIN f : f[x] <= IF x \in DOMAIN e THEN e[x] ELSE 0
  PROVE  g[DOMAIN f] <= h[DOMAIN e]
<1>. DEFINE R == DOMAIN e
            Bad == {T \in SUBSET DOMAIN f : ~(g[T] <= h[T \cap R])}
<1>1. /\ g[{}] = 0 /\ h[{}] = 0
      /\ \A T \in SUBSET DOMAIN f : g[T] \in Int /\ \A x \in T : g[T] = f[x] + g[T \ {x}]
      /\ \A T \in SUBSET R : h[T] \in Int /\ \A x \in T : h[T] = e[x] + h[T \ {x}]
  <2>1. /\ g[{}] = 0
        /\ \A T \in SUBSET DOMAIN f : g[T] \in Int /\ \A x \in T : g[T] = f[x] + g[T \ {x}]
    BY SumsAdd
  <2>2. /\ h[{}] = 0
        /\ \A T \in SUBSET DOMAIN e : h[T] \in Int /\ \A x \in T : h[T] = e[x] + h[T \ {x}]
    BY SumsAdd
  <2>. QED  BY <2>1, <2>2
<1>. USE DEF Integral
<1>2. ASSUME Bad # {} PROVE FALSE
  <2>1. \A T \in SUBSET DOMAIN f : IsFiniteSet(T) /\ Cardinality(T) \in Nat
    BY FS_Subset, FS_CardinalityType
  <2>2. PICK T \in Bad : \A U \in Bad : Cardinality(T) <= Cardinality(U)
    <3>1. \A U \in Bad : IsFiniteSet(U)
      BY <2>1
    <3>. HIDE DEF Bad
    <3>. QED  BY <1>2, <3>1, SmallestSet
  <2>3. T \in SUBSET DOMAIN f /\ ~(g[T] <= h[T \cap R])
    BY <2>2
  <2>4. T # {}
    <3>1. {} \cap R = {} /\ 0 <= 0
      OBVIOUS
    <3>2. ASSUME T = {} PROVE g[T] <= h[T \cap R]
      <4>1. T \cap R = {}
        BY <3>2
      <4>2. h[T \cap R] = h[{}]
        BY <4>1
      <4>. QED  BY <1>1, <3>2, <4>2
    <3>. QED  BY <2>3, <3>2
  <2>5. PICK x \in T : TRUE
    BY <2>4
  <2>. DEFINE U == T \ {x}
  <2>6. U \in SUBSET DOMAIN f /\ g[U] <= h[U \cap R]
    <3>1. Cardinality(U) < Cardinality(T) /\ U \in SUBSET DOMAIN f
      BY <2>1, <2>3, FS_RemoveElement
    <3>. HIDE DEF U, R
    <3>. QED  BY <2>1, <2>2, <3>1
  <2>7. g[T] = f[x] + g[U] /\ g[T] \in Int /\ g[U] \in Int /\ f[x] \in Int
    BY <1>1, <2>3
  <2>8. CASE x \in R
    <3>1. T \cap R \in SUBSET R /\ x \in T \cap R /\ U \cap R \in SUBSET R
      BY <2>8
    <3>2. (T \cap R) \ {x} = U \cap R
      OBVIOUS
    <3>3. h[(T \cap R) \ {x}] = h[U \cap R]
      <4>. HIDE DEF U, R
      <4>. QED  BY <3>2
    <3>4. h[T \cap R] = e[x] + h[(T \cap R) \ {x}]
      <4>. HIDE DEF R
      <4>. QED  BY <1>1, <3>1
    <3>5. e[x] \in Int /\ f[x] <= e[x] /\ h[U \cap R] \in Int
      BY <1>1, <2>3, <2>8, <3>1
    <3>. HIDE DEF U, R
    <3>. QED  BY <2>3, <2>6, <2>7, <3>3, <3>4, <3>5
  <2>9. CASE x \notin R
    <3>1. T \cap R = U \cap R
      BY <2>9
    <3>2. h[T \cap R] = h[U \cap R]
      <4>. HIDE DEF U, R
      <4>. QED  BY <3>1
    <3>3. f[x] <= 0 /\ h[U \cap R] \in Int
      BY <1>1, <2>3, <2>9
    <3>. HIDE DEF U, R
    <3>. QED  BY <2>3, <2>6, <2>7, <3>2, <3>3
  <2>. QED  BY <2>8, <2>9
<1>3. g[DOMAIN f] <= h[DOMAIN f \cap R]
  BY <1>2
<1>4. DOMAIN f \cap R = R
  OBVIOUS
<1>5. h[DOMAIN f \cap R] = h[R]
  <2>. HIDE DEF R
  <2>. QED  BY <1>4
<1>. QED  BY <1>3, <1>5

(* A sum of natural numbers is one, and no more than as many of a bound.   *)
LEMMA SumsBounded ==
  ASSUME NEW f, NEW g, Sums(g, f), IsFiniteSet(DOMAIN f), \A x \in DOMAIN f : f[x] \in Nat
  PROVE  /\ g[DOMAIN f] \in Nat
         /\ \A c \in Nat : (\A x \in DOMAIN f : f[x] <= c) => g[DOMAIN f] <= Cardinality(DOMAIN f) * c
<1>1. /\ g[{}] = 0
      /\ \A T \in SUBSET DOMAIN f : g[T] \in Int /\ \A x \in T : g[T] = f[x] + g[T \ {x}]
  <2>1. Integral(f)
    BY DEF Integral
  <2>. QED  BY <2>1, SumsAdd
<1>. DEFINE Below(T) == /\ g[T] \in Nat
                        /\ \A c \in Nat : (\A x \in T : f[x] <= c) => g[T] <= Cardinality(T) * c
            Bad == {T \in SUBSET DOMAIN f : ~Below(T)}
<1>2. ASSUME Bad # {} PROVE FALSE
  <2>1. \A T \in SUBSET DOMAIN f : IsFiniteSet(T) /\ Cardinality(T) \in Nat
    BY FS_Subset, FS_CardinalityType
  <2>2. PICK T \in Bad : \A U \in Bad : Cardinality(T) <= Cardinality(U)
    <3>. HIDE DEF Below
    <3>1. \A U \in Bad : IsFiniteSet(U)
      BY <2>1
    <3>. HIDE DEF Bad
    <3>. QED  BY <1>2, <3>1, SmallestSet
  <2>3. T \in SUBSET DOMAIN f /\ ~Below(T) /\ Cardinality(T) \in Nat
    BY <2>1, <2>2
  <2>4. T # {}
    <3>1. \A c \in Nat : 0 <= 0 * c
      OBVIOUS
    <3>2. Cardinality({}) = 0
      BY FS_EmptySet
    <3>. QED  BY <1>1, <2>3, <3>1, <3>2
  <2>5. PICK x \in T : TRUE
    BY <2>4
  <2>. DEFINE U == T \ {x}
  <2>6. U \in SUBSET DOMAIN f /\ Cardinality(U) = Cardinality(T) - 1
    BY <2>1, <2>3, FS_RemoveElement
  <2>7. Below(U)
    <3>. HIDE DEF U, Below
    <3>. QED  BY <2>2, <2>3, <2>6
  <2>8. g[T] = f[x] + g[U] /\ f[x] \in Nat
    BY <1>1, <2>3
  <2>9. ASSUME NEW c \in Nat, \A y \in T : f[y] <= c PROVE g[T] <= Cardinality(T) * c
    <3>1. f[x] <= c /\ g[U] \in Nat /\ g[U] <= Cardinality(U) * c
      BY <2>7, <2>9
    <3>2. \A m \in Nat : (m - 1) * c + c = m * c /\ (m - 1) * c \in Int /\ m * c \in Int
      OBVIOUS
    <3>3. /\ (Cardinality(T) - 1) * c + c = Cardinality(T) * c
          /\ (Cardinality(T) - 1) * c \in Int /\ Cardinality(T) * c \in Int
      BY <2>3, <3>2
    <3>. HIDE DEF U
    <3>. QED  BY <2>6, <2>8, <3>1, <3>3
  <2>10. g[T] \in Nat
    BY <2>7, <2>8
  <2>. QED  BY <2>3, <2>9, <2>10
<1>. QED  BY <1>2

LEMMA ProductGrows ==
  ASSUME NEW c \in Nat, NEW m \in Nat, NEW n \in Nat, m <= n
  PROVE  m * c <= n * c
OBVIOUS

(* SumFunction is such a sum. *)
LEMMA SumFunctionIs ==
  ASSUME NEW f, IsFiniteSet(DOMAIN f)
  PROVE  \E g : Sums(g, f) /\ SumFunction(f) = g[DOMAIN f]
<1>. DEFINE F(g) == g = [T \in SUBSET DOMAIN f |->
                     IF T = {} THEN 0 ELSE f[CHOOSE x \in T : TRUE] + g[T \ {CHOOSE x \in T : TRUE}]]
            total == CHOOSE g : F(g)
<1>1. SumFunction(f) = total[DOMAIN f]
  BY DEF SumFunction, SumFunctionOnSet, FoldFunctionOnSet, MapThenFoldSet
<1>2. F(total)
  <2>1. \E g : F(g)
    BY SumsExist DEF Sums
  <2>. HIDE DEF F
  <2>. QED  BY <2>1
<1>3. Sums(total, f)
  <2>. HIDE DEF total
  <2>. QED  BY <1>2 DEF Sums
<1>. HIDE DEF total
<1>. QED  BY <1>1, <1>3

LEMMA SumBounded ==
  ASSUME NEW f, IsFiniteSet(DOMAIN f), \A x \in DOMAIN f : f[x] \in Nat
  PROVE  /\ SumFunction(f) \in Nat
         /\ \A c \in Nat :
              (\A x \in DOMAIN f : f[x] <= c) => SumFunction(f) <= Cardinality(DOMAIN f) * c
         /\ DOMAIN f = {} => SumFunction(f) = 0
<1>1. PICK g : Sums(g, f) /\ SumFunction(f) = g[DOMAIN f]
  BY SumFunctionIs
<1>2. /\ g[DOMAIN f] \in Nat
      /\ \A c \in Nat : (\A x \in DOMAIN f : f[x] <= c) => g[DOMAIN f] <= Cardinality(DOMAIN f) * c
  BY <1>1, SumsBounded
<1>3. DOMAIN f = {} => g[DOMAIN f] = 0
  <2>1. g[{}] = 0
    BY <1>1 DEF Sums
  <2>. QED  BY <2>1
<1>. QED  BY <1>1, <1>2, <1>3

LEMMA SumCompare ==
  ASSUME NEW f, Integral(f), NEW e, Integral(e), DOMAIN e \subseteq DOMAIN f,
         \A x \in DOMAIN f : f[x] <= IF x \in DOMAIN e THEN e[x] ELSE 0
  PROVE  SumFunction(f) <= SumFunction(e)
<1>1. PICK g : Sums(g, f) /\ SumFunction(f) = g[DOMAIN f]
  BY SumFunctionIs DEF Integral
<1>2. PICK h : Sums(h, e) /\ SumFunction(e) = h[DOMAIN e]
  BY SumFunctionIs DEF Integral
<1>. QED  BY <1>1, <1>2, SumsCompare

-----------------------------------------------------------------------------
(* The byte model. *)

LEMMA MeasuredIs ==
  ASSUME NEW v \in Value
  PROVE  MeasureValueSize(v) \in Nat
<1>1. v.sizes \in Seq(Nat) /\ v.list \in BOOLEAN
  BY DEF Value
<1>. DEFINE s == v.sizes
<1>. HIDE DEF s
<1>2. IsFiniteSet(DOMAIN s) /\ \A x \in DOMAIN s : s[x] \in Nat
  BY <1>1, FS_Interval DEF s
<1>3. SumFunction(s) \in Nat
  BY <1>2, SumBounded
<1>. QED  BY <1>1, <1>3 DEF MeasureValueSize, s

(* A longer key, or a larger value, takes no fewer bytes. *)
LEMMA EntryDataGrows ==
  ASSUME NEW key \in Nat, NEW size \in Nat, NEW longer \in Nat, NEW larger \in Nat,
         key <= longer, size <= larger
  PROVE  /\ EntryDataBytes(key, size) \in Nat
         /\ EntryDataBytes(key, size) <= EntryDataBytes(longer, larger)
<1>. DEFINE pages(n) == 4096 * ((16 + n + 4096 - 1) \div 4096)
<1>1. ASSUME NEW n \in Nat PROVE pages(n) \in Nat /\ pages(n) >= 16 + n
  OBVIOUS
<1>2. pages(size) <= pages(larger)
  OBVIOUS
<1>. HIDE DEF pages
<1>3. \A k, n \in Nat : EntryDataBytes(k, n) = 10 + k + IF k + n > 2013 THEN 8 + pages(n) ELSE n
  BY DEF EntryDataBytes, EntryOverhead, OverflowsLeafPage, LMDB_INDEX_POINTER, LMDB_NODE_HEADER,
         LMDB_INPAGE_KEY_PLUS_VALUE_MAX, LMDB_OVERFLOW_PAGE_ID, LMDB_PAGE_SIZE_DEFAULT,
         LMDB_PAGE_HEADER, pages
<1>4. /\ pages(size) \in Nat /\ pages(size) >= 16 + size
      /\ pages(larger) \in Nat /\ pages(larger) >= 16 + larger
  BY <1>1
<1>5. /\ EntryDataBytes(key, size) = 10 + key + IF key + size > 2013 THEN 8 + pages(size) ELSE size
      /\ EntryDataBytes(longer, larger)
           = 10 + longer + IF longer + larger > 2013 THEN 8 + pages(larger) ELSE larger
  BY <1>3
<1>6. CASE key + size > 2013
  <2>1. longer + larger > 2013
    BY <1>6
  <2>. QED  BY <1>2, <1>4, <1>5, <1>6, <2>1
<1>7. CASE ~(key + size > 2013)
  BY <1>4, <1>5, <1>7
<1>. QED  BY <1>6, <1>7

LEMMA EntryDataIs == \A key, size \in Nat : EntryDataBytes(key, size) \in Nat
<1>. SUFFICES ASSUME NEW key \in Nat, NEW size \in Nat PROVE EntryDataBytes(key, size) \in Nat
  OBVIOUS
<1>1. key <= key /\ size <= size
  OBVIOUS
<1>. QED  BY <1>1, EntryDataGrows

LEMMA DigitsGrow ==
  ASSUME NEW i \in Int, NEW j \in Int, i <= j
  PROVE  Digits(i) \in 1 .. 10 /\ Digits(j) \in 1 .. 10 /\ Digits(i) <= Digits(j)
<1>. DEFINE Below(n) == {p \in PowersOfTen : p <= n}
<1>1. IsFiniteSet(PowersOfTen) /\ Cardinality(PowersOfTen) <= 9
  <2>. DEFINE power == <<10, 100, 1000, 10000, 100000, 1000000, 10000000, 100000000, 1000000000>>
  <2>1. power = [n \in 1 .. 9 |-> power[n]]
    OBVIOUS
  <2>2. \A n \in 1 .. 9 : power[n] \in PowersOfTen
    BY DEF PowersOfTen
  <2>3. \A p \in PowersOfTen : \E n \in 1 .. 9 : power[n] = p
    BY DEF PowersOfTen
  <2>. HIDE DEF power
  <2>4. power \in Surjection(1 .. 9, PowersOfTen)
    BY <2>1, <2>2, <2>3 DEF Surjection
  <2>5. IsFiniteSet(1 .. 9) /\ Cardinality(1 .. 9) = 9
    <3>1. Cardinality(1 .. 9) = IF 1 > 9 THEN 0 ELSE 9 - 1 + 1
      BY FS_Interval, 1 \in Int, 9 \in Int, Zenon
    <3>2. IsFiniteSet(1 .. 9)
      BY FS_Interval, 1 \in Int, 9 \in Int, Zenon
    <3>. QED  BY <3>1, <3>2
  <2>. QED  BY <2>4, <2>5, FS_Surjection
<1>2. \A n \in Int : IsFiniteSet(Below(n)) /\ Cardinality(Below(n)) \in 0 .. 9
  BY <1>1, FS_Subset, FS_CardinalityType
<1>3. Below(i) \subseteq Below(j)
  BY DEF PowersOfTen
<1>4. Cardinality(Below(i)) <= Cardinality(Below(j))
  BY <1>2, <1>3, FS_Subset
<1>. QED  BY <1>2, <1>4 DEF Digits

LEMMA DataKeyGrows ==
  ASSUME NEW k \in Key, NEW i \in Nat, NEW j \in Nat, i <= j
  PROVE  /\ FifoDataKeySize(k, i) \in Nat /\ FifoDataKeySize(k, j) \in Nat
         /\ FifoDataKeySize(k, i) <= FifoDataKeySize(k, j)
BY KeyAssumption, DigitsGrow DEF FifoDataKeySize

-----------------------------------------------------------------------------
(* One box.  Its cell, or its ring, holds values its strategy admits, in   *)
(* slots the cursors enclose.                                              *)

(* What the schema and the wiring leave of a strategy. *)
Sound(s) ==
  /\ s.name \in LmdbNames
  /\ s.valueSizeMax \in Nat /\ s.queueSizeMax \in Int
  /\ s.name = "lmdb-fifo" => s.queueSizeMax >= 2

Admitted(v, s) == v \in Value /\ ValueSizeFits(v, s)

Enclosed(i, tail, head) ==
  IF tail <= head THEN tail <= i /\ i < head ELSE tail <= i \/ i < head

Ring(b, n) ==
  /\ Cursor(b.head) \in 0 .. n - 1 /\ Cursor(b.tail) \in 0 .. n - 1
  /\ \A i \in DOMAIN b.data : i \in 0 .. n - 1 /\ Enclosed(i, Cursor(b.tail), Cursor(b.head))

Within(b, s) ==
  /\ IsBox(b)
  /\ IF s.name = "lmdb-kv"
     THEN /\ b.head = None /\ b.tail = None /\ DOMAIN b.data = {}
          /\ b.cell = None \/ Admitted(b.cell, s)
     ELSE /\ b.cell = None /\ Ring(b, s.queueSizeMax)
          /\ \A i \in DOMAIN b.data : Admitted(b.data[i], s)

LEMMA NextSlotIs ==
  ASSUME NEW n \in Int, NEW i \in 0 .. n - 1
  PROVE  NextSlot(i, n) = IF i + 1 = n THEN 0 ELSE i + 1
<1>1. i + 1 \in Nat /\ n \in Nat \ {0} /\ i + 1 <= n
  OBVIOUS
<1>2. NextSlot(i, n) = (i + 1) % n
  BY <1>1 DEF NextSlot, Rem
<1>. QED  BY <1>1, <1>2

LEMMA EnclosedByPut ==
  ASSUME NEW n \in Int, NEW tail \in 0 .. n - 1, NEW head \in 0 .. n - 1, NEW i \in 0 .. n - 1,
         i = head \/ Enclosed(i, tail, head), NextSlot(head, n) # tail
  PROVE  Enclosed(i, tail, NextSlot(head, n))
<1>1. NextSlot(head, n) = IF head + 1 = n THEN 0 ELSE head + 1
  BY NextSlotIs
<1>. QED  BY <1>1 DEF Enclosed

LEMMA EnclosedByGet ==
  ASSUME NEW n \in Int, NEW tail \in 0 .. n - 1, NEW head \in 0 .. n - 1, NEW i \in 0 .. n - 1,
         i # tail, Enclosed(i, tail, head), tail # head
  PROVE  Enclosed(i, NextSlot(tail, n), head)
<1>1. NextSlot(tail, n) = IF tail + 1 = n THEN 0 ELSE tail + 1
  BY NextSlotIs
<1>. QED  BY <1>1 DEF Enclosed

LEMMA NextIsCursor ==
  ASSUME NEW n \in Int, NEW i \in 0 .. n - 1
  PROVE  NextSlot(i, n) \in 0 .. n - 1 /\ Cursor(NextSlot(i, n)) = NextSlot(i, n)
<1>1. NextSlot(i, n) \in 0 .. n - 1
  BY NextSlotIs
<1>2. NextSlot(i, n) # None
  BY <1>1, ValueAssumption
<1>. QED  BY <1>1, <1>2 DEF Cursor

LEMMA EmptyIsWithin ==
  ASSUME NEW s, Sound(s)
  PROVE  Within(EmptyBox, s)
BY DEF Within, EmptyBox, IsBox, Ring, Cursor, Sound, LmdbNames

LEMMA PutWithin ==
  ASSUME NEW s, Sound(s), NEW b, Within(b, s), NEW k, NEW v \in Value, PutTaken(b, k, s, v)
  PROVE  Within(Put(b, s, v), s)
<1>1. CASE s.name = "lmdb-kv"
  <2>1. Put(b, s, v) = [b EXCEPT !.cell = v]
    BY <1>1 DEF Put
  <2>2. Admitted(v, s)
    BY <1>1 DEF PutTaken, StoreTakes, Admitted
  <2>. QED  BY <1>1, <2>1, <2>2 DEF Within, IsBox
<1>2. CASE s.name # "lmdb-kv"
  <2>. DEFINE n == s.queueSizeMax
              head == Cursor(b.head)
              tail == Cursor(b.tail)
              next == NextSlot(head, n)
              data == [i \in DOMAIN b.data \cup {head} |-> IF i = head THEN v ELSE b.data[i]]
              after == [b EXCEPT !.head = next, !.data = data]
  <2>1. Put(b, s, v) = after /\ next # tail
    BY <1>2 DEF Put, PutTaken
  <2>2. /\ n \in Int /\ head \in 0 .. n - 1 /\ tail \in 0 .. n - 1
        /\ \A i \in DOMAIN b.data : /\ i \in 0 .. n - 1 /\ Enclosed(i, tail, head)
                                    /\ Admitted(b.data[i], s)
        /\ IsBox(b) /\ b.cell = None
    BY <1>2 DEF Sound, Within, Ring
  <2>3. Admitted(v, s)
    BY DEF PutTaken, StoreTakes, Admitted
  <2>. HIDE DEF n, head, tail
  <2>4. next \in 0 .. n - 1 /\ Cursor(next) = next
    BY <2>2, NextIsCursor
  <2>5. \A i \in DOMAIN data : i \in 0 .. n - 1 /\ Enclosed(i, tail, next) /\ Admitted(data[i], s)
    BY <2>1, <2>2, <2>3, EnclosedByPut
  <2>. HIDE DEF next, data
  <2>6. /\ IsBox(after) /\ after.cell = None
        /\ after.head = next /\ after.tail = b.tail /\ after.data = data
    <3>1. PICK c, h, t, d : b = [cell |-> c, head |-> h, tail |-> t, data |-> d]
      BY <2>2 DEF IsBox
    <3>2. after = [cell |-> c, head |-> next, tail |-> t, data |-> data]
      <4>. DEFINE moved == [b EXCEPT !.head = next]
      <4>1. moved = [cell |-> c, head |-> next, tail |-> t, data |-> d]
        BY <3>1
      <4>2. after = [moved EXCEPT !.data = data]
        OBVIOUS
      <4>. HIDE DEF moved, after
      <4>. QED  BY <4>1, <4>2
    <3>3. b.cell = c /\ b.head = h /\ b.tail = t /\ b.cell = None
      BY <2>2, <3>1
    <3>. HIDE DEF after
    <3>. QED  BY <3>2, <3>3 DEF IsBox
  <2>. HIDE DEF after
  <2>7. Ring(after, n)
    BY <2>2, <2>4, <2>5, <2>6 DEF Ring, tail
  <2>. QED  BY <1>2, <2>1, <2>5, <2>6, <2>7 DEF Within, n
<1>. QED  BY <1>1, <1>2

LEMMA GotWithin ==
  ASSUME NEW s, Sound(s), NEW b, Within(b, s)
  PROVE  GetFinds(b, s) => Within(Got(b, s), s)
<1>1. CASE s.name = "lmdb-kv"
  BY <1>1 DEF Got
<1>2. CASE s.name # "lmdb-kv"
  <2>. DEFINE n == s.queueSizeMax
              head == Cursor(b.head)
              tail == Cursor(b.tail)
              next == NextSlot(tail, n)
              data == [i \in DOMAIN b.data \ {tail} |-> b.data[i]]
              after == [b EXCEPT !.tail = next, !.data = data]
  <2>1. Got(b, s) = after /\ (GetFinds(b, s) <=> head # tail)
    BY <1>2 DEF Got, GetFinds
  <2>2. /\ n \in Int /\ head \in 0 .. n - 1 /\ tail \in 0 .. n - 1
        /\ \A i \in DOMAIN b.data : /\ i \in 0 .. n - 1 /\ Enclosed(i, tail, head)
                                    /\ Admitted(b.data[i], s)
        /\ IsBox(b) /\ b.cell = None
    BY <1>2 DEF Sound, Within, Ring
  <2>. SUFFICES ASSUME head # tail PROVE Within(after, s)
    BY <2>1
  <2>. HIDE DEF n, head, tail
  <2>3. next \in 0 .. n - 1 /\ Cursor(next) = next
    BY <2>2, NextIsCursor
  <2>4. \A i \in DOMAIN data : i \in 0 .. n - 1 /\ Enclosed(i, next, head) /\ Admitted(data[i], s)
    BY <2>2, EnclosedByGet
  <2>. HIDE DEF next, data
  <2>5. /\ IsBox(after) /\ after.cell = None
        /\ after.head = b.head /\ after.tail = next /\ after.data = data
    <3>1. PICK c, h, t, d : b = [cell |-> c, head |-> h, tail |-> t, data |-> d]
      BY <2>2 DEF IsBox
    <3>2. after = [cell |-> c, head |-> h, tail |-> next, data |-> data]
      <4>. DEFINE moved == [b EXCEPT !.tail = next]
      <4>1. moved = [cell |-> c, head |-> h, tail |-> next, data |-> d]
        BY <3>1
      <4>2. after = [moved EXCEPT !.data = data]
        OBVIOUS
      <4>. HIDE DEF moved, after
      <4>. QED  BY <4>1, <4>2
    <3>3. b.cell = c /\ b.head = h /\ b.tail = t /\ b.cell = None
      BY <2>2, <3>1
    <3>. HIDE DEF after
    <3>. QED  BY <3>2, <3>3 DEF IsBox
  <2>. HIDE DEF after
  <2>6. Ring(after, n)
    BY <2>2, <2>3, <2>4, <2>5 DEF Ring, head
  <2>. QED  BY <1>2, <2>4, <2>5, <2>6 DEF Within, n
<1>. QED  BY <1>1, <1>2

(* A ring of n slots that keeps one free holds n - 1 entries at most. *)
LEMMA RingHoldsFewer ==
  ASSUME NEW b, NEW n \in Int, Ring(b, n)
  PROVE  /\ IsFiniteSet(DOMAIN b.data) /\ Cardinality(DOMAIN b.data) \in Nat
         /\ Cardinality(DOMAIN b.data) <= n - 1
<1>. DEFINE head == Cursor(b.head)
            slots == 0 .. n - 1
<1>1. head \in slots /\ DOMAIN b.data \subseteq slots \ {head}
  BY DEF Ring, Enclosed
<1>2. IsFiniteSet(slots) /\ Cardinality(slots) = n
  BY <1>1, FS_Interval
<1>. HIDE DEF head, slots
<1>3. IsFiniteSet(slots \ {head}) /\ Cardinality(slots \ {head}) = n - 1
  BY <1>1, <1>2, FS_RemoveElement
<1>. QED  BY <1>1, <1>3, FS_Subset, FS_CardinalityType

LEMMA CursorBytesAre == \A k \in Key : CursorBytes(k) \in Nat
BY KeyAssumption
DEF CursorBytes, EntryOverhead, FifoCursorKeySize, LMDB_INDEX_POINTER, LMDB_NODE_HEADER,
    LMDB_FIFO_CURSOR_BYTES

CursorCount(b) == Cardinality({c \in {"head", "tail"} : b[c] # None})

LEMMA CursorCountIs ==
  ASSUME NEW b
  PROVE  /\ CursorCount(b) \in 0 .. 2
         /\ b["head"] = None /\ b["tail"] = None => CursorCount(b) = 0
<1>. DEFINE C == {c \in {"head", "tail"} : b[c] # None}
            both == {"head", "tail"}
<1>1. IsFiniteSet(both) /\ Cardinality(both) = 2
  <2>1. IsFiniteSet({"tail"}) /\ Cardinality({"tail"}) = 1
    BY FS_Singleton
  <2>2. both = {"tail"} \cup {"head"}
    OBVIOUS
  <2>. QED  BY <2>1, <2>2, FS_AddElement
<1>2. C \subseteq both
  OBVIOUS
<1>3. b["head"] = None /\ b["tail"] = None => C = {}
  OBVIOUS
<1>. HIDE DEF C, both
<1>4. Cardinality(C) \in Nat /\ Cardinality(C) <= 2
  BY <1>1, <1>2, FS_Subset, FS_CardinalityType
<1>5. b["head"] = None /\ b["tail"] = None => Cardinality(C) = 0
  BY <1>3, FS_EmptySet
<1>. QED  BY <1>4, <1>5 DEF CursorCount, C

DataBytesOf(b, k) ==
  SumFunction([i \in DOMAIN b.data |-> EntryDataBytes(FifoDataKeySize(k, i), MeasureValueSize(b.data[i]))])

LEMMA EmptyHasNoBytes == \A k \in Key : BoxBytes(EmptyBox, k) = 0
<1>. SUFFICES ASSUME NEW k \in Key PROVE BoxBytes(EmptyBox, k) = 0
  OBVIOUS
<1>1. EmptyBox.cell = None /\ EmptyBox["head"] = None /\ EmptyBox["tail"] = None
      /\ DOMAIN EmptyBox.data = {}
  BY DEF EmptyBox
<1>2. CursorCount(EmptyBox) = 0
  BY <1>1, CursorCountIs
<1>3. DataBytesOf(EmptyBox, k) = 0
  <2>. DEFINE f == [i \in DOMAIN EmptyBox.data |->
                      EntryDataBytes(FifoDataKeySize(k, i), MeasureValueSize(EmptyBox.data[i]))]
  <2>1. DOMAIN f = {} /\ IsFiniteSet(DOMAIN f) /\ \A x \in DOMAIN f : f[x] \in Nat
    BY <1>1, FS_EmptySet
  <2>2. DataBytesOf(EmptyBox, k) = SumFunction(f)
    BY DEF DataBytesOf
  <2>. HIDE DEF f
  <2>. QED  BY <2>1, <2>2, SumBounded
<1>4. BoxBytes(EmptyBox, k)
        = (IF EmptyBox.cell = None THEN 0 ELSE EntryDataBytes(KeySize[k], MeasureValueSize(EmptyBox.cell)))
          + DataBytesOf(EmptyBox, k) + CursorCount(EmptyBox) * CursorBytes(k)
  BY DEF BoxBytes, DataBytesOf, CursorCount
<1>5. CursorBytes(k) \in Nat
  BY CursorBytesAre
<1>. QED  BY <1>1, <1>2, <1>3, <1>4, <1>5

(* What a box takes is at most what its strategy is provisioned with. *)
LEMMA BoxWithinBudget ==
  ASSUME NEW k \in Key, NEW s, Sound(s), NEW b, Within(b, s)
  PROVE  /\ BoxBytes(b, k) \in Nat
         /\ BoxBytes(b, k) <= BudgetForKey(k, s).dataBytesMax
<1>. DEFINE cell == IF b.cell = None THEN 0 ELSE EntryDataBytes(KeySize[k], MeasureValueSize(b.cell))
            count == CursorCount(b)
            data == DataBytesOf(b, k)
            f == [i \in DOMAIN b.data |-> EntryDataBytes(FifoDataKeySize(k, i), MeasureValueSize(b.data[i]))]
<1>1. BoxBytes(b, k) = cell + data + count * CursorBytes(k)
  BY DEF BoxBytes, DataBytesOf, CursorCount
<1>2. data = SumFunction(f)
  BY DEF DataBytesOf
<1>3. CursorBytes(k) \in Nat /\ KeySize[k] \in Nat /\ s.valueSizeMax \in Nat
  BY CursorBytesAre, KeyAssumption DEF Sound
<1>4. count \in 0 .. 2 /\ (b["head"] = None /\ b["tail"] = None => count = 0)
  BY CursorCountIs
<1>5. \A v : Admitted(v, s) =>
        MeasureValueSize(v) \in Nat /\ MeasureValueSize(v) <= s.valueSizeMax
  BY MeasuredIs DEF Admitted, ValueSizeFits
<1>6. CASE s.name = "lmdb-kv"
  <2>1. /\ b.head = None /\ b.tail = None /\ DOMAIN b.data = {}
        /\ b.cell = None \/ Admitted(b.cell, s)
    BY <1>6 DEF Within
  <2>2. count = 0
    BY <1>4, <2>1
  <2>3. data = 0
    <3>1. DOMAIN f = {} /\ IsFiniteSet(DOMAIN f) /\ \A x \in DOMAIN f : f[x] \in Nat
      BY <2>1, FS_EmptySet
    <3>. HIDE DEF f
    <3>. QED  BY <1>2, <3>1, SumBounded
  <2>. DEFINE c == EntryDataBytes(KeySize[k], s.valueSizeMax)
  <2>4. cell \in Nat /\ c \in Nat /\ cell <= c
    <3>0. c \in Nat
      BY <1>3, EntryDataIs
    <3>1. CASE b.cell = None
      BY <3>0, <3>1
    <3>2. CASE b.cell # None
      <4>. DEFINE size == MeasureValueSize(b.cell)
      <4>1. size \in Nat /\ size <= s.valueSizeMax
        BY <1>5, <2>1, <3>2
      <4>. DEFINE key == KeySize[k]
                  larger == s.valueSizeMax
      <4>2. cell = EntryDataBytes(key, size) /\ c = EntryDataBytes(key, larger)
        BY <3>2
      <4>3. key \in Nat /\ size \in Nat /\ larger \in Nat /\ key <= key /\ size <= larger
        BY <1>3, <4>1
      <4>. HIDE DEF size, cell, key, larger, c
      <4>4. /\ EntryDataBytes(key, size) \in Nat
            /\ EntryDataBytes(key, size) <= EntryDataBytes(key, larger)
        BY <4>3, EntryDataGrows
      <4>. QED  BY <3>0, <4>2, <4>4
    <3>. QED  BY <3>1, <3>2
  <2>5. BudgetForKey(k, s).dataBytesMax = c
    BY <1>6 DEF BudgetForKey, BudgetForKvKey
  <2>. HIDE DEF cell, data, count, c
  <2>. QED  BY <1>1, <1>3, <2>2, <2>3, <2>4, <2>5
<1>7. CASE s.name # "lmdb-kv"
  <2>. DEFINE n == s.queueSizeMax
              c == EntryDataBytes(FifoDataKeySize(k, n - 1), s.valueSizeMax)
              entries == Cardinality(DOMAIN b.data)
  <2>1. /\ n \in Int /\ n >= 2 /\ b.cell = None /\ Ring(b, n)
        /\ \A i \in DOMAIN b.data : Admitted(b.data[i], s)
    BY <1>7 DEF Sound, Within, LmdbNames
  <2>2. cell = 0
    BY <2>1
  <2>3. IsFiniteSet(DOMAIN b.data) /\ entries \in Nat /\ entries <= n - 1
    BY <2>1, RingHoldsFewer
  <2>4. FifoDataKeySize(k, n - 1) \in Nat /\ c \in Nat
    <3>1. n - 1 \in Nat
      BY <2>1
    <3>2. FifoDataKeySize(k, n - 1) \in Nat
      BY <3>1, DataKeyGrows
    <3>. QED  BY <1>3, <3>2, EntryDataIs
  <2>5. ASSUME NEW i \in DOMAIN b.data PROVE f[i] \in Nat /\ f[i] <= c
    <3>. DEFINE size == MeasureValueSize(b.data[i])
    <3>1. size \in Nat /\ size <= s.valueSizeMax
      BY <1>5, <2>1
    <3>2. i \in Nat /\ n - 1 \in Nat /\ i <= n - 1
      BY <2>1 DEF Ring
    <3>3. f[i] = EntryDataBytes(FifoDataKeySize(k, i), size)
      OBVIOUS
    <3>. HIDE DEF size, f, n
    <3>4. FifoDataKeySize(k, i) \in Nat /\ FifoDataKeySize(k, i) <= FifoDataKeySize(k, n - 1)
      BY <3>2, DataKeyGrows
    <3>. DEFINE key == FifoDataKeySize(k, i)
                longer == FifoDataKeySize(k, n - 1)
                larger == s.valueSizeMax
    <3>5. /\ f[i] = EntryDataBytes(key, size) /\ c = EntryDataBytes(longer, larger)
          /\ key \in Nat /\ size \in Nat /\ longer \in Nat /\ larger \in Nat
          /\ key <= longer /\ size <= larger
      BY <1>3, <2>4, <3>1, <3>3, <3>4
    <3>. HIDE DEF key, longer, larger, c
    <3>. QED  BY <3>5, EntryDataGrows
  <2>6. data \in Nat /\ data <= entries * c
    <3>1. IsFiniteSet(DOMAIN f) /\ (\A x \in DOMAIN f : f[x] \in Nat) /\ \A x \in DOMAIN f : f[x] <= c
      BY <2>3, <2>5
    <3>2. DOMAIN f = DOMAIN b.data
      OBVIOUS
    <3>. HIDE DEF f, data, c
    <3>3. SumFunction(f) \in Nat /\ SumFunction(f) <= Cardinality(DOMAIN f) * c
      BY <2>4, <3>1, SumBounded
    <3>. QED  BY <1>2, <3>2, <3>3
  <2>7. entries * c <= (n - 1) * c
    <3>1. n - 1 \in Nat
      BY <2>1
    <3>. HIDE DEF n, c, entries
    <3>. QED  BY <2>3, <2>4, <3>1, ProductGrows
  <2>8. count * CursorBytes(k) \in Nat /\ count * CursorBytes(k) <= 2 * CursorBytes(k)
    <3>. HIDE DEF count
    <3>1. count = 0 \/ count = 1 \/ count = 2
      BY <1>4
    <3>. QED  BY <1>3, <3>1
  <2>9. BudgetForKey(k, s).dataBytesMax = (n - 1) * c + 2 * CursorBytes(k)
    BY <1>7 DEF BudgetForKey, BudgetForFifoKey
  <2>10. (n - 1) * c \in Int /\ entries * c \in Int
    <3>. HIDE DEF n, c, entries
    <3>. QED  BY <2>1, <2>3, <2>4
  <2>. DEFINE cursors == count * CursorBytes(k)
              most == (n - 1) * c
              some == entries * c
              double == 2 * CursorBytes(k)
  <2>11. double \in Nat
    BY <1>3
  <2>12. /\ BoxBytes(b, k) = cell + data + cursors
         /\ BudgetForKey(k, s).dataBytesMax = most + double
         /\ cursors \in Nat /\ cursors <= double
         /\ data <= some /\ some <= most /\ some \in Int /\ most \in Int
    BY <1>1, <2>6, <2>7, <2>8, <2>9, <2>10
  <2>. HIDE DEF cell, data, cursors, most, some, double
  <2>. QED  BY <2>2, <2>6, <2>11, <2>12
<1>. QED  BY <1>6, <1>7

LEMMA BudgetIsNatural ==
  ASSUME NEW k \in Key, NEW s, Sound(s)
  PROVE  BudgetForKey(k, s).dataBytesMax \in Nat
<1>1. CursorBytes(k) \in Nat /\ KeySize[k] \in Nat /\ s.valueSizeMax \in Nat
  BY CursorBytesAre, KeyAssumption DEF Sound
<1>2. CASE s.name = "lmdb-kv"
  <2>1. BudgetForKey(k, s).dataBytesMax = EntryDataBytes(KeySize[k], s.valueSizeMax)
    BY <1>2 DEF BudgetForKey, BudgetForKvKey
  <2>. QED  BY <1>1, <2>1, EntryDataIs
<1>3. CASE s.name # "lmdb-kv"
  <2>. DEFINE slots == s.queueSizeMax - 1
              c == EntryDataBytes(FifoDataKeySize(k, slots), s.valueSizeMax)
  <2>1. slots \in Nat
    BY <1>3 DEF Sound, LmdbNames
  <2>2. FifoDataKeySize(k, slots) \in Nat
    <3>. HIDE DEF slots
    <3>. QED  BY <2>1, DataKeyGrows
  <2>3. c \in Nat
    BY <1>1, <2>2, EntryDataIs
  <2>4. BudgetForKey(k, s).dataBytesMax = slots * c + 2 * CursorBytes(k)
    BY <1>3 DEF BudgetForKey, BudgetForFifoKey
  <2>. HIDE DEF slots, c
  <2>. QED  BY <1>1, <2>1, <2>3, <2>4
<1>. QED  BY <1>2, <1>3

(* There is nothing to get from a box nobody wrote. *)
LEMMA EmptyGivesNothing == ASSUME NEW s PROVE ~GetFinds(EmptyBox, s)
BY DEF GetFinds, EmptyBox, Cursor

-----------------------------------------------------------------------------
(* The boxes a run may change.  What a transaction does to the boxes is a  *)
(* fold of puts and a fold of gets; each goes through the results of its   *)
(* elements, and each element keeps what is said of the boxes here.        *)

Puts == INSTANCE FoldTheorems WITH Op <- PutIn
Gets == INSTANCE FoldTheorems WITH Op <- GetFrom

LEMMA PutsFold ==
  ASSUME NEW X, NEW s \in Seq(X), NEW b
  PROVE  \E r : /\ r[0] = b
                /\ \A k \in 1 .. Len(s) : r[k] = PutIn(r[k - 1], s[k])
                /\ FoldLeft(PutIn, b, s) = r[Len(s)]
<1>1. FoldLeft(PutIn, b, s) = Puts!FoldLeft(PutIn, b, s)
  BY DEF FoldLeft, MapThenFoldSet, Max, Puts!FoldLeft, Puts!MapThenFoldSet, Puts!Max
<1>2. \E r : /\ r[0] = b
             /\ \A k \in 1 .. Len(s) : r[k] = PutIn(r[k - 1], s[k])
             /\ Puts!FoldLeft(PutIn, b, s) = r[Len(s)]
  BY Puts!FoldSteps
<1>. QED  BY <1>1, <1>2

LEMMA PutsConcat ==
  ASSUME NEW X, NEW s \in Seq(X), NEW u \in Seq(X), NEW b
  PROVE  FoldLeft(PutIn, b, s \o u) = FoldLeft(PutIn, FoldLeft(PutIn, b, s), u)
<1>1. \A c, v : FoldLeft(PutIn, c, v) = Puts!FoldLeft(PutIn, c, v)
  BY DEF FoldLeft, MapThenFoldSet, Max, Puts!FoldLeft, Puts!MapThenFoldSet, Puts!Max
<1>2. Puts!FoldLeft(PutIn, b, s \o u) = Puts!FoldLeft(PutIn, Puts!FoldLeft(PutIn, b, s), u)
  BY Puts!FoldConcat
<1>. QED  BY <1>1, <1>2

LEMMA GetsFold ==
  ASSUME NEW X, NEW s \in Seq(X), NEW b
  PROVE  \E r : /\ r[0] = b
                /\ \A k \in 1 .. Len(s) : r[k] = GetFrom(r[k - 1], s[k])
                /\ FoldLeft(GetFrom, b, s) = r[Len(s)]
<1>1. FoldLeft(GetFrom, b, s) = Gets!FoldLeft(GetFrom, b, s)
  BY DEF FoldLeft, MapThenFoldSet, Max, Gets!FoldLeft, Gets!MapThenFoldSet, Gets!Max
<1>2. \E r : /\ r[0] = b
             /\ \A k \in 1 .. Len(s) : r[k] = GetFrom(r[k - 1], s[k])
             /\ Gets!FoldLeft(GetFrom, b, s) = r[Len(s)]
  BY Gets!FoldSteps
<1>. QED  BY <1>1, <1>2

BoxTable(x) ==
  DOMAIN x = {Me, Other} /\ \A w \in {Me, Other} : DOMAIN x[w] = Key

(* The keys whose bytes are counted as the workflow's own. *)
Provided(doc) == OwnDeclaredKeys(doc) \cup BoundKeys(doc)

LEMMA ProvidedIsOwn == \A doc : \A k \in Provided(doc) : Owner(doc, k) = None
BY DEF Provided, OwnDeclaredKeys, BoundKeys, CrossWorkflow

Storable(doc) == \A k : Sound(StrategyFor(doc, k))

(* Whatever it holds is of a key of its own, and within its strategy. *)
Provisioned(doc, x) ==
  \A k \in Key :
    x[Me][k] = EmptyBox \/ (k \in Provided(doc) /\ Within(x[Me][k], StrategyFor(doc, k)))

ReadThere(doc, k) ==
  \E b \in CrossWorkflowReads(doc) : b.key = k /\ Other \in {b.workflow, Owner(doc, k)}

OnlyTaken(b) ==
  /\ [b EXCEPT !.tail = SiblingBox.tail, !.data = SiblingBox.data] = SiblingBox
  /\ DOMAIN b.data \subseteq DOMAIN SiblingBox.data

SiblingKept(doc, x) ==
  \A k \in Key : x[Other][k] = SiblingBox \/ (ReadThere(doc, k) /\ OnlyTaken(x[Other][k]))

Kept(doc, free, x) ==
  BoxTable(x) /\ Provisioned(doc, x) /\ (free \/ SiblingKept(doc, x))

(* A put of an admissible value, to a key of its own. *)
Placed(doc, put) ==
  /\ put.key \in Provided(doc)
  /\ put.strategy = StrategyFor(doc, put.key)
  /\ put.value \in Value

LEMMA PutKeeps ==
  ASSUME NEW doc, Storable(doc), NEW free, NEW t, Kept(doc, free, t.boxes),
         NEW put, Placed(doc, put)
  PROVE  Kept(doc, free, PutIn(t, put).boxes)
<1>. DEFINE x == t.boxes
            s == put.strategy
            before == x[Me][put.key]
            after == Put(before, s, put.value)
            y == [x EXCEPT ![Me][put.key] = after]
<1>1. PutIn(t, put).boxes = x \/ (PutIn(t, put).boxes = y /\ PutTaken(before, put.key, s, put.value))
  BY DEF PutIn
<1>2. ASSUME PutTaken(before, put.key, s, put.value) PROVE Kept(doc, free, y)
  <2>1. put.key \in Key => Within(after, s)
    <3>. SUFFICES ASSUME put.key \in Key PROVE Within(after, s)
      OBVIOUS
    <3>1. Sound(s) /\ put.value \in Value /\ s = StrategyFor(doc, put.key)
      BY DEF Placed, Storable
    <3>2. before = EmptyBox \/ Within(before, s)
      BY <3>1 DEF Kept, Provisioned
    <3>. HIDE DEF before, s
    <3>. QED  BY <1>2, <3>1, <3>2, EmptyIsWithin, PutWithin
  <2>. HIDE DEF after
  <2>2. /\ BoxTable(y)
        /\ y[Other] = x[Other]
        /\ \A k \in Key : k # put.key => y[Me][k] = x[Me][k]
        /\ \A k \in Key : k = put.key => y[Me][k] = after
    BY SiblingAssumption DEF Kept, BoxTable
  <2>. HIDE DEF y
  <2>3. Provisioned(doc, y)
    BY <2>1, <2>2 DEF Kept, Provisioned, Placed
  <2>4. SiblingKept(doc, x) => SiblingKept(doc, y)
    BY <2>2 DEF SiblingKept
  <2>. QED  BY <2>2, <2>3, <2>4 DEF Kept
<1>. HIDE DEF x, s, before, after, y
<1>. QED  BY <1>1, <1>2 DEF x

(* A read of this workflow's boxes goes by the strategy of the key, and one *)
(* of another's boxes is one the document declares.                        *)
Declared(doc, location) ==
  IF ReadsHere(location) THEN location.strategy = StrategyFor(doc, location.key)
  ELSE location.workflow = Other => ReadThere(doc, location.key)

LEMMA GotFromSibling ==
  ASSUME NEW b, b = SiblingBox \/ OnlyTaken(b), NEW s
  PROVE  OnlyTaken(Got(b, s))
<1>1. OnlyTaken(b)
  BY SiblingAssumption DEF OnlyTaken, IsBox
<1>2. CASE s.name = "lmdb-kv"
  BY <1>1, <1>2 DEF Got
<1>3. CASE s.name # "lmdb-kv"
  <2>. DEFINE tail == Cursor(b.tail)
              next == NextSlot(tail, s.queueSizeMax)
              left == [i \in DOMAIN b.data \ {tail} |-> b.data[i]]
  <2>. HIDE DEF next, tail
  <2>1. Got(b, s) = [b EXCEPT !.tail = next, !.data = left]
    BY <1>3 DEF Got, next, tail
  <2>2. "tail" \in DOMAIN b /\ "data" \in DOMAIN b
    BY <1>1, SiblingAssumption DEF OnlyTaken, IsBox
  <2>3. DOMAIN left \subseteq DOMAIN b.data
    OBVIOUS
  <2>. HIDE DEF left
  <2>4. Got(b, s).data = left
    BY <2>1, <2>2
  <2>5. [Got(b, s) EXCEPT !.tail = SiblingBox.tail, !.data = SiblingBox.data]
          = [b EXCEPT !.tail = SiblingBox.tail, !.data = SiblingBox.data]
    BY <2>1
  <2>. QED  BY <1>1, <2>3, <2>4, <2>5 DEF OnlyTaken
<1>. QED  BY <1>2, <1>3

LEMMA GetKeeps ==
  ASSUME NEW doc, Storable(doc), NEW free, NEW t, Kept(doc, free, t.boxes),
         NEW location, Declared(doc, location)
  PROVE  Kept(doc, free, GetFrom(t, location).boxes)
<1>. DEFINE x == t.boxes
            w == IF ReadsHere(location) THEN Me ELSE location.workflow
            s == location.strategy
            before == x[w][location.key]
            after == Got(before, s)
            y == [x EXCEPT ![w][location.key] = after]
<1>0. ReadsHere(location) <=> w = Me
  BY DEF ReadsHere
<1>1. GetFrom(t, location).boxes = x \/ (GetFrom(t, location).boxes = y /\ GetFinds(before, s))
  BY DEF GetFrom
<1>2. ASSUME GetFinds(before, s) PROVE Kept(doc, free, y)
  <2>1. w = Me /\ location.key \in Key =>
          location.key \in Provided(doc) /\ Within(after, StrategyFor(doc, location.key))
    <3>. SUFFICES ASSUME w = Me, location.key \in Key
                  PROVE  /\ location.key \in Provided(doc)
                         /\ Within(after, StrategyFor(doc, location.key))
      OBVIOUS
    <3>1. Sound(s) /\ s = StrategyFor(doc, location.key)
      BY <1>0 DEF Declared, Storable
    <3>2. before = EmptyBox \/ (location.key \in Provided(doc) /\ Within(before, s))
      BY <3>1 DEF Kept, Provisioned
    <3>. HIDE DEF before, s
    <3>. QED  BY <1>2, <3>1, <3>2, EmptyGivesNothing, GotWithin
  <2>. HIDE DEF w, after
  <2>2. /\ BoxTable(y)
        /\ \A v \in {Me, Other} : v # w => y[v] = x[v]
        /\ \A v \in {Me, Other}, k \in Key : k # location.key => y[v][k] = x[v][k]
        /\ \A v \in {Me, Other}, k \in Key : v = w /\ k = location.key => y[v][k] = after
    BY DEF Kept, BoxTable
  <2>. HIDE DEF y
  <2>3. Provisioned(doc, y)
    <3>1. ASSUME NEW k \in Key
          PROVE  y[Me][k] = EmptyBox \/ (k \in Provided(doc) /\ Within(y[Me][k], StrategyFor(doc, k)))
      <4>1. CASE w = Me /\ k = location.key
        BY <2>1, <2>2, <4>1
      <4>2. CASE ~(w = Me /\ k = location.key)
        BY <2>2, <4>2 DEF Kept, Provisioned
      <4>. QED  BY <4>1, <4>2
    <3>. QED  BY <3>1 DEF Provisioned
  <2>4. SiblingKept(doc, x) => SiblingKept(doc, y)
    <3>. SUFFICES ASSUME SiblingKept(doc, x), NEW k \in Key
                  PROVE  y[Other][k] = SiblingBox \/ (ReadThere(doc, k) /\ OnlyTaken(y[Other][k]))
      BY DEF SiblingKept
    <3>1. CASE w = Other /\ k = location.key
      <4>1. ReadThere(doc, k)
        <5>1. ~ReadsHere(location) /\ location.workflow = Other
          BY <1>0, <3>1, SiblingAssumption DEF w
        <5>. QED  BY <3>1, <5>1 DEF Declared
      <4>2. y[Other][k] = after /\ after = Got(x[Other][k], s)
        BY <2>2, <3>1 DEF after
      <4>3. x[Other][k] = SiblingBox \/ OnlyTaken(x[Other][k])
        BY DEF SiblingKept
      <4>. QED  BY <4>1, <4>2, <4>3, GotFromSibling
    <3>2. CASE ~(w = Other /\ k = location.key)
      <4>1. y[Other][k] = x[Other][k]
        BY <2>2, <3>2
      <4>. QED  BY <4>1 DEF SiblingKept
    <3>. QED  BY <3>1, <3>2
  <2>. QED  BY <2>2, <2>3, <2>4 DEF Kept
<1>. HIDE DEF x, s, before, after, y
<1>. QED  BY <1>1, <1>2 DEF x

LEMMA TransactionKeeps ==
  ASSUME NEW doc, Storable(doc), NEW free, NEW x, Kept(doc, free, x),
         NEW X, NEW puts \in Seq(X), \A i \in 1 .. Len(puts) : Placed(doc, puts[i]),
         NEW Y, NEW locations \in Seq(Y), \A i \in 1 .. Len(locations) : Declared(doc, locations[i])
  PROVE  Kept(doc, free, Transaction(x, puts, locations).boxes)
<1>1. PICK r : /\ r[0] = Begun(x)
               /\ \A k \in 1 .. Len(puts) : r[k] = PutIn(r[k - 1], puts[k])
               /\ FoldLeft(PutIn, Begun(x), puts) = r[Len(puts)]
  BY PutsFold
<1>2. PICK q : /\ q[0] = r[Len(puts)]
               /\ \A k \in 1 .. Len(locations) : q[k] = GetFrom(q[k - 1], locations[k])
               /\ FoldLeft(GetFrom, r[Len(puts)], locations) = q[Len(locations)]
  BY GetsFold
<1>3. Len(puts) \in Nat /\ Len(locations) \in Nat
  OBVIOUS
<1>4. \A k \in 0 .. Len(puts) : Kept(doc, free, r[k].boxes)
  <2>. DEFINE Bad == {k \in 0 .. Len(puts) : ~Kept(doc, free, r[k].boxes)}
  <2>. SUFFICES ASSUME Bad # {} PROVE FALSE
    OBVIOUS
  <2>1. PICK k \in Bad : \A j \in Bad : k <= j
    <3>1. Bad \in SUBSET Nat
      BY <1>3
    <3>. HIDE DEF Bad
    <3>. QED  BY <3>1, Puts!LeastNat
  <2>2. k # 0
    BY <1>1, <2>1 DEF Begun
  <2>3. k - 1 \in 0 .. Len(puts) /\ k \in 1 .. Len(puts) /\ ~(k <= k - 1)
    BY <1>3, <2>1, <2>2
  <2>4. Kept(doc, free, r[k - 1].boxes)
    BY <2>1, <2>3
  <2>5. r[k] = PutIn(r[k - 1], puts[k]) /\ Placed(doc, puts[k])
    BY <1>1, <2>3
  <2>. QED  BY <2>1, <2>4, <2>5, PutKeeps
<1>5. \A k \in 0 .. Len(locations) : Kept(doc, free, q[k].boxes)
  <2>. DEFINE Bad == {k \in 0 .. Len(locations) : ~Kept(doc, free, q[k].boxes)}
  <2>. SUFFICES ASSUME Bad # {} PROVE FALSE
    OBVIOUS
  <2>1. PICK k \in Bad : \A j \in Bad : k <= j
    <3>1. Bad \in SUBSET Nat
      BY <1>3
    <3>. HIDE DEF Bad
    <3>. QED  BY <3>1, Puts!LeastNat
  <2>2. k # 0
    BY <1>2, <1>3, <1>4, <2>1
  <2>3. k - 1 \in 0 .. Len(locations) /\ k \in 1 .. Len(locations) /\ ~(k <= k - 1)
    BY <1>3, <2>1, <2>2
  <2>4. Kept(doc, free, q[k - 1].boxes)
    BY <2>1, <2>3
  <2>5. q[k] = GetFrom(q[k - 1], locations[k]) /\ Declared(doc, locations[k])
    BY <1>2, <2>3
  <2>. QED  BY <2>1, <2>4, <2>5, GetKeeps
<1>6. Transaction(x, puts, locations) = q[Len(locations)]
  BY <1>1, <1>2 DEF Transaction
<1>. QED  BY <1>3, <1>5, <1>6

-----------------------------------------------------------------------------
(* What the transactions of a run are made of. *)

(* A set of numbers up to n that is not empty has a greatest. *)
LEMMA GreatestOf ==
  ASSUME NEW n \in Nat, NEW I \in SUBSET (1 .. n), I # {}
  PROVE  Max(I) \in I /\ \A j \in I : j <= Max(I)
<1>. DEFINE D == {n - j : j \in I}
<1>1. PICK d \in D : \A e \in D : d <= e
  <2>1. D \in SUBSET Nat /\ D # {}
    <3>1. \A j \in I : j \in 1 .. n
      OBVIOUS
    <3>2. \A j \in 1 .. n : n - j \in Nat
      OBVIOUS
    <3>. QED  BY <3>1, <3>2
  <2>. HIDE DEF D
  <2>. QED  BY <2>1, Concats!LeastNat
<1>2. PICK m \in I : d = n - m
  OBVIOUS
<1>3. \A j \in I : j \in Nat /\ m \in Nat /\ j <= m
  <2>1. ASSUME NEW j \in I PROVE j <= m
    <3>1. n - j \in D
      OBVIOUS
    <3>2. d <= n - j
      BY <1>1, <3>1
    <3>3. n \in Int /\ j \in Int /\ m \in Int
      OBVIOUS
    <3>. HIDE DEF D
    <3>. QED  BY <1>2, <3>2, <3>3
  <2>. QED  BY <2>1
<1>4. \E x \in I : \A y \in I : x >= y
  BY <1>3
<1>. QED  BY <1>4 DEF Max

LEMMA OverridesAreValues ==
  ASSUME NEW w, ShapedAround(w), SeedFlagsParse(w.flags)
  PROVE  \A k \in DOMAIN Overrides(w) : Overrides(w)[k] \in Value
<1>. DEFINE block == IF w.scratch THEN <<>> ELSE WorkspaceLayer(w.workspace)
<1>1. \A k \in DOMAIN block : block[k] \in Value
  <2>. DEFINE mine == {b \in w.workspace.seedOverrides :
                         ResolvePath(b.authored) = MyPath /\ b.values # None}
  <2>1. CASE w.scratch \/ mine = {}
    BY <2>1 DEF WorkspaceLayer
  <2>2. CASE ~w.scratch /\ mine # {}
    <3>1. (CHOOSE b \in mine : TRUE) \in mine
      BY <2>2
    <3>2. block = (CHOOSE b \in mine : TRUE).values
      BY <2>2 DEF WorkspaceLayer
    <3>3. \A b \in mine : \A k \in DOMAIN b.values : b.values[k] \in Value
      BY DEF ShapedAround
    <3>. HIDE DEF mine, block
    <3>. QED  BY <3>1, <3>2, <3>3
  <2>. QED  BY <2>1, <2>2
<1>2. \A k \in DOMAIN FlagLayer(w.flags) : FlagLayer(w.flags)[k] \in Value
  <2>. DEFINE flags == w.flags
              last == SeedFlagRecord(flags)
  <2>1. /\ DOMAIN flags = 1 .. Len(flags) /\ Len(flags) \in Nat
        /\ \A i \in DOMAIN flags : flags[i].value \in Value
    BY DEF ShapedAround, SeedFlagsParse
  <2>2. ASSUME NEW k \in DOMAIN last PROVE last[k] \in DOMAIN flags
    <3>. DEFINE I == {i \in 1 .. Len(flags) : flags[i].key = k}
    <3>1. k \in {flags[i].key : i \in DOMAIN flags}
      BY DEF SeedFlagRecord
    <3>2. last[k] = Max(I)
      BY <2>1, <3>1 DEF SeedFlagRecord, SelectLastInSeq
    <3>3. Max(I) \in I
      <4>1. I \in SUBSET (1 .. Len(flags)) /\ I # {}
        BY <2>1, <3>1
      <4>. HIDE DEF I
      <4>. QED  BY <2>1, <4>1, GreatestOf
    <3>. QED  BY <2>1, <3>2, <3>3
  <2>3. FlagLayer(flags) = [k \in DOMAIN last |-> flags[last[k]].value]
    BY DEF FlagLayer
  <2>. HIDE DEF flags, last
  <2>. QED  BY <2>1, <2>2, <2>3 DEF flags
<1>3. Overrides(w) = ReduceOverrideLayers(block, FlagLayer(w.flags))
  BY DEF Overrides
<1>. HIDE DEF block
<1>. QED  BY <1>1, <1>2, <1>3 DEF ReduceOverrideLayers

(* The seeds of the document that runs are still those of its key table.   *)
LEMMA MergedSeeds ==
  ASSUME NEW doc, Shaped(doc), NEW w, ShapedAround(w), SeedFlagsParse(w.flags)
  PROVE  LET merged == Merged(doc, w)
         IN /\ DOMAIN merged.keys = DOMAIN doc.keys
            /\ \A k \in DOMAIN merged.keys : merged.keys[k].seed \in Value \cup {None}
            /\ \A k : Owner(merged, k) = Owner(doc, k)
            /\ \A k : StrategyFor(merged, k) = StrategyFor(doc, k)
            /\ Bindings(merged) = Bindings(doc)
            /\ Provided(merged) = Provided(doc)
            /\ merged.steps = doc.steps
<1>. DEFINE overrides == Overrides(w)
            merged == Merged(doc, w)
<1>1. \A k \in DOMAIN overrides : overrides[k] \in Value
  BY OverridesAreValues
<1>2. \A k \in DOMAIN doc.keys : doc.keys[k].seed \in Value \cup {None}
  BY DEF Shaped
<1>3. merged = WithReplacedSeeds(doc, overrides)
  BY DEF Merged
<1>. HIDE DEF overrides, merged
<1>4. /\ DOMAIN merged.keys = DOMAIN doc.keys
      /\ merged.steps = doc.steps
      /\ \A k \in DOMAIN doc.keys :
           /\ k \in DOMAIN overrides => merged.keys[k].seed = overrides[k]
           /\ k \notin DOMAIN overrides => merged.keys[k].seed = doc.keys[k].seed
  BY <1>3, ReplacedFields
<1>5. /\ \A k : Owner(merged, k) = Owner(doc, k)
      /\ \A k : StrategyFor(merged, k) = StrategyFor(doc, k)
      /\ Bindings(merged) = Bindings(doc)
      /\ OwnDeclaredKeys(merged) = OwnDeclaredKeys(doc)
      /\ BoundKeys(merged) = BoundKeys(doc)
  BY <1>3, ReplacedTable
<1>6. Provided(merged) = Provided(doc)
  BY <1>5 DEF Provided
<1>. QED  BY <1>1, <1>2, <1>4, <1>5, <1>6 DEF merged

LEMMA SeedEntriesAre ==
  ASSUME NEW doc, NEW k, doc.keys[k].seed \in Value
  PROVE  /\ SeedEntries(doc, k) \in Seq({SeedEntries(doc, k)[i] : i \in DOMAIN SeedEntries(doc, k)})
         /\ Len(SeedEntries(doc, k)) = Len(SeedValues(doc, k))
         /\ SeedValues(doc, k) \in Seq(Value)
         /\ \A i \in 1 .. Len(SeedEntries(doc, k)) :
              SeedEntries(doc, k)[i] = [key |-> k, strategy |-> StrategyFor(doc, k),
                                        value |-> SeedValues(doc, k)[i]]
<1>. DEFINE v == doc.keys[k].seed
            values == SeedValues(doc, k)
            entries == SeedEntries(doc, k)
<1>1. v \in Value /\ v.sizes \in Seq(Nat)
  BY DEF Value
<1>. HIDE DEF v
<1>2. Elements(v) \in Seq(Value)
  <2>1. \A n \in Nat : Scalar(n) \in Value
    BY DEF Scalar, Value
  <2>2. Len(v.sizes) \in Nat /\ DOMAIN v.sizes = 1 .. Len(v.sizes)
        /\ \A i \in 1 .. Len(v.sizes) : v.sizes[i] \in Nat
    BY <1>1
  <2>3. Elements(v) = [i \in 1 .. Len(v.sizes) |-> Scalar(v.sizes[i])]
    BY <2>2 DEF Elements
  <2>. QED  BY <2>1, <2>2, <2>3
<1>3. values \in Seq(Value)
  BY <1>1, <1>2 DEF SeedValues, v
<1>. HIDE DEF values
<1>4. entries = [i \in 1 .. Len(values) |-> [key |-> k, strategy |-> StrategyFor(doc, k),
                                            value |-> values[i]]]
  BY <1>3 DEF SeedEntries, values
<1>5. Len(values) \in Nat
  BY <1>3
<1>. HIDE DEF entries
<1>. DEFINE E == {entries[i] : i \in DOMAIN entries}
<1>6. entries \in [1 .. Len(values) -> E] /\ DOMAIN entries = 1 .. Len(values)
  BY <1>4
<1>. HIDE DEF E
<1>7. entries \in Seq(E) /\ Len(entries) = Len(values)
  BY <1>5, <1>6
<1>. QED  BY <1>3, <1>4, <1>5, <1>7 DEF entries, values, E

(* The entries of the seeds: every one is a value, for a key that has one. *)
Seeded(doc) == {k \in DOMAIN doc.keys : HasSeed(doc, k)}

SeedSequence(doc) == [i \in DOMAIN SetToSeq(Seeded(doc)) |-> SeedEntries(doc, SetToSeq(Seeded(doc))[i])]

LEMMA SeedSequenceIs ==
  ASSUME NEW doc, IsFiniteSet(DOMAIN doc.keys),
         \A k \in DOMAIN doc.keys : doc.keys[k].seed \in Value \cup {None}
  PROVE  \E X : /\ SeedSequence(doc) \in Seq(Seq(X))
                /\ SeedData(doc) = FlattenSeq(SeedSequence(doc))
                /\ \A x \in X : /\ x.key \in DOMAIN doc.keys /\ HasSeed(doc, x.key)
                                /\ x.strategy = StrategyFor(doc, x.key) /\ x.value \in Value
<1>. DEFINE S == Seeded(doc)
            seeded == SetToSeq(S)
            X == UNION {{SeedEntries(doc, k)[i] : i \in DOMAIN SeedEntries(doc, k)} : k \in S}
            s == SeedSequence(doc)
            Entry(x, k) == x.key = k /\ x.strategy = StrategyFor(doc, k) /\ x.value \in Value
<1>1. IsFiniteSet(S) /\ \A k \in S : doc.keys[k].seed \in Value
  BY FS_Subset DEF HasSeed, Seeded
<1>2. \A k \in S : /\ SeedEntries(doc, k) \in Seq(X)
                   /\ \A i \in 1 .. Len(SeedEntries(doc, k)) : Entry(SeedEntries(doc, k)[i], k)
  <2>1. ASSUME NEW k \in S
        PROVE  /\ SeedEntries(doc, k) \in Seq(X)
               /\ \A i \in 1 .. Len(SeedEntries(doc, k)) : Entry(SeedEntries(doc, k)[i], k)
    <3>. DEFINE E == {SeedEntries(doc, k)[i] : i \in DOMAIN SeedEntries(doc, k)}
    <3>1. /\ SeedEntries(doc, k) \in Seq(E)
          /\ \A i \in 1 .. Len(SeedEntries(doc, k)) : Entry(SeedEntries(doc, k)[i], k)
      <4>1. doc.keys[k].seed \in Value
        BY <1>1
      <4>2. /\ SeedEntries(doc, k) \in Seq(E)
            /\ Len(SeedEntries(doc, k)) = Len(SeedValues(doc, k))
            /\ SeedValues(doc, k) \in Seq(Value)
            /\ \A i \in 1 .. Len(SeedEntries(doc, k)) :
                 SeedEntries(doc, k)[i] = [key |-> k, strategy |-> StrategyFor(doc, k),
                                           value |-> SeedValues(doc, k)[i]]
        BY <4>1, SeedEntriesAre
      <4>. DEFINE own == SeedEntries(doc, k)
                  values == SeedValues(doc, k)
      <4>. HIDE DEF E, own, values
      <4>3. ASSUME NEW i \in 1 .. Len(own) PROVE Entry(own[i], k)
        <5>1. own[i] = [key |-> k, strategy |-> StrategyFor(doc, k), value |-> values[i]]
          BY <4>2 DEF own, values
        <5>2. values[i] \in Value
          BY <4>2 DEF own, values
        <5>. QED  BY <5>1, <5>2
      <4>. QED  BY <4>2, <4>3 DEF own
    <3>2. E \subseteq X
      OBVIOUS
    <3>. HIDE DEF E, X
    <3>3. Seq(E) \subseteq Seq(X)
      BY <3>2
    <3>. QED  BY <3>1, <3>3
  <2>. QED  BY <2>1
<1>3. \A x \in X : x.key \in S /\ Entry(x, x.key)
  <2>. SUFFICES ASSUME NEW k \in S, NEW i \in DOMAIN SeedEntries(doc, k)
                PROVE  Entry(SeedEntries(doc, k)[i], k)
    OBVIOUS
  <2>1. i \in 1 .. Len(SeedEntries(doc, k))
    BY <1>2
  <2>. QED  BY <1>2, <2>1
<1>. HIDE DEF X
<1>4. seeded \in Seq(S) /\ DOMAIN seeded = 1 .. Len(seeded) /\ Len(seeded) \in Nat
  <2>. HIDE DEF S
  <2>. QED  BY <1>1, SetToSeqElements
<1>. HIDE DEF seeded
<1>5. s \in Seq(Seq(X))
  <2>1. \A i \in 1 .. Len(seeded) : seeded[i] \in S
    BY <1>4
  <2>2. s = [i \in 1 .. Len(seeded) |-> SeedEntries(doc, seeded[i])]
    BY <1>4 DEF SeedSequence, seeded
  <2>. HIDE DEF s, S
  <2>. QED  BY <1>2, <1>4, <2>1, <2>2
<1>6. SeedData(doc) = FlattenSeq(s)
  BY DEF SeedData, SeedSequence, Seeded
<1>. HIDE DEF s
<1>7. \A x \in X : /\ x.key \in DOMAIN doc.keys /\ HasSeed(doc, x.key)
                   /\ x.strategy = StrategyFor(doc, x.key) /\ x.value \in Value
  BY <1>3 DEF Seeded
<1>. QED  BY <1>5, <1>6, <1>7 DEF s

LEMMA SeedDataIs ==
  ASSUME NEW doc, IsFiniteSet(DOMAIN doc.keys),
         \A k \in DOMAIN doc.keys : doc.keys[k].seed \in Value \cup {None}
  PROVE  \E X : /\ SeedData(doc) \in Seq(X)
                /\ \A x \in X : /\ x.key \in DOMAIN doc.keys /\ HasSeed(doc, x.key)
                                /\ x.strategy = StrategyFor(doc, x.key) /\ x.value \in Value
<1>. DEFINE s == SeedSequence(doc)
<1>. HIDE DEF s
<1>1. PICK X : /\ s \in Seq(Seq(X)) /\ SeedData(doc) = FlattenSeq(s)
               /\ \A x \in X : /\ x.key \in DOMAIN doc.keys /\ HasSeed(doc, x.key)
                               /\ x.strategy = StrategyFor(doc, x.key) /\ x.value \in Value
  BY SeedSequenceIs DEF s
<1>2. PICK r : /\ \A k \in 0 .. Len(s) : r[k] \in Seq(X)
               /\ FlattenSeq(s) = r[Len(s)]
  BY <1>1, FlattenSteps
<1>3. Len(s) \in 0 .. Len(s)
  BY <1>1
<1>. QED  BY <1>1, <1>2, <1>3

LEMMA InOrderIs ==
  ASSUME NEW l, IsFiniteSet(DOMAIN l)
  PROVE  /\ InOrder(l) \in Seq({l[f] : f \in DOMAIN l})
         /\ \A i \in 1 .. Len(InOrder(l)) : \E f \in DOMAIN l : InOrder(l)[i] = l[f]
<1>. DEFINE fields == SetToSeq(DOMAIN l)
            X == {l[f] : f \in DOMAIN l}
<1>1. fields \in Seq(DOMAIN l)
  BY SetToSeqElements
<1>2. InOrder(l) = [i \in DOMAIN fields |-> l[fields[i]]]
  BY DEF InOrder
<1>. HIDE DEF fields
<1>3. /\ Len(fields) \in Nat /\ DOMAIN fields = 1 .. Len(fields)
      /\ \A i \in 1 .. Len(fields) : fields[i] \in DOMAIN l
  BY <1>1
<1>4. InOrder(l) \in Seq(X) /\ Len(InOrder(l)) = Len(fields)
  <2>1. \A i \in 1 .. Len(fields) : l[fields[i]] \in X
    BY <1>3
  <2>2. InOrder(l) = [i \in 1 .. Len(fields) |-> l[fields[i]]]
    BY <1>2, <1>3
  <2>. HIDE DEF X
  <2>. QED  BY <1>3, <2>1, <2>2
<1>. QED  BY <1>2, <1>3, <1>4

(* What a step writes is of keys of its own workflow, and what it reads of *)
(* another workflow's its document declares.                               *)
Written(doc, location) ==
  location.key \in Provided(doc) /\ location.strategy = StrategyFor(doc, location.key)

LEMMA StepLocations ==
  ASSUME NEW doc, OwnershipConsistent(doc),
         NEW i \in DOMAIN doc.steps, StepSchema(doc.steps[i])
  PROVE  LET step == ResolveStep(doc, doc.steps[i])
         IN /\ DOMAIN step.input = DOMAIN doc.steps[i].inputs
            /\ DOMAIN step.output = DOMAIN doc.steps[i].outputs
            /\ DOMAIN step.error = DOMAIN doc.steps[i].errors
            /\ \A f \in DOMAIN step.input : Declared(doc, step.input[f])
            /\ \A f \in DOMAIN step.output : Written(doc, step.output[f])
            /\ \A f \in DOMAIN step.error : Written(doc, step.error[f])
<1>. DEFINE step == ResolveStep(doc, doc.steps[i])
            b(r, f) == [step |-> i, role |-> r, field |-> f, key |-> doc.steps[i][r][f].key,
                        workflow |-> doc.steps[i][r][f].workflow]
<1>1. /\ step.input = [f \in DOMAIN doc.steps[i].inputs |-> ReadLocation(doc, doc.steps[i].inputs[f])]
      /\ step.output = [f \in DOMAIN doc.steps[i].outputs |-> WriteLocation(doc, doc.steps[i].outputs[f])]
      /\ step.error = [f \in DOMAIN doc.steps[i].errors |-> WriteLocation(doc, doc.steps[i].errors[f])]
  BY DEF ResolveStep
<1>. HIDE DEF step
<1>2. \A r \in Role : \A f \in DOMAIN doc.steps[i][r] : b(r, f) \in Bindings(doc)
  <2>. DEFINE Of(j, r) == {[step |-> j, role |-> r, field |-> g, key |-> doc.steps[j][r][g].key,
                            workflow |-> doc.steps[j][r][g].workflow] : g \in DOMAIN doc.steps[j][r]}
  <2>1. \A r \in Role : \A f \in DOMAIN doc.steps[i][r] : b(r, f) \in Of(i, r)
    OBVIOUS
  <2>2. \A r \in Role : Of(i, r) \in {Of(j, q) : j \in DOMAIN doc.steps, q \in Role}
    <3>. HIDE DEF Of
    <3>. QED  OBVIOUS
  <2>3. Bindings(doc) = UNION {Of(j, q) : j \in DOMAIN doc.steps, q \in Role}
    BY DEF Bindings
  <2>. HIDE DEF Of, b
  <2>. QED  BY <2>1, <2>2, <2>3
<1>3. \A r \in Role : \A f \in DOMAIN doc.steps[i][r] :
        Owner(doc, doc.steps[i][r][f].key) # None => r = "inputs"
  <2>1. \A r \in Role : \A f \in DOMAIN doc.steps[i][r] :
          Owner(doc, b(r, f).key) # None => b(r, f).role = "inputs"
    <3>. HIDE DEF b
    <3>. QED  BY <1>2 DEF OwnershipConsistent
  <2>. QED  BY <2>1
<1>4. /\ \A f \in DOMAIN step.output : Written(doc, step.output[f])
      /\ \A f \in DOMAIN step.error : Written(doc, step.error[f])
  <2>1. ASSUME NEW r \in Role \ {"inputs"}, NEW f \in DOMAIN doc.steps[i][r],
               doc.steps[i][r][f].workflow = None
        PROVE  doc.steps[i][r][f].key \in Provided(doc)
    <3>1. b(r, f) \in Bindings(doc) /\ Owner(doc, doc.steps[i][r][f].key) = None
      <4>1. Owner(doc, doc.steps[i][r][f].key) = None
        BY <1>3
      <4>. HIDE DEF b
      <4>. QED  BY <1>2, <4>1
    <3>2. ~CrossWorkflow(doc, b(r, f)) /\ b(r, f).key = doc.steps[i][r][f].key
      BY <2>1, <3>1 DEF CrossWorkflow
    <3>. HIDE DEF b
    <3>. QED  BY <3>1, <3>2 DEF Provided, BoundKeys
  <2>2. \A ref : /\ WriteLocation(doc, ref).key = ref.key
                 /\ WriteLocation(doc, ref).strategy = StrategyFor(doc, ref.key)
    BY DEF WriteLocation
  <2>3. /\ \A f \in DOMAIN doc.steps[i].outputs : doc.steps[i].outputs[f].key \in Provided(doc)
        /\ \A f \in DOMAIN doc.steps[i].errors : doc.steps[i].errors[f].key \in Provided(doc)
    BY <2>1 DEF Role, StepSchema
  <2>. HIDE DEF b
  <2>4. \A ref : ref.key \in Provided(doc) => Written(doc, WriteLocation(doc, ref))
    BY <2>2 DEF Written
  <2>5. ASSUME NEW f \in DOMAIN step.output PROVE Written(doc, step.output[f])
    <3>1. f \in DOMAIN doc.steps[i].outputs /\ step.output[f] = WriteLocation(doc, doc.steps[i].outputs[f])
      BY <1>1, <2>5
    <3>. QED  BY <2>3, <2>4, <3>1
  <2>6. ASSUME NEW f \in DOMAIN step.error PROVE Written(doc, step.error[f])
    <3>1. f \in DOMAIN doc.steps[i].errors /\ step.error[f] = WriteLocation(doc, doc.steps[i].errors[f])
      BY <1>1, <2>6
    <3>. QED  BY <2>3, <2>4, <3>1
  <2>. QED  BY <2>5, <2>6
<1>5. ASSUME NEW f \in DOMAIN step.input PROVE Declared(doc, step.input[f])
  <2>. DEFINE ref == doc.steps[i].inputs[f]
              location == ReadLocation(doc, ref)
              bound == b("inputs", f)
  <2>1. f \in DOMAIN doc.steps[i].inputs /\ step.input[f] = location /\ location.key = ref.key
        /\ location.strategy = StrategyFor(doc, ref.key)
    BY <1>1 DEF ReadLocation
  <2>2. ~ReadsHere(location) => location.workflow \in {ref.workflow, Owner(doc, ref.key)} \ {None}
    BY DEF ReadsHere, ReadLocation
  <2>3. bound \in Bindings(doc) /\ bound.role = "inputs" /\ bound.key = ref.key
        /\ bound.workflow = ref.workflow
    <3>1. "inputs" \in Role
      BY DEF Role
    <3>2. bound \in Bindings(doc)
      <4>. HIDE DEF b
      <4>. QED  BY <1>2, <2>1, <3>1
    <3>. QED  BY <3>2
  <2>. HIDE DEF location, bound
  <2>4. ~ReadsHere(location) => bound \in CrossWorkflowReads(doc)
    BY <2>2, <2>3 DEF CrossWorkflowReads, CrossWorkflow
  <2>5. ~ReadsHere(location) /\ location.workflow = Other => ReadThere(doc, location.key)
    BY <2>1, <2>2, <2>3, <2>4 DEF ReadThere
  <2>. QED  BY <2>1, <2>5 DEF Declared
<1>. QED  BY <1>1, <1>4, <1>5 DEF step

-----------------------------------------------------------------------------
(* What seeding leaves.  A box takes the values of its seed one after the  *)
(* other, and the keys are seeded one after the other.                     *)

(* A box nobody wrote but for the first m of some values.                  *)
Filled(b, s, values, m) ==
  /\ IsBox(b)
  /\ m = 0 => b = EmptyBox
  /\ IF s.name = "lmdb-kv" THEN m # 0 => b.cell = values[m]
     ELSE /\ Cursor(b.head) = m /\ Cursor(b.tail) = 0
          /\ \A i \in 1 .. m : i - 1 \in DOMAIN b.data /\ b.data[i - 1] = values[i]

LEMMA EmptyIsFilled == \A s, values : Filled(EmptyBox, s, values, 0)
BY DEF Filled, EmptyBox, IsBox, Cursor

LEMMA PutFills ==
  ASSUME NEW k, NEW s, Sound(s), NEW values, NEW m \in Nat, NEW b, Filled(b, s, values, m),
         StoreTakes(k, s, values[m + 1]), s.name # "lmdb-kv" => m + 1 < s.queueSizeMax
  PROVE  /\ PutTaken(b, k, s, values[m + 1])
         /\ Filled(Put(b, s, values[m + 1]), s, values, m + 1)
<1>. DEFINE v == values[m + 1]
<1>. HIDE DEF v
<1>1. PICK c, h, l, d : b = [cell |-> c, head |-> h, tail |-> l, data |-> d]
  BY DEF Filled, IsBox
<1>2. CASE s.name = "lmdb-kv"
  <2>1. PutTaken(b, k, s, v)
    BY <1>2 DEF PutTaken, v
  <2>2. Put(b, s, v) = [cell |-> v, head |-> h, tail |-> l, data |-> d]
    BY <1>1, <1>2 DEF Put
  <2>. QED  BY <1>2, <2>1, <2>2 DEF Filled, IsBox, v
<1>3. CASE s.name # "lmdb-kv"
  <2>. DEFINE n == s.queueSizeMax
              head == Cursor(b.head)
              next == NextSlot(head, n)
              data == [i \in DOMAIN b.data \cup {head} |-> IF i = head THEN v ELSE b.data[i]]
  <2>1. /\ n \in Int /\ m + 1 < n /\ head = m /\ Cursor(b.tail) = 0
        /\ \A i \in 1 .. m : i - 1 \in DOMAIN b.data /\ b.data[i - 1] = values[i]
    BY <1>3 DEF Sound, Filled
  <2>2. next = m + 1 /\ Cursor(next) = next
    <3>1. m \in 0 .. n - 1 /\ m + 1 # n
      BY <2>1
    <3>. HIDE DEF n
    <3>. QED  BY <2>1, <3>1, NextSlotIs, NextIsCursor
  <2>3. PutTaken(b, k, s, v)
    BY <1>3, <2>1, <2>2 DEF PutTaken, v
  <2>4. \A i \in 1 .. m + 1 : i - 1 \in DOMAIN data /\ data[i - 1] = values[i]
    <3>1. ASSUME NEW i \in 1 .. m + 1, i # m + 1
          PROVE  i - 1 \in DOMAIN data /\ data[i - 1] = values[i]
      <4>1. i \in 1 .. m /\ i - 1 # m
        BY <3>1
      <4>. QED  BY <2>1, <4>1
    <3>2. (m + 1) - 1 \in DOMAIN data /\ data[(m + 1) - 1] = v
      BY <2>1
    <3>. HIDE DEF data
    <3>. QED  BY <3>1, <3>2 DEF v
  <2>5. Put(b, s, v) = [cell |-> c, head |-> next, tail |-> l, data |-> data]
    <3>. DEFINE moved == [b EXCEPT !.head = next]
    <3>1. Put(b, s, v) = [b EXCEPT !.head = next, !.data = data]
      BY <1>3 DEF Put
    <3>. HIDE DEF data, next
    <3>2. moved = [cell |-> c, head |-> next, tail |-> l, data |-> d]
      BY <1>1
    <3>3. Put(b, s, v) = [moved EXCEPT !.data = data]
      BY <3>1
    <3>. HIDE DEF moved
    <3>. QED  BY <3>2, <3>3
  <2>. DEFINE after == Put(b, s, v)
  <2>. HIDE DEF after, data, next
  <2>6. /\ IsBox(after) /\ Cursor(after.head) = m + 1 /\ Cursor(after.tail) = 0 /\ after.data = data
    <3>1. after = [cell |-> c, head |-> next, tail |-> l, data |-> data] /\ b.tail = l
      BY <1>1, <2>5 DEF after
    <3>. QED  BY <2>1, <2>2, <3>1 DEF IsBox
  <2>7. m + 1 # 0
    OBVIOUS
  <2>8. Filled(after, s, values, m + 1)
    BY <1>3, <2>4, <2>6, <2>7 DEF Filled
  <2>. QED  BY <2>3, <2>8 DEF after, v
<1>. QED  BY <1>2, <1>3

(* A seed the store takes, all of it.                                      *)
Seedable(doc, k) ==
  LET s == StrategyFor(doc, k)
      values == SeedValues(doc, k)
  IN /\ k \in Key /\ doc.keys[k].seed \in Value /\ Sound(s)
     /\ s.name # "lmdb-kv" => Len(values) < s.queueSizeMax
     /\ \A i \in 1 .. Len(values) : StoreTakes(k, s, values[i])

(* The boxes of the keys in D hold their seeds, the others nothing.        *)
Sown(doc, x, D) ==
  /\ BoxTable(x)
  /\ \A k \in Key :
       IF k \in D
       THEN Filled(x[Me][k], StrategyFor(doc, k), SeedValues(doc, k), Len(SeedValues(doc, k)))
       ELSE x[Me][k] = EmptyBox

LEMMA OneKeySown ==
  ASSUME NEW doc, NEW k, Seedable(doc, k), NEW D, k \notin D,
         NEW t, ~t.aborted, Sown(doc, t.boxes, D)
  PROVE  LET u == FoldLeft(PutIn, t, SeedEntries(doc, k))
         IN ~u.aborted /\ Sown(doc, u.boxes, D \cup {k})
<1>. DEFINE s == StrategyFor(doc, k)
            values == SeedValues(doc, k)
            entries == SeedEntries(doc, k)
            n == Len(entries)
            Sowing(u, m) == /\ ~u.aborted /\ BoxTable(u.boxes)
                            /\ Filled(u.boxes[Me][k], s, values, m)
                            /\ \A j \in Key : j # k => u.boxes[Me][j] = t.boxes[Me][j]
<1>1. /\ (\E X : entries \in Seq(X)) /\ n = Len(values) /\ values \in Seq(Value)
      /\ \A i \in 1 .. n : entries[i] = [key |-> k, strategy |-> s, value |-> values[i]]
  <2>1. doc.keys[k].seed \in Value
    BY DEF Seedable
  <2>2. /\ (\E X : entries \in Seq(X)) /\ Len(entries) = Len(values) /\ values \in Seq(Value)
        /\ \A i \in 1 .. Len(entries) :
             entries[i] = [key |-> k, strategy |-> s, value |-> values[i]]
    <3>1. \E X : entries \in Seq(X)
      BY <2>1, SeedEntriesAre, Zenon
    <3>2. Len(entries) = Len(values) /\ values \in Seq(Value)
      BY <2>1, SeedEntriesAre, Zenon
    <3>3. \A i \in 1 .. Len(entries) :
             entries[i] = [key |-> k, strategy |-> s, value |-> values[i]]
      BY <2>1, SeedEntriesAre
    <3>. QED  BY <3>1, <3>2, <3>3
  <2>. HIDE DEF entries, values, s
  <2>. QED  BY <2>2
<1>2. /\ k \in Key /\ Sound(s) /\ (s.name # "lmdb-kv" => n < s.queueSizeMax)
      /\ \A i \in 1 .. n : StoreTakes(k, s, values[i])
  BY <1>1 DEF Seedable
<1>. HIDE DEF s, values, entries
<1>3. PICK r : /\ r[0] = t
               /\ \A m \in 1 .. n : r[m] = PutIn(r[m - 1], entries[m])
               /\ FoldLeft(PutIn, t, entries) = r[n]
  BY <1>1, PutsFold
<1>4. n \in Nat
  BY <1>1
<1>. HIDE DEF n
<1>5. Sowing(t, 0)
  <2>1. t.boxes[Me][k] = EmptyBox /\ BoxTable(t.boxes)
    BY <1>2 DEF Sown
  <2>. QED  BY <2>1, EmptyIsFilled
<1>6. ASSUME NEW m \in 1 .. n, NEW u, Sowing(u, m - 1)
      PROVE  Sowing(PutIn(u, entries[m]), m)
  <2>. DEFINE b == u.boxes[Me][k]
              v == values[m]
              y == [u.boxes EXCEPT ![Me][k] = Put(b, s, v)]
  <2>1. m - 1 \in Nat /\ (m - 1) + 1 = m /\ m <= n
    BY <1>4
  <2>2. PutTaken(b, k, s, v) /\ Filled(Put(b, s, v), s, values, m)
    <3>. DEFINE p == m - 1
    <3>1. p \in Nat /\ p + 1 = m /\ (s.name # "lmdb-kv" => p + 1 < s.queueSizeMax)
      BY <1>2, <1>4, <2>1 DEF Sound
    <3>2. Filled(b, s, values, p) /\ StoreTakes(k, s, values[p + 1])
      BY <1>2, <1>6, <3>1
    <3>. HIDE DEF p, b
    <3>. QED  BY <1>2, <3>1, <3>2, PutFills
  <2>3. /\ entries[m].key = k /\ entries[m].strategy = s /\ entries[m].value = v
    <3>. DEFINE e == entries[m]
    <3>1. e = [key |-> k, strategy |-> s, value |-> v]
      BY <1>1
    <3>. HIDE DEF e, v
    <3>2. e.key = k /\ e.strategy = s /\ e.value = v
      BY <3>1
    <3>. QED  BY <3>2 DEF e
  <2>4. PutIn(u, entries[m]) = [aborted |-> FALSE, boxes |-> y]
    BY <1>6, <2>2, <2>3 DEF PutIn
  <2>5. /\ BoxTable(y) /\ y[Me][k] = Put(b, s, v)
        /\ \A j \in Key : j # k => y[Me][j] = u.boxes[Me][j]
    BY <1>2, <1>6 DEF BoxTable
  <2>. HIDE DEF y, v, b
  <2>. QED  BY <1>6, <2>2, <2>4, <2>5
<1>. HIDE DEF Sowing
<1>7. \A m \in 0 .. n : Sowing(r[m], m)
  <2>. DEFINE Bad == {m \in 0 .. n : ~Sowing(r[m], m)}
  <2>. SUFFICES ASSUME Bad # {} PROVE FALSE
    OBVIOUS
  <2>1. PICK m \in Bad : \A j \in Bad : m <= j
    <3>1. Bad \in SUBSET Nat
      BY <1>4
    <3>. HIDE DEF Bad
    <3>. QED  BY <3>1, Puts!LeastNat
  <2>2. m # 0
    BY <1>3, <1>5, <2>1
  <2>3. m - 1 \in 0 .. n /\ m \in 1 .. n /\ ~(m <= m - 1)
    BY <1>4, <2>1, <2>2
  <2>4. Sowing(r[m - 1], m - 1)
    BY <2>1, <2>3
  <2>. QED  BY <1>3, <1>6, <2>1, <2>3, <2>4
<1>8. Sowing(r[n], n)
  BY <1>4, <1>7
<1>9. Sown(doc, r[n].boxes, D \cup {k})
  <2>1. ASSUME NEW j \in Key
        PROVE  IF j \in D \cup {k}
               THEN Filled(r[n].boxes[Me][j], StrategyFor(doc, j), SeedValues(doc, j),
                           Len(SeedValues(doc, j)))
               ELSE r[n].boxes[Me][j] = EmptyBox
    <3>1. CASE j = k
      BY <1>1, <1>8, <3>1 DEF Sowing, s, values, n, entries
    <3>2. CASE j # k
      BY <1>8, <3>2 DEF Sowing, Sown
    <3>. QED  BY <3>1, <3>2
  <2>. QED  BY <1>8, <2>1 DEF Sowing, Sown
<1>. QED  BY <1>3, <1>8, <1>9 DEF Sowing, entries

(* Seeds the store takes, on boxes that hold nothing. *)
LEMMA AllSown ==
  ASSUME NEW doc, IsFiniteSet(DOMAIN doc.keys),
         \A k \in DOMAIN doc.keys : doc.keys[k].seed \in Value \cup {None},
         \A k \in Seeded(doc) : Seedable(doc, k),
         NEW x, Sown(doc, x, {})
  PROVE  LET u == Transaction(x, SeedData(doc), <<>>)
         IN ~u.aborted /\ Sown(doc, u.boxes, Seeded(doc))
<1>. DEFINE S == Seeded(doc)
            seeded == SetToSeq(S)
            s == SeedSequence(doc)
            n == Len(s)
            Before(i) == {seeded[j] : j \in 1 .. i}
            after(q) == FoldLeft(PutIn, Begun(x), q)
            Done(q, i) == ~after(q).aborted /\ Sown(doc, after(q).boxes, Before(i))
<1>1. PICK X : s \in Seq(Seq(X)) /\ SeedData(doc) = FlattenSeq(s)
  BY SeedSequenceIs
<1>2. /\ seeded \in Seq(S) /\ Len(seeded) \in Nat /\ DOMAIN seeded = 1 .. Len(seeded)
      /\ \A i, j \in 1 .. Len(seeded) : seeded[i] = seeded[j] => i = j
      /\ \A k \in S : \E i \in 1 .. Len(seeded) : seeded[i] = k
  <2>1. IsFiniteSet(S)
    BY FS_Subset DEF Seeded
  <2>. HIDE DEF S
  <2>. QED  BY <2>1, SetToSeqElements
<1>3. n = Len(seeded) /\ \A i \in 1 .. n : s[i] = SeedEntries(doc, seeded[i]) /\ seeded[i] \in S
  <2>1. s = [i \in 1 .. Len(seeded) |-> SeedEntries(doc, seeded[i])]
    BY <1>2 DEF SeedSequence
  <2>. HIDE DEF s, seeded, S
  <2>. QED  BY <1>2, <2>1
<1>. HIDE DEF s, seeded
<1>4. PICK q : /\ q[0] = <<>>
               /\ \A i \in 1 .. n : q[i] = q[i - 1] \o s[i]
               /\ \A i \in 0 .. n : q[i] \in Seq(X)
               /\ FlattenSeq(s) = q[n]
  BY <1>1, FlattenSteps
<1>5. n \in Nat /\ \A i \in 1 .. n : s[i] \in Seq(X)
  BY <1>1
<1>. HIDE DEF n
<1>6. Done(q[0], 0)
  <2>. DEFINE none == <<>>
              N == {}
  <2>1. none \in Seq(N) /\ Len(none) = 0 /\ Before(0) = {}
    OBVIOUS
  <2>. HIDE DEF none, N
  <2>2. FoldLeft(PutIn, Begun(x), none) = Begun(x)
    <3>1. PICK r : /\ r[0] = Begun(x)
                   /\ \A i \in 1 .. Len(none) : r[i] = PutIn(r[i - 1], none[i])
                   /\ FoldLeft(PutIn, Begun(x), none) = r[Len(none)]
      BY <2>1, PutsFold
    <3>. QED  BY <2>1, <3>1
  <2>3. after(q[0]) = Begun(x)
    BY <1>4, <2>2 DEF none
  <2>4. ~Begun(x).aborted /\ Begun(x).boxes = x
    BY DEF Begun
  <2>. DEFINE t == after(q[0])
  <2>5. ~t.aborted /\ t.boxes = x
    <3>. HIDE DEF t
    <3>1. t = Begun(x)
      BY <2>3 DEF t
    <3>. QED  BY <2>4, <3>1
  <2>. HIDE DEF t
  <2>6. ~t.aborted /\ Sown(doc, t.boxes, Before(0))
    <3>. HIDE DEF Before
    <3>. QED  BY <2>1, <2>5
  <2>. QED  BY <2>6 DEF t
<1>7. ASSUME NEW i \in 1 .. n, Done(q[i - 1], i - 1) PROVE Done(q[i], i)
  <2>. DEFINE k == seeded[i]
              D == Before(i - 1)
              u == after(q[i - 1])
  <2>1. Seedable(doc, k) /\ s[i] = SeedEntries(doc, k)
    BY <1>3
  <2>2. k \notin D /\ Before(i) = D \cup {k}
    <3>1. /\ i \in 1 .. Len(seeded) /\ 1 .. i = (1 .. i - 1) \cup {i}
          /\ \A j \in 1 .. i - 1 : j \in 1 .. Len(seeded) /\ j # i
      BY <1>3, <1>5
    <3>2. k \notin D
      BY <1>2, <3>1
    <3>3. Before(i) = D \cup {k}
      BY <3>1
    <3>. QED  BY <3>2, <3>3
  <2>3. after(q[i]) = FoldLeft(PutIn, u, SeedEntries(doc, k))
    <3>1. i - 1 \in 0 .. n
      BY <1>5
    <3>2. q[i] = q[i - 1] \o s[i] /\ q[i - 1] \in Seq(X) /\ s[i] \in Seq(X)
      BY <1>4, <1>5, <3>1
    <3>3. FoldLeft(PutIn, Begun(x), q[i - 1] \o s[i])
            = FoldLeft(PutIn, FoldLeft(PutIn, Begun(x), q[i - 1]), s[i])
      BY <3>2, PutsConcat
    <3>. QED  BY <2>1, <3>2, <3>3
  <2>4. ~u.aborted /\ Sown(doc, u.boxes, D)
    BY <1>7
  <2>. HIDE DEF k, D, u, after, Before
  <2>5. LET w == FoldLeft(PutIn, u, SeedEntries(doc, k))
        IN ~w.aborted /\ Sown(doc, w.boxes, D \cup {k})
    BY <2>1, <2>2, <2>4, OneKeySown
  <2>. QED  BY <2>2, <2>3, <2>5
<1>. HIDE DEF Done
<1>8. \A i \in 0 .. n : Done(q[i], i)
  <2>. DEFINE Bad == {i \in 0 .. n : ~Done(q[i], i)}
  <2>. SUFFICES ASSUME Bad # {} PROVE FALSE
    OBVIOUS
  <2>1. PICK i \in Bad : \A j \in Bad : i <= j
    <3>1. Bad \in SUBSET Nat
      BY <1>5
    <3>. HIDE DEF Bad
    <3>. QED  BY <3>1, Puts!LeastNat
  <2>2. i # 0
    BY <1>6, <2>1
  <2>3. i - 1 \in 0 .. n /\ i \in 1 .. n /\ ~(i <= i - 1)
    BY <1>5, <2>1, <2>2
  <2>4. Done(q[i - 1], i - 1)
    BY <2>1, <2>3
  <2>. QED  BY <1>7, <2>1, <2>3, <2>4
<1>9. Done(SeedData(doc), n) /\ Before(n) = S
  <2>1. Before(n) = S
    BY <1>2, <1>3
  <2>2. Done(q[n], n)
    BY <1>5, <1>8
  <2>. QED  BY <1>1, <1>4, <2>1, <2>2
<1>10. Transaction(x, SeedData(doc), <<>>) = after(SeedData(doc))
  <2>. DEFINE none == <<>>
              N == {}
              b == after(SeedData(doc))
  <2>1. none \in Seq(N) /\ Len(none) = 0
    OBVIOUS
  <2>2. Transaction(x, SeedData(doc), none) = FoldLeft(GetFrom, b, none)
    BY DEF Transaction
  <2>. HIDE DEF none, b, N
  <2>3. FoldLeft(GetFrom, b, none) = b
    <3>1. PICK r : /\ r[0] = b
                   /\ \A i \in 1 .. Len(none) : r[i] = GetFrom(r[i - 1], none[i])
                   /\ FoldLeft(GetFrom, b, none) = r[Len(none)]
      BY <2>1, GetsFold
    <3>. QED  BY <2>1, <3>1
  <2>. QED  BY <2>2, <2>3 DEF none, b
<1>. QED  BY <1>9, <1>10 DEF Done

-----------------------------------------------------------------------------
(* What a run leaves in the boxes.                                         *)

UnderWay == resolved = Resolve(Merged(document, around)) /\ RunPasses(document, around)

(* Boxes come with a run that was accepted. *)
NothingBefore == RunPasses(document, around) \/ \A k \in Key : box[Me][k] = EmptyBox

OwnershipInv ==
  /\ PipelineInv
  /\ NothingBefore
  /\ ShapedAround(around)
  /\ stage \in {"seeding", "seeded", "running"} => UnderWay
  /\ stage = "running" => at \in DOMAIN document.steps
  /\ Kept(document, around.scratch /\ around.fresh, box)

(* The schema bounds a strategy, and a run is refused when one is not wired. *)
LEMMA SoundIfBudgetable ==
  ASSUME NEW doc, Shaped(doc), SchemaHolds(doc), NEW k, Budgetable(StrategyFor(doc, k))
  PROVE  Sound(StrategyFor(doc, k))
<1>1. StrategyFor(doc, k) \in StrategyBlocks(doc)
  BY DEF StrategyFor, StrategyBlocks
<1>. QED  BY <1>1 DEF Shaped, SchemaHolds, StrategySchema, QueueSizeMaxMin, Budgetable, Sound

LEMMA StorableIfRun ==
  ASSUME NEW doc, Shaped(doc), NEW w, RunPasses(doc, w)
  PROVE  Storable(doc)
<1>1. SchemaHolds(doc) /\ StrategiesWired(doc)
  BY MergedStrategies DEF RunPasses, DocumentAccepted, ValidWorkflowType
<1>2. \A k : StrategyFor(doc, k) \in StrategyBlocks(doc)
  BY DEF StrategyFor, StrategyBlocks
<1>3. \A k : Budgetable(StrategyFor(doc, k))
  BY <1>1, <1>2 DEF StrategiesWired, Budgetable
<1>. QED  BY <1>1, <1>3, SoundIfBudgetable DEF Storable

(* What the invariant says of a run under way.                             *)
LEMMA RunUnderWay ==
  ASSUME OwnershipInv, UnderWay
  PROVE  /\ RunPasses(document, around) /\ Storable(document)
         /\ DOMAIN resolved.steps = DOMAIN document.steps
         /\ \A i \in DOMAIN document.steps :
              LET step == resolved.steps[i]
              IN /\ IsFiniteSet(DOMAIN step.input)
                 /\ IsFiniteSet(DOMAIN step.output)
                 /\ IsFiniteSet(DOMAIN step.error)
                 /\ \A f \in DOMAIN step.input : Declared(document, step.input[f])
                 /\ \A f \in DOMAIN step.output : Written(document, step.output[f])
                 /\ \A f \in DOMAIN step.error : Written(document, step.error[f])
         /\ \E X : resolved.seedData \in Seq(X) /\ \A x \in X : Placed(document, x)
<1>. DEFINE doc == Merged(document, around)
<1>1. /\ RunPasses(document, around) /\ resolved = Resolve(doc)
      /\ Shaped(document) /\ ShapedAround(around) /\ SeedFlagsParse(around.flags)
  BY DEF OwnershipInv, PipelineInv, UnderWay, RunPasses, DocumentAccepted
<1>2. /\ DOMAIN doc.keys = DOMAIN document.keys
      /\ \A k \in DOMAIN doc.keys : doc.keys[k].seed \in Value \cup {None}
      /\ \A k : Owner(doc, k) = Owner(document, k)
      /\ \A k : StrategyFor(doc, k) = StrategyFor(document, k)
      /\ Bindings(doc) = Bindings(document)
      /\ Provided(doc) = Provided(document)
      /\ doc.steps = document.steps
  BY <1>1, MergedSeeds
<1>. HIDE DEF doc
<1>3. OwnershipConsistent(doc) /\ SchemaHolds(document) /\ KeyTableConsistent(document)
  BY <1>1 DEF RunPasses, Resolves, DocumentAccepted, ValidWorkflowType, doc
<1>4. /\ \A location : Declared(doc, location) => Declared(document, location)
      /\ \A location : Written(doc, location) => Written(document, location)
  BY <1>2 DEF Declared, Written, ReadThere, CrossWorkflowReads, CrossWorkflow
<1>5. /\ resolved.steps = [i \in DOMAIN document.steps |-> ResolveStep(doc, document.steps[i])]
      /\ resolved.seedData = SeedData(doc)
  BY <1>1, <1>2 DEF Resolve
<1>6. ASSUME NEW i \in DOMAIN document.steps
      PROVE  LET step == resolved.steps[i]
             IN /\ IsFiniteSet(DOMAIN step.input)
                /\ IsFiniteSet(DOMAIN step.output)
                /\ IsFiniteSet(DOMAIN step.error)
                /\ \A f \in DOMAIN step.input : Declared(document, step.input[f])
                /\ \A f \in DOMAIN step.output : Written(document, step.output[f])
                /\ \A f \in DOMAIN step.error : Written(document, step.error[f])
  <2>. DEFINE step == ResolveStep(doc, doc.steps[i])
  <2>1. /\ DOMAIN step.input = DOMAIN doc.steps[i].inputs
        /\ DOMAIN step.output = DOMAIN doc.steps[i].outputs
        /\ DOMAIN step.error = DOMAIN doc.steps[i].errors
        /\ \A f \in DOMAIN step.input : Declared(doc, step.input[f])
        /\ \A f \in DOMAIN step.output : Written(doc, step.output[f])
        /\ \A f \in DOMAIN step.error : Written(doc, step.error[f])
    <3>1. i \in DOMAIN doc.steps /\ StepSchema(doc.steps[i])
      BY <1>2, <1>3 DEF SchemaHolds
    <3>. QED  BY <1>3, <3>1, StepLocations
  <2>2. /\ IsFiniteSet(DOMAIN document.steps[i].inputs)
        /\ IsFiniteSet(DOMAIN document.steps[i].outputs)
        /\ IsFiniteSet(DOMAIN document.steps[i].errors)
    BY <1>1 DEF Shaped, Role
  <2>3. resolved.steps[i] = step
    BY <1>2, <1>5
  <2>. HIDE DEF step
  <2>. QED  BY <1>2, <1>4, <2>1, <2>2, <2>3
<1>7. \E X : resolved.seedData \in Seq(X) /\ \A x \in X : Placed(document, x)
  <2>1. IsFiniteSet(DOMAIN doc.keys)
    BY <1>1, <1>2, KeyAssumption, FS_Subset DEF Shaped
  <2>2. PICK X : /\ SeedData(doc) \in Seq(X)
                 /\ \A x \in X : /\ x.key \in DOMAIN doc.keys /\ HasSeed(doc, x.key)
                                 /\ x.strategy = StrategyFor(doc, x.key) /\ x.value \in Value
    BY <1>2, <2>1, SeedDataIs
  <2>3. ASSUME NEW k \in DOMAIN doc.keys, HasSeed(doc, k) PROVE k \in Provided(document)
    <3>1. Owner(document, k) = None
      <4>1. OverridesApply(document, Overrides(around))
        BY <1>1 DEF RunPasses, OverridesAccepted
      <4>2. CASE k \notin DOMAIN Overrides(around)
        <5>1. doc.keys[k].seed = document.keys[k].seed
          BY <1>1, <1>2, <4>2, ReplacedFields DEF doc, Merged
        <5>2. HasSeed(document, k)
          BY <1>2, <2>3, <5>1 DEF HasSeed
        <5>. QED  BY <1>2, <1>3, <5>2 DEF KeyTableConsistent
      <4>3. CASE k \in DOMAIN Overrides(around)
        BY <4>1, <4>3 DEF OverridesApply, Overridable
      <4>. QED  BY <4>2, <4>3
    <3>. QED  BY <1>2, <3>1 DEF Provided, OwnDeclaredKeys
  <2>. QED  BY <1>2, <1>5, <2>2, <2>3 DEF Placed
<1>8. Storable(document)
  BY <1>1, StorableIfRun
<1>. QED  BY <1>1, <1>5, <1>6, <1>7, <1>8

LEMMA OwnershipInit == Init => OwnershipInv
<1>. SUFFICES ASSUME Init PROVE OwnershipInv
  OBVIOUS
<1>1. PipelineInv
  BY PipelineInit
<1>2. ShapedAround(around)
  BY ScenarioAssumption DEF Init
<1>3. /\ BoxTable(box) /\ Provisioned(document, box) /\ SiblingKept(document, box)
      /\ NothingBefore
  <2>1. /\ DOMAIN box = {Me, Other}
        /\ \A w \in {Me, Other} : DOMAIN box[w] = Key
        /\ \A k \in Key : box[Me][k] = EmptyBox /\ box[Other][k] = SiblingBox
    BY SiblingAssumption DEF Init
  <2>. QED  BY <2>1 DEF BoxTable, Provisioned, SiblingKept, NothingBefore
<1>. QED  BY <1>1, <1>2, <1>3 DEF Init, OwnershipInv, Kept

LEMMA ClearedKeeps == OwnershipInv => Kept(document, around.scratch /\ around.fresh, Cleared)
<1>. SUFFICES ASSUME OwnershipInv PROVE Kept(document, around.scratch /\ around.fresh, Cleared)
  OBVIOUS
<1>1. CASE around.scratch /\ around.fresh
  BY <1>1 DEF Cleared, OwnershipInv, Kept, BoxTable, Provisioned
<1>2. CASE ~(around.scratch /\ around.fresh)
  BY <1>2 DEF Cleared, OwnershipInv
<1>. QED  BY <1>1, <1>2

LEMMA SyncKeeps ==
  ASSUME OwnershipInv, UnderWay,
         NEW X, NEW puts \in Seq(X), \A i \in 1 .. Len(puts) : Placed(document, puts[i]),
         NEW next, Sync(puts, next)
  PROVE  /\ Kept(document, around.scratch /\ around.fresh, box')
         /\ stage' = "running" => at' \in DOMAIN document.steps
<1>. DEFINE free == around.scratch /\ around.fresh
            locations == InOrder(resolved.steps[next].input)
            fed == Transaction(box, puts, locations)
            exited == Transaction(box, puts, <<>>)
            goesOn == next \in DOMAIN resolved.steps /\ ~fed.aborted
<1>1. Kept(document, free, box)
  BY DEF OwnershipInv
<1>2. /\ DOMAIN resolved.steps = DOMAIN document.steps /\ Storable(document)
      /\ \A i \in DOMAIN document.steps :
           /\ IsFiniteSet(DOMAIN resolved.steps[i].input)
           /\ \A f \in DOMAIN resolved.steps[i].input : Declared(document, resolved.steps[i].input[f])
  BY RunUnderWay
<1>. HIDE DEF free
<1>3. Kept(document, free, exited.boxes)
  <2>. DEFINE none == <<>>
  <2>1. none \in Seq({}) /\ \A i \in 1 .. Len(none) : Declared(document, none[i])
    OBVIOUS
  <2>. HIDE DEF none
  <2>2. Kept(document, free, Transaction(box, puts, none).boxes)
    BY <1>1, <1>2, <2>1, TransactionKeeps
  <2>. QED  BY <2>2 DEF none
<1>4. next \in DOMAIN resolved.steps => Kept(document, free, fed.boxes)
  <2>. SUFFICES ASSUME next \in DOMAIN resolved.steps PROVE Kept(document, free, fed.boxes)
    OBVIOUS
  <2>. DEFINE l == resolved.steps[next].input
  <2>1. IsFiniteSet(DOMAIN l) /\ \A f \in DOMAIN l : Declared(document, l[f])
    BY <1>2
  <2>. HIDE DEF l
  <2>2. /\ InOrder(l) \in Seq({l[f] : f \in DOMAIN l})
        /\ \A i \in 1 .. Len(InOrder(l)) : Declared(document, InOrder(l)[i])
    BY <2>1, InOrderIs
  <2>3. locations = InOrder(l)
    BY DEF l
  <2>. HIDE DEF locations
  <2>. QED  BY <1>1, <1>2, <2>2, <2>3, TransactionKeeps
<1>5. /\ box' = IF goesOn THEN fed.boxes ELSE IF ~exited.aborted THEN exited.boxes ELSE box
      /\ stage' = IF goesOn THEN "running" ELSE "ended"
      /\ at' = IF goesOn THEN next ELSE 0
  BY DEF Sync
<1>. HIDE DEF fed, exited
<1>. QED  BY <1>1, <1>2, <1>3, <1>4, <1>5 DEF free

LEMMA SeedKeeps ==
  ASSUME OwnershipInv, Seed
  PROVE  Kept(document, around.scratch /\ around.fresh, box')
<1>. DEFINE free == around.scratch /\ around.fresh
            after == Transaction(box, resolved.seedData, <<>>)
<1>1. Kept(document, free, box) /\ UnderWay
  BY DEF OwnershipInv, Seed
<1>. HIDE DEF free
<1>2. Storable(document)
  BY <1>1, RunUnderWay
<1>3. PICK X : /\ resolved.seedData \in Seq(X)
               /\ \A x \in X : Placed(document, x)
  BY <1>1, RunUnderWay
<1>4. Kept(document, free, after.boxes)
  <2>. DEFINE none == <<>>
              puts == resolved.seedData
  <2>1. none \in Seq({}) /\ \A i \in 1 .. Len(none) : Declared(document, none[i])
    OBVIOUS
  <2>2. puts \in Seq(X) /\ \A i \in 1 .. Len(puts) : Placed(document, puts[i])
    BY <1>3
  <2>. HIDE DEF none, puts
  <2>3. Kept(document, free, Transaction(box, puts, none).boxes)
    BY <1>1, <1>2, <2>1, <2>2, TransactionKeeps
  <2>. QED  BY <2>3 DEF none, puts
<1>5. box' = IF after.aborted THEN box ELSE after.boxes
  BY DEF Seed
<1>. HIDE DEF after
<1>. QED  BY <1>1, <1>4, <1>5 DEF free

LEMMA StepReturnsKeeps ==
  ASSUME OwnershipInv, NEW v \in Produced, StepReturns(v)
  PROVE  /\ Kept(document, around.scratch /\ around.fresh, box')
         /\ stage' = "running" => at' \in DOMAIN document.steps
<1>1. UnderWay /\ at \in DOMAIN document.steps
  BY DEF OwnershipInv, StepReturns
<1>2. PICK locations \in {resolved.steps[at].output, resolved.steps[at].error} :
        LET writes == InOrder(locations)
            puts == [i \in DOMAIN writes |-> [key |-> writes[i].key, strategy |-> writes[i].strategy, value |-> v]]
        IN \E next : Sync(puts, next)
  BY DEF StepReturns
<1>. DEFINE writes == InOrder(locations)
            put(i) == [key |-> writes[i].key, strategy |-> writes[i].strategy, value |-> v]
            puts == [i \in DOMAIN writes |-> put(i)]
<1>3. /\ IsFiniteSet(DOMAIN locations)
      /\ \A f \in DOMAIN locations : Written(document, locations[f])
  BY <1>1, <1>2, RunUnderWay
<1>4. /\ writes \in Seq({locations[f] : f \in DOMAIN locations})
      /\ \A i \in 1 .. Len(writes) : Written(document, writes[i])
  <2>1. /\ writes \in Seq({locations[f] : f \in DOMAIN locations})
        /\ \A i \in 1 .. Len(writes) : \E f \in DOMAIN locations : writes[i] = locations[f]
    BY <1>3, InOrderIs
  <2>. HIDE DEF writes
  <2>. QED  BY <1>3, <2>1
<1>5. \E next : Sync(puts, next)
  BY <1>2
<1>. HIDE DEF writes
<1>. DEFINE X == {put(i) : i \in 1 .. Len(writes)}
<1>6. /\ puts \in Seq(X) /\ Len(puts) = Len(writes)
      /\ \A i \in 1 .. Len(puts) : puts[i] = put(i)
  <2>1. DOMAIN writes = 1 .. Len(writes) /\ Len(writes) \in Nat
    BY <1>4
  <2>2. \A i \in 1 .. Len(writes) : put(i) \in X
    OBVIOUS
  <2>3. puts = [i \in 1 .. Len(writes) |-> put(i)]
    BY <2>1
  <2>. HIDE DEF X, put, puts
  <2>. QED  BY <2>1, <2>2, <2>3
<1>7. \A i \in 1 .. Len(puts) : Placed(document, puts[i])
  <2>1. \A i : put(i).key = writes[i].key /\ put(i).strategy = writes[i].strategy /\ put(i).value = v
    OBVIOUS
  <2>. HIDE DEF put, puts
  <2>. QED  BY <1>4, <1>6, <2>1, ValueAssumption DEF Placed, Written
<1>. HIDE DEF puts, X
<1>. QED  BY <1>1, <1>5, <1>6, <1>7, SyncKeeps

LEMMA OwnershipStep == OwnershipInv /\ [Next]_vars => OwnershipInv'
<1>. SUFFICES ASSUME OwnershipInv, [Next]_vars PROVE OwnershipInv'
  OBVIOUS
<1>1. UNCHANGED <<document, around>>
  BY DEF Next, vars, Verify, Bootstrap, Refuse, Seed, FirstStep, StepReturns, StepFails, RunAgain, Sync
<1>2. PipelineInv'
  BY PipelineStep DEF OwnershipInv
<1>3. ShapedAround(around)'
  BY <1>1 DEF OwnershipInv
<1>4. UnderWay' <=> resolved' = Resolve(Merged(document, around)) /\ RunPasses(document, around)
  BY <1>1 DEF UnderWay
<1>20. NothingBefore'
  <2>1. CASE RunPasses(document, around)
    BY <1>1, <2>1 DEF NothingBefore
  <2>2. CASE ~RunPasses(document, around)
    <3>1. stage \in {"idle", "refused"} /\ \A k \in Key : box[Me][k] = EmptyBox
      BY <2>2 DEF OwnershipInv, PipelineInv, NothingBefore
    <3>2. box' \in {box, Cleared}
      BY <2>2, <3>1 DEF Next, vars, Verify, Bootstrap, Refuse, Seed, FirstStep, StepReturns,
                        StepFails, RunAgain
    <3>3. \A k \in Key : Cleared[Me][k] = EmptyBox
      BY <3>1 DEF Cleared, OwnershipInv, Kept, BoxTable
    <3>. QED  BY <3>1, <3>2, <3>3 DEF NothingBefore
  <2>. QED  BY <2>1, <2>2
<1>. SUFFICES /\ stage' \in {"seeding", "seeded", "running"} =>
                   /\ resolved' = Resolve(Merged(document, around))
                   /\ RunPasses(document, around)
              /\ stage' = "running" => at' \in DOMAIN document.steps
              /\ Kept(document, around.scratch /\ around.fresh, box')
  <2>1. (Kept(document, around.scratch /\ around.fresh, box))'
          <=> Kept(document, around.scratch /\ around.fresh, box')
    BY <1>1
  <2>. QED  BY <1>1, <1>2, <1>3, <1>4, <1>20, <2>1 DEF OwnershipInv
<1>5. CASE Verify
  BY <1>5 DEF OwnershipInv, UnderWay, Verify
<1>6. CASE Bootstrap
  BY <1>6, ClearedKeeps DEF Bootstrap
<1>7. CASE Refuse
  BY <1>7, ClearedKeeps DEF OwnershipInv, Refuse
<1>8. CASE Seed
  BY <1>8, SeedKeeps DEF OwnershipInv, UnderWay, Seed
<1>9. CASE FirstStep
  <2>. DEFINE none == <<>>
  <2>1. none \in Seq({}) /\ \A i \in 1 .. Len(none) : Placed(document, none[i])
    OBVIOUS
  <2>2. Sync(none, 1) /\ UnderWay
    BY <1>9 DEF FirstStep, OwnershipInv
  <2>. HIDE DEF none
  <2>3. /\ Kept(document, around.scratch /\ around.fresh, box')
        /\ stage' = "running" => at' \in DOMAIN document.steps
    BY <2>1, <2>2, SyncKeeps
  <2>. QED  BY <2>2, <2>3 DEF Sync, UnderWay
<1>10. CASE \E v \in Produced : StepReturns(v)
  <2>. SUFFICES ASSUME NEW v \in Produced, StepReturns(v)
                PROVE  /\ UnderWay /\ resolved' = resolved
                       /\ stage' = "running" => at' \in DOMAIN document.steps
                       /\ Kept(document, around.scratch /\ around.fresh, box')
    BY <1>10 DEF UnderWay
  <2>1. resolved' = resolved /\ UnderWay
    BY DEF StepReturns, Sync, OwnershipInv
  <2>. QED  BY <2>1, StepReturnsKeeps
<1>11. CASE StepFails
  BY <1>11 DEF OwnershipInv, StepFails
<1>12. CASE RunAgain
  BY <1>12 DEF OwnershipInv, RunAgain
<1>13. CASE UNCHANGED vars
  BY <1>13 DEF OwnershipInv, UnderWay, vars
<1>. QED
  BY <1>5, <1>6, <1>7, <1>8, <1>9, <1>10, <1>11, <1>12, <1>13 DEF Next

(* A run, or any number of runs, never makes a box of its own for a key    *)
(* that belongs to another workflow, and takes from another workflow only  *)
(* entries of queues the document says it reads there: whatever the        *)
(* handlers return, wherever a step goes next, and whichever transaction   *)
(* is refused.                                                             *)
THEOREM OthersAreLeftAlone == Spec => []OwnershipKept
<1>1. OwnershipInv /\ OwnedReadsGoToOwner => OwnershipKept
  BY ProvidedIsOwn
  DEF OwnershipInv, Kept, Provisioned, SiblingKept, ReadThere, OnlyTaken, OwnershipKept
<1>. QED  BY OwnershipInit, OwnershipStep, <1>1, OwnedReads, PTL DEF Spec

LEMMA WithinBudget ==
  ASSUME OwnershipInv
  PROVE  BudgetHolds
<1>. DEFINE f == [k \in Key |-> BoxBytes(box[Me][k], k)]
            S == {k \in Provided(document) : Budgetable(StrategyFor(document, k))}
            e == [k \in S |-> BudgetForKey(k, StrategyFor(document, k)).dataBytesMax]
<1>1. Shaped(document)
  BY DEF OwnershipInv, PipelineInv
<1>2. RunPasses(document, around) => Storable(document) /\ ValidWorkflowType(document)
  BY <1>1, StorableIfRun DEF RunPasses, DocumentAccepted
<1>3. ASSUME NEW k \in Key
      PROVE  /\ f[k] \in Nat
             /\ \/ f[k] = 0
                \/ /\ k \in S /\ RunPasses(document, around)
                   /\ f[k] <= BudgetForKey(k, StrategyFor(document, k)).dataBytesMax
  <2>. DEFINE b == box[Me][k]
              s == StrategyFor(document, k)
  <2>1. f[k] = BoxBytes(b, k)
    OBVIOUS
  <2>2. b = EmptyBox \/ (k \in Provided(document) /\ Within(b, s) /\ RunPasses(document, around))
    BY DEF OwnershipInv, NothingBefore, Kept, Provisioned
  <2>3. CASE b = EmptyBox
    <3>. HIDE DEF f, b
    <3>. QED  BY <2>1, <2>3, EmptyHasNoBytes
  <2>4. CASE k \in Provided(document) /\ Within(b, s) /\ RunPasses(document, around)
    <3>1. Sound(s) /\ k \in S
      BY <1>2, <2>4 DEF Storable, Sound, Budgetable
    <3>. HIDE DEF f, b, S
    <3>2. BoxBytes(b, k) \in Nat /\ BoxBytes(b, k) <= BudgetForKey(k, s).dataBytesMax
      <4>. HIDE DEF s
      <4>. QED  BY <2>4, <3>1, BoxWithinBudget
    <3>. QED  BY <2>1, <2>4, <3>1, <3>2
  <2>. QED  BY <2>2, <2>3, <2>4
<1>4. IsFiniteSet(Key) /\ DOMAIN f = Key
  BY KeyAssumption
<1>. HIDE DEF f
<1>5. CASE ValidWorkflowType(document)
  <2>1. Provided(document) \subseteq Key
    BY <1>1 DEF Shaped, Provided, OwnDeclaredKeys, BoundKeys
  <2>2. ASSUME NEW k \in S PROVE e[k] \in Nat /\ k \in Key
    <3>1. Sound(StrategyFor(document, k))
      BY <1>1, <1>5, SoundIfBudgetable DEF ValidWorkflowType
    <3>2. BudgetForKey(k, StrategyFor(document, k)).dataBytesMax \in Nat
      BY <2>1, <3>1, BudgetIsNatural
    <3>. QED  BY <2>1, <3>2
  <2>3. S \subseteq Key /\ DOMAIN e = S /\ IsFiniteSet(S)
    BY <1>4, <2>1, FS_Subset
  <2>4. DataBytesMax(document) = SumFunction(e)
    <3>. DEFINE strategyOf == [k \in Provided(document) |-> StrategyFor(document, k)]
                T == {k \in DOMAIN strategyOf : Budgetable(strategyOf[k])}
    <3>1. DataBytesMax(document)
            = SumFunction([k \in T |-> BudgetForKey(k, strategyOf[k]).dataBytesMax])
      BY DEF DataBytesMax, BudgetForStorage, Provided
    <3>2. T = S /\ \A k \in T : strategyOf[k] = StrategyFor(document, k)
      OBVIOUS
    <3>. HIDE DEF strategyOf, T, S
    <3>3. [k \in T |-> BudgetForKey(k, strategyOf[k]).dataBytesMax] = e
      BY <3>2
    <3>. HIDE DEF e
    <3>. QED  BY <3>1, <3>3
  <2>5. \A k \in DOMAIN f : f[k] <= IF k \in DOMAIN e THEN e[k] ELSE 0
    <3>1. ASSUME NEW k \in Key PROVE f[k] <= IF k \in S THEN e[k] ELSE 0
      <4>1. k \in S => e[k] = BudgetForKey(k, StrategyFor(document, k)).dataBytesMax
        OBVIOUS
      <4>2. k \in S => e[k] \in Nat
        BY <2>2
      <4>. HIDE DEF S, e
      <4>. QED  BY <1>3, <4>1, <4>2
    <3>. HIDE DEF S, e
    <3>. QED  BY <1>4, <2>3, <3>1
  <2>6. Integral(f) /\ Integral(e)
    <3>1. \A k \in S : e[k] \in Int
      BY <2>2
    <3>. HIDE DEF S, e
    <3>. QED  BY <1>3, <1>4, <2>3, <3>1 DEF Integral
  <2>. HIDE DEF e, S
  <2>7. SumFunction(f) <= SumFunction(e)
    BY <1>4, <2>3, <2>5, <2>6, SumCompare
  <2>. QED  BY <1>5, <2>4, <2>7 DEF BudgetHolds, f
<1>6. CASE ~ValidWorkflowType(document)
  <2>1. \A k \in DOMAIN f : f[k] \in Nat /\ f[k] <= 0
    BY <1>2, <1>3, <1>4, <1>6
  <2>2. SumFunction(f) <= Cardinality(DOMAIN f) * 0
    BY <1>4, <2>1, SumBounded
  <2>3. Cardinality(DOMAIN f) * 0 = 0
    BY <1>4, FS_CardinalityType
  <2>. QED  BY <1>6, <2>2, <2>3 DEF BudgetHolds, f
<1>. QED  BY <1>5, <1>6

(* The figure workflow verify prints bounds what the boxes of a document   *)
(* take in the store, after any number of runs and steps: a box is within  *)
(* its strategy whatever the handlers returned and whatever the overrides  *)
(* put in the place of the seeds.                                          *)
THEOREM VerifiedFigureBounds == Spec => []BudgetHolds
BY OwnershipInit, OwnershipStep, WithinBudget, PTL DEF Spec

-----------------------------------------------------------------------------
(* The seeds that are accepted are those a store without leftovers takes.  *)

LEMMA MergedSeedValues ==
  ASSUME Shaped(document), ShapedAround(around), RunPasses(document, around)
  PROVE  LET doc == Merged(document, around)
         IN \A k \in DOMAIN document.keys :
              /\ HasSeed(doc, k) <=> HasSeed(document, k)
              /\ doc.keys[k].seed = StartValue(k)
              /\ HasSeed(doc, k) => /\ StartValue(k) \in Value
                                    /\ SeedShapeFits(StartValue(k), StrategyFor(document, k))
                                    /\ KeySizeFits(k)
<1>. DEFINE doc == Merged(document, around)
            overrides == Overrides(around)
            block == IF around.scratch THEN <<>> ELSE WorkspaceLayer(around.workspace)
            flags == FlagLayer(around.flags)
<1>1. /\ SeedFlagsParse(around.flags) /\ StorageSizesFit(document)
      /\ OverridesApply(document, overrides)
  BY DEF RunPasses, DocumentAccepted, OverridesAccepted, ValidWorkflowType
<1>2. \A k \in DOMAIN overrides : overrides[k] \in Value
  BY <1>1, OverridesAreValues
<1>3. /\ DOMAIN overrides = DOMAIN block \cup DOMAIN flags
      /\ \A k \in DOMAIN overrides :
           overrides[k] = IF k \in DOMAIN flags THEN flags[k] ELSE block[k]
  <2>1. overrides = ReduceOverrideLayers(block, flags)
    BY DEF Overrides
  <2>. HIDE DEF overrides, block, flags
  <2>. QED  BY <2>1 DEF ReduceOverrideLayers
<1>4. \A k : k \in DOMAIN block <=> ~around.scratch /\ k \in DOMAIN WorkspaceLayer(around.workspace)
  OBVIOUS
<1>5. \A k : StartValue(k) = IF k \in DOMAIN overrides THEN overrides[k] ELSE document.keys[k].seed
  <2>1. ASSUME NEW k
        PROVE  StartValue(k) = IF k \in DOMAIN overrides THEN overrides[k] ELSE document.keys[k].seed
    <3>1. CASE k \in DOMAIN flags
      BY <1>3, <3>1 DEF StartValue
    <3>2. CASE k \notin DOMAIN flags /\ k \in DOMAIN block
      <4>1. StartValue(k) = block[k]
        BY <1>4, <3>2 DEF StartValue
      <4>. HIDE DEF overrides, block, flags
      <4>. QED  BY <1>3, <3>2, <4>1
    <3>3. CASE k \notin DOMAIN flags /\ k \notin DOMAIN block
      <4>1. StartValue(k) = document.keys[k].seed
        BY <1>4, <3>3 DEF StartValue
      <4>. HIDE DEF overrides, block, flags
      <4>. QED  BY <1>3, <3>3, <4>1
    <3>. QED  BY <3>1, <3>2, <3>3
  <2>. QED  BY <2>1
<1>6. /\ DOMAIN doc.keys = DOMAIN document.keys
      /\ \A k \in DOMAIN document.keys :
           doc.keys[k].seed = IF k \in DOMAIN overrides THEN overrides[k] ELSE document.keys[k].seed
  BY ReplacedFields DEF Merged
<1>. HIDE DEF doc, overrides, block, flags
<1>7. ASSUME NEW k \in DOMAIN document.keys
      PROVE  /\ HasSeed(doc, k) <=> HasSeed(document, k)
             /\ HasSeed(doc, k) => /\ StartValue(k) \in Value
                                   /\ SeedShapeFits(StartValue(k), StrategyFor(document, k))
                                   /\ KeySizeFits(k)
  <2>1. KeySizeFits(k) /\ document.keys[k].seed \in Value \cup {None}
    BY <1>1 DEF StorageSizesFit, Shaped
  <2>2. CASE k \in DOMAIN overrides
    <3>1. doc.keys[k].seed = overrides[k] /\ StartValue(k) = overrides[k]
      BY <1>5, <1>6, <2>2
    <3>2. HasSeed(document, k) /\ SeedShapeFits(overrides[k], StrategyFor(document, k))
      BY <1>1, <2>2 DEF OverridesApply, Overridable, OverrideShapeFits
    <3>3. overrides[k] \in Value /\ overrides[k] # None
      BY <1>2, <2>2, ValueAssumption
    <3>. QED  BY <1>6, <2>1, <3>1, <3>2, <3>3 DEF HasSeed
  <2>3. CASE k \notin DOMAIN overrides
    <3>1. doc.keys[k].seed = document.keys[k].seed /\ StartValue(k) = document.keys[k].seed
      BY <1>5, <1>6, <2>3
    <3>2. HasSeed(document, k) => SeedShapeFits(document.keys[k].seed, StrategyFor(document, k))
      BY <1>1 DEF StorageSizesFit
    <3>. QED  BY <1>6, <2>1, <3>1, <3>2 DEF HasSeed
  <2>. QED  BY <2>2, <2>3
<1>. QED  BY <1>5, <1>6, <1>7 DEF doc

LEMMA FittingSeedIsSeedable ==
  ASSUME NEW doc, NEW k \in Key, KeySizeFits(k), doc.keys[k].seed \in Value,
         Sound(StrategyFor(doc, k)), SeedShapeFits(doc.keys[k].seed, StrategyFor(doc, k))
  PROVE  Seedable(doc, k)
<1>. DEFINE s == StrategyFor(doc, k)
            v == doc.keys[k].seed
            values == SeedValues(doc, k)
<1>1. Sound(s) /\ v \in Value /\ SeedShapeFits(v, s)
  OBVIOUS
<1>2. values = IF SeedExpandsList(s) THEN Elements(v) ELSE <<v>>
  BY DEF SeedValues
<1>. HIDE DEF s, v, values
<1>3. BudgetForKey(k, s).keySizeMax <= LMDB_KEY_SIZE_MAX
  <2>1. KeySize[k] \in Nat /\ KeySize[k] <= 79
    BY KeyAssumption DEF KeySizeFits, RAWBOX_KEY_SIZE_MAX
  <2>2. Digits(s.queueSizeMax - 1) \in 1 .. 10
    BY <1>1, DigitsGrow DEF Sound
  <2>3. CASE s.name = "lmdb-kv"
    BY <2>1, <2>3 DEF BudgetForKey, BudgetForKvKey, LMDB_KEY_SIZE_MAX
  <2>4. CASE s.name # "lmdb-kv"
    <3>1. BudgetForKey(k, s).keySizeMax
            = MaxOf(FifoDataKeySize(k, s.queueSizeMax - 1), FifoCursorKeySize(k))
      BY <2>4 DEF BudgetForKey, BudgetForFifoKey
    <3>2. /\ FifoDataKeySize(k, s.queueSizeMax - 1) \in 0 .. 100
          /\ FifoCursorKeySize(k) \in 0 .. 89
      BY <2>1, <2>2 DEF FifoDataKeySize, FifoCursorKeySize
    <3>. QED  BY <3>1, <3>2 DEF MaxOf, LMDB_KEY_SIZE_MAX
  <2>. QED  BY <2>3, <2>4
<1>4. CASE s.name = "lmdb-kv"
  <2>1. ~SeedExpandsList(s) /\ values = <<v>>
    BY <1>2, <1>4 DEF SeedExpandsList, FifoNames
  <2>2. Len(values) = 1 /\ values[1] = v /\ ValueSizeFits(v, s)
    BY <1>1, <2>1 DEF SeedShapeFits
  <2>. HIDE DEF StoreTakes
  <2>3. StoreTakes(k, s, v)
    BY <1>3, <2>2 DEF StoreTakes
  <2>. QED  BY <1>1, <1>4, <2>2, <2>3 DEF Seedable, s, v, values
<1>5. CASE s.name # "lmdb-kv"
  <2>1. s.name = "lmdb-fifo" /\ s.queueSizeMax \in Int
    BY <1>1, <1>5 DEF Sound, LmdbNames
  <2>2. SeedExpandsList(s) /\ values = Elements(v)
    BY <1>2, <2>1 DEF SeedExpandsList, FifoNames
  <2>3. /\ Len(v.sizes) <= s.queueSizeMax - 1
        /\ \A i \in DOMAIN v.sizes : ValueSizeFits(Scalar(v.sizes[i]), s)
    BY <1>1, <2>1, <2>2 DEF SeedShapeFits, FifoSeedLengthFits, SeedCapacityOf, RingCapacity
  <2>4. v.sizes \in Seq(Nat)
    BY <1>1 DEF Value
  <2>5. /\ Len(values) = Len(v.sizes) /\ Len(values) \in Nat
        /\ \A i \in 1 .. Len(values) : i \in DOMAIN v.sizes /\ values[i] = Scalar(v.sizes[i])
    <3>. DEFINE z == v.sizes
    <3>1. z \in Seq(Nat) /\ values = [i \in DOMAIN z |-> Scalar(z[i])]
      BY <2>2, <2>4 DEF Elements
    <3>. HIDE DEF z
    <3>2. Len(z) \in Nat /\ DOMAIN z = 1 .. Len(z)
      BY <3>1
    <3>3. Len(values) = Len(z)
      BY <3>1, <3>2
    <3>. QED  BY <3>1, <3>2, <3>3 DEF z
  <2>6. \A i \in 1 .. Len(values) : StoreTakes(k, s, values[i])
    BY <1>3, <2>3, <2>5 DEF StoreTakes
  <2>7. Len(values) < s.queueSizeMax
    BY <2>1, <2>3, <2>5
  <2>. QED  BY <1>1, <2>6, <2>7 DEF Seedable, s, v, values
<1>. QED  BY <1>4, <1>5

LEMMA FilledHolds ==
  ASSUME NEW doc, NEW k, doc.keys[k].seed \in Value, Sound(StrategyFor(doc, k)), NEW b,
         Filled(b, StrategyFor(doc, k), SeedValues(doc, k), Len(SeedValues(doc, k)))
  PROVE  Holds(b, StrategyFor(doc, k), doc.keys[k].seed)
<1>. DEFINE s == StrategyFor(doc, k)
            v == doc.keys[k].seed
            values == SeedValues(doc, k)
            m == Len(values)
<1>1. Sound(s) /\ v \in Value /\ Filled(b, s, values, m)
  OBVIOUS
<1>2. values = IF SeedExpandsList(s) THEN Elements(v) ELSE <<v>>
  BY DEF SeedValues
<1>. HIDE DEF s, v, values
<1>3. CASE s.name = "lmdb-kv"
  <2>1. values = <<v>>
    BY <1>2, <1>3 DEF SeedExpandsList, FifoNames
  <2>2. m = 1 /\ values[m] = v
    BY <2>1
  <2>. HIDE DEF m
  <2>3. b.cell = values[m]
    BY <1>1, <1>3, <2>2 DEF Filled
  <2>. QED  BY <1>3, <2>2, <2>3 DEF Holds, s, v
<1>4. CASE s.name # "lmdb-kv"
  <2>. DEFINE z == v.sizes
  <2>1. values = [i \in DOMAIN z |-> Scalar(z[i])]
    BY <1>1, <1>2, <1>4 DEF Elements, Sound, LmdbNames, SeedExpandsList, FifoNames
  <2>2. z \in Seq(Nat)
    BY <1>1 DEF Value
  <2>3. /\ Cursor(b.head) = m /\ Cursor(b.tail) = 0
        /\ \A i \in 1 .. m : b.data[i - 1] = values[i]
    BY <1>1, <1>4 DEF Filled
  <2>. HIDE DEF z
  <2>4. Len(z) \in Nat /\ DOMAIN z = 1 .. Len(z)
    BY <2>2
  <2>5. m = Len(z)
    BY <2>1, <2>4
  <2>. HIDE DEF m
  <2>6. /\ Cursor(b.head) = Len(z) /\ Cursor(b.tail) = 0
        /\ \A i \in DOMAIN z : b.data[i - 1] = Scalar(z[i])
    BY <2>1, <2>3, <2>4, <2>5
  <2>. QED  BY <1>4, <2>6 DEF Holds, s, v, z
<1>. QED  BY <1>3, <1>4

(* The boxes of the workflow hold the seeds of its document, and no more.  *)
SownAsMerged == Sown(Merged(document, around), box, Seeded(Merged(document, around)))

LEMMA AcceptedSeedsAreTaken ==
  ASSUME Shaped(document), ShapedAround(around), RunPasses(document, around),
         NEW x, BoxTable(x), \A k \in Key : x[Me][k] = EmptyBox
  PROVE  LET doc == Merged(document, around)
             u == Transaction(x, SeedData(doc), <<>>)
         IN ~u.aborted /\ Sown(doc, u.boxes, Seeded(doc))
<1>. DEFINE doc == Merged(document, around)
<1>1. /\ DOMAIN doc.keys = DOMAIN document.keys
      /\ \A k \in DOMAIN doc.keys : doc.keys[k].seed \in Value \cup {None}
      /\ \A k : StrategyFor(doc, k) = StrategyFor(document, k)
  <2>1. SeedFlagsParse(around.flags)
    BY DEF RunPasses, DocumentAccepted
  <2>. QED  BY <2>1, MergedSeeds
<1>2. \A k \in DOMAIN document.keys :
        /\ doc.keys[k].seed = StartValue(k)
        /\ HasSeed(doc, k) => /\ StartValue(k) \in Value
                              /\ SeedShapeFits(StartValue(k), StrategyFor(document, k))
                              /\ KeySizeFits(k)
  BY MergedSeedValues
<1>3. Storable(document)
  BY StorableIfRun
<1>. HIDE DEF doc
<1>4. \A k \in Seeded(doc) : Seedable(doc, k)
  <2>1. ASSUME NEW k \in Seeded(doc) PROVE Seedable(doc, k)
    <3>1. k \in DOMAIN document.keys /\ HasSeed(doc, k) /\ k \in Key
      BY <1>1 DEF Seeded, Shaped
    <3>2. /\ doc.keys[k].seed \in Value /\ KeySizeFits(k)
          /\ SeedShapeFits(doc.keys[k].seed, StrategyFor(doc, k))
      BY <1>1, <1>2, <3>1
    <3>3. Sound(StrategyFor(doc, k))
      BY <1>1, <1>3 DEF Storable
    <3>. QED  BY <3>1, <3>2, <3>3, FittingSeedIsSeedable
  <2>. QED  BY <2>1
<1>5. IsFiniteSet(DOMAIN doc.keys)
  BY <1>1, KeyAssumption, FS_Subset DEF Shaped
<1>6. Sown(doc, x, {})
  BY DEF Sown
<1>. QED  BY <1>1, <1>4, <1>5, <1>6, AllSown DEF doc

SeedsInv ==
  /\ OwnershipInv
  /\ runs \in Nat
  /\ stage \notin {"idle", "refused"} => runs >= 1
  /\ runs = 0 => \A k \in Key : box[Me][k] = EmptyBox
  /\ stage = "seeding" /\ runs = 1 => \A k \in Key : box[Me][k] = EmptyBox
  /\ stage = "seedRefused" => runs > 1
  /\ stage = "seeded" /\ runs = 1 => SownAsMerged

LEMMA SeedsInit == Init => SeedsInv
<1>. SUFFICES ASSUME Init PROVE SeedsInv
  OBVIOUS
<1>1. \A k \in Key : box[Me][k] = EmptyBox
  BY SiblingAssumption DEF Init
<1>. QED  BY <1>1, OwnershipInit DEF Init, SeedsInv

LEMMA SeedsStep == SeedsInv /\ [Next]_vars => SeedsInv'
<1>. SUFFICES ASSUME SeedsInv, [Next]_vars PROVE SeedsInv'
  OBVIOUS
<1>. DEFINE Empty(x) == \A k \in Key : x[Me][k] = EmptyBox
<1>1. OwnershipInv /\ OwnershipInv'
  BY OwnershipStep DEF SeedsInv
<1>2. /\ runs \in Nat
      /\ stage \notin {"idle", "refused"} => runs >= 1
      /\ runs = 0 => Empty(box)
      /\ stage = "seeding" /\ runs = 1 => Empty(box)
      /\ stage = "seedRefused" => runs > 1
      /\ stage = "seeded" /\ runs = 1 => SownAsMerged
  BY DEF SeedsInv
<1>3. Empty(box) => Empty(Cleared)
  BY <1>1 DEF Cleared, OwnershipInv, Kept, BoxTable
<1>. DEFINE sown == Sown(Merged(document, around), box', Seeded(Merged(document, around)))
<1>4. SownAsMerged' <=> sown
  <2>1. UNCHANGED <<document, around>>
    BY DEF Next, vars, Verify, Bootstrap, Refuse, Seed, FirstStep, StepReturns, StepFails, RunAgain, Sync
  <2>. QED  BY <2>1 DEF SownAsMerged
<1>. SUFFICES /\ runs' \in Nat
              /\ stage' \notin {"idle", "refused"} => runs' >= 1
              /\ runs' = 0 => Empty(box')
              /\ stage' = "seeding" /\ runs' = 1 => Empty(box')
              /\ stage' = "seedRefused" => runs' > 1
              /\ stage' = "seeded" /\ runs' = 1 => sown
  BY <1>1, <1>4 DEF SeedsInv
<1>. HIDE DEF Empty, sown
<1>5. CASE Verify
  BY <1>2, <1>5 DEF Verify
<1>6. CASE Bootstrap
  <2>1. /\ stage' = "seeding" /\ runs' = runs + 1 /\ box' = Cleared
    BY <1>6 DEF Bootstrap
  <2>2. runs' = 1 => runs = 0
    BY <1>2, <2>1
  <2>. QED  BY <1>2, <1>3, <2>1, <2>2
<1>7. CASE Refuse
  BY <1>2, <1>3, <1>7 DEF Refuse
<1>8. CASE Seed
  <2>. DEFINE doc == Merged(document, around)
              after == Transaction(box, resolved.seedData, <<>>)
  <2>1. /\ stage = "seeding" /\ runs' = runs
        /\ stage' = IF after.aborted THEN "seedRefused" ELSE "seeded"
        /\ box' = IF after.aborted THEN box ELSE after.boxes
    BY <1>8 DEF Seed
  <2>2. resolved.seedData = SeedData(doc)
    BY <1>1, <2>1 DEF OwnershipInv, UnderWay, Resolve
  <2>3. Empty(box) => ~after.aborted /\ Sown(doc, after.boxes, Seeded(doc))
    <3>1. Shaped(document) /\ ShapedAround(around) /\ RunPasses(document, around) /\ BoxTable(box)
      BY <1>1, <2>1 DEF OwnershipInv, PipelineInv, UnderWay, Kept
    <3>2. ASSUME Empty(box)
          PROVE  LET u == Transaction(box, SeedData(doc), <<>>)
                 IN ~u.aborted /\ Sown(doc, u.boxes, Seeded(doc))
      BY <3>1, <3>2, AcceptedSeedsAreTaken DEF Empty
    <3>. HIDE DEF doc
    <3>. QED  BY <2>2, <3>2
  <2>. HIDE DEF after
  <2>4. ~after.aborted => box' = after.boxes
    BY <2>1
  <2>. QED  BY <1>2, <2>1, <2>3, <2>4 DEF sown
<1>9. CASE FirstStep
  BY <1>2, <1>9 DEF FirstStep, Sync
<1>10. CASE \E v \in Produced : StepReturns(v)
  BY <1>2, <1>10 DEF StepReturns, Sync
<1>11. CASE StepFails
  BY <1>2, <1>11 DEF StepFails
<1>12. CASE RunAgain
  BY <1>2, <1>12 DEF RunAgain
<1>13. CASE UNCHANGED vars
  BY <1>2, <1>13 DEF vars, sown, Empty, SownAsMerged
<1>. QED
  BY <1>5, <1>6, <1>7, <1>8, <1>9, <1>10, <1>11, <1>12, <1>13 DEF Next

(* What the check of the seeds says of a step: each value a key starts     *)
(* with is one the step takes that reads it here.                          *)
LEMMA StepsTakeTheirSeeds ==
  ASSUME OwnershipInv, UnderWay,
         NEW i \in DOMAIN document.steps, NEW f \in DOMAIN document.steps[i].inputs,
         ~CrossWorkflow(document, document.steps[i].inputs[f]),
         HasSeed(document, document.steps[i].inputs[f].key),
         f \in DOMAIN Contract[document.steps[i].plugin][document.steps[i].operation].accepts
  PROVE  LET k == document.steps[i].inputs[f].key
             values == SeedValues(Merged(document, around), k)
         IN \A j \in 1 .. Len(values) :
              values[j] \in Contract[document.steps[i].plugin][document.steps[i].operation].accepts[f]
<1>. DEFINE doc == Merged(document, around)
            ref == document.steps[i].inputs[f]
            k == ref.key
            values == SeedValues(doc, k)
            accepts == Contract[document.steps[i].plugin][document.steps[i].operation].accepts
<1>1. /\ Shaped(document) /\ ShapedAround(around) /\ RunPasses(document, around)
      /\ resolved = Resolve(doc) /\ SeedFlagsParse(around.flags)
      /\ SeedDataAccepted(Resolve(doc))
  BY DEF OwnershipInv, PipelineInv, UnderWay, RunPasses, DocumentAccepted
<1>2. /\ DOMAIN doc.keys = DOMAIN document.keys
      /\ \A j \in DOMAIN doc.keys : doc.keys[j].seed \in Value \cup {None}
      /\ \A j : Owner(doc, j) = Owner(document, j)
      /\ doc.steps = document.steps
  BY <1>1, MergedSeeds
<1>3. /\ ref.workflow = None /\ Owner(document, k) = None
      /\ k \in DOMAIN document.keys
  BY DEF CrossWorkflow, HasSeed
<1>4. k \in Seeded(doc) /\ doc.keys[k].seed \in Value
  <2>1. HasSeed(doc, k) <=> HasSeed(document, k)
    BY <1>1, <1>3, MergedSeedValues
  <2>. HIDE DEF doc
  <2>. QED  BY <1>2, <1>3, <2>1 DEF Seeded, HasSeed
<1>. HIDE DEF doc
<1>5. PICK X : /\ SeedSequence(doc) \in Seq(Seq(X))
               /\ SeedData(doc) = FlattenSeq(SeedSequence(doc))
  <2>1. IsFiniteSet(DOMAIN doc.keys)
    BY <1>1, <1>2, KeyAssumption, FS_Subset DEF Shaped
  <2>. QED  BY <1>2, <2>1, SeedSequenceIs
<1>. DEFINE s == SeedSequence(doc)
            entries == SeedEntries(doc, k)
<1>6. \E n \in 1 .. Len(s) : s[n] = entries
  <2>. DEFINE S == Seeded(doc)
              seeded == SetToSeq(S)
  <2>1. IsFiniteSet(S)
    BY <1>1, <1>2, KeyAssumption, FS_Subset DEF Shaped, Seeded
  <2>2. /\ DOMAIN seeded = 1 .. Len(seeded) /\ Len(seeded) \in Nat
        /\ \E n \in 1 .. Len(seeded) : seeded[n] = k
    <3>. HIDE DEF S
    <3>1. /\ seeded \in Seq(S) /\ Len(seeded) \in Nat /\ DOMAIN seeded = 1 .. Len(seeded)
          /\ \A x \in S : \E n \in 1 .. Len(seeded) : seeded[n] = x
      BY <2>1, SetToSeqElements
    <3>. HIDE DEF seeded
    <3>. QED  BY <1>4, <3>1 DEF S
  <2>3. s = [n \in 1 .. Len(seeded) |-> SeedEntries(doc, seeded[n])]
    BY <2>2 DEF SeedSequence
  <2>. HIDE DEF s, seeded
  <2>. QED  BY <2>2, <2>3
<1>7. /\ Len(entries) = Len(values)
      /\ \A j \in 1 .. Len(entries) : entries[j].key = k /\ entries[j].value = values[j]
  <2>1. /\ Len(entries) = Len(values)
        /\ \A j \in 1 .. Len(entries) :
             entries[j] = [key |-> k, strategy |-> StrategyFor(doc, k), value |-> values[j]]
    <3>. HIDE DEF k
    <3>1. doc.keys[k].seed \in Value
      BY <1>4
    <3>2. Len(entries) = Len(values)
      BY <3>1, SeedEntriesAre, Zenon
    <3>3. \A j \in 1 .. Len(entries) :
             entries[j] = [key |-> k, strategy |-> StrategyFor(doc, k), value |-> values[j]]
      BY <3>1, SeedEntriesAre
    <3>. QED  BY <3>2, <3>3
  <2>2. ASSUME NEW j \in 1 .. Len(entries)
        PROVE  entries[j].key = k /\ entries[j].value = values[j]
    <3>. DEFINE e == entries[j]
                v == values[j]
                strategy == StrategyFor(doc, k)
    <3>1. e = [key |-> k, strategy |-> strategy, value |-> v]
      BY <2>1
    <3>. HIDE DEF e, v, k, strategy
    <3>2. e.key = k /\ e.value = v
      BY <3>1
    <3>. QED  BY <3>2 DEF e, v
  <2>. QED  BY <2>1, <2>2
<1>8. ASSUME NEW e, e.key = k, \E p \in DOMAIN SeedData(doc) : SeedData(doc)[p] = e
      PROVE  e.value \in accepts[f]
  <2>. DEFINE r == Resolve(doc)
              step == r.steps[i]
  <2>1. /\ r.seedData = SeedData(doc)
        /\ r.steps = [j \in DOMAIN document.steps |-> ResolveStep(doc, document.steps[j])]
    BY <1>2 DEF Resolve
  <2>2. step = ResolveStep(doc, document.steps[i]) /\ i \in DOMAIN r.steps
    BY <2>1
  <2>3. /\ step.plugin = document.steps[i].plugin
        /\ step.operation = document.steps[i].operation
        /\ f \in DOMAIN step.input
        /\ step.input[f] = ReadLocation(doc, ref)
    <3>. HIDE DEF step
    <3>. QED  BY <2>2 DEF ResolveStep
  <2>4. step.input[f].key = k /\ ReadsHere(step.input[f])
    <3>1. Owner(doc, ref.key) = None
      BY <1>2, <1>3
    <3>2. ReadLocation(doc, ref) = [key |-> ref.key, strategy |-> StrategyFor(doc, ref.key)]
      BY <1>3, <3>1 DEF ReadLocation
    <3>. HIDE DEF step, ref
    <3>. QED  BY <2>3, <3>2 DEF ReadsHere
  <2>5. Accepts(step, f, e.value)
    <3>1. PICK p \in DOMAIN r.seedData : r.seedData[p] = e
      BY <1>8, <2>1
    <3>2. SeedDataAccepted(r)
      BY <1>1
    <3>. HIDE DEF r, k
    <3>3. \A f2 \in DOMAIN step.input :
            step.input[f2].key = r.seedData[p].key /\ ReadsHere(step.input[f2])
              => Accepts(step, f2, r.seedData[p].value)
      BY <2>2, <3>1, <3>2 DEF SeedDataAccepted
    <3>4. f \in DOMAIN step.input
      BY <2>3
    <3>. HIDE DEF step
    <3>. QED  BY <1>8, <2>4, <3>1, <3>3, <3>4
  <2>. HIDE DEF step
  <2>. QED  BY <2>3, <2>5 DEF Accepts
<1>9. ASSUME NEW j \in 1 .. Len(values) PROVE values[j] \in accepts[f]
  <2>1. PICK n \in 1 .. Len(s) : s[n] = entries
    BY <1>6
  <2>2. j \in 1 .. Len(s[n])
    BY <1>7, <2>1
  <2>. HIDE DEF s, entries
  <2>3. \E p \in DOMAIN FlattenSeq(s) : FlattenSeq(s)[p] = s[n][j]
    <3>1. s \in Seq(Seq(X))
      BY <1>5 DEF s
    <3>. QED  BY <2>1, <2>2, <3>1, FlattenHas
  <2>4. \E p \in DOMAIN SeedData(doc) : SeedData(doc)[p] = entries[j]
    BY <1>5, <2>1, <2>3 DEF s
  <2>5. entries[j].key = k /\ entries[j].value = values[j]
    BY <1>7
  <2>. HIDE DEF values, k, accepts
  <2>. QED  BY <1>8, <2>4, <2>5
<1>. QED  BY <1>9 DEF doc

LEMMA SeedsInvFit ==
  ASSUME SeedsInv
  PROVE  SeedsFit
<1>. DEFINE doc == Merged(document, around)
<1>1. OwnershipInv /\ (stage = "seedRefused" => runs > 1)
      /\ (stage = "seeded" /\ runs = 1 => SownAsMerged)
  BY DEF SeedsInv
<1>2. CASE stage # "seeded"
  BY <1>1, <1>2 DEF SeedsFit
<1>3. CASE stage = "seeded"
  <2>1. UnderWay /\ Shaped(document) /\ ShapedAround(around) /\ RunPasses(document, around)
    BY <1>1, <1>3 DEF OwnershipInv, PipelineInv, UnderWay
  <2>2. \A k \in DOMAIN document.keys :
          /\ HasSeed(doc, k) <=> HasSeed(document, k)
          /\ doc.keys[k].seed = StartValue(k)
          /\ HasSeed(doc, k) => StartValue(k) \in Value
    BY <2>1, MergedSeedValues
  <2>3. DOMAIN doc.keys = DOMAIN document.keys /\ \A k : StrategyFor(doc, k) = StrategyFor(document, k)
    <3>1. SeedFlagsParse(around.flags)
      BY <2>1 DEF RunPasses, DocumentAccepted
    <3>. QED  BY <2>1, <3>1, MergedSeeds
  <2>4. Storable(document)
    BY <2>1, StorableIfRun
  <2>. HIDE DEF doc
  <2>5. ASSUME runs = 1, NEW k \in Key
        PROVE  IF HasSeed(document, k)
               THEN Holds(box[Me][k], StrategyFor(document, k), StartValue(k))
               ELSE box[Me][k] = EmptyBox
    <3>1. k \in Seeded(doc) <=> HasSeed(document, k)
      BY <2>2, <2>3 DEF Seeded, HasSeed
    <3>2. IF k \in Seeded(doc)
          THEN Filled(box[Me][k], StrategyFor(doc, k), SeedValues(doc, k), Len(SeedValues(doc, k)))
          ELSE box[Me][k] = EmptyBox
      BY <1>1, <1>3, <2>5 DEF SownAsMerged, Sown, doc
    <3>3. ASSUME HasSeed(document, k)
          PROVE  Holds(box[Me][k], StrategyFor(document, k), StartValue(k))
      <4>1. doc.keys[k].seed = StartValue(k) /\ doc.keys[k].seed \in Value
        BY <2>2, <3>3 DEF HasSeed
      <4>2. Sound(StrategyFor(doc, k)) /\ StrategyFor(doc, k) = StrategyFor(document, k)
        BY <2>3, <2>4 DEF Storable
      <4>3. Holds(box[Me][k], StrategyFor(doc, k), doc.keys[k].seed)
        BY <3>1, <3>2, <3>3, <4>1, <4>2, FilledHolds
      <4>. QED  BY <4>1, <4>2, <4>3
    <3>. QED  BY <3>1, <3>2, <3>3
  <2>6. ASSUME NEW i \in DOMAIN document.steps, NEW f \in DOMAIN document.steps[i].inputs,
               ~CrossWorkflow(document, document.steps[i].inputs[f]),
               HasSeed(document, document.steps[i].inputs[f].key),
               f \in DOMAIN Contract[document.steps[i].plugin][document.steps[i].operation].accepts
        PROVE  LET ref == document.steps[i].inputs[f]
                   contract == Contract[document.steps[i].plugin][document.steps[i].operation]
               IN IF SeedExpandsList(StrategyFor(document, ref.key))
                  THEN \A j \in DOMAIN StartValue(ref.key).sizes :
                         Scalar(StartValue(ref.key).sizes[j]) \in contract.accepts[f]
                  ELSE StartValue(ref.key) \in contract.accepts[f]
    <3>. DEFINE k == document.steps[i].inputs[f].key
                accepts == Contract[document.steps[i].plugin][document.steps[i].operation].accepts
                values == SeedValues(doc, k)
                v == StartValue(k)
    <3>1. \A j \in 1 .. Len(values) : values[j] \in accepts[f]
      BY <1>1, <2>1, <2>6, StepsTakeTheirSeeds DEF doc
    <3>2. v \in Value /\ doc.keys[k].seed = v /\ StrategyFor(doc, k) = StrategyFor(document, k)
      BY <2>2, <2>3, <2>6 DEF HasSeed
    <3>3. values = IF SeedExpandsList(StrategyFor(document, k)) THEN Elements(v) ELSE <<v>>
      BY <3>2 DEF SeedValues
    <3>. HIDE DEF k, accepts, values, v
    <3>4. CASE SeedExpandsList(StrategyFor(document, k))
      <4>. DEFINE z == v.sizes
      <4>1. z \in Seq(Nat)
        BY <3>2 DEF Value
      <4>2. values = [j \in DOMAIN z |-> Scalar(z[j])]
        BY <3>3, <3>4 DEF Elements
      <4>. HIDE DEF z
      <4>3. Len(z) \in Nat /\ DOMAIN z = 1 .. Len(z)
        BY <4>1
      <4>4. Len(values) = Len(z) /\ \A j \in DOMAIN z : values[j] = Scalar(z[j])
        BY <4>2, <4>3
      <4>5. \A j \in DOMAIN z : Scalar(z[j]) \in accepts[f]
        BY <3>1, <4>3, <4>4
      <4>. QED  BY <3>4, <4>5 DEF k, accepts, v, z
    <3>5. CASE ~SeedExpandsList(StrategyFor(document, k))
      <4>1. Len(values) = 1 /\ values[1] = v
        BY <3>3, <3>5
      <4>2. v \in accepts[f]
        BY <3>1, <4>1
      <4>. QED  BY <3>5, <4>2 DEF k, accepts, v
    <3>. QED  BY <3>4, <3>5
  <2>. QED  BY <1>1, <1>3, <2>5, <2>6 DEF SeedsFit
<1>. QED  BY <1>2, <1>3

(* Seeds that verify or a run accepted can be written and read: on a store *)
(* without leftovers the transaction that writes them is never refused,    *)
(* whatever the document, the workspace's overrides and the flags; each    *)
(* seeded box then holds the value of the last layer that names its key,   *)
(* in the order of its elements and without one missing, every other box   *)
(* is as it was; and no step is handed a seed its contract rejects.        *)
THEOREM AcceptedSeedsAreWhatRunsStartWith == Spec => []SeedsFit
BY SeedsInit, SeedsStep, SeedsInvFit, PTL DEF Spec
=============================================================================
