--------------------------- MODULE SeedOverrides ---------------------------
(***************************************************************************)
(* The values a workspace document and the command line put in the place   *)
(* of the seeds of a workflow.  A block of the workspace is keyed by the   *)
(* path of the workflow, of which several spellings resolve to one; the    *)
(* --seed flags are a layer over it.                                       *)
(***************************************************************************)
EXTENDS WorkflowDocument, SequencesExt

CONSTANTS
  MyPath,         \* the path of the workflow document
  ResolvePath(_)  \* the path a spelling in the workspace document names

(* A flag that is not key=<json> refuses the command; of two flags of one  *)
(* key the last one counts.                                                *)
SeedFlagsParse(flags) == \A i \in DOMAIN flags : flags[i].value # None

SeedFlagRecord(flags) ==
  [k \in {flags[i].key : i \in DOMAIN flags} |->
     SelectLastInSeq(flags, LAMBDA f : f.key = k)]

FlagLayer(flags) ==
  LET last == SeedFlagRecord(flags)
  IN [k \in DOMAIN last |-> flags[last[k]].value]

(* Each block belongs to one workflow the workspace lists, and no two to   *)
(* one.                                                                    *)
OverridePathsConsistent(workspace) ==
  \A b \in workspace.seedOverrides :
    /\ \E spelling \in workspace.workflowPathList : ResolvePath(spelling) = ResolvePath(b.authored)
    /\ \A c \in workspace.seedOverrides : ResolvePath(c.authored) = ResolvePath(b.authored) => c = b

(* The block of this workflow; one that is no map of values is skipped. *)
WorkspaceLayer(workspace) ==
  LET mine == {b \in workspace.seedOverrides : ResolvePath(b.authored) = MyPath /\ b.values # None}
  IN IF mine = {} THEN <<>> ELSE (CHOOSE b \in mine : TRUE).values

(* The last layer that names a key supplies its value. *)
ReduceOverrideLayers(workspaceLayer, flagLayer) ==
  [k \in DOMAIN workspaceLayer \cup DOMAIN flagLayer |->
     IF k \in DOMAIN flagLayer THEN flagLayer[k] ELSE workspaceLayer[k]]

(* An override replaces a seed that the document declares on a key of its  *)
(* own: it neither makes a seed nor writes to another workflow.            *)
Overridable(doc, k) == Owner(doc, k) = None /\ HasSeed(doc, k)

(* The value is one the key's strategy takes. *)
OverrideShapeFits(doc, k, value) == SeedShapeFits(value, StrategyFor(doc, k))

OverridesApply(doc, overrides) ==
  \A k \in DOMAIN overrides :
    Overridable(doc, k) /\ OverrideShapeFits(doc, k, overrides[k])

WithReplacedSeeds(doc, overrides) ==
  [doc EXCEPT !.keys =
     [k \in DOMAIN @ |-> IF k \in DOMAIN overrides
                         THEN [@[k] EXCEPT !.seed = overrides[k]] ELSE @[k]]]
=============================================================================
