--------------------------- MODULE MCSetupLock ---------------------------
EXTENDS SetupLock, TLC

CONSTANTS r1, r2, r3, a, b

(* Two workflows declare the plugin of one workspace, a third another one. *)
MCNeeds == (r1 :> {a}) @@ (r2 :> {a}) @@ (r3 :> {b})
MCInstalls == (r1 :> {a}) @@ (r2 :> {a}) @@ (r3 :> {a, b})
MCPairNeeds == (r1 :> {a}) @@ (r2 :> {a})
=============================================================================
