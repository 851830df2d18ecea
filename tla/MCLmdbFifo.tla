----------------------------- MODULE MCLmdbFifo -----------------------------
(* Two writing processes, a ring of two slots and a ring of four. *)
EXTENDS LmdbFifo, TLC
CONSTANTS p1, p2, narrow, wide, a, b
MCQueueSizeMax == narrow :> 2 @@ wide :> 4
MCSymmetry == Permutations({p1, p2}) \cup Permutations({a, b})
=============================================================================
