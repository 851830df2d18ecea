-------------------------- MODULE MCStoreObserver --------------------------
(* A writing process and an observer, and a ring that wraps with room for  *)
(* the size solved for one listing to be too small at the next question.   *)
EXTENDS StoreObserver, TLC
CONSTANTS writing, queue, a, b
MCQueueSizeMax == queue :> 4
MCSymmetry == Permutations({a, b})
=============================================================================
