------------------------------ MODULE FifoRing ------------------------------
(***************************************************************************)
(* The arithmetic of an lmdb-fifo queue: two cursors, head (the next slot  *)
(* to write) and tail (the next slot to read), walking a ring of n slots.  *)
(* The writer, the observer and the size verifier share these operators.   *)
(* The operators are state free: every module about the ring extends this. *)
(***************************************************************************)
EXTENDS Integers, Sequences, FiniteSets

(* The larger of two integers, Math.max of the source. *)
MaxOf(a, b) == IF a >= b THEN a ELSE b

(* The remainder of the source language, whose sign is the dividend's. *)
Rem(a, n) == IF a >= 0 THEN a % n ELSE -((-a) % n)

(* Steps past the last slot instead of back to the first. *)
NextSlotUnwrapped(i, n) == i + 1

(* The slot after i, the only way either cursor moves. *)
NextSlot(i, n) == Rem(i + 1, n)

(* Entries between tail and head going forward around the ring. *)
RingUsed(head, tail, n) == Rem(Rem(head - tail, n) + n, n)

(* One slot is always kept free, to tell a full ring from an empty one. *)
RingCapacity(n) == n - 1

(* The occupied slots, oldest first. *)
RingIndexList(head, tail, n) ==
  [i \in 1 .. RingUsed(head, tail, n) |-> Rem(tail + i - 1, n)]

(* The occupied slots as a set. *)
Occupied(head, tail, n) ==
  {Rem(tail + j, n) : j \in 0 .. RingUsed(head, tail, n) - 1}

QueueSizeMaxMin == 2

(* Forgets that a wrapped ring pins its own size. *)
ReconstructUnwrapped(head, tail, depth) ==
  MaxOf(QueueSizeMaxMin, MaxOf(MaxOf(head, tail), depth) + 1)

(* A ring size that reproduces the arithmetic of a ring whose declared size *)
(* the observer does not know, from the cursors and the count of its data   *)
(* entries.                                                                 *)
ReconstructQueueSizeMax(head, tail, depth) ==
  MaxOf(QueueSizeMaxMin,
        IF head < tail THEN (tail - head) + depth
                       ELSE MaxOf(MaxOf(head, tail), depth) + 1)
=============================================================================
