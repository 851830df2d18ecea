---------------------------- MODULE BoundedQueue ----------------------------
(***************************************************************************)
(* What the queues of a workspace promise, with no ring in sight.          *)
(* queue[k] is the queue every reader sees, a sequence of at most          *)
(* Capacity[k] values.  A transaction belongs to one process at a time,    *)
(* works on a copy (draft), appends at the end, takes from the front, and  *)
(* either replaces every queue at once or leaves all of them untouched.    *)
(* A refusal is honest: Full and Empty are answered only by a queue that   *)
(* is full or empty, and the transaction they end leaves no trace.         *)
(***************************************************************************)
EXTENDS Integers, Sequences

CONSTANTS
  Process,   \* the processes that open the environment for writing
  Key,       \* the queues
  Value,     \* what may be enqueued
  Capacity,  \* Capacity[k]: how many entries queue k holds
  None,      \* no process holds the write lock; no answer yet
  Full,      \* the answer of an enqueue that found no room
  Empty      \* the answer of a dequeue that found nothing

VARIABLES
  queue,     \* queue[k]: the committed contents, oldest first
  draft,     \* draft[k]: the contents inside the open transaction
  owner,     \* the process inside a transaction, or None
  answer     \* what the last operation returned to its caller

vars == <<queue, draft, owner, answer>>

Init ==
  /\ queue = [k \in Key |-> <<>>]
  /\ draft = queue
  /\ owner = None
  /\ answer = None

Begin(p) ==
  /\ owner = None
  /\ owner' = p
  /\ answer' = None
  /\ UNCHANGED <<queue, draft>>

Enqueue(p, k, v) ==
  /\ owner = p
  /\ Len(draft[k]) < Capacity[k]
  /\ draft' = [draft EXCEPT ![k] = Append(@, v)]
  /\ answer' = None
  /\ UNCHANGED <<queue, owner>>

Dequeue(p, k) ==
  /\ owner = p
  /\ draft[k] # <<>>
  /\ draft' = [draft EXCEPT ![k] = Tail(@)]
  /\ answer' = Head(draft[k])
  /\ UNCHANGED <<queue, owner>>

Rollback(p) ==
  /\ owner = p
  /\ owner' = None
  /\ draft' = queue
  /\ UNCHANGED queue

RefuseFull(p, k) ==
  /\ Len(draft[k]) = Capacity[k]
  /\ Rollback(p)
  /\ answer' = Full

RefuseEmpty(p, k) ==
  /\ draft[k] = <<>>
  /\ Rollback(p)
  /\ answer' = Empty

Abandon(p) ==
  /\ Rollback(p)
  /\ answer' = None

Commit(p) ==
  /\ owner = p
  /\ owner' = None
  /\ queue' = draft
  /\ answer' = None
  /\ UNCHANGED draft

Next ==
  \E p \in Process :
    \/ Begin(p)
    \/ \E k \in Key, v \in Value : Enqueue(p, k, v)
    \/ \E k \in Key : Dequeue(p, k) \/ RefuseFull(p, k) \/ RefuseEmpty(p, k)
    \/ Commit(p)
    \/ Abandon(p)

Spec == Init /\ [][Next]_vars
=============================================================================
