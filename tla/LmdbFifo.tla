------------------------------ MODULE LmdbFifo ------------------------------
(***************************************************************************)
(* The lmdb-fifo queues of one workspace environment, as BoxStoreLmdb      *)
(* keeps them: two cursor entries and one entry per queued element, moved  *)
(* by put and get inside a write transaction.  LMDB lets one transaction   *)
(* write at a time, across processes; what it has written (working) is     *)
(* seen by nobody else until it commits, and every reader works on the     *)
(* last committed state (committed).  A put or get called on its own is a  *)
(* transaction of one operation.                                           *)
(***************************************************************************)
EXTENDS FifoRing

CONSTANTS
  Process,       \* the processes that open the environment for writing
  Key,           \* the lmdb-fifo keys of a workflow
  Value,         \* contents that pass the key and value size guards
  QueueSizeMax,  \* QueueSizeMax[k]: the declared ring size
  None,          \* nobody, nothing
  Absent         \* what a read of a key with no entry returns

(* The schema of the lmdb-fifo strategy asks for an integer of at least 2. *)
ASSUME RingAssumption ==
  /\ QueueSizeMax \in [Key -> Nat \ {0, 1}]
  /\ None \notin Process
  /\ Absent \notin Value

Full == "Queue is full"
Empty == "Queue empty"

VARIABLES
  committed,  \* committed[k]: the entries of queue k in the last commit
  working,    \* working[k]: the same, inside the open write transaction
  writer,     \* the process inside a write transaction, or None
  answer      \* what the last operation returned to its caller

vars == <<committed, working, writer, answer>>

(* One queue: both cursors (an entry never written reads as 0) and the     *)
(* data entries, Absent where there is none.                               *)
Slot(k) == 0 .. QueueSizeMax[k] - 1
Ring(k) == [head : Slot(k), tail : Slot(k), data : [Slot(k) -> Value \cup {Absent}]]
EmptyRing(k) == [head |-> 0, tail |-> 0, data |-> [i \in Slot(k) |-> Absent]]

HasRoom(r, n) == NextSlot(r.head, n) # r.tail
HasEntry(r) == r.head # r.tail

Pushed(r, v, n) ==
  [head |-> NextSlot(r.head, n), tail |-> r.tail,
   data |-> [r.data EXCEPT ![r.head] = v]]

(* Dequeues without removing the entry it returns. *)
PoppedKeepingEntry(r, n) ==
  [head |-> r.head, tail |-> NextSlot(r.tail, n), data |-> r.data]

Popped(r, n) ==
  [head |-> r.head, tail |-> NextSlot(r.tail, n),
   data |-> [r.data EXCEPT ![r.tail] = Absent]]

(* The queued contents, oldest first, as the observer lists them. *)
Contents(r, n) ==
  LET index == RingIndexList(r.head, r.tail, n)
  IN [i \in 1 .. RingUsed(r.head, r.tail, n) |-> r.data[index[i]]]

-----------------------------------------------------------------------------

Init ==
  /\ committed = [k \in Key |-> EmptyRing(k)]
  /\ working = committed
  /\ writer = None
  /\ answer = None

(* transactionSync waits for the environment's single write lock. *)
Begin(p) ==
  /\ writer = None
  /\ writer' = p
  /\ answer' = None
  /\ UNCHANGED <<committed, working>>

(* A refused transaction that commits what it had written. *)
DiscardKeepingWrites(p) ==
  /\ writer = p
  /\ writer' = None
  /\ committed' = working
  /\ UNCHANGED working

(* The write transaction ends without a commit. *)
Discard(p) ==
  /\ writer = p
  /\ writer' = None
  /\ working' = committed
  /\ UNCHANGED committed

Put(p, k, v) ==
  /\ writer = p
  /\ HasRoom(working[k], QueueSizeMax[k])
  /\ working' = [working EXCEPT ![k] = Pushed(@, v, QueueSizeMax[k])]
  /\ answer' = None
  /\ UNCHANGED <<committed, writer>>

(* The error of one put is the error of the transaction: it aborts. *)
PutRefused(p, k) ==
  /\ ~HasRoom(working[k], QueueSizeMax[k])
  /\ Discard(p)
  /\ answer' = Full

Get(p, k) ==
  /\ writer = p
  /\ HasEntry(working[k])
  /\ answer' = working[k].data[working[k].tail]
  /\ working' = [working EXCEPT ![k] = Popped(@, QueueSizeMax[k])]
  /\ UNCHANGED <<committed, writer>>

GetRefused(p, k) ==
  /\ ~HasEntry(working[k])
  /\ Discard(p)
  /\ answer' = Empty

(* A value over its size limit, a record that does not match its step, an  *)
(* exception in the callback, or the death of the writing process.         *)
Abandon(p) ==
  /\ Discard(p)
  /\ answer' = None

Commit(p) ==
  /\ writer = p
  /\ writer' = None
  /\ committed' = working
  /\ answer' = None
  /\ UNCHANGED working

Next ==
  \E p \in Process :
    \/ Begin(p)
    \/ \E k \in Key, v \in Value : Put(p, k, v)
    \/ \E k \in Key : PutRefused(p, k) \/ Get(p, k) \/ GetRefused(p, k)
    \/ Abandon(p)
    \/ Commit(p)

Spec == Init /\ [][Next]_vars

-----------------------------------------------------------------------------

(* TypeOK: every queue is a ring whose cursors stay inside it, and a write *)
(* transaction belongs to at most one process.                             *)
TypeOK ==
  /\ committed \in [Key -> UNION {Ring(k) : k \in Key}]
  /\ working \in [Key -> UNION {Ring(k) : k \in Key}]
  /\ \A k \in Key : committed[k] \in Ring(k) /\ working[k] \in Ring(k)
  /\ writer \in Process \cup {None}
  /\ answer \in Value \cup {None, Full, Empty}

(* SlotsMatchCursors: an entry exists exactly in the slots between tail    *)
(* and head.  A get never returns a slot that was never written, a slot    *)
(* consumed is freed, and no entry is left where the cursors cannot reach  *)
(* it: the depth an observer counts is the depth the cursors describe.     *)
SlotsMatchCursors ==
  \A k \in Key :
    \A r \in {committed[k], working[k]} :
      {i \in Slot(k) : r.data[i] # Absent}
        = Occupied(r.head, r.tail, QueueSizeMax[k])

(* What an observer counts: the data entries that exist. *)
Depth(r) == Cardinality({i \in DOMAIN r.data : r.data[i] # Absent})

(* ReconstructionExact: for every committed queue, the ring size an        *)
(* observer solves for lists the same slots in the same order as the       *)
(* declared one.                                                           *)
ReconstructionExact ==
  \A k \in Key :
    LET r == committed[k]
    IN RingIndexList(r.head, r.tail,
                     ReconstructQueueSizeMax(r.head, r.tail, Depth(r)))
         = RingIndexList(r.head, r.tail, QueueSizeMax[k])

(* The queues as their readers see them. *)
Abstract == INSTANCE BoundedQueue WITH
  Capacity <- [k \in Key |-> RingCapacity(QueueSizeMax[k])],
  queue <- [k \in Key |-> Contents(committed[k], QueueSizeMax[k])],
  draft <- [k \in Key |-> Contents(working[k], QueueSizeMax[k])],
  owner <- writer

(* ImplementsBoundedQueue: the rings are bounded queues.  Nothing is lost, *)
(* duplicated or reordered, a transaction is all or nothing, and "Queue is *)
(* full" and "Queue empty" are said only of a queue that is.               *)
ImplementsBoundedQueue == Abstract!Spec
=============================================================================
