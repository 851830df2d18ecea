--------------------------- MODULE StoreObserver ---------------------------
(***************************************************************************)
(* An observer of the queues (store get, store watch, get_store_item): it  *)
(* writes nothing, holds no lock, and asks twice.  It lists the keys of a  *)
(* workflow, from which it learns the cursors and the depth of a queue but *)
(* not its declared size, solves for a size, and asks for all the elements *)
(* under that size.  Each question reads one committed state; the writers  *)
(* of LmdbFifo move between the two.                                       *)
(***************************************************************************)
EXTENDS LmdbFifo

VARIABLES
  listing,  \* the entry listed: its key, cursors and depth, or None
  quiet,    \* history: the queue listed has not moved since
  peeked    \* the last answer: its key, elements or error, and the truth

observerVars == <<listing, quiet, peeked>>

(* The answer of a peek whose ring size does not fit what it finds. *)
PeekError == <<"cursors outside the ring, or an entry missing">>

(* Walks the ring without looking where its cursors are. *)
PeekAllUnchecked(r, n) ==
  LET index == RingIndexList(r.head, r.tail, n)
  IN IF \E i \in DOMAIN index : r.data[index[i]] = Absent
     THEN PeekError
     ELSE [i \in DOMAIN index |-> r.data[index[i]]]

(* peekAllStatic on ring r, told that the ring has n slots. *)
PeekAll(r, n) ==
  LET index == RingIndexList(r.head, r.tail, n)
  IN IF r.head >= n \/ r.tail >= n
        \/ \E i \in DOMAIN index : r.data[index[i]] = Absent
     THEN PeekError
     ELSE [i \in DOMAIN index |-> r.data[index[i]]]

InitObserver ==
  /\ Init
  /\ listing = None
  /\ quiet = TRUE
  /\ peeked = None

(* A queue never written, which the code does not list, is listed empty.   *)
ListKeys(k) ==
  /\ listing = None
  /\ LET r == committed[k]
     IN listing' = [key |-> k, head |-> r.head, tail |-> r.tail, depth |-> Depth(r)]
  /\ quiet' = TRUE
  /\ peeked' = None
  /\ UNCHANGED vars

PeekListed ==
  /\ listing # None
  /\ LET r == committed[listing.key]
         n == ReconstructQueueSizeMax(listing.head, listing.tail, listing.depth)
     IN peeked' = [answer |-> PeekAll(r, n),
                   truth |-> Contents(r, QueueSizeMax[listing.key])]
  /\ listing' = None
  /\ UNCHANGED <<vars, quiet>>

Write ==
  /\ Next
  /\ quiet' = (quiet /\ (listing = None \/ committed'[listing.key] = committed[listing.key]))
  /\ UNCHANGED <<listing, peeked>>

NextObserver ==
  \/ Write
  \/ \E k \in Key : ListKeys(k)
  \/ PeekListed

ObserverSpec == InitObserver /\ [][NextObserver]_<<vars, observerVars>>

-----------------------------------------------------------------------------

(* s is t with at most one run of neighbours cut out, and not its head. *)
IsCutOnce(s, t) ==
  /\ Len(s) <= Len(t)
  /\ \E i \in 0 .. Len(s) :
       /\ t # <<>> => i # 0
       /\ \A j \in 1 .. i : s[j] = t[j]
       /\ \A j \in i + 1 .. Len(s) : s[j] = t[j + (Len(t) - Len(s))]

(* PeekedInOrder: whatever the writers did between the two questions, the  *)
(* elements shown are the queue as it stood at the second, oldest first    *)
(* and in its order, but for one gap: the slots from the size solved for   *)
(* to the end of the ring, which are passed over when the queue wraps.     *)
(* An observer of a queue nobody touches gets all of it.                   *)
PeekedInOrder ==
  peeked # None =>
    /\ peeked.answer # PeekError => IsCutOnce(peeked.answer, peeked.truth)
    /\ quiet => peeked.answer = peeked.truth
=============================================================================
