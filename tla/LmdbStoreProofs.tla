--------------------------- MODULE LmdbStoreProofs ---------------------------
(***************************************************************************)
(* Theorems about LmdbFifo and its observers, for every set of processes,  *)
(* keys and values and every declared ring size.  The arithmetic of the    *)
(* ring comes first: what the remainders of FifoRing are when both cursors *)
(* are in the ring.  The inductive invariant of the store is TypeOK with   *)
(* SlotsMatchCursors: a get returns a value, rather than the content of an *)
(* empty slot, only because of the second.  An observer solves for a size  *)
(* at one listing and walks the ring at a later question: what is needed   *)
(* of the size is that it is no larger than the declared one, and that the *)
(* peek refuses cursors outside of it.                                     *)
(***************************************************************************)
EXTENDS StoreObserver, SequenceTheorems, FiniteSetTheorems, TLAPS

(* A cursor steps to the next slot, and from the last slot to the first. *)
LEMMA NextSlotCases ==
  ASSUME NEW n \in Nat \ {0, 1}, NEW i \in 0 .. n - 1
  PROVE  /\ NextSlot(i, n) = IF i = n - 1 THEN 0 ELSE i + 1
         /\ NextSlot(i, n) \in 0 .. n - 1
BY DEF NextSlot, Rem

(* The depth of a ring that has not wrapped, and of one that has. *)
LEMMA RingUsedCases ==
  ASSUME NEW n \in Nat \ {0, 1}, NEW h \in 0 .. n - 1, NEW t \in 0 .. n - 1
  PROVE  /\ RingUsed(h, t, n) = IF t <= h THEN h - t ELSE h - t + n
         /\ RingUsed(h, t, n) \in 0 .. n - 1
<1>1. CASE t <= h
  <2>1. Rem(h - t, n) = h - t
    BY <1>1 DEF Rem
  <2>2. Rem(h - t + n, n) = h - t
    BY <1>1 DEF Rem
  <2>. QED  BY <1>1, <2>1, <2>2 DEF RingUsed
<1>2. CASE h < t
  <2>1. Rem(h - t, n) = h - t
    BY <1>2 DEF Rem
  <2>2. Rem(h - t + n, n) = h - t + n
    BY <1>2 DEF Rem
  <2>. QED  BY <1>2, <2>1, <2>2 DEF RingUsed
<1>. QED  BY <1>1, <1>2

(* The slot j entries after the tail. *)
LEMMA SlotCases ==
  ASSUME NEW n \in Nat \ {0, 1}, NEW t \in 0 .. n - 1, NEW j \in 0 .. n - 1
  PROVE  /\ Rem(t + j, n) = IF t + j < n THEN t + j ELSE t + j - n
         /\ Rem(t + j, n) \in 0 .. n - 1
BY DEF Rem

(* The occupied slots are one interval, or two when the ring has wrapped. *)
LEMMA OccupiedCases ==
  ASSUME NEW n \in Nat \ {0, 1}, NEW h \in 0 .. n - 1, NEW t \in 0 .. n - 1,
         NEW i \in 0 .. n - 1
  PROVE  i \in Occupied(h, t, n) <=>
           IF t <= h THEN t <= i /\ i < h ELSE t <= i \/ i < h
<1>. DEFINE used == RingUsed(h, t, n)
<1>1. /\ used = IF t <= h THEN h - t ELSE h - t + n
      /\ used \in 0 .. n - 1
  BY RingUsedCases
<1>2. ASSUME NEW j \in 0 .. used - 1
      PROVE  Rem(t + j, n) = IF t + j < n THEN t + j ELSE t + j - n
  BY <1>1, SlotCases
<1>3. ASSUME i \in Occupied(h, t, n)
      PROVE  IF t <= h THEN t <= i /\ i < h ELSE t <= i \/ i < h
  <2>1. PICK j \in 0 .. used - 1 : i = Rem(t + j, n)
    BY <1>3 DEF Occupied
  <2>. QED  BY <1>1, <1>2, <2>1
<1>4. ASSUME IF t <= h THEN t <= i /\ i < h ELSE t <= i \/ i < h
      PROVE  i \in Occupied(h, t, n)
  <2>. DEFINE j == IF t <= i THEN i - t ELSE i - t + n
  <2>1. j \in 0 .. used - 1
    BY <1>1, <1>4
  <2>2. Rem(t + j, n) = i
    BY <1>2, <2>1
  <2>. QED  BY <2>1, <2>2 DEF Occupied
<1>. QED  BY <1>3, <1>4

(* The occupied slots are slots of the ring. *)
LEMMA OccupiedSlots ==
  ASSUME NEW n \in Nat \ {0, 1}, NEW h \in 0 .. n - 1, NEW t \in 0 .. n - 1
  PROVE  Occupied(h, t, n) \subseteq 0 .. n - 1
<1>1. RingUsed(h, t, n) \in 0 .. n - 1
  BY RingUsedCases
<1>2. ASSUME NEW j \in 0 .. RingUsed(h, t, n) - 1
      PROVE  Rem(t + j, n) \in 0 .. n - 1
  <2>1. j \in 0 .. n - 1
    BY <1>1
  <2>. QED  BY <2>1, SlotCases
<1>. QED  BY <1>2 DEF Occupied

-----------------------------------------------------------------------------

(* The two operations on one ring. *)
Matched(r, n) ==
  {i \in 0 .. n - 1 : r.data[i] # Absent} = Occupied(r.head, r.tail, n)

(* A put that finds room keeps a ring a ring and fills the slot at head. *)
LEMMA PushedRing ==
  ASSUME NEW k \in Key, NEW r \in Ring(k), NEW v \in Value,
         Matched(r, QueueSizeMax[k]), HasRoom(r, QueueSizeMax[k])
  PROVE  /\ Pushed(r, v, QueueSizeMax[k]) \in Ring(k)
         /\ Matched(Pushed(r, v, QueueSizeMax[k]), QueueSizeMax[k])
<1>. DEFINE n == QueueSizeMax[k]
            s == Pushed(r, v, n)
<1>0. n \in Nat \ {0, 1}
  BY RingAssumption
<1>. HIDE DEF n
<1>1. /\ r.head \in 0 .. n - 1 /\ r.tail \in 0 .. n - 1
      /\ r.data \in [0 .. n - 1 -> Value \cup {Absent}]
      /\ r = [head |-> r.head, tail |-> r.tail, data |-> r.data]
  BY DEF Ring, Slot, n
<1>2. /\ NextSlot(r.head, n) = IF r.head = n - 1 THEN 0 ELSE r.head + 1
      /\ NextSlot(r.head, n) \in 0 .. n - 1
  BY <1>0, <1>1, NextSlotCases
<1>3. s = [head |-> NextSlot(r.head, n), tail |-> r.tail,
           data |-> [r.data EXCEPT ![r.head] = v]]
  BY <1>1 DEF Pushed
<1>. HIDE DEF s
<1>4. s \in Ring(k)
  BY <1>1, <1>2, <1>3 DEF Ring, Slot, n
<1>5. NextSlot(r.head, n) # r.tail
  BY DEF HasRoom, n
<1>6. ASSUME NEW i \in 0 .. n - 1
      PROVE  s.data[i] # Absent <=> i \in Occupied(s.head, s.tail, n)
  <2>1. i \in Occupied(s.head, s.tail, n) <=> i \in Occupied(r.head, r.tail, n) \/ i = r.head
    BY <1>0, <1>1, <1>2, <1>3, <1>5, OccupiedCases
  <2>2. r.data[i] # Absent <=> i \in Occupied(r.head, r.tail, n)
    BY DEF Matched, n
  <2>3. s.data[i] = IF i = r.head THEN v ELSE r.data[i]
    <3>1. s.data = [r.data EXCEPT ![r.head] = v]
      BY <1>3
    <3>. QED  BY <1>1, <3>1
  <2>. QED  BY <2>1, <2>2, <2>3, RingAssumption
<1>7. Occupied(s.head, s.tail, n) \subseteq 0 .. n - 1
  BY <1>0, <1>1, <1>2, <1>3, OccupiedSlots
<1>. QED  BY <1>4, <1>6, <1>7 DEF Matched, n, s

(* A get that finds an entry keeps a ring a ring, returns a value and      *)
(* frees its slot.                                                         *)
LEMMA PoppedRing ==
  ASSUME NEW k \in Key, NEW r \in Ring(k),
         Matched(r, QueueSizeMax[k]), HasEntry(r)
  PROVE  /\ r.data[r.tail] \in Value
         /\ Popped(r, QueueSizeMax[k]) \in Ring(k)
         /\ Matched(Popped(r, QueueSizeMax[k]), QueueSizeMax[k])
<1>. DEFINE n == QueueSizeMax[k]
            s == Popped(r, n)
<1>0. n \in Nat \ {0, 1}
  BY RingAssumption
<1>. HIDE DEF n
<1>1. /\ r.head \in 0 .. n - 1 /\ r.tail \in 0 .. n - 1
      /\ r.data \in [0 .. n - 1 -> Value \cup {Absent}]
      /\ r = [head |-> r.head, tail |-> r.tail, data |-> r.data]
  BY DEF Ring, Slot, n
<1>2. /\ NextSlot(r.tail, n) = IF r.tail = n - 1 THEN 0 ELSE r.tail + 1
      /\ NextSlot(r.tail, n) \in 0 .. n - 1
  BY <1>0, <1>1, NextSlotCases
<1>3. s = [head |-> r.head, tail |-> NextSlot(r.tail, n),
           data |-> [r.data EXCEPT ![r.tail] = Absent]]
  BY <1>1 DEF Popped
<1>. HIDE DEF s
<1>4. s \in Ring(k)
  BY <1>1, <1>2, <1>3 DEF Ring, Slot, n
<1>5. r.head # r.tail
  BY DEF HasEntry
<1>6. ASSUME NEW i \in 0 .. n - 1
      PROVE  r.data[i] # Absent <=> i \in Occupied(r.head, r.tail, n)
  BY DEF Matched, n
<1>7. r.data[r.tail] \in Value
  <2>1. r.tail \in Occupied(r.head, r.tail, n)
    BY <1>0, <1>1, <1>5, OccupiedCases
  <2>. QED  BY <1>1, <1>6, <2>1
<1>8. ASSUME NEW i \in 0 .. n - 1
      PROVE  s.data[i] # Absent <=> i \in Occupied(s.head, s.tail, n)
  <2>1. i \in Occupied(s.head, s.tail, n) <=> i \in Occupied(r.head, r.tail, n) /\ i # r.tail
    BY <1>0, <1>1, <1>2, <1>3, <1>5, OccupiedCases
  <2>2. s.data[i] = IF i = r.tail THEN Absent ELSE r.data[i]
    <3>1. s.data = [r.data EXCEPT ![r.tail] = Absent]
      BY <1>3
    <3>. QED  BY <1>1, <3>1
  <2>. QED  BY <1>6, <2>1, <2>2
<1>9. Occupied(s.head, s.tail, n) \subseteq 0 .. n - 1
  BY <1>0, <1>1, <1>2, <1>3, OccupiedSlots
<1>. QED  BY <1>4, <1>7, <1>8, <1>9 DEF Matched, n, s

-----------------------------------------------------------------------------

(* What a reader sees of a ring is a sequence of values, as long as its    *)
(* depth.                                                                  *)
LEMMA ContentsSequence ==
  ASSUME NEW k \in Key, NEW r \in Ring(k), Matched(r, QueueSizeMax[k])
  PROVE  LET n == QueueSizeMax[k]
         IN /\ Contents(r, n) \in Seq(Value)
            /\ Len(Contents(r, n)) = RingUsed(r.head, r.tail, n)
            /\ \A i \in 1 .. RingUsed(r.head, r.tail, n) :
                 Contents(r, n)[i] = r.data[Rem(r.tail + i - 1, n)]
<1>. DEFINE n == QueueSizeMax[k]
            used == RingUsed(r.head, r.tail, n)
<1>0. n \in Nat \ {0, 1}
  BY RingAssumption
<1>1. /\ r.head \in 0 .. n - 1 /\ r.tail \in 0 .. n - 1
      /\ r.data \in [0 .. n - 1 -> Value \cup {Absent}]
  BY DEF Ring, Slot
<1>. HIDE DEF n
<1>2. used \in 0 .. n - 1
  BY <1>0, <1>1, RingUsedCases
<1>3. ASSUME NEW i \in 1 .. used
      PROVE  /\ RingIndexList(r.head, r.tail, n)[i] = Rem(r.tail + i - 1, n)
             /\ r.data[Rem(r.tail + i - 1, n)] \in Value
  <2>1. i - 1 \in 0 .. used - 1 /\ i - 1 \in 0 .. n - 1
    BY <1>0, <1>2
  <2>2. r.tail + i - 1 = r.tail + (i - 1)
    BY <1>1
  <2>3. Rem(r.tail + (i - 1), n) \in Occupied(r.head, r.tail, n)
    BY <2>1 DEF Occupied
  <2>4. Rem(r.tail + (i - 1), n) \in 0 .. n - 1
    BY <1>0, <1>1, <2>1, SlotCases
  <2>5. r.data[Rem(r.tail + (i - 1), n)] \in Value
    BY <1>1, <2>3, <2>4 DEF Matched, n
  <2>. QED  BY <2>2, <2>5 DEF RingIndexList
<1>4. Contents(r, n) = [i \in 1 .. used |-> r.data[Rem(r.tail + i - 1, n)]]
  BY <1>3 DEF Contents
<1>. HIDE DEF used
<1>5. Contents(r, n) \in Seq(Value) /\ Len(Contents(r, n)) = used
  BY <1>2, <1>3, <1>4
<1>. QED  BY <1>4, <1>5 DEF n, used

(* A put appends to what a reader sees. *)
LEMMA PushedContents ==
  ASSUME NEW k \in Key, NEW r \in Ring(k), NEW v \in Value,
         Matched(r, QueueSizeMax[k]), HasRoom(r, QueueSizeMax[k])
  PROVE  LET n == QueueSizeMax[k]
         IN /\ Contents(Pushed(r, v, n), n) = Append(Contents(r, n), v)
            /\ Len(Contents(r, n)) < RingCapacity(n)
<1>. DEFINE n == QueueSizeMax[k]
            s == Pushed(r, v, n)
            used == RingUsed(r.head, r.tail, n)
            usedAfter == RingUsed(s.head, s.tail, n)
<1>0. n \in Nat \ {0, 1}
  BY RingAssumption
<1>1. /\ r.head \in 0 .. n - 1 /\ r.tail \in 0 .. n - 1
      /\ r.data \in [0 .. n - 1 -> Value \cup {Absent}]
  BY DEF Ring, Slot
<1>2. s \in Ring(k) /\ Matched(s, n)
  BY PushedRing
<1>3. /\ s.head = NextSlot(r.head, n) /\ s.tail = r.tail
      /\ s.data = [r.data EXCEPT ![r.head] = v]
      /\ s.head # s.tail
  BY DEF Pushed, HasRoom
<1>4. /\ Contents(r, n) \in Seq(Value) /\ Len(Contents(r, n)) = used
      /\ \A i \in 1 .. used : Contents(r, n)[i] = r.data[Rem(r.tail + i - 1, n)]
  BY ContentsSequence
<1>5. /\ Contents(s, n) \in Seq(Value) /\ Len(Contents(s, n)) = usedAfter
      /\ \A i \in 1 .. usedAfter : Contents(s, n)[i] = s.data[Rem(s.tail + i - 1, n)]
  BY <1>2, ContentsSequence
<1>. HIDE DEF n, s
<1>6. /\ s.head = IF r.head = n - 1 THEN 0 ELSE r.head + 1
      /\ s.head \in 0 .. n - 1
  BY <1>0, <1>1, <1>3, NextSlotCases
<1>7. /\ used = IF r.tail <= r.head THEN r.head - r.tail ELSE r.head - r.tail + n
      /\ usedAfter = IF r.tail <= s.head THEN s.head - r.tail ELSE s.head - r.tail + n
      /\ used \in 0 .. n - 1
  <2>1. /\ used = IF r.tail <= r.head THEN r.head - r.tail ELSE r.head - r.tail + n
        /\ used \in 0 .. n - 1
    BY <1>0, <1>1, RingUsedCases
  <2>2. usedAfter = RingUsed(s.head, r.tail, n)
    BY <1>3
  <2>3. RingUsed(s.head, r.tail, n)
          = IF r.tail <= s.head THEN s.head - r.tail ELSE s.head - r.tail + n
    BY <1>0, <1>1, <1>6, RingUsedCases
  <2>. QED  BY <2>1, <2>2, <2>3
<1>. HIDE DEF used, usedAfter
<1>8. usedAfter = used + 1 /\ used < n - 1
  BY <1>0, <1>1, <1>3, <1>6, <1>7
<1>9. Rem(r.tail + used, n) = r.head
  BY <1>0, <1>1, <1>7, SlotCases
<1>10. ASSUME NEW i \in 1 .. used
       PROVE  /\ Rem(r.tail + i - 1, n) \in 0 .. n - 1
              /\ Rem(r.tail + i - 1, n) # r.head
  <2>1. i - 1 \in 0 .. n - 1 /\ r.tail + i - 1 = r.tail + (i - 1)
    BY <1>0, <1>1, <1>7
  <2>2. /\ Rem(r.tail + (i - 1), n) =
             IF r.tail + (i - 1) < n THEN r.tail + (i - 1) ELSE r.tail + (i - 1) - n
        /\ Rem(r.tail + (i - 1), n) \in 0 .. n - 1
    BY <1>0, <1>1, <2>1, SlotCases
  <2>. QED  BY <1>0, <1>1, <1>7, <2>1, <2>2
<1>11. ASSUME NEW i \in 1 .. used + 1
       PROVE  Contents(s, n)[i] = Append(Contents(r, n), v)[i]
  <2>1. CASE i \in 1 .. used
    <3>1. s.data[Rem(r.tail + i - 1, n)] = r.data[Rem(r.tail + i - 1, n)]
      BY <1>1, <1>3, <1>10, <2>1
    <3>. QED  BY <1>3, <1>4, <1>5, <1>7, <1>8, <2>1, <3>1
  <2>2. CASE i = used + 1
    <3>1. r.tail + i - 1 = r.tail + used
      BY <1>1, <1>7, <2>2
    <3>2. s.data[r.head] = v
      BY <1>1, <1>3
    <3>3. Contents(s, n)[i] = v
      BY <1>3, <1>5, <1>8, <1>9, <3>1, <3>2
    <3>. QED  BY <1>4, <1>7, <2>2, <3>3
  <2>3. i \in 1 .. used \/ i = used + 1
    <3>1. used \in Nat
      BY <1>0, <1>7
    <3>. QED  BY <3>1
  <2>. QED  BY <2>1, <2>2, <2>3
<1>12. Contents(s, n) = Append(Contents(r, n), v)
  <2>1. /\ Append(Contents(r, n), v) \in Seq(Value)
        /\ Len(Append(Contents(r, n), v)) = used + 1
    BY <1>4
  <2>. QED  BY <1>5, <1>8, <1>11, <2>1, SeqEqual
<1>. QED  BY <1>4, <1>8, <1>12 DEF n, s, used, RingCapacity

(* A get takes the first of what a reader sees. *)
LEMMA PoppedContents ==
  ASSUME NEW k \in Key, NEW r \in Ring(k),
         Matched(r, QueueSizeMax[k]), HasEntry(r)
  PROVE  LET n == QueueSizeMax[k]
         IN /\ Contents(r, n) # <<>>
            /\ Head(Contents(r, n)) = r.data[r.tail]
            /\ Contents(Popped(r, n), n) = Tail(Contents(r, n))
<1>. DEFINE n == QueueSizeMax[k]
            s == Popped(r, n)
            used == RingUsed(r.head, r.tail, n)
            usedAfter == RingUsed(s.head, s.tail, n)
<1>0. n \in Nat \ {0, 1}
  BY RingAssumption
<1>1. /\ r.head \in 0 .. n - 1 /\ r.tail \in 0 .. n - 1
      /\ r.data \in [0 .. n - 1 -> Value \cup {Absent}]
  BY DEF Ring, Slot
<1>2. s \in Ring(k) /\ Matched(s, n)
  BY PoppedRing
<1>3. /\ s.head = r.head /\ s.tail = NextSlot(r.tail, n)
      /\ s.data = [r.data EXCEPT ![r.tail] = Absent]
      /\ r.head # r.tail
  BY DEF Popped, HasEntry
<1>4. /\ Contents(r, n) \in Seq(Value) /\ Len(Contents(r, n)) = used
      /\ \A i \in 1 .. used : Contents(r, n)[i] = r.data[Rem(r.tail + i - 1, n)]
  BY ContentsSequence
<1>5. /\ Contents(s, n) \in Seq(Value) /\ Len(Contents(s, n)) = usedAfter
      /\ \A i \in 1 .. usedAfter : Contents(s, n)[i] = s.data[Rem(s.tail + i - 1, n)]
  BY <1>2, ContentsSequence
<1>. HIDE DEF n, s
<1>6. /\ s.tail = IF r.tail = n - 1 THEN 0 ELSE r.tail + 1
      /\ s.tail \in 0 .. n - 1
  BY <1>0, <1>1, <1>3, NextSlotCases
<1>7. /\ used = IF r.tail <= r.head THEN r.head - r.tail ELSE r.head - r.tail + n
      /\ usedAfter = IF s.tail <= r.head THEN r.head - s.tail ELSE r.head - s.tail + n
      /\ used \in 0 .. n - 1 /\ usedAfter \in 0 .. n - 1
  <2>1. /\ used = IF r.tail <= r.head THEN r.head - r.tail ELSE r.head - r.tail + n
        /\ used \in 0 .. n - 1
    BY <1>0, <1>1, RingUsedCases
  <2>2. usedAfter = RingUsed(r.head, s.tail, n)
    BY <1>3
  <2>3. LET u == RingUsed(r.head, s.tail, n)
        IN /\ u = IF s.tail <= r.head THEN r.head - s.tail ELSE r.head - s.tail + n
           /\ u \in 0 .. n - 1
    BY <1>0, <1>1, <1>6, RingUsedCases
  <2>. QED  BY <2>1, <2>2, <2>3
<1>. HIDE DEF used, usedAfter
<1>8. usedAfter = used - 1 /\ used >= 1
  BY <1>0, <1>1, <1>3, <1>6, <1>7
<1>9. Contents(r, n)[1] = r.data[r.tail]
  <2>0. 0 \in 0 .. n - 1 /\ r.tail + 0 = r.tail /\ r.tail < n
    BY <1>0, <1>1
  <2>1. Rem(r.tail + 0, n) = IF r.tail + 0 < n THEN r.tail + 0 ELSE r.tail + 0 - n
    BY <1>0, <1>1, <2>0, SlotCases
  <2>2. r.tail + 1 - 1 = r.tail + 0
    BY <1>1
  <2>. QED  BY <1>4, <1>7, <1>8, <2>0, <2>1, <2>2
<1>10. ASSUME NEW i \in 1 .. usedAfter
       PROVE  Contents(s, n)[i] = Contents(r, n)[i + 1]
  <2>1. /\ i - 1 \in 0 .. n - 1 /\ i \in 0 .. n - 1 /\ i + 1 \in 1 .. used
        /\ s.tail + i - 1 = s.tail + (i - 1) /\ r.tail + (i + 1) - 1 = r.tail + i
    BY <1>0, <1>1, <1>6, <1>7, <1>8
  <2>2. /\ Rem(s.tail + (i - 1), n) =
             IF s.tail + (i - 1) < n THEN s.tail + (i - 1) ELSE s.tail + (i - 1) - n
        /\ Rem(r.tail + i, n) = IF r.tail + i < n THEN r.tail + i ELSE r.tail + i - n
        /\ Rem(r.tail + i, n) \in 0 .. n - 1
    BY <1>0, <1>1, <1>6, <2>1, SlotCases
  <2>3. Rem(s.tail + (i - 1), n) = Rem(r.tail + i, n)
    BY <1>0, <1>1, <1>6, <2>1, <2>2
  <2>4. Rem(r.tail + i, n) # r.tail
    BY <1>0, <1>1, <2>1, <2>2, <1>7, <1>8
  <2>5. s.data[Rem(r.tail + i, n)] = r.data[Rem(r.tail + i, n)]
    BY <1>1, <1>3, <2>2, <2>4
  <2>. QED  BY <1>4, <1>5, <2>1, <2>3, <2>5
<1>11. Contents(s, n) = Tail(Contents(r, n))
  BY <1>4, <1>5, <1>7, <1>8, <1>10
<1>. QED  BY <1>4, <1>8, <1>9, <1>11 DEF n, s

(* A ring without room is at capacity, and one without an entry is empty.  *)
LEMMA FullAndEmpty ==
  ASSUME NEW k \in Key, NEW r \in Ring(k), Matched(r, QueueSizeMax[k])
  PROVE  LET n == QueueSizeMax[k]
         IN /\ ~HasRoom(r, n) => Len(Contents(r, n)) = RingCapacity(n)
            /\ ~HasEntry(r) => Contents(r, n) = <<>>
<1>. DEFINE n == QueueSizeMax[k]
<1>0. n \in Nat \ {0, 1}
  BY RingAssumption
<1>1. r.head \in 0 .. n - 1 /\ r.tail \in 0 .. n - 1
  BY DEF Ring, Slot
<1>2. Contents(r, n) \in Seq(Value) /\ Len(Contents(r, n)) = RingUsed(r.head, r.tail, n)
  BY ContentsSequence
<1>. HIDE DEF n
<1>3. RingUsed(r.head, r.tail, n) =
        IF r.tail <= r.head THEN r.head - r.tail ELSE r.head - r.tail + n
  BY <1>0, <1>1, RingUsedCases
<1>4. NextSlot(r.head, n) = IF r.head = n - 1 THEN 0 ELSE r.head + 1
  BY <1>0, <1>1, NextSlotCases
<1>5. ASSUME ~HasRoom(r, n) PROVE Len(Contents(r, n)) = RingCapacity(n)
  BY <1>0, <1>1, <1>2, <1>3, <1>4, <1>5 DEF HasRoom, RingCapacity
<1>6. ASSUME ~HasEntry(r) PROVE Contents(r, n) = <<>>
  BY <1>0, <1>1, <1>2, <1>3, <1>6 DEF HasEntry
<1>. QED  BY <1>5, <1>6 DEF n

-----------------------------------------------------------------------------

(* The invariant that is inductive. *)
IInv == TypeOK /\ SlotsMatchCursors

(* A family of rings, one per key, whose entries match their cursors. *)
Family(w) ==
  /\ w \in [Key -> UNION {Ring(j) : j \in Key}]
  /\ \A j \in Key : w[j] \in Ring(j) /\ Matched(w[j], QueueSizeMax[j])

(* IInv, from its parts. *)
LEMMA InvariantParts ==
  IInv <=> /\ Family(committed)
           /\ Family(working)
           /\ writer \in Process \cup {None}
           /\ answer \in Value \cup {None, Full, Empty}
BY DEF IInv, TypeOK, SlotsMatchCursors, Matched, Slot, Family

(* A family with one ring replaced is a family. *)
LEMMA ReplacedRing ==
  ASSUME NEW w, Family(w), NEW k \in Key,
         NEW s \in Ring(k), Matched(s, QueueSizeMax[k])
  PROVE  Family([w EXCEPT ![k] = s])
BY DEF Family

LEMMA InitInvariant == Init => IInv
<1>. SUFFICES ASSUME Init PROVE IInv
  OBVIOUS
<1>1. ASSUME NEW k \in Key
      PROVE  EmptyRing(k) \in Ring(k) /\ Matched(EmptyRing(k), QueueSizeMax[k])
  <2>1. QueueSizeMax[k] \in Nat \ {0, 1}
    BY RingAssumption
  <2>2. EmptyRing(k) \in Ring(k)
    BY <2>1 DEF EmptyRing, Ring, Slot
  <2>3. 0 \in 0 .. QueueSizeMax[k] - 1
    BY <2>1
  <2>4. Occupied(0, 0, QueueSizeMax[k]) \subseteq 0 .. QueueSizeMax[k] - 1
    BY <2>1, <2>3, OccupiedSlots
  <2>5. \A i \in 0 .. QueueSizeMax[k] - 1 : i \notin Occupied(0, 0, QueueSizeMax[k])
    BY <2>1, <2>3, OccupiedCases
  <2>. QED  BY <2>2, <2>4, <2>5 DEF EmptyRing, Matched, Slot
<1>2. \A k \in Key : EmptyRing(k) \in Ring(k) /\ Matched(EmptyRing(k), QueueSizeMax[k])
  BY <1>1
<1>. QED  BY <1>2, InvariantParts DEF Init, Family

LEMMA NextInvariant == IInv /\ [Next]_vars => IInv'
<1>. SUFFICES ASSUME IInv, [Next]_vars PROVE IInv'
  OBVIOUS
<1>0. /\ Family(committed)
      /\ Family(working)
      /\ writer \in Process \cup {None}
      /\ answer \in Value \cup {None, Full, Empty}
  BY InvariantParts
<1>. SUFFICES /\ Family(committed')
              /\ Family(working')
              /\ writer' \in Process \cup {None}
              /\ answer' \in Value \cup {None, Full, Empty}
  BY DEF IInv, TypeOK, SlotsMatchCursors, Matched, Slot, Family
<1>. USE <1>0
<1>1. CASE \E p \in Process : Begin(p)
  BY <1>1 DEF Begin
<1>2. CASE \E p \in Process, k \in Key, v \in Value : Put(p, k, v)
  <2>1. PICK p \in Process, k \in Key, v \in Value : Put(p, k, v)
    BY <1>2
  <2>. DEFINE s == Pushed(working[k], v, QueueSizeMax[k])
  <2>2. s \in Ring(k) /\ Matched(s, QueueSizeMax[k])
    BY <2>1, PushedRing DEF Put, Family
  <2>3. working' = [working EXCEPT ![k] = s]
    BY <2>1 DEF Put
  <2>. HIDE DEF s
  <2>4. Family(working')
    BY <2>2, <2>3, ReplacedRing
  <2>. QED  BY <2>1, <2>4 DEF Put
<1>3. CASE \E p \in Process, k \in Key : Get(p, k)
  <2>1. PICK p \in Process, k \in Key : Get(p, k)
    BY <1>3
  <2>. DEFINE s == Popped(working[k], QueueSizeMax[k])
  <2>2. s \in Ring(k) /\ Matched(s, QueueSizeMax[k]) /\ answer' \in Value
    BY <2>1, PoppedRing DEF Get, Family
  <2>3. working' = [working EXCEPT ![k] = s]
    BY <2>1 DEF Get
  <2>. HIDE DEF s
  <2>4. Family(working')
    BY <2>2, <2>3, ReplacedRing
  <2>. QED  BY <2>1, <2>2, <2>4 DEF Get
<1>4. CASE \E p \in Process : Discard(p) /\ answer' \in {None, Full, Empty}
  BY <1>4 DEF Discard
<1>5. CASE \E p \in Process : Commit(p)
  BY <1>5 DEF Commit
<1>6. CASE UNCHANGED vars
  BY <1>6 DEF vars
<1>. QED  BY <1>1, <1>2, <1>3, <1>4, <1>5, <1>6
          DEF Next, PutRefused, GetRefused, Abandon

(* The invariant holds of every behaviour. *)
THEOREM Invariant == Spec => []IInv
BY InitInvariant, NextInvariant, PTL DEF Spec

(* TypeOK holds for every ring size: cursors never leave their ring and a  *)
(* get always answers a value that was put.                                *)
THEOREM TypeCorrect == Spec => []TypeOK
BY Invariant, PTL DEF IInv

(* The entries that exist are those between the cursors: put and get, in   *)
(* transactions that commit or abort in any order, leak no slot and empty  *)
(* none early.                                                             *)
THEOREM SlotsAlwaysMatch == Spec => []SlotsMatchCursors
BY Invariant, PTL DEF IInv

-----------------------------------------------------------------------------

(* The sequences the rings of a family hold: the refinement mapping. *)
Queues(w) == [k \in Key |-> Contents(w[k], QueueSizeMax[k])]

Capacities == [k \in Key |-> RingCapacity(QueueSizeMax[k])]

(* Replacing a ring replaces the sequence it holds. *)
LEMMA ReplacedQueue ==
  ASSUME NEW w, Family(w), NEW k \in Key, NEW s
  PROVE  Queues([w EXCEPT ![k] = s])
           = [Queues(w) EXCEPT ![k] = Contents(s, QueueSizeMax[k])]
BY DEF Queues, Family

LEMMA InitRefines == Init => Abstract!Init
<1>. SUFFICES ASSUME Init PROVE Abstract!Init
  OBVIOUS
<1>1. Family(committed) /\ committed = [k \in Key |-> EmptyRing(k)]
  BY InitInvariant, InvariantParts DEF Init
<1>2. ASSUME NEW k \in Key PROVE Contents(committed[k], QueueSizeMax[k]) = <<>>
  <2>1. ~HasEntry(committed[k])
    BY <1>1 DEF HasEntry, EmptyRing
  <2>. QED  BY <1>1, <2>1, FullAndEmpty DEF Family
<1>. QED  BY <1>2 DEF Init, Abstract!Init

(* A step of the rings is the same step of the queues. *)
LEMMA NextRefines == IInv /\ [Next]_vars => [Abstract!Next]_(Abstract!vars)
<1>. SUFFICES ASSUME IInv, [Next]_vars PROVE [Abstract!Next]_(Abstract!vars)
  OBVIOUS
<1>0. Family(committed) /\ Family(working)
  BY InvariantParts
<1>1. ASSUME NEW p \in Process, Begin(p) PROVE Abstract!Begin(p)
  BY <1>1 DEF Begin, Abstract!Begin
<1>2. ASSUME NEW p \in Process, NEW k \in Key, NEW v \in Value, Put(p, k, v)
      PROVE  Abstract!Enqueue(p, k, v)
  <2>. DEFINE n == QueueSizeMax[k]
              s == Pushed(working[k], v, n)
  <2>1. /\ Contents(s, n) = Append(Contents(working[k], n), v)
        /\ Len(Contents(working[k], n)) < RingCapacity(n)
    BY <1>0, <1>2, PushedContents DEF Put, Family
  <2>2. working' = [working EXCEPT ![k] = s]
    BY <1>2 DEF Put
  <2>. HIDE DEF s
  <2>3. Queues(working') = [Queues(working) EXCEPT ![k] = Contents(s, n)]
    BY <1>0, <2>2, ReplacedQueue
  <2>4. Queues(working)[k] = Contents(working[k], n) /\ Capacities[k] = RingCapacity(n)
    BY DEF Queues, Capacities
  <2>5. /\ Len(Queues(working)[k]) < Capacities[k]
        /\ Queues(working') = [Queues(working) EXCEPT ![k] = Append(@, v)]
    BY <2>1, <2>3, <2>4
  <2>. QED  BY <1>2, <2>5 DEF Put, Abstract!Enqueue, Queues, Capacities
<1>3. ASSUME NEW p \in Process, NEW k \in Key, Get(p, k) PROVE Abstract!Dequeue(p, k)
  <2>. DEFINE n == QueueSizeMax[k]
              s == Popped(working[k], n)
  <2>1. /\ Contents(working[k], n) # <<>>
        /\ Head(Contents(working[k], n)) = working[k].data[working[k].tail]
        /\ Contents(s, n) = Tail(Contents(working[k], n))
    BY <1>0, <1>3, PoppedContents DEF Get, Family
  <2>2. working' = [working EXCEPT ![k] = s]
    BY <1>3 DEF Get
  <2>. HIDE DEF s
  <2>3. Queues(working') = [Queues(working) EXCEPT ![k] = Contents(s, n)]
    BY <1>0, <2>2, ReplacedQueue
  <2>4. Queues(working)[k] = Contents(working[k], n)
    BY DEF Queues
  <2>5. /\ Queues(working)[k] # <<>>
        /\ answer' = Head(Queues(working)[k])
        /\ Queues(working') = [Queues(working) EXCEPT ![k] = Tail(@)]
    BY <1>3, <2>1, <2>3, <2>4 DEF Get
  <2>. QED  BY <1>3, <2>5 DEF Get, Abstract!Dequeue, Queues
<1>4. ASSUME NEW p \in Process, Discard(p) PROVE Abstract!Rollback(p)
  BY <1>4 DEF Discard, Abstract!Rollback
<1>5. ASSUME NEW p \in Process, NEW k \in Key, PutRefused(p, k)
      PROVE  Abstract!RefuseFull(p, k)
  <2>1. Len(Contents(working[k], QueueSizeMax[k])) = RingCapacity(QueueSizeMax[k])
    BY <1>0, <1>5, FullAndEmpty DEF PutRefused, Family
  <2>. QED  BY <1>4, <1>5, <2>1 DEF PutRefused, Abstract!RefuseFull, Full
<1>6. ASSUME NEW p \in Process, NEW k \in Key, GetRefused(p, k)
      PROVE  Abstract!RefuseEmpty(p, k)
  <2>1. Contents(working[k], QueueSizeMax[k]) = <<>>
    BY <1>0, <1>6, FullAndEmpty DEF GetRefused, Family
  <2>. QED  BY <1>4, <1>6, <2>1 DEF GetRefused, Abstract!RefuseEmpty, Empty
<1>7. ASSUME NEW p \in Process, Abandon(p) PROVE Abstract!Abandon(p)
  BY <1>4, <1>7 DEF Abandon, Abstract!Abandon
<1>8. ASSUME NEW p \in Process, Commit(p) PROVE Abstract!Commit(p)
  BY <1>8 DEF Commit, Abstract!Commit
<1>9. ASSUME UNCHANGED vars PROVE UNCHANGED Abstract!vars
  BY <1>9 DEF vars, Abstract!vars
<1>. QED  BY <1>1, <1>2, <1>3, <1>5, <1>6, <1>7, <1>8, <1>9 DEF Next, Abstract!Next

(* For every ring size, number of queues and number of processes, the      *)
(* rings are the bounded queues of BoundedQueue: no element is lost,       *)
(* duplicated or reordered, and a refusal is told the truth.               *)
THEOREM RingsAreQueues == Spec => ImplementsBoundedQueue
BY InitRefines, NextRefines, Invariant, PTL DEF Spec, ImplementsBoundedQueue, Abstract!Spec

-----------------------------------------------------------------------------

(* As many slots are occupied as the cursors say. *)
LEMMA OccupiedCount ==
  ASSUME NEW n \in Nat \ {0, 1}, NEW h \in 0 .. n - 1, NEW t \in 0 .. n - 1
  PROVE  Cardinality(Occupied(h, t, n)) = RingUsed(h, t, n)
<1>1. Occupied(h, t, n) \subseteq 0 .. n - 1
  BY OccupiedSlots
<1>2. RingUsed(h, t, n) = IF t <= h THEN h - t ELSE h - t + n
  BY RingUsedCases
<1>3. CASE t <= h
  <2>1. \A i \in 0 .. n - 1 : i \in Occupied(h, t, n) <=> i \in t .. h - 1
    BY <1>3, OccupiedCases
  <2>2. t .. h - 1 \subseteq 0 .. n - 1
    OBVIOUS
  <2>3. Occupied(h, t, n) = t .. h - 1
    BY <1>1, <2>1, <2>2, Zenon
  <2>4. Cardinality(t .. h - 1) = IF t > h - 1 THEN 0 ELSE (h - 1) - t + 1
    <3>1. t \in Int /\ h - 1 \in Int
      OBVIOUS
    <3>. QED  BY <3>1, FS_Interval, Zenon
  <2>5. Cardinality(t .. h - 1) = h - t
    BY <1>3, <2>4
  <2>. QED  BY <1>2, <1>3, <2>3, <2>5
<1>4. CASE h < t
  <2>1. \A i \in 0 .. n - 1 : i \in Occupied(h, t, n) <=> i \notin h .. t - 1
    BY <1>4, OccupiedCases
  <2>2. Occupied(h, t, n) = (0 .. n - 1) \ (h .. t - 1)
    BY <1>1, <2>1
  <2>3. (0 .. n - 1) \cap (h .. t - 1) = h .. t - 1
    BY <1>4
  <2>4. /\ IsFiniteSet(0 .. n - 1)
        /\ Cardinality(0 .. n - 1) = n
        /\ Cardinality(h .. t - 1) = t - h
    BY <1>4, FS_Interval
  <2>5. Cardinality((0 .. n - 1) \ (h .. t - 1))
          = Cardinality(0 .. n - 1) - Cardinality((0 .. n - 1) \cap (h .. t - 1))
    BY <2>4, FS_Difference, Zenon
  <2>6. Cardinality(Occupied(h, t, n)) = n - (t - h)
    BY <2>2, <2>3, <2>4, <2>5, Zenon
  <2>7. RingUsed(h, t, n) = n - (t - h)
    BY <1>2, <1>4
  <2>. QED  BY <2>6, <2>7
<1>. QED  BY <1>3, <1>4

(* The size solved for is the declared one when the ring has wrapped, and  *)
(* one under which the same slots are listed when it has not.              *)
LEMMA ReconstructedList ==
  ASSUME NEW n \in Nat \ {0, 1}, NEW h \in 0 .. n - 1, NEW t \in 0 .. n - 1
  PROVE  RingIndexList(h, t, ReconstructQueueSizeMax(h, t, RingUsed(h, t, n)))
           = RingIndexList(h, t, n)
<1>. DEFINE used == RingUsed(h, t, n)
            m == ReconstructQueueSizeMax(h, t, used)
<1>1. used = (IF t <= h THEN h - t ELSE h - t + n) /\ used \in 0 .. n - 1
  BY RingUsedCases
<1>. HIDE DEF used
<1>2. CASE h < t
  <2>1. m = n
    BY <1>1, <1>2 DEF ReconstructQueueSizeMax, MaxOf, QueueSizeMaxMin
  <2>. QED  BY <2>1 DEF used
<1>3. CASE t <= h
  <2>1. m = IF h = 0 THEN 2 ELSE h + 1
    BY <1>1, <1>3 DEF ReconstructQueueSizeMax, MaxOf, QueueSizeMaxMin
  <2>2. m \in Nat \ {0, 1} /\ h \in 0 .. m - 1 /\ t \in 0 .. m - 1
    BY <1>1, <1>3, <2>1
  <2>. HIDE DEF m
  <2>3. RingUsed(h, t, m) = used
    BY <1>1, <1>3, <2>2, RingUsedCases
  <2>4. ASSUME NEW i \in 1 .. used PROVE Rem(t + i - 1, m) = Rem(t + i - 1, n)
    <3>1. i - 1 \in 0 .. n - 1 /\ i - 1 \in 0 .. m - 1 /\ t + i - 1 = t + (i - 1)
      BY <1>1, <1>3, <2>2
    <3>2. t + (i - 1) < n /\ t + (i - 1) < m
      BY <1>1, <1>3, <2>2
    <3>3. Rem(t + (i - 1), m) = t + (i - 1) /\ Rem(t + (i - 1), n) = t + (i - 1)
      BY <2>2, <3>1, <3>2, SlotCases
    <3>. QED  BY <3>1, <3>3
  <2>5. [i \in 1 .. used |-> Rem(t + i - 1, m)] = [i \in 1 .. used |-> Rem(t + i - 1, n)]
    BY <2>4
  <2>. QED  BY <2>3, <2>5 DEF RingIndexList, used, m
<1>. QED  BY <1>2, <1>3

(* An observer that reads cursors and depth from one committed state lists *)
(* the queue exactly as the writer that knows its size, whatever the size, *)
(* the cursors and the transactions that led there.                        *)
THEOREM ReconstructionSound == Spec => []ReconstructionExact
<1>1. ASSUME IInv, NEW k \in Key
      PROVE  LET r == committed[k]
             IN RingIndexList(r.head, r.tail,
                              ReconstructQueueSizeMax(r.head, r.tail, Depth(r)))
                  = RingIndexList(r.head, r.tail, QueueSizeMax[k])
  <2>. DEFINE r == committed[k]
              n == QueueSizeMax[k]
  <2>1. r \in Ring(k) /\ Matched(r, n)
    BY <1>1, InvariantParts DEF Family
  <2>2. n \in Nat \ {0, 1} /\ r.head \in 0 .. n - 1 /\ r.tail \in 0 .. n - 1
    BY <2>1, RingAssumption DEF Ring, Slot
  <2>3. Depth(r) = Cardinality(Occupied(r.head, r.tail, n))
    BY <2>1 DEF Depth, Matched, Ring, Slot
  <2>. HIDE DEF r, n
  <2>4. Depth(r) = RingUsed(r.head, r.tail, n)
    BY <2>2, <2>3, OccupiedCount
  <2>5. RingIndexList(r.head, r.tail, ReconstructQueueSizeMax(r.head, r.tail, Depth(r)))
          = RingIndexList(r.head, r.tail, n)
    BY <2>2, <2>4, ReconstructedList
  <2>. QED  BY <2>5 DEF r, n
<1>2. IInv => ReconstructionExact
  BY <1>1 DEF ReconstructionExact
<1>. QED  BY <1>2, Invariant, PTL


-----------------------------------------------------------------------------
(* The observer. *)

(* The size solved for holds both cursors and is at most the declared one. *)
LEMMA ReconstructedSize ==
  ASSUME NEW n \in Nat \ {0, 1}, NEW h \in 0 .. n - 1, NEW t \in 0 .. n - 1
  PROVE  LET m == ReconstructQueueSizeMax(h, t, RingUsed(h, t, n))
         IN m \in 2 .. n /\ h < m /\ t < m
<1>1. RingUsed(h, t, n) = (IF t <= h THEN h - t ELSE h - t + n)
  BY RingUsedCases
<1>2. CASE h < t
  BY <1>1, <1>2 DEF ReconstructQueueSizeMax, MaxOf, QueueSizeMaxMin
<1>3. CASE t <= h
  BY <1>1, <1>3 DEF ReconstructQueueSizeMax, MaxOf, QueueSizeMaxMin
<1>. QED  BY <1>2, <1>3

(* What an observer counts is what the cursors describe. *)
LEMMA DepthIsUsed ==
  ASSUME NEW k \in Key, NEW r \in Ring(k), Matched(r, QueueSizeMax[k])
  PROVE  Depth(r) = RingUsed(r.head, r.tail, QueueSizeMax[k])
<1>1. /\ QueueSizeMax[k] \in Nat \ {0, 1}
      /\ r.head \in 0 .. QueueSizeMax[k] - 1 /\ r.tail \in 0 .. QueueSizeMax[k] - 1
  BY RingAssumption DEF Ring, Slot
<1>2. Depth(r) = Cardinality(Occupied(r.head, r.tail, QueueSizeMax[k]))
  BY DEF Depth, Matched, Ring, Slot
<1>. QED  BY <1>1, <1>2, OccupiedCount

(* The list of slots under any size, entry by entry. *)
LEMMA IndexList ==
  ASSUME NEW m \in Nat \ {0, 1}, NEW h \in 0 .. m - 1, NEW t \in 0 .. m - 1
  PROVE  LET used == RingUsed(h, t, m)
         IN /\ used = (IF t <= h THEN h - t ELSE h - t + m)
            /\ DOMAIN RingIndexList(h, t, m) = 1 .. used
            /\ \A i \in 1 .. used :
                 RingIndexList(h, t, m)[i] = IF t + i - 1 < m THEN t + i - 1 ELSE t + i - 1 - m
<1>. DEFINE used == RingUsed(h, t, m)
<1>1. used = (IF t <= h THEN h - t ELSE h - t + m) /\ used \in 0 .. m - 1
  BY RingUsedCases
<1>2. RingIndexList(h, t, m) = [i \in 1 .. used |-> Rem(t + i - 1, m)]
  BY DEF RingIndexList
<1>. HIDE DEF used
<1>3. ASSUME NEW i \in 1 .. used
      PROVE  Rem(t + i - 1, m) = IF t + i - 1 < m THEN t + i - 1 ELSE t + i - 1 - m
  <2>1. i - 1 \in 0 .. m - 1 /\ t + i - 1 = t + (i - 1)
    BY <1>1
  <2>2. Rem(t + (i - 1), m) = IF t + (i - 1) < m THEN t + (i - 1) ELSE t + (i - 1) - m
    BY <2>1, SlotCases
  <2>. QED  BY <2>1, <2>2
<1>. QED  BY <1>1, <1>2, <1>3 DEF used

(* A peek under a size that is too small shows the slots from the tail to  *)
(* that size, and those before the head: the queue without a middle part.  *)
LEMMA PeekIsCutOnce ==
  ASSUME NEW k \in Key, NEW r \in Ring(k), Matched(r, QueueSizeMax[k]),
         NEW m \in 2 .. QueueSizeMax[k],
         PeekAll(r, m) # PeekError
  PROVE  IsCutOnce(PeekAll(r, m), Contents(r, QueueSizeMax[k]))
<1>. DEFINE n == QueueSizeMax[k]
            h == r.head
            t == r.tail
            index == RingIndexList(h, t, m)
            shown == PeekAll(r, m)
            truth == Contents(r, n)
            used == RingUsed(h, t, m)
            all == RingUsed(h, t, n)
<1>1. /\ n \in Nat \ {0, 1} /\ m \in Nat \ {0, 1} /\ m <= n
      /\ h \in 0 .. n - 1 /\ t \in 0 .. n - 1
  BY RingAssumption DEF Ring, Slot
<1>2. /\ h < m /\ t < m
      /\ shown = [i \in DOMAIN index |-> r.data[index[i]]]
  BY <1>1 DEF PeekAll
<1>3. /\ used = (IF t <= h THEN h - t ELSE h - t + m)
      /\ DOMAIN index = 1 .. used
      /\ \A i \in 1 .. used : index[i] = IF t + i - 1 < m THEN t + i - 1 ELSE t + i - 1 - m
  BY <1>1, <1>2, IndexList
<1>4. /\ all = (IF t <= h THEN h - t ELSE h - t + n)
      /\ \A i \in 1 .. all :
           RingIndexList(h, t, n)[i] = IF t + i - 1 < n THEN t + i - 1 ELSE t + i - 1 - n
  <2>1. n \in Nat \ {0, 1} /\ h \in 0 .. n - 1 /\ t \in 0 .. n - 1
    BY <1>1
  <2>. HIDE DEF n, h, t
  <2>. QED  BY <2>1, IndexList
<1>5. truth = [i \in 1 .. all |-> r.data[RingIndexList(h, t, n)[i]]]
  BY DEF Contents
<1>. DEFINE kept == IF t <= h THEN used ELSE m - t
<1>. HIDE DEF n, h, t, index, shown, truth, used, all
<1>6. used \in Nat /\ all \in Nat /\ used <= all /\ (all # 0 => used # 0)
  BY <1>1, <1>2, <1>3, <1>4
<1>7. /\ DOMAIN shown = 1 .. used
      /\ \A i \in 1 .. used : shown[i] = r.data[index[i]]
  BY <1>2, <1>3
<1>8. /\ DOMAIN truth = 1 .. all
      /\ \A i \in 1 .. all : truth[i] = r.data[RingIndexList(h, t, n)[i]]
  BY <1>5
<1>9. /\ Len(shown) = used /\ Len(truth) = all
      /\ kept \in 0 .. used /\ (all # 0 => kept # 0)
      /\ kept < used => all - used = n - m
  BY <1>1, <1>2, <1>3, <1>4, <1>5, <1>6, <1>7, <1>8, LenProperties
<1>10. ASSUME NEW i \in 1 .. kept PROVE shown[i] = truth[i]
  <2>1. i \in 1 .. used /\ i \in 1 .. all
    BY <1>6, <1>9
  <2>2. t + i - 1 < m
    BY <1>1, <1>2, <1>3, <2>1
  <2>3. index[i] = RingIndexList(h, t, n)[i]
    BY <1>1, <1>3, <1>4, <2>1, <2>2
  <2>. QED  BY <1>7, <1>8, <2>1, <2>3
<1>11. ASSUME NEW i \in kept + 1 .. used PROVE shown[i] = truth[i + (all - used)]
  <2>1. i \in 1 .. used /\ i + (n - m) \in 1 .. all /\ all - used = n - m
    BY <1>1, <1>6, <1>9
  <2>2. t + i - 1 >= m /\ t + (i + (n - m)) - 1 - n = t + i - 1 - m
    BY <1>1, <1>2, <1>3, <2>1
  <2>3. index[i] = t + i - 1 - m
    BY <1>1, <1>3, <2>1, <2>2
  <2>4. RingIndexList(h, t, n)[i + (n - m)] = t + (i + (n - m)) - 1 - n
    BY <1>1, <1>4, <2>1, <2>2
  <2>. QED  BY <1>7, <1>8, <2>1, <2>2, <2>3, <2>4
<1>12. truth # <<>> => all # 0
  BY <1>5
<1>. HIDE DEF kept
<1>13. IsCutOnce(shown, truth)
  <2>1. \A j \in 1 .. kept : shown[j] = truth[j]
    BY <1>10
  <2>2. \A j \in kept + 1 .. Len(shown) : shown[j] = truth[j + (Len(truth) - Len(shown))]
    BY <1>9, <1>11
  <2>. QED  BY <1>6, <1>9, <1>12, <2>1, <2>2 DEF IsCutOnce
<1>. QED  BY <1>13 DEF n, shown, truth

(* A peek under the size solved for from the cursors it finds is complete. *)
LEMMA QuietPeek ==
  ASSUME NEW k \in Key, NEW r \in Ring(k), Matched(r, QueueSizeMax[k])
  PROVE  LET m == ReconstructQueueSizeMax(r.head, r.tail,
                                          RingUsed(r.head, r.tail, QueueSizeMax[k]))
         IN PeekAll(r, m) = Contents(r, QueueSizeMax[k])
<1>. DEFINE n == QueueSizeMax[k]
            used == RingUsed(r.head, r.tail, n)
            m == ReconstructQueueSizeMax(r.head, r.tail, used)
            index == RingIndexList(r.head, r.tail, n)
<1>1. n \in Nat \ {0, 1} /\ r.head \in 0 .. n - 1 /\ r.tail \in 0 .. n - 1
  BY RingAssumption DEF Ring, Slot
<1>2. m \in 2 .. n /\ r.head < m /\ r.tail < m
  BY <1>1, ReconstructedSize
<1>3. RingIndexList(r.head, r.tail, m) = index
  BY <1>1, ReconstructedList
<1>4. /\ DOMAIN index = 1 .. used
      /\ \A i \in 1 .. used : index[i] = Rem(r.tail + i - 1, n)
  BY DEF RingIndexList
<1>5. /\ Contents(r, n) \in Seq(Value)
      /\ Len(Contents(r, n)) = used
      /\ \A i \in 1 .. used : Contents(r, n)[i] = r.data[Rem(r.tail + i - 1, n)]
  BY ContentsSequence
<1>6. Contents(r, n) = [i \in 1 .. used |-> r.data[index[i]]]
  BY DEF Contents
<1>. HIDE DEF n, used, m, index
<1>7. ASSUME NEW i \in DOMAIN index PROVE r.data[index[i]] # Absent
  <2>1. Contents(r, n)[i] \in Value
    BY <1>4, <1>5
  <2>2. r.data[index[i]] = Contents(r, n)[i]
    BY <1>4, <1>5
  <2>. QED  BY <2>1, <2>2, RingAssumption
<1>8. PeekAll(r, m) = [i \in DOMAIN index |-> r.data[index[i]]]
  <2>1. ~(r.head >= m \/ r.tail >= m)
    BY <1>1, <1>2
  <2>. QED  BY <1>3, <1>7, <2>1 DEF PeekAll
<1>. QED  BY <1>4, <1>6, <1>8 DEF n, used, m

-----------------------------------------------------------------------------

(* What the observer remembers of its listing: cursors of the ring listed, *)
(* the depth they describe and, while nobody moved it, the cursors it has. *)
Listed ==
  listing # None =>
    /\ listing.key \in Key
    /\ listing.head \in Slot(listing.key) /\ listing.tail \in Slot(listing.key)
    /\ listing.depth = RingUsed(listing.head, listing.tail, QueueSizeMax[listing.key])
    /\ quiet => /\ listing.head = committed[listing.key].head
                /\ listing.tail = committed[listing.key].tail

ObserverInv == IInv /\ Listed /\ PeekedInOrder

(* The rings are what the observer needs of the writers. *)
LEMMA CommittedRings ==
  ASSUME IInv, NEW k \in Key
  PROVE  /\ QueueSizeMax[k] \in Nat \ {0, 1}
         /\ committed[k] \in Ring(k) /\ Matched(committed[k], QueueSizeMax[k])
         /\ committed[k].head \in Slot(k) /\ committed[k].tail \in Slot(k)
<1>1. committed[k] \in Ring(k) /\ Matched(committed[k], QueueSizeMax[k])
  BY InvariantParts DEF Family
<1>. QED  BY <1>1, RingAssumption DEF Ring

LEMMA InitObserverInv == InitObserver => ObserverInv
BY InitInvariant DEF InitObserver, ObserverInv, Listed, PeekedInOrder

(* A listing reads one committed state. *)
LEMMA ListKeysKeeps ==
  ASSUME ObserverInv, NEW k \in Key, ListKeys(k)
  PROVE  Listed' /\ PeekedInOrder'
<1>1. committed' = committed /\ peeked' = None
  BY DEF ListKeys, vars
<1>2. listing' = [key |-> k, head |-> committed[k].head, tail |-> committed[k].tail,
                  depth |-> Depth(committed[k])]
  BY DEF ListKeys
<1>3. /\ committed[k] \in Ring(k) /\ Matched(committed[k], QueueSizeMax[k])
      /\ committed[k].head \in Slot(k) /\ committed[k].tail \in Slot(k)
  BY CommittedRings DEF ObserverInv
<1>4. Depth(committed[k]) = RingUsed(committed[k].head, committed[k].tail, QueueSizeMax[k])
  BY <1>3, DepthIsUsed
<1>5. /\ listing'.key = k /\ listing'.head = committed[k].head
      /\ listing'.tail = committed[k].tail /\ listing'.depth = Depth(committed[k])
  BY <1>2
<1>6. Listed'
  BY <1>1, <1>3, <1>4, <1>5 DEF Listed
<1>. QED  BY <1>1, <1>6 DEF PeekedInOrder

(* The second question, whatever happened since the first. *)
LEMMA PeekListedKeeps ==
  ASSUME ObserverInv, PeekListed
  PROVE  Listed' /\ PeekedInOrder'
<1>. DEFINE k == listing.key
            r == committed[k]
            m == ReconstructQueueSizeMax(listing.head, listing.tail, listing.depth)
<1>1. /\ k \in Key
      /\ listing.head \in Slot(k) /\ listing.tail \in Slot(k)
      /\ listing.depth = RingUsed(listing.head, listing.tail, QueueSizeMax[k])
      /\ quiet => listing.head = r.head /\ listing.tail = r.tail
  BY DEF ObserverInv, Listed, PeekListed
<1>2. /\ QueueSizeMax[k] \in Nat \ {0, 1}
      /\ r \in Ring(k) /\ Matched(r, QueueSizeMax[k])
  BY <1>1, CommittedRings DEF ObserverInv
<1>3. /\ peeked' = [answer |-> PeekAll(r, m), truth |-> Contents(r, QueueSizeMax[k])]
      /\ listing' = None /\ quiet' = quiet
  BY DEF PeekListed
<1>4. m \in 2 .. QueueSizeMax[k]
  BY <1>1, <1>2, ReconstructedSize DEF Slot
<1>5. quiet => m = ReconstructQueueSizeMax(r.head, r.tail, RingUsed(r.head, r.tail, QueueSizeMax[k]))
  BY <1>1
<1>. HIDE DEF k, r, m
<1>6. peeked'.answer = PeekAll(r, m) /\ peeked'.truth = Contents(r, QueueSizeMax[k])
  BY <1>3
<1>7. quiet => PeekAll(r, m) = Contents(r, QueueSizeMax[k])
  BY <1>1, <1>2, <1>5, QuietPeek
<1>8. PeekAll(r, m) # PeekError => IsCutOnce(PeekAll(r, m), Contents(r, QueueSizeMax[k]))
  BY <1>1, <1>2, <1>4, PeekIsCutOnce
<1>9. PeekedInOrder'
  BY <1>3, <1>6, <1>7, <1>8 DEF PeekedInOrder
<1>. QED  BY <1>3, <1>9 DEF Listed

LEMMA NextObserverInv ==
  ObserverInv /\ [NextObserver]_<<vars, observerVars>> => ObserverInv'
<1>. SUFFICES ASSUME ObserverInv, [NextObserver]_<<vars, observerVars>>
              PROVE  ObserverInv'
  OBVIOUS
<1>1. IInv'
  <2>1. [Next]_vars
    BY DEF NextObserver, Write, ListKeys, PeekListed
  <2>. QED  BY <2>1, NextInvariant DEF ObserverInv
<1>2. CASE Write
  <2>1. listing' = listing /\ peeked' = peeked
    BY <1>2 DEF Write
  <2>2. quiet' => quiet /\ (listing = None \/ committed'[listing.key] = committed[listing.key])
    BY <1>2 DEF Write
  <2>3. Listed'
    BY <2>1, <2>2 DEF ObserverInv, Listed
  <2>4. PeekedInOrder'
    BY <2>1, <2>2 DEF ObserverInv, PeekedInOrder
  <2>. QED  BY <1>1, <2>3, <2>4 DEF ObserverInv
<1>3. CASE \E k \in Key : ListKeys(k)
  BY <1>1, <1>3, ListKeysKeeps DEF ObserverInv
<1>4. CASE PeekListed
  BY <1>1, <1>4, PeekListedKeeps DEF ObserverInv
<1>5. CASE UNCHANGED <<vars, observerVars>>
  <2>1. committed' = committed /\ listing' = listing /\ quiet' = quiet /\ peeked' = peeked
    BY <1>5 DEF vars, observerVars
  <2>. QED  BY <1>1, <2>1 DEF ObserverInv, Listed, PeekedInOrder
<1>. QED  BY <1>2, <1>3, <1>4, <1>5 DEF NextObserver

(* PeekedInOrder holds for every ring size, however many puts, gets and    *)
(* aborts came between the listing and the peek: an observer is refused or *)
(* shown the queue in order and from its oldest element with one gap at    *)
(* most, and all of it if nobody moved it.                                 *)
THEOREM PeekKeepsOrder == ObserverSpec => []PeekedInOrder
<1>1. ObserverInv => PeekedInOrder
  BY DEF ObserverInv
<1>. QED  BY InitObserverInv, NextObserverInv, <1>1, PTL DEF ObserverSpec

=============================================================================
