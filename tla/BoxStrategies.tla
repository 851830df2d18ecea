---------------------------- MODULE BoxStrategies ----------------------------
(***************************************************************************)
(* What a storage strategy decides about a key: whether a seed is a list   *)
(* of entries, how many it holds, which store it lives in, how many bytes  *)
(* it can take.  This is the table of descriptors of @rawbox/store and the *)
(* byte model of box-size.ts, in bytes, without the page counts.           *)
(* A value is known by the size of its msgpack encoding: a scalar, or a    *)
(* list of scalars.  One that no encoder takes is larger than any bound.   *)
(***************************************************************************)
EXTENDS FifoRing, FiniteSetsExt

CONSTANTS
  Key,      \* storage keys
  KeySize,  \* KeySize[k]: the bytes of key k
  None      \* an optional field left out

(* A workspace holds finitely many boxes. *)
ASSUME KeyAssumption == IsFiniteSet(Key) /\ KeySize \in [Key -> Nat]

LMDB_INDEX_POINTER == 2
LMDB_NODE_HEADER == 8
LMDB_PAGE_HEADER == 16
LMDB_PAGE_SIZE_DEFAULT == 4096
LMDB_OVERFLOW_PAGE_ID == 8
LMDB_FIFO_CURSOR_BYTES == 9
LMDB_INPAGE_KEY_PLUS_VALUE_MAX == 2013
LMDB_KEY_SIZE_MAX == 1978
RAWBOX_KEY_SIZE_MAX == 79

Value == [list : BOOLEAN, sizes : Seq(Nat)]
Scalar(n) == [list |-> FALSE, sizes |-> <<n>>]
ListOf(sizes) == [list |-> TRUE, sizes |-> sizes]

(* A list is stored whole in a cell: its elements after one byte of header. *)
MeasureValueSize(v) ==
  SumFunction(v.sizes) + (IF v.list THEN 1 ELSE 0)

Elements(v) == [i \in DOMAIN v.sizes |-> Scalar(v.sizes[i])]

-----------------------------------------------------------------------------
(* The descriptors. *)

LmdbNames == {"lmdb-kv", "lmdb-fifo"}
FifoNames == {"lmdb-fifo", "redis-fifo"}

(* Each write appends, so a seed is a list and each element one entry. *)
SeedExpandsList(s) == s.name \in FifoNames

(* Takes the declared size of a ring for what it holds. *)
SeedCapacityWhole(s) == s.queueSizeMax

(* A ring keeps one slot free; a redis list fills up. *)
SeedCapacityOf(s) ==
  IF s.name = "lmdb-fifo" THEN RingCapacity(s.queueSizeMax) ELSE s.queueSizeMax

(* One environment for a workspace, one redis server for a backend id. *)
StoreIdentityOf(s) ==
  IF s.name \in LmdbNames THEN <<"lmdb", "workspace">> ELSE <<"redis", s.backend>>

(* The digits of a slot number, exact up to ten of them. *)
PowersOfTen == {10, 100, 1000, 10000, 100000, 1000000, 10000000, 100000000, 1000000000}
Digits(n) == 1 + Cardinality({p \in PowersOfTen : p <= n})

(* fifo:<key>:data:<slot>, fifo:<key>:head and fifo:<key>:tail *)
FifoDataKeySize(k, slot) == KeySize[k] + 11 + Digits(slot)
FifoCursorKeySize(k) == KeySize[k] + 10

-----------------------------------------------------------------------------
(* The byte model. *)

EntryOverhead(keySize) == LMDB_INDEX_POINTER + LMDB_NODE_HEADER + keySize

OverflowsLeafPage(keySize, size) == keySize + size > LMDB_INPAGE_KEY_PLUS_VALUE_MAX

(* A value too long for a leaf page goes to pages of its own, whole ones. *)
EntryDataBytes(keySize, size) ==
  EntryOverhead(keySize) +
  IF OverflowsLeafPage(keySize, size)
  THEN LMDB_OVERFLOW_PAGE_ID + LMDB_PAGE_SIZE_DEFAULT *
         ((LMDB_PAGE_HEADER + size + LMDB_PAGE_SIZE_DEFAULT - 1) \div LMDB_PAGE_SIZE_DEFAULT)
  ELSE size

CursorBytes(k) == EntryOverhead(FifoCursorKeySize(k)) + LMDB_FIFO_CURSOR_BYTES

BudgetForKvKey(k, s) ==
  [keySizeMax |-> KeySize[k], entryCount |-> 1,
   dataBytesMax |-> EntryDataBytes(KeySize[k], s.valueSizeMax)]

(* The widest data key is that of the last slot; the ring holds one entry  *)
(* less than it has slots.                                                 *)
BudgetForFifoKey(k, s) ==
  LET dataKeySize == FifoDataKeySize(k, s.queueSizeMax - 1)
      slotCount == s.queueSizeMax - 1
  IN [keySizeMax |-> MaxOf(dataKeySize, FifoCursorKeySize(k)),
      entryCount |-> slotCount + 2,
      dataBytesMax |-> slotCount * EntryDataBytes(dataKeySize, s.valueSizeMax)
                         + 2 * CursorBytes(k)]

(* A strategy without a byte model is not provisioned from the document. *)
Budgetable(s) == s.name \in LmdbNames

BudgetForKey(k, s) ==
  IF s.name = "lmdb-kv" THEN BudgetForKvKey(k, s) ELSE BudgetForFifoKey(k, s)

(* The declared keys and the bound ones, each with its own strategy or the *)
(* default one; what redis holds is counted nowhere.                       *)
BudgetForStorage(strategyOf) ==
  LET provisioned == {k \in DOMAIN strategyOf : Budgetable(strategyOf[k])}
  IN SumFunction([k \in provisioned |-> BudgetForKey(k, strategyOf[k]).dataBytesMax])
=============================================================================
