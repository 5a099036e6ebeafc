------------------------------ MODULE LsmData ------------------------------
(***************************************************************************)
(* The values the storage engine is built from: entries (lib.rs) and the   *)
(* contents of a memtable (memtable.rs) with the arithmetic of its byte    *)
(* counter.  No state here: MemTable and StorageEngine use these operators.*)
(*                                                                         *)
(* Keys are naturals, so that the byte order of the code is <.  Of a key   *)
(* or a value only its length matters besides its identity.                *)
(***************************************************************************)
EXTENDS Integers, FiniteSets, Sequences, SequencesExt

CONSTANTS
  Key,             \* keys, a finite set of naturals
  Value,           \* values a put may store
  KeyLen,          \* KeyLen[k]: bytes of key k
  ValueLen,        \* ValueLen[v]: bytes of value v
  None,            \* Option::None: the value of a delete marker
  MemtableSizeThreshold,  \* Config::memtable_size_threshold, MemTable::max_size
  UsizeMod         \* 2^64 in the code: usize arithmetic is modulo UsizeMod

ASSUME LsmDataAssumption ==
  /\ Key \subseteq Nat /\ IsFiniteSet(Key) /\ Key # {}
  /\ KeyLen \in [Key -> Nat]
  /\ ValueLen \in [Value -> Nat]
  /\ None \notin Value
  /\ MemtableSizeThreshold \in Nat \ {0}     \* Config::validate
  /\ UsizeMod \in Nat \ {0}

-----------------------------------------------------------------------------
(* An entry stored under a key.  The code keeps the key in the entry too;   *)
(* here entries are the range of a map from keys.  "stamp" is a history     *)
(* field the code does not have: the position of the write in the order in  *)
(* which writes took effect, so that "newer" has a meaning that does not    *)
(* depend on the sequence numbers the program hands out.                    *)
Entry == [val : Value \cup {None}, sequence : Nat, stamp : Nat]

(* BTreeMap<Key, Entry>, with None for an absent key, and its keys.         *)
EntryMap == [Key -> Entry \cup {None}]
NoEntries == [k \in Key |-> None]
KeysOf(data) == {k \in Key : data[k] # None}

ASSUME NoneAssumption == None \notin Entry

(* Entry::size: both lengths and 8 bytes each for timestamp and sequence.   *)
ValueSize(v) == IF v = None THEN 0 ELSE ValueLen[v]
EntrySize(k, e) == KeyLen[k] + ValueSize(e.val) + 16

(* The bytes the entries of a map really take.                              *)
LiveBytes(data) ==
  MapThenSumSet(LAMBDA k : EntrySize(k, data[k]), KeysOf(data))

-----------------------------------------------------------------------------
MemTableRec ==
  [data : EntryMap, size : Nat, count : Nat, next_sequence : Nat, immutable : BOOLEAN]

(* MemTable::with_sequence; MemTable::new is the same with 0.               *)
NewMemTable(start) ==
  [data |-> NoEntries, size |-> 0, count |-> 0, next_sequence |-> start,
   immutable |-> FALSE]

(* `x as usize` of an i64: two's complement.                                *)
AsUsize(x) == x % UsizeMod

(* Mutant: the subtraction does not wrap around.                            *)
SizeAfterNoWrap(size, delta) ==
  IF delta > 0 THEN size + delta ELSE size - AsUsize(delta)

(* The size counter after an insert that changes the bytes by delta: a      *)
(* growth is added; anything else is passed to fetch_sub as usize, so a     *)
(* shrink by n subtracts 2^64 - n, which wraps around to adding n.          *)
SizeAfter(size, delta) ==
  IF delta > 0 THEN (size + AsUsize(delta)) % UsizeMod
               ELSE (size - AsUsize(delta)) % UsizeMod

SizeDelta(data, k, e) ==
  IF data[k] = None THEN EntrySize(k, e) ELSE EntrySize(k, e) - EntrySize(k, data[k])

(* Mutant: every put is counted as a new key.                               *)
PutEntryCountsAll(mt, k, e) ==
  [mt EXCEPT !.data[k] = e, !.size = SizeAfter(@, SizeDelta(mt.data, k, e)),
             !.count = @ + 1]

(* The part of MemTable::put and MemTable::delete done under the write lock *)
(* of the map: insert the entry, count a new key, adjust the byte counter.  *)
PutEntry(mt, k, e) ==
  [data          |-> [mt.data EXCEPT ![k] = e],
   size          |-> SizeAfter(mt.size, SizeDelta(mt.data, k, e)),
   count         |-> IF mt.data[k] = None THEN mt.count + 1 ELSE mt.count,
   next_sequence |-> mt.next_sequence,
   immutable     |-> mt.immutable]

ShouldFlush(mt) == mt.size >= MemtableSizeThreshold

(* MemTable::range_iter and SSTable ranges: keys from start, without end.   *)
InRange(data, start, end) == {k \in KeysOf(data) : start <= k /\ k < end}
=============================================================================
