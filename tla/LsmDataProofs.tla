--------------------------- MODULE LsmDataProofs ---------------------------
(***************************************************************************)
(* What the operators of LsmData return, for every set of keys and values: *)
(* the lemmas that the proofs about MemTable and StorageEngine share.      *)
(***************************************************************************)
EXTENDS LsmData, FiniteSetTheorems, TLAPS

LEMMA ModIsNat ==
  ASSUME NEW a \in Int, NEW m \in Nat \ {0}
  PROVE  a % m \in Nat
OBVIOUS

LEMMA NewMemTableType ==
  ASSUME NEW n \in Nat
  PROVE  /\ NewMemTable(n) \in MemTableRec
         /\ NewMemTable(n).data = NoEntries
         /\ NewMemTable(n).count = 0
         /\ NewMemTable(n).immutable = FALSE
BY DEF NewMemTable, MemTableRec, NoEntries, EntryMap

LEMMA EntrySizeType ==
  ASSUME NEW k \in Key, NEW e \in Entry
  PROVE  EntrySize(k, e) \in Int
BY LsmDataAssumption DEF EntrySize, ValueSize, Entry

(* Putting an entry changes the entry of that key only, keeps the flag, and *)
(* leaves a memtable whose count is not zero, provided a count of zero meant*)
(* that it was empty.                                                       *)
LEMMA PutEntryFacts ==
  ASSUME NEW mt \in MemTableRec, NEW k \in Key, NEW e \in Entry
  PROVE  /\ PutEntry(mt, k, e) \in MemTableRec
         /\ PutEntry(mt, k, e).data[k] = e
         /\ \A j \in Key \ {k} : PutEntry(mt, k, e).data[j] = mt.data[j]
         /\ PutEntry(mt, k, e).immutable = mt.immutable
         /\ mt.data[k] = None \/ mt.count # 0 => PutEntry(mt, k, e).count # 0
<1>1. SizeDelta(mt.data, k, e) \in Int
  BY EntrySizeType DEF SizeDelta, MemTableRec, EntryMap
<1>2. SizeAfter(mt.size, SizeDelta(mt.data, k, e)) \in Nat
  BY <1>1, ModIsNat, LsmDataAssumption DEF SizeAfter, AsUsize, MemTableRec
<1>3. [mt.data EXCEPT ![k] = e] \in EntryMap
  BY DEF MemTableRec, EntryMap
<1> QED
  BY <1>2, <1>3 DEF PutEntry, MemTableRec, EntryMap

LEMMA FreezeFacts ==
  ASSUME NEW mt \in MemTableRec
  PROVE  /\ [mt EXCEPT !.immutable = TRUE] \in MemTableRec
         /\ [mt EXCEPT !.immutable = TRUE].data = mt.data
         /\ [mt EXCEPT !.immutable = TRUE].count = mt.count
BY DEF MemTableRec

-----------------------------------------------------------------------------
(* Arithmetic modulo m next to zero.                                        *)
LEMMA ModSmall ==
  ASSUME NEW m \in Nat \ {0}, NEW a \in 0..(m - 1)
  PROVE  a % m = a
OBVIOUS

LEMMA ModBelowZero ==
  ASSUME NEW m \in Nat \ {0}, NEW a \in Int, -m < a, a < 0
  PROVE  a % m = a + m
OBVIOUS

LEMMA TimesMonotone ==
  ASSUME NEW a \in Nat, NEW c \in Nat, NEW b \in Nat, a <= c
  PROVE  b * a <= c * b
OBVIOUS

(* The size counter grows by the absolute value of the change, as long as   *)
(* it does not reach 2^64: a shrink is added too.                           *)
LEMMA SizeAfterAdds ==
  ASSUME NEW size \in Nat, NEW delta \in Int,
         size + delta < UsizeMod, size - delta < UsizeMod
  PROVE  SizeAfter(size, delta) = IF delta > 0 THEN size + delta ELSE size - delta
<1>0. UsizeMod \in Nat \ {0}
  BY LsmDataAssumption
<1>1. CASE delta > 0
  <2>1. AsUsize(delta) = delta
    BY <1>0, <1>1, ModSmall DEF AsUsize
  <2>2. (size + delta) % UsizeMod = size + delta
    BY <1>0, <1>1, ModSmall
  <2> QED
    BY <1>1, <2>1, <2>2 DEF SizeAfter
<1>2. CASE delta = 0
  <2>1. AsUsize(delta) = delta /\ size % UsizeMod = size
    BY <1>0, <1>2, ModSmall DEF AsUsize
  <2> QED
    BY <1>2, <2>1 DEF SizeAfter
<1>3. CASE delta < 0
  <2>1. AsUsize(delta) = delta + UsizeMod
    BY <1>0, <1>3, ModBelowZero DEF AsUsize
  <2>2. size - AsUsize(delta) = (size - delta) - UsizeMod
    BY <1>0, <2>1
  <2>3. -UsizeMod < (size - delta) - UsizeMod /\ (size - delta) - UsizeMod < 0
    BY <1>0, <1>3
  <2>4. ((size - delta) - UsizeMod) % UsizeMod = size - delta
    BY <1>0, <2>3, ModBelowZero
  <2> QED
    BY <1>3, <2>2, <2>4 DEF SizeAfter
<1> QED
  BY <1>1, <1>2, <1>3

-----------------------------------------------------------------------------
(* The bytes of a map are a sum over its keys.                              *)
AddSize(k, n, data) == EntrySize(k, data[k]) + n
AnyOf(S) == CHOOSE x \in S : TRUE
Sizes == INSTANCE FoldProofs WITH Op <- AddSize, Pick <- AnyOf

LEMMA LiveBytesIsSum ==
  ASSUME NEW data
  PROVE  LiveBytes(data) = Sizes!Fold(KeysOf(data), 0, data)
BY DEF LiveBytes, MapThenSumSet, MapThenFoldSet, Sizes!Fold, Sizes!Unfolds, AddSize, AnyOf

LEMMA KeysFinite ==
  ASSUME NEW data
  PROVE  /\ IsFiniteSet(KeysOf(data)) /\ Cardinality(KeysOf(data)) \in Nat
         /\ \A S \in SUBSET KeysOf(data) : Sizes!IsFiniteSet(S) /\ Sizes!Picks(S)
<1>1. IsFiniteSet(KeysOf(data))
  BY LsmDataAssumption, FS_Subset DEF KeysOf
<1>2. \A S : IsFiniteSet(S) => Sizes!IsFiniteSet(S)
  BY DEF IsFiniteSet, Sizes!IsFiniteSet
<1>3. \A S : Sizes!Picks(S)
  BY DEF Sizes!Picks, AnyOf
<1> QED
  BY <1>1, <1>2, <1>3, FS_Subset, FS_CardinalityType

LEMMA EntrySizeNat ==
  ASSUME NEW k \in Key, NEW e \in Entry
  PROVE  EntrySize(k, e) \in Nat
BY LsmDataAssumption DEF EntrySize, ValueSize, Entry

(* The sum over any of the keys, with any of them taken for the last.       *)
LEMMA SumOfSizes ==
  ASSUME NEW data \in EntryMap, NEW S \in SUBSET KeysOf(data)
  PROVE  /\ Sizes!Fold(S, 0, data) \in Nat
         /\ \A k \in S : Sizes!Fold(S, 0, data)
                             = EntrySize(k, data[k]) + Sizes!Fold(S \ {k}, 0, data)
<1>1. Sizes!IsFiniteSet(S) /\ Sizes!Picks(S)
  BY KeysFinite
<1>2. \A k \in S : EntrySize(k, data[k]) \in Nat
  BY EntrySizeNat DEF KeysOf, EntryMap
<1>3. Sizes!Closed(S, Nat, data)
  BY <1>2 DEF AddSize, Sizes!Closed
<1>4. Sizes!Commutes(S, Nat, data)
  BY <1>2 DEF AddSize, Sizes!Commutes
<1>5. /\ Sizes!Fold(S, 0, data) \in Nat
      /\ \A k \in S : Sizes!Fold(S, 0, data) = AddSize(k, Sizes!Fold(S \ {k}, 0, data), data)
  <2>1. 0 \in Nat
    OBVIOUS
  <2>2. Sizes!Fold(S, 0, data) \in Nat /\ Sizes!AnyLast(S, 0, data)
    BY <1>1, <1>3, <1>4, <2>1, Sizes!FoldAnyOrder, Zenon
  <2> QED
    BY <2>2 DEF Sizes!AnyLast
<1> QED
  BY <1>5 DEF AddSize

LEMMA LiveBytesType ==
  ASSUME NEW data \in EntryMap
  PROVE  LiveBytes(data) \in Nat
BY LiveBytesIsSum, SumOfSizes

LEMMA LiveBytesNone == KeysOf(NoEntries) = {} /\ LiveBytes(NoEntries) = 0
<1>1. KeysOf(NoEntries) = {}
  BY DEF KeysOf, NoEntries
<1>2. Sizes!Fold({}, 0, NoEntries) = 0
  BY Sizes!FoldEmpty
<1> QED
  BY <1>1, <1>2, LiveBytesIsSum

(* An insertion changes the bytes by SizeDelta.                             *)
LEMMA LiveBytesPut ==
  ASSUME NEW data \in EntryMap, NEW k \in Key, NEW e \in Entry
  PROVE  LiveBytes([data EXCEPT ![k] = e]) = LiveBytes(data) + SizeDelta(data, k, e)
<1> DEFINE d == [data EXCEPT ![k] = e]
           Others == KeysOf(data) \ {k}
<1>1. d \in EntryMap /\ d[k] = e /\ \A j \in Key \ {k} : d[j] = data[j]
  BY DEF EntryMap
<1> HIDE DEF d
<1>2. k \in KeysOf(d) /\ KeysOf(d) \ {k} = Others
  BY <1>1, NoneAssumption DEF KeysOf
<1>3. LiveBytes(d) = EntrySize(k, e) + Sizes!Fold(Others, 0, d)
  BY <1>1, <1>2, LiveBytesIsSum, SumOfSizes
<1>4. Sizes!Fold(Others, 0, d) = Sizes!Fold(Others, 0, data)
  <2>1. Sizes!IsFiniteSet(Others) /\ Sizes!Picks(Others)
    BY KeysFinite
  <2>2. Sizes!Agree(Others, d, data)
    BY <1>1 DEF AddSize, KeysOf, Sizes!Agree
  <2> QED
    BY <2>1, <2>2, Sizes!FoldCongruence
<1>5. Sizes!Fold(Others, 0, data) \in Nat /\ EntrySize(k, e) \in Nat
  BY SumOfSizes, EntrySizeNat
<1>6. CASE data[k] = None
  <2>1. Others = KeysOf(data)
    BY <1>6 DEF KeysOf
  <2>2. LiveBytes(data) = Sizes!Fold(Others, 0, data)
    BY <2>1, LiveBytesIsSum
  <2> QED
    BY <1>3, <1>4, <1>5, <1>6, <2>2 DEF SizeDelta, d
<1>7. CASE data[k] # None
  <2>1. LiveBytes(data) = EntrySize(k, data[k]) + Sizes!Fold(Others, 0, data)
    BY <1>7, LiveBytesIsSum, SumOfSizes DEF KeysOf
  <2>2. EntrySize(k, data[k]) \in Nat
    BY <1>7, EntrySizeNat DEF EntryMap
  <2> QED
    BY <1>3, <1>4, <1>5, <1>7, <2>1, <2>2 DEF SizeDelta, d
<1> QED
  BY <1>6, <1>7

LEMMA KeysPut ==
  ASSUME NEW data \in EntryMap, NEW k \in Key, NEW e \in Entry
  PROVE  Cardinality(KeysOf([data EXCEPT ![k] = e])) =
           IF data[k] = None THEN Cardinality(KeysOf(data)) + 1 ELSE Cardinality(KeysOf(data))
<1>1. KeysOf([data EXCEPT ![k] = e]) = KeysOf(data) \cup {k}
  BY NoneAssumption DEF KeysOf, EntryMap
<1>2. k \in KeysOf(data) <=> data[k] # None
  BY DEF KeysOf
<1>3. IsFiniteSet(KeysOf(data))
  BY KeysFinite
<1> QED
  BY <1>1, <1>2, <1>3, FS_AddElement
=============================================================================
