--------------------------- MODULE SSTableProofs ---------------------------
(***************************************************************************)
(* What the operators of SSTable return, for every set of entries: the     *)
(* blocks of a table ascend and tile its file, the search of the index     *)
(* ends at the block of a key, a lookup gives what the table was built     *)
(* from, and a range read what lies in the range, if its loop gets there.  *)
(***************************************************************************)
EXTENDS SSTable, LsmDataProofs, SequenceTheorems

-----------------------------------------------------------------------------
(* Induction and least elements, taken from FoldProofs, where they do not   *)
(* depend on the operations.                                                *)
LEMMA NatInterval ==
  ASSUME NEW n \in Nat, NEW T, 0 \in T, \A i \in 0..(n - 1) : i \in T => i + 1 \in T
  PROVE  \A i \in 0..n : i \in T
BY Sizes!IntervalInduction

LEMMA NatLeast ==
  ASSUME NEW T, T \subseteq Nat, T # {}
  PROVE  \E n \in T : \A m \in T : n <= m
BY Sizes!LeastNat

-----------------------------------------------------------------------------
(* The rank of a key is the number of smaller ones.  Every rank below the   *)
(* number of keys belongs to one key, and ranks are ordered as keys are.    *)
Rank(keys, k) == Cardinality({j \in keys : j < k})

LEMMA RankType ==
  ASSUME NEW keys, keys \subseteq Nat, IsFiniteSet(keys), NEW k
  PROVE  IsFiniteSet({j \in keys : j < k}) /\ Rank(keys, k) \in Nat
BY FS_Subset, FS_CardinalityType DEF Rank

LEMMA RankOrdered ==
  ASSUME NEW keys, keys \subseteq Nat, IsFiniteSet(keys), NEW k \in keys, NEW l \in keys, k < l
  PROVE  Rank(keys, k) < Rank(keys, l)
<1> DEFINE A == {j \in keys : j < k}
           B == {j \in keys : j < l}
<1>0. \A j \in keys : j \in Nat
  OBVIOUS
<1>1. A \subseteq B /\ k \in B /\ k \notin A
  <2>1. ~(k < k) /\ \A j \in keys : j < k => j < l
    BY <1>0
  <2> QED
    BY <2>1
<1>2. IsFiniteSet(B) /\ Cardinality(A) \in Nat /\ Cardinality(B) \in Nat
  BY RankType DEF Rank
<1>3. A # B
  BY <1>1
<1> HIDE DEF A, B
<1>4. Cardinality(A) <= Cardinality(B) /\ Cardinality(A) # Cardinality(B)
  BY <1>1, <1>2, <1>3, FS_Subset
<1> QED
  BY <1>2, <1>4 DEF Rank, A, B

LEMMA RankExists ==
  ASSUME NEW keys, keys \subseteq Nat, IsFiniteSet(keys)
  PROVE  \A i \in 0..(Cardinality(keys) - 1) : \E k \in keys : Rank(keys, k) = i
<1> DEFINE n == Cardinality(keys)
           Ranked == {i \in Nat : i < n => \E k \in keys : Rank(keys, k) = i}
<1>0. \A j \in keys : j \in Nat
  OBVIOUS
<1>1. n \in Nat
  BY FS_CardinalityType
<1>2. 0 \in Ranked
  <2> SUFFICES ASSUME 0 < n PROVE \E k \in keys : Rank(keys, k) = 0
    OBVIOUS
  <2>1. keys # {}
    BY FS_EmptySet
  <2>2. PICK k \in keys : \A j \in keys : k <= j
    BY <2>1, NatLeast
  <2>3. {j \in keys : j < k} = {}
    <3>1. \A j \in keys : ~(j < k)
      BY <1>0, <2>2
    <3> QED BY <3>1
  <2> QED
    BY <2>3, FS_EmptySet DEF Rank
<1>3. \A i \in 0..(n - 1) : i \in Ranked => i + 1 \in Ranked
  <2> SUFFICES ASSUME NEW i \in 0..(n - 1), i \in Ranked, i + 1 < n
               PROVE  \E k \in keys : Rank(keys, k) = i + 1
    BY <1>1
  <2>1. PICK k \in keys : Rank(keys, k) = i
    BY <1>1
  <2> DEFINE A == {j \in keys : j < k}
             More == {j \in keys : k < j}
  <2>2. IsFiniteSet(A) /\ Cardinality(A) = i /\ k \notin A
    <3>1. IsFiniteSet(A) /\ Rank(keys, k) = Cardinality(A)
      BY RankType DEF Rank
    <3>2. k \notin A
      BY <1>0
    <3> QED
      BY <2>1, <3>1, <3>2
  <2>3. IsFiniteSet(A \cup {k}) /\ Cardinality(A \cup {k}) = i + 1
    <3> HIDE DEF A
    <3> QED BY <2>2, FS_AddElement
  <2>4. More # {}
    <3> SUFFICES ASSUME More = {} PROVE FALSE
      OBVIOUS
    <3>1. keys = A \cup {k}
      <4>1. \A j \in keys : ~(k < j)
        OBVIOUS
      <4>2. \A j \in keys : j < k \/ j = k
        <5> HIDE DEF More, A, Ranked, n
        <5> QED BY <1>0, <4>1
      <4> QED BY <4>2
    <3> HIDE DEF A
    <3> QED BY <1>1, <2>3, <3>1
  <2>5. PICK l \in More : \A j \in More : l <= j
    <3> HIDE DEF More
    <3>1. More \subseteq Nat
      BY DEF More
    <3> QED BY <2>4, <3>1, NatLeast
  <2>6. {j \in keys : j < l} = A \cup {k}
    <3>1. l \in keys /\ k < l /\ \A j \in keys : k < j => l <= j
      BY <2>5
    <3>2. \A j \in keys : j < l <=> j < k \/ j = k
      <4> HIDE DEF More, A, Ranked, n
      <4> QED BY <1>0, <3>1
    <3> QED
      BY <3>2
  <2> QED
    BY <2>3, <2>5, <2>6 DEF Rank
<1>4. \A i \in 0..n : i \in Ranked
  <2> HIDE DEF Ranked, n
  <2> QED BY <1>1, <1>2, <1>3, NatInterval
<1> QED
  BY <1>1, <1>4

(* Sorted gives the keys in ascending order, each of them once.             *)
LEMMA SortedFacts ==
  ASSUME NEW keys \in SUBSET Nat, IsFiniteSet(keys)
  PROVE  /\ Sorted(keys) \in Seq(keys)
         /\ Len(Sorted(keys)) = Cardinality(keys)
         /\ \A i, j \in 1..Cardinality(keys) : i < j => Sorted(keys)[i] < Sorted(keys)[j]
         /\ \A k \in keys : \E i \in 1..Cardinality(keys) : Sorted(keys)[i] = k
<1> DEFINE n == Cardinality(keys)
           s == Sorted(keys)
<1>1. n \in Nat
  BY FS_CardinalityType
<1>0. \A k \in keys : k \in Nat
  OBVIOUS
<1>2. \A i \in 1..n : s[i] \in keys /\ Rank(keys, s[i]) = i - 1
  <2> SUFFICES ASSUME NEW i \in 1..n PROVE s[i] \in keys /\ Rank(keys, s[i]) = i - 1
    OBVIOUS
  <2>1. \E k \in keys : Rank(keys, k) = i - 1
    <3>1. keys \subseteq Nat /\ i - 1 \in 0..(n - 1)
      BY <1>0, <1>1
    <3> QED BY <3>1, RankExists
  <2>2. s[i] = CHOOSE k \in keys : Rank(keys, k) = i - 1
    BY DEF Sorted, Rank
  <2> QED
    BY <2>1, <2>2
<1>3. DOMAIN s = 1..n /\ s = [i \in 1..n |-> s[i]]
  <2> DEFINE at(i) == CHOOSE k \in keys : Cardinality({j \in keys : j < k}) = i - 1
  <2>1. s = [i \in 1..n |-> at(i)]
    BY DEF Sorted
  <2> HIDE DEF at, s, n
  <2> QED
    BY <2>1
<1> HIDE DEF s, n
<1>4. s \in Seq(keys) /\ Len(s) = n
  BY <1>1, <1>2, <1>3
<1>5. ASSUME NEW i \in 1..n, NEW j \in 1..n, i < j
      PROVE  s[i] < s[j]
  <2>1. s[i] \in keys /\ s[j] \in keys /\ Rank(keys, s[i]) = i - 1 /\ Rank(keys, s[j]) = j - 1
    BY <1>2
  <2>2. s[i] \in Nat /\ s[j] \in Nat
    BY <2>1
  <2>3. s[i] # s[j]
    BY <1>1, <1>5, <2>1
  <2>4. ~(s[j] < s[i])
    <3> SUFFICES ASSUME s[j] < s[i] PROVE FALSE
      OBVIOUS
    <3>1. Rank(keys, s[j]) < Rank(keys, s[i])
      BY <2>1, RankOrdered
    <3> QED
      BY <1>1, <1>5, <2>1, <3>1
  <2> QED
    BY <2>2, <2>3, <2>4
<1>6. ASSUME NEW k \in keys
      PROVE  \E i \in 1..n : s[i] = k
  <2> DEFINE i == Rank(keys, k) + 1
  <2>1. Rank(keys, k) \in Nat /\ Rank(keys, k) < n
    <3>1. {j \in keys : j < k} \in SUBSET keys /\ k \notin {j \in keys : j < k}
      OBVIOUS
    <3>2. Rank(keys, k) <= n /\ Rank(keys, k) # n /\ Rank(keys, k) \in Nat
      BY <3>1, RankType, FS_Subset DEF Rank, n
    <3> QED
      BY <1>1, <3>2
  <2>2. i \in 1..n /\ Rank(keys, s[i]) = Rank(keys, k) /\ s[i] \in keys
    BY <1>1, <1>2, <2>1
  <2>3. s[i] \in Nat /\ k \in Nat
    BY <2>2
  <2>4. ~(s[i] < k) /\ ~(k < s[i])
    <3>1. keys \subseteq Nat
      BY <1>0
    <3> HIDE DEF i
    <3>2. ~(Rank(keys, k) < Rank(keys, k))
      BY <2>1
    <3> QED BY <2>1, <2>2, <3>1, <3>2, RankOrdered
  <2> QED
    BY <2>2, <2>3, <2>4
<1> QED
  BY <1>4, <1>5, <1>6 DEF s, n

-----------------------------------------------------------------------------
(* The highest of some numbers, which FoldLeft folds last.                  *)
LEMMA MaxPicks ==
  ASSUME NEW n \in Nat
  PROVE  \A S : S # {} /\ S \subseteq 1..n => Max(S) \in S /\ \A x \in S : x <= Max(S)
<1> SUFFICES ASSUME NEW S, S # {}, S \subseteq 1..n
             PROVE  Max(S) \in S /\ \A x \in S : x <= Max(S)
  OBVIOUS
<1>1. \E x \in S : \A y \in S : x >= y
  BY Sizes!HighestExists
<1>2. Max(S) \in S /\ \A y \in S : Max(S) >= y
  BY <1>1 DEF Max
<1>3. \A x \in S : x \in 1..n
  OBVIOUS
<1>4. Max(S) \in 1..n
  BY <1>2, <1>3
<1> QED
  BY <1>2, <1>3, <1>4
-----------------------------------------------------------------------------
(* The writer's block side keeps its types, provided a compressor returns   *)
(* lengths; what matters below is that the index is a sequence.             *)
LengthsAreNat == \A n \in Nat : CompressedLen(n) \in Nat

LEMMA LengthTypes ==
  ASSUME LengthsAreNat
  PROVE  /\ \A n \in Nat : StoredLen(n) \in Nat
         /\ \A k \in Key, e \in Entry : EncodedLen(k, e) \in Nat
<1>1. \A n \in Nat : StoredLen(n) \in Nat
  <2> SUFFICES ASSUME NEW n \in Nat PROVE StoredLen(n) \in Nat
    OBVIOUS
  <2>1. RawLen(n) \in Nat
    BY DEF RawLen
  <2> QED
    BY <2>1 DEF StoredLen, LengthsAreNat
<1>2. \A k \in Key, e \in Entry : EncodedLen(k, e) \in Nat
  BY LsmDataAssumption DEF EncodedLen, Entry
<1> QED
  BY <1>1, <1>2

LEMMA FlushBlockType ==
  ASSUME LengthsAreNat, NEW w \in BlocksRec
  PROVE  FlushBlock(w) \in BlocksRec
<1>1. CASE w.current = <<>>
  BY <1>1 DEF FlushBlock
<1>2. CASE w.current # <<>>
  <2> DEFINE n == StoredLen(w.len)
             updated == [w.index EXCEPT ![Len(w.index)].size = n]
  <2>1. n \in Nat
    BY LengthTypes DEF BlocksRec
  <2> HIDE DEF n
  <2>2. updated \in Seq(IndexEntry)
    <3>1. w.index \in Seq(IndexEntry)
      BY DEF BlocksRec
    <3>2. CASE w.index = <<>>
      <4>1. updated = w.index
        BY <3>2
      <4> QED
        BY <3>1, <4>1
    <3>3. CASE w.index # <<>>
      <4>1. Len(w.index) \in 1..Len(w.index) /\ w.index[Len(w.index)] \in IndexEntry
        BY <3>1, <3>3
      <4>2. [w.index[Len(w.index)] EXCEPT !.size = n] \in IndexEntry
        BY <2>1, <4>1 DEF IndexEntry
      <4> QED
        BY <3>1, <4>1, <4>2
    <3> QED
      BY <3>2, <3>3
  <2> HIDE DEF updated
  <2>3. /\ Append(w.flushed, w.current) \in Seq(Seq(Key)) /\ <<>> \in Seq(Key)
        /\ w.position + n \in Nat
    BY <2>1 DEF BlocksRec
  <2>4. FlushBlock(w) = [flushed |-> Append(w.flushed, w.current), current |-> <<>>, len |-> 0,
                         index |-> updated, position |-> w.position + n]
    BY <1>2 DEF FlushBlock, n, updated
  <2> QED
    BY <2>2, <2>3, <2>4 DEF BlocksRec
<1> QED
  BY <1>1, <1>2

LEMMA AddToBlockType ==
  ASSUME LengthsAreNat, NEW w \in BlocksRec, NEW k \in Key, NEW e \in Entry
  PROVE  AddToBlock(w, k, e) \in BlocksRec
<1> DEFINE full == w.len + EncodedLen(k, e) > BlockSize
           v == IF full THEN FlushBlock(w) ELSE w
           entry == [key |-> k, offset |-> v.position, size |-> 0]
           opened == IF v.current # <<>> THEN v ELSE [v EXCEPT !.index = Append(@, entry)]
<1>1. v \in BlocksRec
  BY FlushBlockType
<1> HIDE DEF v
<1>2. entry \in IndexEntry
  BY <1>1 DEF BlocksRec, IndexEntry
<1> HIDE DEF entry
<1>3. opened \in BlocksRec
  <2>1. Append(v.index, entry) \in Seq(IndexEntry)
    BY <1>1, <1>2 DEF BlocksRec
  <2> DEFINE longer == Append(v.index, entry)
  <2>2. [v EXCEPT !.index = longer] \in BlocksRec
    <3> HIDE DEF longer
    <3>1. longer \in Seq(IndexEntry)
      BY <2>1 DEF longer
    <3> QED
      BY <1>1, <3>1 DEF BlocksRec
  <2> QED
    BY <1>1, <2>2
<1> HIDE DEF opened
<1>4. [opened EXCEPT !.current = Append(@, k), !.len = @ + EncodedLen(k, e)] \in BlocksRec
  <2> DEFINE keys == Append(opened.current, k)
             bytes == opened.len + EncodedLen(k, e)
  <2>0. opened.current \in Seq(Key) /\ opened.len \in Nat
    BY <1>3 DEF BlocksRec
  <2>1. keys \in Seq(Key) /\ bytes \in Nat
    <3>1. EncodedLen(k, e) \in Nat
      BY LengthTypes
    <3> QED
      BY <2>0, <3>1
  <2> HIDE DEF keys, bytes
  <2>2. [opened EXCEPT !.current = keys, !.len = bytes] \in BlocksRec
    BY <1>3, <2>1 DEF BlocksRec
  <2> QED
    BY <2>2 DEF keys, bytes
<1> QED
  BY <1>4 DEF AddToBlock, opened, entry, v

(* The parts of a writer after FlushBlock and after AddToBlock.             *)
Opening(k, w) == [key |-> k, offset |-> w.position, size |-> 0]

LEMMA FlushBlockParts ==
  ASSUME LengthsAreNat, NEW w \in BlocksRec, w.current # <<>>, w.index # <<>>,
         NEW v, v = FlushBlock(w)
  PROVE  /\ v \in BlocksRec
         /\ v.flushed = Append(w.flushed, w.current) /\ v.current = <<>> /\ v.len = 0
         /\ v.position = w.position + StoredLen(w.len)
         /\ Len(v.index) = Len(w.index)
         /\ \A i \in 1..Len(w.index) : v.index[i].key = w.index[i].key
                                         /\ v.index[i].offset = w.index[i].offset
         /\ \A i \in 1..(Len(w.index) - 1) : v.index[i].size = w.index[i].size
         /\ v.index[Len(w.index)].size = StoredLen(w.len)
<1> DEFINE n == Len(w.index)
           size == StoredLen(w.len)
<1>1. w.index \in Seq(IndexEntry) /\ n \in Nat \ {0} /\ n \in 1..n
  BY DEF BlocksRec
<1>2. v = [flushed |-> Append(w.flushed, w.current), current |-> <<>>, len |-> 0,
           index |-> [w.index EXCEPT ![n].size = size], position |-> w.position + size]
  BY DEF FlushBlock
<1> HIDE DEF n, size
<1>3. /\ v.flushed = Append(w.flushed, w.current) /\ v.current = <<>> /\ v.len = 0
      /\ v.position = w.position + size /\ v.index = [w.index EXCEPT ![n].size = size]
  BY <1>2
<1>4. \A i \in 1..n : w.index[i] \in IndexEntry
  BY <1>1 DEF n
<1>5. Len(v.index) = n /\ \A i \in 1..n : v.index[i] = IF i = n THEN [w.index[n] EXCEPT !.size = size]
                                                              ELSE w.index[i]
  BY <1>1, <1>3 DEF n
<1>6. /\ [w.index[n] EXCEPT !.size = size].key = w.index[n].key
      /\ [w.index[n] EXCEPT !.size = size].offset = w.index[n].offset
      /\ [w.index[n] EXCEPT !.size = size].size = size
  BY <1>1, <1>4 DEF IndexEntry
<1>7. \A i \in 1..n : v.index[i].key = w.index[i].key /\ v.index[i].offset = w.index[i].offset
  BY <1>5, <1>6
<1>8. v.index[n].size = size /\ \A i \in 1..(n - 1) : v.index[i].size = w.index[i].size
  <2>1. \A i \in 1..(n - 1) : i \in 1..n /\ i # n
    BY <1>1
  <2> QED
    BY <1>1, <1>5, <1>6, <2>1
<1>9. v \in BlocksRec
  BY FlushBlockType
<1> QED
  BY <1>3, <1>5, <1>7, <1>8, <1>9 DEF n, size

LEMMA AddToBlockParts ==
  ASSUME LengthsAreNat, NEW w \in BlocksRec, NEW k \in Key, NEW e \in Entry,
         NEW v, v = IF w.len + EncodedLen(k, e) > BlockSize THEN FlushBlock(w) ELSE w,
         NEW x, x = AddToBlock(w, k, e)
  PROVE  /\ v \in BlocksRec /\ x \in BlocksRec
         /\ x.flushed = v.flushed /\ x.current = Append(v.current, k)
         /\ x.len = v.len + EncodedLen(k, e) /\ x.position = v.position
         /\ x.index = IF v.current # <<>> THEN v.index ELSE Append(v.index, Opening(k, v))
<1> DEFINE opened == IF v.current # <<>> THEN v ELSE [v EXCEPT !.index = Append(@, Opening(k, v))]
<1>1. v \in BlocksRec /\ x \in BlocksRec
  BY FlushBlockType, AddToBlockType
<1>2. x = [opened EXCEPT !.current = Append(@, k), !.len = @ + EncodedLen(k, e)]
  BY DEF AddToBlock, Opening
<1>3. /\ opened.flushed = v.flushed /\ opened.current = v.current /\ opened.len = v.len
      /\ opened.position = v.position
      /\ opened.index = IF v.current # <<>> THEN v.index ELSE Append(v.index, Opening(k, v))
      /\ opened = [flushed |-> v.flushed, current |-> v.current, len |-> v.len,
                   index |-> opened.index, position |-> v.position]
  BY <1>1 DEF BlocksRec
<1> HIDE DEF opened
<1>4. /\ x.flushed = opened.flushed /\ x.current = Append(opened.current, k)
      /\ x.len = opened.len + EncodedLen(k, e) /\ x.position = opened.position
      /\ x.index = opened.index
  BY <1>2, <1>3
<1> QED
  BY <1>1, <1>3, <1>4

LEMMA SeqAppend ==
  ASSUME NEW S, NEW s \in Seq(S), NEW v \in S
  PROVE  /\ Append(s, v) \in Seq(S)
         /\ Len(Append(s, v)) = Len(s) + 1
         /\ Append(s, v)[Len(s) + 1] = v
         /\ \A j \in 1..Len(s) : Append(s, v)[j] = s[j]
OBVIOUS

-----------------------------------------------------------------------------
(* What lookups rest on: the blocks of a table are not empty, their keys    *)
(* ascend within each and from one to the next, every key is in one of      *)
(* them, and the index has the first key of each.                           *)
BlocksOf(w) == IF w.current = <<>> THEN w.flushed ELSE Append(w.flushed, w.current)

Ascends(s) == \A i, j \in DOMAIN s : i < j => s[i] < s[j]
Precedes(b, c) == \A i \in DOMAIN b, j \in DOMAIN c : b[i] < c[j]
Drawn(b, keys) == \A j \in DOMAIN b : b[j] \in keys

Laid(blocks, index, keys) ==
  /\ Len(index) = Len(blocks)
  /\ \A i \in DOMAIN blocks :
       /\ blocks[i] # <<>> /\ Ascends(blocks[i]) /\ Drawn(blocks[i], keys)
       /\ index[i].key = blocks[i][1]
       /\ \A j \in DOMAIN blocks : i < j => Precedes(blocks[i], blocks[j])
  /\ \A k \in keys : \E i \in DOMAIN blocks : Contains(blocks[i], k)

LEMMA AppendAscends ==
  ASSUME NEW keys \in SUBSET Key, NEW k \in Key, \A j \in keys : j < k,
         NEW b \in Seq(Key), Ascends(b), Drawn(b, keys),
         NEW c, c = Append(b, k)
  PROVE  /\ c \in Seq(Key) /\ c # <<>> /\ Ascends(c) /\ Drawn(c, keys \cup {k}) /\ Contains(c, k)
         /\ b # <<>> => c[1] = b[1]
         /\ \A j : Contains(b, j) => Contains(c, j)
         /\ \A d \in Seq(Key) : Drawn(d, keys) /\ Precedes(d, b) => Precedes(d, c)
<1> DEFINE n == Len(b)
<1>1. /\ n \in Nat /\ DOMAIN b = 1..n /\ DOMAIN c = 1..(n + 1) /\ Len(c) = n + 1 /\ c \in Seq(Key)
      /\ c[n + 1] = k /\ \A i \in 1..n : c[i] = b[i]
  OBVIOUS
<1> HIDE DEF n
<1>2. c # <<>> /\ Contains(c, k)
  BY <1>1 DEF Contains
<1>3. \A i \in DOMAIN c : (i \in DOMAIN b /\ c[i] = b[i] /\ c[i] \in keys /\ c[i] < k) \/ (i = n + 1 /\ c[i] = k)
  BY <1>1 DEF Drawn
<1>4. Ascends(c)
  <2> SUFFICES ASSUME NEW i \in DOMAIN c, NEW j \in DOMAIN c, i < j PROVE c[i] < c[j]
    BY DEF Ascends
  <2>1. i \in DOMAIN b
    BY <1>1
  <2> QED
    BY <1>1, <1>3, <2>1 DEF Ascends
<1>5. Drawn(c, keys \cup {k})
  BY <1>3 DEF Drawn
<1>6. b # <<>> => c[1] = b[1]
  BY <1>1
<1>7. \A j : Contains(b, j) => Contains(c, j)
  BY <1>1 DEF Contains
<1>8. ASSUME NEW d \in Seq(Key), Drawn(d, keys), Precedes(d, b)
      PROVE  Precedes(d, c)
  BY <1>3, <1>8 DEF Precedes, Drawn
<1> QED
  BY <1>1, <1>2, <1>4, <1>5, <1>6, <1>7, <1>8

LEMMA LaidOpens ==
  ASSUME NEW keys \in SUBSET Key, NEW k \in Key, \A j \in keys : j < k,
         NEW blocks \in Seq(Seq(Key)), NEW index \in Seq(IndexEntry), Laid(blocks, index, keys),
         NEW entry \in IndexEntry, entry.key = k
  PROVE  Laid(Append(blocks, <<k>>), Append(index, entry), keys \cup {k})
<1> DEFINE n == Len(blocks)
           more == Append(blocks, <<k>>)
           wider == Append(index, entry)
<1>1. /\ n \in Nat /\ DOMAIN blocks = 1..n /\ Len(blocks) = n /\ \A i \in 1..n : blocks[i] \in Seq(Key)
      /\ Len(index) = n
  BY DEF Laid
<1>2. <<k>> \in Seq(Key) /\ <<k>> # <<>> /\ DOMAIN <<k>> = {1} /\ <<k>>[1] = k /\ Len(<<k>>) = 1
  OBVIOUS
<1>3. /\ DOMAIN more = 1..(n + 1) /\ Len(more) = n + 1 /\ more[n + 1] = <<k>>
      /\ \A i \in 1..n : more[i] = blocks[i]
      /\ Len(wider) = n + 1 /\ wider[n + 1] = entry /\ \A i \in 1..n : wider[i] = index[i]
  BY <1>1, <1>2
<1> HIDE DEF n, more, wider
<1>4. \A i \in DOMAIN more : (i \in 1..n /\ more[i] = blocks[i] /\ wider[i] = index[i])
                               \/ (i = n + 1 /\ more[i] = <<k>> /\ wider[i] = entry)
  BY <1>1, <1>3
<1>5. Ascends(<<k>>) /\ Drawn(<<k>>, keys \cup {k}) /\ Contains(<<k>>, k)
  BY <1>2 DEF Ascends, Drawn, Contains
<1>6. \A i \in 1..n : Precedes(blocks[i], <<k>>) /\ Drawn(blocks[i], keys \cup {k})
  BY <1>1, <1>2 DEF Laid, Drawn, Precedes
<1>7. \A i \in DOMAIN more : /\ more[i] # <<>> /\ Ascends(more[i]) /\ Drawn(more[i], keys \cup {k})
                             /\ wider[i].key = more[i][1]
  BY <1>1, <1>2, <1>4, <1>5, <1>6 DEF Laid
<1>8. \A i, j \in DOMAIN more : i < j => Precedes(more[i], more[j])
  <2> SUFFICES ASSUME NEW i \in DOMAIN more, NEW j \in DOMAIN more, i < j PROVE Precedes(more[i], more[j])
    OBVIOUS
  <2>1. i \in 1..n /\ more[i] = blocks[i]
    BY <1>1, <1>3
  <2>2. CASE j \in 1..n
    BY <1>1, <1>3, <2>1, <2>2 DEF Laid
  <2>3. CASE j = n + 1
    BY <1>3, <1>6, <2>1, <2>3
  <2> QED
    BY <1>4, <2>2, <2>3
<1>9. \A j \in keys \cup {k} : \E i \in DOMAIN more : Contains(more[i], j)
  <2> SUFFICES ASSUME NEW j \in keys \cup {k} PROVE \E i \in DOMAIN more : Contains(more[i], j)
    OBVIOUS
  <2>1. n + 1 \in DOMAIN more /\ \A i \in 1..n : i \in DOMAIN more
    BY <1>1, <1>3
  <2> QED
    BY <1>1, <1>3, <1>5, <2>1 DEF Laid
<1> QED
  BY <1>3, <1>7, <1>8, <1>9 DEF Laid, more, wider

LEMMA LaidExtends ==
  ASSUME NEW keys \in SUBSET Key, NEW k \in Key, \A j \in keys : j < k,
         NEW blocks \in Seq(Seq(Key)), NEW index \in Seq(IndexEntry),
         NEW b \in Seq(Key), b # <<>>, Laid(Append(blocks, b), index, keys)
  PROVE  Laid(Append(blocks, Append(b, k)), index, keys \cup {k})
<1> DEFINE n == Len(blocks)
           old == Append(blocks, b)
           c == Append(b, k)
           new == Append(blocks, c)
           more == keys \cup {k}
<1>1. /\ n \in Nat /\ c \in Seq(Key) /\ DOMAIN old = 1..(n + 1) /\ DOMAIN new = 1..(n + 1)
      /\ Len(old) = n + 1 /\ Len(new) = n + 1
      /\ old[n + 1] = b /\ new[n + 1] = c /\ n + 1 \in 1..(n + 1)
      /\ \A i \in 1..n : new[i] = blocks[i] /\ old[i] = blocks[i] /\ i \in 1..(n + 1)
                           /\ blocks[i] \in Seq(Key)
  OBVIOUS
<1>2. Ascends(b) /\ Drawn(b, keys) /\ index[n + 1].key = b[1]
  BY <1>1 DEF Laid
<1>3. /\ c # <<>> /\ Ascends(c) /\ Drawn(c, more) /\ Contains(c, k) /\ c[1] = b[1]
      /\ \A j : Contains(b, j) => Contains(c, j)
      /\ \A d \in Seq(Key) : Drawn(d, keys) /\ Precedes(d, b) => Precedes(d, c)
  BY <1>2, AppendAscends
<1> HIDE DEF n, old, c, new
<1>4. Laid(old, index, keys)
  BY DEF old
<1>5. \A i \in 1..n : /\ blocks[i] # <<>> /\ Ascends(blocks[i]) /\ Drawn(blocks[i], keys)
                      /\ index[i].key = blocks[i][1] /\ Precedes(blocks[i], b)
                      /\ \A j \in 1..n : i < j => Precedes(blocks[i], blocks[j])
  <2>1. \A i \in 1..n : i < n + 1
    BY <1>1
  <2> QED
    BY <1>1, <1>4, <2>1 DEF Laid
<1>6. \A i \in 1..n : Precedes(blocks[i], c) /\ Drawn(blocks[i], more)
  BY <1>1, <1>3, <1>5 DEF Drawn
<1>7. \A i \in 1..(n + 1) : i \in 1..n \/ i = n + 1
  BY <1>1
<1>8. \A i \in DOMAIN new : /\ new[i] # <<>> /\ Ascends(new[i]) /\ Drawn(new[i], more)
                            /\ index[i].key = new[i][1]
  <2> SUFFICES ASSUME NEW i \in DOMAIN new
               PROVE  /\ new[i] # <<>> /\ Ascends(new[i]) /\ Drawn(new[i], more)
                      /\ index[i].key = new[i][1]
    OBVIOUS
  <2>1. CASE i \in 1..n
    BY <1>1, <1>5, <1>6, <2>1
  <2>2. CASE i = n + 1
    BY <1>1, <1>2, <1>3, <2>2
  <2> QED
    BY <1>1, <1>7, <2>1, <2>2
<1>9. \A i, j \in DOMAIN new : i < j => Precedes(new[i], new[j])
  <2> SUFFICES ASSUME NEW i \in DOMAIN new, NEW j \in DOMAIN new, i < j PROVE Precedes(new[i], new[j])
    OBVIOUS
  <2>1. i \in 1..n /\ new[i] = blocks[i]
    BY <1>1
  <2>2. CASE j \in 1..n
    BY <1>1, <1>5, <2>1, <2>2
  <2>3. CASE j = n + 1
    BY <1>1, <1>6, <2>1, <2>3
  <2> QED
    BY <1>1, <1>7, <2>2, <2>3
<1>10. \A j \in more : \E i \in DOMAIN new : Contains(new[i], j)
  <2> SUFFICES ASSUME NEW j \in more PROVE \E i \in DOMAIN new : Contains(new[i], j)
    OBVIOUS
  <2>1. CASE j = k
    BY <1>1, <1>3, <2>1
  <2>2. CASE j \in keys
    <3>1. PICK i \in DOMAIN old : Contains(old[i], j)
      BY <1>4, <2>2 DEF Laid
    <3>2. Contains(new[i], j)
      BY <1>1, <1>3, <1>7, <3>1
    <3> QED
      BY <1>1, <3>1, <3>2
  <2> QED
    BY <2>1, <2>2
<1> QED
  BY <1>1, <1>4, <1>8, <1>9, <1>10 DEF Laid, new, c

-----------------------------------------------------------------------------
(* The bytes of a block and where it begins in the file: two folds, over    *)
(* the keys of a block and over the blocks before it.                       *)
BytesOf(block, data) == FoldLeft(LAMBDA n, k : n + EncodedLen(k, data[k]), 0, block)
StoredBefore(blocks, i, data) ==
  FoldLeft(LAMBDA n, b : n + StoredLen(BytesOf(b, data)), 0, SubSeq(blocks, 1, i - 1))

AddLen(i, n, c) == n + EncodedLen(c.block[i], c.data[c.block[i]])
Lens == INSTANCE FoldProofs WITH Op <- AddLen, Pick <- Max
LensOf(block, data) == [block |-> block, data |-> data]

AddStored(i, n, c) == n + StoredLen(BytesOf(c.blocks[i], c.data))
Offsets == INSTANCE FoldProofs WITH Op <- AddStored, Pick <- Max
OffsetsOf(blocks, data) == [blocks |-> blocks, data |-> data]

LEMMA BytesIsFold ==
  ASSUME NEW block, NEW data
  PROVE  BytesOf(block, data) = Lens!Fold(DOMAIN block, 0, LensOf(block, data))
BY DEF BytesOf, FoldLeft, MapThenFoldSet, Lens!Fold, Lens!Unfolds, AddLen, LensOf

LEMMA StoredIsFold ==
  ASSUME NEW blocks, NEW i, NEW data, NEW before, before = SubSeq(blocks, 1, i - 1)
  PROVE  StoredBefore(blocks, i, data) = Offsets!Fold(DOMAIN before, 0, OffsetsOf(before, data))
BY DEF StoredBefore, FoldLeft, MapThenFoldSet, Offsets!Fold, Offsets!Unfolds, AddStored, OffsetsOf

LEMMA IntervalPicks ==
  ASSUME NEW n \in Nat
  PROVE  /\ Lens!IsFiniteSet(1..n) /\ Lens!Picks(1..n)
         /\ Offsets!IsFiniteSet(1..n) /\ Offsets!Picks(1..n)
<1>1. IsFiniteSet(1..n)
  BY FS_Interval
<1>2. \A t \in SUBSET (1..n) : t # {} => Max(t) \in t
  BY MaxPicks
<1>3. Lens!IsFiniteSet(1..n) /\ Offsets!IsFiniteSet(1..n)
  BY <1>1 DEF IsFiniteSet, Lens!IsFiniteSet, Offsets!IsFiniteSet
<1>4. Lens!Picks(1..n) /\ Offsets!Picks(1..n)
  BY <1>2 DEF Lens!Picks, Offsets!Picks
<1> QED
  BY <1>3, <1>4

LEMMA BytesOfSame ==
  ASSUME NEW block \in Seq(Key), NEW data, NEW other, \A i \in DOMAIN block : data[block[i]] = other[block[i]]
  PROVE  BytesOf(block, data) = BytesOf(block, other)
<1> DEFINE n == Len(block)
           c == LensOf(block, data)
           d == LensOf(block, other)
<1>1. n \in Nat /\ DOMAIN block = 1..n
  OBVIOUS
<1>2. Lens!Agree(1..n, c, d)
  BY <1>1 DEF Lens!Agree, AddLen, LensOf
<1> HIDE DEF c, d, n
<1>3. Lens!Fold(1..n, 0, c) = Lens!Fold(1..n, 0, d)
  BY <1>1, <1>2, IntervalPicks, Lens!FoldCongruence
<1> QED
  BY <1>1, <1>3, BytesIsFold DEF c, d

LEMMA BytesOfNone == ASSUME NEW data PROVE BytesOf(<<>>, data) = 0
<1> DEFINE c == LensOf(<<>>, data)
<1>1. DOMAIN <<>> = 1..0
  OBVIOUS
<1>2. Lens!Fold(1..0, 0, c) = 0
  BY MaxPicks, Lens!FoldInterval
<1> QED
  BY <1>1, <1>2, BytesIsFold

LEMMA BytesOfAppend ==
  ASSUME NEW block \in Seq(Key), NEW k \in Key, NEW data
  PROVE  BytesOf(Append(block, k), data) = BytesOf(block, data) + EncodedLen(k, data[k])
<1> DEFINE n == Len(block)
           more == Append(block, k)
           c == LensOf(more, data)
           d == LensOf(block, data)
<1>1. /\ n \in Nat /\ n + 1 \in Nat /\ n \in 0..n /\ DOMAIN block = 1..n /\ DOMAIN more = 1..(n + 1)
      /\ more[n + 1] = k /\ \A i \in 1..n : more[i] = block[i]
  OBVIOUS
<1> HIDE DEF n, more
<1>2. Lens!Agree(1..n, c, d)
  BY <1>1 DEF Lens!Agree, AddLen, LensOf
<1>3. \A m : AddLen(n + 1, m, c) = m + EncodedLen(k, data[k])
  BY <1>1 DEF AddLen, LensOf
<1> HIDE DEF c, d
<1>4. Lens!Fold(1..n, 0, c) = Lens!Fold(1..n, 0, d)
  BY <1>1, <1>2, IntervalPicks, Lens!FoldCongruence
<1>5. Lens!Fold(1..(n + 1), 0, c) = AddLen(n + 1, Lens!Fold(1..n, 0, c), c)
  <2>1. \A i \in 0..((n + 1) - 1) : Lens!Fold(1..(i + 1), 0, c) = AddLen(i + 1, Lens!Fold(1..i, 0, c), c)
    BY <1>1, MaxPicks, Lens!FoldInterval
  <2>2. n \in 0..((n + 1) - 1)
    BY <1>1
  <2> QED
    BY <2>1, <2>2
<1>6. /\ BytesOf(more, data) = Lens!Fold(1..(n + 1), 0, c)
      /\ BytesOf(block, data) = Lens!Fold(1..n, 0, d)
  BY <1>1, BytesIsFold DEF c, d
<1> QED
  BY <1>3, <1>4, <1>5, <1>6 DEF more

LEMMA BytesOfType ==
  ASSUME LengthsAreNat, NEW block \in Seq(Key), NEW data, \A i \in DOMAIN block : data[block[i]] \in Entry
  PROVE  BytesOf(block, data) \in Nat
<1> DEFINE n == Len(block)
           c == LensOf(block, data)
<1>1. n \in Nat /\ DOMAIN block = 1..n /\ \A i \in 1..n : block[i] \in Key
  OBVIOUS
<1>2. Lens!Closed(1..n, Nat, c)
  <2>1. \A i \in 1..n : EncodedLen(block[i], data[block[i]]) \in Nat
    BY <1>1, LengthTypes
  <2>2. \A i \in 1..n : \A m \in Nat : m + EncodedLen(block[i], data[block[i]]) \in Nat
    BY <2>1
  <2>3. \A i : \A m : AddLen(i, m, c) = m + EncodedLen(block[i], data[block[i]])
    BY DEF AddLen, LensOf
  <2> QED
    BY <2>2, <2>3 DEF Lens!Closed
<1> HIDE DEF c, n
<1>3. Lens!Fold(1..n, 0, c) \in Nat
  <2>1. 0 \in Nat
    OBVIOUS
  <2> QED
    BY <1>1, <1>2, <2>1, IntervalPicks, Lens!FoldClosed
<1> QED
  BY <1>1, <1>3, BytesIsFold DEF c

(* The blocks before block i.                                               *)
LEMMA StoredUpTo ==
  ASSUME NEW blocks \in Seq(Seq(Key)), NEW i \in 1..(Len(blocks) + 1), NEW data
  PROVE  StoredBefore(blocks, i, data) = Offsets!Fold(1..(i - 1), 0, OffsetsOf(blocks, data))
<1> DEFINE n == i - 1
           before == SubSeq(blocks, 1, n)
           c == OffsetsOf(before, data)
           d == OffsetsOf(blocks, data)
<1>1. n \in Nat /\ DOMAIN before = 1..n /\ \A j \in 1..n : before[j] = blocks[j]
  OBVIOUS
<1> HIDE DEF n, before
<1>2. Offsets!Agree(1..n, c, d)
  BY <1>1 DEF Offsets!Agree, AddStored, OffsetsOf
<1> HIDE DEF c, d
<1>3. Offsets!Fold(1..n, 0, c) = Offsets!Fold(1..n, 0, d)
  BY <1>1, <1>2, IntervalPicks, Offsets!FoldCongruence
<1>4. StoredBefore(blocks, i, data) = Offsets!Fold(1..n, 0, c)
  <2>1. before = SubSeq(blocks, 1, i - 1)
    BY DEF before, n
  <2>2. StoredBefore(blocks, i, data) = Offsets!Fold(DOMAIN before, 0, OffsetsOf(before, data))
    BY ONLY <2>1, StoredIsFold, ZenonT(30)
  <2> QED
    BY <1>1, <2>2 DEF c
<1> QED
  BY <1>3, <1>4 DEF d, n

LEMMA StoredBeforeSame ==
  ASSUME NEW blocks \in Seq(Seq(Key)), NEW more \in Seq(Seq(Key)), NEW data, NEW other,
         NEW i \in 1..(Len(blocks) + 1), i \in 1..(Len(more) + 1),
         \A j \in 1..(i - 1) : BytesOf(blocks[j], data) = BytesOf(more[j], other)
  PROVE  StoredBefore(blocks, i, data) = StoredBefore(more, i, other)
<1> DEFINE n == i - 1
           c == OffsetsOf(blocks, data)
           d == OffsetsOf(more, other)
<1>1. n \in Nat
  OBVIOUS
<1> HIDE DEF n
<1>2. Offsets!Agree(1..n, c, d)
  BY DEF Offsets!Agree, AddStored, OffsetsOf, n
<1> HIDE DEF c, d
<1>3. Offsets!Fold(1..n, 0, c) = Offsets!Fold(1..n, 0, d)
  BY <1>1, <1>2, IntervalPicks, Offsets!FoldCongruence
<1> QED
  BY <1>3, StoredUpTo DEF c, d, n

LEMMA StoredBeforeNext ==
  ASSUME NEW blocks \in Seq(Seq(Key)), NEW data
  PROVE  /\ StoredBefore(blocks, 1, data) = 0
         /\ \A i \in DOMAIN blocks :
              StoredBefore(blocks, i + 1, data)
                = StoredBefore(blocks, i, data) + StoredLen(BytesOf(blocks[i], data))
<1> DEFINE n == Len(blocks)
           c == OffsetsOf(blocks, data)
<1>1. n \in Nat /\ DOMAIN blocks = 1..n /\ 1 \in 1..(n + 1) /\ 1 - 1 = 0
  OBVIOUS
<1>2. \A i : \A m : AddStored(i, m, c) = m + StoredLen(BytesOf(blocks[i], data))
  BY DEF AddStored, OffsetsOf
<1>3. \A i \in 1..(n + 1) : StoredBefore(blocks, i, data) = Offsets!Fold(1..(i - 1), 0, c)
  BY StoredUpTo
<1> HIDE DEF n, c
<1>4. /\ Offsets!Fold(1..0, 0, c) = 0
      /\ \A i \in 0..(n - 1) : Offsets!Fold(1..(i + 1), 0, c) = AddStored(i + 1, Offsets!Fold(1..i, 0, c), c)
  BY <1>1, MaxPicks, Offsets!FoldInterval
<1>5. StoredBefore(blocks, 1, data) = 0
  BY <1>1, <1>3, <1>4
<1>6. ASSUME NEW i \in 1..n
      PROVE  StoredBefore(blocks, i + 1, data)
               = StoredBefore(blocks, i, data) + StoredLen(BytesOf(blocks[i], data))
  <2>1. i - 1 \in 0..(n - 1) /\ (i - 1) + 1 = i /\ (i + 1) - 1 = i /\ i \in 1..(n + 1) /\ i + 1 \in 1..(n + 1)
    BY <1>1
  <2>2. Offsets!Fold(1..i, 0, c) = AddStored(i, Offsets!Fold(1..(i - 1), 0, c), c)
    BY <1>4, <2>1
  <2> QED
    BY <1>2, <1>3, <2>1, <2>2
<1> QED
  BY <1>1, <1>5, <1>6

-----------------------------------------------------------------------------
(* The writer's sizes: what it has noted of the blocks it has flushed is    *)
(* what they take and where they begin, and only a block of one entry is    *)
(* larger than BLOCK_SIZE.                                                  *)
Fits(block, data) == BytesOf(block, data) <= BlockSize \/ Len(block) = 1
Tiled(w, data) ==
  /\ w.len = BytesOf(w.current, data) /\ (w.current # <<>> => Fits(w.current, data))
  /\ \A i \in DOMAIN w.flushed : /\ w.index[i].size = StoredLen(BytesOf(w.flushed[i], data))
                                 /\ Fits(w.flushed[i], data)
  /\ \A i \in DOMAIN w.index : w.index[i].offset = StoredBefore(w.flushed, i, data)
  /\ w.position = StoredBefore(w.flushed, Len(w.flushed) + 1, data)

LEMMA BlocksOfFacts ==
  ASSUME NEW w \in BlocksRec, NEW keys, Laid(BlocksOf(w), w.index, keys)
  PROVE  /\ BlocksOf(w) \in Seq(Seq(Key)) /\ w.flushed \in Seq(Seq(Key)) /\ w.current \in Seq(Key)
         /\ w.index \in Seq(IndexEntry) /\ w.len \in Nat /\ w.position \in Nat
         /\ Len(w.flushed) \in Nat /\ DOMAIN w.flushed = 1..Len(w.flushed)
         /\ DOMAIN w.index = 1..Len(w.index)
         /\ Len(w.index) = IF w.current = <<>> THEN Len(w.flushed) ELSE Len(w.flushed) + 1
         /\ \A i \in DOMAIN w.flushed : w.flushed[i] \in Seq(Key) /\ Drawn(w.flushed[i], keys)
         /\ Drawn(w.current, keys)
<1>1. /\ w.flushed \in Seq(Seq(Key)) /\ w.current \in Seq(Key)
      /\ w.index \in Seq(IndexEntry) /\ w.len \in Nat /\ w.position \in Nat
  BY DEF BlocksRec
<1>2. /\ Len(w.flushed) \in Nat /\ DOMAIN w.flushed = 1..Len(w.flushed) /\ DOMAIN w.index = 1..Len(w.index)
      /\ \A i \in DOMAIN w.flushed : w.flushed[i] \in Seq(Key)
  BY <1>1
<1> DEFINE n == Len(w.flushed)
           more == Append(w.flushed, w.current)
<1>3. /\ more \in Seq(Seq(Key)) /\ Len(more) = n + 1 /\ DOMAIN more = 1..(n + 1)
      /\ more[n + 1] = w.current /\ \A i \in 1..n : more[i] = w.flushed[i] /\ i \in 1..(n + 1)
  BY <1>1, SeqAppend
<1> HIDE DEF n, more
<1>4. CASE w.current = <<>>
  <2>1. BlocksOf(w) = w.flushed /\ DOMAIN w.current = {}
    BY <1>4 DEF BlocksOf
  <2> QED
    BY <1>1, <1>2, <1>4, <2>1 DEF Laid, Drawn
<1>5. CASE w.current # <<>>
  <2>1. BlocksOf(w) = more
    BY <1>5 DEF BlocksOf, more
  <2>2. n \in Nat /\ n + 1 \in DOMAIN more
    BY <1>2, <1>3 DEF n
  <2>3. \A i \in DOMAIN more : Drawn(more[i], keys)
    BY <2>1 DEF Laid
  <2>4. Len(w.index) = n + 1
    BY <1>3, <2>1 DEF Laid
  <2> QED
    BY <1>1, <1>2, <1>3, <1>5, <2>1, <2>2, <2>3, <2>4 DEF n
<1> QED
  BY <1>4, <1>5

LEMMA FlushLays ==
  ASSUME LengthsAreNat, NEW w \in BlocksRec, NEW keys, Laid(BlocksOf(w), w.index, keys),
         NEW v, v = FlushBlock(w)
  PROVE  /\ v \in BlocksRec /\ v.current = <<>> /\ v.flushed = BlocksOf(w) /\ BlocksOf(v) = BlocksOf(w)
         /\ Laid(BlocksOf(v), v.index, keys)
<1>1. CASE w.current = <<>>
  BY <1>1 DEF FlushBlock, BlocksOf
<1>2. CASE w.current # <<>>
  <2>1. Len(w.index) = Len(w.flushed) + 1 /\ Len(w.flushed) \in Nat
    BY <1>2, BlocksOfFacts
  <2>2. w.index # <<>>
    BY <2>1
  <2>3. /\ v \in BlocksRec /\ v.flushed = Append(w.flushed, w.current) /\ v.current = <<>>
        /\ Len(v.index) = Len(w.index)
        /\ \A i \in 1..Len(w.index) : v.index[i].key = w.index[i].key
    BY <1>2, <2>2, FlushBlockParts
  <2>4. v.flushed = BlocksOf(w) /\ BlocksOf(v) = BlocksOf(w)
    BY <1>2, <2>3 DEF BlocksOf
  <2>5. DOMAIN BlocksOf(w) = 1..Len(w.index)
    <3>1. BlocksOf(w) \in Seq(Seq(Key)) /\ Len(BlocksOf(w)) = Len(w.index)
      BY BlocksOfFacts DEF Laid
    <3> QED
      BY <3>1
  <2> QED
    BY <2>3, <2>4, <2>5 DEF Laid
<1> QED
  BY <1>1, <1>2

LEMMA FlushTiles ==
  ASSUME LengthsAreNat, NEW w \in BlocksRec, NEW keys, Laid(BlocksOf(w), w.index, keys),
         NEW data, Tiled(w, data), NEW v, v = FlushBlock(w)
  PROVE  Tiled(v, data)
<1>1. CASE w.current = <<>>
  BY <1>1 DEF FlushBlock
<1>2. CASE w.current # <<>>
  <2> DEFINE n == Len(w.flushed)
             bytes == BytesOf(w.current, data)
  <2>1. /\ Len(w.index) = n + 1 /\ n \in Nat /\ w.flushed \in Seq(Seq(Key)) /\ w.current \in Seq(Key)
        /\ DOMAIN w.index = 1..(n + 1) /\ DOMAIN w.flushed = 1..n
    BY <1>2, BlocksOfFacts
  <2>2. w.index # <<>>
    BY <2>1
  <2>3. /\ v \in BlocksRec /\ v.flushed = Append(w.flushed, w.current) /\ v.current = <<>> /\ v.len = 0
        /\ v.position = w.position + StoredLen(w.len) /\ Len(v.index) = n + 1
        /\ \A i \in 1..(n + 1) : v.index[i].offset = w.index[i].offset
        /\ \A i \in 1..n : v.index[i].size = w.index[i].size
        /\ v.index[n + 1].size = StoredLen(w.len)
    <3>1. (n + 1) - 1 = n
      BY <2>1
    <3>2. /\ v \in BlocksRec /\ v.flushed = Append(w.flushed, w.current) /\ v.current = <<>> /\ v.len = 0
          /\ v.position = w.position + StoredLen(w.len) /\ Len(v.index) = Len(w.index)
          /\ \A i \in 1..Len(w.index) : v.index[i].offset = w.index[i].offset
          /\ \A i \in 1..(Len(w.index) - 1) : v.index[i].size = w.index[i].size
          /\ v.index[Len(w.index)].size = StoredLen(w.len)
      BY <1>2, <2>2, FlushBlockParts
    <3> HIDE DEF n
    <3> QED
      BY <2>1, <3>1, <3>2
  <2> HIDE DEF n, bytes
  <2>4. /\ v.flushed \in Seq(Seq(Key)) /\ Len(v.flushed) = n + 1 /\ DOMAIN v.flushed = 1..(n + 1)
        /\ v.flushed[n + 1] = w.current /\ \A i \in 1..n : v.flushed[i] = w.flushed[i]
    BY <2>1, <2>3 DEF n
  <2>5. DOMAIN v.index = 1..(n + 1)
    BY <2>3 DEF BlocksRec
  <2>6. w.len = bytes /\ Fits(w.current, data)
    BY <1>2 DEF Tiled, bytes
  <2>7. \A i \in 1..(n + 1) : StoredBefore(v.flushed, i, data) = StoredBefore(w.flushed, i, data)
    <3> SUFFICES ASSUME NEW i \in 1..(n + 1)
                 PROVE  StoredBefore(v.flushed, i, data) = StoredBefore(w.flushed, i, data)
      OBVIOUS
    <3>1. /\ i \in 1..(Len(v.flushed) + 1) /\ i \in 1..(Len(w.flushed) + 1)
          /\ \A j \in 1..(i - 1) : j \in 1..n
      BY <2>1, <2>4 DEF n
    <3>2. \A j \in 1..(i - 1) : BytesOf(v.flushed[j], data) = BytesOf(w.flushed[j], data)
      BY <2>4, <3>1
    <3> QED
      <4>1. PICK a \in Seq(Seq(Key)) : a = v.flushed
        BY <2>4
      <4>2. PICK b \in Seq(Seq(Key)) : b = w.flushed
        BY <2>1
      <4>3. /\ i \in 1..(Len(a) + 1) /\ i \in 1..(Len(b) + 1)
            /\ \A j \in 1..(i - 1) : BytesOf(a[j], data) = BytesOf(b[j], data)
        BY <3>1, <3>2, <4>1, <4>2
      <4>4. StoredBefore(a, i, data) = StoredBefore(b, i, data)
        BY <4>3, StoredBeforeSame
      <4> QED
        BY <4>1, <4>2, <4>4
  <2>8. \A i \in 1..(n + 1) : /\ v.index[i].size = StoredLen(BytesOf(v.flushed[i], data))
                              /\ Fits(v.flushed[i], data)
    <3>1. \A i \in 1..(n + 1) : i \in 1..n \/ i = n + 1
      BY <2>1
    <3>2. \A i \in 1..n : w.index[i].size = StoredLen(BytesOf(w.flushed[i], data)) /\ Fits(w.flushed[i], data)
      BY <2>1 DEF Tiled
    <3> QED
      BY <2>3, <2>4, <2>6, <3>1, <3>2 DEF bytes
  <2>9. \A i \in 1..(n + 1) : v.index[i].offset = StoredBefore(v.flushed, i, data)
    <3>1. \A i \in 1..(n + 1) : w.index[i].offset = StoredBefore(w.flushed, i, data)
      BY <2>1 DEF Tiled
    <3> QED
      BY <2>3, <2>7, <3>1
  <2>10. v.position = StoredBefore(v.flushed, (n + 1) + 1, data)
    <3>1. w.position = StoredBefore(v.flushed, n + 1, data)
      BY <2>1, <2>7 DEF Tiled, n
    <3>2. StoredBefore(v.flushed, (n + 1) + 1, data) = StoredBefore(v.flushed, n + 1, data) + StoredLen(bytes)
      <4>1. n + 1 \in DOMAIN v.flushed
        BY <2>1, <2>4
      <4> QED
        BY <2>4, <4>1, StoredBeforeNext DEF bytes
    <3> QED
      BY <2>3, <2>6, <3>1, <3>2
  <2>11. v.len = BytesOf(v.current, data)
    BY <2>3, BytesOfNone
  <2> QED
    BY <2>3, <2>4, <2>5, <2>8, <2>9, <2>10, <2>11 DEF Tiled
<1> QED
  BY <1>1, <1>2

LEMMA AddLays ==
  ASSUME LengthsAreNat, NEW w \in BlocksRec, NEW keys \in SUBSET Key, Laid(BlocksOf(w), w.index, keys),
         NEW k \in Key, NEW e \in Entry, \A j \in keys : j < k, NEW x, x = AddToBlock(w, k, e)
  PROVE  x \in BlocksRec /\ Laid(BlocksOf(x), x.index, keys \cup {k})
<1> DEFINE full == w.len + EncodedLen(k, e) > BlockSize
<1>1. PICK v : v = IF full THEN FlushBlock(w) ELSE w
  OBVIOUS
<1>2. v \in BlocksRec /\ Laid(BlocksOf(v), v.index, keys)
  BY <1>1, FlushLays
<1>3. /\ x \in BlocksRec /\ x.flushed = v.flushed /\ x.current = Append(v.current, k)
      /\ x.index = IF v.current # <<>> THEN v.index ELSE Append(v.index, Opening(k, v))
  BY <1>1, AddToBlockParts
<1>4. /\ v.flushed \in Seq(Seq(Key)) /\ v.current \in Seq(Key) /\ v.index \in Seq(IndexEntry)
      /\ v.position \in Nat
  BY <1>2, BlocksOfFacts
<1>5. BlocksOf(x) = Append(v.flushed, Append(v.current, k))
  <2>1. Append(v.current, k) # <<>>
    <3>1. Len(Append(v.current, k)) = Len(v.current) + 1 /\ Len(v.current) \in Nat
      BY <1>4, SeqAppend
    <3>2. Len(<<>>) = 0
      OBVIOUS
    <3>3. Len(Append(v.current, k)) # Len(<<>>)
      BY <3>1, <3>2
    <3> QED
      BY ONLY <3>3, Zenon
  <2> QED
    BY <1>3, <2>1 DEF BlocksOf
<1> HIDE DEF full
<1>6. CASE v.current = <<>>
  <2>1. BlocksOf(v) = v.flushed /\ Append(v.current, k) = <<k>>
    BY <1>6 DEF BlocksOf
  <2>2. Opening(k, v) \in IndexEntry /\ Opening(k, v).key = k
    BY <1>4 DEF Opening, IndexEntry
  <2>3. Laid(Append(v.flushed, <<k>>), Append(v.index, Opening(k, v)), keys \cup {k})
    BY <1>2, <1>4, <2>1, <2>2, LaidOpens
  <2> QED
    BY <1>3, <1>5, <1>6, <2>1, <2>3
<1>7. CASE v.current # <<>>
  <2>1. BlocksOf(v) = Append(v.flushed, v.current)
    BY <1>7 DEF BlocksOf
  <2>2. Laid(Append(v.flushed, Append(v.current, k)), v.index, keys \cup {k})
    BY <1>2, <1>4, <1>7, <2>1, LaidExtends
  <2> QED
    BY <1>3, <1>5, <1>7, <2>2
<1> QED
  BY <1>6, <1>7

LEMMA AddTiles ==
  ASSUME LengthsAreNat, NEW w \in BlocksRec, NEW keys \in SUBSET Key, Laid(BlocksOf(w), w.index, keys),
         NEW data, Tiled(w, data),
         NEW k \in Key, NEW e \in Entry, data[k] = e, NEW x, x = AddToBlock(w, k, e)
  PROVE  Tiled(x, data)
<1> DEFINE full == w.len + EncodedLen(k, e) > BlockSize
<1>1. PICK v : v = IF full THEN FlushBlock(w) ELSE w
  OBVIOUS
<1>2. v \in BlocksRec /\ Laid(BlocksOf(v), v.index, keys) /\ Tiled(v, data)
  BY <1>1, FlushLays, FlushTiles
<1>3. v.current # <<>> => v = w /\ w.len + EncodedLen(k, e) <= BlockSize
  <2>1. w.len \in Nat /\ EncodedLen(k, e) \in Nat /\ BlockSize \in Nat
    BY LengthTypes, SSTableAssumption DEF BlocksRec
  <2>2. ~full => w.len + EncodedLen(k, e) <= BlockSize
    BY <2>1
  <2>3. full => v.current = <<>>
    BY <1>1, FlushLays
  <2> HIDE DEF full
  <2> QED
    BY <1>1, <2>2, <2>3
<1>4. /\ x.flushed = v.flushed /\ x.current = Append(v.current, k)
      /\ x.len = v.len + EncodedLen(k, e) /\ x.position = v.position
      /\ x.index = IF v.current # <<>> THEN v.index ELSE Append(v.index, Opening(k, v))
  BY <1>1, AddToBlockParts
<1> HIDE DEF full
<1> DEFINE n == Len(v.flushed)
<1>5. /\ v.flushed \in Seq(Seq(Key)) /\ v.current \in Seq(Key) /\ v.index \in Seq(IndexEntry)
      /\ n \in Nat /\ DOMAIN v.flushed = 1..n /\ v.len \in Nat /\ v.position \in Nat
      /\ DOMAIN v.index = 1..Len(v.index)
      /\ Len(v.index) = IF v.current = <<>> THEN n ELSE n + 1
  BY <1>2, BlocksOfFacts
<1> HIDE DEF n
<1>6. x.len = BytesOf(x.current, data)
  <2>1. BytesOf(Append(v.current, k), data) = BytesOf(v.current, data) + EncodedLen(k, e)
    BY <1>5, BytesOfAppend
  <2> QED
    BY <1>2, <1>4, <2>1 DEF Tiled
<1>7. Fits(x.current, data)
  <2>1. CASE v.current = <<>>
    <3>1. Len(Append(v.current, k)) = 1
      BY <2>1
    <3> QED
      BY <1>4, <3>1 DEF Fits
  <2>2. CASE v.current # <<>>
    <3>1. x.len <= BlockSize
      BY <1>3, <1>4, <2>2
    <3> QED
      BY <1>6, <3>1 DEF Fits
  <2> QED
    BY <2>1, <2>2
<1>8. \A i \in 1..n : x.index[i].size = StoredLen(BytesOf(v.flushed[i], data)) /\ Fits(v.flushed[i], data)
  <2>1. \A i \in 1..n : x.index[i] = v.index[i]
    <3>1. CASE v.current = <<>>
      BY <1>4, <1>5, <3>1, SeqAppend DEF Opening, IndexEntry
    <3>2. CASE v.current # <<>>
      BY <1>4, <3>2
    <3> QED
      BY <3>1, <3>2
  <2> QED
    BY <1>2, <1>5, <2>1 DEF Tiled
<1>9. \A i \in DOMAIN x.index : x.index[i].offset = StoredBefore(v.flushed, i, data)
  <2>1. \A i \in DOMAIN v.index : v.index[i].offset = StoredBefore(v.flushed, i, data)
    BY <1>2 DEF Tiled
  <2>2. v.position = StoredBefore(v.flushed, n + 1, data)
    BY <1>2 DEF Tiled, n
  <2>3. CASE v.current = <<>>
    <3>1. Opening(k, v) \in IndexEntry /\ Opening(k, v).offset = v.position
      BY <1>5 DEF Opening, IndexEntry
    <3>2. PICK o \in IndexEntry : o = Opening(k, v)
      BY <3>1
    <3>3. /\ x.index = Append(v.index, o) /\ o.offset = v.position
          /\ DOMAIN v.index = 1..n /\ Len(v.index) = n
      BY <1>4, <1>5, <2>3, <3>1, <3>2
    <3>4. /\ Len(x.index) = n + 1 /\ x.index \in Seq(IndexEntry) /\ x.index[n + 1] = o
          /\ \A i \in 1..n : x.index[i] = v.index[i]
      BY <1>5, <3>3, SeqAppend
    <3>5. DOMAIN x.index = 1..(n + 1) /\ \A i \in 1..(n + 1) : i \in 1..n \/ i = n + 1
      BY <1>5, <3>4
    <3> QED
      BY <2>1, <2>2, <3>3, <3>4, <3>5
  <2>4. CASE v.current # <<>>
    BY <1>4, <2>1, <2>4
  <2> QED
    BY <2>3, <2>4
<1>10. x.position = StoredBefore(v.flushed, n + 1, data)
  BY <1>2, <1>4 DEF Tiled, n
<1> QED
  BY <1>4, <1>5, <1>6, <1>7, <1>8, <1>9, <1>10 DEF Tiled, n

-----------------------------------------------------------------------------
(* An ascending sequence of all keys of a set is the set, sorted.           *)
LEMMA AscendingRanks ==
  ASSUME NEW keys \in SUBSET Nat, NEW s \in Seq(keys), Ascends(s),
         \A k \in keys : \E i \in DOMAIN s : s[i] = k
  PROVE  /\ IsFiniteSet(keys) /\ Cardinality(keys) = Len(s)
         /\ \A i \in DOMAIN s : Rank(keys, s[i]) = i - 1
<1> DEFINE n == Len(s)
           upto(m) == {s[j] : j \in 1..m}
<1>1. n \in Nat /\ DOMAIN s = 1..n /\ \A i \in 1..n : s[i] \in keys /\ s[i] \in Nat
  <2>1. n \in Nat /\ DOMAIN s = 1..n /\ \A i \in 1..n : s[i] \in keys
    OBVIOUS
  <2>2. \A k \in keys : k \in Nat
    OBVIOUS
  <2> QED
    BY <2>1, <2>2
<1>2. \A i, j \in 1..n : s[i] = s[j] => i = j
  <2> SUFFICES ASSUME NEW i \in 1..n, NEW j \in 1..n, s[i] = s[j], i < j PROVE FALSE
    BY <1>1
  <2>1. s[i] < s[j]
    BY <1>1 DEF Ascends
  <2> QED
    BY <1>1, <2>1
<1> HIDE DEF n
<1>3. ASSUME NEW m \in 0..n
      PROVE  IsFiniteSet(upto(m)) /\ Cardinality(upto(m)) = m
  <2> DEFINE f == [j \in 1..m |-> s[j]]
  <2>1. f \in Bijection(1..m, upto(m))
    <3>1. \A j \in 1..m : j \in 1..n
      BY <1>1
    <3>2. f \in [1..m -> upto(m)]
      OBVIOUS
    <3>3. \A i, j \in 1..m : f[i] = f[j] => i = j
      BY <1>2, <3>1
    <3>4. \A t \in upto(m) : \E j \in 1..m : f[j] = t
      OBVIOUS
    <3> HIDE DEF f, upto
    <3> QED
      BY <3>2, <3>3, <3>4 DEF Bijection, Injection, Surjection, IsInjective
  <2>2. m \in Nat /\ IsFiniteSet(1..m) /\ Cardinality(1..m) = m
    <3>1. 1 \in Int /\ m \in Int /\ m \in Nat
      BY <1>1
    <3>2. IsFiniteSet(1..m) /\ Cardinality(1..m) = IF 1 > m THEN 0 ELSE m - 1 + 1
      BY <3>1, FS_Interval
    <3> QED
      BY <3>1, <3>2
  <2> HIDE DEF f, upto
  <2>3. ExistsBijection(1..m, upto(m))
    BY <2>1 DEF ExistsBijection
  <2> QED
    BY <2>2, <2>3, FS_Bijection
<1>4. keys = upto(n)
  BY <1>1
<1>5. IsFiniteSet(keys) /\ Cardinality(keys) = n
  <2>1. n \in 0..n
    BY <1>1
  <2> HIDE DEF upto
  <2> QED BY <1>3, <1>4, <2>1
<1>6. ASSUME NEW i \in 1..n
      PROVE  Rank(keys, s[i]) = i - 1
  <2>1. {k \in keys : k < s[i]} = upto(i - 1)
    <3>1. \A j \in 1..n : s[j] < s[i] <=> j \in 1..(i - 1)
      <4> SUFFICES ASSUME NEW j \in 1..n PROVE s[j] < s[i] <=> j \in 1..(i - 1)
        OBVIOUS
      <4>1. (j < i => s[j] < s[i]) /\ (i < j => s[i] < s[j])
        BY <1>1 DEF Ascends
      <4>2. i \in Nat /\ j \in Nat /\ j >= 1 /\ s[i] \in Nat /\ s[j] \in Nat /\ (i = j => s[i] = s[j])
        BY <1>1
      <4> QED
        BY <4>1, <4>2
    <3>2. \A j \in 1..(i - 1) : j \in 1..n
      BY <1>1
    <3> QED
      BY <1>1, <3>1, <3>2
  <2>2. i - 1 \in 0..n
    BY <1>1
  <2> HIDE DEF upto
  <2> QED
    BY <1>3, <2>1, <2>2 DEF Rank
<1> QED
  BY <1>1, <1>5, <1>6 DEF n

LEMMA AscendingIsSorted ==
  ASSUME NEW keys \in SUBSET Nat, NEW s \in Seq(keys), Ascends(s),
         \A k \in keys : \E i \in DOMAIN s : s[i] = k
  PROVE  s = Sorted(keys)
<1> DEFINE n == Len(s)
           t == Sorted(keys)
<1>1. /\ IsFiniteSet(keys) /\ Cardinality(keys) = n /\ n \in Nat /\ DOMAIN s = 1..n
      /\ \A i \in 1..n : s[i] \in keys /\ Rank(keys, s[i]) = i - 1
  <2>1. n \in Nat /\ DOMAIN s = 1..n /\ \A i \in 1..n : s[i] \in keys
    OBVIOUS
  <2> QED
    BY <2>1, AscendingRanks
<1>2. t \in Seq(keys) /\ Len(t) = n
  BY <1>1, SortedFacts
<1>3. DOMAIN t = 1..n /\ Ascends(t) /\ \A k \in keys : \E i \in DOMAIN t : t[i] = k
  <2>1. DOMAIN t = 1..n
    BY <1>2
  <2> QED
    BY <1>1, <2>1, SortedFacts DEF Ascends
<1> HIDE DEF t
<1>4. \A i \in 1..n : t[i] \in keys /\ Rank(keys, t[i]) = i - 1
  BY <1>2, <1>3, AscendingRanks
<1> HIDE DEF n
<1>5. ASSUME NEW i \in 1..n
      PROVE  s[i] = t[i]
  <2>1. PICK a \in keys : a = s[i]
    BY <1>1
  <2>2. PICK b \in keys : b = t[i]
    BY <1>4
  <2>3. Rank(keys, a) = i - 1 /\ Rank(keys, b) = i - 1 /\ i - 1 \in Int
    BY <1>1, <1>4, <2>1, <2>2
  <2>4. a \in Nat /\ b \in Nat /\ keys \subseteq Nat
    OBVIOUS
  <2>5. (a < b => Rank(keys, a) < Rank(keys, b)) /\ (b < a => Rank(keys, b) < Rank(keys, a))
    BY <1>1, <2>4, RankOrdered
  <2> QED
    BY <2>1, <2>2, <2>3, <2>4, <2>5
<1> QED
  BY <1>1, <1>2, <1>5, SeqEqual DEF n, t

-----------------------------------------------------------------------------
(* The writer after all entries of a map, before its last block goes out.   *)
WrittenBlocks(data) ==
  FoldLeft(LAMBDA w, k : AddToBlock(w, k, data[k]), NewBlocks, Sorted(KeysOf(data)))

AddKey(i, w, c) == AddToBlock(w, c.keys[i], c.data[c.keys[i]])
Adding == INSTANCE FoldProofs WITH Op <- AddKey, Pick <- Max
AddsOf(data) == [keys |-> Sorted(KeysOf(data)), data |-> data]

LEMMA WrittenBlocksIsFold ==
  ASSUME NEW data, NEW keys, keys = Sorted(KeysOf(data))
  PROVE  WrittenBlocks(data) = Adding!Fold(DOMAIN keys, NewBlocks, AddsOf(data))
BY DEF WrittenBlocks, FoldLeft, MapThenFoldSet, Adding!Fold, Adding!Unfolds, AddKey, AddsOf

LEMMA SortedKeys ==
  ASSUME NEW data \in EntryMap, NEW s, s = Sorted(KeysOf(data)), NEW n, n = Cardinality(KeysOf(data))
  PROVE  /\ KeysOf(data) \in SUBSET Key /\ KeysOf(data) \in SUBSET Nat
         /\ n \in Nat /\ s \in Seq(KeysOf(data)) /\ s \in Seq(Key) /\ Len(s) = n /\ DOMAIN s = 1..n
         /\ \A i \in 1..n : s[i] \in KeysOf(data) /\ s[i] \in Key /\ data[s[i]] \in Entry
         /\ \A i, j \in 1..n : i < j => s[i] < s[j]
         /\ \A k \in KeysOf(data) : \E i \in 1..n : s[i] = k
<1>1. KeysOf(data) \in SUBSET Key /\ KeysOf(data) \in SUBSET Nat /\ IsFiniteSet(KeysOf(data)) /\ n \in Nat
  BY KeysFinite, LsmDataAssumption DEF KeysOf
<1>2. \A k \in KeysOf(data) : k \in Key /\ data[k] \in Entry
  BY DEF KeysOf, EntryMap
<1>3. /\ s \in Seq(KeysOf(data)) /\ Len(s) = n
      /\ \A i, j \in 1..n : i < j => s[i] < s[j]
      /\ \A k \in KeysOf(data) : \E i \in 1..n : s[i] = k
  BY <1>1, SortedFacts
<1>4. DOMAIN s = 1..n /\ \A i \in 1..n : s[i] \in KeysOf(data)
  BY <1>3
<1>5. s \in Seq(Key)
  BY <1>1, <1>3, SeqMonotonic
<1> QED
  BY <1>1, <1>2, <1>3, <1>4, <1>5

LEMMA NewBlocksLaid ==
  ASSUME NEW data
  PROVE  /\ NewBlocks \in BlocksRec /\ Laid(BlocksOf(NewBlocks), NewBlocks.index, {})
         /\ Tiled(NewBlocks, data)
<1>1. /\ NewBlocks.flushed = <<>> /\ NewBlocks.current = <<>> /\ NewBlocks.len = 0
      /\ NewBlocks.index = <<>> /\ NewBlocks.position = 0 /\ NewBlocks \in BlocksRec
  BY DEF NewBlocks, BlocksRec
<1>2. BlocksOf(NewBlocks) = <<>>
  BY <1>1 DEF BlocksOf
<1>3. DOMAIN <<>> = {} /\ Len(<<>>) = 0 /\ <<>> \in Seq(Seq(Key))
  OBVIOUS
<1>4. StoredBefore(<<>>, Len(<<>>) + 1, data) = 0
  <2>1. StoredBefore(<<>>, 1, data) = 0
    BY <1>3, StoredBeforeNext
  <2>2. Len(<<>>) + 1 = 1
    OBVIOUS
  <2> QED
    BY <2>1, <2>2
<1> QED
  BY <1>1, <1>2, <1>3, <1>4, BytesOfNone DEF Laid, Tiled

(* Adding the keys one by one lays out all of them.                         *)
LEMMA WrittenLaid ==
  ASSUME LengthsAreNat, NEW data \in EntryMap, NEW w, w = WrittenBlocks(data)
  PROVE  w \in BlocksRec /\ Laid(BlocksOf(w), w.index, KeysOf(data)) /\ Tiled(w, data)
<1> DEFINE s == Sorted(KeysOf(data))
           n == Cardinality(KeysOf(data))
           c == AddsOf(data)
           at(i) == Adding!Fold(1..i, NewBlocks, c)
           seen(i) == {s[j] : j \in 1..i}
           Sound(v, keys) == /\ v \in BlocksRec /\ Laid(BlocksOf(v), v.index, keys) /\ Tiled(v, data)
           Good == {i \in Nat : Sound(at(i), seen(i))}
<1>1. /\ KeysOf(data) \in SUBSET Key /\ n \in Nat /\ DOMAIN s = 1..n
      /\ \A i \in 1..n : s[i] \in KeysOf(data) /\ s[i] \in Key /\ data[s[i]] \in Entry
      /\ \A i, j \in 1..n : i < j => s[i] < s[j]
      /\ \A k \in KeysOf(data) : \E i \in 1..n : s[i] = k
  BY SortedKeys
<1>2. /\ at(0) = NewBlocks
      /\ \A i \in 0..(n - 1) : at(i + 1) = AddToBlock(at(i), s[i + 1], data[s[i + 1]])
  <2>1. /\ Adding!Fold(1..0, NewBlocks, c) = NewBlocks
        /\ \A i \in 0..(n - 1) : Adding!Fold(1..(i + 1), NewBlocks, c)
                                   = AddKey(i + 1, Adding!Fold(1..i, NewBlocks, c), c)
    <3> HIDE DEF s, c
    <3> QED
      BY <1>1, MaxPicks, Adding!FoldInterval
  <2>2. \A i : \A v : AddKey(i, v, c) = AddToBlock(v, s[i], data[s[i]])
    BY DEF AddKey, AddsOf
  <2> HIDE DEF s, c
  <2> QED
    BY <2>1, <2>2
<1>3. w = at(n)
  BY <1>1, WrittenBlocksIsFold
<1> HIDE DEF s, n, at
<1>4. 0 \in Good
  <2>1. seen(0) = {}
    OBVIOUS
  <2> QED
    BY <1>2, <2>1, NewBlocksLaid
<1>5. \A i \in 0..(n - 1) : i \in Good => i + 1 \in Good
  <2> SUFFICES ASSUME NEW i \in 0..(n - 1), Sound(at(i), seen(i)) PROVE i + 1 \in Good
    OBVIOUS
  <2> DEFINE k == s[i + 1]
  <2>1. i \in Nat /\ i + 1 \in 1..n /\ \A j \in 1..i : j \in 1..n /\ j < i + 1
    BY <1>1
  <2>2. k \in Key /\ data[k] \in Entry /\ \A j \in seen(i) : j < k
    BY <1>1, <2>1
  <2>3. seen(i) \in SUBSET Key
    BY <1>1, <2>1
  <2>4. seen(i + 1) = seen(i) \cup {k}
    <3>1. 1..(i + 1) = (1..i) \cup {i + 1}
      BY <2>1
    <3> QED
      BY <3>1
  <2>5. at(i + 1) = AddToBlock(at(i), k, data[k])
    BY <1>2
  <2> HIDE DEF seen, k
  <2>6. at(i + 1) \in BlocksRec /\ Laid(BlocksOf(at(i + 1)), at(i + 1).index, seen(i) \cup {k})
    BY <2>2, <2>3, <2>5, AddLays
  <2>7. Tiled(at(i + 1), data)
    BY <2>2, <2>3, <2>5, AddTiles
  <2>8. Sound(at(i + 1), seen(i + 1))
    BY <2>4, <2>6, <2>7
  <2>9. i + 1 \in Nat
    BY <2>1
  <2> HIDE DEF Sound
  <2> QED
    BY <2>8, <2>9
<1>6. Sound(at(n), seen(n))
  <2> HIDE DEF Good
  <2>1. n \in Good
    <3>1. \A i \in 0..n : i \in Good
      BY <1>1, <1>4, <1>5, NatInterval
    <3> QED BY <1>1, <3>1
  <2> QED
    BY <2>1 DEF Good
<1>7. seen(n) = KeysOf(data)
  BY <1>1
<1> QED
  BY <1>3, <1>6, <1>7

LEMMA BuiltIsFlushed == ASSUME NEW data PROVE Built(data) = FlushBlock(WrittenBlocks(data))
BY DEF Built, WrittenBlocks

LEMMA BuiltLaid ==
  ASSUME LengthsAreNat, NEW data \in EntryMap, NEW b, b = Built(data)
  PROVE  /\ b \in BlocksRec /\ b.current = <<>> /\ Tiled(b, data)
         /\ Laid(b.flushed, b.index, KeysOf(data))
<1>1. PICK w : w = WrittenBlocks(data)
  OBVIOUS
<1>2. w \in BlocksRec /\ Laid(BlocksOf(w), w.index, KeysOf(data)) /\ Tiled(w, data)
  BY <1>1, WrittenLaid
<1>3. b = FlushBlock(w)
  BY <1>1, BuiltIsFlushed
<1> QED
  BY <1>2, <1>3, FlushLays, FlushTiles

-----------------------------------------------------------------------------
(* The blocks that begin at or below a key are an initial segment, so that  *)
(* their number is that of the last of them: the one that has the key, if   *)
(* any block has it.                                                        *)
LEMMA InitialSegment ==
  ASSUME NEW n \in Nat, NEW S, S \subseteq 1..n, \A i \in S : \A j \in 1..n : j < i => j \in S
  PROVE  Cardinality(S) \in 0..n /\ S = 1..Cardinality(S)
<1>1. \E m \in 0..n : S = 1..m
  <2>1. CASE S = {}
    <3>1. 1..0 = {} /\ 0 \in 0..n
      OBVIOUS
    <3> QED
      BY <2>1, <3>1
  <2>2. CASE S # {}
    <3>1. Max(S) \in S /\ \A x \in S : x <= Max(S)
      BY <2>2, MaxPicks
    <3>2. PICK m \in S : \A x \in S : x <= m
      BY <3>1
    <3>3. m \in 0..n /\ S = 1..m
      <4>1. \A j \in 1..n : j \in S <=> j <= m
        BY <3>2
      <4>2. m \in 1..n /\ m \in 0..n
        OBVIOUS
      <4>3. \A j \in 1..m : j \in 1..n /\ j <= m
        BY <4>2
      <4>4. S \subseteq 1..m
        <5>1. \A j \in 1..n : j <= m => j \in 1..m
          BY <4>2
        <5> QED
          BY <4>1, <5>1
      <4> QED
        BY <4>1, <4>2, <4>3, <4>4
    <3> QED
      BY <3>3
  <2> QED
    BY <2>1, <2>2
<1>2. PICK m \in 0..n : S = 1..m
  BY <1>1
<1>3. Cardinality(1..m) = m
  <2>1. 1 \in Int /\ m \in Int /\ m \in Nat
    OBVIOUS
  <2>2. Cardinality(1..m) = IF 1 > m THEN 0 ELSE m - 1 + 1
    BY <2>1, FS_Interval
  <2> QED
    BY <2>1, <2>2
<1> QED
  BY <1>2, <1>3

LEMMA IndexAscends ==
  ASSUME NEW blocks \in Seq(Seq(Key)), NEW index \in Seq(IndexEntry), NEW keys,
         Laid(blocks, index, keys)
  PROVE  /\ Len(index) \in Nat /\ DOMAIN index = 1..Len(index) /\ DOMAIN blocks = DOMAIN index
         /\ \A i \in DOMAIN index : index[i].key \in Key /\ index[i].key \in Nat
         /\ \A i, j \in DOMAIN index : i < j => index[i].key < index[j].key
<1>1. Len(index) \in Nat /\ DOMAIN index = 1..Len(index) /\ DOMAIN blocks = DOMAIN index
  BY DEF Laid
<1>2. \A i \in DOMAIN index : index[i].key \in Key /\ index[i].key \in Nat
  <2>1. \A i \in DOMAIN index : index[i] \in IndexEntry
    OBVIOUS
  <2>2. \A i \in DOMAIN index : index[i].key \in Key
    BY <2>1 DEF IndexEntry
  <2>3. \A k \in Key : k \in Nat
    BY LsmDataAssumption
  <2> QED
    BY <2>2, <2>3
<1>3. \A i \in DOMAIN blocks : 1 \in DOMAIN blocks[i]
  <2> SUFFICES ASSUME NEW i \in DOMAIN blocks PROVE 1 \in DOMAIN blocks[i]
    OBVIOUS
  <2>1. PICK b \in Seq(Key) : b = blocks[i]
    OBVIOUS
  <2>2. b # <<>>
    BY <2>1 DEF Laid
  <2> QED
    BY <2>1, <2>2
<1>4. \A i, j \in DOMAIN index : i < j => index[i].key < index[j].key
  BY <1>1, <1>3 DEF Laid, Precedes
<1> QED
  BY <1>1, <1>2, <1>4

(* The block that find_block_for_key names divides the index: blocks up to  *)
(* it begin at or below the key, later ones above, and no other block has   *)
(* the key.                                                                 *)
Divides(f, index, blocks, key) ==
  /\ f \in 0..Len(index) /\ DOMAIN blocks = DOMAIN index
  /\ \A i \in DOMAIN index : index[i].key <= key <=> i <= f
  /\ \A i \in DOMAIN blocks : Contains(blocks[i], key) => i = f

LEMMA FindBlockFacts ==
  ASSUME NEW blocks \in Seq(Seq(Key)), NEW index \in Seq(IndexEntry), NEW keys,
         Laid(blocks, index, keys), NEW key \in Nat
  PROVE  Divides(FindBlock(index, key), index, blocks, key)
<1> DEFINE n == Len(index)
<1>0. PICK f : f = FindBlock(index, key)
  OBVIOUS
<1>1. /\ n \in Nat /\ DOMAIN index = 1..n /\ DOMAIN blocks = 1..n
      /\ \A i \in 1..n : index[i].key \in Nat
      /\ \A i, j \in 1..n : i < j => index[i].key < index[j].key
  BY IndexAscends
<1> HIDE DEF n
<1>2. PICK first \in [1..n -> Nat] : first = [i \in 1..n |-> index[i].key]
  BY <1>1
<1>3. \A i \in 1..n : index[i].key = first[i]
  BY <1>2
<1> DEFINE S == {i \in 1..n : first[i] <= key}
<1>4. f = Cardinality(S)
  <2>1. {i \in DOMAIN index : index[i].key <= key} = S
    BY <1>1, <1>3
  <2> QED
    BY <1>0, <2>1 DEF FindBlock
<1>7. f \in 0..n /\ S = 1..f
  <2>1. ASSUME NEW i \in S, NEW j \in 1..n, j < i PROVE j \in S
    <3>1. i \in 1..n /\ first[i] <= key /\ first[i] \in Nat /\ first[j] \in Nat
      OBVIOUS
    <3>2. first[j] < first[i]
      BY <1>1, <1>3, <2>1, <3>1
    <3> QED
      BY <3>1, <3>2
  <2>2. S \subseteq 1..n
    OBVIOUS
  <2> HIDE DEF S
  <2>3. \A i \in S : \A j \in 1..n : j < i => j \in S
    BY <2>1
  <2>4. Cardinality(S) \in 0..n /\ S = 1..Cardinality(S)
    BY <1>1, <2>2, <2>3, InitialSegment
  <2> QED
    BY <1>4, <2>4
<1>8. \A i \in 1..n : first[i] <= key <=> i <= f
  <2>1. \A i \in 1..n : i \in S <=> i \in 1..f
    BY <1>7
  <2>2. \A i \in 1..n : i \in 1..f <=> i <= f
    BY <1>1, <1>7
  <2> QED
    BY <2>1, <2>2
<1> HIDE DEF S
<1>5. \A i \in DOMAIN index : index[i].key <= key <=> i <= f
  BY <1>1, <1>3, <1>8
<1>6. ASSUME NEW i \in 1..n, Contains(blocks[i], key)
      PROVE  i = f
  <2>1. PICK b \in Seq(Key) : b = blocks[i]
    BY <1>1
  <2>2. PICK j \in 1..Len(b) : b[j] = key
    BY <1>6, <2>1 DEF Contains
  <2>3. 1 \in DOMAIN b /\ j \in DOMAIN b /\ b[1] \in Nat /\ index[i].key = b[1] /\ Ascends(b)
    <3>1. 1 \in DOMAIN b /\ j \in DOMAIN b /\ b[1] \in Key
      BY <2>2
    <3> QED
      BY <1>1, <2>1, <3>1, LsmDataAssumption DEF Laid
  <2>4. b[1] <= key
    <3>1. j = 1 \/ 1 < j
      BY <2>2
    <3>2. 1 < j => b[1] < b[j]
      BY <2>3 DEF Ascends
    <3> QED
      BY <2>2, <2>3, <3>1, <3>2
  <2>5. i <= f
    BY <1>3, <1>8, <2>3, <2>4
  <2>6. ~(i < f)
    <3> SUFFICES ASSUME i < f PROVE FALSE
      OBVIOUS
    <3>1. f \in 1..n
      BY <1>1, <1>7
    <3>2. PICK c \in Seq(Key) : c = blocks[f]
      BY <1>1, <3>1
    <3>3. c # <<>> /\ index[f].key = c[1] /\ Precedes(b, c)
      BY <1>1, <2>1, <3>1, <3>2 DEF Laid
    <3>4. 1 \in DOMAIN c
      BY <3>3
    <3>5. key < c[1]
      BY <2>2, <2>3, <3>3, <3>4 DEF Precedes
    <3>6. first[f] <= key /\ first[f] \in Nat /\ c[1] = first[f]
      <4>1. f <= f
        BY <1>1, <3>1
      <4> QED
        BY <1>3, <1>8, <3>1, <3>3, <4>1
    <3> QED
      BY <3>5, <3>6
  <2> QED
    BY <1>1, <1>7, <2>5, <2>6
<1> QED
  BY <1>0, <1>1, <1>5, <1>6, <1>7 DEF n, Divides

LEMMA FindBlockDivides ==
  ASSUME LengthsAreNat, NEW data \in EntryMap, NEW key \in Nat, NEW b, b = Built(data)
  PROVE  Divides(FindBlock(b.index, key), b.index, b.flushed, key)
<1>1. b.flushed \in Seq(Seq(Key)) /\ b.index \in Seq(IndexEntry) /\ Laid(b.flushed, b.index, KeysOf(data))
  BY BuiltLaid DEF BlocksRec
<1> QED
  BY <1>1, FindBlockFacts

(* The block that a lookup reads has the key if any block has it.           *)
LEMMA FindsKey ==
  ASSUME LengthsAreNat, NEW data \in EntryMap, NEW k \in Key, NEW b, b = Built(data),
         NEW f, f = FindBlock(b.index, k)
  PROVE  IF f = 0 THEN k \notin KeysOf(data)
         ELSE f \in DOMAIN b.flushed /\ (Contains(b.flushed[f], k) <=> k \in KeysOf(data))
<1>1. b.flushed \in Seq(Seq(Key)) /\ b.index \in Seq(IndexEntry) /\ Laid(b.flushed, b.index, KeysOf(data))
  BY BuiltLaid DEF BlocksRec
<1>2. k \in Nat
  BY LsmDataAssumption
<1>3. f \in 0..Len(b.index) /\ \A i \in DOMAIN b.flushed : Contains(b.flushed[i], k) => i = f
  BY <1>2, FindBlockDivides DEF Divides
<1>5. Len(b.index) \in Nat /\ DOMAIN b.flushed = 1..Len(b.index)
  BY <1>1, IndexAscends
<1>6. ASSUME k \in KeysOf(data) PROVE f # 0 /\ Contains(b.flushed[f], k)
  <2>1. PICK i \in DOMAIN b.flushed : Contains(b.flushed[i], k)
    BY <1>1, <1>6 DEF Laid
  <2> QED
    BY <1>3, <1>5, <2>1
<1>7. f # 0 => f \in DOMAIN b.flushed
  BY <1>3, <1>5
<1>8. ASSUME f # 0, Contains(b.flushed[f], k) PROVE k \in KeysOf(data)
  <2>1. f \in DOMAIN b.flushed
    BY <1>7, <1>8
  <2>2. Drawn(b.flushed[f], KeysOf(data)) /\ b.flushed[f] \in Seq(Key)
    BY <1>1, <2>1 DEF Laid
  <2> QED
    BY <1>8, <2>2 DEF Drawn, Contains
<1> QED
  BY <1>6, <1>7, <1>8

(* What a lookup in a table answers: the reader's only entry or an error.   *)
LEMMA TableGetIs ==
  ASSUME NEW data, NEW k, NEW compression, NEW b, b = Built(data)
  PROVE  TableGet(data, k, compression) =
           IF MightContain(k) THEN GetIn(b, data, k, compression) ELSE None
<1>1. PICK e : e = GetIn(b, data, k, compression)
  OBVIOUS
<1>2. {GetIn(built, data, k, compression) : built \in {Built(data)}} = {e}
  BY <1>1
<1> HIDE <1>1
<1>3. (CHOOSE x \in {e} : TRUE) = e
  OBVIOUS
<1> QED
  BY <1>1, <1>2, <1>3 DEF TableGet

(* What a reader without a filter finds in a table is what the table was    *)
(* built from: of a key that it was given, the entry; of any other key,     *)
(* nothing.  If the one block that may have the key cannot be read, it      *)
(* finds that out and says so.                                              *)
THEOREM TableGetFinds ==
  ASSUME LengthsAreNat, ~BloomLoaded, NEW data \in EntryMap, NEW k \in Key, NEW compression,
         NEW b, b = Built(data), NEW f, f = FindBlock(b.index, k)
  PROVE  TableGet(data, k, compression) =
           IF f # 0 /\ ~Decodable(data, b.flushed[f], compression) THEN Unreadable ELSE data[k]
<1>1. TableGet(data, k, compression) = GetIn(b, data, k, compression)
  BY TableGetIs DEF MightContain
<1>2. IF f = 0 THEN k \notin KeysOf(data)
      ELSE f \in DOMAIN b.flushed /\ (Contains(b.flushed[f], k) <=> k \in KeysOf(data))
  BY FindsKey
<1>3. k \notin KeysOf(data) => data[k] = None
  BY DEF KeysOf
<1>4. PICK readable \in BOOLEAN : readable = Decodable(data, b.flushed[f], compression)
  BY DEF Decodable
<1>5. PICK has \in BOOLEAN : has = Contains(b.flushed[f], k)
  BY DEF Contains
<1>6. GetIn(b, data, k, compression) =
        IF f = 0 THEN None ELSE IF ~readable THEN Unreadable ELSE IF has THEN data[k] ELSE None
  BY <1>4, <1>5 DEF GetIn, InItsBlock
<1> QED
  BY <1>1, <1>2, <1>3, <1>4, <1>5, <1>6

(* So a lookup of a key that the table has finds it or reports its block;   *)
(* with None and Lz4 it always finds it.                                    *)
LEMMA TableGetHas ==
  ASSUME LengthsAreNat, ~BloomLoaded, NEW data \in EntryMap, NEW k \in Key, NEW compression,
         NEW b, b = Built(data), NEW f, f = FindBlock(b.index, k)
  PROVE  /\ TableGet(data, k, compression) \in {data[k], Unreadable}
         /\ compression # "zstd" => TableGet(data, k, compression) = data[k]
         /\ k \in KeysOf(data) =>
              TableGet(data, k, compression) =
                IF Decodable(data, b.flushed[f], compression) THEN data[k] ELSE Unreadable
<1>1. TableGet(data, k, compression) =
        IF f # 0 /\ ~Decodable(data, b.flushed[f], compression) THEN Unreadable ELSE data[k]
  BY TableGetFinds
<1>2. compression # "zstd" => Decodable(data, b.flushed[f], compression)
  BY DEF Decodable
<1>3. k \in KeysOf(data) => f # 0
  BY FindsKey
<1> QED
  BY <1>1, <1>2, <1>3

-----------------------------------------------------------------------------
(* A key above all others comes last, so that adding it to the written      *)
(* blocks is what writing the larger map would have ended with.             *)
LEMMA SortedLast ==
  ASSUME NEW keys \in SUBSET Nat, IsFiniteSet(keys), NEW k \in Nat, \A j \in keys : j < k
  PROVE  Sorted(keys \cup {k}) = Append(Sorted(keys), k)
<1> DEFINE s == Sorted(keys)
           n == Cardinality(keys)
           more == keys \cup {k}
           t == Append(s, k)
<1>1. /\ n \in Nat /\ s \in Seq(keys) /\ Len(s) = n
      /\ \A i, j \in 1..n : i < j => s[i] < s[j]
      /\ \A j \in keys : \E i \in 1..n : s[i] = j
  BY SortedFacts, FS_CardinalityType
<1>2. DOMAIN s = 1..n /\ \A i \in 1..n : s[i] \in keys
  BY <1>1
<1>3. s \in Seq(more) /\ k \in more /\ more \in SUBSET Nat
  BY <1>1, SeqMonotonic
<1> HIDE DEF s, n, more
<1>4. /\ t \in Seq(more) /\ Len(t) = n + 1 /\ t[n + 1] = k
      /\ \A i \in 1..n : t[i] = s[i]
  BY <1>1, <1>3, SeqAppend
<1>5. DOMAIN t = 1..(n + 1) /\ n + 1 \in 1..(n + 1) /\ \A i \in 1..n : i \in 1..(n + 1)
  BY <1>1, <1>4
<1> HIDE DEF t
<1>6. Ascends(t)
  <2> SUFFICES ASSUME NEW i \in 1..(n + 1), NEW j \in 1..(n + 1), i < j PROVE t[i] < t[j]
    BY <1>5 DEF Ascends
  <2>1. i \in 1..n /\ (j \in 1..n \/ j = n + 1)
    BY <1>1
  <2>2. CASE j \in 1..n
    BY <1>1, <1>4, <2>1, <2>2
  <2>3. CASE j = n + 1
    BY <1>2, <1>4, <2>1, <2>3
  <2> QED
    BY <2>1, <2>2, <2>3
<1>7. ASSUME NEW j \in more PROVE \E i \in DOMAIN t : t[i] = j
  <2>1. CASE j = k
    BY <1>4, <1>5, <2>1
  <2>2. CASE j \in keys
    <3>1. PICK i \in 1..n : s[i] = j
      BY <1>1, <2>2
    <3> QED
      BY <1>4, <1>5, <3>1
  <2> QED
    BY <2>1, <2>2 DEF more
<1>8. t = Sorted(more)
  BY <1>3, <1>4, <1>6, <1>7, AscendingIsSorted
<1> QED
  BY <1>8 DEF t, s, more

LEMMA AddIsWritten ==
  ASSUME NEW data \in EntryMap, NEW k \in Key, NEW e \in Entry, \A j \in KeysOf(data) : j < k,
         NEW new, new = [data EXCEPT ![k] = e]
  PROVE  /\ KeysOf(new) = KeysOf(data) \cup {k} /\ new \in EntryMap
         /\ WrittenBlocks(new) = AddToBlock(WrittenBlocks(data), k, e)
<1> DEFINE s == Sorted(KeysOf(data))
           t == Sorted(KeysOf(new))
           n == Cardinality(KeysOf(data))
           c == AddsOf(data)
           d == AddsOf(new)
<1>1. KeysOf(new) = KeysOf(data) \cup {k} /\ new \in EntryMap /\ new[k] = e
      /\ \A j \in Key : j # k => new[j] = data[j]
  BY NoneAssumption DEF KeysOf, EntryMap
<1>2. /\ KeysOf(data) \in SUBSET Nat /\ n \in Nat /\ s \in Seq(Key) /\ Len(s) = n /\ DOMAIN s = 1..n
      /\ \A i \in 1..n : s[i] \in KeysOf(data)
  BY SortedKeys
<1>3. k \in Nat /\ IsFiniteSet(KeysOf(data))
  BY LsmDataAssumption, KeysFinite
<1>4. t = Append(s, k)
  BY <1>1, <1>2, <1>3, SortedLast
<1> HIDE DEF s, t, n
<1>5. /\ DOMAIN t = 1..(n + 1) /\ t[n + 1] = k /\ \A i \in 1..n : t[i] = s[i]
      /\ n + 1 \in Nat /\ n \in 0..((n + 1) - 1)
  <2>1. t \in Seq(Key) /\ Len(t) = n + 1 /\ t[n + 1] = k /\ \A i \in 1..n : t[i] = s[i]
    BY <1>2, <1>4, SeqAppend
  <2> QED
    BY <1>2, <2>1
<1>6. \A i \in 1..n : s[i] \in Key /\ s[i] # k
  <2>1. \A j \in KeysOf(data) : j \in Key /\ j # k
    BY <1>2, <1>3 DEF KeysOf
  <2> QED
    BY <1>2, <2>1
<1>7. Adding!Agree(1..n, d, c)
  <2>1. \A i \in 1..n : t[i] = s[i] /\ new[t[i]] = data[s[i]]
    BY <1>1, <1>5, <1>6
  <2> QED
    BY <2>1 DEF Adding!Agree, AddKey, AddsOf, s, t
<1>8. \A v : AddKey(n + 1, v, d) = AddToBlock(v, k, e)
  BY <1>1, <1>5 DEF AddKey, AddsOf, t
<1>9. Adding!Fold(1..n, NewBlocks, d) = Adding!Fold(1..n, NewBlocks, c)
  <2> HIDE DEF c, d
  <2>1. Adding!IsFiniteSet(1..n) /\ Adding!Picks(1..n)
    <3>1. IsFiniteSet(1..n)
      BY <1>2, FS_Interval
    <3>2. \A T \in SUBSET (1..n) : T # {} => Max(T) \in T
      BY <1>2, MaxPicks
    <3> QED
      BY <3>1, <3>2 DEF IsFiniteSet, Adding!IsFiniteSet, Adding!Picks
  <2> QED
    BY <1>7, <2>1, Adding!FoldCongruence
<1>10. Adding!Fold(1..(n + 1), NewBlocks, d) = AddKey(n + 1, Adding!Fold(1..n, NewBlocks, d), d)
  <2> HIDE DEF c, d
  <2>1. \A i \in 0..((n + 1) - 1) : Adding!Fold(1..(i + 1), NewBlocks, d)
                                      = AddKey(i + 1, Adding!Fold(1..i, NewBlocks, d), d)
    BY <1>5, MaxPicks, Adding!FoldInterval
  <2> QED
    BY <1>5, <2>1
<1>11. /\ WrittenBlocks(data) = Adding!Fold(1..n, NewBlocks, c)
       /\ WrittenBlocks(new) = Adding!Fold(1..(n + 1), NewBlocks, d)
  BY <1>2, <1>5, WrittenBlocksIsFold DEF s, t
<1> QED
  BY <1>1, <1>8, <1>9, <1>10, <1>11

LEMMA NothingWritten == /\ KeysOf(NoEntries) = {} /\ NoEntries \in EntryMap
                        /\ WrittenBlocks(NoEntries) = NewBlocks
<1> DEFINE s == Sorted(KeysOf(NoEntries))
           c == AddsOf(NoEntries)
<1>1. KeysOf(NoEntries) = {} /\ NoEntries \in EntryMap
  BY DEF KeysOf, NoEntries, EntryMap
<1>2. DOMAIN s = 1..0
  <2>1. Cardinality(KeysOf(NoEntries)) = 0
    BY <1>1, FS_EmptySet
  <2> QED
    BY <1>1, <2>1, SortedKeys
<1> HIDE DEF s
<1>3. WrittenBlocks(NoEntries) = Adding!Fold(1..0, NewBlocks, c)
  BY <1>2, WrittenBlocksIsFold DEF s
<1>4. Adding!Fold(1..0, NewBlocks, c) = NewBlocks
  <2>1. 0 \in Nat
    OBVIOUS
  <2> HIDE DEF c
  <2> QED
    BY <2>1, MaxPicks, Adding!FoldInterval
<1> QED
  BY <1>1, <1>3, <1>4


-----------------------------------------------------------------------------
(* Where the loop of a range ends, if nothing has stopped it before block u:*)
(* at u if that is past the length of the end key or begins at or after the *)
(* end; and in a panic at u if there is no such block.                      *)
LEMMA MinIs ==
  ASSUME NEW S \in SUBSET Int, NEW u \in S, \A i \in S : u <= i
  PROVE  Min(S) = u
<1>1. PICK m : m = CHOOSE x \in S : \A y \in S : x <= y
  OBVIOUS
<1>2. m \in S /\ \A y \in S : m <= y
  BY <1>1
<1>3. m \in Int /\ u \in Int /\ m <= u /\ u <= m
  BY <1>2
<1>4. m = u
  BY <1>3
<1> QED
  BY <1>1, <1>4 DEF Min

LEMMA TableRangeIs ==
  ASSUME NEW data, NEW start, NEW end, NEW compression, NEW b, b = Built(data)
  PROVE  TableRange(data, start, end, compression) = RangeIn(b, data, start, end, compression)
BY DEF TableRange

InBlocks(blocks, from, to, keys) == {k \in keys : \E i \in from..to : Contains(blocks[i + 1], k)}

Passes(b, end, first, u) ==
  /\ first \in Nat /\ u \in Nat /\ first <= u /\ KeyLen[end] \in Nat /\ Len(b.index) \in Nat
  /\ \A i \in first..(u - 1) : i < Len(b.index) /\ i < KeyLen[end] /\ ~(b.index[i + 1].key >= end)
StopsAt(b, end, u) == u >= KeyLen[end] \/ (u < Len(b.index) /\ b.index[u + 1].key >= end)

(* One of the blocks before block u cannot be read.                         *)
Broken(b, data, compression, first, u) ==
  \E i \in first..(u - 1) : ~Decodable(data, b.flushed[i + 1], compression)

LEMMA RangeEnds ==
  ASSUME NEW b, NEW data, NEW start, NEW end, NEW compression, NEW first \in Nat,
         first = FirstBlock(b.index, start), NEW u \in Nat, Passes(b, end, first, u)
  PROVE  /\ StopsAt(b, end, u) =>
              /\ ~RangeIn(b, data, start, end, compression).panic
              /\ RangeIn(b, data, start, end, compression).keys
                   = InBlocks(b.flushed, first, u - 1, InRange(data, start, end))
         /\ u < KeyLen[end] /\ u >= Len(b.index) => RangeIn(b, data, start, end, compression).panic
         /\ StopsAt(b, end, u) \/ (u < KeyLen[end] /\ u >= Len(b.index)) =>
              (RangeIn(b, data, start, end, compression).fails
                 <=> Broken(b, data, compression, first, u))
         /\ /\ u < KeyLen[end] /\ u < Len(b.index) /\ ~(b.index[u + 1].key >= end)
            /\ ~Decodable(data, b.flushed[u + 1], compression)
            => RangeIn(b, data, start, end, compression).fails
<1>1. PICK r : r = RangeIn(b, data, start, end, compression)
  OBVIOUS
<1>2. PICK len \in Nat : len = KeyLen[end]
  BY DEF Passes
<1>3. PICK n \in Nat : n = Len(b.index)
  BY DEF Passes
<1>4. /\ first \in Nat /\ u \in Nat /\ first <= u /\ len \in Nat /\ n \in Nat
      /\ \A i \in first..(u - 1) : i < n /\ i < len /\ ~(b.index[i + 1].key >= end)
  BY <1>2, <1>3 DEF Passes
<1> DEFINE stops == {i \in first..(len - 1) : i >= n \/ b.index[i + 1].key >= end}
           last == IF stops = {} THEN len - 1 ELSE Min(stops) - 1
<1>11. /\ r.panic <=> stops # {} /\ Min(stops) >= n
      /\ r.keys = {k \in InRange(data, start, end) :
                     \E i \in first..last : i < n /\ Contains(b.flushed[i + 1], k)}
  BY <1>1, <1>2, <1>3, <1>4 DEF RangeIn
<1>21. r.fails <=> (\E i \in first..last :
                      i < n /\ ~Decodable(data, b.flushed[i + 1], compression))
  BY <1>1, <1>2, <1>3, <1>4 DEF RangeIn
<1>12. \A i \in first..(u - 1) : i \notin stops
  <2> SUFFICES ASSUME NEW i \in first..(u - 1), i \in stops PROVE FALSE
    BY <1>4
  <2>1. i < n /\ ~(b.index[i + 1].key >= end) /\ (i >= n \/ b.index[i + 1].key >= end)
    BY <1>4
  <2>2. ~(i >= n)
    BY <2>1
  <2> QED
    BY <2>1, <2>2
<1>13. stops \in SUBSET Int /\ \A i \in stops : i >= u
  <2>1. \A i \in stops : i \in first..(len - 1)
    BY <1>4
  <2>2. \A i \in first..(len - 1) : i \in Int /\ (i >= u \/ i \in first..(u - 1))
    BY <1>4
  <2> HIDE DEF stops
  <2> QED
    BY <1>12, <2>1, <2>2
<1>14. u < len => u \in first..(len - 1)
  BY <1>4
<1>15. ASSUME u \in stops PROVE stops # {} /\ Min(stops) = u
  <2> HIDE DEF stops
  <2>1. \A i \in stops : u <= i
    BY <1>13
  <2> QED
    BY <1>13, <1>15, <2>1, MinIs
<1>16. ASSUME u < len, u >= n PROVE r.panic /\ \A i : i \in first..last <=> i \in first..(u - 1)
  <2>1. u \in stops
    BY <1>14, <1>16
  <2>2. stops # {} /\ Min(stops) = u
    <3> HIDE DEF stops
    <3> QED
      BY <1>15, <2>1
  <2> HIDE DEF stops
  <2>3. last = u - 1
    BY <2>2
  <2> HIDE DEF last
  <2> QED
    BY <1>11, <1>16, <2>2, <2>3
<1>17. ASSUME u >= len \/ (u < n /\ b.index[u + 1].key >= end)
      PROVE  ~r.panic /\ \A i : i \in first..last <=> i \in first..(u - 1)
  <2>1. CASE u >= len
    <3>1. stops = {}
      <4>1. \A i \in stops : i \in first..(len - 1)
        BY <1>4
      <4>2. \A i \in first..(len - 1) : ~(i >= u)
        BY <2>1
      <4> HIDE DEF stops
      <4> QED
        BY <1>13, <4>1, <4>2
    <3>2. last = len - 1
      BY <3>1
    <3>3. first = u \/ u - 1 \in first..(u - 1)
      BY <1>4
    <3>6. u - 1 \in first..(u - 1) => u - 1 < len
      BY <1>4
    <3>4. first = u \/ u = len
      BY <1>4, <2>1, <3>3, <3>6
    <3>5. \A i : i \in first..(len - 1) <=> i \in first..(u - 1)
      <4>1. CASE u = len
        BY <4>1
      <4>2. CASE first = u
        BY <2>1, <4>2
      <4> QED
        BY <3>4, <4>1, <4>2
    <3> HIDE DEF last, stops
    <3> QED
      BY <1>11, <3>1, <3>2, <3>5
  <2>2. CASE u < len
    <3>1. u \in stops /\ u < n
      BY <1>14, <1>17, <2>2
    <3> HIDE DEF stops
    <3>2. stops # {} /\ Min(stops) = u
      BY <1>15, <3>1
    <3>3. last = u - 1
      BY <3>2
    <3> HIDE DEF last
    <3> QED
      BY <1>11, <3>1, <3>2, <3>3
  <2>3. u >= len \/ u < len
    BY <1>4
  <2> HIDE DEF last, stops
  <2> QED
    BY <2>1, <2>2, <2>3
<1> HIDE DEF last, stops
<1>18. ASSUME u >= len \/ (u < n /\ b.index[u + 1].key >= end)
      PROVE  r.keys = {k \in InRange(data, start, end) :
                         \E i \in first..(u - 1) : Contains(b.flushed[i + 1], k)}
  <2>2. /\ \A i : i \in first..last <=> i \in first..(u - 1)
        /\ \A i \in first..(u - 1) : i < n
    BY <1>4, <1>17, <1>18
  <2>1. \A k : (\E i \in first..last : i < n /\ Contains(b.flushed[i + 1], k))
                 <=> (\E i \in first..(u - 1) : Contains(b.flushed[i + 1], k))
    BY <2>2
  <2> QED
    BY <1>11, <2>1
<1>19. ASSUME \A i : i \in first..last <=> i \in first..(u - 1)
       PROVE  r.fails <=> Broken(b, data, compression, first, u)
  <2>1. \A i \in first..(u - 1) : i < n
    BY <1>4
  <2> QED
    BY <1>19, <1>21, <2>1 DEF Broken
<1>20. ASSUME u < len, u < n, ~(b.index[u + 1].key >= end),
              ~Decodable(data, b.flushed[u + 1], compression)
       PROVE  r.fails
  <2>1. u \notin stops
    <3>1. u \in stops => u >= n \/ b.index[u + 1].key >= end
      BY DEF stops
    <3>2. ~(u >= n)
      BY <1>4, <1>20
    <3> QED
      BY <1>20, <3>1, <3>2
  <2>2. u <= last /\ last \in Int
    <3>1. CASE stops = {}
      <4>1. last = len - 1
        BY <3>1 DEF last
      <4> QED
        BY <1>4, <1>20, <4>1
    <3>2. CASE stops # {}
      <4>1. \A i \in stops : i \in Nat
        BY <1>4, <1>13
      <4>2. PICK m \in stops : \A i \in stops : m <= i
        BY <3>2, <4>1, NatLeast
      <4>3. Min(stops) = m
        BY <1>13, <4>2, MinIs
      <4>4. last = m - 1
        BY <3>2, <4>3 DEF last
      <4>5. m \in Nat /\ m >= u /\ m # u
        BY <1>13, <2>1, <4>1, <4>2
      <4> QED
        BY <1>4, <4>4, <4>5
    <3> QED
      BY <3>1, <3>2
  <2>3. u \in first..last
    BY <1>4, <2>2
  <2> QED
    BY <1>20, <1>21, <2>3
<1> QED
  BY <1>1, <1>2, <1>3, <1>16, <1>17, <1>18, <1>19, <1>20 DEF StopsAt, InBlocks


(* The key range of a table, as its reader takes it from the index: first   *)
(* and last are keys of the table, no key is below the first.               *)
LEMMA IndexBounds ==
  ASSUME LengthsAreNat, NEW data \in EntryMap, KeysOf(data) # {}, NEW index, index = Built(data).index
  PROVE  /\ MinKeyOf(index) \in KeysOf(data) /\ MaxKeyOf(index) \in KeysOf(data)
         /\ \A k \in KeysOf(data) : MinKeyOf(index) <= k
<1>1. PICK b : b = Built(data)
  OBVIOUS
<1>2. /\ b.flushed \in Seq(Seq(Key)) /\ b.index \in Seq(IndexEntry) /\ index = b.index
      /\ Laid(b.flushed, b.index, KeysOf(data))
  BY <1>1, BuiltLaid DEF BlocksRec
<1>3. PICK n \in Nat : n = Len(index) /\ DOMAIN index = 1..n /\ DOMAIN b.flushed = 1..n
  BY <1>2, IndexAscends
<1>4. \A i \in 1..n : index[i].key \in KeysOf(data)
  <2> TAKE i \in 1..n
  <2>1. PICK c \in Seq(Key) : c = b.flushed[i]
    BY <1>2, <1>3
  <2>2. c # <<>> /\ index[i].key = c[1] /\ Drawn(c, KeysOf(data))
    BY <1>2, <1>3, <2>1 DEF Laid
  <2>3. 1 \in DOMAIN c
    BY <2>2
  <2> QED
    BY <2>2, <2>3 DEF Drawn
<1>5. ASSUME NEW k \in KeysOf(data) PROVE 1 \in 1..n /\ index[1].key <= k
  <2>1. k \in Nat
    BY LsmDataAssumption DEF KeysOf
  <2>2. PICK i \in 1..n : Contains(b.flushed[i], k)
    BY <1>2, <1>3 DEF Laid
  <2>3. PICK f : f = FindBlock(index, k)
    OBVIOUS
  <2>4. i = f /\ \A j \in 1..n : index[j].key <= k <=> j <= f
    <3>1. Divides(f, b.index, b.flushed, k)
      BY <1>1, <2>1, <2>3, <1>2, FindBlockDivides
    <3> QED
      BY <1>2, <1>3, <2>2, <3>1 DEF Divides
  <2>5. 1 \in 1..n /\ 1 <= i
    BY <1>3
  <2> QED
    BY <2>4, <2>5
<1>6. 1 \in 1..n /\ n \in 1..n
  BY <1>3, <1>5
<1> QED
  BY <1>3, <1>4, <1>5, <1>6 DEF MinKeyOf, MaxKeyOf


(* A range of a table that has no more blocks than its end key has bytes,   *)
(* which is what the reader takes for the number of blocks: unless it       *)
(* panics, it has all keys of the table from start to before end.           *)
THEOREM RangeReadsAll ==
  ASSUME LengthsAreNat, NEW data \in EntryMap, NEW start \in Key, NEW end \in Key, NEW compression,
         Len(Built(data).index) <= KeyLen[end], ~TableRange(data, start, end, compression).panic
  PROVE  TableRange(data, start, end, compression).keys = InRange(data, start, end)
<1>1. PICK b, r : b = Built(data) /\ r = TableRange(data, start, end, compression)
  OBVIOUS
<1>2. b.flushed \in Seq(Seq(Key)) /\ b.index \in Seq(IndexEntry) /\ Laid(b.flushed, b.index, KeysOf(data))
  BY <1>1, BuiltLaid DEF BlocksRec
<1>3. PICK n \in Nat : /\ n = Len(b.index) /\ DOMAIN b.index = 1..n /\ DOMAIN b.flushed = 1..n
                       /\ \A i \in 1..n : b.index[i].key \in Nat
  BY <1>2, IndexAscends
<1>4. PICK len \in Nat : len = KeyLen[end]
  BY LsmDataAssumption
<1>5. PICK s : s = FindBlock(b.index, start)
  OBVIOUS
<1>6. PICK first : first = FirstBlock(b.index, start)
  OBVIOUS
<1>7. start \in Nat /\ end \in Nat /\ n <= len
  BY <1>1, <1>3, <1>4, LsmDataAssumption
<1>8. s \in 0..n /\ \A i \in 1..n : b.index[i].key <= start <=> i <= s
  <2>1. Divides(s, b.index, b.flushed, start)
    BY <1>1, <1>5, <1>7, FindBlockDivides
  <2> QED
    BY <1>3, <2>1 DEF Divides
<1>9. first \in Nat /\ first = IF s = 0 THEN 0 ELSE s - 1
  <2>1. first = IF s = 0 THEN 0 ELSE s - 1
    BY <1>5, <1>6 DEF FirstBlock
  <2> QED
    BY <1>8, <2>1
<1> DEFINE stops == {i \in first..(len - 1) : i >= n \/ b.index[i + 1].key >= end}
           last == IF stops = {} THEN len - 1 ELSE Min(stops) - 1
<1>10. /\ r.panic <=> stops # {} /\ Min(stops) >= n
       /\ r.keys = {k \in InRange(data, start, end) :
                      \E i \in first..last : i < n /\ Contains(b.flushed[i + 1], k)}
  <2>1. r = RangeIn(b, data, start, end, compression)
    BY <1>1, TableRangeIs
  <2> QED
    BY <1>3, <1>4, <1>6, <2>1 DEF RangeIn
<1>11. last \in Int /\ (last < n - 1 => last + 1 \in 0..(n - 1) /\ b.index[last + 2].key >= end)
  <2>1. CASE stops = {}
    <3>1. last = len - 1
      BY <2>1
    <3> HIDE DEF last
    <3> QED
      BY <1>7, <3>1
  <2>2. CASE stops # {}
    <3>1. \A i \in stops : i \in Nat /\ (i >= n \/ b.index[i + 1].key >= end)
      BY <1>9
    <3>2. last = Min(stops) - 1
      BY <2>2
    <3> HIDE DEF stops, last
    <3>3. PICK m \in stops : \A i \in stops : m <= i
      BY <2>2, <3>1, NatLeast
    <3>4. Min(stops) = m
      BY <3>1, <3>3, MinIs
    <3>5. m < n /\ m \in Nat
      BY <1>1, <1>10, <2>2, <3>1, <3>3, <3>4
    <3>6. b.index[m + 1].key >= end
      BY <3>1, <3>3, <3>5
    <3>7. last \in Int /\ last + 1 = m /\ last + 2 = m + 1
      BY <3>2, <3>4, <3>5
    <3> QED
      BY <3>5, <3>6, <3>7
  <2> QED
    BY <2>1, <2>2
<1> HIDE DEF last, stops
<1>12. ASSUME NEW k \in InRange(data, start, end)
       PROVE  \E i \in first..last : i < n /\ Contains(b.flushed[i + 1], k)
  <2>1. k \in KeysOf(data) /\ k \in Nat /\ start <= k /\ k < end
    BY <1>12, LsmDataAssumption DEF InRange, KeysOf
  <2>2. PICK f \in 1..n : Contains(b.flushed[f], k)
    BY <1>2, <1>3, <2>1 DEF Laid
  <2>3. \A i \in 1..n : b.index[i].key <= k <=> i <= f
    <3>1. PICK g : g = FindBlock(b.index, k)
      OBVIOUS
    <3>2. Divides(g, b.index, b.flushed, k)
      BY <1>1, <2>1, <3>1, FindBlockDivides
    <3> QED
      BY <1>3, <2>2, <3>2 DEF Divides
  <2>4. s = 0 \/ s <= f
    <3> SUFFICES ASSUME s # 0 PROVE s <= f
      OBVIOUS
    <3>1. s \in 1..n /\ b.index[s].key <= start /\ b.index[s].key \in Nat
      <4>1. s \in 1..n /\ s <= s
        BY <1>8
      <4> QED
        BY <1>3, <1>8, <4>1
    <3>2. b.index[s].key <= k
      BY <1>7, <2>1, <3>1
    <3> QED
      BY <2>3, <3>1, <3>2
  <2>5. first <= f - 1 /\ f - 1 \in Nat /\ f - 1 < n /\ f - 1 + 1 = f
    BY <1>8, <1>9, <2>4
  <2>6. f - 1 <= last
    <3> SUFFICES ASSUME last < f - 1 PROVE FALSE
      BY <1>11
    <3>1. last < n - 1 /\ last + 2 <= f
      BY <1>11
    <3>2. last + 2 \in 1..n /\ b.index[last + 2].key >= end
      BY <1>11, <3>1
    <3>3. b.index[last + 2].key <= k /\ b.index[last + 2].key \in Nat
      BY <1>3, <2>3, <3>1, <3>2
    <3> QED
      BY <1>7, <2>1, <3>2, <3>3
  <2>7. f - 1 \in first..last
    BY <1>9, <1>11, <2>5, <2>6
  <2> QED
    BY <2>2, <2>5, <2>7
<1>13. \A k : k \in r.keys <=> k \in InRange(data, start, end)
  BY <1>10, <1>12
<1>14. r.keys = InRange(data, start, end)
  <2>1. \A k \in r.keys : k \in InRange(data, start, end)
    BY <1>13
  <2> QED
    BY <1>10, <1>12
<1> QED
  BY <1>1, <1>14
=============================================================================
