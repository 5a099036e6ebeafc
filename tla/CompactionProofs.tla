-------------------------- MODULE CompactionProofs --------------------------
(***************************************************************************)
(* Theorems about Compaction for every number of clients, every set of     *)
(* keys and values, every number of levels and every configured size.      *)
(***************************************************************************)
EXTENDS Compaction, StorageEngineProofs

-----------------------------------------------------------------------------
(* create_sstables_for_level: the tables it makes of the merged rows.       *)
Ordered(t, u) == \A j \in KeysOf(t), k \in KeysOf(u) : j < k
PartOf(t, keys, rows) == KeysOf(t) \subseteq keys /\ \A k \in KeysOf(t) : t[k] = rows[k]

(* The tables written so far and the one being filled: together they hold   *)
(* the rows of the keys seen, in ascending tables that are not empty.       *)
Divided(s, seen, rows) ==
  /\ s \in [full : Seq(EntryMap), current : EntryMap, size : Int]
  /\ \A k \in seen : s.current[k] = rows[k] \/ \E a \in DOMAIN s.full : s.full[a][k] = rows[k]
  /\ PartOf(s.current, seen, rows)
  /\ \A a \in DOMAIN s.full :
       /\ KeysOf(s.full[a]) # {}
       /\ PartOf(s.full[a], seen, rows)
       /\ Ordered(s.full[a], s.current)
       /\ \A b \in DOMAIN s.full : a < b => Ordered(s.full[a], s.full[b])

LEMMA AddToTableDivides ==
  ASSUME NEW rows \in EntryMap, NEW seen \in SUBSET Key, NEW k \in LiveKeys(rows),
         \A j \in seen : j < k,
         NEW s, Divided(s, seen, rows)
  PROVE  Divided(AddToTable(s, k, rows[k]), seen \cup {k}, rows)
<1> DEFINE e == rows[k]
           t == AddToTable(s, k, e)
           more == seen \cup {k}
<1>1. k \in Key /\ k \in Nat /\ e \in Entry /\ \A j \in Key : j \in Nat
  BY LsmDataAssumption DEF LiveKeys, KeysOf, EntryMap
<1>2. EntrySize(k, e) \in Int
  BY <1>1, EntrySizeType
<1>0. /\ s.full \in Seq(EntryMap) /\ s.current \in EntryMap /\ s.size \in Int
      /\ s = [full |-> s.full, current |-> s.current, size |-> s.size]
  BY DEF Divided
<1>3. KeysOf(s.current) \subseteq seen /\ \A a \in DOMAIN s.full : KeysOf(s.full[a]) \subseteq seen
  BY DEF Divided, PartOf
<1> HIDE DEF e
<1>4. CASE s.size + EntrySize(k, e) > L0SstableSize * 2 /\ KeysOf(s.current) # {}
  <2> DEFINE full == Append(s.full, s.current)
             current == [NoEntries EXCEPT ![k] = e]
             n == Len(s.full)
  <2>1. t = [full |-> full, current |-> current, size |-> EntrySize(k, e)]
    BY <1>4 DEF AddToTable
  <2>2. current \in EntryMap /\ current[k] = e /\ KeysOf(current) = {k}
    BY <1>1, NoneAssumption DEF NoEntries, EntryMap, KeysOf
  <2>3. /\ full \in Seq(EntryMap) /\ n \in Nat /\ DOMAIN s.full = 1..n /\ DOMAIN full = 1..(n + 1)
        /\ full[n + 1] = s.current /\ \A a \in 1..n : full[a] = s.full[a]
    BY <1>0, SeqAppend
  <2> HIDE DEF full, current, n
  <2>4. \A a \in DOMAIN full : (a \in DOMAIN s.full /\ full[a] = s.full[a]) \/ (a = n + 1 /\ full[a] = s.current)
    BY <2>3
  <2>5. \A j \in more : current[j] = rows[j] \/ \E a \in DOMAIN full : full[a][j] = rows[j]
    <3>1. \A j \in seen : \E a \in DOMAIN full : full[a][j] = rows[j]
      BY <2>3 DEF Divided
    <3> QED
      BY <2>2, <3>1 DEF e
  <2>6. PartOf(current, more, rows)
    BY <2>2 DEF PartOf, e
  <2>7. ASSUME NEW a \in DOMAIN full
        PROVE  /\ KeysOf(full[a]) # {} /\ PartOf(full[a], more, rows) /\ KeysOf(full[a]) \subseteq seen
    BY <1>3, <1>4, <2>4 DEF Divided, PartOf
  <2>8. \A a \in DOMAIN full : Ordered(full[a], current)
    BY <2>2, <2>7 DEF Ordered
  <2>9. ASSUME NEW a \in DOMAIN full, NEW b \in DOMAIN full, a < b
        PROVE  Ordered(full[a], full[b])
    <3>1. a \in DOMAIN s.full
      BY <2>3, <2>9
    <3> QED
      BY <2>3, <2>4, <2>9, <3>1 DEF Divided
  <2>10. /\ t \in [full : Seq(EntryMap), current : EntryMap, size : Int]
         /\ t.full = full /\ t.current = current
    BY <1>2, <2>1, <2>2, <2>3
  <2>11. Divided(t, more, rows)
    BY <2>5, <2>6, <2>7, <2>8, <2>9, <2>10 DEF Divided
  <2> QED
    BY <2>11 DEF e
<1>5. CASE ~(s.size + EntrySize(k, e) > L0SstableSize * 2 /\ KeysOf(s.current) # {})
  <2> DEFINE current == [s.current EXCEPT ![k] = e]
             size == s.size + EntrySize(k, e)
  <2>1. t = [full |-> s.full, current |-> current, size |-> size]
    <3>1. t = [s EXCEPT !.current[k] = e, !.size = @ + EntrySize(k, e)]
      BY <1>5 DEF AddToTable
    <3> QED
      BY <1>0, <3>1
  <2>2. /\ current \in EntryMap /\ current[k] = e /\ \A j \in Key \ {k} : current[j] = s.current[j]
        /\ size \in Int
    BY <1>0, <1>1, <1>2 DEF EntryMap
  <2> HIDE DEF current, size
  <2>3. KeysOf(current) = KeysOf(s.current) \cup {k}
    BY <1>1, <2>2, NoneAssumption DEF KeysOf
  <2>4. k \notin seen
    BY <1>1
  <2>5. \A j \in more : current[j] = rows[j] \/ \E a \in DOMAIN s.full : s.full[a][j] = rows[j]
    BY <2>2, <2>4 DEF Divided, e
  <2>6. PartOf(current, more, rows)
    BY <1>3, <2>2, <2>3, <2>4 DEF Divided, PartOf, e
  <2>7. \A a \in DOMAIN s.full : Ordered(s.full[a], current) /\ PartOf(s.full[a], more, rows)
    BY <1>3, <2>3 DEF Divided, PartOf, Ordered
  <2>8. /\ t \in [full : Seq(EntryMap), current : EntryMap, size : Int]
        /\ t.full = s.full /\ t.current = current
    BY <1>0, <2>1, <2>2
  <2>9. Divided(t, more, rows)
    BY <2>5, <2>6, <2>7, <2>8 DEF Divided
  <2> QED
    BY <2>9 DEF e
<1> QED
  BY <1>4, <1>5

(* The loop over the sorted keys.                                           *)
AddAt(i, t, c) == AddToTable(t, c.keys[i], c.rows[c.keys[i]])
Tables == INSTANCE FoldProofs WITH Op <- AddAt, Pick <- Max

NothingSplit == [full |-> <<>>, current |-> NoEntries, size |-> 0]

LEMMA SplitIsFold ==
  ASSUME NEW rows
  PROVE  LET keys == Sorted(LiveKeys(rows))
             s == Tables!Fold(DOMAIN keys, NothingSplit, [keys |-> keys, rows |-> rows])
         IN Split(rows) = IF KeysOf(s.current) = {} THEN s.full ELSE Append(s.full, s.current)
BY DEF Split, NothingSplit, FoldLeft, MapThenFoldSet, Tables!Fold, Tables!Unfolds, AddAt

LEMMA NothingSplitDivided ==
  ASSUME NEW rows
  PROVE  Divided(NothingSplit, {}, rows)
<1>1. NothingSplit \in [full : Seq(EntryMap), current : EntryMap, size : Int]
  BY NoEntriesType DEF NothingSplit
<1>2. NothingSplit.full = <<>> /\ NothingSplit.current = NoEntries /\ KeysOf(NoEntries) = {}
  BY DEF NothingSplit, NoEntries, KeysOf
<1> QED
  BY <1>1, <1>2 DEF Divided, PartOf

(* What the proofs about compaction need to know of the tables it writes:   *)
(* none is empty, they ascend, each holds merged rows, and each merged row  *)
(* that is not a delete marker is in one of them.                           *)
SplitsRows(tables, rows) ==
  /\ tables \in Seq(EntryMap)
  /\ \A k \in LiveKeys(rows) : \E a \in DOMAIN tables : tables[a][k] = rows[k]
  /\ \A a \in DOMAIN tables :
       /\ KeysOf(tables[a]) # {}
       /\ PartOf(tables[a], LiveKeys(rows), rows)
       /\ \A b \in DOMAIN tables : a < b => Ordered(tables[a], tables[b])

LEMMA SplitFacts ==
  ASSUME NEW rows \in EntryMap
  PROVE  SplitsRows(Split(rows), rows)
<1> DEFINE keys == Sorted(LiveKeys(rows))
           n == Cardinality(LiveKeys(rows))
           c == [keys |-> keys, rows |-> rows]
           at(i) == Tables!Fold(1..i, NothingSplit, c)
           seen(i) == {keys[j] : j \in 1..i}
           Good == {i \in Nat : Divided(at(i), seen(i), rows)}
<1>0. LiveKeys(rows) \in SUBSET Nat /\ IsFiniteSet(LiveKeys(rows)) /\ LiveKeys(rows) \subseteq Key
  <2>1. LiveKeys(rows) \subseteq Key
    BY DEF LiveKeys, KeysOf
  <2> QED
    BY <2>1, LsmDataAssumption, FS_Subset
<1>1. /\ keys \in Seq(LiveKeys(rows)) /\ Len(keys) = n /\ n \in Nat /\ DOMAIN keys = 1..n
      /\ \A i, j \in 1..n : i < j => keys[i] < keys[j]
      /\ \A k \in LiveKeys(rows) : \E i \in 1..n : keys[i] = k
      /\ \A i \in 1..n : keys[i] \in LiveKeys(rows)
  BY <1>0, SortedFacts, FS_CardinalityType
<1> HIDE DEF keys, n
<1>2. /\ at(0) = NothingSplit
      /\ \A i \in 0..(n - 1) :
           at(i + 1) = AddToTable(at(i), keys[i + 1], rows[keys[i + 1]])
  <2>1. /\ Tables!Fold(1..0, NothingSplit, c) = NothingSplit
        /\ \A i \in 0..(n - 1) : Tables!Fold(1..(i + 1), NothingSplit, c)
                                   = AddAt(i + 1, Tables!Fold(1..i, NothingSplit, c), c)
    BY <1>1, MaxPicks, Tables!FoldInterval
  <2> QED
    BY <2>1 DEF AddAt
<1> HIDE DEF at
<1>3. 0 \in Good
  <2>1. seen(0) = {}
    OBVIOUS
  <2> QED
    BY <1>2, <2>1, NothingSplitDivided
<1>4. \A i \in 0..(n - 1) : i \in Good => i + 1 \in Good
  <2> SUFFICES ASSUME NEW i \in 0..(n - 1), Divided(at(i), seen(i), rows)
               PROVE  i + 1 \in Good
    OBVIOUS
  <2>0. i \in Nat /\ i + 1 \in 1..n /\ \A j \in 1..i : j \in 1..n /\ j < i + 1
    BY <1>1
  <2>1. keys[i + 1] \in LiveKeys(rows) /\ \A j \in seen(i) : j < keys[i + 1]
    BY <1>1, <2>0
  <2>2. seen(i) \in SUBSET Key
    BY <1>0, <1>1, <2>0
  <2>3. seen(i + 1) = seen(i) \cup {keys[i + 1]}
    <3>1. 1..(i + 1) = (1..i) \cup {i + 1}
      BY <2>0
    <3> QED
      BY <3>1
  <2> HIDE DEF seen
  <2>4. Divided(at(i + 1), seen(i + 1), rows)
    <3> DEFINE k == keys[i + 1]
    <3>1. at(i + 1) = AddToTable(at(i), k, rows[k])
      BY <1>2
    <3>2. Divided(AddToTable(at(i), k, rows[k]), seen(i) \cup {k}, rows)
      <4>1. k \in LiveKeys(rows) /\ \A j \in seen(i) : j < k
        BY <2>1
      <4> HIDE DEF k
      <4> QED BY <2>2, <4>1, AddToTableDivides
    <3> QED
      BY <2>3, <3>1, <3>2
  <2> QED
    BY <2>0, <2>4
<1>5. Divided(at(n), seen(n), rows)
  <2> HIDE DEF Good
  <2>1. n \in Good
    <3>1. \A i \in 0..n : i \in Good
      BY <1>1, <1>3, <1>4, NatInterval
    <3> QED BY <1>1, <3>1
  <2> QED
    BY <2>1 DEF Good
<1>6. seen(n) = LiveKeys(rows)
  BY <1>1
<1> HIDE DEF seen, Good
<1> DEFINE s == at(n)
<1>7. Split(rows) = IF KeysOf(s.current) = {} THEN s.full ELSE Append(s.full, s.current)
  BY <1>1, SplitIsFold DEF at, keys
<1>8. Divided(s, LiveKeys(rows), rows)
  BY <1>5, <1>6
<1> HIDE DEF s
<1>9. s.full \in Seq(EntryMap) /\ s.current \in EntryMap
  BY <1>8 DEF Divided
<1>10. CASE KeysOf(s.current) = {}
  <2>1. \A k \in LiveKeys(rows) : s.current[k] # rows[k]
    BY <1>0, <1>10 DEF KeysOf, LiveKeys
  <2> QED
    BY <1>7, <1>8, <1>9, <1>10, <2>1 DEF Divided, SplitsRows
<1>11. CASE KeysOf(s.current) # {}
  <2> DEFINE tables == Append(s.full, s.current)
             m == Len(s.full)
  <2>1. /\ tables \in Seq(EntryMap) /\ m \in Nat /\ DOMAIN s.full = 1..m /\ DOMAIN tables = 1..(m + 1)
        /\ tables[m + 1] = s.current /\ \A a \in 1..m : tables[a] = s.full[a]
    BY <1>9, SeqAppend
  <2> HIDE DEF tables, m
  <2>2. \A a \in DOMAIN tables : (a \in DOMAIN s.full /\ tables[a] = s.full[a])
                                   \/ (a = m + 1 /\ tables[a] = s.current)
    BY <2>1
  <2>3. \A k \in LiveKeys(rows) : \E a \in DOMAIN tables : tables[a][k] = rows[k]
    <3>1. DOMAIN s.full \subseteq DOMAIN tables /\ m + 1 \in DOMAIN tables
      BY <2>1
    <3> QED
      BY <1>8, <2>1, <3>1 DEF Divided
  <2>4. \A a \in DOMAIN tables : KeysOf(tables[a]) # {} /\ PartOf(tables[a], LiveKeys(rows), rows)
    BY <1>8, <1>11, <2>2 DEF Divided
  <2>5. ASSUME NEW a \in DOMAIN tables, NEW b \in DOMAIN tables, a < b
        PROVE  Ordered(tables[a], tables[b])
    <3>1. a \in DOMAIN s.full
      BY <2>1, <2>5
    <3> QED
      BY <1>8, <2>1, <2>2, <2>5, <3>1 DEF Divided
  <2>6. Split(rows) = tables
    BY <1>7, <1>11 DEF tables
  <2> QED
    BY <2>1, <2>3, <2>4, <2>5, <2>6 DEF SplitsRows
<1> QED
  BY <1>10, <1>11

-----------------------------------------------------------------------------
(* Merged: of the places of an entry with the highest number one is first.  *)
LEMMA HighestFirst ==
  ASSUME NEW P, IsFiniteSet(P), P # {}, P \subseteq Int \X Int, NEW f \in [P -> Nat]
  PROVE  \E i \in P : \A j \in P : f[j] < f[i] \/ (f[j] = f[i] /\ Before(i, j))
<1> DEFINE Beats(j, i) == f[j] > f[i] \/ (f[j] = f[i] /\ ~Before(i, j))
           Better(i) == {j \in P : Beats(j, i)}
           T == {Cardinality(Better(i)) : i \in P}
<1>0. \A i \in P : f[i] \in Nat
  OBVIOUS
<1>1. \A i, j, h \in Int \X Int : /\ Before(i, i)
                                  /\ Before(i, j) \/ Before(j, i)
                                  /\ Before(i, h) /\ Before(h, j) => Before(i, j)
  BY DEF Before
<1>2. \A i \in P : i \notin Better(i)
  BY <1>0, <1>1
<1>3. ASSUME NEW i \in P, NEW j \in Better(i) PROVE Better(j) \subseteq Better(i)
  <2> SUFFICES ASSUME NEW h \in Better(j) PROVE Beats(h, i)
    OBVIOUS
  <2>1. /\ i \in Int \X Int /\ j \in Int \X Int /\ h \in Int \X Int /\ j \in P /\ h \in P
        /\ Beats(h, j) /\ Beats(j, i)
    OBVIOUS
  <2>2. f[i] \in Nat /\ f[j] \in Nat /\ f[h] \in Nat
    BY <1>0, <2>1
  <2>3. ~Before(j, h) /\ ~Before(i, j) => ~Before(i, h)
    BY <1>1, <2>1
  <2> QED
    BY <2>1, <2>2, <2>3
<1> HIDE DEF Beats
<1>4. \A i \in P : IsFiniteSet(Better(i)) /\ Cardinality(Better(i)) \in Nat
  BY FS_Subset, FS_CardinalityType
<1>5. ASSUME NEW i \in P, NEW j \in Better(i) PROVE Cardinality(Better(j)) < Cardinality(Better(i))
  <2>1. j \in P /\ Better(j) # Better(i)
    BY <1>2
  <2>2. PICK m, n : m = Cardinality(Better(j)) /\ n = Cardinality(Better(i))
    OBVIOUS
  <2>3. m \in Nat /\ n \in Nat /\ m <= n /\ m # n
    BY <1>3, <1>4, <2>1, <2>2, FS_Subset
  <2> QED
    BY <2>2, <2>3
<1>6. T \subseteq Nat /\ T # {}
  BY <1>4
<1>7. PICK i \in P : \A m \in T : Cardinality(Better(i)) <= m
  <2> HIDE DEF T
  <2>1. PICK n \in T : \A m \in T : n <= m
    BY <1>6, Tables!LeastNat
  <2>2. PICK j \in P : n = Cardinality(Better(j))
    BY <2>1 DEF T
  <2> QED
    BY <2>1, <2>2
<1> HIDE DEF T
<1>8. ASSUME NEW j \in P PROVE ~Beats(j, i)
  <2> SUFFICES ASSUME j \in Better(i) PROVE FALSE
    OBVIOUS
  <2>1. PICK m, n : m = Cardinality(Better(j)) /\ n = Cardinality(Better(i))
    OBVIOUS
  <2>2. m \in T /\ m \in Nat /\ n \in Nat /\ m < n
    BY <1>4, <1>5, <2>1 DEF T
  <2>3. n <= m
    BY <1>7, <2>1, <2>2
  <2> QED
    BY <2>2, <2>3
<1> QED
  BY <1>0, <1>8 DEF Beats

(* A merged row is a row of a source, and no source has a row of its key    *)
(* with a higher sequence number.                                           *)
Mergeable(sources) ==
  /\ IsFiniteSet(DOMAIN sources) /\ DOMAIN sources \subseteq Int \X Int
  /\ \A i \in DOMAIN sources : sources[i] \in EntryMap

LEMMA MergedFacts ==
  ASSUME NEW sources, Mergeable(sources), NEW rows, rows = Merged(sources), NEW k \in Key
  PROVE  /\ rows[k] # None => \E i \in DOMAIN sources : rows[k] = sources[i][k]
         /\ \A i \in DOMAIN sources : sources[i][k] # None =>
              rows[k] # None /\ sources[i][k].sequence <= rows[k].sequence
<1> DEFINE D == DOMAIN sources
           P == {j \in D : sources[j][k] # None}
           f == [j \in P |-> sources[j][k].sequence]
<1>1. rows[k] = IF \E i \in D : Wins(sources, k, i)
                THEN sources[CHOOSE i \in D : Wins(sources, k, i)][k] ELSE None
  BY DEF Merged
<1>2. rows[k] # None => \E i \in D : rows[k] = sources[i][k]
  BY <1>1
<1>3. (\E i \in D : Wins(sources, k, i)) => \E i \in D : Wins(sources, k, i) /\ rows[k] = sources[i][k]
  BY <1>1
<1>4. \A j \in P : sources[j][k].sequence \in Nat
  BY DEF Mergeable, EntryMap, Entry
<1>5. f \in [P -> Nat] /\ \A j \in P : f[j] = sources[j][k].sequence
  BY <1>4
<1>6. P \subseteq D /\ IsFiniteSet(P) /\ P \subseteq Int \X Int
  BY FS_Subset DEF Mergeable
<1>7. ASSUME NEW i \in P PROVE rows[k] # None /\ sources[i][k].sequence <= rows[k].sequence
  <2> HIDE DEF P, f
  <2>1. PICK w \in P : \A j \in P : f[j] < f[w] \/ (f[j] = f[w] /\ Before(w, j))
    BY <1>5, <1>6, HighestFirst
  <2>2. w \in D /\ sources[w][k] # None /\ \A j \in D : sources[j][k] # None => j \in P
    BY DEF P
  <2>3. Wins(sources, k, w)
    BY <1>5, <2>1, <2>2 DEF Wins
  <2>4. PICK v \in D : Wins(sources, k, v) /\ rows[k] = sources[v][k]
    BY <1>3, <2>2, <2>3
  <2>5. v \in P /\ rows[k] # None
    BY <2>2, <2>4 DEF Wins
  <2>6. \/ sources[i][k].sequence < sources[v][k].sequence
        \/ sources[i][k].sequence = sources[v][k].sequence
    BY <1>6, <2>4 DEF Wins, P
  <2> QED
    BY <1>4, <2>4, <2>5, <2>6
<1> QED
  BY <1>2, <1>7

LEMMA SingleRowFinite ==
  ASSUME NEW n \in Nat
  PROVE  \A x : IsFiniteSet({x} \X (1..n))
<1>1. IsFiniteSet(1..n)
  <2>1. 1 \in Int /\ n \in Int
    OBVIOUS
  <2> QED
    BY <2>1, FS_Interval
<1>2. \A x : IsFiniteSet({x})
  BY FS_Singleton
<1> QED
  BY <1>1, <1>2, FS_Product

(* The same of merge_sstables.                                              *)
LEMMA MergeOfFacts ==
  ASSUME NEW tables \in Seq(EntryMap)
  PROVE  /\ MergeOf(tables) \in EntryMap
         /\ \A k \in KeysOf(MergeOf(tables)) : \E i \in DOMAIN tables : MergeOf(tables)[k] = tables[i][k]
         /\ \A k \in Key, i \in DOMAIN tables : tables[i][k] # None =>
              /\ MergeOf(tables)[k] # None
              /\ \E j \in DOMAIN tables : /\ MergeOf(tables)[k] = tables[j][k]
                                          /\ tables[j][k].sequence >= tables[i][k].sequence
<1> DEFINE sources == [i \in {0} \X DOMAIN tables |-> tables[i[2]]]
           rows == MergeOf(tables)
           n == Len(tables)
<1>0. /\ n \in Nat /\ DOMAIN tables = 1..n
      /\ \A i \in DOMAIN tables : tables[i] \in EntryMap
  OBVIOUS
<1>1. /\ DOMAIN sources = {0} \X DOMAIN tables
      /\ \A i \in DOMAIN sources : i[2] \in DOMAIN tables /\ sources[i] = tables[i[2]]
      /\ \A i \in DOMAIN tables : <<0, i>> \in DOMAIN sources /\ sources[<<0, i>>] = tables[i]
  OBVIOUS
<1>2. rows = Merged(sources)
  BY DEF MergeOf
<1> HIDE DEF sources, n, rows
<1>3. rows \in EntryMap
  BY <1>0, <1>1, <1>2, MergedType
<1>4. Mergeable(sources)
  <2>0. \A x : IsFiniteSet({x} \X (1..n))
    BY <1>0, SingleRowFinite
  <2>1. IsFiniteSet({0} \X DOMAIN tables)
    BY <1>0, <2>0
  <2> QED
    BY <1>0, <1>1, <2>1 DEF Mergeable
<1>5. ASSUME NEW k \in Key
      PROVE  /\ rows[k] # None => \E i \in DOMAIN sources : rows[k] = sources[i][k]
             /\ \A i \in DOMAIN sources : sources[i][k] # None =>
                  rows[k] # None /\ sources[i][k].sequence <= rows[k].sequence
  BY <1>2, <1>4, MergedFacts
<1>6. \A k \in Key : rows[k] # None => \E i \in DOMAIN tables : rows[k] = tables[i][k]
  BY <1>1, <1>5
<1>7. ASSUME NEW k \in Key, NEW i \in DOMAIN tables, tables[i][k] # None
      PROVE  /\ rows[k] # None
             /\ \E j \in DOMAIN tables : rows[k] = tables[j][k] /\ tables[j][k].sequence >= tables[i][k].sequence
  <2>0. PICK s : s \in DOMAIN sources /\ sources[s] = tables[i]
    BY <1>1
  <2>1. rows[k] # None /\ tables[i][k].sequence <= rows[k].sequence
    BY <1>5, <1>7, <2>0
  <2>2. PICK j \in DOMAIN tables : rows[k] = tables[j][k]
    BY <1>6, <2>1
  <2>3. tables[i][k].sequence \in Nat /\ tables[j][k].sequence \in Nat
    BY <1>0, <1>7, <2>1, <2>2 DEF EntryMap, Entry
  <2> QED
    BY <2>1, <2>2, <2>3
<1> QED
  BY <1>3, <1>6, <1>7 DEF rows, KeysOf

-----------------------------------------------------------------------------
(* Sequences.                                                               *)
LEMMA PrefixElements ==
  ASSUME NEW S, NEW s \in Seq(S), NEW t \in Seq(S)
  PROVE  IsPrefix(s, t) <=> Len(s) <= Len(t) /\ \A i \in 1..Len(s) : s[i] = t[i]
<1>1. /\ SubSeq(s, 1, Len(s)) = [i \in 1..Len(s) |-> s[i]]
      /\ SubSeq(t, 1, Len(s)) = [i \in 1..Len(s) |-> t[i]]
  BY DEF SubSeq
<1>2. Len(s) \in Nat /\ Len(t) \in Nat
  OBVIOUS
<1>3. SubSeq(s, 1, Len(s)) = SubSeq(t, 1, Len(s)) <=> \A i \in 1..Len(s) : s[i] = t[i]
  BY <1>1, Zenon
<1> QED
  BY <1>3 DEF IsPrefix

LEMMA HeadMoves ==
  ASSUME NEW S, NEW s \in Seq(S), NEW t \in Seq(S), t # <<>>
  PROVE  /\ Append(s, Head(t)) \in Seq(S) /\ Tail(t) \in Seq(S)
         /\ Append(s, Head(t)) \o Tail(t) = s \o t
<1>1. Head(t) \in S /\ Tail(t) \in Seq(S) /\ t = <<Head(t)>> \o Tail(t)
  BY HeadTailProperties
<1>2. Append(s, Head(t)) = s \o <<Head(t)>> /\ <<Head(t)>> \in Seq(S)
  BY <1>1, AppendIsConcat
<1>3. (s \o <<Head(t)>>) \o Tail(t) = s \o (<<Head(t)>> \o Tail(t))
  BY <1>1, <1>2, ConcatAssociative
<1>4. Append(s, Head(t)) \in Seq(S)
  BY <1>1
<1> QED
  BY <1>1, <1>2, <1>3, <1>4

-----------------------------------------------------------------------------
(* What every step of the task needs to know besides the types: what it has *)
(* in its hands at each place, and that what it has written and still has   *)
(* to write are the tables made of its snapshot.                            *)
WorkShape ==
  /\ cpc \in {"tick", "count", "size", "clone", "stopped"} =>
       snapshot = NoSnapshot /\ todo = <<>> /\ made = <<>>
  /\ cpc = "create" => todo # <<>>
  /\ cpc \in {"install", "delete"} => todo = <<>>
  /\ cpc \in {"create", "install", "delete"} => made \o todo = Split(MergeOf(Inputs))

(* Every entry in a memtable or a table was inserted by a write.            *)
Stamped(data) == \A k \in KeysOf(data) : data[k].stamp > 0
AllStamped ==
  /\ \A m \in Ids : Stamped(heap[m].data)
  /\ \A i \in TableIndex : Stamped(sstables[i[1]][i[2]])

WorkInv == Shape /\ CompactorTypeOK /\ WorkShape /\ SnapshotStands /\ AllStamped

(* The tables are touched by one flush or one installation at a time.       *)
LEMMA OtherTables ==
  ASSUME Shape, NEW l \in Level, NEW tables \in Seq(EntryMap),
         sstables' = [sstables EXCEPT ![l] = tables]
  PROVE  /\ sstables'[l] = tables /\ \A n \in Level : n # l => sstables'[n] = sstables[n]
         /\ sstables' \in [Level -> Seq(EntryMap)]
BY DEF Shape, TypeOK

LEMMA CompactionInitInv == CompactionInit => WorkInv
<1> SUFFICES ASSUME CompactionInit PROVE WorkInv
  OBVIOUS
<1>1. Shape
  BY InitShape DEF CompactionInit
<1>2. 0 \in Level /\ 1 \in Level /\ NoSnapshot \in [from : Seq(EntryMap), to : Seq(EntryMap)]
  BY CompactionAssumption, StorageEngineAssumption DEF Level, NoSnapshot
<1>3. CompactorTypeOK /\ WorkShape /\ SnapshotStands
  BY <1>2 DEF CompactionInit, AtRest, CompactorTypeOK, WorkShape, SnapshotStands
<1>4. TableIndex = {} /\ \A l \in Level : sstables[l] = <<>>
  BY DEF CompactionInit, Init, TableIndex
<1>5. AllStamped
  <2>1. \A m \in Ids : heap[m].data = NoEntries
    BY DEF CompactionInit, Init, Ids, NewMemTable
  <2>2. KeysOf(NoEntries) = {}
    BY DEF KeysOf, NoEntries
  <2> QED
    BY <1>4, <2>1, <2>2 DEF AllStamped, Stamped
<1> QED
  BY <1>1, <1>3, <1>5 DEF WorkInv

(* A step of a client: the task's own variables stay, and level 0 may get a *)
(* table at its end.                                                        *)
LEMMA ClientStepInv ==
  ASSUME WorkInv, [Next]_vars, UNCHANGED compactor
  PROVE  WorkInv'
<1>0. /\ Shape /\ Shape' /\ UNCHANGED <<cpc, level, snapshot, todo, made>>
      /\ heap \in Seq(MemTableRec) /\ Ids = 1..Len(heap)
      /\ sstables \in [Level -> Seq(EntryMap)] /\ 0 \in Level
      /\ latest \in [Key -> Nat]
      /\ \A m \in Ids : heap[m] \in MemTableRec /\ heap[m].data \in EntryMap
  <2>1. Shape /\ Shape'
    BY NextShape DEF WorkInv
  <2>2. UNCHANGED <<cpc, level, snapshot, todo, made>>
    BY DEF compactor
  <2>3. heap \in Seq(MemTableRec) /\ Ids = 1..Len(heap)
    BY <2>1 DEF Shape, TypeOK, Ids
  <2>4. \A m \in Ids : heap[m] \in MemTableRec
    BY <2>3
  <2>5. sstables \in [Level -> Seq(EntryMap)] /\ latest \in [Key -> Nat]
    BY <2>1 DEF Shape, TypeOK
  <2>6. 0 \in Level
    BY StorageEngineAssumption DEF Level
  <2> QED
    BY <2>1, <2>2, <2>3, <2>4, <2>5, <2>6 DEF MemTableRec
<1>1. CompactorTypeOK' /\ WorkShape'
  BY <1>0 DEF WorkInv, CompactorTypeOK, WorkShape, Inputs
<1>2. ASSUME NEW m \in Ids' PROVE Stamped(heap'[m].data)
  <2>1. \A n \in Ids : heap[n].data \in EntryMap /\ Stamped(heap[n].data)
    BY <1>0 DEF WorkInv, AllStamped
  <2>2. CASE heap'[m].data = NoEntries
    BY <2>2 DEF Stamped, KeysOf, NoEntries
  <2>3. ASSUME NEW n \in Ids, NEW k \in Key, NEW e \in Entry,
               e.stamp = latest[k] + 1, heap'[m].data = [heap[n].data EXCEPT ![k] = e]
        PROVE  Stamped(heap'[m].data)
    <3>1. \A j \in Key : heap'[m].data[j] = IF j = k THEN e ELSE heap[n].data[j]
      BY <2>1, <2>3 DEF EntryMap
    <3>2. latest[k] + 1 > 0
      BY <1>0
    <3> QED
      BY <2>1, <2>3, <3>1, <3>2 DEF Stamped, KeysOf
  <2>4. CASE \E n \in Ids : heap'[m].data = heap[n].data
    BY <2>1, <2>4
  <2>5. \/ heap'[m].data = NoEntries
        \/ \E n \in Ids : \/ heap'[m].data = heap[n].data
                          \/ \E k \in Key, e \in Entry :
                               /\ e.stamp = latest[k] + 1 /\ latest' = [latest EXCEPT ![k] = @ + 1]
                               /\ heap'[m].data = [heap[n].data EXCEPT ![k] = e]
    BY <1>0, HeapEntries
  <2> QED
    BY <2>2, <2>3, <2>4, <2>5, Zenon
<1>3. CASE UNCHANGED sstables
  <2>1. SnapshotStands' /\ TableIndex' = TableIndex
    BY <1>0, <1>3 DEF WorkInv, SnapshotStands, TableIndex
  <2> QED
    BY <1>0, <1>1, <1>2, <1>3, <2>1 DEF WorkInv, AllStamped
<1>4. ASSUME NEW m \in Memtables, sstables' = [sstables EXCEPT ![0] = Append(@, heap[m].data)]
      PROVE  WorkInv'
  <2> DEFINE n == Len(sstables[0])
             tables == Append(sstables[0], heap[m].data)
  <2>1. heap[m].data \in EntryMap /\ Stamped(heap[m].data)
    BY <1>0, IdsHeld DEF WorkInv, AllStamped
  <2>2. /\ tables \in Seq(EntryMap) /\ Len(tables) = n + 1 /\ n \in Nat
        /\ tables[n + 1] = heap[m].data /\ \A i \in 1..n : tables[i] = sstables[0][i]
        /\ DOMAIN tables = 1..(n + 1) /\ DOMAIN sstables[0] = 1..n
    BY <1>0, <2>1, SeqAppend
  <2>3. sstables' = [sstables EXCEPT ![0] = tables]
    BY <1>0, <1>4
  <2> HIDE DEF tables
  <2>4. sstables'[0] = tables /\ \A l \in Level : l # 0 => sstables'[l] = sstables[l]
    BY <1>0, <2>2, <2>3, OtherTables
  <2>6. SnapshotStands'
    <3> SUFFICES ASSUME cpc \in {"create", "install"}
                 PROVE  /\ IsPrefix(snapshot.from, sstables'[level])
                        /\ level > 0 => snapshot.from = sstables'[level]
                        /\ snapshot.to = sstables'[level + 1]
      BY <1>0 DEF SnapshotStands
    <3>1. /\ level \in Level /\ level + 1 \in Level /\ level \in Nat
          /\ snapshot.from \in Seq(EntryMap)
          /\ IsPrefix(snapshot.from, sstables[level])
          /\ level > 0 => snapshot.from = sstables[level]
          /\ snapshot.to = sstables[level + 1]
      BY DEF WorkInv, CompactorTypeOK, SnapshotStands, Level
    <3>2. CASE level > 0
      BY <2>4, <3>1, <3>2
    <3>3. CASE level = 0
      <4>1. /\ Len(snapshot.from) <= n /\ Len(snapshot.from) \in Nat
            /\ \A i \in 1..Len(snapshot.from) : snapshot.from[i] = sstables[0][i]
        BY <1>0, <3>1, <3>3, PrefixElements
      <4>2. \A i \in 1..Len(snapshot.from) : i \in 1..n
        BY <2>2, <4>1
      <4>3. IsPrefix(snapshot.from, tables)
        <5>1. /\ Len(snapshot.from) <= Len(tables)
              /\ \A i \in 1..Len(snapshot.from) : snapshot.from[i] = tables[i]
          BY <2>2, <4>1, <4>2
        <5> QED
          BY <2>2, <3>1, <5>1, PrefixElements
      <4> QED
        BY <2>4, <3>1, <3>3, <4>3
    <3> QED
      BY <3>1, <3>2, <3>3
  <2>7. ASSUME NEW i \in TableIndex' PROVE Stamped(sstables'[i[1]][i[2]])
    <3>1. i[1] \in Level /\ i[2] \in DOMAIN sstables'[i[1]]
      BY DEF TableIndex
    <3>2. CASE i[1] = 0 /\ i[2] = n + 1
      BY <2>1, <2>2, <2>4, <3>2
    <3>3. CASE ~(i[1] = 0 /\ i[2] = n + 1)
      <4>1. i[2] \in DOMAIN sstables[i[1]] /\ sstables'[i[1]][i[2]] = sstables[i[1]][i[2]]
        BY <2>2, <2>4, <3>1, <3>3
      <4>2. <<i[1], i[2]>> \in TableIndex
        BY <3>1, <4>1 DEF TableIndex
      <4> QED
        BY <4>1, <4>2 DEF WorkInv, AllStamped
    <3> QED
      BY <3>2, <3>3
  <2> QED
    BY <1>0, <1>1, <1>2, <2>6, <2>7 DEF WorkInv, AllStamped
<1> QED
  BY <1>0, <1>3, <1>4, TableSteps

(* The variables that the task never changes.                               *)
others == <<heap, memtable, immutable_memtables, closed, imm_lock, private, history>>

LEMMA OthersShape ==
  ASSUME Shape, UNCHANGED others,
         sstables' \in [Level -> Seq(EntryMap)], sequence_counter' \in Nat
  PROVE  Shape'
<1>1. /\ UNCHANGED <<heap, memtable, immutable_memtables, closed, imm_lock>>
      /\ UNCHANGED <<pc, call, hand, target, taken, acc, answer>>
      /\ UNCHANGED <<latest, floor, begun, dropped>>
  BY DEF others, private, history
<1>2. Ids' = Ids
  BY <1>1 DEF Ids
<1>3. TypeOK'
  BY <1>1, <1>2 DEF Shape, TypeOK
<1>4. \A c \in Client : InCall(c)' /\ HandShape(c)' /\ WritesActive(c)'
  BY <1>1 DEF Shape, InCall, HandShape, WritesActive
<1> QED
  BY <1>1, <1>3, <1>4, SameHeap DEF Shape

(* The steps after which the task has nothing in its hands.                 *)
LEMMA RestInv ==
  ASSUME WorkInv, UNCHANGED <<others, sstables>>, sequence_counter' \in Nat,
         cpc' \in {"tick", "count", "size", "clone", "stopped"},
         level' \in Level, level' + 1 \in Level,
         snapshot' = NoSnapshot, todo' = <<>>, made' = <<>>
  PROVE  WorkInv'
<1>1. UNCHANGED others /\ UNCHANGED sstables
  OBVIOUS
<1>2. Shape'
  BY <1>1, OthersShape DEF WorkInv, Shape, TypeOK
<1>3. NoSnapshot \in [from : Seq(EntryMap), to : Seq(EntryMap)]
  BY DEF NoSnapshot
<1>4. CompactorTypeOK' /\ WorkShape' /\ SnapshotStands'
  BY <1>3 DEF CompactorTypeOK, WorkShape, SnapshotStands
<1>5. AllStamped'
  <2>1. UNCHANGED heap
    BY <1>1 DEF others
  <2> QED
    BY <1>1, <2>1 DEF WorkInv, AllStamped, Ids, TableIndex
<1> QED
  BY <1>2, <1>4, <1>5 DEF WorkInv

LEMMA NextLevelRests ==
  ASSUME CompactorTypeOK, NextLevel
  PROVE  /\ cpc' \in {"tick", "size"} /\ level' \in Level /\ level' + 1 \in Level
         /\ snapshot' = NoSnapshot /\ todo' = <<>> /\ made' = <<>>
<1>1. level \in Nat /\ MaxLevels \in Nat /\ MaxLevels >= 2
  BY StorageEngineAssumption, CompactionAssumption DEF CompactorTypeOK, Level
<1>2. CASE level + 2 < MaxLevels
  <2>1. cpc' = "size" /\ level' = level + 1
    BY <1>2 DEF NextLevel
  <2> QED
    BY <1>1, <1>2, <2>1 DEF NextLevel, Level
<1>3. CASE ~(level + 2 < MaxLevels)
  <2>1. cpc' = "tick" /\ level' = 0
    BY <1>3 DEF NextLevel
  <2> QED
    BY <1>1, <1>3, <2>1 DEF NextLevel, Level
<1> QED
  BY <1>2, <1>3

LEMMA GiveUpRests ==
  ASSUME GiveUp
  PROVE  /\ cpc' = "tick" /\ level' \in Level /\ level' + 1 \in Level
         /\ snapshot' = NoSnapshot /\ todo' = <<>> /\ made' = <<>>
BY StorageEngineAssumption, CompactionAssumption DEF GiveUp, Level

(* The steps that only look, and those that end the work on a level.        *)
LEMMA LookInv ==
  ASSUME WorkInv, Tick \/ CountLevel0 \/ MeasureLevel \/ Deleted
  PROVE  WorkInv'
<1>1. UNCHANGED <<others, sstables>> /\ UNCHANGED sequence_counter
  BY DEF Tick, CountLevel0, MeasureLevel, Deleted, vars, shared, others
<1>2. sequence_counter' \in Nat
  BY <1>1 DEF WorkInv, Shape, TypeOK
<1>3. CompactorTypeOK
  BY DEF WorkInv
<1>4. CASE NextLevel
  BY <1>1, <1>2, <1>3, <1>4, NextLevelRests, RestInv
<1>5. CASE cpc' \in {"stopped", "count", "clone"} /\ UNCHANGED <<level, snapshot, todo, made>>
           /\ cpc \in {"tick", "count", "size"}
  <2>1. level' \in Level /\ level' + 1 \in Level
    BY <1>3, <1>5 DEF CompactorTypeOK
  <2>2. snapshot' = NoSnapshot /\ todo' = <<>> /\ made' = <<>>
    BY <1>5 DEF WorkInv, WorkShape
  <2> QED
    BY <1>1, <1>2, <1>5, <2>1, <2>2, RestInv
<1>6. NextLevel \/ (/\ cpc' \in {"stopped", "count", "clone"} /\ UNCHANGED <<level, snapshot, todo, made>>
                    /\ cpc \in {"tick", "count", "size"})
  BY DEF Tick, CountLevel0, MeasureLevel, Deleted
<1> QED
  BY <1>4, <1>5, <1>6

(* The work of the task: the clone, the new tables, the installation.       *)
LEMMA CloneInv ==
  ASSUME WorkInv, NEW r, CloneAndMerge(r)
  PROVE  WorkInv'
<1>1. UNCHANGED <<others, sstables>> /\ UNCHANGED sequence_counter
  BY DEF CloneAndMerge, vars, shared, others
<1>2. sequence_counter' \in Nat /\ CompactorTypeOK
  BY <1>1 DEF WorkInv, Shape, TypeOK
<1>3. CASE NextLevel
  BY <1>1, <1>2, <1>3, NextLevelRests, RestInv
<1>4. CASE GiveUp
  BY <1>1, <1>2, <1>4, GiveUpRests, RestInv
<1>5. CASE /\ snapshot' = [from |-> sstables[level], to |-> sstables[level + 1]]
           /\ todo' = Split(MergeOf(snapshot'.from \o snapshot'.to))
           /\ cpc' = IF todo' = <<>> THEN "install" ELSE "create"
           /\ UNCHANGED <<level, made>>
  <2> DEFINE from == sstables[level]
             to == sstables[level + 1]
  <2>1. /\ level \in Level /\ level + 1 \in Level
        /\ from \in Seq(EntryMap) /\ to \in Seq(EntryMap)
    BY <1>2 DEF WorkInv, CompactorTypeOK, Shape, TypeOK
  <2>2. snapshot'.from = from /\ snapshot'.to = to
        /\ snapshot' \in [from : Seq(EntryMap), to : Seq(EntryMap)]
    BY <1>5, <2>1
  <2>3. made = <<>> /\ made' = <<>>
    BY <1>5 DEF WorkInv, WorkShape, CloneAndMerge
  <2>4. from \o to \in Seq(EntryMap) /\ Inputs' = from \o to
    BY <2>1, <2>2, ConcatProperties DEF Inputs
  <2>5. MergeOf(from \o to) \in EntryMap
    BY <2>4, MergeOfFacts
  <2>6. todo' = Split(MergeOf(from \o to)) /\ todo' \in Seq(EntryMap)
    BY <1>5, <2>2, <2>5, SplitFacts DEF SplitsRows
  <2>7. made' \o todo' = todo'
    BY <2>3, <2>6, ConcatEmptySeq
  <2>8. Shape' /\ UNCHANGED sstables
    <3>1. UNCHANGED others /\ UNCHANGED sstables
      BY <1>1
    <3> QED
      BY <1>2, <3>1, OthersShape DEF WorkInv, Shape, TypeOK
  <2>9. CompactorTypeOK'
    <3>1. cpc' \in {"install", "create"} /\ level' = level
      BY <1>5
    <3> QED
      BY <2>1, <2>2, <2>3, <2>6, <3>1 DEF CompactorTypeOK
  <2>10. WorkShape'
    BY <1>5, <2>4, <2>6, <2>7 DEF WorkShape
  <2>11. SnapshotStands'
    <3>1. IsPrefix(from, from)
      BY <2>1, PrefixElements
    <3> QED
      BY <1>5, <2>2, <2>8, <3>1 DEF SnapshotStands
  <2>12. AllStamped'
    <3>1. UNCHANGED heap
      BY <1>1 DEF others
    <3> QED
      BY <2>8, <3>1 DEF WorkInv, AllStamped, Ids, TableIndex
  <2> QED
    BY <2>8, <2>9, <2>10, <2>11, <2>12 DEF WorkInv
<1> QED
  BY <1>3, <1>4, <1>5 DEF CloneAndMerge

LEMMA CreateInv ==
  ASSUME WorkInv, NEW r, CreateTable(r)
  PROVE  WorkInv'
<1>1. UNCHANGED <<others, sstables>> /\ cpc = "create"
  BY DEF CreateTable, others
<1>2. sequence_counter' \in Nat /\ CompactorTypeOK
  BY DEF CreateTable, WorkInv, Shape, TypeOK
<1>3. CASE GiveUp
  BY <1>1, <1>2, <1>3, GiveUpRests, RestInv
<1>4. CASE r = "ok"
  <2>1. /\ made' = Append(made, Head(todo)) /\ todo' = Tail(todo)
        /\ cpc' = IF Len(todo) = 1 THEN "install" ELSE "create"
        /\ UNCHANGED <<level, snapshot>>
    BY <1>4 DEF CreateTable
  <2>2. made \in Seq(EntryMap) /\ todo \in Seq(EntryMap) /\ todo # <<>>
    BY <1>1 DEF WorkInv, CompactorTypeOK, WorkShape
  <2>3. /\ made' \in Seq(EntryMap) /\ todo' \in Seq(EntryMap)
        /\ made' \o todo' = made \o todo
    BY <2>1, <2>2, HeadMoves
  <2>4. cpc' = "install" <=> todo' = <<>>
    BY <2>1, <2>2, TailEmpty
  <2>5. Shape' /\ UNCHANGED sstables /\ UNCHANGED heap
    <3>1. UNCHANGED others /\ UNCHANGED sstables
      BY <1>1
    <3>2. Shape'
      BY <1>2, <3>1, OthersShape DEF WorkInv, Shape, TypeOK
    <3> QED
      BY <3>1, <3>2 DEF others
  <2>6. CompactorTypeOK'
    BY <1>2, <2>1, <2>3 DEF CompactorTypeOK
  <2>7. WorkShape'
    BY <1>1, <2>1, <2>3, <2>4 DEF WorkInv, WorkShape, Inputs
  <2>8. SnapshotStands'
    BY <1>1, <2>1, <2>5 DEF WorkInv, SnapshotStands
  <2>9. AllStamped'
    BY <2>5 DEF WorkInv, AllStamped, Ids, TableIndex
  <2> QED
    BY <2>5, <2>6, <2>7, <2>8, <2>9 DEF WorkInv
<1> QED
  BY <1>3, <1>4 DEF CreateTable

(* The installation: what it replaces is what it has merged, or was flushed *)
(* after the snapshot.                                                      *)
LEMMA AllMade ==
  ASSUME WorkInv, cpc \in {"install", "delete"}
  PROVE  /\ Inputs \in Seq(EntryMap) /\ MergeOf(Inputs) \in EntryMap
         /\ SplitsRows(made, MergeOf(Inputs))
<1>1. /\ made \in Seq(EntryMap) /\ todo = <<>>
      /\ snapshot.from \in Seq(EntryMap) /\ snapshot.to \in Seq(EntryMap)
      /\ made \o todo = Split(MergeOf(Inputs))
  BY DEF WorkInv, CompactorTypeOK, WorkShape
<1>2. Inputs \in Seq(EntryMap)
  BY <1>1, ConcatProperties DEF Inputs
<1>3. MergeOf(Inputs) \in EntryMap
  BY <1>2, MergeOfFacts
<1>4. made = Split(MergeOf(Inputs))
  BY <1>1, ConcatEmptySeq
<1>5. SplitsRows(made, MergeOf(Inputs))
  BY <1>3, <1>4, SplitFacts
<1> QED
  BY <1>2, <1>3, <1>5

LEMMA InstallFacts ==
  ASSUME WorkInv, Install
  PROVE  /\ level \in Level /\ level + 1 \in Level
         /\ Inputs \in Seq(EntryMap) /\ MergeOf(Inputs) \in EntryMap
         /\ SplitsRows(made, MergeOf(Inputs))
         /\ sstables'[level] = <<>> /\ sstables'[level + 1] = made
         /\ \A l \in Level : l # level /\ l # level + 1 => sstables'[l] = sstables[l]
         /\ sstables' \in [Level -> Seq(EntryMap)]
<1>1. level \in Level /\ level + 1 \in Level /\ level \in Nat /\ made \in Seq(EntryMap)
  BY DEF WorkInv, CompactorTypeOK, Level
<1>2. /\ Inputs \in Seq(EntryMap) /\ MergeOf(Inputs) \in EntryMap
      /\ SplitsRows(made, MergeOf(Inputs))
  BY AllMade DEF Install
<1>6. sstables' = [sstables EXCEPT ![level] = <<>>, ![level + 1] = made]
  BY DEF Install, Installed
<1>7. sstables \in [Level -> Seq(EntryMap)] /\ level # level + 1 /\ <<>> \in Seq(EntryMap)
  BY <1>1 DEF WorkInv, Shape, TypeOK
<1>8. /\ sstables'[level] = <<>> /\ sstables'[level + 1] = made
      /\ \A l \in Level : l # level /\ l # level + 1 => sstables'[l] = sstables[l]
      /\ sstables' \in [Level -> Seq(EntryMap)]
  BY <1>1, <1>6, <1>7
<1> QED
  BY <1>1, <1>2, <1>8

(* Every merged table is still in its level.                                *)
LEMMA InputsAreTables ==
  ASSUME WorkInv, cpc \in {"create", "install"}
  PROVE  /\ \A a \in DOMAIN Inputs : \E i \in TableIndex :
              i[1] \in {level, level + 1} /\ Inputs[a] = sstables[i[1]][i[2]]
         /\ \A i \in DOMAIN sstables[level] :
              i > Len(snapshot.from) \/ \E a \in DOMAIN Inputs : Inputs[a] = sstables[level][i]
         /\ \A i \in DOMAIN sstables[level + 1] :
              \E a \in DOMAIN Inputs : Inputs[a] = sstables[level + 1][i]
<1> DEFINE from == snapshot.from
           to == snapshot.to
           n == Len(from)
<1>1. /\ from \in Seq(EntryMap) /\ to \in Seq(EntryMap) /\ n \in Nat
      /\ level \in Level /\ level + 1 \in Level
      /\ sstables[level] \in Seq(EntryMap) /\ to = sstables[level + 1]
      /\ IsPrefix(from, sstables[level])
  BY DEF WorkInv, CompactorTypeOK, SnapshotStands, Shape, TypeOK
<1>2. /\ n <= Len(sstables[level]) /\ \A i \in 1..n : from[i] = sstables[level][i]
  BY <1>1, PrefixElements
<1>3. /\ Len(Inputs) = n + Len(to) /\ DOMAIN Inputs = 1..(n + Len(to)) /\ Len(to) \in Nat
      /\ \A i \in 1..(n + Len(to)) : Inputs[i] = IF i <= n THEN from[i] ELSE to[i - n]
  <2>1. Inputs = from \o to /\ Len(to) \in Nat
    BY <1>1 DEF Inputs
  <2>2. /\ from \o to \in Seq(EntryMap) /\ Len(from \o to) = n + Len(to)
        /\ \A i \in 1..(n + Len(to)) : (from \o to)[i] = IF i <= n THEN from[i] ELSE to[i - n]
    BY <1>1, ConcatProperties
  <2> HIDE DEF from, to, n
  <2>3. DOMAIN Inputs = 1..Len(Inputs)
    BY <2>1, <2>2
  <2> QED
    BY <2>1, <2>2, <2>3
<1> HIDE DEF from, to, n
<1>4. ASSUME NEW a \in DOMAIN Inputs
      PROVE  \E i \in TableIndex : i[1] \in {level, level + 1} /\ Inputs[a] = sstables[i[1]][i[2]]
  <2>1. CASE a <= n
    <3>1. a \in 1..n /\ a \in DOMAIN sstables[level]
      BY <1>1, <1>2, <1>3, <1>4, <2>1
    <3>2. <<level, a>> \in TableIndex /\ Inputs[a] = sstables[level][a]
      BY <1>1, <1>2, <1>3, <1>4, <2>1, <3>1 DEF TableIndex
    <3> QED
      BY <3>2
  <2>2. CASE ~(a <= n)
    <3>1. a - n \in DOMAIN sstables[level + 1] /\ Inputs[a] = sstables[level + 1][a - n]
      BY <1>1, <1>3, <1>4, <2>2
    <3>2. <<level + 1, a - n>> \in TableIndex
      BY <1>1, <3>1 DEF TableIndex
    <3> QED
      BY <3>1, <3>2
  <2> QED
    BY <2>1, <2>2
<1>5. ASSUME NEW i \in DOMAIN sstables[level], ~(i > n)
      PROVE  \E a \in DOMAIN Inputs : Inputs[a] = sstables[level][i]
  <2>1. i \in 1..n /\ i \in DOMAIN Inputs
    BY <1>1, <1>3, <1>5
  <2> QED
    BY <1>2, <1>3, <2>1
<1>6. ASSUME NEW i \in DOMAIN sstables[level + 1]
      PROVE  \E a \in DOMAIN Inputs : Inputs[a] = sstables[level + 1][i]
  <2>1. i \in 1..Len(to) /\ n + i \in DOMAIN Inputs /\ ~(n + i <= n) /\ (n + i) - n = i
    BY <1>1, <1>3, <1>6
  <2> QED
    BY <1>1, <1>3, <2>1
<1> QED
  BY <1>4, <1>5, <1>6 DEF n, from

LEMMA InstallInv ==
  ASSUME WorkInv, Install
  PROVE  WorkInv'
<1> DEFINE rows == MergeOf(Inputs)
<1>1. /\ level \in Level /\ level + 1 \in Level
      /\ Inputs \in Seq(EntryMap) /\ rows \in EntryMap /\ SplitsRows(made, rows)
      /\ sstables'[level] = <<>> /\ sstables'[level + 1] = made
      /\ \A l \in Level : l # level /\ l # level + 1 => sstables'[l] = sstables[l]
      /\ sstables' \in [Level -> Seq(EntryMap)]
  BY InstallFacts
<1>2. UNCHANGED others /\ cpc = "install" /\ cpc' = "delete"
      /\ UNCHANGED <<sequence_counter, level, snapshot, todo, made>>
  BY DEF Install, others
<1>3. Shape' /\ UNCHANGED heap
  BY <1>1, <1>2, OthersShape DEF WorkInv, Shape, TypeOK, others
<1>4. CompactorTypeOK' /\ WorkShape' /\ SnapshotStands'
  BY <1>2 DEF WorkInv, CompactorTypeOK, WorkShape, SnapshotStands, Inputs
<1>5. ASSUME NEW i \in TableIndex' PROVE Stamped(sstables'[i[1]][i[2]])
  <2>1. i[1] \in Level /\ i[2] \in DOMAIN sstables'[i[1]]
    BY DEF TableIndex
  <2>2. CASE i[1] # level /\ i[1] # level + 1
    <3>1. <<i[1], i[2]>> \in TableIndex /\ sstables'[i[1]][i[2]] = sstables[i[1]][i[2]]
      BY <1>1, <2>1, <2>2 DEF TableIndex
    <3> QED
      BY <3>1 DEF WorkInv, AllStamped
  <2>3. CASE i[1] = level + 1
    <3>1. \A a \in DOMAIN Inputs : Stamped(Inputs[a])
      BY <1>2, InputsAreTables DEF WorkInv, AllStamped
    <3>2. PartOf(made[i[2]], LiveKeys(rows), rows)
      BY <1>1, <2>1, <2>3 DEF SplitsRows
    <3>3. ASSUME NEW k \in KeysOf(made[i[2]]) PROVE made[i[2]][k].stamp > 0
      <4>1. k \in KeysOf(rows) /\ made[i[2]][k] = rows[k] /\ k \in Key /\ rows[k] # None
        BY <3>2 DEF PartOf, LiveKeys, KeysOf
      <4>2. PICK a \in DOMAIN Inputs : rows[k] = Inputs[a][k]
        BY <1>1, <4>1, MergeOfFacts
      <4> QED
        BY <3>1, <4>1, <4>2 DEF Stamped, KeysOf
    <3> QED
      BY <1>1, <2>3, <3>3 DEF Stamped
  <2> QED
    BY <1>1, <2>1, <2>2, <2>3
<1> QED
  BY <1>3, <1>4, <1>5 DEF WorkInv, AllStamped, Ids

LEMMA WorkInvStep == WorkInv /\ [CompactionNext]_cvars => WorkInv'
<1> SUFFICES ASSUME WorkInv, [CompactionNext]_cvars PROVE WorkInv'
  OBVIOUS
<1>1. CASE UNCHANGED cvars
  <2>1. [Next]_vars /\ UNCHANGED compactor
    BY <1>1 DEF cvars
  <2> QED
    BY <2>1, ClientStepInv
<1>2. CASE Next /\ UNCHANGED compactor
  BY <1>2, ClientStepInv
<1>3. CASE Compact
  BY <1>3, LookInv, CloneInv, CreateInv, InstallInv DEF Compact
<1> QED
  BY <1>1, <1>2, <1>3 DEF CompactionNext

(* Tables below level 0 stay sorted: only an installation makes new ones.   *)
LEMMA LevelsSortedStep ==
  ASSUME WorkInv, LevelsSorted, [CompactionNext]_cvars
  PROVE  LevelsSorted'
<1>1. CASE UNCHANGED sstables
  BY <1>1 DEF LevelsSorted
<1>2. CASE Next
  <2>1. CASE \E m \in Memtables : sstables' = [sstables EXCEPT ![0] = Append(@, heap[m].data)]
    <3>1. \A l \in Level \ {0} : sstables'[l] = sstables[l]
      BY <2>1 DEF WorkInv, Shape, TypeOK
    <3> QED
      BY <3>1 DEF LevelsSorted
  <2> QED
    BY <1>1, <1>2, <2>1, TableSteps DEF WorkInv
<1>3. CASE Install
  <2> DEFINE rows == MergeOf(Inputs)
  <2>1. /\ SplitsRows(made, rows)
        /\ sstables'[level] = <<>> /\ sstables'[level + 1] = made
        /\ \A l \in Level : l # level /\ l # level + 1 => sstables'[l] = sstables[l]
    BY <1>3, InstallFacts
  <2> HIDE DEF rows
  <2> SUFFICES ASSUME NEW l \in Level \ {0}, NEW i \in DOMAIN sstables'[l]
               PROVE  /\ KeysOf(sstables'[l][i]) # {}
                      /\ \A j \in DOMAIN sstables'[l] : i < j =>
                           \A a \in KeysOf(sstables'[l][i]), b \in KeysOf(sstables'[l][j]) : a < b
    BY DEF LevelsSorted
  <2>2. CASE l = level + 1
    BY <2>1, <2>2 DEF SplitsRows, Ordered
  <2>3. CASE l = level
    BY <2>1, <2>3
  <2>4. CASE l # level /\ l # level + 1
    BY <2>1, <2>4 DEF LevelsSorted
  <2> QED
    BY <2>2, <2>3, <2>4
<1>4. UNCHANGED sstables \/ Next \/ Install
  BY DEF CompactionNext, cvars, vars, shared, Compact, Tick, CountLevel0, MeasureLevel, Deleted,
         CloneAndMerge, CreateTable
<1> QED
  BY <1>1, <1>2, <1>3, <1>4

CompactInv == WorkInv /\ LevelsSorted

(* What compaction works on: the snapshot it cloned is where it was, what it*)
(* merges are entries that a table had, and every level it makes is sorted. *)
THEOREM CompactInvariant == CompactionSpec => []CompactInv
<1>1. CompactionInit => CompactInv
  BY CompactionInitInv DEF CompactInv, CompactionInit, Init, LevelsSorted
<1>2. CompactInv /\ [CompactionNext]_cvars => CompactInv'
  BY WorkInvStep, LevelsSortedStep DEF CompactInv
<1> QED
  BY <1>1, <1>2, PTL DEF CompactionSpec

(* The compaction task's variables have their types; above all, the level   *)
(* it compacts always has one below it, so the lists are never indexed past *)
(* the configured levels.                                                   *)
THEOREM CompactorTypeCorrect == CompactionSpec => []CompactorTypeOK
<1>1. CompactInv => CompactorTypeOK
  BY DEF CompactInv, WorkInv
<1> QED
  BY <1>1, CompactInvariant, PTL

(* When the task takes the write lock, the levels still begin with the      *)
(* tables it has cloned, whatever the clients flushed meanwhile.            *)
THEOREM SnapshotStandsHolds == CompactionSpec => []SnapshotStands
<1>1. CompactInv => SnapshotStands
  BY DEF CompactInv, WorkInv
<1> QED
  BY <1>1, CompactInvariant, PTL

(* Below level 0 no two tables of a level have a key in common, the tables  *)
(* ascend and none is empty: a lookup may stop at the first that covers the *)
(* key.                                                                     *)
THEOREM LevelsSortedHolds == CompactionSpec => []LevelsSorted
<1>1. CompactInv => LevelsSorted
  BY DEF CompactInv, WorkInv
<1> QED
  BY <1>1, CompactInvariant, PTL

-----------------------------------------------------------------------------
(* An entry of a merged table is in a made one, unless it is a delete marker *)
(* or another merged entry of its key has no lower sequence number.         *)
LEMMA MergedEntry ==
  ASSUME WorkInv, cpc \in {"install", "delete"}, \A b \in DOMAIN Inputs : Stamped(Inputs[b]),
         NEW k \in Key, NEW stamp, stamp > 0, NEW a \in DOMAIN Inputs, StampOf(Inputs[a][k]) = stamp
  PROVE  \/ \E j \in DOMAIN made : StampOf(made[j][k]) = stamp
         \/ Marker(k, stamp) \/ Outnumbered(k, stamp)
<1> DEFINE rows == MergeOf(Inputs)
<1>1. Inputs \in Seq(EntryMap) /\ rows \in EntryMap /\ SplitsRows(made, rows)
  BY AllMade
<1>2. Inputs[a][k] # None /\ Inputs[a][k].stamp = stamp
  BY DEF StampOf
<1>3. PICK b \in DOMAIN Inputs : /\ rows[k] = Inputs[b][k] /\ rows[k] # None
                                /\ Inputs[b][k].sequence >= Inputs[a][k].sequence
  BY <1>1, <1>2, MergeOfFacts
<1>4. StampOf(Inputs[b][k]) > 0
  BY <1>3 DEF Stamped, KeysOf, StampOf
<1>5. CASE StampOf(Inputs[b][k]) # stamp
  <2>1. StampOf(Inputs[b][k]) \notin {0, stamp}
    BY <1>4, <1>5
  <2> QED
    BY <1>2, <1>3, <2>1 DEF Outnumbered
<1>6. CASE StampOf(Inputs[b][k]) = stamp /\ rows[k].val = None
  BY <1>3, <1>6 DEF Marker
<1>7. CASE StampOf(Inputs[b][k]) = stamp /\ rows[k].val # None
  <2>1. k \in LiveKeys(rows)
    BY <1>3, <1>7 DEF LiveKeys, KeysOf
  <2>2. PICK j \in DOMAIN made : made[j][k] = rows[k]
    BY <1>1, <2>1 DEF SplitsRows
  <2> QED
    BY <1>3, <1>7, <2>2
<1> QED
  BY <1>5, <1>6, <1>7

(* What an installation throws away.                                        *)
LEMMA InstallLoses ==
  ASSUME WorkInv, Install, NEW k \in Key, NEW stamp, stamp > 0, InTable(k, stamp)
  PROVE  \/ \E i \in TableIndex' : StampOf(sstables'[i[1]][i[2]][k]) = stamp
         \/ FlushedMeanwhile(k, stamp) \/ Marker(k, stamp) \/ Outnumbered(k, stamp)
<1> DEFINE rows == MergeOf(Inputs)
           Kept == \E i \in TableIndex' : StampOf(sstables'[i[1]][i[2]][k]) = stamp
<1>1. /\ level \in Level /\ level + 1 \in Level
      /\ Inputs \in Seq(EntryMap) /\ rows \in EntryMap /\ SplitsRows(made, rows)
      /\ sstables'[level] = <<>> /\ sstables'[level + 1] = made
      /\ \A l \in Level : l # level /\ l # level + 1 => sstables'[l] = sstables[l]
  BY InstallFacts
<1>2. cpc = "install"
  BY DEF Install
<1>3. PICK i \in TableIndex : StampOf(sstables[i[1]][i[2]][k]) = stamp
  BY DEF InTable
<1>4. i[1] \in Level /\ i[2] \in DOMAIN sstables[i[1]]
  BY DEF TableIndex
<1>5. CASE i[1] # level /\ i[1] # level + 1
  <2>1. sstables'[i[1]] = sstables[i[1]]
    BY <1>1, <1>4, <1>5
  <2>2. <<i[1], i[2]>> \in TableIndex'
    BY <1>4, <2>1 DEF TableIndex
  <2>3. Kept
    BY <1>3, <2>1, <2>2
  <2> QED
    BY <2>3
<1>6. CASE i[1] = level /\ i[2] > Len(snapshot.from)
  BY <1>3, <1>4, <1>6 DEF FlushedMeanwhile
<1>7. CASE (i[1] = level /\ ~(i[2] > Len(snapshot.from))) \/ i[1] = level + 1
  <2>1. PICK a \in DOMAIN Inputs : Inputs[a] = sstables[i[1]][i[2]]
    BY <1>2, <1>4, <1>7, InputsAreTables
  <2>2. \A b \in DOMAIN Inputs : Stamped(Inputs[b])
    <3> TAKE b \in DOMAIN Inputs
    <3>1. PICK t \in TableIndex : Inputs[b] = sstables[t[1]][t[2]]
      BY <1>2, InputsAreTables
    <3> QED
      BY <3>1 DEF WorkInv, AllStamped
  <2>3. \/ \E j \in DOMAIN made : StampOf(made[j][k]) = stamp
        \/ Marker(k, stamp) \/ Outnumbered(k, stamp)
    BY <1>2, <1>3, <2>1, <2>2, MergedEntry
  <2>4. ASSUME NEW j \in DOMAIN made, StampOf(made[j][k]) = stamp PROVE Kept
    <3>1. <<level + 1, j>> \in TableIndex'
      BY <1>1 DEF TableIndex
    <3> QED
      BY <1>1, <2>4, <3>1
  <2> QED
    BY <2>3, <2>4
<1> QED
  BY <1>1, <1>4, <1>5, <1>6, <1>7

(* The newest entry of a key leaves the tables only with an installation,   *)
(* and only if its table was flushed to the compacted level 0 after the     *)
(* snapshot, if it is a delete marker, or if a merged entry of the key has  *)
(* no lower sequence number.                                                *)
THEOREM CompactionKeepsHolds == CompactionSpec => CompactionKeeps
<1> DEFINE Keeps ==
      sstables' # sstables =>
        \A k \in Key : \A newest \in {latest[k]} :
          newest > 0 /\ InTable(k, newest) =>
            \/ InTable(k, newest)'
            \/ /\ cpc = "install"
               /\ FlushedMeanwhile(k, newest) \/ Marker(k, newest) \/ Outnumbered(k, newest)
<1>1. WorkInv /\ [CompactionNext]_cvars => [Keeps]_cvars
  <2> SUFFICES ASSUME WorkInv, [CompactionNext]_cvars, sstables' # sstables,
                      NEW k \in Key, NEW newest \in {latest[k]}, newest > 0, InTable(k, newest)
               PROVE  \/ \E i \in TableIndex' : StampOf(sstables'[i[1]][i[2]][k]) = newest
                      \/ /\ cpc = "install"
                         /\ \/ FlushedMeanwhile(k, newest)
                            \/ Marker(k, newest) \/ Outnumbered(k, newest)
    BY DEF InTable, StampOf
  <2>1. CASE UNCHANGED cvars
    BY <2>1 DEF cvars, vars, shared
  <2>2. CASE Next
    <3>1. \A i \in TableIndex : i \in TableIndex' /\ sstables'[i[1]][i[2]] = sstables[i[1]][i[2]]
      BY <2>2, TablesStay DEF WorkInv
    <3> QED
      BY <3>1 DEF InTable
  <2>3. CASE Install
    BY <2>3, InstallLoses DEF Install
  <2>4. CASE Compact /\ ~Install
    BY <2>4 DEF Compact, Tick, CountLevel0, MeasureLevel, Deleted, CloneAndMerge, CreateTable,
                vars, shared
  <2> QED
    BY <2>1, <2>2, <2>3, <2>4 DEF CompactionNext
<1>2. CompactInv => WorkInv
  BY DEF CompactInv
<1> QED
  BY <1>1, <1>2, CompactInvariant, PTL DEF CompactionSpec, CompactionKeeps

-----------------------------------------------------------------------------
(* The age of the entries, for one client: what is merged into a level was  *)
(* in it or in the one above, so deeper levels are older still.             *)
AgedInv == WorkInv /\ Aged

LEMMA SharedByAge ==
  ASSUME ByAge, Shape', UNCHANGED others
  PROVE  /\ ByAge' /\ Memtables' = Memtables /\ Ids' = Ids
         /\ UNCHANGED <<heap, memtable, immutable_memtables, pc, hand, latest>>
<1>1. /\ UNCHANGED <<heap, memtable, immutable_memtables, pc, hand, latest>>
  BY DEF others, private, history
<1>2. /\ Memtables' = Memtables /\ Listed' = Listed /\ \A c \in Client : InHand(c)' = InHand(c)
      /\ Ids' = Ids
  BY <1>1 DEF Memtables, Listed, InHand, Ids
<1>3. HeldOnce'
  BY <1>1, HeldOnceSame DEF ByAge
<1>4. MemtablesByAge'
  BY <1>1, <1>2 DEF ByAge, MemtablesByAge, ActiveNewest, ListByAge, HandByAge
<1> QED
  BY <1>1, <1>2, <1>3, <1>4 DEF ByAge

LEMMA SharedAges ==
  ASSUME Aged, Shape', UNCHANGED others, UNCHANGED sstables
  PROVE  Aged'
<1>1. /\ ByAge' /\ Memtables' = Memtables /\ Ids' = Ids
      /\ UNCHANGED <<heap, memtable, immutable_memtables, pc, hand, latest>>
  BY SharedByAge DEF Aged
<1>2. TableIndex' = TableIndex
  BY DEF TableIndex
<1>3. TablesOldest' /\ TablesByAge'
  BY <1>1, <1>2 DEF Aged, TablesOldest, TablesByAge
<1>4. AllKnown'
  BY <1>1, <1>2 DEF Aged, AllKnown
<1> QED
  BY <1>1, <1>3, <1>4 DEF Aged

(* Every row after an installation was a row of the same level before, or   *)
(* of the merged one above it.                                              *)
LEMMA InstalledFrom ==
  ASSUME WorkInv, Install, NEW i \in TableIndex', NEW k \in KeysOf(sstables'[i[1]][i[2]])
  PROVE  \E t \in TableIndex :
           /\ k \in KeysOf(sstables[t[1]][t[2]]) /\ sstables'[i[1]][i[2]][k] = sstables[t[1]][t[2]][k]
           /\ \/ t = i /\ i[1] # level /\ i[1] # level + 1
              \/ t[1] \in {level, level + 1} /\ i[1] = level + 1
<1> DEFINE rows == MergeOf(Inputs)
<1>1. /\ level \in Level /\ level + 1 \in Level
      /\ Inputs \in Seq(EntryMap) /\ rows \in EntryMap /\ SplitsRows(made, rows)
      /\ sstables'[level] = <<>> /\ sstables'[level + 1] = made
      /\ \A l \in Level : l # level /\ l # level + 1 => sstables'[l] = sstables[l]
  BY InstallFacts
<1>2. i[1] \in Level /\ i[2] \in DOMAIN sstables'[i[1]] /\ i = <<i[1], i[2]>>
  BY DEF TableIndex
<1>3. CASE i[1] # level /\ i[1] # level + 1
  <2>1. i \in TableIndex /\ sstables'[i[1]][i[2]] = sstables[i[1]][i[2]]
    BY <1>1, <1>2, <1>3 DEF TableIndex
  <2> QED
    BY <1>3, <2>1
<1>4. CASE i[1] = level + 1
  <2> DEFINE table == made[i[2]]
  <2>1. sstables'[i[1]][i[2]] = table /\ PartOf(table, LiveKeys(rows), rows)
    BY <1>1, <1>2, <1>4 DEF SplitsRows
  <2>2. k \in KeysOf(rows) /\ table[k] = rows[k] /\ k \in Key /\ rows[k] # None
    BY <2>1 DEF PartOf, LiveKeys, KeysOf
  <2>3. PICK a \in DOMAIN Inputs : rows[k] = Inputs[a][k]
    BY <1>1, <2>2, MergeOfFacts
  <2>4. cpc = "install"
    BY DEF Install
  <2>5. PICK t \in TableIndex : t[1] \in {level, level + 1} /\ Inputs[a] = sstables[t[1]][t[2]]
    BY <2>4, InputsAreTables
  <2>6. k \in KeysOf(sstables[t[1]][t[2]])
    BY <2>2, <2>3, <2>5 DEF KeysOf
  <2> QED
    BY <1>4, <2>1, <2>2, <2>3, <2>5, <2>6
<1> QED
  BY <1>1, <1>2, <1>3, <1>4

LEMMA InstallKnown ==
  ASSUME WorkInv, AllKnown, Install
  PROVE  AllKnown'
<1>1. UNCHANGED <<heap, latest>> /\ Ids' = Ids
  BY DEF Install, history, Ids
<1>2. ASSUME NEW i \in TableIndex', NEW k \in KeysOf(sstables'[i[1]][i[2]])
      PROVE  sstables'[i[1]][i[2]][k].stamp <= latest[k]
  <2>1. PICK t \in TableIndex : /\ k \in KeysOf(sstables[t[1]][t[2]])
                                /\ sstables'[i[1]][i[2]][k] = sstables[t[1]][t[2]][k]
    BY InstalledFrom
  <2> QED
    BY <2>1 DEF AllKnown, Within
<1> QED
  BY <1>1, <1>2 DEF AllKnown, Within

LEMMA InstallAges ==
  ASSUME AgedInv, Install
  PROVE  Aged'
<1>1. /\ ByAge' /\ Memtables' = Memtables
      /\ UNCHANGED <<heap, memtable, immutable_memtables, pc, hand, latest>>
      /\ level \in Nat
  <2>1. Shape' /\ UNCHANGED others
    BY InstallInv DEF AgedInv, WorkInv, Install, others
  <2>2. level \in Nat
    BY DEF AgedInv, WorkInv, CompactorTypeOK, Level
  <2> QED
    BY <2>1, <2>2, SharedByAge DEF AgedInv, Aged
<1>5. TablesOldest'
  <2> SUFFICES ASSUME NEW m \in Memtables, NEW i \in TableIndex',
                      NEW k \in KeysOf(heap[m].data), k \in KeysOf(sstables'[i[1]][i[2]])
               PROVE  heap[m].data[k].stamp >= sstables'[i[1]][i[2]][k].stamp
    BY <1>1 DEF TablesOldest, NotOlder
  <2>1. PICK t \in TableIndex : /\ k \in KeysOf(sstables[t[1]][t[2]])
                                /\ sstables'[i[1]][i[2]][k] = sstables[t[1]][t[2]][k]
    BY InstalledFrom DEF AgedInv
  <2> QED
    BY <2>1 DEF AgedInv, Aged, ByAge, TablesOldest, NotOlder
<1>6. TablesByAge'
  <2> SUFFICES ASSUME NEW i \in TableIndex', NEW j \in TableIndex', Deeper(i, j),
                      NEW k \in KeysOf(sstables'[i[1]][i[2]]), k \in KeysOf(sstables'[j[1]][j[2]])
               PROVE  sstables'[i[1]][i[2]][k].stamp >= sstables'[j[1]][j[2]][k].stamp
    BY DEF TablesByAge, NotOlder
  <2>1. PICK t \in TableIndex :
          /\ k \in KeysOf(sstables[t[1]][t[2]]) /\ sstables'[i[1]][i[2]][k] = sstables[t[1]][t[2]][k]
          /\ \/ t = i /\ i[1] # level /\ i[1] # level + 1
             \/ t[1] \in {level, level + 1} /\ i[1] = level + 1
    BY InstalledFrom DEF AgedInv
  <2>2. PICK u \in TableIndex :
          /\ k \in KeysOf(sstables[u[1]][u[2]]) /\ sstables'[j[1]][j[2]][k] = sstables[u[1]][u[2]][k]
          /\ \/ u = j /\ j[1] # level /\ j[1] # level + 1
             \/ u[1] \in {level, level + 1} /\ j[1] = level + 1
    BY InstalledFrom DEF AgedInv
  <2>3. \A x \in TableIndex : x[1] \in Nat
    BY DEF TableIndex, Level
  <2>4. i[1] \in Nat /\ j[1] \in Nat
    BY DEF TableIndex, Level
  <2>5. Deeper(t, u)
    BY <1>1, <2>1, <2>2, <2>3, <2>4 DEF Deeper
  <2>6. NotOlder(sstables[t[1]][t[2]], sstables[u[1]][u[2]])
    BY <2>5 DEF AgedInv, Aged, ByAge, TablesByAge
  <2> QED
    BY <2>1, <2>2, <2>6 DEF NotOlder
<1>7. AllKnown'
  BY InstallKnown DEF AgedInv, Aged
<1> QED
  BY <1>1, <1>5, <1>6, <1>7 DEF Aged

LEMMA AgedInvStep == ASSUME OneClient PROVE AgedInv /\ [CompactionNext]_cvars => AgedInv'
<1> SUFFICES ASSUME AgedInv, [CompactionNext]_cvars PROVE AgedInv'
  OBVIOUS
<1>1. WorkInv'
  BY WorkInvStep DEF AgedInv
<1>2. CASE UNCHANGED cvars
  <2>1. [Next]_vars
    BY <1>2 DEF cvars
  <2> QED
    BY <1>1, <2>1, AgedStep DEF AgedInv
<1>3. CASE Next
  BY <1>1, <1>3, AgedStep DEF AgedInv
<1>4. CASE Install
  BY <1>1, <1>4, InstallAges DEF AgedInv
<1>5. CASE Compact /\ ~Install
  <2>1. UNCHANGED others /\ UNCHANGED sstables
    BY <1>5 DEF Compact, Tick, CountLevel0, MeasureLevel, Deleted, CloneAndMerge, CreateTable,
                vars, shared, others
  <2> QED
    BY <1>1, <2>1, SharedAges DEF AgedInv, WorkInv
<1> QED
  BY <1>2, <1>3, <1>4, <1>5 DEF CompactionNext

(* With one client, the places of a lookup stay ordered by age while tables *)
(* move from level to level.                                                *)
THEOREM AgedInvariant == ASSUME OneClient PROVE CompactionSpec => []AgedInv
<1>1. CompactionInit => AgedInv
  BY CompactionInitInv, AgedInit DEF AgedInv, CompactionInit
<1>2. AgedInv /\ [CompactionNext]_cvars => AgedInv'
  BY AgedInvStep
<1> QED
  BY <1>1, <1>2, PTL DEF CompactionSpec

(* With one client, an entry in a level is never older than one of the same *)
(* key in a deeper level: merges and the flushes beside them keep the order *)
(* by which a lookup may stop at the first level that has the key.          *)
THEOREM LevelsByAgeHolds == ASSUME OneClient PROVE CompactionSpec => []LevelsByAge
<1>1. AgedInv => LevelsByAge
  BY DEF AgedInv, Aged, ByAge, TablesByAge, LevelsByAge, Deeper, NotOlder
<1> QED
  BY <1>1, AgedInvariant, PTL

(* And compaction leaves the order of the memtables and of level 0 as it    *)
(* is, also when it empties the level while tables are flushed to it.       *)
THEOREM NewestFirstHoldsCompacting == ASSUME OneClient PROVE CompactionSpec => []NewestFirst
<1>1. AgedInv => NewestFirst
  BY AgedImpliesNewestFirst DEF AgedInv
<1> QED
  BY <1>1, AgedInvariant, PTL


-----------------------------------------------------------------------------
(* A lookup below level 0.  The key ranges of the tables of a level do not  *)
(* meet, so that only the table that has a key may cover it; it does if the *)
(* key is not behind the last key of its index.                             *)
LEMMA CoversIs ==
  ASSUME LengthsAreNat, NEW data \in EntryMap, KeysOf(data) # {}, NEW key \in Key
  PROVE  /\ CoversKey(data, key) <=>
              MinKeyOf(Built(data).index) <= key /\ key <= MaxKeyOf(Built(data).index)
         /\ CoversKey(data, key) =>
              \E a, b \in KeysOf(data) : a <= key /\ key <= b
         /\ key \in KeysOf(data) => (CoversKey(data, key) <=> key <= MaxKeyOf(Built(data).index))
<1>1. PICK index : index = Built(data).index
  OBVIOUS
<1>2. CoversKey(data, key) <=> MinKeyOf(index) <= key /\ key <= MaxKeyOf(index)
  BY <1>1 DEF CoversKey
<1>3. /\ MinKeyOf(index) \in KeysOf(data) /\ MaxKeyOf(index) \in KeysOf(data)
      /\ \A k \in KeysOf(data) : MinKeyOf(index) <= k
  BY <1>1, IndexBounds
<1> QED
  BY <1>1, <1>2, <1>3

LEMMA LookupLevelIs ==
  ASSUME LengthsAreNat, Shape, LevelsSorted, NEW l \in Level \ {0},
         NEW i \in DOMAIN sstables[l], NEW k \in KeysOf(sstables[l][i]), InReach(sstables[l][i], k)
  PROVE  LookupLevel(l, k) = IF Decodable(sstables[l][i], BlockOf(sstables[l][i], k), Compression)
                             THEN sstables[l][i][k] ELSE Unreadable
<1>0. ~BloomLoaded /\ k <= MaxKeyOf(Built(sstables[l][i]).index)
  BY DEF InReach, MightContain
<1>1. PICK tables : tables = sstables[l]
  OBVIOUS
<1>2. tables \in Seq(EntryMap) /\ i \in DOMAIN tables
  BY <1>1 DEF Shape, TypeOK
<1>3. PICK n \in Nat : n = Len(tables) /\ DOMAIN tables = 1..n
  BY <1>2
<1>4. \A j \in 1..n : tables[j] \in EntryMap /\ KeysOf(tables[j]) # {} /\ KeysOf(tables[j]) \subseteq Key
  BY <1>1, <1>2, <1>3 DEF LevelsSorted, KeysOf
<1>5. \A a \in Key : a \in Nat
  BY LsmDataAssumption
<1>6. k \in Key /\ k \in KeysOf(tables[i]) /\ i \in 1..n
  BY <1>1, <1>2, <1>3, <1>4
<1>7. \A g, h \in 1..n : g < h => \A a \in KeysOf(tables[g]), b \in KeysOf(tables[h]) : a < b
  BY <1>1, <1>3 DEF LevelsSorted
<1>8. ASSUME NEW j \in 1..n, j # i PROVE ~CoversKey(tables[j], k)
  <2> SUFFICES ASSUME CoversKey(tables[j], k) PROVE FALSE
    OBVIOUS
  <2>1. PICK a \in KeysOf(tables[j]), b \in KeysOf(tables[j]) : a <= k /\ k <= b
    BY <1>4, <1>6, CoversIs
  <2>2. a \in Nat /\ b \in Nat /\ k \in Nat
    BY <1>4, <1>5, <1>6, <2>1
  <2>3. j < i \/ i < j
    BY <1>6, <1>8
  <2>4. j < i => b < k
    BY <1>6, <1>7
  <2>5. i < j => k < a
    BY <1>6, <1>7
  <2> QED
    BY <2>1, <2>2, <2>3, <2>4, <2>5
<1>9. PICK asked : asked = {j \in DOMAIN tables :
                              CoversKey(tables[j], k) /\ \A m \in 1..(j - 1) : ~CoversKey(tables[m], k)}
  OBVIOUS
<1>10. PICK found : found = [j \in DOMAIN tables |->
                              IF j \in asked THEN TableGet(tables[j], k, Compression) ELSE None]
  OBVIOUS
<1>11. PICK e : e = FirstFound(found)
  OBVIOUS
<1>12. LookupLevel(l, k) = e
  BY <1>1, <1>9, <1>10, <1>11 DEF LookupLevel
<1>13. Finds(found, e)
  BY <1>3, <1>10, <1>11, FirstFoundIs
<1>14. DOMAIN found = 1..n /\ \A j \in 1..n : j # i => found[j] = None
  BY <1>3, <1>8, <1>9, <1>10
<1>15. i \in asked
  <2>1. \A m \in 1..(i - 1) : m \in 1..n /\ m # i
    BY <1>3, <1>6
  <2>2. CoversKey(tables[i], k)
    BY <1>0, <1>1, <1>4, <1>6, CoversIs
  <2> QED
    BY <1>2, <1>8, <1>9, <2>1, <2>2
<1>16. PICK x : x = IF Decodable(tables[i], BlockOf(tables[i], k), Compression)
                    THEN tables[i][k] ELSE Unreadable
  OBVIOUS
<1>17. found[i] = x /\ x # None
  <2>1. TableGet(tables[i], k, Compression) = x
    BY <1>0, <1>4, <1>6, <1>16, TableGetHas DEF BlockOf
  <2>2. tables[i][k] # None /\ Unreadable # None
    BY <1>6, SSTableAssumption DEF KeysOf
  <2> QED
    BY <1>2, <1>10, <1>15, <1>16, <2>1, <2>2
<1>18. e = x
  BY <1>6, <1>13, <1>14, <1>17 DEF Finds, FoundAt
<1> QED
  BY <1>1, <1>12, <1>16, <1>18

(* Below level 0 a lookup finds every key of every table that its filter    *)
(* does not deny and that is not behind the first key of the table's last   *)
(* block, or reports its block as unreadable, whatever compactions and      *)
(* clients did before: for any number of clients, tables and keys and any   *)
(* sizes of tables and blocks.                                              *)
THEOREM LevelLookupHolds ==
  ASSUME LengthsAreNat
  PROVE  CompactionSpec => []LevelLookup
<1>1. CompactInv => LevelLookup
  BY LookupLevelIs DEF CompactInv, WorkInv, LevelLookup
<1> QED
  BY <1>1, CompactInvariant, PTL

-----------------------------------------------------------------------------
(* Scans.  Before it reads the tables a scan of one client has collected,   *)
(* of each key of its range, an entry that the memtables still hold, and    *)
(* none that they hold has a higher sequence number.                        *)
Spanned(c, k) == call[c].key <= k /\ k < call[c].end
InMemory(k, e) == \E m \in {memtable} \cup Listed : heap[m].data[k] = e
FromMemory(c) == \A k \in Key : acc[c][k] # None => Spanned(c, k) /\ InMemory(k, acc[c][k])
Gathered(c, m) ==
  \A k \in Key : Spanned(c, k) /\ heap[m].data[k] # None =>
    acc[c][k] # None /\ heap[m].data[k].sequence <= acc[c][k].sequence
ScanSteps == {"scan_imm", "scan_sst"}

Gathering(c) ==
  pc[c] \in ScanSteps =>
    /\ FromMemory(c)
    /\ Gathered(c, memtable)
    /\ pc[c] = "scan_sst" => \A m \in Listed : Gathered(c, m)
Scans == \A c \in Client : Gathering(c)

LEMMA WithCollectedIs ==
  ASSUME NEW c \in Client, acc[c] \in EntryMap, NEW maps, <<-1, 0>> \notin DOMAIN maps, Mergeable(maps),
         NEW sources, sources = WithCollected(c, maps)
  PROVE  /\ DOMAIN sources = {<<-1, 0>>} \cup DOMAIN maps
         /\ sources[<<-1, 0>>] = acc[c] /\ \A i \in DOMAIN maps : sources[i] = maps[i]
         /\ Mergeable(sources)
<1>1. /\ DOMAIN sources = {<<-1, 0>>} \cup DOMAIN maps
      /\ sources[<<-1, 0>>] = acc[c] /\ \A i \in DOMAIN maps : sources[i] = maps[i]
  BY DEF WithCollected
<1>2. IsFiniteSet(DOMAIN sources)
  BY <1>1, FS_AddElement DEF Mergeable
<1>3. DOMAIN sources \subseteq Int \X Int
  BY <1>1 DEF Mergeable
<1> QED
  BY <1>1, <1>2, <1>3 DEF Mergeable

LEMMA ListedSources ==
  ASSUME Shape, NEW c \in Client, NEW sources, sources = ImmutableSources(c)
  PROVE  /\ Mergeable(sources)
         /\ DOMAIN sources = {<<-1, 0>>} \cup ({0} \X DOMAIN immutable_memtables)
         /\ sources[<<-1, 0>>] = acc[c]
         /\ \A i \in {0} \X DOMAIN immutable_memtables :
              sources[i] = ScannedMap(c, Reverse(immutable_memtables)[i[2]])
<1>1. PICK maps : maps = [i \in {0} \X DOMAIN immutable_memtables |->
                            ScannedMap(c, Reverse(immutable_memtables)[i[2]])]
  OBVIOUS
<1>2. /\ DOMAIN maps = {0} \X DOMAIN immutable_memtables
      /\ \A i \in DOMAIN maps : maps[i] = ScannedMap(c, Reverse(immutable_memtables)[i[2]])
  BY <1>1
<1>3. PICK n \in Nat : DOMAIN immutable_memtables = 1..n
  BY DEF Shape, TypeOK
<1>4. <<-1, 0>> \notin DOMAIN maps
  BY <1>2
<1>5. Mergeable(maps)
  <2>0. \A x : IsFiniteSet({x} \X (1..n))
    BY SingleRowFinite
  <2>1. IsFiniteSet(DOMAIN maps)
    BY <1>2, <1>3, <2>0
  <2>2. DOMAIN maps \subseteq Int \X Int
    BY <1>2, <1>3
  <2>3. ASSUME NEW i \in DOMAIN maps PROVE maps[i] \in EntryMap
    <3>1. i[2] \in DOMAIN immutable_memtables /\ immutable_memtables \in Seq(Ids)
      BY <1>2 DEF Shape, TypeOK
    <3>2. Reverse(immutable_memtables)[i[2]] \in Ids
      BY <3>1, ReverseElement
    <3>3. heap[Reverse(immutable_memtables)[i[2]]].data \in EntryMap
      BY <3>2, DataTypes
    <3> QED
      BY <1>2, <3>3, KeepType DEF ScannedMap
  <2> QED
    BY <2>1, <2>2, <2>3 DEF Mergeable
<1>6. sources = WithCollected(c, maps) /\ acc[c] \in EntryMap
  BY <1>1 DEF ImmutableSources, Shape, TypeOK
<1> QED
  BY <1>2, <1>4, <1>5, <1>6, WithCollectedIs

LEMMA TableIndexFinite ==
  ASSUME Shape
  PROVE  /\ IsFiniteSet(TableIndex) /\ TableIndex \subseteq Int \X Int
         /\ <<-1, 0>> \notin TableIndex
<1>1. /\ Level \subseteq Nat /\ IsFiniteSet(Level)
  <2>1. 0 \in Int /\ MaxLevels - 1 \in Int
    BY StorageEngineAssumption
  <2> QED
    BY <2>1, FS_Interval DEF Level
<1>2. ASSUME NEW l \in Level PROVE IsFiniteSet({l} \X DOMAIN sstables[l]) /\ DOMAIN sstables[l] \subseteq Nat
  <2>1. PICK n \in Nat : DOMAIN sstables[l] = 1..n
    BY DEF Shape, TypeOK
  <2>2. \A x : IsFiniteSet({x} \X (1..n))
    BY SingleRowFinite
  <2> QED
    BY <2>1, <2>2
<1>3. PICK rows : rows = {{l} \X DOMAIN sstables[l] : l \in Level}
  OBVIOUS
<1>4. PICK f : f = [l \in Level |-> {l} \X DOMAIN sstables[l]]
  OBVIOUS
<1>5. f \in Surjection(Level, rows)
  BY <1>3, <1>4 DEF Surjection
<1>6. IsFiniteSet(rows)
  BY <1>1, <1>5, FS_Surjection
<1>7. TableIndex = UNION rows
  BY <1>3 DEF TableIndex
<1>8. \A r \in rows : IsFiniteSet(r)
  BY <1>2, <1>3
<1>9. IsFiniteSet(TableIndex)
  BY <1>6, <1>7, <1>8, FS_UNION
<1>10. ASSUME NEW i \in TableIndex PROVE i \in Int \X Int /\ i # <<-1, 0>>
  <2>1. PICK l \in Level : i \in {l} \X DOMAIN sstables[l]
    BY DEF TableIndex
  <2>2. l \in Nat /\ DOMAIN sstables[l] \subseteq Nat
    BY <1>1, <1>2
  <2>3. l \in Nat /\ i[1] = l /\ i \in Int \X Int
    BY <2>1, <2>2
  <2> QED
    BY <2>3
<1> QED
  BY <1>9, <1>10

LEMMA TableSourcesAre ==
  ASSUME Shape, NEW c \in Client, NEW sources, sources = TableSources(c)
  PROVE  /\ Mergeable(sources)
         /\ DOMAIN sources = {<<-1, 0>>} \cup TableIndex
         /\ sources[<<-1, 0>>] = acc[c]
         /\ \A i \in TableIndex : sources[i] = Keep(sstables[i[1]][i[2]], RangeOf(c, i).keys)
<1>1. PICK maps : maps = [i \in TableIndex |-> Keep(sstables[i[1]][i[2]], RangeOf(c, i).keys)]
  OBVIOUS
<1>2. /\ DOMAIN maps = TableIndex
      /\ \A i \in TableIndex : maps[i] = Keep(sstables[i[1]][i[2]], RangeOf(c, i).keys)
  BY <1>1
<1>3. \A i \in TableIndex : maps[i] \in EntryMap
  BY <1>2, DataTypes, KeepType
<1>4. Mergeable(maps) /\ <<-1, 0>> \notin DOMAIN maps
  BY <1>2, <1>3, TableIndexFinite DEF Mergeable
<1>5. sources = WithCollected(c, maps) /\ acc[c] \in EntryMap
  BY <1>1 DEF TableSources, Shape, TypeOK
<1> QED
  BY <1>2, <1>4, <1>5, WithCollectedIs

(* A list and its reverse have the same elements.                           *)
LEMMA ReverseHas ==
  ASSUME NEW S, NEW s \in Seq(S)
  PROVE  /\ \A i \in DOMAIN s : Reverse(s)[i] \in {s[j] : j \in DOMAIN s}
         /\ \A i \in DOMAIN s : \E j \in DOMAIN s : Reverse(s)[j] = s[i]
<1>1. \A i \in 1..Len(s) : Len(s) + 1 - i \in 1..Len(s) /\ Len(s) + 1 - (Len(s) + 1 - i) = i
  OBVIOUS
<1>2. DOMAIN s = 1..Len(s) /\ \A i \in 1..Len(s) : Reverse(s)[i] = s[Len(s) + 1 - i]
  BY ReverseOrder
<1>3. ASSUME NEW i \in 1..Len(s) PROVE Reverse(s)[Len(s) + 1 - i] = s[i]
  BY <1>1, <1>2
<1> QED
  BY <1>1, <1>2, <1>3

LEMMA StepsOfScans ==
  ASSUME Shape, [Next]_vars
  PROVE  \/ UNCHANGED vars
         \/ \E c \in Client : \/ ScanMemtable(c) \/ ScanImmutable(c) \/ ScanTables(c)
                              \/ pc[c] \notin ScanSteps /\ pc'[c] \notin ScanSteps
<1>0. pc \in [Client -> Steps]
  BY DEF Shape, TypeOK
<1>1. ASSUME NEW c \in Client, LockStep(c), ~ScanImmutable(c)
      PROVE  pc[c] \notin ScanSteps /\ pc'[c] \notin ScanSteps
  <2>1. ASSUME NEW list, Limit(c, list) PROVE pc'[c] \notin ScanSteps
    BY <1>0, <2>1 DEF Limit, Goto, ScanSteps
  <2> QED
    BY <1>0, <1>1, <2>1 DEF LockStep, RotateSwap, RotatePush, RotateAgain, CloseDrain, GetImmutable,
       GetFrom, Return, Goto, ScanSteps
<1>2. ASSUME NEW c \in Client, FlushStep(c) PROVE pc[c] \notin ScanSteps /\ pc'[c] \notin ScanSteps
  BY <1>0, <1>2 DEF FlushStep, Flush, DrainFlush, DrainNext, CloseFlush, Return, Goto, ScanSteps
<1>3. ASSUME NEW c \in Client, FreeStep(c), ~ScanMemtable(c), ~ScanTables(c)
      PROVE  pc[c] \notin ScanSteps /\ pc'[c] \notin ScanSteps
  BY <1>0, <1>3 DEF FreeStep, CheckRotate, TakeSequence, Insert, GetMemtable, GetTables, CloseClone,
     GetFrom, Return, Goto, ScanSteps
<1>4. ASSUME NEW c \in Client, Invoke(c) PROVE pc[c] \notin ScanSteps /\ pc'[c] \notin ScanSteps
  <2>1. \A op : op \in OpName => FirstStep(op) \notin ScanSteps
    BY DEF FirstStep, OpName, ScanSteps
  <2>2. PICK r \in Requests : Enter(c, r) \/ Reject(c, r) \/ BeginClose(c, r)
    BY <1>4 DEF Invoke
  <2>3. r.op \in OpName
    BY RequestsType, StorageEngineAssumption DEF Request
  <2>4. pc[c] = "idle" /\ (pc'[c] = "idle" \/ pc'[c] = FirstStep(r.op))
    <3> HIDE DEF FirstStep
    <3>1. CASE Enter(c, r)
      BY <1>0, <3>1 DEF Enter, Begin, Goto
    <3>2. CASE Reject(c, r)
      BY <1>0, <3>2 DEF Reject, Begin, Return, Goto
    <3>3. CASE BeginClose(c, r)
      BY <1>0, <3>3 DEF BeginClose, Begin, Return, Goto
    <3> QED
      BY <2>2, <3>1, <3>2, <3>3
  <2>5. FirstStep(r.op) \notin ScanSteps /\ "idle" \notin ScanSteps
    BY <2>1, <2>3 DEF ScanSteps
  <2> QED
    BY <2>4, <2>5
<1> QED
  BY <1>1, <1>2, <1>3, <1>4 DEF Next


LEMMA MemoryHolds ==
  ASSUME NEW k \in Key, NEW m \in {memtable} \cup Listed
  PROVE  InMemory(k, heap[m].data[k])
BY DEF InMemory

LEMMA MemoryData ==
  ASSUME Shape, NEW m \in {memtable} \cup Listed, NEW k \in Key, heap[m].data[k] # None
  PROVE  heap[m].data[k].sequence \in Nat
<1>1. heap[m].data \in EntryMap
  BY IdsHeld, DataTypes DEF Memtables
<1> QED
  BY <1>1 DEF EntryMap, Entry

LEMMA ScannedRow ==
  ASSUME NEW c \in Client, NEW m, NEW k \in Key
  PROVE  ScannedMap(c, m)[k] = IF Spanned(c, k) THEN heap[m].data[k] ELSE None
<1>1. ScannedMap(c, m)[k] =
        IF k \in InRange(heap[m].data, call[c].key, call[c].end) THEN heap[m].data[k] ELSE None
  BY DEF ScannedMap, Keep
<1> QED
  BY <1>1 DEF InRange, KeysOf, Spanned

LEMMA MemtableGathers ==
  ASSUME Shape, NEW c \in Client, ScanMemtable(c)
  PROVE  Gathering(c)'
<1>0. pc \in [Client -> Steps] /\ acc \in [Client -> EntryMap]
  BY DEF Shape, TypeOK
<1>1. UNCHANGED <<heap, memtable, immutable_memtables, call>>
  BY DEF ScanMemtable, ScanStep, shared
<1>2. PICK d : d = heap[memtable].data
  OBVIOUS
<1>3. CASE call[c].key > call[c].end
  <2>1. pc'[c] = "idle"
    BY <1>0, <1>3 DEF ScanMemtable, ScanStep, Return, Goto
  <2> QED
    BY <2>1 DEF Gathering, ScanSteps
<1>4. CASE ~(call[c].key > call[c].end)
  <2>1. pc'[c] = "scan_imm" /\ acc'[c] = ScannedMap(c, memtable)
    BY <1>0, <1>4 DEF ScanMemtable, ScanStep, Goto
  <2>2. \A k \in Key : acc'[c][k] = IF Spanned(c, k) THEN d[k] ELSE None
    BY <1>2, <2>1, ScannedRow
  <2>3. FromMemory(c)'
    BY <1>1, <1>2, <2>2 DEF FromMemory, InMemory, Spanned
  <2>4. \A k \in Key : d[k] # None => d[k].sequence <= d[k].sequence
    BY <1>2, MemoryData
  <2>5. Gathered(c, memtable)'
    BY <1>1, <1>2, <2>2, <2>4 DEF Gathered, Spanned
  <2> QED
    BY <2>1, <2>3, <2>5 DEF Gathering
<1> QED
  BY <1>3, <1>4

LEMMA ListGathers ==
  ASSUME Shape, NEW c \in Client, Gathering(c), ScanImmutable(c)
  PROVE  Gathering(c)'
<1>0. pc \in [Client -> Steps] /\ acc \in [Client -> EntryMap] /\ immutable_memtables \in Seq(Ids)
  BY DEF Shape, TypeOK
<1>1. UNCHANGED <<heap, memtable, immutable_memtables, call>>
  BY DEF ScanImmutable, ScanStep, shared
<1>2. PICK sources, D, rows : /\ sources = ImmutableSources(c) /\ rows = Merged(sources)
                              /\ D = {<<-1, 0>>} \cup ({0} \X DOMAIN immutable_memtables)
  OBVIOUS
<1>3. pc[c] = "scan_imm" /\ pc'[c] = "scan_sst" /\ acc'[c] = rows
  BY <1>0, <1>2 DEF ScanImmutable, ScanStep, Goto
<1>4. /\ Mergeable(sources) /\ DOMAIN sources = D /\ sources[<<-1, 0>>] = acc[c]
      /\ \A i \in {0} \X DOMAIN immutable_memtables :
           sources[i] = ScannedMap(c, Reverse(immutable_memtables)[i[2]])
  BY <1>2, ListedSources
<1>5. ASSUME NEW k \in Key
      PROVE  /\ rows[k] # None => \E i \in D : rows[k] = sources[i][k]
             /\ \A i \in D : sources[i][k] # None => rows[k] # None /\ sources[i][k].sequence <= rows[k].sequence
  BY <1>2, <1>4, MergedFacts
<1>6. /\ \A i \in DOMAIN immutable_memtables : Reverse(immutable_memtables)[i] \in Listed
      /\ \A m \in Listed : \E i \in DOMAIN immutable_memtables : Reverse(immutable_memtables)[i] = m
  BY <1>0, ReverseHas DEF Listed
<1>7. \A k \in Key : acc[c][k] # None => Spanned(c, k) /\ InMemory(k, acc[c][k])
  BY <1>3 DEF Gathering, FromMemory, ScanSteps
<1>8. ASSUME NEW k \in Key, rows[k] # None PROVE Spanned(c, k) /\ InMemory(k, rows[k])
  <2>1. PICK i \in D : rows[k] = sources[i][k]
    BY <1>5, <1>8
  <2>2. CASE i = <<-1, 0>>
    BY <1>4, <1>7, <1>8, <2>1, <2>2
  <2>3. CASE i \in {0} \X DOMAIN immutable_memtables
    <3>1. PICK m : m = Reverse(immutable_memtables)[i[2]]
      OBVIOUS
    <3>2. i[2] \in DOMAIN immutable_memtables
      BY <2>3
    <3>3. m \in Listed
      BY <1>6, <3>1, <3>2
    <3>4. rows[k] = ScannedMap(c, m)[k]
      BY <1>4, <2>1, <2>3, <3>1
    <3>5. Spanned(c, k) /\ rows[k] = heap[m].data[k]
      BY <1>8, <3>4, ScannedRow
    <3> QED
      BY <3>3, <3>5, MemoryHolds
  <2> QED
    BY <1>2, <2>1, <2>2, <2>3
<1>9. ASSUME NEW k \in Key, Spanned(c, k), NEW m \in {memtable} \cup Listed, heap[m].data[k] # None
      PROVE  rows[k] # None /\ heap[m].data[k].sequence <= rows[k].sequence
  <2>1. CASE m = memtable
    <3>1. acc[c][k] # None /\ heap[m].data[k].sequence <= acc[c][k].sequence
      BY <1>3, <1>9, <2>1 DEF Gathering, Gathered, ScanSteps
    <3>2. rows[k] # None /\ acc[c][k].sequence <= rows[k].sequence
      BY <1>2, <1>4, <1>5, <3>1
    <3>3. heap[m].data[k].sequence \in Nat /\ acc[c][k].sequence \in Nat
      BY <1>0, <1>9, <3>1, MemoryData DEF EntryMap, Entry
    <3>4. rows[k].sequence \in Nat
      <4>1. PICK n \in {memtable} \cup Listed : heap[n].data[k] = rows[k]
        BY <1>8, <3>2 DEF InMemory
      <4> QED
        BY <3>2, <4>1, MemoryData
    <3> QED
      BY <3>1, <3>2, <3>3, <3>4
  <2>2. CASE m \in Listed
    <3>1. PICK j \in DOMAIN immutable_memtables : Reverse(immutable_memtables)[j] = m
      BY <1>6, <2>2
    <3>2. PICK i : i = <<0, j>>
      OBVIOUS
    <3>3. i \in D /\ i \in {0} \X DOMAIN immutable_memtables /\ i[2] = j
      BY <1>2, <3>1, <3>2
    <3>4. sources[i] = ScannedMap(c, m)
      BY <1>4, <3>1, <3>3
    <3>5. sources[i][k] = heap[m].data[k]
      BY <1>9, <3>4, ScannedRow
    <3> QED
      BY <1>5, <1>9, <3>3, <3>5
  <2> QED
    BY <2>1, <2>2
<1>10. Listed' = Listed
  BY <1>1 DEF Listed
<1>11. FromMemory(c)'
  BY <1>1, <1>3, <1>8, <1>10 DEF FromMemory, InMemory, Spanned
<1>12. \A m \in {memtable'} \cup Listed' : Gathered(c, m)'
  BY <1>1, <1>3, <1>9, <1>10 DEF Gathered, Spanned
<1> QED
  BY <1>11, <1>12 DEF Gathering

LEMMA ScansStep ==
  ASSUME OneClient, Shape, Scans, [CompactionNext]_cvars
  PROVE  Scans'
<1>1. CASE UNCHANGED <<heap, memtable, immutable_memtables, pc, call, acc>>
  <2>1. Listed' = Listed
    BY <1>1 DEF Listed
  <2> QED
    BY <1>1, <2>1 DEF Scans, Gathering, FromMemory, Gathered, Spanned, InMemory
<1>2. ASSUME [Next]_vars, ~UNCHANGED vars PROVE Scans'
  <2>1. PICK c \in Client : \/ ScanMemtable(c) \/ ScanImmutable(c) \/ ScanTables(c)
                            \/ pc[c] \notin ScanSteps /\ pc'[c] \notin ScanSteps
    BY <1>2, StepsOfScans
  <2>2. \A d \in Client : d = c
    BY DEF OneClient
  <2>3. Gathering(c)'
    <3>1. CASE ScanMemtable(c)
      BY <3>1, MemtableGathers
    <3>2. CASE ScanImmutable(c)
      BY <3>2, ListGathers DEF Scans
    <3>3. CASE ScanTables(c)
      <4>1. pc'[c] = "idle"
        BY <3>3 DEF ScanTables, Return, Goto, Shape, TypeOK
      <4> QED
        BY <4>1 DEF Gathering, ScanSteps
    <3>4. CASE pc'[c] \notin ScanSteps
      BY <3>4 DEF Gathering
    <3> QED
      BY <2>1, <3>1, <3>2, <3>3, <3>4
  <2> QED
    BY <2>2, <2>3 DEF Scans
<1>3. UNCHANGED vars => UNCHANGED <<heap, memtable, immutable_memtables, pc, call, acc>>
  BY DEF vars, shared, private
<1>4. Compact => UNCHANGED <<heap, memtable, immutable_memtables, pc, call, acc>>
  BY DEF Compact, Tick, CountLevel0, MeasureLevel, Deleted, CloneAndMerge, CreateTable, Install,
         vars, shared, private
<1> QED
  BY <1>1, <1>2, <1>3, <1>4 DEF CompactionNext, cvars


LEMMA EntriesRead ==
  ASSUME Shape, NEW k \in Key, NEW e
  PROVE  e \in EntriesOf(k) <=>
           e # None /\ (InMemory(k, e) \/ \E i \in TableIndex : sstables[i[1]][i[2]][k] = e)
<1>1. PICK n, t : ReadsInOrder(n, t)
  BY OrderOfReads
<1>2. n \in Nat /\ t \in Nat /\ DOMAIN ReadOrder = 1..(1 + n + t)
  BY <1>1 DEF ReadsInOrder
<1>3. immutable_memtables \in Seq(Ids)
  BY DEF Shape, TypeOK
<1>4. ASSUME NEW i \in DOMAIN ReadOrder, ReadOrder[i][k] = e
      PROVE  InMemory(k, e) \/ \E j \in TableIndex : sstables[j[1]][j[2]][k] = e
  <2>1. i = 1 \/ i \in 2..(n + 1) \/ i \in (n + 2)..(1 + n + t)
    BY <1>2
  <2>2. CASE i = 1
    BY <1>1, <1>4, <2>2 DEF ReadsInOrder, InMemory
  <2>3. CASE i \in 2..(n + 1)
    <3>1. PICK j \in DOMAIN immutable_memtables : ReadOrder[i] = heap[immutable_memtables[j]].data
      BY <1>1, <2>3 DEF ReadsInOrder
    <3>2. immutable_memtables[j] \in Listed
      BY DEF Listed
    <3> QED
      BY <1>4, <3>1, <3>2 DEF InMemory
  <2>4. CASE i \in (n + 2)..(1 + n + t)
    <3>1. PICK j : j = <<0, n + t + 2 - i>>
      OBVIOUS
    <3>2. j \in TableIndex /\ ReadOrder[i] = sstables[j[1]][j[2]]
      BY <1>1, <2>4, <3>1 DEF ReadsInOrder
    <3> QED
      BY <1>4, <3>2
  <2> QED
    BY <2>1, <2>2, <2>3, <2>4
<1>5. ASSUME InMemory(k, e)
      PROVE  \E i \in DOMAIN ReadOrder : ReadOrder[i][k] = e
  <2>1. PICK m \in {memtable} \cup Listed : heap[m].data[k] = e
    BY <1>5 DEF InMemory
  <2>2. CASE m = memtable
    <3>1. 1 \in DOMAIN ReadOrder
      BY <1>2
    <3> QED
      BY <1>1, <2>1, <2>2, <3>1 DEF ReadsInOrder
  <2>3. CASE m \in Listed
    <3>1. PICK j \in DOMAIN immutable_memtables : immutable_memtables[j] = m
      BY <2>3 DEF Listed
    <3>2. PICK q : q = Len(immutable_memtables)
      OBVIOUS
    <3>3. DOMAIN immutable_memtables = 1..q /\ q \in Nat
      BY <1>3, <3>2
    <3>4. n = q
      BY <1>1, <3>2 DEF ReadsInOrder
    <3>5. n + 2 - j \in 2..(n + 1) /\ n + 2 - (n + 2 - j) = j /\ n + 2 - j \in 1..(1 + n + t)
      BY <1>2, <3>3, <3>4
    <3>6. ReadOrder[n + 2 - j] = heap[m].data
      BY <1>1, <3>1, <3>5 DEF ReadsInOrder
    <3> QED
      BY <1>2, <2>1, <3>5, <3>6
  <2> QED
    BY <2>1, <2>2, <2>3
<1>6. e \in EntriesOf(k) <=>
        /\ e # None
        /\ \/ \E i \in DOMAIN ReadOrder : ReadOrder[i][k] = e
           \/ \E i \in TableIndex : sstables[i[1]][i[2]][k] = e
  BY DEF EntriesOf
<1> QED
  BY <1>4, <1>5, <1>6

LEMMA EntriesNumbered ==
  ASSUME Shape, NEW k \in Key, NEW e \in EntriesOf(k)
  PROVE  e.sequence \in Nat
<1>1. e # None /\ (InMemory(k, e) \/ \E i \in TableIndex : sstables[i[1]][i[2]][k] = e)
  BY EntriesRead
<1>2. CASE InMemory(k, e)
  BY <1>1, <1>2, MemoryData DEF InMemory
<1>3. ASSUME NEW i \in TableIndex, sstables[i[1]][i[2]][k] = e PROVE e.sequence \in Nat
  <2>1. sstables[i[1]][i[2]] \in EntryMap
    BY DataTypes
  <2> QED
    BY <1>1, <1>3, <2>1 DEF EntryMap, Entry
<1> QED
  BY <1>1, <1>2, <1>3

(* The tables must not have more blocks than the end key of a scan has      *)
(* bytes: the reader takes the one for the other.                           *)
ShortTables == \A data \in EntryMap, k \in Key : Len(Built(data).index) <= KeyLen[k]

LEMMA ScanAnswers ==
  ASSUME LengthsAreNat, ShortTables, Shape, NEW c \in Client, Gathering(c), ScanTables(c),
         answer'[c].tag = "ok", NEW k \in Key
  PROVE  answer'[c].rows[k] \in RowsOf(c, k)
<1>0. /\ answer \in [Client -> Answer] /\ acc \in [Client -> EntryMap] /\ pc[c] = "scan_sst"
      /\ call[c] \in Request /\ call[c].key \in Key /\ call[c].end \in Key
  <2>1. pc[c] = "scan_sst" /\ answer \in [Client -> Answer] /\ acc \in [Client -> EntryMap]
    BY DEF ScanTables, Shape, TypeOK
  <2>2. call[c] \in Request
    BY <2>1 DEF Shape, InCall
  <2> QED
    BY <2>1, <2>2 DEF Request
<1>1. PICK sources, D, rows : /\ sources = TableSources(c) /\ rows = Merged(sources)
                              /\ D = {<<-1, 0>>} \cup TableIndex
  OBVIOUS
<1>2. Stops(c) = {} /\ answer'[c].rows = Keep(rows, NonEmpty(rows))
  <2>1. PICK f, p : f = Error("failed") /\ p = Error("panic")
    OBVIOUS
  <2>2. f.tag # "ok" /\ p.tag # "ok"
    BY <2>1 DEF Error, Result
  <2>3. \/ answer'[c] = f \/ answer'[c] = p
        \/ Stops(c) = {} /\ answer'[c] = Result("ok", None, Keep(rows, NonEmpty(rows)))
    BY <1>0, <1>1, <2>1 DEF ScanTables, Return
  <2> QED
    BY <2>2, <2>3 DEF Result
<1>3. /\ Mergeable(sources) /\ DOMAIN sources = D /\ sources[<<-1, 0>>] = acc[c]
      /\ \A i \in TableIndex : sources[i] = Keep(sstables[i[1]][i[2]], RangeOf(c, i).keys)
  BY <1>1, TableSourcesAre
<1>4. /\ rows[k] # None => \E i \in D : rows[k] = sources[i][k]
      /\ \A i \in D : sources[i][k] # None => rows[k] # None /\ sources[i][k].sequence <= rows[k].sequence
  BY <1>1, <1>3, MergedFacts
<1>5. ASSUME NEW i \in TableIndex
      PROVE  sources[i][k] = IF Spanned(c, k) THEN sstables[i[1]][i[2]][k] ELSE None
  <2>1. PICK data, start, end : /\ data = sstables[i[1]][i[2]]
                                /\ start = call[c].key /\ end = call[c].end
    OBVIOUS
  <2>2. data \in EntryMap
    BY <2>1, DataTypes
  <2>3. PICK r : r = RangeOf(c, i) /\ r = TableRange(data, start, end, Compression)
    BY <2>1 DEF RangeOf
  <2>4. ~r.panic
    BY <1>2, <2>3 DEF Stops
  <2>5. r.keys = InRange(data, start, end)
    BY <1>0, <2>1, <2>2, <2>3, <2>4, RangeReadsAll DEF ShortTables
  <2>6. sources[i][k] = IF k \in InRange(data, start, end) THEN data[k] ELSE None
    <3>1. PICK keys : keys = r.keys
      OBVIOUS
    <3>2. sources[i] = Keep(data, keys)
      BY <1>3, <2>1, <2>3, <3>1
    <3>3. Keep(data, keys)[k] = IF k \in keys THEN data[k] ELSE None
      BY DEF Keep
    <3> QED
      BY <2>5, <3>1, <3>2, <3>3
  <2> QED
    BY <2>1, <2>6 DEF InRange, KeysOf, Spanned
<1>6. /\ acc[c][k] # None => Spanned(c, k) /\ InMemory(k, acc[c][k])
      /\ \A m \in {memtable} \cup Listed : Spanned(c, k) /\ heap[m].data[k] # None =>
           acc[c][k] # None /\ heap[m].data[k].sequence <= acc[c][k].sequence
  BY <1>0 DEF Gathering, FromMemory, Gathered, ScanSteps
<1>7. rows[k] # None => Spanned(c, k) /\ rows[k] \in EntriesOf(k)
  <2> SUFFICES ASSUME rows[k] # None PROVE Spanned(c, k) /\ rows[k] \in EntriesOf(k)
    OBVIOUS
  <2>1. PICK i \in D : rows[k] = sources[i][k]
    BY <1>4
  <2>2. CASE i = <<-1, 0>>
    <3>1. Spanned(c, k) /\ InMemory(k, rows[k])
      BY <1>3, <1>6, <2>1, <2>2
    <3> QED
      BY <3>1, EntriesRead
  <2>3. CASE i \in TableIndex
    <3>1. Spanned(c, k) /\ rows[k] = sstables[i[1]][i[2]][k]
      BY <1>5, <2>1, <2>3
    <3> QED
      BY <2>3, <3>1, EntriesRead
  <2> QED
    BY <1>1, <2>1, <2>2, <2>3
<1>8. ASSUME Spanned(c, k), NEW e \in EntriesOf(k) PROVE rows[k] # None /\ e.sequence <= rows[k].sequence
  <2>1. e # None /\ (InMemory(k, e) \/ \E i \in TableIndex : sstables[i[1]][i[2]][k] = e)
    BY EntriesRead
  <2>2. CASE InMemory(k, e)
    <3>1. PICK m \in {memtable} \cup Listed : heap[m].data[k] = e
      BY <2>2 DEF InMemory
    <3>2. acc[c][k] # None /\ e.sequence <= acc[c][k].sequence
      BY <1>6, <1>8, <2>1, <3>1
    <3>3. rows[k] # None /\ acc[c][k].sequence <= rows[k].sequence
      BY <1>1, <1>3, <1>4, <3>2
    <3>4. e.sequence \in Nat /\ acc[c][k].sequence \in Nat
      BY <1>0, <2>1, <3>1, <3>2, MemoryData DEF EntryMap, Entry
    <3>5. rows[k].sequence \in Nat
      <4>1. rows[k] \in EntriesOf(k)
        BY <1>7, <3>3
      <4> QED
        BY <4>1, EntriesNumbered
    <3> QED
      BY <3>2, <3>3, <3>4, <3>5
  <2>3. ASSUME NEW i \in TableIndex, sstables[i[1]][i[2]][k] = e
        PROVE  rows[k] # None /\ e.sequence <= rows[k].sequence
    <3>1. i \in D /\ sources[i][k] = e
      BY <1>1, <1>5, <1>8, <2>3
    <3> QED
      BY <1>4, <2>1, <3>1
  <2> QED
    BY <2>1, <2>2, <2>3
<1>9. answer'[c].rows[k] = IF rows[k] # None THEN RowFor(rows[k]) ELSE None
  <2>1. Keep(rows, NonEmpty(rows))[k] = IF k \in NonEmpty(rows) THEN rows[k] ELSE None
    BY DEF Keep
  <2> QED
    BY <1>2, <2>1 DEF NonEmpty, KeysOf, RowFor
<1>10. Spanned(c, k) <=> k \in call[c].key..(call[c].end - 1)
  BY <1>0, LsmDataAssumption DEF Spanned
<1>11. CASE rows[k] # None
  <2>1. rows[k] \in Highest(k) /\ EntriesOf(k) # {} /\ Spanned(c, k)
    BY <1>7, <1>8, <1>11 DEF Highest
  <2> QED
    BY <1>9, <1>10, <1>11, <2>1 DEF RowsOf
<1>12. CASE rows[k] = None
  <2>1. ~(Spanned(c, k) /\ EntriesOf(k) # {})
    BY <1>8, <1>12
  <2> QED
    BY <1>9, <1>10, <1>12, <2>1 DEF RowsOf
<1> QED
  BY <1>11, <1>12

(* With one client a scan that reads its tables answers, for every key of   *)
(* its range, with an entry of the highest sequence number that the         *)
(* memtables and the tables hold, or with no row if that is a delete marker *)
(* or an empty value, and with no other row: whatever a rotation, a flush   *)
(* or a compaction moved while it was on its way.  This is so while no      *)
(* table has more blocks than the keys have bytes; beyond that the reader   *)
(* stops short.                                                             *)
THEOREM ScanTakesHighestHolds ==
  ASSUME OneClient, LengthsAreNat, ShortTables
  PROVE  CompactionSpec => ScanTakesHighest
<1>1. CompactionInit => Scans
  BY DEF CompactionInit, Init, Scans, Gathering, ScanSteps
<1>2. CompactInv /\ Scans /\ [CompactionNext]_cvars => Scans'
  BY ScansStep DEF CompactInv, WorkInv
<1>3. ASSUME CompactInv, Scans, [CompactionNext]_cvars, NEW c \in Client,
             pc[c] = "scan_sst", pc'[c] = "idle", answer'[c].tag = "ok", NEW k \in Key
      PROVE  answer'[c].rows[k] \in RowsOf(c, k)
  <2>1. Shape /\ pc \in [Client -> Steps]
    BY <1>3 DEF CompactInv, WorkInv, Shape, TypeOK
  <2>2. ~UNCHANGED pc
    BY <1>3
  <2>3. [Next]_vars /\ ~UNCHANGED vars
    BY <1>3, <2>2 DEF CompactionNext, Compact, Tick, CountLevel0, MeasureLevel, Deleted, CloneAndMerge,
       CreateTable, Install, cvars, vars, private
  <2>4. PICK d \in Client : \/ ScanMemtable(d) \/ ScanImmutable(d) \/ ScanTables(d)
                            \/ pc[d] \notin ScanSteps /\ pc'[d] \notin ScanSteps
    BY <2>1, <2>3, StepsOfScans
  <2>5. d = c
    BY DEF OneClient
  <2>6. ScanTables(c)
    BY <1>3, <2>4, <2>5 DEF ScanMemtable, ScanImmutable, ScanStep, ScanSteps
  <2> QED
    BY <1>3, <2>1, <2>6, ScanAnswers DEF Scans
<1>4. CompactInv /\ Scans /\ [CompactionNext]_cvars =>
        [\A c \in Client : pc[c] = "scan_sst" /\ pc'[c] = "idle" /\ answer'[c].tag = "ok" =>
           \A k \in Key : answer'[c].rows[k] \in RowsOf(c, k)]_vars
  BY <1>3
<1> QED
  BY <1>1, <1>2, <1>4, CompactInvariant, PTL DEF CompactionSpec, ScanTakesHighest
=============================================================================
