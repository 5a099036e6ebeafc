--------------------------- MODULE MemTableProofs ---------------------------
(***************************************************************************)
(* Theorems about MemTable for every number of threads, keys and values.   *)
(***************************************************************************)
EXTENDS MemTable, LsmDataProofs

-----------------------------------------------------------------------------
(* SequencesDistinct does not preserve itself: that a number taken from the *)
(* counter is new follows if all numbers in use are below the counter, those*)
(* that calls in flight have taken included.  Types need that a call past   *)
(* its flag check has its arguments.                                        *)
TakenBelowCounter == \A w \in Writer : pc[w] = "insert" => taken[w] < mt.next_sequence
HasOperation ==
  \A w \in Writer : pc[w] # "idle" => op[w] \in [key : Key, val : Value \cup {None}]

SequenceInv == TypeOK /\ HasOperation /\ TakenBelowCounter /\ SequencesDistinct

LEMMA InitInv == Init => SequenceInv
<1> SUFFICES ASSUME Init PROVE SequenceInv
  OBVIOUS
<1>1. NewMemTable(0) \in MemTableRec /\ KeysOf(NoEntries) = {} /\ mt.data = NoEntries
  BY NewMemTableType DEF Init, KeysOf, NoEntries
<1>2. TypeOK
  BY <1>1, MemTableAssumption DEF Init, TypeOK
<1> QED
  BY <1>1, <1>2 DEF Init, SequenceInv, HasOperation, TakenBelowCounter, SequencesDistinct

LEMMA StartInv ==
  ASSUME SequenceInv, NEW w \in Writer, NEW k \in Key, NEW v \in Value \cup {None}, Start(w, k, v)
  PROVE  SequenceInv'
<1> DEFINE call == [key |-> k, val |-> v]
<1>1. call \in [key : Key, val : Value \cup {None}] /\ op' = [op EXCEPT ![w] = call]
  BY DEF Start
<1> HIDE DEF call
<1>2. TypeOK'
  BY <1>1, MemTableAssumption DEF SequenceInv, TypeOK, Start
<1>3. HasOperation'
  BY <1>1 DEF SequenceInv, TypeOK, HasOperation, Start
<1>4. TakenBelowCounter' /\ SequencesDistinct'
  BY DEF SequenceInv, TypeOK, TakenBelowCounter, SequencesDistinct, Start
<1> QED
  BY <1>2, <1>3, <1>4 DEF SequenceInv

LEMMA TakeSequenceInv ==
  ASSUME SequenceInv, NEW w \in Writer, TakeSequence(w)
  PROVE  SequenceInv'
<1>1. mt \in MemTableRec /\ mt.next_sequence \in Nat
  BY DEF SequenceInv, TypeOK, MemTableRec
<1>2. /\ mt' \in MemTableRec /\ mt'.next_sequence = mt.next_sequence + 1 /\ mt'.data = mt.data
  BY <1>1 DEF TakeSequence, MemTableRec
<1>3. /\ taken' \in [Writer -> Nat] /\ taken'[w] = mt.next_sequence
      /\ \A x \in Writer \ {w} : taken'[x] = taken[x] /\ pc'[x] = pc[x]
      /\ \A x \in Writer : taken[x] \in Nat
  BY <1>1 DEF SequenceInv, TypeOK, TakeSequence
<1>4. TypeOK'
  BY <1>2, <1>3 DEF SequenceInv, TypeOK, TakeSequence
<1>5. HasOperation'
  BY DEF SequenceInv, TypeOK, HasOperation, TakeSequence
<1>6. TakenBelowCounter'
  BY <1>1, <1>2, <1>3 DEF SequenceInv, TakenBelowCounter
<1>7. \A k \in KeysOf(mt.data) : mt.data[k].sequence \in Nat
  BY <1>1 DEF MemTableRec, KeysOf, EntryMap, Entry
<1>8. SequencesDistinct'
  <2>1. \A k \in KeysOf(mt'.data) :
          /\ mt'.data[k].sequence < mt'.next_sequence
          /\ \A j \in KeysOf(mt'.data) \ {k} : mt'.data[j].sequence # mt'.data[k].sequence
    BY <1>1, <1>2, <1>7 DEF SequenceInv, SequencesDistinct
  <2>2. \A k \in KeysOf(mt'.data), x \in Writer :
          pc'[x] = "insert" => taken'[x] # mt'.data[k].sequence
    BY <1>1, <1>2, <1>3, <1>7 DEF SequenceInv, SequencesDistinct
  <2>3. \A x, y \in Writer : pc'[x] = "insert" /\ pc'[y] = "insert" /\ x # y => taken'[x] # taken'[y]
    <3>1. \A x \in Writer \ {w} : pc'[x] = "insert" => taken'[x] # taken'[w]
      BY <1>1, <1>3 DEF SequenceInv, TakenBelowCounter
    <3>2. \A x, y \in Writer \ {w} :
            pc'[x] = "insert" /\ pc'[y] = "insert" /\ x # y => taken'[x] # taken'[y]
      BY <1>3 DEF SequenceInv, SequencesDistinct
    <3> QED
      BY <3>1, <3>2
  <2> QED
    BY <2>1, <2>2, <2>3 DEF SequencesDistinct
<1> QED
  BY <1>4, <1>5, <1>6, <1>8 DEF SequenceInv

LEMMA InsertInv ==
  ASSUME SequenceInv, NEW w \in Writer, Insert(w)
  PROVE  SequenceInv'
<1> DEFINE e == [val |-> op[w].val, sequence |-> taken[w], stamp |-> stamp + 1]
           k == op[w].key
<1>1. mt \in MemTableRec /\ mt.next_sequence \in Nat /\ pc[w] = "insert"
  BY DEF SequenceInv, TypeOK, MemTableRec, Insert
<1>2. e \in Entry /\ k \in Key /\ e.sequence = taken[w] /\ taken[w] < mt.next_sequence
  BY <1>1 DEF SequenceInv, TypeOK, HasOperation, TakenBelowCounter, Insert, Entry
<1>3. mt' = PutEntry(mt, k, e)
  BY DEF Insert
<1> HIDE DEF e, k
<1>4. /\ mt' \in MemTableRec /\ mt'.data[k] = e
      /\ \A j \in Key \ {k} : mt'.data[j] = mt.data[j]
      /\ mt'.next_sequence = mt.next_sequence
  BY <1>1, <1>2, <1>3, PutEntryFacts DEF PutEntry
<1>5. /\ pc' = [pc EXCEPT ![w] = "idle"] /\ op' = [op EXCEPT ![w] = None]
      /\ taken' = [taken EXCEPT ![w] = 0]
  BY DEF Insert
<1>6. TypeOK'
  BY <1>4, <1>5 DEF SequenceInv, TypeOK, Insert
<1>7. \A x \in Writer : pc'[x] # "idle" =>
        x # w /\ pc'[x] = pc[x] /\ op'[x] = op[x] /\ taken'[x] = taken[x]
  BY <1>5 DEF SequenceInv, TypeOK
<1>8. HasOperation' /\ TakenBelowCounter'
  BY <1>4, <1>7 DEF SequenceInv, HasOperation, TakenBelowCounter
<1>9. \A j \in KeysOf(mt'.data) : j = k \/ (j \in KeysOf(mt.data) /\ mt'.data[j] = mt.data[j])
  BY <1>4 DEF KeysOf
<1>10. SequencesDistinct'
  <2>1. /\ mt'.data[k].sequence = taken[w]
        /\ \A j \in KeysOf(mt'.data) \ {k} :
             mt'.data[j].sequence = mt.data[j].sequence /\ mt.data[j].sequence # taken[w]
    BY <1>1, <1>2, <1>4, <1>9 DEF SequenceInv, SequencesDistinct
  <2>2. \A j \in KeysOf(mt'.data) :
          /\ mt'.data[j].sequence < mt'.next_sequence
          /\ \A i \in KeysOf(mt'.data) \ {j} : mt'.data[i].sequence # mt'.data[j].sequence
    BY <1>2, <1>4, <1>9, <2>1 DEF SequenceInv, SequencesDistinct
  <2>3. \A j \in KeysOf(mt'.data), x \in Writer :
          pc'[x] = "insert" => taken'[x] # mt'.data[j].sequence
    BY <1>1, <1>7, <1>9, <2>1 DEF SequenceInv, SequencesDistinct
  <2>4. \A x, y \in Writer : pc'[x] = "insert" /\ pc'[y] = "insert" /\ x # y => taken'[x] # taken'[y]
    BY <1>7 DEF SequenceInv, SequencesDistinct
  <2> QED
    BY <2>2, <2>3, <2>4 DEF SequencesDistinct
<1> QED
  BY <1>6, <1>8, <1>10 DEF SequenceInv

(* make_immutable, clone and iter, and steps that change nothing.           *)
LEMMA OthersInv ==
  ASSUME SequenceInv, MakeImmutable \/ Clone \/ Iter \/ UNCHANGED vars
  PROVE  SequenceInv'
<1>1. /\ mt' \in MemTableRec /\ mt'.data = mt.data /\ mt'.next_sequence = mt.next_sequence
      /\ UNCHANGED <<pc, op, taken>>
  BY FreezeFacts DEF SequenceInv, TypeOK, MemTableRec, MakeImmutable, Clone, Iter, vars
<1>2. TypeOK'
  BY <1>1, MemTableAssumption DEF SequenceInv, TypeOK, MakeImmutable, Clone, Iter, vars
<1> QED
  BY <1>1, <1>2 DEF SequenceInv, HasOperation, TakenBelowCounter, SequencesDistinct

(* The inductive invariant: types, and every number that a thread has taken *)
(* is below the counter and belongs to an operation.                        *)
THEOREM SequenceInvHolds == Spec => []SequenceInv
<1>1. SequenceInv /\ [Next]_vars => SequenceInv'
  BY StartInv, TakeSequenceInv, InsertInv, OthersInv DEF Next
<1> QED
  BY <1>1, InitInv, PTL DEF Spec

(* Every variable keeps its type: what is stored under a key is an entry or *)
(* nothing, the counters are natural numbers, every call in progress is one *)
(* of the memtable's operations.                                            *)
THEOREM TypeOKHolds == Spec => []TypeOK
<1>1. SequenceInv => TypeOK
  BY DEF SequenceInv
<1> QED
  BY <1>1, SequenceInvHolds, PTL

(* No sequence number is used twice, however many threads put and delete:   *)
(* although next_sequence is called outside the lock of the map, entries    *)
(* and calls in flight carry different numbers, all below the counter.      *)
THEOREM SequencesDistinctHolds == Spec => []SequencesDistinct
<1>1. SequenceInv => SequencesDistinct
  BY DEF SequenceInv
<1> QED
  BY <1>1, SequenceInvHolds, PTL

-----------------------------------------------------------------------------
(* The byte counter only ever grows, by at most the bytes of one entry for  *)
(* each insertion, and there are at most as many insertions as calls: while *)
(* MaxWrites entries of the longest length are fewer than 2^64 bytes the    *)
(* counter does not wrap around.  A call that has not returned yet has not  *)
(* inserted, so that the insertions and the calls in flight make up the     *)
(* calls started.                                                           *)
InFlight == {w \in Writer : pc[w] # "idle"}
CallsCounted == IsFiniteSet(InFlight) /\ stamp + Cardinality(InFlight) = started
SizeBounded(b) == mt.size <= b * stamp
CountInv(b) == SequenceInv /\ CallsCounted /\ SizeBounded(b) /\ CountersCoverData
NoEntryLonger(b) == \A k \in Key, e \in Entry : EntrySize(k, e) <= b

LEMMA InitCountInv ==
  ASSUME NEW b \in Nat, Init
  PROVE  CountInv(b)
<1>1. SequenceInv
  BY InitInv
<1>2. InFlight = {} /\ stamp = 0 /\ started = 0
  BY DEF Init, InFlight
<1>3. CallsCounted
  BY <1>2, FS_EmptySet DEF CallsCounted
<1>4. mt.size = 0 /\ mt.count = 0 /\ mt.data = NoEntries /\ copy = None
  BY DEF Init, NewMemTable
<1>5. KeysOf(NoEntries) = {} /\ LiveBytes(NoEntries) = 0
  BY LiveBytesNone
<1> QED
  BY <1>1, <1>2, <1>3, <1>4, <1>5, FS_EmptySet DEF CountInv, SizeBounded, CountersCoverData, WellCounted

(* The counters after an insertion that the bound leaves room for.          *)
LEMMA PutEntryCounts ==
  ASSUME NEW b \in Nat, NoEntryLonger(b), NEW m \in MemTableRec, WellCounted(m),
         m.size + b < UsizeMod, NEW k \in Key, NEW e \in Entry
  PROVE  WellCounted(PutEntry(m, k, e)) /\ PutEntry(m, k, e).size <= m.size + b
<1> DEFINE delta == SizeDelta(m.data, k, e)
           p == PutEntry(m, k, e)
<1>1. m.data \in EntryMap /\ m.size \in Nat /\ m.count \in Nat
  BY DEF MemTableRec
<1>2. delta \in Int /\ delta <= b /\ -delta <= b
  <2>1. EntrySize(k, e) \in Nat /\ EntrySize(k, e) <= b
    BY EntrySizeNat DEF NoEntryLonger
  <2>2. m.data[k] # None => EntrySize(k, m.data[k]) \in Nat /\ EntrySize(k, m.data[k]) <= b
    BY <1>1, EntrySizeNat DEF NoEntryLonger, EntryMap
  <2> QED
    BY <2>1, <2>2 DEF SizeDelta
<1>3. /\ p.data = [m.data EXCEPT ![k] = e] /\ p.size = SizeAfter(m.size, delta)
      /\ p.count = IF m.data[k] = None THEN m.count + 1 ELSE m.count
  BY DEF PutEntry
<1>4. LiveBytes(p.data) = LiveBytes(m.data) + delta /\ LiveBytes(m.data) \in Nat
  BY <1>1, <1>3, LiveBytesPut, LiveBytesType
<1>5. Cardinality(KeysOf(p.data)) = p.count
  BY <1>1, <1>3, KeysPut DEF WellCounted
<1> HIDE DEF delta, p
<1>6. p.size = IF delta > 0 THEN m.size + delta ELSE m.size - delta
  <2>1. m.size + delta < UsizeMod /\ m.size - delta < UsizeMod
    BY <1>1, <1>2, LsmDataAssumption
  <2> QED
    BY <1>1, <1>2, <1>3, <2>1, SizeAfterAdds
<1>7. p.size <= m.size + b /\ p.size >= LiveBytes(p.data)
  BY <1>1, <1>2, <1>4, <1>6 DEF WellCounted
<1> QED
  BY <1>5, <1>7 DEF WellCounted, p

LEMMA InsertCountInv ==
  ASSUME NEW b \in Nat, NoEntryLonger(b), MaxWrites * b < UsizeMod,
         CountInv(b), NEW w \in Writer, Insert(w)
  PROVE  CountInv(b)'
<1> DEFINE e == [val |-> op[w].val, sequence |-> taken[w], stamp |-> stamp + 1]
           k == op[w].key
<1>1. SequenceInv'
  BY InsertInv DEF CountInv
<1>2. mt \in MemTableRec /\ mt.size \in Nat /\ pc[w] = "insert" /\ stamp \in Nat /\ started \in 0..MaxWrites
  BY DEF CountInv, SequenceInv, TypeOK, MemTableRec, Insert
<1>3. e \in Entry /\ k \in Key
  BY <1>2 DEF CountInv, SequenceInv, TypeOK, HasOperation, Entry
<1>4. mt' = PutEntry(mt, k, e) /\ stamp' = stamp + 1 /\ copy' = copy /\ started' = started
  BY DEF Insert
<1> HIDE DEF e, k
<1>5. CallsCounted'
  <2>1. w \in InFlight /\ InFlight' = InFlight \ {w}
    BY <1>2 DEF InFlight, Insert, CountInv, SequenceInv, TypeOK
  <2>2. /\ IsFiniteSet(InFlight') /\ Cardinality(InFlight') = Cardinality(InFlight) - 1
        /\ Cardinality(InFlight) \in Nat
    BY <2>1, FS_RemoveElement, FS_CardinalityType DEF CountInv, CallsCounted
  <2> QED
    BY <1>2, <1>4, <2>2 DEF CountInv, CallsCounted
<1>6. stamp + 1 <= MaxWrites
  <2>1. w \in InFlight
    BY <1>2 DEF InFlight
  <2>2. Cardinality(InFlight) \in Nat /\ Cardinality(InFlight) # 0
    BY <2>1, FS_CardinalityType, FS_EmptySet DEF CountInv, CallsCounted
  <2> QED
    BY <1>2, <2>2, MemTableAssumption DEF CountInv, CallsCounted
<1>7. mt.size + b <= b * (stamp + 1) /\ mt.size + b < UsizeMod
  <2>1. b * (stamp + 1) = b * stamp + b
    BY <1>2
  <2>2. b * (stamp + 1) <= MaxWrites * b
    BY <1>2, <1>6, TimesMonotone, MemTableAssumption
  <2>3. b * stamp \in Nat /\ MaxWrites * b \in Nat
    BY <1>2, MemTableAssumption
  <2> QED
    BY <1>2, <2>1, <2>2, <2>3, LsmDataAssumption DEF CountInv, SizeBounded
<1>8. WellCounted(mt') /\ mt'.size <= mt.size + b
  BY <1>2, <1>3, <1>4, <1>7, PutEntryCounts DEF CountInv, CountersCoverData
<1>9. mt'.size \in Nat
  BY <1>1 DEF SequenceInv, TypeOK, MemTableRec
<1>10. SizeBounded(b)'
  BY <1>2, <1>4, <1>7, <1>8, <1>9 DEF SizeBounded
<1> QED
  BY <1>1, <1>4, <1>5, <1>8, <1>10 DEF CountInv, CountersCoverData

LEMMA OthersCountInv ==
  ASSUME NEW b \in Nat, CountInv(b),
         \/ \E w \in Writer, k \in Key, v \in Value \cup {None} : Start(w, k, v)
         \/ \E w \in Writer : TakeSequence(w)
         \/ MakeImmutable \/ Clone \/ Iter \/ UNCHANGED vars
  PROVE  CountInv(b)'
<1>1. SequenceInv'
  BY StartInv, TakeSequenceInv, OthersInv DEF CountInv
<1>2. mt \in MemTableRec /\ stamp \in Nat /\ started \in Nat
  BY DEF CountInv, SequenceInv, TypeOK
<1>3. stamp' = stamp
  BY DEF Start, TakeSequence, MakeImmutable, Clone, Iter, vars
<1>4. mt'.data = mt.data /\ mt'.size = mt.size /\ mt'.count = mt.count
  BY <1>2 DEF MemTableRec, Start, TakeSequence, MakeImmutable, Clone, Iter, vars
<1>5. copy' = copy \/ copy' = mt
  BY DEF Start, TakeSequence, MakeImmutable, Clone, Iter, vars
<1>6. SizeBounded(b)' /\ CountersCoverData'
  BY <1>3, <1>4, <1>5 DEF CountInv, SizeBounded, CountersCoverData, WellCounted
<1>7. CallsCounted'
  <2>1. CASE \E w \in Writer, k \in Key, v \in Value \cup {None} : Start(w, k, v)
    <3>1. PICK w \in Writer, k \in Key, v \in Value \cup {None} : Start(w, k, v)
      BY <2>1
    <3>2. w \notin InFlight /\ InFlight' = InFlight \cup {w} /\ started' = started + 1
      BY <3>1 DEF InFlight, Start, CountInv, SequenceInv, TypeOK
    <3>3. /\ IsFiniteSet(InFlight') /\ Cardinality(InFlight') = Cardinality(InFlight) + 1
          /\ Cardinality(InFlight) \in Nat
      BY <3>2, FS_AddElement, FS_CardinalityType DEF CountInv, CallsCounted
    <3> QED
      BY <1>2, <1>3, <3>2, <3>3 DEF CountInv, CallsCounted
  <2>2. CASE ~\E w \in Writer, k \in Key, v \in Value \cup {None} : Start(w, k, v)
    <3>1. InFlight' = InFlight /\ started' = started
      BY <2>2 DEF InFlight, TakeSequence, MakeImmutable, Clone, Iter, vars, CountInv, SequenceInv, TypeOK
    <3> QED
      BY <1>3, <3>1 DEF CountInv, CallsCounted
  <2> QED
    BY <2>1, <2>2
<1> QED
  BY <1>1, <1>6, <1>7 DEF CountInv

(* The byte counter never falls below the bytes stored and the entry counter*)
(* is the number of entries, in the memtable and in every clone of it, for  *)
(* all interleavings of all threads, until the bytes written reach 2^64.    *)
THEOREM CountersCoverDataHolds ==
  ASSUME NEW b \in Nat, NoEntryLonger(b), MaxWrites * b < UsizeMod
  PROVE  Spec => []CountersCoverData
<1>1. Init => CountInv(b)
  BY InitCountInv
<1>2. CountInv(b) /\ [Next]_vars => CountInv(b)'
  BY InsertCountInv, OthersCountInv DEF Next
<1>3. CountInv(b) => CountersCoverData
  BY DEF CountInv
<1> QED
  BY <1>1, <1>2, <1>3, PTL DEF Spec
=============================================================================
