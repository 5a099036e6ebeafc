------------------------- MODULE SSTableFileProofs -------------------------
(***************************************************************************)
(* Theorems about SSTableFile for every set of keys, every number of       *)
(* threads, every file and every limit of the cache.  First what the Bloom *)
(* filter of a file does to the reader that carries it; then the block     *)
(* cache, which shows the file whatever the threads do; then the file      *)
(* itself, from the first entry that is added to the index that describes  *)
(* its blocks; and last what the threads that read it block by block       *)
(* return.                                                                 *)
(***************************************************************************)
EXTENDS SSTableFile, SSTableProofs

-----------------------------------------------------------------------------
(* The two ways in which a filter begins, and what add leaves alone.        *)
Hinted(f)   == f.bytes = (BitCount * 7) \div 8 /\ f.bit_count = BitCount
Unhinted(f) == f.bytes = 1 /\ f.bit_count = 8
Clear(f)    == f.bits = {} /\ f.hash_count \in Nat \ {0}
FilterShape(f) == Clear(f) /\ (Hinted(f) \/ (0 \in Expected /\ Unhinted(f)))

LEMMA NewFilterShape ==
  ASSUME NEW n \in Expected
  PROVE  FilterShape(BloomNew(n))
<1>1. CASE n = 0
  BY <1>1 DEF BloomNew, FilterShape, Clear, Unhinted
<1>2. CASE n # 0
  BY <1>2, BloomFilterAssumption DEF BloomNew, FilterShape, Clear, Hinted
<1> QED
  BY <1>1, <1>2

LEMMA AddFilterShape ==
  ASSUME NEW f, FilterShape(f), NEW key
  PROVE  FilterShape(BloomAdd(f, key))
<1>1. \A i \in BitIndexes(f, key) : SetBit(f.bits, i) = {}
  BY DEF SetBit, FilterShape, Clear
<1>2. UNION {SetBit(f.bits, i) : i \in BitIndexes(f, key)} = {}
  BY <1>1
<1> QED
  BY <1>2 DEF BloomAdd, FilterShape, Clear, Hinted, Unhinted

(* A filter without a bit denies every key, because it probes one at least. *)
LEMMA ClearFilterDenies ==
  ASSUME NEW f, Clear(f), NEW key
  PROVE  ~BloomMightContain(f, key)
<1>1. 0 \in 0..(f.hash_count - 1)
  BY DEF Clear
<1>2. ((Hash1[key] + 0 * Hash2[key]) % HashMod) % f.bit_count \in BitIndexes(f, key)
  BY <1>1 DEF BitIndexes
<1>3. \A i : ~GetBit(f, i)
  BY DEF GetBit, Clear
<1> QED
  BY <1>2, <1>3 DEF BloomMightContain

(* The lengths that new allocates and from_bytes demands differ for every   *)
(* number of bits a filter with a hint can have.                            *)
LEMMA HintedNeverReloads ==
  ASSUME NEW f, Hinted(f)
  PROVE  ~Reloads(f)
<1>1. ASSUME NEW b \in Nat, b >= 64
      PROVE  (b * 7) \div 8 # (b + 7) \div 8
  <2>1. (b * 7) \div 8 > (b + 7) \div 8
    BY <1>1, SMT
  <2> QED
    BY <2>1, <1>1, SMT
<1> QED
  BY <1>1, BloomFilterAssumption DEF Hinted, Reloads

-----------------------------------------------------------------------------
FiltersShaped ==
  /\ writer # None => FilterShape(writer.filter)
  /\ file # None => FilterShape(file.filter)
  /\ reader = "open" => file # None /\ Reloads(file.filter)
  /\ writer # None => file = None

LEMMA FiltersShapedStep == FiltersShaped /\ [Next]_vars => FiltersShaped'
<1> SUFFICES ASSUME FiltersShaped, [Next]_vars PROVE FiltersShaped'
  OBVIOUS
<1>1. ASSUME NEW n \in Expected, NEW c \in Compressions, Create(n, c) PROVE FiltersShaped'
  BY <1>1, NewFilterShape DEF Create, FiltersShaped
<1>2. ASSUME NEW k \in Key, NEW v \in Value \cup {None}, Add(k, v) PROVE FiltersShaped'
  <2>1. FilterShape(BloomAdd(writer.filter, k))
    BY <1>2, AddFilterShape DEF Add, FiltersShaped
  <2> QED
    BY <1>2, <2>1 DEF Add, FiltersShaped
<1>3. CASE Finish
  BY <1>3 DEF Finish, FiltersShaped
<1>4. CASE Open
  BY <1>4 DEF Open, FiltersShaped
<1>5. ASSUME UNCHANGED <<writer, file, reader>> PROVE FiltersShaped'
  BY <1>5 DEF FiltersShaped
<1>6. ASSUME NEW t \in Thread, Step(t) PROVE UNCHANGED <<writer, file, reader>>
  BY <1>6 DEF Step, Finished, Panics, CacheHit, CacheMiss, LoadFails, Load
<1>7. ASSUME NEW t \in Thread, NEW c \in Call, Start(t, c) PROVE UNCHANGED <<writer, file, reader>>
  BY <1>7 DEF Start
<1>8. CASE UNCHANGED vars
  BY <1>5, <1>8 DEF vars
<1> QED
  BY <1>1, <1>2, <1>3, <1>4, <1>5, <1>6, <1>7, <1>8 DEF Next

(* Every filter of a writer or a file has no bit set and one of two sizes.  *)
THEOREM FiltersShapedHolds == Spec => []FiltersShaped
<1>1. Init => FiltersShaped
  BY DEF Init, FiltersShaped
<1> QED
  BY <1>1, FiltersShapedStep, PTL DEF Spec

(* The filter of a finished file denies every key, those in the file        *)
(* included: a reader that carries one answers None to every get.           *)
THEOREM FilterDeniesAll ==
  Spec => [](file # None => \A k \in Key : ~BloomMightContain(file.filter, k))
<1>1. FiltersShaped => (file # None => \A k \in Key : ~BloomMightContain(file.filter, k))
  BY ClearFilterDenies DEF FiltersShaped, FilterShape
<1> QED
  BY <1>1, FiltersShapedHolds, PTL

(* As long as every writer is told to expect at least one entry, which is   *)
(* what SSTableBuilder does for every table with entries, no file that was  *)
(* written is ever opened, whatever the number of bits of its filter.       *)
THEOREM NeverOpens ==
  ASSUME 0 \notin Expected
  PROVE  Spec => [](reader # "open")
<1>1. FiltersShaped => reader # "open"
  BY HintedNeverReloads DEF FiltersShaped, FilterShape
<1> QED
  BY <1>1, FiltersShapedHolds, PTL

-----------------------------------------------------------------------------
(* Coherence alone is not inductive: a thread that loads must be at a block *)
(* of the index, which it saw before it let go of the cache's lock, and the *)
(* index must not change under it.                                          *)
Threads ==
  /\ pc \in [Thread -> {"idle", "visit", "load"}]
  /\ at \in [Thread -> Nat]
FileOnce ==
  /\ writer # None => writer.blocks \in BlocksRec /\ file = None
  /\ file # None => file.index \in Seq(IndexEntry)
  /\ file = None => reader = "none"
  /\ reader # "open" => cache = EmptyCache /\ \A t \in Thread : pc[t] = "idle"
LoadsABlock == \A t \in Thread : pc[t] = "load" => at[t] + 1 \in DOMAIN index

CacheInv ==
  Threads /\ FileOnce /\ LoadsABlock /\ CacheCoherent /\ IsFiniteSet(DOMAIN cache)

LEMMA EmptyIsCoherent ==
  ASSUME cache = EmptyCache
  PROVE  CacheCoherent /\ IsFiniteSet(DOMAIN cache)
<1>1. DOMAIN cache = {}
  BY DEF EmptyCache
<1>2. Cardinality(DOMAIN cache) = 0 /\ IsFiniteSet(DOMAIN cache)
  BY <1>1, FS_EmptySet
<1> QED
  BY <1>1, <1>2, SSTableFileAssumption DEF CacheCoherent

LEMMA InitCacheInv == Init => CacheInv
<1> SUFFICES ASSUME Init PROVE CacheInv
  OBVIOUS
<1>1. CacheCoherent /\ IsFiniteSet(DOMAIN cache)
  BY EmptyIsCoherent DEF Init
<1> QED
  BY <1>1 DEF Init, CacheInv, Threads, FileOnce, LoadsABlock

(* Writing and opening: nothing is cached yet.                              *)
LEMMA WriterSteps ==
  ASSUME LengthsAreNat, CacheInv,
         \/ \E n \in Expected, c \in Compressions : Create(n, c)
         \/ \E k \in Key, v \in Value \cup {None} : Add(k, v)
         \/ Finish \/ Open
  PROVE  CacheInv'
<1>1. UNCHANGED <<cache, pc, at>>
  BY DEF Create, Add, Finish, Open, reading
<1>2. CASE \E n \in Expected, c \in Compressions : Create(n, c)
  <2>1. NewBlocks \in BlocksRec
    BY DEF NewBlocks, BlocksRec
  <2>2. writer'.blocks = NewBlocks /\ file = None /\ UNCHANGED <<file, reader>>
    BY <1>2 DEF Create
  <2> QED
    BY <1>1, <2>1, <2>2
       DEF CacheInv, Threads, FileOnce, LoadsABlock, CacheCoherent, index
<1>3. ASSUME NEW k \in Key, NEW v \in Value \cup {None}, Add(k, v)
      PROVE  CacheInv'
  <2> DEFINE e == [val |-> v, sequence |-> 0, stamp |-> 0]
  <2>1. e \in Entry
    BY DEF Entry
  <2>2. /\ writer'.blocks = AddToBlock(writer.blocks, k, e)
        /\ writer # None /\ UNCHANGED <<file, reader>>
    BY <1>3 DEF Add
  <2> HIDE DEF e
  <2>3. writer'.blocks \in BlocksRec
    BY <2>1, <2>2, AddToBlockType DEF CacheInv, FileOnce
  <2> QED
    BY <1>1, <2>2, <2>3
       DEF CacheInv, Threads, FileOnce, LoadsABlock, CacheCoherent, index
<1>4. CASE Finish
  <2> DEFINE blocks == FlushBlock(writer.blocks)
  <2>1. writer # None /\ file = None /\ reader = "none"
    BY <1>4 DEF Finish, CacheInv, FileOnce
  <2>2. blocks \in BlocksRec
    BY <2>1, FlushBlockType DEF CacheInv, FileOnce
  <2> HIDE DEF blocks
  <2>3. file'.index = blocks.index /\ writer' = None /\ UNCHANGED reader
    BY <1>4 DEF Finish, blocks
  <2>4. file'.index \in Seq(IndexEntry)
    BY <2>2, <2>3 DEF BlocksRec
  <2>5. cache' = EmptyCache /\ \A t \in Thread : pc'[t] = "idle"
    BY <1>1, <2>1 DEF CacheInv, FileOnce
  <2>6. CacheCoherent'
    <3>1. DOMAIN cache' = {}
      BY <2>5 DEF EmptyCache
    <3>2. Cardinality(DOMAIN cache') = 0
      BY <3>1, FS_EmptySet
    <3> QED
      BY <3>1, <3>2, SSTableFileAssumption DEF CacheCoherent
  <2> QED
    BY <1>1, <2>1, <2>3, <2>4, <2>5, <2>6 DEF CacheInv, Threads, FileOnce, LoadsABlock
<1>5. CASE Open
  BY <1>1, <1>5 DEF Open, CacheInv, Threads, FileOnce, LoadsABlock, CacheCoherent, index
<1> QED
  BY <1>2, <1>3, <1>4, <1>5

LEMMA BlockNumberType ==
  ASSUME file.index \in Seq(IndexEntry), NEW c
  PROVE  StartBlock(c) \in Nat
<1> DEFINE below == {i \in DOMAIN index : index[i].key <= c.start}
<1>1. Len(file.index) \in Nat /\ DOMAIN index = 1..Len(file.index)
  BY LenProperties DEF index
<1>2. IsFiniteSet(below)
  <2>1. IsFiniteSet(DOMAIN index) /\ below \in SUBSET DOMAIN index
    BY <1>1, FS_Interval
  <2> QED
    BY <2>1, FS_Subset
<1>3. Cardinality(below) \in Nat
  BY <1>2, FS_CardinalityType
<1>4. FindBlock(index, c.start) \in Nat
  BY <1>3 DEF FindBlock
<1> QED
  BY <1>4 DEF StartBlock, FirstBlock

(* The steps of a thread but the one that fills the cache.                  *)
LEMMA ThreadSteps ==
  ASSUME CacheInv, NEW t \in Thread,
         \/ \E c \in Call : Start(t, c)
         \/ Finished(t) \/ Panics(t) \/ CacheHit(t) \/ CacheMiss(t) \/ LoadFails(t)
  PROVE  CacheInv'
<1>1. UNCHANGED <<writer, file, reader, cache>> /\ reader = "open"
  BY DEF Start, Finished, Panics, CacheHit, CacheMiss, LoadFails, Visits, CacheInv, FileOnce, Threads
<1>2. file # None /\ file.index \in Seq(IndexEntry)
  BY <1>1 DEF CacheInv, FileOnce
<1>3. index' = index /\ DOMAIN index = 1..Blocks /\ Blocks \in Nat
  BY <1>1, <1>2, LenProperties DEF index, Blocks
<1>4. CacheCoherent'
  BY <1>1, <1>3 DEF CacheInv, CacheCoherent
<1>5. FileOnce'
  BY <1>1 DEF CacheInv, FileOnce
<1>6. CASE CacheMiss(t)
  <2>1. pc' = [pc EXCEPT ![t] = "load"] /\ UNCHANGED at /\ at[t] < Blocks
    BY <1>6 DEF CacheMiss, Visits
  <2>2. at[t] + 1 \in DOMAIN index
    BY <1>3, <2>1 DEF CacheInv, Threads
  <2> QED
    BY <1>1, <1>3, <1>4, <1>5, <2>1, <2>2 DEF CacheInv, Threads, LoadsABlock
<1>7. CASE ~CacheMiss(t)
  <2> DEFINE Moved == \E n \in Nat, p \in {"idle", "visit"} :
                        at' = [at EXCEPT ![t] = n] /\ pc' = [pc EXCEPT ![t] = p]
  <2>1. Moved
    <3>1. at[t] \in Nat
      BY DEF CacheInv, Threads
    <3>2. ASSUME NEW c \in Call, Start(t, c) PROVE Moved
      BY <1>2, <3>2, BlockNumberType DEF Start, Return
    <3>3. ASSUME Finished(t) \/ Panics(t) \/ LoadFails(t) PROVE Moved
      BY <3>3 DEF Finished, Panics, LoadFails, Return
    <3>4. ASSUME CacheHit(t) PROVE Moved
      <4>1. \/ pc' = [pc EXCEPT ![t] = "idle"] /\ at' = [at EXCEPT ![t] = 0]
            \/ pc' = [pc EXCEPT ![t] = "visit"] /\ at' = [at EXCEPT ![t] = @ + 1]
        BY <3>4 DEF CacheHit, Consume, Return
      <4>2. at' = [at EXCEPT ![t] = @ + 1] => at' = [at EXCEPT ![t] = at[t] + 1]
        OBVIOUS
      <4> QED
        BY <3>1, <4>1, <4>2
    <3> QED
      BY <1>7, <3>2, <3>3, <3>4
  <2> QED
    BY <1>1, <1>3, <1>4, <1>5, <2>1 DEF CacheInv, Threads, LoadsABlock
<1> QED
  BY <1>6, <1>7

(* The block goes into the cache at the offset it was read from, or the     *)
(* cache is emptied.                                                        *)
LEMMA LoadStep ==
  ASSUME CacheInv, NEW t \in Thread, Load(t)
  PROVE  CacheInv'
<1> DEFINE i == at[t] + 1
<1>1. /\ UNCHANGED <<writer, file, reader>> /\ reader = "open"
      /\ i \in DOMAIN index /\ at[t] \in Nat
  BY DEF Load, CacheInv, FileOnce, Threads, LoadsABlock
<1>2. index' = index
  BY <1>1 DEF index
<1>3. FileOnce'
  BY <1>1 DEF CacheInv, FileOnce
<1>4. cache' = Cached(Offset(t), file.blocks[i]) /\ Offset(t) = index[i].offset
  BY DEF Load, Offset
<1> HIDE DEF i
<1>5. CacheCoherent' /\ IsFiniteSet(DOMAIN cache')
  <2> DEFINE offsets == DOMAIN cache \cup {Offset(t)}
  <2>1. CASE Cardinality(offsets) > CacheLimit
    <3>1. cache' = EmptyCache
      BY <1>4, <2>1 DEF Cached
    <3>2. DOMAIN cache' = {}
      BY <3>1 DEF EmptyCache
    <3>3. Cardinality(DOMAIN cache') = 0 /\ IsFiniteSet(DOMAIN cache')
      BY <3>2, FS_EmptySet
    <3> QED
      BY <3>2, <3>3, SSTableFileAssumption DEF CacheCoherent
  <2>2. CASE ~(Cardinality(offsets) > CacheLimit)
    <3>1. /\ DOMAIN cache' = offsets
          /\ cache'[Offset(t)] = file.blocks[i]
          /\ \A o \in DOMAIN cache : o # Offset(t) => cache'[o] = cache[o]
      BY <1>4, <2>2 DEF Cached
    <3>2. ASSUME NEW o \in DOMAIN cache'
          PROVE  \E j \in DOMAIN index' : index'[j].offset = o /\ cache'[o] = file'.blocks[j]
      <4>1. CASE o = Offset(t)
        BY <1>1, <1>2, <1>4, <3>1, <4>1
      <4>2. CASE o # Offset(t)
        BY <1>1, <1>2, <3>1, <3>2, <4>2 DEF CacheInv, CacheCoherent
      <4> QED
        BY <4>1, <4>2
    <3>3. Cardinality(DOMAIN cache') <= CacheLimit /\ IsFiniteSet(DOMAIN cache')
      <4>1. IsFiniteSet(DOMAIN cache')
        BY <3>1, FS_AddElement DEF CacheInv
      <4>2. Cardinality(DOMAIN cache') \in Nat
        BY <4>1, FS_CardinalityType
      <4> QED
        BY <2>2, <3>1, <4>1, <4>2, SSTableFileAssumption
    <3> QED
      BY <3>2, <3>3 DEF CacheCoherent
  <2> QED
    BY <2>1, <2>2
<1>6. Threads' /\ LoadsABlock'
  <2>1. \/ pc' = [pc EXCEPT ![t] = "idle"] /\ at' = [at EXCEPT ![t] = 0]
        \/ pc' = [pc EXCEPT ![t] = "visit"] /\ at' = [at EXCEPT ![t] = @ + 1]
    BY DEF Load, Consume, Return
  <2> QED
    BY <1>1, <1>2, <2>1 DEF CacheInv, Threads, LoadsABlock
<1> QED
  BY <1>3, <1>5, <1>6 DEF CacheInv

LEMMA CacheInvStep ==
  ASSUME LengthsAreNat
  PROVE  CacheInv /\ [Next]_vars => CacheInv'
<1>1. CacheInv /\ UNCHANGED vars => CacheInv'
  BY DEF vars, CacheInv, Threads, FileOnce, LoadsABlock, CacheCoherent, index
<1> QED
  BY <1>1, WriterSteps, ThreadSteps, LoadStep DEF Next, Step

(* Whatever other threads insert and clear between a thread's look into the *)
(* cache and its own insertion, a cached block is the block of the file at  *)
(* that offset, and the cache never holds more than its limit.              *)
THEOREM CacheCoherentHolds ==
  ASSUME LengthsAreNat
  PROVE  Spec => []CacheCoherent
<1>1. CacheInv => CacheCoherent
  BY DEF CacheInv
<1> QED
  BY <1>1, CacheInvStep, InitCacheInv, PTL DEF Spec


-----------------------------------------------------------------------------
(* The writer has laid out exactly the entries it was given, which it got   *)
(* in the order of their keys, and the file is what it has laid out.        *)
WriterSound ==
  writer # None =>
    /\ file = None
    /\ writer.data \in EntryMap
    /\ writer.blocks = WrittenBlocks(writer.data)
    /\ writer.compression \in Compressions
    /\ writer.max_key \in Key \cup {None}
    /\ \A k \in KeysOf(writer.data) : writer.max_key # None /\ k <= writer.max_key
FileSound ==
  /\ file = None => reader = "none"
  /\ file # None =>
       /\ file.data \in EntryMap
       /\ file.blocks = Built(file.data).flushed
       /\ file.index = Built(file.data).index
       /\ file.data_size = Built(file.data).position
       /\ file.compression \in Compressions
       /\ file.max_key \in Key \cup {None}
LayoutSound == WriterSound /\ FileSound

LEMMA LayoutStep ==
  ASSUME LayoutSound, [Next]_vars
  PROVE  LayoutSound'
<1>1. ASSUME NEW n \in Expected, NEW c \in Compressions, Create(n, c) PROVE LayoutSound'
  <2>1. /\ writer'.blocks = NewBlocks /\ writer'.data = NoEntries /\ writer'.max_key = None
        /\ writer'.compression = c /\ file = None /\ UNCHANGED <<file, reader>>
    BY <1>1 DEF Create
  <2> QED
    BY <2>1, NothingWritten DEF LayoutSound, WriterSound, FileSound
<1>2. ASSUME NEW k \in Key, NEW v \in Value \cup {None}, Add(k, v) PROVE LayoutSound'
  <2> DEFINE e == [val |-> v, sequence |-> 0, stamp |-> 0]
  <2>1. e \in Entry
    BY DEF Entry
  <2>2. PICK data \in EntryMap : data = writer.data
    BY <1>2 DEF Add, LayoutSound, WriterSound
  <2>3. /\ writer # None /\ InOrder(writer, k) /\ UNCHANGED <<file, reader>>
        /\ writer'.blocks = AddToBlock(writer.blocks, k, e) /\ writer'.data = [data EXCEPT ![k] = e]
        /\ writer'.compression = writer.compression /\ writer'.max_key = k
    BY <1>2, <2>2 DEF Add
  <2> HIDE DEF e
  <2>4. \A j \in KeysOf(data) : j < k
    <3> SUFFICES ASSUME NEW j \in KeysOf(data) PROVE j < k
      OBVIOUS
    <3>1. j \in Nat /\ k \in Nat
      BY LsmDataAssumption DEF KeysOf
    <3>2. writer.max_key # None /\ j <= writer.max_key /\ writer.max_key \in Nat
      BY <2>2, <2>3, LsmDataAssumption DEF LayoutSound, WriterSound
    <3> QED
      BY <2>3, <3>1, <3>2 DEF InOrder
  <2>5. /\ KeysOf(writer'.data) = KeysOf(data) \cup {k} /\ writer'.data \in EntryMap
        /\ WrittenBlocks(writer'.data) = AddToBlock(WrittenBlocks(data), k, e)
    BY <2>1, <2>3, <2>4, AddIsWritten
  <2>6. writer.blocks = WrittenBlocks(data) /\ file = None /\ writer.compression \in Compressions
    BY <2>2, <2>3 DEF LayoutSound, WriterSound
  <2>7. \A j \in KeysOf(data) \cup {k} : k # None /\ j <= k
    <3>1. k \in Nat /\ \A j \in KeysOf(data) : j \in Nat
      BY LsmDataAssumption DEF KeysOf
    <3>2. k # None
      BY SSTableFileAssumption
    <3> QED
      BY <2>4, <3>1, <3>2
  <2>8. WriterSound'
    BY <2>3, <2>5, <2>6, <2>7 DEF WriterSound
  <2> QED
    BY <2>3, <2>8 DEF LayoutSound, FileSound
<1>3. CASE Finish
  <2>1. PICK data \in EntryMap : data = writer.data
    BY <1>3 DEF Finish, LayoutSound, WriterSound
  <2>2. writer.blocks = WrittenBlocks(data) /\ file = None /\ reader = "none"
    BY <1>3, <2>1 DEF Finish, LayoutSound, WriterSound, FileSound
  <2>3. PICK b : b = Built(data)
    OBVIOUS
  <2>4. /\ file'.data = data /\ file'.blocks = b.flushed /\ file'.index = b.index
        /\ file'.data_size = b.position /\ file'.compression = writer.compression
        /\ file'.max_key = writer.max_key /\ writer' = None /\ UNCHANGED reader
    <3>1. b = FlushBlock(writer.blocks)
      BY <2>2, <2>3, BuiltIsFlushed
    <3> QED
      BY <1>3, <2>1, <3>1 DEF Finish
  <2>5. WriterSound'
    BY <2>4 DEF WriterSound
  <2>6. writer.compression \in Compressions /\ writer.max_key \in Key \cup {None}
    BY <1>3 DEF Finish, LayoutSound, WriterSound
  <2>7. FileSound'
    BY <2>2, <2>3, <2>4, <2>6 DEF FileSound
  <2> QED
    BY <2>5, <2>7 DEF LayoutSound
<1>4. CASE Open
  BY <1>4 DEF Open, LayoutSound, WriterSound, FileSound
<1>5. ASSUME UNCHANGED <<writer, file, reader>> PROVE LayoutSound'
  BY <1>5 DEF LayoutSound, WriterSound, FileSound
<1>6. ASSUME NEW t \in Thread, Step(t) PROVE UNCHANGED <<writer, file, reader>>
  BY <1>6 DEF Step, Finished, Panics, CacheHit, CacheMiss, LoadFails, Load
<1>7. ASSUME NEW t \in Thread, NEW c \in Call, Start(t, c) PROVE UNCHANGED <<writer, file, reader>>
  BY <1>7 DEF Start
<1>8. CASE UNCHANGED vars
  BY <1>5, <1>8 DEF vars
<1> QED
  BY <1>1, <1>2, <1>3, <1>4, <1>5, <1>6, <1>7, <1>8 DEF Next


(* What the sound layout says of a file, in the terms of SSTableProofs.     *)
LEMMA FileLaid ==
  ASSUME LengthsAreNat, LayoutSound, file # None
  PROVE  /\ file.data \in EntryMap /\ file.compression \in Compressions
         /\ file.blocks \in Seq(Seq(Key)) /\ index \in Seq(IndexEntry) /\ file.data_size \in Nat
         /\ Laid(file.blocks, index, KeysOf(file.data))
         /\ Len(index) \in Nat /\ DOMAIN index = 1..Len(index)
         /\ Len(file.blocks) = Len(index) /\ DOMAIN file.blocks = 1..Len(index)
         /\ \A i \in DOMAIN index :
              /\ index[i].offset = StoredBefore(file.blocks, i, file.data)
              /\ index[i].size = StoredLen(BytesOf(file.blocks[i], file.data))
              /\ Fits(file.blocks[i], file.data)
         /\ file.data_size = StoredBefore(file.blocks, Len(index) + 1, file.data)
<1>1. PICK data \in EntryMap : data = file.data
  BY DEF LayoutSound, FileSound
<1>2. PICK b : b = Built(data)
  OBVIOUS
<1>3. file.blocks = b.flushed /\ index = b.index /\ file.data_size = b.position
  BY <1>1, <1>2 DEF LayoutSound, FileSound, index
<1>4. b \in BlocksRec /\ b.current = <<>> /\ Tiled(b, data) /\ Laid(b.flushed, b.index, KeysOf(data))
  BY <1>2, BuiltLaid
<1>5. b.flushed \in Seq(Seq(Key)) /\ b.index \in Seq(IndexEntry) /\ b.position \in Nat
  BY <1>4 DEF BlocksRec
<1>6. Len(b.index) \in Nat /\ DOMAIN b.index = 1..Len(b.index) /\ DOMAIN b.flushed = DOMAIN b.index
  BY <1>4, <1>5, IndexAscends
<1>7. Len(b.index) = Len(b.flushed)
  BY <1>4 DEF Laid
<1>8. \A i \in DOMAIN b.index : /\ b.index[i].offset = StoredBefore(b.flushed, i, data)
                                /\ b.index[i].size = StoredLen(BytesOf(b.flushed[i], data))
                                /\ Fits(b.flushed[i], data)
  BY <1>4, <1>6 DEF Tiled
<1>9. b.position = StoredBefore(b.flushed, Len(b.index) + 1, data)
  BY <1>4, <1>7 DEF Tiled
<1>10. file.compression \in Compressions
  BY DEF LayoutSound, FileSound
<1> QED
  BY <1>1, <1>3, <1>4, <1>5, <1>6, <1>7, <1>8, <1>9, <1>10

LEMMA InitLayout == Init => LayoutSound
BY DEF Init, LayoutSound, WriterSound, FileSound

LEMMA BytesInFile ==
  /\ \A b : BlockLen(b) = BytesOf(b, file.data)
  /\ \A i : BytesBefore(i) = StoredBefore(file.blocks, i, file.data)
<1>1. ASSUME NEW b PROVE BlockLen(b) = BytesOf(b, file.data)
  BY DEF BlockLen, BlockBytes, BytesOf, FoldLeft, MapThenFoldSet
<1>2. ASSUME NEW i PROVE BytesBefore(i) = StoredBefore(file.blocks, i, file.data)
  BY DEF BytesBefore, StoredBefore, BlockLen, BlockBytes, BytesOf, FoldLeft, MapThenFoldSet
<1> QED
  BY <1>1, <1>2

LEMMA LayoutTiles == ASSUME LengthsAreNat, LayoutSound PROVE IndexTilesFile
<1> SUFFICES ASSUME file # None
             PROVE  /\ Len(index) = Len(file.blocks)
                    /\ \A i \in DOMAIN index :
                         /\ index[i].key = Head(file.blocks[i])
                         /\ index[i].offset = BytesBefore(i)
                         /\ index[i].size = StoredLen(BlockLen(file.blocks[i]))
                         /\ BlockLen(file.blocks[i]) <= BlockSize \/ Len(file.blocks[i]) = 1
                    /\ file.data_size = BytesBefore(Len(file.blocks) + 1)
  BY DEF IndexTilesFile
<1> HIDE DEF LayoutSound
<1>1. \A i \in DOMAIN index : index[i].key = Head(file.blocks[i])
  <2> SUFFICES ASSUME NEW i \in DOMAIN index PROVE index[i].key = Head(file.blocks[i])
    OBVIOUS
  <2>1. i \in DOMAIN file.blocks
    BY FileLaid
  <2>2. PICK b \in Seq(Key) : b = file.blocks[i]
    BY <2>1, FileLaid
  <2>3. b # <<>> /\ index[i].key = b[1]
    BY <2>1, <2>2, FileLaid DEF Laid
  <2>4. Head(b) = b[1]
    BY <2>3
  <2> QED
    BY <2>2, <2>3, <2>4
<1>2. Len(index) = Len(file.blocks) /\ file.data_size = BytesBefore(Len(file.blocks) + 1)
  BY FileLaid, BytesInFile
<1>3. \A i \in DOMAIN index :
        /\ index[i].offset = BytesBefore(i)
        /\ index[i].size = StoredLen(BlockLen(file.blocks[i]))
        /\ BlockLen(file.blocks[i]) <= BlockSize \/ Len(file.blocks[i]) = 1
  BY FileLaid, BytesInFile DEF Fits
<1> QED
  BY <1>1, <1>2, <1>3

(* The offsets and sizes in the index of a finished file are those of its   *)
(* blocks, whatever was added to the writer and however it was compressed,  *)
(* and only a block of one entry is larger than BLOCK_SIZE.                 *)
THEOREM IndexTilesFileHolds ==
  ASSUME LengthsAreNat
  PROVE  Spec => []IndexTilesFile
BY InitLayout, LayoutStep, LayoutTiles, PTL DEF Spec


-----------------------------------------------------------------------------
(* The binary search of find_block_for_key.  Its equation has a solution,   *)
(* the number of blocks that begin at or below the key, brought into the    *)
(* bounds of the search, and it has no other: by induction over the         *)
(* distance of the bounds.                                                  *)
Searches(h, key) ==
  h = [bounds \in (0..Blocks) \X (0..Blocks) |->
         LET left  == bounds[1]
             right == bounds[2]
             mid   == left + (right - left) \div 2
         IN IF left >= right THEN left
            ELSE IF key < index[mid + 1].key THEN h[<<left, mid>>]
                                             ELSE h[<<mid + 1, right>>]]

Clamp(f, left, right) ==
  IF left >= right \/ f <= left THEN left ELSE IF right <= f THEN right ELSE f

LEMMA SearchLoopIs ==
  ASSUME NEW key PROVE SearchLoop(key) = (CHOOSE h : Searches(h, key))[<<0, Blocks>>]
BY DEF SearchLoop, Searches

LEMMA MidpointFacts ==
  ASSUME NEW left \in Nat, NEW right \in Nat, left < right, NEW mid, mid = left + (right - left) \div 2
  PROVE  mid \in Nat /\ left <= mid /\ mid < right
BY Z3

LEMMA SearchLoopEnds ==
  ASSUME NEW key, NEW n \in Nat, n = Blocks, NEW f \in 0..n,
         \A i \in 1..n : key < index[i].key <=> f < i
  PROVE  SearchLoop(key) = f
<1> DEFINE Bounds == (0..n) \X (0..n)
           Mid(left, right) == left + (right - left) \div 2
           Below(left, right) == key < index[Mid(left, right) + 1].key
           answered == [p \in Bounds |-> Clamp(f, p[1], p[2])]
<1>1. \A left, right \in 0..n : left < right =>
        /\ Mid(left, right) \in 0..n /\ Mid(left, right) + 1 \in 0..n
        /\ left <= Mid(left, right) /\ Mid(left, right) < right
        /\ Below(left, right) <=> f < Mid(left, right) + 1
  <2> SUFFICES ASSUME NEW left \in 0..n, NEW right \in 0..n, left < right
               PROVE  /\ Mid(left, right) \in 0..n /\ Mid(left, right) + 1 \in 0..n
                      /\ left <= Mid(left, right) /\ Mid(left, right) < right
                      /\ Below(left, right) <=> f < Mid(left, right) + 1
    OBVIOUS
  <2>1. PICK mid : mid = Mid(left, right)
    OBVIOUS
  <2>2. left \in Nat /\ right \in Nat
    OBVIOUS
  <2>3. mid \in Nat /\ left <= mid /\ mid < right
    BY <2>1, <2>2, MidpointFacts
  <2>4. mid \in 0..n /\ mid + 1 \in 0..n /\ mid + 1 \in 1..n
    BY <2>2, <2>3
  <2>5. key < index[mid + 1].key <=> f < mid + 1
    BY <2>4
  <2> QED
    BY <2>1, <2>3, <2>4, <2>5
<1> HIDE DEF Mid
<1>2. ASSUME NEW h
      PROVE  Searches(h, key) <=>
               h = [p \in Bounds |->
                      IF p[1] >= p[2] THEN p[1]
                      ELSE IF Below(p[1], p[2]) THEN h[<<p[1], Mid(p[1], p[2])>>]
                                                ELSE h[<<Mid(p[1], p[2]) + 1, p[2]>>]]
  BY DEF Searches, Mid
<1> HIDE DEF Below
<1>3. \A left, right \in 0..n : left < right =>
        Clamp(f, left, right) = IF Below(left, right) THEN Clamp(f, left, Mid(left, right))
                                                      ELSE Clamp(f, Mid(left, right) + 1, right)
  <2> SUFFICES ASSUME NEW left \in 0..n, NEW right \in 0..n, left < right
               PROVE  Clamp(f, left, right)
                        = IF Below(left, right) THEN Clamp(f, left, Mid(left, right))
                                                ELSE Clamp(f, Mid(left, right) + 1, right)
    OBVIOUS
  <2>1. PICK mid \in 0..n : mid = Mid(left, right)
    BY <1>1
  <2>2. left <= mid /\ mid < right /\ (Below(left, right) <=> f < mid + 1)
    BY <1>1, <2>1
  <2>3. CASE f < mid + 1
    <3>1. Clamp(f, left, right) = Clamp(f, left, mid)
      BY <2>2, <2>3 DEF Clamp
    <3> QED
      BY <2>1, <2>2, <2>3, <3>1
  <2>4. CASE ~(f < mid + 1)
    <3>1. Clamp(f, left, right) = Clamp(f, mid + 1, right)
      BY <2>2, <2>4 DEF Clamp
    <3> QED
      BY <2>1, <2>2, <2>4, <3>1
  <2> QED
    BY <2>3, <2>4
<1>4. Searches(answered, key)
  <2> DEFINE body == [p \in Bounds |->
                        IF p[1] >= p[2] THEN p[1]
                        ELSE IF Below(p[1], p[2]) THEN answered[<<p[1], Mid(p[1], p[2])>>]
                                                  ELSE answered[<<Mid(p[1], p[2]) + 1, p[2]>>]]
  <2>1. ASSUME NEW left \in 0..n, NEW right \in 0..n
        PROVE  answered[<<left, right>>] = body[<<left, right>>]
    <3>1. CASE left >= right
      BY <3>1 DEF Clamp
    <3>2. CASE left < right
      <4>1. ~(left >= right)
        BY <3>2
      <4>2. /\ answered[<<left, Mid(left, right)>>] = Clamp(f, left, Mid(left, right))
            /\ answered[<<Mid(left, right) + 1, right>>] = Clamp(f, Mid(left, right) + 1, right)
        BY <1>1, <3>2
      <4>3. answered[<<left, right>>] = Clamp(f, left, right)
        OBVIOUS
      <4> HIDE DEF answered
      <4> QED
        BY <1>3, <3>2, <4>1, <4>2, <4>3
    <3> QED
      BY <3>1, <3>2
  <2>2. answered = body
    <3>1. \A p \in Bounds : p[1] \in 0..n /\ p[2] \in 0..n /\ p = <<p[1], p[2]>>
      OBVIOUS
    <3>2. \A p \in Bounds : answered[p] = body[p]
      <4> HIDE DEF answered, body, Bounds
      <4> QED
        BY <2>1, <3>1
    <3>3. answered = [p \in Bounds |-> answered[p]] /\ body = [p \in Bounds |-> body[p]]
      <4> HIDE DEF Bounds
      <4> QED
        OBVIOUS
    <3> HIDE DEF answered, body, Bounds
    <3> QED
      BY <3>2, <3>3
  <2> QED
    BY <1>2, <2>2
<1>5. ASSUME NEW h, Searches(h, key)
      PROVE  h[<<0, n>>] = f
  <2> DEFINE Done == {d \in Nat : \A left, right \in 0..n :
                                     right - left <= d => h[<<left, right>>] = Clamp(f, left, right)}
  <2>1. \A left, right \in 0..n :
          h[<<left, right>>] = IF left >= right THEN left
                           ELSE IF Below(left, right) THEN h[<<left, Mid(left, right)>>]
                                                      ELSE h[<<Mid(left, right) + 1, right>>]
    BY <1>2, <1>5
  <2>2. 0 \in Done
    <3> SUFFICES ASSUME NEW left \in 0..n, NEW right \in 0..n, right - left <= 0
                 PROVE  h[<<left, right>>] = Clamp(f, left, right)
      OBVIOUS
    <3>1. left >= right
      OBVIOUS
    <3> QED
      BY <2>1, <3>1 DEF Clamp
  <2>3. ASSUME NEW d \in 0..(n - 1), d \in Done PROVE d + 1 \in Done
    <3>1. ASSUME NEW left \in 0..n, NEW right \in 0..n, right - left <= d + 1, left < right
          PROVE  h[<<left, right>>] = Clamp(f, left, right)
      <4>1. PICK mid \in 0..n : mid = Mid(left, right)
        BY <1>1, <3>1
      <4>2. left <= mid /\ mid < right /\ mid + 1 \in 0..n
        BY <1>1, <3>1, <4>1
      <4>3. mid - left <= d /\ right - (mid + 1) <= d
        BY <3>1, <4>2
      <4>4. h[<<left, mid>>] = Clamp(f, left, mid) /\ h[<<mid + 1, right>>] = Clamp(f, mid + 1, right)
        BY <2>3, <4>2, <4>3
      <4>5. ~(left >= right)
        BY <3>1
      <4> HIDE DEF Done
      <4>6. Clamp(f, left, right) = IF Below(left, right) THEN Clamp(f, left, mid)
                                                          ELSE Clamp(f, mid + 1, right)
        BY <1>3, <3>1, <4>1
      <4>7. h[<<left, right>>] = IF Below(left, right) THEN h[<<left, mid>>] ELSE h[<<mid + 1, right>>]
        BY <2>1, <4>1, <4>5
      <4> QED
        BY <4>4, <4>6, <4>7
    <3>2. ASSUME NEW left \in 0..n, NEW right \in 0..n, left >= right
          PROVE  h[<<left, right>>] = Clamp(f, left, right)
      BY <2>1, <3>2 DEF Clamp
    <3>3. \A left, right \in 0..n : left < right \/ left >= right
      OBVIOUS
    <3>4. d + 1 \in Nat
      OBVIOUS
    <3>5. \A left, right \in 0..n : right - left <= d + 1 => h[<<left, right>>] = Clamp(f, left, right)
      BY <3>1, <3>2, <3>3
    <3> QED
      BY <3>4, <3>5
  <2> HIDE DEF Done
  <2>4. n \in Done
    <3>1. \A d \in 0..n : d \in Done
      BY <2>2, <2>3, NatInterval
    <3> QED
      BY <3>1
  <2>5. h[<<0, n>>] = Clamp(f, 0, n)
    BY <2>4 DEF Done
  <2> QED
    BY <2>5 DEF Clamp
<1>6. Searches(CHOOSE h : Searches(h, key), key)
  <2> HIDE DEF answered
  <2> QED BY <1>4
<1>7. (CHOOSE h : Searches(h, key))[<<0, n>>] = f
  <2>1. PICK h : h = CHOOSE g : Searches(g, key)
    OBVIOUS
  <2> QED
    BY <1>5, <1>6, <2>1
<1> QED
  BY <1>7, SearchLoopIs

LEMMA LayoutSearches == ASSUME LengthsAreNat, LayoutSound PROVE SearchFindsKey
<1> SUFFICES ASSUME file # None, NEW k \in Key
             PROVE  /\ SearchLoop(k) = FindBlock(index, k)
                    /\ k \in KeysOf(file.data) =>
                         FindBlock(index, k) # 0 /\ Contains(file.blocks[FindBlock(index, k)], k)
  BY DEF SearchFindsKey
<1> DEFINE n == Len(index)
           f == FindBlock(index, k)
<1>1. /\ file.blocks \in Seq(Seq(Key)) /\ index \in Seq(IndexEntry)
      /\ Laid(file.blocks, index, KeysOf(file.data))
      /\ n \in Nat /\ DOMAIN index = 1..n /\ DOMAIN file.blocks = 1..n
  BY FileLaid
<1>2. k \in Nat /\ \A i \in 1..n : index[i].key \in Nat
  BY <1>1, IndexAscends, LsmDataAssumption
<1>3. /\ f \in 0..n
      /\ \A i \in DOMAIN index : index[i].key <= k <=> i <= f
      /\ \A i \in DOMAIN file.blocks : Contains(file.blocks[i], k) => i = f
  <2>1. PICK blocks \in Seq(Seq(Key)) : blocks = file.blocks
    BY <1>1
  <2>2. PICK entries \in Seq(IndexEntry) : entries = index
    BY <1>1
  <2>3. Laid(blocks, entries, KeysOf(file.data))
    BY <1>1, <2>1, <2>2
  <2>4. /\ FindBlock(entries, k) \in 0..Len(entries)
        /\ \A i \in DOMAIN entries : entries[i].key <= k <=> i <= FindBlock(entries, k)
        /\ \A i \in DOMAIN blocks : Contains(blocks[i], k) => i = FindBlock(entries, k)
    <3>1. Divides(FindBlock(entries, k), entries, blocks, k)
      BY <1>2, <2>3, FindBlockFacts
    <3> QED
      BY <3>1 DEF Divides
  <2> QED
    BY <2>1, <2>2, <2>4
<1> HIDE DEF n, f
<1>4. SearchLoop(k) = f
  <2>1. \A i \in 1..n : k < index[i].key <=> f < i
    <3> SUFFICES ASSUME NEW i \in 1..n PROVE k < index[i].key <=> f < i
      OBVIOUS
    <3>1. index[i].key <= k <=> i <= f
      BY <1>1, <1>3
    <3>2. f \in Nat /\ i \in Nat /\ k \in Nat /\ index[i].key \in Nat
      BY <1>1, <1>2, <1>3
    <3> QED
      BY <3>1, <3>2
  <2>2. n = Blocks
    BY DEF n, Blocks
  <2> QED
    BY <1>1, <1>3, <2>1, <2>2, SearchLoopEnds
<1>5. ASSUME k \in KeysOf(file.data) PROVE f # 0 /\ Contains(file.blocks[f], k)
  <2>1. PICK i \in DOMAIN file.blocks : Contains(file.blocks[i], k)
    BY <1>1, <1>5 DEF Laid
  <2>2. i = f /\ i # 0
    BY <1>1, <1>3, <2>1
  <2> QED
    BY <2>1, <2>2
<1> QED
  BY <1>4, <1>5 DEF f

(* The binary search of a reader ends at the number of blocks that begin at *)
(* or below the key, and when the file has the key, the block at that place *)
(* has it.                                                                  *)
THEOREM SearchFindsKeyHolds ==
  ASSUME LengthsAreNat
  PROVE  Spec => []SearchFindsKey
BY InitLayout, LayoutStep, LayoutSearches, PTL DEF Spec


-----------------------------------------------------------------------------
(* What an operation collects: the entries it wants of one block, and then  *)
(* of one block after another.                                              *)
LEMMA ConcatAscends ==
  ASSUME NEW s \in Seq(Key), Ascends(s), NEW u \in Seq(Key), Ascends(u),
         \A j, k \in Key : Contains(s, j) /\ Contains(u, k) => j < k,
         NEW r, r = s \o u
  PROVE  /\ r \in Seq(Key) /\ Ascends(r)
         /\ \A k \in Key : Contains(r, k) <=> Contains(s, k) \/ Contains(u, k)
<1> DEFINE m == Len(s)
           n == Len(u)
<1>1. /\ m \in Nat /\ n \in Nat /\ DOMAIN s = 1..m /\ DOMAIN u = 1..n
      /\ \A i \in 1..m : s[i] \in Key
      /\ \A i \in 1..n : u[i] \in Key
      /\ \A k : Contains(s, k) <=> \E i \in 1..m : s[i] = k
      /\ \A k : Contains(u, k) <=> \E i \in 1..n : u[i] = k
  BY DEF Contains
<1>2. /\ r \in Seq(Key) /\ Len(r) = m + n /\ DOMAIN r = 1..(m + n)
      /\ \A i \in 1..m : r[i] = s[i]
      /\ \A i \in 1..n : r[m + i] = u[i]
  OBVIOUS
<1>3. \A k : Contains(r, k) <=> \E i \in 1..(m + n) : r[i] = k
  BY <1>2 DEF Contains
<1> HIDE DEF m, n
<1>4. \A i \in 1..(m + n) : i \in 1..m \/ \E j \in 1..n : i = m + j
  <2> SUFFICES ASSUME NEW i \in 1..(m + n), i \notin 1..m PROVE \E j \in 1..n : i = m + j
    OBVIOUS
  <2>1. i - m \in 1..n /\ i = m + (i - m)
    BY <1>1
  <2> QED
    BY <2>1
<1>5. \A i, j \in 1..m : i < j => r[i] < r[j]
  BY <1>1, <1>2 DEF Ascends
<1>6. \A i, j \in 1..n : m + i < m + j => r[m + i] < r[m + j]
  <2> SUFFICES ASSUME NEW i \in 1..n, NEW j \in 1..n, m + i < m + j PROVE r[m + i] < r[m + j]
    OBVIOUS
  <2>1. i < j
    BY <1>1
  <2>2. u[i] < u[j]
    BY <1>1, <2>1 DEF Ascends
  <2> QED
    BY <1>2, <2>2
<1>7. \A i \in 1..m, j \in 1..n : r[i] < r[m + j]
  BY <1>1, <1>2
<1>8. \A i \in 1..m, j \in 1..n : ~(m + j < i)
  BY <1>1
<1>9. Ascends(r)
  <2> SUFFICES ASSUME NEW i \in 1..(m + n), NEW j \in 1..(m + n), i < j PROVE r[i] < r[j]
    BY <1>2 DEF Ascends
  <2>1. CASE i \in 1..m /\ j \in 1..m
    BY <1>5, <2>1
  <2>2. CASE i \in 1..m /\ j \notin 1..m
    BY <1>4, <1>7, <2>2
  <2>3. CASE i \notin 1..m /\ j \notin 1..m
    BY <1>4, <1>6, <2>3
  <2>4. CASE i \notin 1..m /\ j \in 1..m
    BY <1>4, <1>8, <2>4
  <2> QED
    BY <2>1, <2>2, <2>3, <2>4
<1>10. ASSUME NEW k \in Key
       PROVE  Contains(r, k) <=> Contains(s, k) \/ Contains(u, k)
  <2>1. ASSUME Contains(r, k) PROVE Contains(s, k) \/ Contains(u, k)
    <3>1. PICK i \in 1..(m + n) : r[i] = k
      BY <1>3, <2>1
    <3>2. CASE i \in 1..m
      BY <1>1, <1>2, <3>1, <3>2
    <3>3. CASE i \notin 1..m
      <4>1. PICK j \in 1..n : i = m + j
        BY <1>4, <3>3
      <4>2. u[j] = k
        BY <1>2, <3>1, <4>1
      <4> QED
        BY <1>1, <4>2
    <3> QED
      BY <3>2, <3>3
  <2>2. ASSUME Contains(s, k) PROVE Contains(r, k)
    <3>1. PICK i \in 1..m : s[i] = k
      BY <1>1, <2>2
    <3>2. i \in 1..(m + n) /\ r[i] = k
      BY <1>1, <1>2, <3>1
    <3> QED
      BY <1>3, <3>2
  <2>3. ASSUME Contains(u, k) PROVE Contains(r, k)
    <3>1. PICK i \in 1..n : u[i] = k
      BY <1>1, <2>3
    <3>2. m + i \in 1..(m + n) /\ r[m + i] = k
      BY <1>1, <1>2, <3>1
    <3> QED
      BY <1>3, <3>2
  <2> QED
    BY <2>1, <2>2, <2>3
<1> QED
  BY <1>2, <1>9, <1>10

TakeKey(i, found, c) == IF Wants(c.call, c.block[i]) THEN Append(found, c.block[i]) ELSE found
Taking == INSTANCE FoldProofs WITH Op <- TakeKey, Pick <- Max
TakesOf(c, block) == [call |-> c, block |-> block]

LEMMA WantedIsFold ==
  ASSUME NEW c, NEW block
  PROVE  Wanted(c, block) = Taking!Fold(DOMAIN block, <<>>, TakesOf(c, block))
BY DEF Wanted, FoldLeft, MapThenFoldSet, Taking!Fold, Taking!Unfolds, TakeKey, TakesOf

LEMMA WantedFacts ==
  ASSUME NEW c, NEW block \in Seq(Key), Ascends(block), NEW s, s = Wanted(c, block)
  PROVE  /\ s \in Seq(Key) /\ Ascends(s)
         /\ \A k \in Key : Contains(s, k) <=> Contains(block, k) /\ Wants(c, k)
<1> DEFINE n == Len(block)
           q == TakesOf(c, block)
           upto(i) == Taking!Fold(1..i, <<>>, q)
           Sound(i, u) == /\ u \in Seq(Key) /\ Ascends(u)
                          /\ \A k \in Key : Contains(u, k) <=> \E j \in 1..i : block[j] = k /\ Wants(c, k)
           Good == {i \in Nat : Sound(i, upto(i))}
<1>1. /\ n \in Nat /\ DOMAIN block = 1..n /\ \A i \in 1..n : block[i] \in Key
      /\ \A k : Contains(block, k) <=> \E j \in 1..n : block[j] = k
  BY DEF Contains
<1>2. /\ upto(0) = <<>>
      /\ \A i \in 0..(n - 1) :
           upto(i + 1) = IF Wants(c, block[i + 1]) THEN Append(upto(i), block[i + 1]) ELSE upto(i)
  <2>1. /\ Taking!Fold(1..0, <<>>, q) = <<>>
        /\ \A i \in 0..(n - 1) : Taking!Fold(1..(i + 1), <<>>, q)
                                   = TakeKey(i + 1, Taking!Fold(1..i, <<>>, q), q)
    <3> HIDE DEF q, n
    <3> QED
      BY <1>1, MaxPicks, Taking!FoldInterval
  <2>2. \A i : \A u : TakeKey(i, u, q) = IF Wants(c, block[i]) THEN Append(u, block[i]) ELSE u
    BY DEF TakeKey, TakesOf
  <2> HIDE DEF q, n
  <2> QED
    BY <2>1, <2>2
<1>3. s = upto(n)
  BY <1>1, WantedIsFold
<1> HIDE DEF n, upto
<1>4. 0 \in Good
  <2>1. <<>> \in Seq(Key) /\ Ascends(<<>>) /\ 1..0 = {} /\ \A k : ~Contains(<<>>, k)
    BY DEF Ascends, Contains
  <2> QED
    BY <1>2, <2>1
<1>5. \A i \in 0..(n - 1) : i \in Good => i + 1 \in Good
  <2> SUFFICES ASSUME NEW i \in 0..(n - 1), Sound(i, upto(i)) PROVE i + 1 \in Good
    OBVIOUS
  <2> DEFINE k == block[i + 1]
  <2>1. i \in Nat /\ i + 1 \in Nat /\ i + 1 \in 1..n /\ \A j \in 1..i : j \in 1..n /\ j < i + 1
    BY <1>1
  <2>2. k \in Key /\ \A j \in 1..i : block[j] < k
    BY <1>1, <2>1 DEF Ascends
  <2>3. \A j : j \in 1..(i + 1) <=> j \in 1..i \/ j = i + 1
    BY <2>1
  <2>4. PICK u : u = upto(i)
    OBVIOUS
  <2>5. Sound(i, u)
    BY <2>4
  <2>6. CASE Wants(c, k)
    <3>1. upto(i + 1) = u \o <<k>>
      <4>1. upto(i + 1) = Append(u, k)
        BY <1>2, <2>4, <2>6
      <4>2. Append(u, k) = u \o <<k>>
        BY <2>2, <2>5
      <4> QED
        BY <4>1, <4>2
    <3>2. <<k>> \in Seq(Key) /\ Ascends(<<k>>) /\ \A j : Contains(<<k>>, j) <=> j = k
      BY <2>2 DEF Ascends, Contains
    <3>3. \A j, l \in Key : Contains(u, j) /\ Contains(<<k>>, l) => j < l
      BY <2>2, <2>5, <3>2
    <3> HIDE DEF k
    <3>4. PICK v \in Seq(Key) : v = <<k>>
      BY <3>2
    <3>5. PICK r : r = u \o v
      OBVIOUS
    <3>6. r \in Seq(Key) /\ Ascends(r) /\ \A j \in Key : Contains(r, j) <=> Contains(u, j) \/ Contains(v, j)
      BY <2>5, <3>2, <3>3, <3>4, <3>5, ConcatAscends
    <3>7. \A l \in Key : Contains(r, l) <=> \E j \in 1..(i + 1) : block[j] = l /\ Wants(c, l)
      <4>1. \A l \in Key : Contains(r, l) <=> (\E j \in 1..i : block[j] = l /\ Wants(c, l)) \/ l = k
        BY <2>5, <3>2, <3>4, <3>6
      <4> QED
        BY <2>3, <2>6, <4>1 DEF k
    <3>8. Sound(i + 1, upto(i + 1))
      BY <3>1, <3>4, <3>5, <3>6, <3>7
    <3> QED
      BY <2>1, <3>8
  <2>7. CASE ~Wants(c, k)
    <3>1. upto(i + 1) = u
      BY <1>2, <2>4, <2>7
    <3>2. \A l \in Key : (\E j \in 1..(i + 1) : block[j] = l /\ Wants(c, l))
                           <=> (\E j \in 1..i : block[j] = l /\ Wants(c, l))
      BY <2>3, <2>7
    <3>3. Sound(i + 1, upto(i + 1))
      BY <2>5, <3>1, <3>2
    <3> QED
      BY <2>1, <3>3
  <2> QED
    BY <2>6, <2>7
<1>6. Sound(n, upto(n))
  <2>1. n \in Good
    <3> HIDE DEF Good
    <3>1. \A i \in 0..n : i \in Good
      BY <1>1, <1>4, <1>5, NatInterval
    <3> QED
      BY <1>1, <3>1
  <2> QED
    BY <2>1
<1> QED
  BY <1>1, <1>3, <1>6


-----------------------------------------------------------------------------
(* Every entry takes 21 bytes at least, and a block at least what each of   *)
(* its entries takes.                                                       *)
LEMMA BytesOfMember ==
  ASSUME LengthsAreNat, NEW block \in Seq(Key), NEW data, \A i \in DOMAIN block : data[block[i]] \in Entry
  PROVE  \A i \in DOMAIN block : EncodedLen(block[i], data[block[i]]) <= BytesOf(block, data)
<1> DEFINE n == Len(block)
           c == LensOf(block, data)
           len(i) == EncodedLen(block[i], data[block[i]])
           upto(i) == Lens!Fold(1..i, 0, c)
           Sound(i, m) == m \in Nat /\ \A j \in 1..i : len(j) <= m
           Good == {i \in Nat : Sound(i, upto(i))}
<1>1. n \in Nat /\ DOMAIN block = 1..n /\ \A i \in 1..n : len(i) \in Nat
  <2>1. n \in Nat /\ DOMAIN block = 1..n /\ \A i \in 1..n : block[i] \in Key
    OBVIOUS
  <2> QED
    BY <2>1, LengthTypes
<1>2. upto(0) = 0 /\ \A i \in 0..(n - 1) : upto(i + 1) = upto(i) + len(i + 1)
  <2>1. /\ Lens!Fold(1..0, 0, c) = 0
        /\ \A i \in 0..(n - 1) : Lens!Fold(1..(i + 1), 0, c) = AddLen(i + 1, Lens!Fold(1..i, 0, c), c)
    <3> HIDE DEF c, n
    <3> QED
      BY <1>1, MaxPicks, Lens!FoldInterval
  <2>2. \A i : \A m : AddLen(i, m, c) = m + len(i)
    BY DEF AddLen, LensOf
  <2> HIDE DEF c, n, len
  <2> QED
    BY <2>1, <2>2
<1>3. BytesOf(block, data) = upto(n)
  BY <1>1, BytesIsFold
<1> HIDE DEF n, upto, len
<1>4. 0 \in Good
  <2>1. \A j \in 1..0 : FALSE
    OBVIOUS
  <2> QED
    BY <1>2, <2>1
<1>5. \A i \in 0..(n - 1) : i \in Good => i + 1 \in Good
  <2> SUFFICES ASSUME NEW i \in 0..(n - 1), Sound(i, upto(i)) PROVE i + 1 \in Good
    OBVIOUS
  <2>1. PICK m \in Nat : m = upto(i)
    OBVIOUS
  <2>2. i + 1 \in Nat /\ i + 1 \in 1..n /\ \A j \in 1..(i + 1) : j \in 1..i \/ j = i + 1
    BY <1>1
  <2>3. PICK l \in Nat : l = len(i + 1)
    BY <1>1, <2>2
  <2>4. upto(i + 1) = m + l
    BY <1>2, <2>1, <2>3
  <2>5. \A j \in 1..i : j \in 1..n
    BY <1>1
  <2>6. \A j \in 1..(i + 1) : len(j) <= m + l
    <3> SUFFICES ASSUME NEW j \in 1..(i + 1) PROVE len(j) <= m + l
      OBVIOUS
    <3>1. CASE j \in 1..i
      <4>1. len(j) <= m /\ len(j) \in Nat
        BY <1>1, <2>1, <2>5, <3>1
      <4> QED
        BY <4>1
    <3>2. CASE j = i + 1
      BY <2>3, <3>2
    <3> QED
      BY <2>2, <3>1, <3>2
  <2>7. Sound(i + 1, upto(i + 1))
    BY <2>4, <2>6
  <2> QED
    BY <2>2, <2>7
<1>6. Sound(n, upto(n))
  <2>1. n \in Good
    <3> HIDE DEF Good
    <3>1. \A i \in 0..n : i \in Good
      BY <1>1, <1>4, <1>5, NatInterval
    <3> QED
      BY <1>1, <3>1
  <2> QED
    BY <2>1
<1> QED
  BY <1>1, <1>3, <1>6 DEF len

LEMMA EntryBytes ==
  ASSUME NEW k \in Key, NEW e \in Entry
  PROVE  EncodedLen(k, e) \in Nat /\ EncodedLen(k, e) >= 21
<1>1. KeyLen[k] \in Nat /\ (e.val # None => ValueLen[e.val] \in Nat)
  BY LsmDataAssumption DEF Entry
<1> QED
  BY <1>1 DEF EncodedLen

(* A block of the file, its keys and its bytes.                             *)
LEMMA BlockFacts ==
  ASSUME LengthsAreNat, LayoutSound, file # None, NEW i \in DOMAIN index
  PROVE  /\ file.blocks[i] \in Seq(Key) /\ file.blocks[i] # <<>> /\ Ascends(file.blocks[i])
         /\ index[i].key = file.blocks[i][1]
         /\ \A k \in Key : Contains(file.blocks[i], k) => k \in KeysOf(file.data)
         /\ \A j \in DOMAIN file.blocks[i] :
              /\ file.blocks[i][j] \in KeysOf(file.data) /\ file.blocks[i][j] \in Key
              /\ file.data[file.blocks[i][j]] \in Entry
         /\ BlockLen(file.blocks[i]) \in Nat
<1>1. PICK block \in Seq(Key) : block = file.blocks[i]
  BY FileLaid
<1>2. /\ block # <<>> /\ Ascends(block) /\ Drawn(block, KeysOf(file.data))
      /\ index[i].key = block[1] /\ file.data \in EntryMap
  BY <1>1, FileLaid DEF Laid
<1>3. \A k \in Key : Contains(block, k) => k \in KeysOf(file.data)
  BY <1>2 DEF Drawn, Contains
<1>4. \A j \in DOMAIN block : block[j] \in KeysOf(file.data) /\ block[j] \in Key /\ file.data[block[j]] \in Entry
  BY <1>2 DEF Drawn, KeysOf, EntryMap
<1>5. BytesOf(block, file.data) \in Nat
  BY <1>4, BytesOfType
<1> QED
  BY <1>1, <1>2, <1>3, <1>4, <1>5, BytesInFile

(* Which blocks of the file can be read back.                               *)
LEMMA ReadableBlocks ==
  ASSUME LengthsAreNat, LayoutSound, file # None
  PROVE  /\ \A i \in DOMAIN index :
              Readable(i) <=> (file.compression = "zstd" => RawLen(BlockLen(file.blocks[i])) <= 4 * BlockSize)
         /\ Undecodable <=> \E i \in DOMAIN index : ~Readable(i)
<1>1. \A i \in DOMAIN index :
        Readable(i) <=> (file.compression = "zstd" => RawLen(BlockLen(file.blocks[i])) <= 4 * BlockSize)
  BY LayoutTiles DEF Readable, IndexTilesFile, Decodable, BlockLen
<1>2. ASSUME Undecodable
      PROVE  \E i \in DOMAIN index : ~Readable(i)
  <2>1. PICK k \in KeysOf(file.data) : RawLen(EncodedLen(k, file.data[k])) > 4 * BlockSize
    BY <1>2 DEF Undecodable
  <2>2. PICK i \in DOMAIN index : Contains(file.blocks[i], k)
    BY FileLaid DEF Laid
  <2>3. PICK block \in Seq(Key) : block = file.blocks[i]
    BY FileLaid
  <2>4. \A j \in DOMAIN block : file.data[block[j]] \in Entry /\ block[j] \in Key
    BY <2>3, BlockFacts
  <2>5. PICK j \in DOMAIN block : block[j] = k
    BY <2>2, <2>3 DEF Contains
  <2>6. EncodedLen(k, file.data[k]) <= BytesOf(block, file.data)
    BY <2>4, <2>5, BytesOfMember
  <2>7. BytesOf(block, file.data) \in Nat /\ EncodedLen(k, file.data[k]) \in Nat
    BY <2>4, <2>5, BytesOfType, EntryBytes
  <2>8. RawLen(BytesOf(block, file.data)) > 4 * BlockSize
    BY <2>1, <2>6, <2>7, SSTableAssumption DEF RawLen
  <2>9. ~(RawLen(BlockLen(block)) <= 4 * BlockSize)
    BY <2>7, <2>8, BytesInFile, SSTableAssumption DEF RawLen
  <2> QED
    BY <1>1, <1>2, <2>3, <2>9 DEF Undecodable
<1>3. ASSUME NEW i \in DOMAIN index, ~Readable(i)
      PROVE  Undecodable
  <2>1. PICK block \in Seq(Key) : block = file.blocks[i]
    BY FileLaid
  <2>2. /\ \A j \in DOMAIN block : /\ block[j] \in KeysOf(file.data) /\ block[j] \in Key
                                   /\ file.data[block[j]] \in Entry
        /\ block # <<>>
    BY <2>1, BlockFacts
  <2> DEFINE bytes == BytesOf(block, file.data)
             k == block[1]
             len == EncodedLen(k, file.data[k])
  <2>3. bytes \in Nat /\ bytes + 4 > 4 * BlockSize /\ file.compression = "zstd"
    <3>1. bytes \in Nat
      BY <2>2, BytesOfType
    <3> QED
      BY <1>1, <1>3, <2>1, <3>1, BytesInFile, SSTableAssumption DEF RawLen
  <2>4. 1 \in DOMAIN block
    BY <2>2
  <2>5. len \in Nat /\ len >= 21 /\ len <= bytes
    BY <2>2, <2>4, EntryBytes, BytesOfMember
  <2>6. bytes <= BlockSize \/ Len(block) = 1
    BY <2>1, FileLaid DEF Fits
  <2> HIDE DEF bytes, len
  <2>7. Len(block) = 1
    BY <2>3, <2>5, <2>6, SSTableAssumption
  <2>8. bytes = len
    <3>1. block = Append(<<>>, k) /\ <<>> \in Seq(Key) /\ k \in Key
      BY <2>2, <2>4, <2>7
    <3>2. BytesOf(Append(<<>>, k), file.data) = BytesOf(<<>>, file.data) + EncodedLen(k, file.data[k])
      BY <3>1, BytesOfAppend
    <3> QED
      BY <2>5, <3>1, <3>2, BytesOfNone DEF bytes, len
  <2>9. RawLen(EncodedLen(k, file.data[k])) > 4 * BlockSize
    BY <2>3, <2>8, SSTableAssumption DEF RawLen, len
  <2> QED
    BY <2>2, <2>3, <2>4, <2>9 DEF Undecodable
<1> QED
  BY <1>1, <1>2, <1>3


-----------------------------------------------------------------------------
(* Blocks begin one after the other, so that an offset tells which block it *)
(* is; a cached block is therefore the one that a reader asks for, and it   *)
(* could be read once.                                                      *)
LEMMA OffsetsAscend ==
  ASSUME LengthsAreNat, LayoutSound, file # None
  PROVE  \A i, j \in DOMAIN index : index[i].offset = index[j].offset => i = j
<1> DEFINE n == Len(index)
           begins(i) == StoredBefore(file.blocks, i, file.data)
           stored(i) == StoredLen(BytesOf(file.blocks[i], file.data))
           Sound(i) == begins(i) \in Nat /\ \A j \in 1..(i - 1) : begins(j) \in Nat /\ begins(j) < begins(i)
           Good == {i \in Nat : i < n => Sound(i + 1)}
<1>1. /\ n \in Nat /\ DOMAIN index = 1..n /\ DOMAIN file.blocks = 1..n
      /\ file.blocks \in Seq(Seq(Key))
      /\ \A i \in 1..n : index[i].offset = begins(i)
  BY FileLaid
<1>2. begins(1) = 0 /\ \A i \in 1..n : begins(i + 1) = begins(i) + stored(i)
  BY <1>1, StoredBeforeNext
<1>3. \A i \in 1..n : stored(i) \in Nat /\ stored(i) > 0
  <2> SUFFICES ASSUME NEW i \in 1..n PROVE stored(i) \in Nat /\ stored(i) > 0
    OBVIOUS
  <2>1. BytesOf(file.blocks[i], file.data) \in Nat
    BY <1>1, BlockFacts, BytesInFile
  <2>2. PICK m \in Nat : m = BytesOf(file.blocks[i], file.data)
    BY <2>1
  <2>3. CompressedLen(4 + m) \in Nat
    BY DEF LengthsAreNat
  <2> QED
    BY <2>2, <2>3 DEF StoredLen, RawLen
<1> HIDE DEF n, begins, stored
<1>4. 0 \in Good
  <2>1. \A j \in 1..(1 - 1) : FALSE
    OBVIOUS
  <2>2. Sound(0 + 1)
    BY <1>2, <2>1
  <2> QED
    BY <2>2
<1>5. ASSUME NEW i \in 0..(n - 1), i \in Good, i + 1 < n PROVE Sound((i + 1) + 1)
  <2>1. /\ Sound(i + 1) /\ i + 1 \in 1..n
        /\ \A j \in 1..(((i + 1) + 1) - 1) : j \in 1..((i + 1) - 1) \/ j = i + 1
    BY <1>1, <1>5
  <2>2. PICK m \in Nat : m = begins(i + 1)
    BY <2>1
  <2>3. PICK l \in Nat : l = stored(i + 1) /\ l > 0
    BY <1>3, <2>1
  <2>4. begins((i + 1) + 1) = m + l
    BY <1>2, <2>1, <2>2, <2>3
  <2>5. \A j \in 1..((i + 1) - 1) : begins(j) \in Nat /\ begins(j) < m
    BY <2>1, <2>2
  <2>6. \A j \in 1..((i + 1) - 1) : begins(j) \in Nat /\ begins(j) < m + l
    BY <2>3, <2>5
  <2>7. m < m + l /\ m + l \in Nat
    BY <2>3
  <2> QED
    BY <2>1, <2>2, <2>4, <2>6, <2>7
<1>6. \A i \in 1..n : Sound(i)
  <2>1. \A i \in 0..n : i \in Good
    <3>1. ASSUME NEW i \in 0..(n - 1), i \in Good PROVE i + 1 \in Good
      <4> HIDE DEF Sound
      <4>1. i + 1 < n => Sound((i + 1) + 1)
        BY <1>5, <3>1
      <4>2. i + 1 \in Nat
        BY <1>1
      <4> QED
        BY <4>1, <4>2
    <3> HIDE DEF Good
    <3> QED
      BY <1>1, <1>4, <3>1, NatInterval
  <2> SUFFICES ASSUME NEW i \in 1..n PROVE Sound(i)
    OBVIOUS
  <2>2. i - 1 \in 0..n /\ i - 1 < n /\ (i - 1) + 1 = i
    BY <1>1
  <2> HIDE DEF Sound
  <2> QED
    BY <2>1, <2>2
<1> QED
  <2> SUFFICES ASSUME NEW i \in 1..n, NEW j \in 1..n, begins(i) = begins(j), i < j PROVE FALSE
    BY <1>1
  <2>1. i \in 1..(j - 1)
    BY <1>1
  <2>2. begins(i) \in Nat /\ begins(i) < begins(j)
    BY <1>6, <2>1
  <2> QED
    BY <2>2

(* A block at its place in the file is read if it can be decompressed.      *)
LEMMA ReadableDecodes ==
  ASSUME LengthsAreNat, LayoutSound, file # None, NEW i \in DOMAIN index
  PROVE  Readable(i) <=> Decodable(file.data, file.blocks[i], file.compression)
BY LayoutTiles DEF Readable, IndexTilesFile

(* Whether a block can be read depends on the file alone.                   *)
ReadsBack(i) ==
  /\ index[i].offset = StoredBefore(file.blocks, i, file.data)
  /\ index[i].size = StoredLen(BytesOf(file.blocks[i], file.data))
  /\ file.compression = "zstd" => RawLen(BytesOf(file.blocks[i], file.data)) <= 4 * BlockSize

LEMMA ReadableIs == \A i : Readable(i) <=> ReadsBack(i)
BY BytesInFile DEF Readable, ReadsBack, Decodable, BlockLen

LEMMA ReadableSame ==
  ASSUME UNCHANGED file
  PROVE  \A i : Readable(i)' <=> Readable(i)
<1>1. (\A i : Readable(i) <=> ReadsBack(i))'
  BY ReadableIs, PTL
<1>2. \A i : ReadsBack(i)' <=> ReadsBack(i)
  BY DEF ReadsBack, index
<1> QED
  BY <1>1, <1>2, ReadableIs

CacheReadable ==
  \A o \in DOMAIN cache : \E i \in DOMAIN index :
     index[i].offset = o /\ cache[o] = file.blocks[i] /\ Readable(i)

LEMMA CacheReadableStep ==
  ASSUME CacheInv, CacheReadable, [Next]_vars
  PROVE  CacheReadable'
<1>1. ASSUME cache' = EmptyCache PROVE CacheReadable'
  <2>1. DOMAIN cache' = {}
    BY <1>1 DEF EmptyCache
  <2> QED
    BY <2>1 DEF CacheReadable
<1>2. ASSUME UNCHANGED <<file, cache>> PROVE CacheReadable'
  BY <1>2, ReadableSame DEF CacheReadable, index
<1>3. ASSUME NEW t \in Thread, Load(t) PROVE CacheReadable'
  <2> DEFINE i == at[t] + 1
             block == file.blocks[i]
             o == Offset(t)
  <2>1. /\ cache' = Cached(o, block) /\ o = index[i].offset /\ Readable(i) /\ UNCHANGED file
        /\ i \in DOMAIN index
    BY <1>3 DEF Load, Offset, CacheInv, LoadsABlock
  <2>2. CacheReadable' <=> \A p \in DOMAIN cache' : \E j \in DOMAIN index :
                              index[j].offset = p /\ cache'[p] = file.blocks[j] /\ Readable(j)
    BY <2>1, ReadableSame DEF CacheReadable, index
  <2> HIDE DEF i, block, o
  <2>3. CASE cache' = EmptyCache
    BY <1>1, <2>3
  <2>4. CASE cache' # EmptyCache
    <3>1. /\ DOMAIN cache' = DOMAIN cache \cup {o} /\ cache'[o] = block
          /\ \A p \in DOMAIN cache : p # o => cache'[p] = cache[p]
      BY <2>1, <2>4 DEF Cached
    <3>2. ASSUME NEW p \in DOMAIN cache'
          PROVE  \E j \in DOMAIN index : index[j].offset = p /\ cache'[p] = file.blocks[j] /\ Readable(j)
      <4>1. CASE p = o
        BY <2>1, <3>1, <4>1 DEF block
      <4>2. CASE p # o
        BY <3>1, <3>2, <4>2 DEF CacheReadable
      <4> QED
        BY <4>1, <4>2
    <3> QED
      BY <2>2, <3>2
  <2> QED
    BY <2>3, <2>4
<1>4. CASE Finish
  <2>1. cache' = cache /\ reader = "none"
    BY <1>4 DEF Finish, reading, CacheInv, FileOnce
  <2>2. cache' = EmptyCache
    BY <2>1 DEF CacheInv, FileOnce
  <2> QED
    BY <1>1, <2>2
<1>5. ASSUME NEW n \in Expected, NEW c \in Compressions, Create(n, c) PROVE UNCHANGED <<file, cache>>
  BY <1>5 DEF Create, reading
<1>6. ASSUME NEW k \in Key, NEW v \in Value \cup {None}, Add(k, v) PROVE UNCHANGED <<file, cache>>
  BY <1>6 DEF Add, reading
<1>7. ASSUME Open PROVE UNCHANGED <<file, cache>>
  BY <1>7 DEF Open, reading
<1>8. ASSUME NEW t \in Thread, NEW c \in Call, Start(t, c) PROVE UNCHANGED <<file, cache>>
  BY <1>8 DEF Start
<1>9. ASSUME NEW t \in Thread, Step(t), ~Load(t) PROVE UNCHANGED <<file, cache>>
  BY <1>9 DEF Step, Finished, Panics, CacheHit, CacheMiss, LoadFails
<1>10. ASSUME UNCHANGED vars PROVE UNCHANGED <<file, cache>>
  BY <1>10 DEF vars
<1> QED
  BY <1>2, <1>3, <1>4, <1>5, <1>6, <1>7, <1>8, <1>9, <1>10 DEF Next

(* A hit and a load give the same block, and it can be read.                *)
LEMMA HitIsBlock ==
  ASSUME LengthsAreNat, LayoutSound, CacheReadable, file # None, NEW t \in Thread,
         at[t] + 1 \in DOMAIN index, Offset(t) \in DOMAIN cache
  PROVE  cache[Offset(t)] = file.blocks[at[t] + 1] /\ Readable(at[t] + 1)
<1>1. PICK i \in DOMAIN index : /\ index[i].offset = Offset(t) /\ cache[Offset(t)] = file.blocks[i]
                                /\ Readable(i)
  BY DEF CacheReadable
<1>2. i = at[t] + 1
  BY <1>1, OffsetsAscend DEF Offset
<1> QED
  BY <1>1, <1>2


-----------------------------------------------------------------------------
(* What a thread has done when it is about to look at block upto: nothing   *)
(* stopped it before, and it holds what it wanted of the blocks it passed.  *)
Reached(c, upto) ==
  /\ upto \in Nat /\ StartBlock(c) \in Nat /\ StartBlock(c) <= upto
  /\ \A i \in StartBlock(c)..(upto - 1) : i < Blocks /\ ~Ends(c, i) /\ Readable(i + 1)
Collected(c, upto, found) ==
  /\ found \in Seq(Key) /\ Ascends(found)
  /\ \A k \in Key : Contains(found, k) <=>
       \E i \in StartBlock(c)..(upto - 1) : Contains(file.blocks[i + 1], k) /\ Wants(c, k)

(* What its operation has answered when it is done.                         *)
Answered(c, tag, found) ==
  /\ c.op = "iter" =>
       IF Undecodable THEN tag = "error" ELSE tag = "ok" /\ found = Sorted(KeysOf(file.data))
  /\ c.op = "range" =>
       LET r == TableRange(file.data, c.start, c.end, file.compression)
       IN IF r.fails THEN tag = "error"
          ELSE IF r.panic THEN tag = "panic"
          ELSE tag = "ok" /\ found = Sorted(r.keys)

LEMMA StartsAtABlock ==
  ASSUME LengthsAreNat, LayoutSound, file # None, NEW c \in Call, ~NeedsNoBlock(c)
  PROVE  /\ Reached(c, StartBlock(c)) /\ Collected(c, StartBlock(c), <<>>)
         /\ c.op = "get" => StartBlock(c) < Blocks
<1> DEFINE f == FindBlock(index, c.start)
<1>1. Blocks \in Nat /\ Blocks = Len(index)
  BY FileLaid DEF Blocks
<1>2. c.op \in {"get", "range", "iter"} /\ (c.op # "iter" => c.start \in Key)
  BY DEF Call
<1>3. c.op # "iter" => f \in 0..Blocks
  <2> SUFFICES ASSUME c.start \in Key PROVE f \in 0..Blocks
    BY <1>2
  <2>1. PICK blocks \in Seq(Seq(Key)) : blocks = file.blocks
    BY FileLaid
  <2>2. PICK entries \in Seq(IndexEntry) : entries = index
    BY FileLaid
  <2>3. Laid(blocks, entries, KeysOf(file.data)) /\ c.start \in Nat
    BY <2>1, <2>2, FileLaid, LsmDataAssumption
  <2>4. FindBlock(entries, c.start) \in 0..Len(entries)
    <3>1. Divides(FindBlock(entries, c.start), entries, blocks, c.start)
      BY <2>3, FindBlockFacts
    <3> QED
      BY <3>1 DEF Divides
  <2> QED
    BY <1>1, <2>2, <2>4
<1>4. c.op = "get" => f # 0
  BY DEF NeedsNoBlock
<1> HIDE DEF f
<1>5. StartBlock(c) = IF c.op = "iter" THEN 0 ELSE IF f = 0 THEN 0 ELSE f - 1
  BY DEF StartBlock, FirstBlock, f
<1>6. StartBlock(c) \in Nat /\ (c.op = "get" => StartBlock(c) < Blocks)
  BY <1>1, <1>2, <1>3, <1>4, <1>5
<1>7. \A i \in StartBlock(c)..(StartBlock(c) - 1) : FALSE
  BY <1>6
<1>8. <<>> \in Seq(Key) /\ Ascends(<<>>) /\ \A k : ~Contains(<<>>, k)
  BY DEF Ascends, Contains
<1> QED
  BY <1>6, <1>7, <1>8 DEF Reached, Collected

(* One block more.                                                          *)
LEMMA CollectsABlock ==
  ASSUME LengthsAreNat, LayoutSound, file # None, NEW c, NEW u, NEW found,
         Reached(c, u), Collected(c, u, found), u < Blocks, ~Ends(c, u), Readable(u + 1)
  PROVE  Reached(c, u + 1) /\ Collected(c, u + 1, found \o Wanted(c, file.blocks[u + 1]))
<1> DEFINE first == StartBlock(c)
<1>1. /\ u \in Nat /\ first \in Nat /\ first <= u /\ u + 1 \in Nat /\ first <= u + 1
      /\ \A i : i \in first..((u + 1) - 1) <=> i \in first..(u - 1) \/ i = u
  <2>1. u \in Nat /\ first \in Nat /\ first <= u
    BY DEF Reached
  <2> HIDE DEF first
  <2> QED
    BY <2>1
<1>2. Reached(c, u + 1)
  BY <1>1 DEF Reached
<1>3. /\ Blocks \in Nat /\ DOMAIN index = 1..Blocks /\ DOMAIN file.blocks = 1..Blocks
      /\ Laid(file.blocks, index, KeysOf(file.data))
  BY FileLaid DEF Blocks
<1>4. u + 1 \in 1..Blocks /\ \A i \in first..(u - 1) : i + 1 \in 1..Blocks /\ i + 1 < u + 1
  BY <1>1, <1>3
<1>5. PICK block \in Seq(Key) : block = file.blocks[u + 1] /\ Ascends(block)
  BY <1>3, <1>4, BlockFacts
<1>6. PICK taken : taken = Wanted(c, block)
  OBVIOUS
<1>7. /\ taken \in Seq(Key) /\ Ascends(taken)
      /\ \A k \in Key : Contains(taken, k) <=> Contains(block, k) /\ Wants(c, k)
  BY <1>5, <1>6, WantedFacts
<1>8. /\ found \in Seq(Key) /\ Ascends(found)
      /\ \A k \in Key : Contains(found, k) <=>
           \E i \in first..(u - 1) : Contains(file.blocks[i + 1], k) /\ Wants(c, k)
  BY DEF Collected
<1>9. \A j, k \in Key : Contains(found, j) /\ Contains(taken, k) => j < k
  <2> SUFFICES ASSUME NEW j \in Key, NEW k \in Key, Contains(found, j), Contains(taken, k) PROVE j < k
    OBVIOUS
  <2>1. PICK i \in first..(u - 1) : Contains(file.blocks[i + 1], j)
    BY <1>8
  <2>2. Contains(block, k)
    BY <1>7
  <2>3. PICK before \in Seq(Key) : before = file.blocks[i + 1]
    BY <1>3, <1>4, BlockFacts
  <2>4. Precedes(before, block)
    BY <1>3, <1>4, <1>5, <2>3 DEF Laid
  <2>5. PICK m \in DOMAIN before : before[m] = j
    BY <2>1, <2>3 DEF Contains
  <2>6. PICK n \in DOMAIN block : block[n] = k
    BY <2>2 DEF Contains
  <2> QED
    BY <2>4, <2>5, <2>6 DEF Precedes
<1>10. PICK more : more = found \o taken
  OBVIOUS
<1>11. /\ more \in Seq(Key) /\ Ascends(more)
       /\ \A k \in Key : Contains(more, k) <=> Contains(found, k) \/ Contains(taken, k)
  BY <1>7, <1>8, <1>9, <1>10, ConcatAscends
<1>12. \A k \in Key : Contains(more, k) <=>
         \E i \in first..((u + 1) - 1) : Contains(file.blocks[i + 1], k) /\ Wants(c, k)
  <2> HIDE DEF first
  <2> QED
    BY <1>1, <1>5, <1>7, <1>8, <1>11
<1>13. Collected(c, u + 1, more)
  BY <1>11, <1>12 DEF Collected
<1> QED
  BY <1>2, <1>5, <1>6, <1>10, <1>13

(* A range that came to block u stands where RangeIn looks at block u.      *)
LEMMA RangeSoFar ==
  ASSUME LengthsAreNat, LayoutSound, file # None, NEW c \in Call, c.op = "range", NEW u, Reached(c, u),
         NEW b, b = Built(file.data), NEW first, first = StartBlock(c)
  PROVE  /\ b.index = index /\ b.flushed = file.blocks /\ Blocks = Len(b.index)
         /\ first \in Nat /\ u \in Nat /\ first = FirstBlock(b.index, c.start)
         /\ KeyLen[c.end] \in Nat /\ Blocks \in Nat
         /\ Passes(b, c.end, first, u)
         /\ ~Broken(b, file.data, file.compression, first, u)
         /\ \A i : Ends(c, i) <=> i >= KeyLen[c.end] \/ (i < Blocks /\ b.index[i + 1].key >= c.end)
         /\ Ends(c, u) <=> StopsAt(b, c.end, u)
<1>1. PICK len \in Nat : len = KeyLen[c.end]
  <2>1. c.end \in Key
    BY DEF Call
  <2> QED
    BY <2>1, LsmDataAssumption
<1>2. /\ Blocks \in Nat /\ DOMAIN index = 1..Blocks
  BY FileLaid DEF Blocks
<1>3. b.index = index /\ b.flushed = file.blocks
  BY DEF LayoutSound, FileSound, index
<1>4. first = FirstBlock(b.index, c.start) /\ Blocks = Len(b.index)
  BY <1>3 DEF StartBlock, Blocks
<1>5. /\ u \in Nat /\ first \in Nat /\ first <= u
      /\ \A i \in first..(u - 1) : i < Blocks /\ ~Ends(c, i) /\ Readable(i + 1)
  BY DEF Reached
<1>6. \A i : Ends(c, i) <=> i >= len \/ (i < Blocks /\ b.index[i + 1].key >= c.end)
  BY <1>1, <1>3 DEF Ends
<1>7. \A i \in first..(u - 1) : i < Blocks /\ i < len /\ ~(b.index[i + 1].key >= c.end)
  <2> SUFFICES ASSUME NEW i \in first..(u - 1)
               PROVE  i < Blocks /\ i < len /\ ~(b.index[i + 1].key >= c.end)
    OBVIOUS
  <2>1. i < Blocks /\ ~(i >= len) /\ ~(b.index[i + 1].key >= c.end)
    BY <1>5, <1>6
  <2>2. i \in Int
    BY <1>5
  <2> QED
    BY <1>1, <2>1, <2>2
<1>8. Passes(b, c.end, first, u)
  BY <1>1, <1>2, <1>4, <1>5, <1>7 DEF Passes
<1>9. \A i \in first..(u - 1) : i + 1 \in DOMAIN index
  BY <1>2, <1>5
<1>10. \A i \in first..(u - 1) : Decodable(file.data, file.blocks[i + 1], file.compression)
  BY <1>5, <1>9, ReadableDecodes
<1>11. ~Broken(b, file.data, file.compression, first, u)
  BY <1>3, <1>10 DEF Broken
<1>12. Ends(c, u) <=> StopsAt(b, c.end, u)
  BY <1>1, <1>4, <1>6 DEF StopsAt
<1> QED
  BY <1>1, <1>2, <1>3, <1>4, <1>5, <1>6, <1>8, <1>11, <1>12

(* The loop ends where the operation is done.                               *)
LEMMA EndsAnswered ==
  ASSUME LengthsAreNat, LayoutSound, file # None, NEW c \in Call, NEW u, NEW found,
         Reached(c, u), Collected(c, u, found), Ends(c, u)
  PROVE  Answered(c, "ok", found)
<1> DEFINE first == StartBlock(c)
           keys == KeysOf(file.data)
<1>1. /\ u \in Nat /\ first \in Nat /\ first <= u
      /\ \A i \in first..(u - 1) : i < Blocks /\ ~Ends(c, i) /\ Readable(i + 1)
  BY DEF Reached
<1>2. /\ Blocks \in Nat /\ DOMAIN index = 1..Blocks /\ DOMAIN file.blocks = 1..Blocks
      /\ Laid(file.blocks, index, keys) /\ keys \in SUBSET Key /\ Key \subseteq Nat
  BY FileLaid, LsmDataAssumption DEF Blocks, KeysOf
<1>3. \A i \in first..(u - 1) : i + 1 \in 1..Blocks
  BY <1>1, <1>2
<1>4. /\ found \in Seq(Key) /\ Ascends(found)
      /\ \A k \in Key : Contains(found, k) <=>
           \E i \in first..(u - 1) : Contains(file.blocks[i + 1], k) /\ Wants(c, k)
  BY DEF Collected
<1>5. ASSUME NEW S \in SUBSET Key, \A k \in Key : Contains(found, k) <=> k \in S
      PROVE  found = Sorted(S)
  <2>1. found \in Seq(S)
    <3>1. \A i \in DOMAIN found : found[i] \in S
      BY <1>4, <1>5 DEF Contains
    <3> QED
      BY <1>4, <3>1
  <2>2. \A k \in S : \E i \in DOMAIN found : found[i] = k
    BY <1>4, <1>5 DEF Contains
  <2>3. S \in SUBSET Nat
    BY <1>2
  <2> QED
    BY <1>4, <2>1, <2>2, <2>3, AscendingIsSorted
<1> HIDE DEF keys, first
<1>6. ASSUME c.op = "iter"
      PROVE  ~Undecodable /\ found = Sorted(keys)
  <2>1. first = 0 /\ u >= Blocks
    BY <1>6 DEF StartBlock, Ends, first
  <2>2. u = Blocks
    <3>1. u - 1 \in first..(u - 1) \/ u = 0
      BY <1>1, <2>1
    <3>2. u - 1 \in first..(u - 1) => u - 1 < Blocks
      BY <1>1
    <3> QED
      BY <1>1, <1>2, <2>1, <3>1, <3>2
  <2>3. \A i \in 1..Blocks : i - 1 \in first..(u - 1) /\ (i - 1) + 1 = i
    BY <1>2, <2>1, <2>2
  <2>4. \A i \in 1..Blocks : Readable(i)
    BY <1>1, <2>3
  <2>5. ~Undecodable
    BY <1>2, <2>4, ReadableBlocks
  <2>6. \A k : Wants(c, k)
    BY <1>6 DEF Wants
  <2>7. \A k \in Key : Contains(found, k) <=> k \in keys
    <3> SUFFICES ASSUME NEW k \in Key PROVE Contains(found, k) <=> k \in keys
      OBVIOUS
    <3>1. ASSUME Contains(found, k) PROVE k \in keys
      <4>1. PICK i \in first..(u - 1) : Contains(file.blocks[i + 1], k)
        BY <1>4, <3>1
      <4> QED
        BY <1>2, <1>3, <4>1, BlockFacts DEF keys
    <3>2. ASSUME k \in keys PROVE Contains(found, k)
      <4>1. PICK i \in 1..Blocks : Contains(file.blocks[i], k)
        BY <1>2, <3>2 DEF Laid
      <4>2. i - 1 \in first..(u - 1) /\ Contains(file.blocks[(i - 1) + 1], k)
        BY <2>3, <4>1
      <4> QED
        BY <1>4, <2>6, <4>2
    <3> QED
      BY <3>1, <3>2
  <2> QED
    BY <1>2, <1>5, <2>5, <2>7
<1>7. ASSUME c.op = "range", NEW r, r = TableRange(file.data, c.start, c.end, file.compression)
      PROVE  ~r.fails /\ ~r.panic /\ found = Sorted(r.keys)
  <2>1. PICK b : b = Built(file.data)
    OBVIOUS
  <2>2. PICK data, start, end, comp :
          data = file.data /\ start = c.start /\ end = c.end /\ comp = file.compression
    OBVIOUS
  <2>3. /\ b.flushed = file.blocks /\ first \in Nat /\ first = FirstBlock(b.index, start)
        /\ Passes(b, end, first, u) /\ StopsAt(b, end, u) /\ ~Broken(b, data, comp, first, u)
    BY <1>7, <2>1, <2>2, RangeSoFar DEF first
  <2>4. r = RangeIn(b, data, start, end, comp)
    BY <1>7, <2>1, <2>2, TableRangeIs
  <2>8. /\ ~r.panic /\ ~r.fails
        /\ r.keys = {k \in InRange(file.data, c.start, c.end) :
                       \E i \in first..(u - 1) : Contains(b.flushed[i + 1], k)}
    <3>1. /\ ~r.panic /\ r.keys = InBlocks(b.flushed, first, u - 1, InRange(data, start, end))
          /\ ~r.fails
      BY <1>1, <2>3, <2>4, RangeEnds
    <3> QED
      BY <2>2, <3>1 DEF InBlocks
  <2>9. \A k \in Key : Contains(found, k) <=> k \in r.keys
    <3> SUFFICES ASSUME NEW k \in Key PROVE Contains(found, k) <=> k \in r.keys
      OBVIOUS
    <3>1. Wants(c, k) <=> c.start <= k /\ k < c.end
      BY <1>7 DEF Wants
    <3>2. k \in InRange(file.data, c.start, c.end) <=> k \in keys /\ c.start <= k /\ k < c.end
      BY DEF InRange, keys
    <3>3. \A i \in first..(u - 1) : Contains(file.blocks[i + 1], k) => k \in keys
      BY <1>2, <1>3, BlockFacts DEF keys
    <3> QED
      BY <1>4, <2>3, <2>8, <3>1, <3>2, <3>3
  <2>10. r.keys \in SUBSET Key
    BY <2>8 DEF InRange, KeysOf
  <2> QED
    BY <1>5, <2>8, <2>9, <2>10
<1> QED
  BY <1>6, <1>7 DEF Answered, keys


(* The loop runs past the last block: only that of range can.               *)
LEMMA PanicsAnswered ==
  ASSUME LengthsAreNat, LayoutSound, file # None, NEW c \in Call, NEW u,
         Reached(c, u), ~Ends(c, u), u >= Blocks
  PROVE  Answered(c, "panic", <<>>)
<1>1. c.op # "iter"
  BY DEF Ends
<1>2. ASSUME c.op = "range", NEW r, r = TableRange(file.data, c.start, c.end, file.compression)
      PROVE  ~r.fails /\ r.panic
  <2>1. PICK b, first : b = Built(file.data) /\ first = StartBlock(c)
    OBVIOUS
  <2>2. PICK data, start, end, comp :
          data = file.data /\ start = c.start /\ end = c.end /\ comp = file.compression
    OBVIOUS
  <2>3. /\ first \in Nat /\ u \in Nat /\ first = FirstBlock(b.index, start)
        /\ KeyLen[end] \in Nat /\ Blocks \in Nat /\ Blocks = Len(b.index)
        /\ Passes(b, end, first, u) /\ ~Broken(b, data, comp, first, u)
        /\ \A i : Ends(c, i) <=> i >= KeyLen[end] \/ (i < Blocks /\ b.index[i + 1].key >= end)
    BY <1>2, <2>1, <2>2, RangeSoFar
  <2>4. u < KeyLen[end] /\ u >= Len(b.index)
    BY <2>3
  <2>5. r = RangeIn(b, data, start, end, comp)
    BY <1>2, <2>1, <2>2, TableRangeIs
  <2> QED
    BY <2>3, <2>4, <2>5, RangeEnds
<1> QED
  BY <1>1, <1>2 DEF Answered

(* A block that cannot be read makes the operation fail.                    *)
LEMMA FailsAnswered ==
  ASSUME LengthsAreNat, LayoutSound, file # None, NEW c \in Call, NEW u, u + 1 \in DOMAIN index,
         Reached(c, u), u < Blocks, ~Ends(c, u), ~Readable(u + 1)
  PROVE  Answered(c, "error", <<>>)
<1>1. Undecodable
  BY ReadableBlocks
<1>2. ASSUME c.op = "range", NEW r, r = TableRange(file.data, c.start, c.end, file.compression)
      PROVE  r.fails
  <2>1. PICK b, first : b = Built(file.data) /\ first = StartBlock(c)
    OBVIOUS
  <2>2. PICK data, start, end, comp :
          data = file.data /\ start = c.start /\ end = c.end /\ comp = file.compression
    OBVIOUS
  <2>3. /\ first \in Nat /\ u \in Nat /\ first = FirstBlock(b.index, start)
        /\ b.flushed = file.blocks /\ KeyLen[end] \in Nat /\ Blocks = Len(b.index)
        /\ Passes(b, end, first, u)
        /\ \A i : Ends(c, i) <=> i >= KeyLen[end] \/ (i < Blocks /\ b.index[i + 1].key >= end)
    BY <1>2, <2>1, <2>2, RangeSoFar
  <2>4. ~(u >= KeyLen[end]) /\ ~(b.index[u + 1].key >= end) /\ u < Len(b.index)
    BY <2>3
  <2>5. u < KeyLen[end]
    BY <2>3, <2>4
  <2>6. ~Decodable(data, b.flushed[u + 1], comp)
    BY <2>2, <2>3, ReadableDecodes
  <2>7. r = RangeIn(b, data, start, end, comp)
    BY <1>2, <2>1, <2>2, TableRangeIs
  <2> QED
    BY <2>3, <2>4, <2>5, <2>6, <2>7, RangeEnds
<1> QED
  BY <1>1, <1>2 DEF Answered

-----------------------------------------------------------------------------
(* What is known of a thread with operation c that is at p.                 *)
Sound(c, p, u, found, tag) ==
  /\ p # "idle" => /\ reader = "open" /\ c \in Call /\ tag = None
                   /\ Reached(c, u) /\ Collected(c, u, found)
  /\ p = "load" => u < Blocks /\ ~Ends(c, u)
  /\ p = "idle" /\ c # None => reader = "open" /\ c \in Call /\ Answered(c, tag, found)
ThreadSound(t) == Sound(call[t], pc[t], at[t], rows[t], answer[t])

(* It depends on the file and on the thread alone.                          *)
LEMMA SoundSame ==
  ASSUME UNCHANGED <<file, reader>>
  PROVE  \A c, p, u, found, tag : Sound(c, p, u, found, tag)' <=> Sound(c, p, u, found, tag)
<1>1. index' = index /\ Blocks' = Blocks
  BY DEF index, Blocks
<1>2. \A c : StartBlock(c)' = StartBlock(c)
  BY <1>1 DEF StartBlock
<1>3. \A c, i : Ends(c, i)' <=> Ends(c, i)
  BY <1>1 DEF Ends
<1>4. \A c, u : Reached(c, u)' <=> Reached(c, u)
  BY <1>1, <1>2, <1>3, ReadableSame DEF Reached
<1>5. \A c, u, found : Collected(c, u, found)' <=> Collected(c, u, found)
  BY <1>2 DEF Collected
<1>6. Undecodable' <=> Undecodable
  BY DEF Undecodable
<1>7. \A c, tag, found : Answered(c, tag, found)' <=> Answered(c, tag, found)
  BY <1>6 DEF Answered
<1> QED
  BY <1>1, <1>3, <1>4, <1>5, <1>7 DEF Sound

LEMMA MovesTo ==
  ASSUME UNCHANGED <<file, reader>>, NEW t, NEW c, NEW p, NEW u, NEW found, NEW tag,
         Sound(c, p, u, found, tag),
         call'[t] = c, pc'[t] = p, at'[t] = u, rows'[t] = found, answer'[t] = tag
  PROVE  ThreadSound(t)'
<1>1. Sound(c, p, u, found, tag)'
  BY SoundSame
<1> QED
  BY <1>1 DEF ThreadSound, Sound, Reached, Collected, Answered, StartBlock, Ends, Undecodable, Blocks, index


ReaderInv ==
  /\ pc \in [Thread -> {"idle", "visit", "load"}]
  /\ call \in [Thread -> Call \cup {None}]
  /\ at \in [Thread -> Nat]
  /\ rows \in [Thread -> Seq(Key)]
  /\ answer \in [Thread -> {None, "ok", "panic", "error"}]
  /\ \A t \in Thread : ThreadSound(t)

LEMMA InitReaders == Init => ReaderInv
<1> SUFFICES ASSUME Init PROVE ReaderInv
  OBVIOUS
<1>1. <<>> \in Seq(Key)
  OBVIOUS
<1> QED
  BY <1>1 DEF Init, ReaderInv, ThreadSound, Sound

Goes(t, c, p, u, found, tag) ==
  /\ call' = [call EXCEPT ![t] = c] /\ pc' = [pc EXCEPT ![t] = p] /\ at' = [at EXCEPT ![t] = u]
  /\ rows' = [rows EXCEPT ![t] = found] /\ answer' = [answer EXCEPT ![t] = tag]
  /\ UNCHANGED <<file, reader>>

(* A thread goes on to where it is sound, and no other one moves.           *)
LEMMA GoesSound ==
  ASSUME ReaderInv, NEW t \in Thread, NEW c \in Call, NEW p \in {"idle", "visit", "load"},
         NEW u \in Nat, NEW found \in Seq(Key), NEW tag \in {None, "ok", "panic", "error"},
         Goes(t, c, p, u, found, tag), Sound(c, p, u, found, tag)
  PROVE  ReaderInv'
<1>1. ASSUME NEW s \in Thread PROVE ThreadSound(s)'
  <2>1. CASE s = t
    <3>1. call'[t] = c /\ pc'[t] = p /\ at'[t] = u /\ rows'[t] = found /\ answer'[t] = tag
      BY DEF Goes, ReaderInv
    <3>2. UNCHANGED <<file, reader>>
      BY DEF Goes
    <3> QED
      BY <2>1, <3>1, <3>2, MovesTo
  <2>2. CASE s # t
    <3>1. PICK c1, p1, u1, found1, tag1 :
            call[s] = c1 /\ pc[s] = p1 /\ at[s] = u1 /\ rows[s] = found1 /\ answer[s] = tag1
      OBVIOUS
    <3>2. call'[s] = c1 /\ pc'[s] = p1 /\ at'[s] = u1 /\ rows'[s] = found1 /\ answer'[s] = tag1
      BY <1>1, <2>2, <3>1 DEF Goes, ReaderInv
    <3>3. Sound(c1, p1, u1, found1, tag1)
      BY <1>1, <3>1 DEF ReaderInv, ThreadSound
    <3>4. UNCHANGED <<file, reader>>
      BY DEF Goes
    <3> QED
      BY <3>2, <3>3, <3>4, MovesTo
  <2> QED
    BY <2>1, <2>2
<1>2. /\ pc' \in [Thread -> {"idle", "visit", "load"}]
      /\ at' \in [Thread -> Nat]
      /\ answer' \in [Thread -> {None, "ok", "panic", "error"}]
  BY DEF Goes, ReaderInv
<1>3. call' \in [Thread -> Call \cup {None}]
  BY DEF Goes, ReaderInv
<1>4. rows' \in [Thread -> Seq(Key)]
  BY DEF Goes, ReaderInv
<1> QED
  BY <1>1, <1>2, <1>3, <1>4 DEF ReaderInv

(* An operation that needs no block answers at once.                        *)
LEMMA StartSound ==
  ASSUME LengthsAreNat, LayoutSound, CacheInv, ReaderInv, NEW t \in Thread, NEW c \in Call, Start(t, c)
  PROVE  ReaderInv'
<1>1. file # None /\ reader = "open" /\ UNCHANGED <<file, reader>>
  BY DEF Start, CacheInv, FileOnce
<1>2. <<>> \in Seq(Key)
  OBVIOUS
<1>3. CASE NeedsNoBlock(c)
  <2>1. Goes(t, c, "idle", 0, <<>>, "ok")
    BY <1>1, <1>3 DEF Start, Return, Goes
  <2>2. Answered(c, "ok", <<>>)
    BY <1>3 DEF NeedsNoBlock, Answered
  <2>3. Sound(c, "idle", 0, <<>>, "ok")
    BY <1>1, <2>2 DEF Sound
  <2> QED
    BY <1>2, <2>1, <2>3, GoesSound
<1>4. CASE ~NeedsNoBlock(c)
  <2>1. PICK u : u = StartBlock(c)
    OBVIOUS
  <2>2. Goes(t, c, "visit", u, <<>>, None)
    BY <1>1, <1>4, <2>1 DEF Start, Goes
  <2>3. Reached(c, u) /\ Collected(c, u, <<>>)
    BY <1>1, <1>4, <2>1, StartsAtABlock
  <2>4. u \in Nat
    BY <2>3 DEF Reached
  <2>5. Sound(c, "visit", u, <<>>, None)
    BY <1>1, <2>3 DEF Sound
  <2> QED
    BY <1>2, <2>2, <2>4, <2>5, GoesSound
<1> QED
  BY <1>3, <1>4

(* The entries of a block that can be read are taken.                       *)
LEMMA ConsumeSound ==
  ASSUME LengthsAreNat, LayoutSound, file # None, ReaderInv, NEW t \in Thread,
         pc[t] # "idle", at[t] < Blocks, ~Ends(call[t], at[t]), Readable(at[t] + 1),
         NEW block, block = file.blocks[at[t] + 1], Consume(t, block),
         UNCHANGED <<file, reader, call>>
  PROVE  ReaderInv'
<1>1. PICK c, u, found : c = call[t] /\ u = at[t] /\ found = rows[t]
  OBVIOUS
<1>2. reader = "open" /\ c \in Call /\ u \in Nat /\ Reached(c, u) /\ Collected(c, u, found)
  BY <1>1 DEF ReaderInv, ThreadSound, Sound, Reached
<1>3. PICK more : more = found \o Wanted(c, block)
  OBVIOUS
<1>4. Reached(c, u + 1) /\ Collected(c, u + 1, more)
  BY <1>1, <1>2, <1>3, CollectsABlock
<1>5. more \in Seq(Key) /\ u + 1 \in Nat
  BY <1>2, <1>4 DEF Collected
<1>6. call' = [call EXCEPT ![t] = c]
  BY <1>1 DEF ReaderInv
<1>7. CASE c.op = "get"
  <2>1. Goes(t, c, "idle", 0, more, "ok")
    BY <1>1, <1>3, <1>6, <1>7 DEF Consume, Return, Goes
  <2>2. Answered(c, "ok", more)
    BY <1>7 DEF Answered
  <2>3. Sound(c, "idle", 0, more, "ok")
    BY <1>2, <2>2 DEF Sound
  <2> QED
    BY <1>2, <1>5, <2>1, <2>3, GoesSound
<1>8. CASE c.op # "get"
  <2>1. answer[t] = None
    BY <1>1 DEF ReaderInv, ThreadSound, Sound
  <2>2. answer' = [answer EXCEPT ![t] = None] /\ at' = [at EXCEPT ![t] = u + 1]
    <3>1. answer' = answer /\ at' = [at EXCEPT ![t] = at[t] + 1]
      BY <1>1, <1>8 DEF Consume
    <3> QED
      BY <1>1, <2>1, <3>1 DEF ReaderInv
  <2>3. Goes(t, c, "visit", u + 1, more, None)
    BY <1>1, <1>3, <1>6, <1>8, <2>2 DEF Consume, Goes
  <2>4. Sound(c, "visit", u + 1, more, None)
    BY <1>2, <1>4 DEF Sound
  <2> QED
    BY <1>2, <1>5, <2>3, <2>4, GoesSound
<1> QED
  BY <1>7, <1>8


LEMMA ThreadStepSound ==
  ASSUME LengthsAreNat, LayoutSound, CacheInv, CacheReadable, ReaderInv, NEW t \in Thread, Step(t)
  PROVE  ReaderInv'
<1>1. /\ UNCHANGED <<file, reader, call>> /\ pc[t] # "idle" /\ reader = "open" /\ file # None
      /\ call[t] \in Call /\ at[t] \in Nat /\ Blocks \in Nat /\ DOMAIN index = 1..Blocks
  <2>1. UNCHANGED <<file, reader, call>> /\ pc[t] # "idle"
    BY DEF Step, Finished, Panics, CacheHit, CacheMiss, LoadFails, Load, Visits
  <2>2. reader = "open" /\ file # None /\ at[t] \in Nat
    BY <2>1 DEF CacheInv, FileOnce, Threads
  <2>3. call[t] \in Call
    BY <2>1 DEF ReaderInv, ThreadSound, Sound
  <2> QED
    BY <2>1, <2>2, <2>3, FileLaid DEF Blocks
<1>2. PICK c, u, found : c = call[t] /\ u = at[t] /\ found = rows[t]
  OBVIOUS
<1>3. /\ c \in Call /\ u \in Nat /\ found \in Seq(Key) /\ Reached(c, u) /\ Collected(c, u, found)
      /\ answer[t] = None /\ call' = [call EXCEPT ![t] = c]
  BY <1>1, <1>2 DEF ReaderInv, ThreadSound, Sound
<1>4. <<>> \in Seq(Key)
  OBVIOUS
<1>5. CASE Finished(t)
  <2>1. Goes(t, c, "idle", 0, found, "ok")
    BY <1>1, <1>2, <1>3, <1>5 DEF Finished, Return, Goes
  <2>2. Answered(c, "ok", found)
    BY <1>1, <1>2, <1>3, <1>5, EndsAnswered DEF Finished
  <2>3. Sound(c, "idle", 0, found, "ok")
    BY <1>1, <1>3, <2>2 DEF Sound
  <2> QED
    BY <1>3, <2>1, <2>3, GoesSound
<1>6. CASE Panics(t)
  <2>1. Goes(t, c, "idle", 0, <<>>, "panic")
    BY <1>1, <1>2, <1>3, <1>6 DEF Panics, Return, Goes
  <2>2. Answered(c, "panic", <<>>)
    BY <1>1, <1>2, <1>3, <1>6, PanicsAnswered DEF Panics
  <2>3. Sound(c, "idle", 0, <<>>, "panic")
    BY <1>1, <1>3, <2>2 DEF Sound
  <2> QED
    BY <1>3, <1>4, <2>1, <2>3, GoesSound
<1>7. CASE CacheHit(t)
  <2>1. at[t] < Blocks /\ ~Ends(call[t], at[t]) /\ Offset(t) \in DOMAIN cache
    BY <1>7 DEF CacheHit, Visits
  <2>2. at[t] + 1 \in DOMAIN index
    BY <1>1, <2>1
  <2>3. cache[Offset(t)] = file.blocks[at[t] + 1] /\ Readable(at[t] + 1)
    BY <1>1, <2>1, <2>2, HitIsBlock
  <2>4. Consume(t, cache[Offset(t)])
    BY <1>7 DEF CacheHit
  <2> QED
    BY <1>1, <2>1, <2>3, <2>4, ConsumeSound
<1>8. CASE CacheMiss(t)
  <2>1. u < Blocks /\ ~Ends(c, u)
    BY <1>2, <1>8 DEF CacheMiss, Visits
  <2>2. Sound(c, "load", u, found, None)
    BY <1>1, <1>3, <2>1 DEF Sound
  <2>3. Goes(t, c, "load", u, found, None)
    BY <1>1, <1>2, <1>3, <1>8 DEF CacheMiss, Goes, ReaderInv
  <2> QED
    BY <1>3, <2>2, <2>3, GoesSound
<1>9. CASE LoadFails(t)
  <2>1. Goes(t, c, "idle", 0, <<>>, "error")
    BY <1>1, <1>2, <1>3, <1>9 DEF LoadFails, Return, Goes
  <2>2. u + 1 \in DOMAIN index /\ ~Readable(u + 1)
    BY <1>2, <1>9 DEF LoadFails, CacheInv, LoadsABlock
  <2>5. u < Blocks /\ ~Ends(c, u)
    BY <1>2, <1>9 DEF LoadFails, ReaderInv, ThreadSound, Sound
  <2>3. Answered(c, "error", <<>>)
    BY <1>1, <1>3, <2>2, <2>5, FailsAnswered
  <2>4. Sound(c, "idle", 0, <<>>, "error")
    BY <1>1, <1>3, <2>3 DEF Sound
  <2> QED
    BY <1>3, <1>4, <2>1, <2>4, GoesSound
<1>10. CASE Load(t)
  <2>1. at[t] < Blocks /\ ~Ends(call[t], at[t])
    BY <1>10 DEF Load, ReaderInv, ThreadSound, Sound
  <2>2. Readable(at[t] + 1) /\ Consume(t, file.blocks[at[t] + 1])
    BY <1>10 DEF Load
  <2> QED
    BY <1>1, <2>1, <2>2, ConsumeSound
<1> QED
  BY <1>5, <1>6, <1>7, <1>8, <1>9, <1>10 DEF Step

(* Nobody reads before the file is open.                                    *)
LEMMA ReadersWait ==
  ASSUME ReaderInv, reader # "open", UNCHANGED <<pc, call, at, rows, answer>>
  PROVE  ReaderInv'
<1>1. ASSUME NEW t \in Thread PROVE ThreadSound(t)'
  <2>1. pc[t] = "idle" /\ call[t] = None
    BY <1>1 DEF ReaderInv, ThreadSound, Sound
  <2> QED
    BY <2>1 DEF ThreadSound, Sound
<1> QED
  BY <1>1 DEF ReaderInv

LEMMA ReadersStep ==
  ASSUME LengthsAreNat, LayoutSound, CacheInv, CacheReadable, ReaderInv, [Next]_vars
  PROVE  ReaderInv'
<1>1. ASSUME NEW n \in Expected, NEW c \in Compressions, Create(n, c) PROVE ReaderInv'
  <2>1. reader # "open" /\ UNCHANGED <<pc, call, at, rows, answer>>
    BY <1>1 DEF Create, reading, CacheInv, FileOnce
  <2> QED
    BY <2>1, ReadersWait
<1>2. ASSUME NEW k \in Key, NEW v \in Value \cup {None}, Add(k, v) PROVE ReaderInv'
  <2>1. reader # "open" /\ UNCHANGED <<pc, call, at, rows, answer>>
    BY <1>2 DEF Add, reading, CacheInv, FileOnce
  <2> QED
    BY <2>1, ReadersWait
<1>3. CASE Finish
  <2>1. reader # "open" /\ UNCHANGED <<pc, call, at, rows, answer>>
    BY <1>3 DEF Finish, reading, CacheInv, FileOnce
  <2> QED
    BY <2>1, ReadersWait
<1>4. CASE Open
  <2>1. reader # "open" /\ UNCHANGED <<pc, call, at, rows, answer>>
    BY <1>4 DEF Open, reading
  <2> QED
    BY <2>1, ReadersWait
<1>5. CASE UNCHANGED vars
  <2>1. UNCHANGED <<file, reader>> /\ UNCHANGED <<pc, call, at, rows, answer>>
    BY <1>5 DEF vars
  <2>2. ASSUME NEW t \in Thread PROVE ThreadSound(t)'
    <3>1. PICK c, p, u, found, tag :
            call[t] = c /\ pc[t] = p /\ at[t] = u /\ rows[t] = found /\ answer[t] = tag
      OBVIOUS
    <3>2. Sound(c, p, u, found, tag)
      BY <2>2, <3>1 DEF ReaderInv, ThreadSound
    <3>3. call'[t] = c /\ pc'[t] = p /\ at'[t] = u /\ rows'[t] = found /\ answer'[t] = tag
      BY <2>1, <3>1
    <3> QED
      BY <2>1, <3>2, <3>3, MovesTo
  <2> QED
    BY <2>1, <2>2 DEF ReaderInv
<1> QED
  BY <1>1, <1>2, <1>3, <1>4, <1>5, StartSound, ThreadStepSound DEF Next


(* What holds of the file, its layout, the cache and the threads at once.   *)
FileInv == LayoutSound /\ CacheInv /\ CacheReadable /\ ReaderInv

LEMMA FileInvHolds ==
  ASSUME LengthsAreNat
  PROVE  Spec => []FileInv
<1>1. Init => FileInv
  <2> SUFFICES ASSUME Init PROVE FileInv
    OBVIOUS
  <2>1. DOMAIN cache = {}
    BY DEF Init, EmptyCache
  <2>2. CacheReadable
    BY <2>1 DEF CacheReadable
  <2> QED
    BY <2>2, InitLayout, InitCacheInv, InitReaders DEF FileInv
<1>2. FileInv /\ [Next]_vars => FileInv'
  <2> SUFFICES ASSUME FileInv, [Next]_vars PROVE FileInv'
    OBVIOUS
  <2>1. LayoutSound /\ CacheInv /\ CacheReadable /\ ReaderInv
    BY DEF FileInv
  <2>2. LayoutSound' /\ CacheInv' /\ CacheReadable' /\ ReaderInv'
    BY <2>1, LayoutStep, CacheInvStep, CacheReadableStep, ReadersStep
  <2> QED
    BY <2>2 DEF FileInv
<1> QED
  BY <1>1, <1>2, PTL DEF Spec

LEMMA ReadersAnswer ==
  ASSUME LengthsAreNat, FileInv
  PROVE  IterReturnsAll /\ RangeIsTableRange
<1>1. ASSUME NEW t \in Thread, call[t] # None, pc[t] = "idle"
      PROVE  Answered(call[t], answer[t], rows[t])
  BY <1>1 DEF FileInv, ReaderInv, ThreadSound, Sound
<1>2. ASSUME NEW t \in Thread, answer[t] \in {"ok", "panic"} PROVE pc[t] = "idle"
  BY <1>2, SSTableFileAssumption DEF FileInv, ReaderInv, ThreadSound, Sound
<1>3. IterReturnsAll
  BY <1>1 DEF IterReturnsAll, Answered
<1>4. RangeIsTableRange
  BY <1>1, <1>2 DEF RangeIsTableRange, Answered
<1> QED
  BY <1>3, <1>4

(* An iteration by any number of threads over any file returns every entry  *)
(* that was added, in the order of the keys, whatever the others load into  *)
(* the cache and clear meanwhile; it fails if and only if a block cannot be *)
(* decoded.                                                                 *)
THEOREM IterReturnsAllHolds ==
  ASSUME LengthsAreNat
  PROVE  Spec => []IterReturnsAll
BY FileInvHolds, ReadersAnswer, PTL

(* A range read block by block through the cache is TableRange of the file, *)
(* the operator by which StorageEngine scans a table: it returns the same   *)
(* keys, and it panics in the same cases.                                   *)
THEOREM RangeIsTableRangeHolds ==
  ASSUME LengthsAreNat
  PROVE  Spec => []RangeIsTableRange
BY FileInvHolds, ReadersAnswer, PTL

-----------------------------------------------------------------------------
Shaped ==
  /\ writer = None \/ writer \in WriterRec
  /\ file = None \/ file \in FileRec
  /\ reader \in {"none", "failed", "open"}

LEMMA FilterTypes ==
  /\ \A n \in Expected : BloomNew(n) \in Filter
  /\ \A f \in Filter : \A k : BloomAdd(f, k) \in Filter
<1>1. /\ {} \in SUBSET Nat /\ (BitCount * 7) \div 8 \in Nat /\ BitCount \in Nat /\ HashCount \in Nat
      /\ 0 \in Nat /\ 1 \in Nat /\ 8 \in Nat
  BY BloomFilterAssumption
<1>2. \A n \in Expected : BloomNew(n) \in Filter
  BY <1>1 DEF BloomNew, Filter
<1>3. ASSUME NEW f \in Filter, NEW k PROVE BloomAdd(f, k) \in Filter
  <2>1. UNION {SetBit(f.bits, i) : i \in BitIndexes(f, k)} \in SUBSET Nat
    BY DEF SetBit, Filter
  <2>2. f.bytes \in Nat /\ f.bit_count \in Nat /\ f.hash_count \in Nat /\ f.element_count + 1 \in Nat
    BY DEF Filter
  <2> QED
    BY <2>1, <2>2 DEF BloomAdd, Filter
<1> QED
  BY <1>2, <1>3

LEMMA ShapedStep ==
  ASSUME LengthsAreNat, Shaped, [Next]_vars
  PROVE  Shaped'
<1>1. ASSUME NEW n \in Expected, NEW c \in Compressions, Create(n, c) PROVE Shaped'
  <2>1. NewBlocks \in BlocksRec /\ NoEntries \in EntryMap /\ BloomNew(n) \in Filter
    BY NewBlocksLaid, FilterTypes DEF NoEntries, EntryMap
  <2>2. writer' \in WriterRec
    BY <1>1, <2>1 DEF Create, WriterRec
  <2> QED
    BY <1>1, <2>2 DEF Create, Shaped
<1>2. ASSUME NEW k \in Key, NEW v \in Value \cup {None}, Add(k, v) PROVE Shaped'
  <2>1. PICK e : e = [val |-> v, sequence |-> 0, stamp |-> 0]
    OBVIOUS
  <2>2. e \in Entry
    BY <2>1 DEF Entry
  <2>3. writer \in WriterRec
    BY <1>2 DEF Add, Shaped
  <2>4. AddToBlock(writer.blocks, k, e) \in BlocksRec
    BY <2>2, <2>3, AddToBlockType DEF WriterRec
  <2>5. [writer.data EXCEPT ![k] = e] \in EntryMap
    BY <2>2, <2>3 DEF WriterRec, EntryMap
  <2>6. BloomAdd(writer.filter, k) \in Filter /\ writer.compression \in Compressions
    BY <2>3, FilterTypes DEF WriterRec
  <2>7. writer' = [blocks |-> AddToBlock(writer.blocks, k, e), data |-> [writer.data EXCEPT ![k] = e],
                   filter |-> BloomAdd(writer.filter, k), compression |-> writer.compression,
                   max_key |-> k]
    BY <1>2, <2>1 DEF Add
  <2>8. writer' \in WriterRec
    BY <2>4, <2>5, <2>6, <2>7 DEF WriterRec
  <2> QED
    BY <1>2, <2>8 DEF Add, Shaped
<1>3. CASE Finish
  <2>1. writer \in WriterRec
    BY <1>3 DEF Finish, Shaped
  <2>2. PICK blocks : blocks = FlushBlock(writer.blocks)
    OBVIOUS
  <2>3. blocks \in BlocksRec
    BY <2>1, <2>2, FlushBlockType DEF WriterRec
  <2>4. file' = [blocks |-> blocks.flushed, index |-> blocks.index, data_size |-> blocks.position,
                 data |-> writer.data, filter |-> writer.filter,
                 compression |-> writer.compression, max_key |-> writer.max_key]
    BY <1>3, <2>2 DEF Finish
  <2>5. /\ blocks.flushed \in Seq(Seq(Key)) /\ blocks.index \in Seq(IndexEntry)
        /\ blocks.position \in Nat
    BY <2>3 DEF BlocksRec
  <2>6. /\ writer.data \in EntryMap /\ writer.filter \in Filter
        /\ writer.compression \in Compressions /\ writer.max_key \in Key \cup {None}
    BY <2>1 DEF WriterRec
  <2>7. file' \in FileRec
    BY <2>4, <2>5, <2>6 DEF FileRec
  <2> QED
    BY <1>3, <2>7 DEF Finish, Shaped
<1>4. CASE Open
  BY <1>4 DEF Open, Shaped
<1>5. ASSUME UNCHANGED <<writer, file, reader>> PROVE Shaped'
  BY <1>5 DEF Shaped
<1>6. ASSUME NEW t \in Thread, Step(t) PROVE UNCHANGED <<writer, file, reader>>
  BY <1>6 DEF Step, Finished, Panics, CacheHit, CacheMiss, LoadFails, Load
<1>7. ASSUME NEW t \in Thread, NEW c \in Call, Start(t, c) PROVE UNCHANGED <<writer, file, reader>>
  BY <1>7 DEF Start
<1>8. ASSUME UNCHANGED vars PROVE UNCHANGED <<writer, file, reader>>
  BY <1>8 DEF vars
<1> QED
  BY <1>1, <1>2, <1>3, <1>4, <1>5, <1>6, <1>7, <1>8 DEF Next

LEMMA CacheTypes ==
  ASSUME LengthsAreNat, FileInv
  PROVE  DOMAIN cache \subseteq Nat /\ \A o \in DOMAIN cache : cache[o] \in Seq(Key)
<1> SUFFICES ASSUME NEW o \in DOMAIN cache PROVE o \in Nat /\ cache[o] \in Seq(Key)
  OBVIOUS
<1>1. cache # EmptyCache
  <2>1. DOMAIN EmptyCache = {}
    BY DEF EmptyCache
  <2> QED
    BY <2>1
<1>2. file # None
  BY <1>1 DEF FileInv, CacheInv, FileOnce
<1>3. PICK i \in DOMAIN index : index[i].offset = o /\ cache[o] = file.blocks[i]
  BY DEF FileInv, CacheReadable
<1>4. index \in Seq(IndexEntry) /\ LayoutSound
  BY <1>2, FileLaid DEF FileInv
<1>5. index[i] \in IndexEntry
  BY <1>3, <1>4
<1>6. file.blocks[i] \in Seq(Key)
  BY <1>2, <1>3, <1>4, BlockFacts
<1> QED
  BY <1>3, <1>5, <1>6 DEF IndexEntry

(* The writer, the file, the cache and what the threads hold have their     *)
(* types in every state.                                                    *)
THEOREM FileTypeOK ==
  ASSUME LengthsAreNat
  PROVE  Spec => []TypeOK
<1>1. Init => Shaped
  BY DEF Init, Shaped
<1>2. Shaped /\ [Next]_vars => Shaped'
  BY ShapedStep
<1>3. FileInv /\ Shaped => TypeOK
  <2> SUFFICES ASSUME FileInv, Shaped PROVE TypeOK
    OBVIOUS
  <2> QED
    BY CacheTypes DEF Shaped, FileInv, ReaderInv, TypeOK
<1> QED
  BY <1>1, <1>2, <1>3, FileInvHolds, PTL DEF Spec
=============================================================================
