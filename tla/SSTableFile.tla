---------------------------- MODULE SSTableFile ----------------------------
(***************************************************************************)
(* The life of one SSTable file (sstable.rs): a writer adds entries and    *)
(* finishes, the file is opened, and threads that share the reader run     *)
(* get, range and full iterations over it through its block cache.         *)
(*                                                                         *)
(* The cache has a reader-writer lock that is not held while a block is    *)
(* read from the file, so a lookup in the cache and the insertion of the   *)
(* block are two steps and other threads run in between.                   *)
(***************************************************************************)
EXTENDS SSTable, BloomFilter

CONSTANTS
  Thread,         \* threads that use the reader
  Expected,       \* the values of expected_entries given to SSTableWriter::new
  Compressions,   \* the compression types in use
  CacheLimit,     \* 100: blocks in the cache
  Ops             \* the operations in use: a subset of "get", "range", "iter"

ASSUME SSTableFileAssumption ==
  /\ None \notin Key /\ None \notin {"ok", "panic", "error"}
  /\ Hash1 \in [Key -> Nat] /\ Hash2 \in [Key -> Nat]
  /\ Expected \subseteq Nat
  /\ Compressions \subseteq Compressed
  /\ CacheLimit \in Nat
  /\ Ops \subseteq {"get", "range", "iter"}

VARIABLES
  writer,     \* the SSTableWriter, or None
  file,       \* the finished file, or None
  reader,     \* the SSTableReader: "none", "failed" (open returned Err) or "open"
  cache,      \* block_cache: the keys of the block at each cached offset
  pc,         \* pc[t]: "idle", "visit" (at the head of the loop) or "load"
  call,       \* call[t]: the operation of t and its keys
  at,         \* at[t]: number of the block to visit, from 0
  rows,       \* rows[t]: keys of the entries collected, in order
  answer      \* answer[t]: how the last operation of t ended

vars == <<writer, file, reader, cache, pc, call, at, rows, answer>>

Call == [op : {"get"}, start : Key, end : {None}]
          \cup [op : {"range"}, start : Key, end : Key]
          \cup [op : {"iter"}, start : {None}, end : {None}]

(* The writer and the file keep the entries in data; their order is that of *)
(* the blocks.  max_key is the one finish returns in SStableMeta.           *)
WriterRec == [blocks : BlocksRec, data : EntryMap, filter : Filter,
              compression : Compressions, max_key : Key \cup {None}]
FileRec == [blocks : Seq(Seq(Key)), index : Seq(IndexEntry), data_size : Nat,
            data : EntryMap, filter : Filter, compression : Compressions,
            max_key : Key \cup {None}]

TypeOK ==
  /\ writer = None \/ writer \in WriterRec
  /\ file = None \/ file \in FileRec
  /\ reader \in {"none", "failed", "open"}
  /\ DOMAIN cache \subseteq Nat /\ \A o \in DOMAIN cache : cache[o] \in Seq(Key)
  /\ pc \in [Thread -> {"idle", "visit", "load"}]
  /\ call \in [Thread -> Call \cup {None}]
  /\ at \in [Thread -> Nat]
  /\ rows \in [Thread -> Seq(Key)]
  /\ answer \in [Thread -> {None, "ok", "panic", "error"}]

EmptyCache == [o \in {} |-> <<>>]

Init ==
  /\ writer = None
  /\ file = None
  /\ reader = "none"
  /\ cache = EmptyCache
  /\ pc = [t \in Thread |-> "idle"]
  /\ call = [t \in Thread |-> None]
  /\ at = [t \in Thread |-> 0]
  /\ rows = [t \in Thread |-> <<>>]
  /\ answer = [t \in Thread |-> None]

-----------------------------------------------------------------------------
reading == <<cache, pc, call, at, rows, answer>>

Create(expected_entries, compression) ==
  /\ writer = None /\ file = None
  /\ writer' = [blocks |-> NewBlocks, data |-> NoEntries, filter |-> BloomNew(expected_entries),
                compression |-> compression, max_key |-> None]
  /\ UNCHANGED <<file, reader, reading>>

(* A key that is not above the last one is refused with an error and        *)
(* changes nothing.                                                         *)
InOrder(w, k) == w.max_key # None => k > w.max_key

Add(k, v) ==
  /\ writer # None
  /\ InOrder(writer, k)
  /\ LET e == [val |-> v, sequence |-> 0, stamp |-> 0]
     IN writer' = [blocks      |-> AddToBlock(writer.blocks, k, e),
                   data        |-> [writer.data EXCEPT ![k] = e],
                   filter      |-> BloomAdd(writer.filter, k),
                   compression |-> writer.compression,
                   max_key     |-> k]
  /\ UNCHANGED <<file, reader, reading>>

(* The data blocks, the filter, the index and the footer, in this order.    *)
Finish ==
  /\ writer # None
  /\ LET blocks == FlushBlock(writer.blocks)
     IN file' = [blocks |-> blocks.flushed, index |-> blocks.index,
                 data_size |-> blocks.position, data |-> writer.data,
                 filter |-> writer.filter, compression |-> writer.compression,
                 max_key |-> writer.max_key]
  /\ writer' = None
  /\ UNCHANGED <<reader, reading>>

(* Footer and index are read back; the filter may be refused.               *)
Open ==
  /\ reader = "none" /\ file # None
  /\ reader' = IF Reloads(file.filter) THEN "open" ELSE "failed"
  /\ UNCHANGED <<writer, file, reading>>

-----------------------------------------------------------------------------
index == file.index
Blocks == Len(index)

Return(t, tag, found) ==
  /\ pc' = [pc EXCEPT ![t] = "idle"]
  /\ rows' = [rows EXCEPT ![t] = found]
  /\ answer' = [answer EXCEPT ![t] = tag]
  /\ at' = [at EXCEPT ![t] = 0]

(* The block an operation begins with, and whether a get needs one at all:  *)
(* the filter may deny the key, or every block may begin above it.          *)
StartBlock(c) == IF c.op = "iter" THEN 0 ELSE FirstBlock(index, c.start)
NeedsNoBlock(c) ==
  c.op = "get" /\ (~BloomMightContain(file.filter, c.start) \/ FindBlock(index, c.start) = 0)

Start(t, c) ==
  /\ reader = "open"
  /\ pc[t] = "idle"
  /\ call' = [call EXCEPT ![t] = c]
  /\ IF NeedsNoBlock(c)
     THEN Return(t, "ok", <<>>)
     ELSE /\ pc' = [pc EXCEPT ![t] = "visit"]
          /\ at' = [at EXCEPT ![t] = StartBlock(c)]
          /\ rows' = [rows EXCEPT ![t] = <<>>]
          /\ answer' = [answer EXCEPT ![t] = None]
  /\ UNCHANGED <<writer, file, reader, cache>>

(* Mutant: the iterator stops before the last block.                        *)
EndsEarly(c, i) ==
  CASE c.op = "get"   -> FALSE
    [] c.op = "iter"  -> i >= Blocks - 1
    [] c.op = "range" -> i >= KeyLen[c.end] \/ (i < Blocks /\ index[i + 1].key >= c.end)

(* The loop of range runs to the length of the end key and breaks at a      *)
(* block that begins at or after the end; the iterator runs over all        *)
(* blocks; a get reads its one block.                                       *)
Ends(c, i) ==
  CASE c.op = "get"   -> FALSE
    [] c.op = "iter"  -> i >= Blocks
    [] c.op = "range" -> i >= KeyLen[c.end] \/ (i < Blocks /\ index[i + 1].key >= c.end)

Finished(t) ==
  /\ pc[t] = "visit" /\ Ends(call[t], at[t])
  /\ Return(t, "ok", rows[t])
  /\ UNCHANGED <<writer, file, reader, cache, call>>

(* self.index[i] with i past the last block.                                *)
Panics(t) ==
  /\ pc[t] = "visit" /\ ~Ends(call[t], at[t])
  /\ at[t] >= Blocks
  /\ Return(t, "panic", <<>>)
  /\ UNCHANGED <<writer, file, reader, cache, call>>

(* Mutant: the end key belongs to the range.                                *)
WantsToEnd(c, k) ==
  CASE c.op = "get"   -> k = c.start
    [] c.op = "iter"  -> TRUE
    [] c.op = "range" -> c.start <= k /\ k <= c.end

(* What an operation takes of a block, entry by entry.                      *)
Wants(c, k) ==
  CASE c.op = "get"   -> k = c.start
    [] c.op = "iter"  -> TRUE
    [] c.op = "range" -> c.start <= k /\ k < c.end
Wanted(c, block) ==
  FoldLeft(LAMBDA found, k : IF Wants(c, k) THEN Append(found, k) ELSE found, <<>>, block)

(* The entries of a block are taken, and the next block is next.            *)
Consume(t, block) ==
  LET found == rows[t] \o Wanted(call[t], block)
  IN IF call[t].op = "get"
     THEN Return(t, "ok", found)
     ELSE /\ pc' = [pc EXCEPT ![t] = "visit"]
          /\ rows' = [rows EXCEPT ![t] = found]
          /\ at' = [at EXCEPT ![t] = @ + 1]
          /\ UNCHANGED answer

(* read_block: the cache first, under its read lock.                        *)
Visits(t) == pc[t] = "visit" /\ ~Ends(call[t], at[t]) /\ at[t] < Blocks
Offset(t) == index[at[t] + 1].offset

CacheHit(t) ==
  /\ Visits(t)
  /\ Offset(t) \in DOMAIN cache
  /\ Consume(t, cache[Offset(t)])
  /\ UNCHANGED <<writer, file, reader, cache, call>>

CacheMiss(t) ==
  /\ Visits(t)
  /\ Offset(t) \notin DOMAIN cache
  /\ pc' = [pc EXCEPT ![t] = "load"]
  /\ UNCHANGED <<writer, file, reader, cache, call, at, rows, answer>>

(* Where the blocks really are: one after the other from offset 0.          *)
BlockLen(block) == BlockBytes(file.data, block)
BytesBefore(i) == FoldLeft(LAMBDA n, b : n + StoredLen(BlockLen(b)), 0, SubSeq(file.blocks, 1, i - 1))

(* The checksum tells whether offset and size are those of a block, which   *)
(* is then decompressed.                                                    *)
Readable(i) ==
  /\ index[i].offset = BytesBefore(i) /\ index[i].size = StoredLen(BlockLen(file.blocks[i]))
  /\ Decodable(file.data, file.blocks[i], file.compression)

LoadFails(t) ==
  /\ pc[t] = "load"
  /\ ~Readable(at[t] + 1)
  /\ Return(t, "error", <<>>)
  /\ UNCHANGED <<writer, file, reader, cache, call>>

(* Mutant: the cache is only emptied when it is larger than its limit       *)
(* before the insertion.                                                    *)
CachedLate(offset, block) ==
  IF Cardinality(DOMAIN cache) > CacheLimit THEN EmptyCache
  ELSE [o \in DOMAIN cache \cup {offset} |-> IF o = offset THEN block ELSE cache[o]]

(* The block goes into the cache under its write lock; a cache over its     *)
(* limit is emptied, the new block included.                                *)
Cached(offset, block) ==
  IF Cardinality(DOMAIN cache \cup {offset}) > CacheLimit THEN EmptyCache
  ELSE [o \in DOMAIN cache \cup {offset} |-> IF o = offset THEN block ELSE cache[o]]

Load(t) ==
  /\ pc[t] = "load"
  /\ Readable(at[t] + 1)
  /\ cache' = Cached(Offset(t), file.blocks[at[t] + 1])
  /\ Consume(t, file.blocks[at[t] + 1])
  /\ UNCHANGED <<writer, file, reader, call>>

-----------------------------------------------------------------------------
Step(t) == Finished(t) \/ Panics(t) \/ CacheHit(t) \/ CacheMiss(t) \/ LoadFails(t) \/ Load(t)

Next ==
  \/ \E n \in Expected, c \in Compressions : Create(n, c)
  \/ \E k \in Key, v \in Value \cup {None} : Add(k, v)
  \/ Finish
  \/ Open
  \/ \E t \in Thread, c \in {c \in Call : c.op \in Ops} : Start(t, c)
  \/ \E t \in Thread : Step(t)

Spec == Init /\ [][Next]_vars

-----------------------------------------------------------------------------
(* The offsets and sizes the writer noted while the blocks went out are     *)
(* those of the blocks in the file, which fill the data section without a   *)
(* gap, and no block but one of a single entry is larger than BLOCK_SIZE.   *)
IndexTilesFile ==
  file # None =>
    /\ Len(index) = Len(file.blocks)
    /\ \A i \in DOMAIN index :
         /\ index[i].key = Head(file.blocks[i])
         /\ index[i].offset = BytesBefore(i)
         /\ index[i].size = StoredLen(BlockLen(file.blocks[i]))
         /\ BlockLen(file.blocks[i]) <= BlockSize \/ Len(file.blocks[i]) = 1
    /\ file.data_size = BytesBefore(Len(file.blocks) + 1)

(* The loop of find_block_for_key.                                          *)
SearchLoop(key) ==
  LET search[bounds \in (0..Blocks) \X (0..Blocks)] ==
        LET left  == bounds[1]
            right == bounds[2]
            mid   == left + (right - left) \div 2
        IN IF left >= right THEN left
           ELSE IF key < index[mid + 1].key THEN search[<<left, mid>>]
                                            ELSE search[<<mid + 1, right>>]
  IN search[<<0, Blocks>>]

(* However the entries fell into blocks, the binary search ends at the      *)
(* block that holds the key, if the file has it.                            *)
SearchFindsKey ==
  file # None =>
    \A k \in Key : /\ SearchLoop(k) = FindBlock(index, k)
                   /\ k \in KeysOf(file.data) =>
                        FindBlock(index, k) # 0 /\ Contains(file.blocks[FindBlock(index, k)], k)

(* Whatever other threads insert and clear meanwhile, a cached block is the *)
(* block of the file at that offset, and the cache stays within its limit.  *)
CacheCoherent ==
  /\ \A o \in DOMAIN cache :
       \E i \in DOMAIN index : index[i].offset = o /\ cache[o] = file.blocks[i]
  /\ Cardinality(DOMAIN cache) <= CacheLimit

(* An iteration returns every entry that was added, in the order of the    *)
(* keys, whatever happens to the cache meanwhile; it fails if and only if   *)
(* Zstd wrote a block with an entry that does not fit into four blocks,     *)
(* although put accepts such a value.                                       *)
Undecodable ==
  /\ file.compression = "zstd"
  /\ \E k \in KeysOf(file.data) : RawLen(EncodedLen(k, file.data[k])) > 4 * BlockSize
IterReturnsAll ==
  \A t \in Thread : call[t] # None /\ call[t].op = "iter" /\ pc[t] = "idle" =>
    IF Undecodable THEN answer[t] = "error"
    ELSE answer[t] = "ok" /\ rows[t] = Sorted(KeysOf(file.data))

(* The loop of range, through the cache, returns what TableRange says, on   *)
(* which the scans of StorageEngine rest, and fails or panics exactly when  *)
(* it says so.                                                              *)
RangeIsTableRange ==
  \A t \in Thread :
    call[t] # None /\ call[t].op = "range" /\ pc[t] = "idle" =>
      LET r == TableRange(file.data, call[t].start, call[t].end, file.compression)
      IN IF r.fails THEN answer[t] = "error"
         ELSE IF r.panic THEN answer[t] = "panic"
         ELSE answer[t] = "ok" /\ rows[t] = Sorted(r.keys)

(* "open an sstable file for reading" (sstable.rs:65): a file that a writer *)
(* finished can be opened.                                                  *)
OpensWhatWasWritten == reader # "failed"

(* "read the block and collect matching entries" (sstable.rs:411-412): a    *)
(* range returns every entry of the file between its keys.                  *)
RangeReturnsAll ==
  \A t \in Thread : call[t] # None /\ call[t].op = "range" /\ pc[t] = "idle" =>
    rows[t] = Sorted(InRange(file.data, call[t].start, call[t].end))
=============================================================================
