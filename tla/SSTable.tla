------------------------------ MODULE SSTable ------------------------------
(***************************************************************************)
(* An SSTable (sstable.rs) as a value: what the writer lays out in blocks  *)
(* and what a reader of that file answers.  A table is represented by the  *)
(* map of the entries written to it; blocks, index and metadata are        *)
(* functions of that map, because the writer is given sorted entries.      *)
(***************************************************************************)
EXTENDS LsmData

CONSTANTS
  BlockSize,      \* BLOCK_SIZE
  BloomLoaded,    \* does the reader carry a Bloom filter?
  Unreadable,     \* the error of a reader that cannot decompress a block
  CompressedLen(_)  \* external: bytes that compress_block makes of n bytes

Compressed == {"none", "lz4", "zstd"}    \* CompressionType

ASSUME SSTableAssumption ==
  /\ BlockSize \in Nat \ {0} /\ BloomLoaded \in BOOLEAN
  /\ Unreadable \notin Entry \cup {None}

(* serializer_entry: length-prefixed key, presence byte, length-prefixed    *)
(* value, timestamp and sequence.                                           *)
EncodedLen(k, e) ==
  4 + KeyLen[k] + 1 + (IF e.val = None THEN 0 ELSE 4 + ValueLen[e.val]) + 16

(* The bytes of a block: its entries behind their number; the bytes it      *)
(* takes in the file: a checksum and the compressed block.                  *)
RawLen(len) == 4 + len
StoredLen(len) == 4 + CompressedLen(RawLen(len))

-----------------------------------------------------------------------------
(* The writer's block side: the blocks already flushed, the keys of the     *)
(* current one and its length in bytes, the index, and the file position.   *)
IndexEntry == [key : Key, offset : Nat, size : Nat]
BlocksRec == [flushed : Seq(Seq(Key)), current : Seq(Key), len : Nat,
              index : Seq(IndexEntry), position : Nat]

NewBlocks == [flushed |-> <<>>, current |-> <<>>, len |-> 0, index |-> <<>>, position |-> 0]

(* flush_current_block: nothing for an empty block; otherwise the index     *)
(* entry made with the block's first key learns its size.                   *)
FlushBlock(w) ==
  IF w.current = <<>> THEN w
  ELSE [flushed  |-> Append(w.flushed, w.current), current |-> <<>>, len |-> 0,
        index    |-> [w.index EXCEPT ![Len(w.index)].size = StoredLen(w.len)],
        position |-> w.position + StoredLen(w.len)]

(* Mutant: the index entry of a new block is made before the full block is  *)
(* flushed.                                                                 *)
AddToBlockEarlyIndex(w, k, e) ==
  LET full   == w.len + EncodedLen(k, e) > BlockSize
      opened == IF full \/ w.current = <<>>
                THEN [w EXCEPT !.index =
                        Append(@, [key |-> k, offset |-> w.position, size |-> 0])]
                ELSE w
      v      == IF full THEN FlushBlock(opened) ELSE opened
  IN [v EXCEPT !.current = Append(@, k), !.len = @ + EncodedLen(k, e)]

(* SSTableWriter::add below its order check: a block that is not empty and  *)
(* would outgrow BLOCK_SIZE is flushed; the first entry of a block goes     *)
(* into the index.                                                          *)
AddToBlock(w, k, e) ==
  LET full   == w.len + EncodedLen(k, e) > BlockSize
      v      == IF full THEN FlushBlock(w) ELSE w
      opened == IF v.current # <<>> THEN v
                ELSE [v EXCEPT !.index =
                        Append(@, [key |-> k, offset |-> v.position, size |-> 0])]
  IN [opened EXCEPT !.current = Append(@, k), !.len = @ + EncodedLen(k, e)]

(* build_from_vec: sort by key, add one by one, finish.                     *)
Sorted(keys) == [i \in 1..Cardinality(keys) |->
                   CHOOSE k \in keys : Cardinality({j \in keys : j < k}) = i - 1]
Built(data) ==
  FlushBlock(FoldLeft(LAMBDA w, k : AddToBlock(w, k, data[k]), NewBlocks, Sorted(KeysOf(data))))

-----------------------------------------------------------------------------
(* load_index: the key range of a reader is taken from the index, which has *)
(* the first key of every block, so that its upper end is the FIRST key of  *)
(* the last block.                                                          *)
MinKeyOf(index) == index[1].key
MaxKeyOf(index) == index[Len(index)].key

(* Mutant: the block before the right one when the key is a first key.      *)
FindBlockStrict(index, key) == Cardinality({i \in DOMAIN index : index[i].key < key})

(* find_block_for_key: the last block whose first key is not above the key; *)
(* 0 when there is none.  The first keys ascend, so it is also the number   *)
(* of such blocks, which is what the binary search of the code computes.    *)
FindBlock(index, key) == Cardinality({i \in DOMAIN index : index[i].key <= key})

(* BloomFilter::might_contain as the code has it: no bit that a lookup      *)
(* tests is ever set (see BloomFilter), so a reader that carries a filter   *)
(* answers "no" for every key.                                              *)
MightContain(key) == ~BloomLoaded

(* read_block: Zstd decompresses into a buffer of four block sizes and      *)
(* fails beyond that.                                                       *)
BlockBytes(data, block) == FoldLeft(LAMBDA n, k : n + EncodedLen(k, data[k]), 0, block)
Decodable(data, block, compression) ==
  compression = "zstd" => RawLen(BlockBytes(data, block)) <= 4 * BlockSize

(* SSTableReader::get: the only block that may have the key is read, which  *)
(* may fail, and searched.                                                  *)
InItsBlock(built, key) == Contains(built.flushed[FindBlock(built.index, key)], key)
GetIn(built, data, key, compression) ==
  IF FindBlock(built.index, key) = 0 THEN None
  ELSE IF ~Decodable(data, built.flushed[FindBlock(built.index, key)], compression)
  THEN Unreadable
  ELSE IF InItsBlock(built, key) THEN data[key] ELSE None
TableGet(data, key, compression) ==
  IF MightContain(key)
  THEN CHOOSE e \in {GetIn(built, data, key, compression) : built \in {Built(data)}} : TRUE
  ELSE None

(* Mutant: the default for a start key before the first block is missing.   *)
FirstBlockNoDefault(index, start) == FindBlock(index, start) - 1

(* The block a range begins with.                                           *)
FirstBlock(index, start) == IF FindBlock(index, start) = 0 THEN 0 ELSE FindBlock(index, start) - 1

(* SSTableReader::range.  The loop runs over block numbers from the block   *)
(* of start to the LENGTH OF THE END KEY, not to the number of blocks; it   *)
(* stops at a block that begins at or after end, and indexing past the last *)
(* block panics, unless a block before it cannot be read.  Block numbers    *)
(* are from 0 here, as in the code.                                         *)
RangeIn(built, data, start, end, compression) ==
  LET blocks == Len(built.index)
      first  == FirstBlock(built.index, start)
      stops  == {i \in first..(KeyLen[end] - 1) : i >= blocks \/ built.index[i + 1].key >= end}
      last   == IF stops = {} THEN KeyLen[end] - 1 ELSE Min(stops) - 1
  IN [panic |-> stops # {} /\ Min(stops) >= blocks,
      fails |-> \E i \in first..last :
                  i < blocks /\ ~Decodable(data, built.flushed[i + 1], compression),
      keys  |-> {k \in InRange(data, start, end) :
                   \E i \in first..last : i < blocks /\ Contains(built.flushed[i + 1], k)}]

(* The same for the table of data, which is built only once.                *)
TableRange(data, start, end, compression) ==
  CHOOSE r \in {RangeIn(built, data, start, end, compression) : built \in {Built(data)}} : TRUE

(* A full iteration, as a merge does it, fails at a block it cannot read.   *)
TableFails(data, compression) ==
  \E built \in {Built(data)} : \E i \in DOMAIN built.flushed :
    ~Decodable(data, built.flushed[i], compression)
=============================================================================
