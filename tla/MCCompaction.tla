---------------------------- MODULE MCCompaction ----------------------------
(* Keys of one byte, an empty value and one of three bytes: an entry is 17  *)
(* or 20 bytes.  A table below level 0 takes two entries with the empty     *)
(* value, in one block; otherwise one.  An entry with the empty value does  *)
(* not fill a memtable.                                                     *)
EXTENDS Compaction

MCKeyLen == [k \in Key |-> 1]
MCValueLen == [v \in Value |-> IF v = "empty" THEN 0 ELSE 3]
MCCompressedLen(n) == n       \* CompressionType::None
=============================================================================
