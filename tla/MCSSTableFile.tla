---------------------------- MODULE MCSSTableFile ----------------------------
(* Keys of one to three bytes: an entry with the short value has 31, 32 or  *)
(* 33 bytes, so that two of them leave one byte of a block of 64, fill it,  *)
(* or no longer fit; a delete marker has 22 to 24, so that two share a      *)
(* block.  An entry with the large value overflows four blocks.  Compression*)
(* halves a block.                                                          *)
EXTENDS SSTableFile

MCKeyLen == [k \in Key |-> k]
MCValueLen == [v \in Value |-> IF v = "large" THEN 256 ELSE 5]
MCCompressedLen(n) == n \div 2
MCHash1 == [k \in Key |-> 11 * k]
MCHash2 == [k \in Key |-> 7 + k]
Symmetry == Permutations(Thread)
==============================================================================
