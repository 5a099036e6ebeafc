------------------------- MODULE MCEngineRefinement -------------------------
(* Key 1 has one byte, key 2 two and key 3, too long, five: an entry has 19 *)
(* or 20 bytes, a delete marker 17 or 18.  A block holds one entry, so that *)
(* a table of two keys has two blocks; a block with a value has 32 bytes of *)
(* key 1, which is just what four block sizes allow, and 33 of key 2, which *)
(* Zstd does not read back.                                                 *)
EXTENDS EngineRefinement

MCKeyLen == [k \in Key |-> IF k = 3 THEN 5 ELSE k]
MCValueLen == [v \in Value |-> 2]
MCCompressedLen(n) == n \div 2
MCCalls == OpName \ {"scan"}
=============================================================================
