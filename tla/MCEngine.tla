------------------------------ MODULE MCEngine ------------------------------
(* Small keys and values: keys and values of one byte, so that an entry is  *)
(* 18 bytes, a delete marker 17, and 2^16 bytes of address space.           *)
EXTENDS StorageEngine

MCKeyLen == [k \in Key |-> 1]
MCValueLen == [v \in Value |-> 1]
MCCompressedLen(n) == n       \* CompressionType::None
Symmetry == Permutations(Client)
=============================================================================
