----------------------------- MODULE MCRecovery -----------------------------
(* As in MCCompaction: an entry is 18 bytes, a delete marker 17.            *)
EXTENDS Recovery

MCKeyLen == [k \in Key |-> 1]
MCValueLen == [v \in Value |-> 1]
MCCompressedLen(n) == n       \* CompressionType::None
=============================================================================
