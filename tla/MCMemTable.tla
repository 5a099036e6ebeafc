---------------------------- MODULE MCMemTable ----------------------------
(* Two keys of one byte, two values of 1 and 3 bytes, 16-bit usize.        *)
EXTENDS MemTable

MCKey == {1, 2}
MCKeyLen == [k \in MCKey |-> 1]
MCValueLen == [v \in Value |-> IF v = "long" THEN 3 ELSE 1]
Symmetry == Permutations(Writer)
=============================================================================
