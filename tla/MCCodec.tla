------------------------------ MODULE MCCodec ------------------------------
(* Bytes of 3 bits and u64 of 9: as 64 bits are 9 groups of 7 and one more  *)
(* bit, 9 bits are 4 groups of 2 and one more bit.  The samples are the     *)
(* values at which the number of bytes or groups changes.                   *)
EXTENDS Codec

MCWidth == [t \in IntType |-> CASE t = "u8" -> 1 [] t = "u64" -> 3 [] OTHER -> 2]
Edges == {0, 1, 3, 4, 7, 8, 15, 16, 63, 64, 255, 256, 511}
MCSamples ==
  [t \in Type |-> IF t \in IntType THEN {n \in Edges : n < Bound(t)}
                  ELSE IF t = "varint" THEN Edges
                  ELSE {<<>>, <<0>>, <<7, 4>>, <<4, 4, 4>>}]
=============================================================================
