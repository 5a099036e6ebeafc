---------------------------- MODULE BloomFilter ----------------------------
(***************************************************************************)
(* The Bloom filter of a table (bloom.rs) as a value.                      *)
(*                                                                         *)
(* The number of bits and of hashes comes from a formula over floats; here *)
(* they are constants within the bounds the code enforces.  The two hash   *)
(* functions are external.                                                 *)
(***************************************************************************)
EXTENDS Integers

CONSTANTS
  Hash1, Hash2,   \* external: hash_blake3 and hash_default of a key
  HashMod,        \* 2^64: hashes are added and multiplied wrapping around
  BitCount,       \* bits of a filter made for at least one element
  HashCount       \* hashes of such a filter

ASSUME BloomFilterAssumption ==
  /\ BitCount \in Nat /\ BitCount >= 64
  /\ HashCount \in 1..10
  /\ HashMod \in Nat \ {0}

(* bits is the set of the indexes of the bits that are one.                 *)
Filter == [bits : SUBSET Nat, bytes : Nat, bit_count : Nat, hash_count : Nat,
           element_count : Nat]

(* new: note that the array gets 7/8 of bit_count as its length in BYTES.   *)
BloomNew(expected_elements) ==
  IF expected_elements = 0
  THEN [bits |-> {}, bytes |-> 1, bit_count |-> 8, hash_count |-> 1, element_count |-> 0]
  ELSE [bits |-> {}, bytes |-> (BitCount * 7) \div 8, bit_count |-> BitCount,
        hash_count |-> HashCount, element_count |-> 0]

(* hash_element and the remainder that add and might_contain take of it.    *)
BitIndexes(f, key) ==
  {((Hash1[key] + i * Hash2[key]) % HashMod) % f.bit_count : i \in 0..(f.hash_count - 1)}

(* set_bit hashes the index and returns the hash; it stores nothing.        *)
SetBit(bits, index) == bits

BloomAdd(f, key) ==
  [bits          |-> UNION {SetBit(f.bits, i) : i \in BitIndexes(f, key)},
   bytes         |-> f.bytes,
   bit_count     |-> f.bit_count,
   hash_count    |-> f.hash_count,
   element_count |-> f.element_count + 1]

GetBit(f, index) == index \div 8 < f.bytes /\ index \in f.bits

BloomMightContain(f, key) == \A i \in BitIndexes(f, key) : GetBit(f, i)

(* to_bytes writes the header and the array; from_bytes takes them only if  *)
(* the array has the length that bit_count calls for, and otherwise answers *)
(* "invalid bloom filter data length".  What it takes, it gives back.       *)
Reloads(f) == f.bytes = (f.bit_count + 7) \div 8
=============================================================================
