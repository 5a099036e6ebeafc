------------------------------- MODULE Codec -------------------------------
(***************************************************************************)
(* Serializer and Deserializer (serialization.rs): values are appended to  *)
(* a buffer, and read back with a cursor from a buffer that may have been  *)
(* cut short meanwhile, as a file is by a crash.                           *)
(*                                                                         *)
(* Bytes are numbers below Base.  A text is a sequence of bytes; texts are *)
(* valid UTF-8 because they are written from a str.                        *)
(***************************************************************************)
EXTENDS Integers, SequencesExt

CONSTANTS
  ByteBits,      \* 8
  Width,         \* bytes of the integer types
  Samples,       \* Samples[t]: the values of type t that are written
  MaxItems       \* bound: values written to a buffer

IntType == {"u8", "u16", "u32", "u64"}
SizedType == {"bytes", "string"}
Type == IntType \cup SizedType \cup {"varint"}

Base == 2 ^ ByteBits
Half == 2 ^ (ByteBits - 1)                \* 0x80
Bound(t) == 2 ^ (ByteBits * Width[t])     \* 2^64 for u64

ASSUME CodecAssumption ==
  /\ ByteBits \in Nat \ {0, 1}
  /\ Width \in [IntType -> Nat \ {0}]
  /\ DOMAIN Samples = Type
  /\ \A t \in IntType : Samples[t] \subseteq 0..(Bound(t) - 1)
  /\ Samples["varint"] \subseteq 0..(Bound("u64") - 1)
  /\ \A t \in SizedType : Samples[t] \subseteq Seq(0..(Base - 1))
  /\ MaxItems \in Nat

VARIABLES
  buffer,        \* Serializer::buffer, later Deserializer::data
  position,      \* Deserializer::position
  phase,         \* "write", "read" or "failed"
  items,         \* history: the values written, with their types
  got            \* history: the values read, or passed over

vars == <<buffer, position, phase, items, got>>

Init == buffer = <<>> /\ position = 0 /\ phase = "write" /\ items = <<>> /\ got = <<>>

-----------------------------------------------------------------------------
(* to_le_bytes and from_le_bytes.                                           *)
LittleEndian(n, w) == [i \in 1..w |-> (n \div (Base ^ (i - 1))) % Base]
Number(bytes, base) == MapThenSumSet(LAMBDA i : bytes[i] * base ^ (i - 1), DOMAIN bytes)

(* Mutant: 0x80 is taken for the last group.                                *)
GroupsOffByOne[n \in Nat] ==
  IF n > Half THEN <<Half + (n % Half)>> \o GroupsOffByOne[n \div Half] ELSE <<n>>
VariableIntOffByOne(n) == GroupsOffByOne[n]

(* write_variable_int: groups of ByteBits - 1 bits, the lowest first; all   *)
(* but the last have the highest bit set.                                   *)
Groups[n \in Nat] == IF n >= Half THEN <<Half + (n % Half)>> \o Groups[n \div Half] ELSE <<n>>
VariableInt(n) == Groups[n]

(* A string or a Vec<u8> comes behind its length as a u32.                  *)
Encoded(t, v) ==
  CASE t \in IntType   -> LittleEndian(v, Width[t])
    [] t \in SizedType -> LittleEndian(Len(v) % Bound("u32"), Width["u32"]) \o v
    [] t = "varint"    -> VariableInt(v)

Write(t, v) ==
  /\ phase = "write" /\ Len(items) < MaxItems
  /\ buffer' = buffer \o Encoded(t, v)
  /\ items' = Append(items, [type |-> t, val |-> v])
  /\ UNCHANGED <<position, phase, got>>

(* Deserializer::new on what is left of the buffer.                         *)
StartReading(n) ==
  /\ phase = "write"
  /\ buffer' = SubSeq(buffer, 1, n)
  /\ phase' = "read"
  /\ UNCHANGED <<position, items, got>>

-----------------------------------------------------------------------------
(* What a read that begins at p gives, and where it leaves the cursor.      *)
Read(val, p) == [ok |-> TRUE, val |-> val, position |-> p]
Failed(p) == [ok |-> FALSE, val |-> 0, position |-> p]

(* Mutant: the buffer gives what it has.                                    *)
TakeSome(p, n) ==
  LET end == Min({p + n, Len(buffer)}) IN Read(SubSeq(buffer, p + 1, end), end)

(* ensure_byte and the slice: n bytes from the cursor.                      *)
Take(p, n) ==
  IF p + n > Len(buffer) THEN Failed(p) ELSE Read(SubSeq(buffer, p + 1, p + n), p + n)

ReadInt(p, t) ==
  LET r == Take(p, Width[t]) IN IF r.ok THEN Read(Number(r.val, Base), r.position) ELSE r

(* Mutant: a failure puts the cursor at the end.                            *)
ReadSizedToEnd(p) ==
  LET len == ReadInt(p, "u32")
      r   == Take(len.position, len.val)
  IN IF len.ok THEN (IF r.ok THEN r ELSE Failed(Len(buffer) + 1)) ELSE len

(* read_string and Vec::deserialize: when the bytes are missing, the cursor *)
(* stays behind the length.                                                 *)
ReadSized(p) ==
  LET len == ReadInt(p, "u32") IN IF len.ok THEN Take(len.position, len.val) ELSE len

(* Mutant: there is no limit.                                               *)
MaxGroupsNone == Len(buffer) + 1

(* The loop of read_variable_int fails when the shift has reached 64.       *)
MaxGroups == Cardinality({i \in 0..(ByteBits * Width["u64"]) :
                            i * (ByteBits - 1) < ByteBits * Width["u64"]})

(* read_variable_int: one byte after the other up to the first that has the *)
(* highest bit clear; bits beyond the 64th are shifted out.                 *)
ReadVariableInt(p) ==
  LET last   == {i \in 1..MaxGroups : p + i <= Len(buffer) /\ buffer[p + i] < Half}
      n      == Min(last)
      groups == [i \in 1..n |-> buffer[p + i] % Half]
  IN IF last = {} THEN Failed(Min({p + MaxGroups, Len(buffer)}))
     ELSE Read(Number(groups, Half) % Bound("u64"), p + n)

Outcome(p, t) ==
  CASE t \in IntType   -> ReadInt(p, t)
    [] t \in SizedType -> ReadSized(p)
    [] t = "varint"    -> ReadVariableInt(p)

(* The values are read back in the order and with the types they were       *)
(* written with, until a read fails.                                        *)
ReadNext ==
  /\ phase = "read" /\ Len(got) < Len(items)
  /\ \E r \in {Outcome(position, items[Len(got) + 1].type)} :
       /\ position' = r.position
       /\ IF r.ok THEN got' = Append(got, [read |-> TRUE, val |-> r.val]) /\ UNCHANGED phase
                  ELSE phase' = "failed" /\ UNCHANGED got
  /\ UNCHANGED <<buffer, items>>

(* skip: the bytes of a fixed-size value, or those behind a length, as the  *)
(* readers of a block do with the values they do not want.                  *)
SkipNext ==
  /\ phase = "read" /\ Len(got) < Len(items)
  /\ items[Len(got) + 1].type # "varint"
  /\ \E r \in {LET t == items[Len(got) + 1].type
             IN IF t \in IntType THEN Take(position, Width[t]) ELSE ReadSized(position)} :
       /\ position' = r.position
       /\ IF r.ok THEN got' = Append(got, [read |-> FALSE, val |-> 0]) /\ UNCHANGED phase
                  ELSE phase' = "failed" /\ UNCHANGED got
  /\ UNCHANGED <<buffer, items>>

Next ==
  \/ \E t \in Type : \E v \in Samples[t] : Write(t, v)
  \/ \E n \in 0..Len(buffer) : StartReading(n)
  \/ ReadNext
  \/ SkipNext

Spec == Init /\ [][Next]_vars

-----------------------------------------------------------------------------
(* What is read back is what was written, for all types and whatever was    *)
(* cut off behind it: a cut buffer gives an error, never a wrong value.     *)
ReadsBack == \A i \in DOMAIN got : got[i].read => got[i].val = items[i].val

(* The whole buffer is read back without an error and to its last byte, and *)
(* a buffer that was cut gives an error before all is read.                 *)
LengthOf(n) == MapThenSumSet(LAMBDA i : Len(Encoded(items[i].type, items[i].val)), 1..n)
CutIsNoticed ==
  /\ phase = "failed" => Len(buffer) < LengthOf(Len(items))
  /\ phase = "read" /\ Len(got) = Len(items) =>
       position = Len(buffer) /\ Len(buffer) = LengthOf(Len(items))

(* A failed read leaves the cursor in the value that it could not read: not *)
(* behind the end of the buffer, and not before the values already read.    *)
CursorInItem == position \in LengthOf(Len(got))..Len(buffer) \/ phase = "write"

(* Wherever a variable-length integer is read from, be it in the middle of  *)
(* other data, it takes no more bytes than the largest u64 needs, and its   *)
(* bytes are the ones its value is written as, unless they end in an empty  *)
(* group or in a group that does not fit into 64 bits.                      *)
VarintsShortest ==
  \A p \in 0..Len(buffer) :
    LET r     == ReadVariableInt(p)
        bytes == SubSeq(buffer, p + 1, r.position)
    IN /\ r.position - p <= Len(VariableInt(Bound("u64") - 1))
       /\ r.ok => \/ bytes = VariableInt(r.val)
                  \/ Len(bytes) > 1 /\ Last(bytes) = 0
                  \/ Last(bytes) * Half ^ (Len(bytes) - 1) >= Bound("u64")
=============================================================================
