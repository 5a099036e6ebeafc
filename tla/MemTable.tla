------------------------------ MODULE MemTable ------------------------------
(***************************************************************************)
(* One MemTable (memtable.rs) shared by several threads.                   *)
(*                                                                         *)
(* put and delete are three separate atomic effects in the code: the       *)
(* is_immutable load, the fetch_add on the sequence counter, and the       *)
(* insertion under the write lock of the map.  make_immutable, clone and   *)
(* iter run between any two of them.                                       *)
(***************************************************************************)
EXTENDS LsmData

CONSTANTS
  Writer,        \* threads that call put and delete
  MaxWrites,     \* bound: puts and deletes started
  MaxIters       \* bound: iterators created by MemTable::iter

ASSUME MemTableAssumption == MaxWrites \in Nat /\ MaxIters \in Nat

VARIABLES
  mt,            \* the memtable: entries, size, count, sequence counter, flag
  pc,            \* pc[w]: "idle", "sequence" (flag seen clear) or "insert"
  op,            \* op[w]: key and value of the call in progress
  taken,         \* taken[w]: the sequence number fetched for it
  guards,        \* read guards of the map that nobody will ever release
  copy,          \* the last MemTable::clone, or None
  started,       \* history: calls started
  stamp          \* history: insertions done

vars == <<mt, pc, op, taken, guards, copy, started, stamp>>

TypeOK ==
  /\ mt \in MemTableRec
  /\ pc \in [Writer -> {"idle", "sequence", "insert"}]
  /\ op \in [Writer -> [key : Key, val : Value \cup {None}] \cup {None}]
  /\ taken \in [Writer -> Nat]
  /\ guards \in 0..MaxIters
  /\ copy \in MemTableRec \cup {None}
  /\ started \in 0..MaxWrites
  /\ stamp \in Nat

Init ==
  /\ mt = NewMemTable(0)
  /\ pc = [w \in Writer |-> "idle"]
  /\ op = [w \in Writer |-> None]
  /\ taken = [w \in Writer |-> 0]
  /\ guards = 0
  /\ copy = None
  /\ started = 0
  /\ stamp = 0

-----------------------------------------------------------------------------
(* put(k, v), and delete(k) with v = None: the call and its is_immutable    *)
(* check.  A frozen memtable answers ReadOnly and nothing else happens.     *)
Start(w, k, v) ==
  /\ pc[w] = "idle"
  /\ started < MaxWrites
  /\ ~mt.immutable
  /\ started' = started + 1
  /\ pc' = [pc EXCEPT ![w] = "sequence"]
  /\ op' = [op EXCEPT ![w] = [key |-> k, val |-> v]]
  /\ UNCHANGED <<mt, taken, guards, copy, stamp>>

(* Mutant: the counter is read and not advanced.                            *)
TakeSequenceLoad(w) ==
  /\ pc[w] = "sequence"
  /\ taken' = [taken EXCEPT ![w] = mt.next_sequence]
  /\ pc' = [pc EXCEPT ![w] = "insert"]
  /\ UNCHANGED <<mt, op, guards, copy, started, stamp>>

(* Mutant: a write that finds the memtable frozen waits.                    *)
TakeSequenceWaits(w) ==
  /\ pc[w] = "sequence"
  /\ ~mt.immutable
  /\ taken' = [taken EXCEPT ![w] = mt.next_sequence]
  /\ mt' = [mt EXCEPT !.next_sequence = @ + 1]
  /\ pc' = [pc EXCEPT ![w] = "insert"]
  /\ UNCHANGED <<op, guards, copy, started, stamp>>

(* next_sequence: fetch_add outside the lock of the map.                    *)
TakeSequence(w) ==
  /\ pc[w] = "sequence"
  /\ taken' = [taken EXCEPT ![w] = mt.next_sequence]
  /\ mt' = [mt EXCEPT !.next_sequence = @ + 1]
  /\ pc' = [pc EXCEPT ![w] = "insert"]
  /\ UNCHANGED <<op, guards, copy, started, stamp>>

(* The write lock of the map: it is granted when no read guard is left.     *)
Insert(w) ==
  /\ pc[w] = "insert"
  /\ guards = 0
  /\ mt' = PutEntry(mt, op[w].key,
                    [val |-> op[w].val, sequence |-> taken[w], stamp |-> stamp + 1])
  /\ stamp' = stamp + 1
  /\ pc' = [pc EXCEPT ![w] = "idle"]
  /\ op' = [op EXCEPT ![w] = None]
  /\ taken' = [taken EXCEPT ![w] = 0]
  /\ UNCHANGED <<guards, copy, started>>

MakeImmutable ==
  /\ mt' = [mt EXCEPT !.immutable = TRUE]
  /\ UNCHANGED <<pc, op, taken, guards, copy, started, stamp>>

(* Clone: the read guard of the map is held until every field is copied, so *)
(* no insertion falls between the map and its counters.                     *)
Clone ==
  /\ copy' = mt
  /\ UNCHANGED <<mt, pc, op, taken, guards, started, stamp>>

(* MemTable::iter: the iterator forgets its read guard, which is then never *)
(* released, not even when the iterator is dropped.                         *)
Iter ==
  /\ guards < MaxIters
  /\ guards' = guards + 1
  /\ UNCHANGED <<mt, pc, op, taken, copy, started, stamp>>

Next ==
  \/ \E w \in Writer, k \in Key, v \in Value \cup {None} : Start(w, k, v)
  \/ \E w \in Writer : TakeSequence(w)
  \/ \E w \in Writer : Insert(w)
  \/ MakeImmutable
  \/ Clone
  \/ Iter

Spec == Init /\ [][Next]_vars

(* A thread inside put keeps running, and the lock of the map is granted to *)
(* a thread that waits for it while it is free.                             *)
Fairness == \A w \in Writer : WF_vars(TakeSequence(w)) /\ SF_vars(Insert(w))

FairSpec == Spec /\ Fairness

-----------------------------------------------------------------------------
(* The byte counter never falls below the bytes stored, so that             *)
(* should_flush is never late, and the entry counter is the number of       *)
(* entries: both survive overwrites by longer and by shorter values and     *)
(* hold in every clone.                                                     *)
WellCounted(m) == m.count = Cardinality(KeysOf(m.data)) /\ m.size >= LiveBytes(m.data)
CountersCoverData == WellCounted(mt) /\ (copy # None => WellCounted(copy))

(* No sequence number is used twice: the entries stored and the calls in    *)
(* flight all carry different ones, all below the counter.                  *)
SequencesDistinct ==
  /\ \A k \in KeysOf(mt.data) :
       /\ mt.data[k].sequence < mt.next_sequence
       /\ \A j \in KeysOf(mt.data) \ {k} : mt.data[j].sequence # mt.data[k].sequence
       /\ \A w \in Writer : pc[w] = "insert" => taken[w] # mt.data[k].sequence
  /\ \A w, x \in Writer :
       pc[w] = "insert" /\ pc[x] = "insert" /\ w # x => taken[w] # taken[x]

(* Every put and delete that was started returns, although several threads *)
(* compete for the lock of the map, and also when the memtable is frozen    *)
(* under them; unless somebody created an iterator, whose guard is leaked   *)
(* and keeps every writer of this memtable waiting.                         *)
WritersReturn == \A w \in Writer : pc[w] # "idle" ~> (pc[w] = "idle" \/ guards > 0)
=============================================================================
