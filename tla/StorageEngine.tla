--------------------------- MODULE StorageEngine ---------------------------
(***************************************************************************)
(* StorageEngine (storage.rs): put, get, delete, scan and close called by  *)
(* any number of clients, memtable rotation, the bounded list of immutable *)
(* memtables and their flush to level 0.                                   *)
(*                                                                         *)
(* A step is what happens between two acquisitions of a lock.  The         *)
(* memtable and the immutable list have reader-writer locks.  Only two of  *)
(* the lock's holders keep it across steps: a put or delete keeps a read   *)
(* lock of the memtable while it takes its sequence number and inserts,    *)
(* and close keeps the write lock of the immutable list while it flushes.  *)
(* Compaction and reopening are not in this module.                        *)
(***************************************************************************)
EXTENDS SSTable

CONSTANTS
  Client,          \* the tasks that call the engine
  Calls,           \* the operations they use, a subset of OpName
  MaxMemtables,    \* Config::max_memtables
  MaxLevels,       \* Config::max_levels
  MaxKeySize,      \* MAX_KEY_SIZE
  MaxValueSize,    \* MAX_VALUE_SIZE
  Compression,     \* Config::compression
  FlushResults,    \* how building and reopening a file may end: "ok", "err"
  MaxWrites,       \* bound: puts and deletes that are let in
  Idle             \* no call yet

OpName == {"put", "delete", "get", "scan", "close"}

ASSUME StorageEngineAssumption ==
  /\ Calls \subseteq OpName
  /\ MaxMemtables \in Nat \ {0} /\ MaxLevels \in Nat \ {0}    \* Config::validate
  /\ MaxKeySize \in Nat /\ MaxValueSize \in Nat
  /\ Compression \in Compressed
  /\ FlushResults \subseteq {"ok", "err"}
  /\ MaxWrites \in Nat
  /\ Idle \notin Client

VARIABLES
  heap,                 \* every memtable object ever made; its index is its identity
  memtable,             \* the active one
  immutable_memtables,  \* rotated ones, oldest first
  sstables,             \* sstables[l]: the tables of level l, oldest first
  sequence_counter,
  closed,
  imm_lock,             \* the client that keeps the immutable list locked, or Idle
  pc,                   \* pc[c]: where client c is inside its call
  call,                 \* call[c]: its current or last call
  hand,                 \* hand[c]: memtables c took out of the shared state
  target,               \* target[c]: the memtable whose read lock a write of c holds
  taken,                \* taken[c]: the sequence number of that write
  acc,                  \* acc[c]: the rows a scan of c has collected
  answer,               \* answer[c]: the result of the last call
  latest,               \* history: latest[k] is the stamp of the newest write of k
  floor,                \* history: latest when the call of c began
  begun,                \* history: puts and deletes let in
  dropped               \* history: memtables whose flush failed

shared  == <<heap, memtable, immutable_memtables, sstables, sequence_counter, closed, imm_lock>>
private == <<pc, call, hand, target, taken, acc, answer>>
history == <<latest, floor, begun, dropped>>
vars == <<shared, private, history>>

Level == 0..(MaxLevels - 1)
Steps == {"idle", "check", "swap", "push", "flush", "limit", "sequence", "insert",
          "get", "get_imm", "get_sst", "scan", "scan_imm", "scan_sst",
          "drain", "drain_flush", "clone", "clone_flush"}
Request == [op : Calls, key : Key, val : Value \cup {None}, end : Key]
Answer == [tag : {"ok", "closed", "invalid", "read_only", "failed", "panic"},
           entry : Entry \cup {None}, rows : EntryMap]

Result(tag, e, rows) == [tag |-> tag, entry |-> e, rows |-> rows]
Ok == Result("ok", None, NoEntries)
Error(tag) == Result(tag, None, NoEntries)

Ids == 1..Len(heap)

TypeOK ==
  /\ heap \in Seq(MemTableRec)
  /\ memtable \in Ids
  /\ immutable_memtables \in Seq(Ids)
  /\ sstables \in [Level -> Seq(EntryMap)]
  /\ sequence_counter \in Nat
  /\ closed \in BOOLEAN
  /\ imm_lock \in Client \cup {Idle}
  /\ pc \in [Client -> Steps]
  /\ call \in [Client -> Request \cup {Idle}]
  /\ hand \in [Client -> Seq(Ids)]
  /\ target \in [Client -> Ids]
  /\ taken \in [Client -> Nat]
  /\ acc \in [Client -> EntryMap]
  /\ answer \in [Client -> Answer]
  /\ latest \in [Key -> Nat]
  /\ floor \in [Client -> [Key -> Nat]]
  /\ begun \in Nat
  /\ dropped \subseteq Ids

Init ==
  /\ heap = <<NewMemTable(0)>>
  /\ memtable = 1
  /\ immutable_memtables = <<>>
  /\ sstables = [l \in Level |-> <<>>]
  /\ sequence_counter = 1
  /\ closed = FALSE
  /\ imm_lock = Idle
  /\ pc = [c \in Client |-> "idle"]
  /\ call = [c \in Client |-> Idle]
  /\ hand = [c \in Client |-> <<>>]
  /\ target = [c \in Client |-> 1]
  /\ taken = [c \in Client |-> 0]
  /\ acc = [c \in Client |-> NoEntries]
  /\ answer = [c \in Client |-> Ok]
  /\ latest = [k \in Key |-> 0]
  /\ floor = [c \in Client |-> [k \in Key |-> 0]]
  /\ begun = 0
  /\ dropped = {}

-----------------------------------------------------------------------------
Goto(c, step) == pc' = [pc EXCEPT ![c] = step]

(* The call of c ends with result a.                                        *)
Return(c, a) ==
  /\ Goto(c, "idle")
  /\ answer' = [answer EXCEPT ![c] = a]

ImmUnlocked == imm_lock = Idle

(* The size checks of put, and those of delete, which has no value.         *)
Oversized(r) ==
  \/ r.op \in {"put", "delete"} /\ KeyLen[r.key] > MaxKeySize
  \/ r.op = "put" /\ ValueSize(r.val) > MaxValueSize

(* Mutant: close forgets the immutable list.                                *)
FirstStepSkipsDrain(op) == CASE op \in {"put", "delete"} -> "check"
                             [] op = "get"   -> "get"
                             [] op = "scan"  -> "scan"
                             [] op = "close" -> "clone"

(* The first step of each operation once its checks are passed.             *)
FirstStep(op) == CASE op \in {"put", "delete"} -> "check"
                   [] op = "get"   -> "get"
                   [] op = "scan"  -> "scan"
                   [] op = "close" -> "drain"

Begin(c, r) ==
  /\ pc[c] = "idle"
  /\ call' = [call EXCEPT ![c] = r]
  /\ floor' = [floor EXCEPT ![c] = latest]
  /\ UNCHANGED <<heap, memtable, immutable_memtables, sstables, sequence_counter,
                 imm_lock, hand, target, taken, acc, latest, dropped>>

(* put, delete, get and scan: is_closed and the size checks come first.     *)
Enter(c, r) ==
  /\ r.op # "close"
  /\ ~closed /\ ~Oversized(r)
  /\ r.op \in {"put", "delete"} => begun < MaxWrites
  /\ Begin(c, r)
  /\ begun' = IF r.op \in {"put", "delete"} THEN begun + 1 ELSE begun
  /\ Goto(c, FirstStep(r.op))
  /\ UNCHANGED <<closed, answer>>

Reject(c, r) ==
  /\ r.op # "close"
  /\ closed \/ Oversized(r)
  /\ Begin(c, r)
  /\ Return(c, Error(IF closed THEN "closed" ELSE "invalid"))
  /\ UNCHANGED <<closed, begun>>

(* close: swap the flag; only the first caller goes on.                     *)
BeginClose(c, r) ==
  /\ r.op = "close"
  /\ Begin(c, r)
  /\ closed' = TRUE
  /\ IF closed THEN Return(c, Ok)
               ELSE Goto(c, FirstStep(r.op)) /\ UNCHANGED answer
  /\ UNCHANGED begun

-----------------------------------------------------------------------------
(* check_rotate_memtable: the answer is read under a lock that is released  *)
(* before rotate_memtable takes it again.                                   *)
CheckRotate(c) ==
  /\ pc[c] = "check"
  /\ Goto(c, IF ShouldFlush(heap[memtable]) THEN "swap" ELSE "sequence")
  /\ UNCHANGED <<shared, call, hand, target, taken, acc, answer, history>>

(* Mutant: the write lock is granted while writes hold read locks.          *)
WriteLockAlways == TRUE

(* The write lock of the memtable can be had: no write holds a read lock.   *)
WriteLockFree == \A d \in Client : pc[d] # "insert"

(* rotate_memtable, under the write lock of the memtable.                   *)
RotateSwap(c) ==
  /\ pc[c] = "swap"
  /\ WriteLockFree
  /\ heap' = Append([heap EXCEPT ![memtable].immutable = TRUE],
                    NewMemTable(sequence_counter))
  /\ memtable' = Len(heap) + 1
  /\ hand' = [hand EXCEPT ![c] = <<memtable>>]
  /\ sequence_counter' = sequence_counter + 1
  /\ Goto(c, "push")
  /\ UNCHANGED <<immutable_memtables, sstables, closed, imm_lock, call, target, taken,
                 acc, answer, history>>

(* Mutants: the removed memtable is not flushed; it is flushed but stays in *)
(* the list; the list may grow one too long.                                *)
LimitForgets(c, immutable) ==
  /\ immutable_memtables' = IF Len(immutable) > MaxMemtables THEN Tail(immutable) ELSE immutable
  /\ hand' = [hand EXCEPT ![c] = <<>>]
  /\ Goto(c, "sequence")
LimitKeeps(c, immutable) ==
  /\ immutable_memtables' = immutable
  /\ hand' = [hand EXCEPT ![c] = IF Len(immutable) > MaxMemtables THEN <<Head(immutable)>> ELSE <<>>]
  /\ Goto(c, IF Len(immutable) > MaxMemtables THEN "flush" ELSE "sequence")
LimitOneMore(c, immutable) ==
  IF Len(immutable) > MaxMemtables + 1
  THEN /\ immutable_memtables' = Tail(immutable)
       /\ hand' = [hand EXCEPT ![c] = <<Head(immutable)>>]
       /\ Goto(c, "flush")
  ELSE /\ immutable_memtables' = immutable
       /\ hand' = [hand EXCEPT ![c] = <<>>]
       /\ Goto(c, "sequence")

(* The test of the while loop of rotate_memtable and, when the list is too  *)
(* long, the removal of its oldest memtable, under the list's write lock.   *)
Limit(c, immutable) ==
  IF Len(immutable) > MaxMemtables
  THEN /\ immutable_memtables' = Tail(immutable)
       /\ hand' = [hand EXCEPT ![c] = <<Head(immutable)>>]
       /\ Goto(c, "flush")
  ELSE /\ immutable_memtables' = immutable
       /\ hand' = [hand EXCEPT ![c] = <<>>]
       /\ Goto(c, "sequence")

(* Between RotateSwap and this step the old memtable is in no shared list.  *)
RotatePush(c) ==
  /\ pc[c] = "push"
  /\ ImmUnlocked
  /\ Limit(c, Append(immutable_memtables, hand[c][1]))
  /\ UNCHANGED <<heap, memtable, sstables, sequence_counter, closed, imm_lock, call,
                 target, taken, acc, answer, history>>

RotateAgain(c) ==
  /\ pc[c] = "limit"
  /\ ImmUnlocked
  /\ Limit(c, immutable_memtables)
  /\ UNCHANGED <<heap, memtable, sstables, sequence_counter, closed, imm_lock, call,
                 target, taken, acc, answer, history>>

-----------------------------------------------------------------------------
(* Mutant: a new table goes in front of the level instead of at its end.    *)
FlushToFront(m, r) ==
  /\ r \in (IF heap[m].count = 0 THEN {"ok"} ELSE FlushResults)
  /\ sstables' = IF r = "ok" /\ heap[m].count > 0
                 THEN [sstables EXCEPT ![0] = <<heap[m].data>> \o @] ELSE sstables
  /\ dropped' = IF r = "err" THEN dropped \cup {m} ELSE dropped

(* flush_memtable of memtable m ends with r: an empty memtable needs no     *)
(* file; otherwise the file is built and reopened and its reader is pushed  *)
(* to level 0, or an error is returned and m, in no list any more, is gone. *)
FlushMemtable(m, r) ==
  /\ r \in (IF heap[m].count = 0 THEN {"ok"} ELSE FlushResults)
  /\ sstables' = IF r = "ok" /\ heap[m].count > 0
                 THEN [sstables EXCEPT ![0] = Append(@, heap[m].data)] ELSE sstables
  /\ dropped' = IF r = "err" THEN dropped \cup {m} ELSE dropped

(* The flush of the memtable that rotate_memtable removed; an error is      *)
(* handed to the put or delete that rotated, which then writes nothing.     *)
Flush(c, r) ==
  /\ pc[c] = "flush"
  /\ FlushMemtable(hand[c][1], r)
  /\ hand' = [hand EXCEPT ![c] = <<>>]
  /\ IF r = "ok" THEN Goto(c, "limit") /\ UNCHANGED answer
                 ELSE Return(c, Error("failed"))
  /\ UNCHANGED <<heap, memtable, immutable_memtables, sequence_counter, closed, imm_lock,
                 call, target, taken, acc, latest, floor, begun>>

(* The end of put and delete takes a read lock of the memtable and calls    *)
(* MemTable::put or delete: the immutable flag and the sequence number ...  *)
TakeSequence(c) ==
  /\ pc[c] = "sequence"
  /\ IF heap[memtable].immutable
     THEN Return(c, Error("read_only")) /\ UNCHANGED <<heap, target, taken>>
     ELSE /\ target' = [target EXCEPT ![c] = memtable]
          /\ taken' = [taken EXCEPT ![c] = heap[memtable].next_sequence]
          /\ heap' = [heap EXCEPT ![memtable].next_sequence = @ + 1]
          /\ Goto(c, "insert") /\ UNCHANGED answer
  /\ UNCHANGED <<memtable, immutable_memtables, sstables, sequence_counter, closed,
                 imm_lock, call, hand, acc, history>>

(* ... and the insertion under the lock of the map.                         *)
Insert(c) ==
  /\ pc[c] = "insert"
  /\ LET k == call[c].key
         e == [val |-> call[c].val, sequence |-> taken[c], stamp |-> latest[k] + 1]
     IN /\ heap' = [heap EXCEPT ![target[c]] = PutEntry(@, k, e)]
        /\ latest' = [latest EXCEPT ![k] = @ + 1]
  /\ Return(c, Ok)
  /\ UNCHANGED <<memtable, immutable_memtables, sstables, sequence_counter, closed,
                 imm_lock, call, hand, target, taken, acc, floor, begun, dropped>>

-----------------------------------------------------------------------------
(* Mutant: a delete marker does not end the lookup.                         *)
FoundValueAt(found, i) ==
  LET passed == {None} \cup [val : {None}, sequence : Nat, stamp : Nat]
  IN found[i] \notin passed /\ \A j \in 1..(i - 1) : found[j] \in passed

(* A lookup goes through sources in order and stops at the first that has   *)
(* an entry, be it a delete marker, or that cannot be read.                 *)
FoundAt(found, i) == found[i] # None /\ \A j \in 1..(i - 1) : found[j] = None
FirstIn(found) ==
  IF \E i \in DOMAIN found : FoundAt(found, i)
  THEN found[CHOOSE i \in DOMAIN found : FoundAt(found, i)]
  ELSE None

(* The same; what the sources hold is looked up only once.                  *)
FirstFound(found) == CHOOSE e \in {FirstIn(f) : f \in {found}} : TRUE

(* Mutant: the immutable list is read oldest first.                         *)
LookupOldestFirst(key) ==
  FirstFound([i \in DOMAIN immutable_memtables |-> heap[immutable_memtables[i]].data[key]])

LookupImmutables(key) ==
  FirstFound([i \in DOMAIN immutable_memtables |->
                heap[Reverse(immutable_memtables)[i]].data[key]])

(* Level 0 newest first; a deeper level asks only the first table whose key *)
(* range has the key (find_sstable_for_key).                                *)
CoversKey(data, key) ==
  \E index \in {Built(data).index} : MinKeyOf(index) <= key /\ key <= MaxKeyOf(index)

LookupLevel(l, key) ==
  LET tables == sstables[l]
      asked  == {i \in DOMAIN tables :
                   CoversKey(tables[i], key) /\ \A j \in 1..(i - 1) : ~CoversKey(tables[j], key)}
  IN IF l = 0
     THEN FirstFound([i \in DOMAIN tables |-> TableGet(Reverse(tables)[i], key, Compression)])
     ELSE FirstFound([i \in DOMAIN tables |->
                        IF i \in asked THEN TableGet(tables[i], key, Compression) ELSE None])

LookupTables(key) == FirstFound([i \in 1..MaxLevels |-> LookupLevel(i - 1, key)])

(* get in its three critical sections: the memtable, the immutable list,    *)
(* the tables, which may not be readable.                                   *)
GetFrom(c, step, found, next) ==
  /\ pc[c] = step
  /\ \E e \in {found} :
       IF e # None \/ next = "idle"
       THEN Return(c, IF e = Unreadable THEN Error("failed") ELSE Result("ok", e, NoEntries))
       ELSE Goto(c, next) /\ UNCHANGED answer
  /\ UNCHANGED <<shared, call, hand, target, taken, acc, history>>

GetMemtable(c) == GetFrom(c, "get", heap[memtable].data[call[c].key], "get_imm")
GetImmutable(c) ==
  ImmUnlocked /\ GetFrom(c, "get_imm", LookupImmutables(call[c].key), "get_sst")
GetTables(c) == GetFrom(c, "get_sst", LookupTables(call[c].key), "idle")

-----------------------------------------------------------------------------
(* A source is indexed by a pair; sources are merged in the order of pairs. *)
Before(i, j) == i[1] < j[1] \/ (i[1] = j[1] /\ i[2] <= j[2])

(* Mutant: the first source that has the key wins.                          *)
WinsFirst(sources, k, i) ==
  /\ sources[i][k] # None
  /\ \A j \in DOMAIN sources : sources[j][k] # None => Before(i, j)

(* The rows that are left when sources are merged one after the other and   *)
(* an entry replaces the one found before only if its sequence number is    *)
(* higher.                                                                  *)
Wins(sources, k, i) ==
  /\ sources[i][k] # None
  /\ \A j \in DOMAIN sources : sources[j][k] # None =>
       \/ sources[j][k].sequence < sources[i][k].sequence
       \/ sources[j][k].sequence = sources[i][k].sequence /\ Before(i, j)
Merged(sources) ==
  [k \in Key |-> IF \E i \in DOMAIN sources : Wins(sources, k, i)
                 THEN sources[CHOOSE i \in DOMAIN sources : Wins(sources, k, i)][k]
                 ELSE None]

Keep(data, keys) == [k \in Key |-> IF k \in keys THEN data[k] ELSE None]

(* A map is scanned with BTreeMap::range, which panics on a reversed range. *)
ScanStep(c, step, panics, rows, next) ==
  /\ pc[c] = step
  /\ IF panics
     THEN Return(c, Error("panic")) /\ acc' = [acc EXCEPT ![c] = NoEntries]
     ELSE Goto(c, next) /\ acc' = [acc EXCEPT ![c] = rows] /\ UNCHANGED answer
  /\ UNCHANGED <<shared, call, hand, target, taken, history>>

ScannedMap(c, m) == Keep(heap[m].data, InRange(heap[m].data, call[c].key, call[c].end))

ScanMemtable(c) ==
  ScanStep(c, "scan", call[c].key > call[c].end, ScannedMap(c, memtable), "scan_imm")

WithCollected(c, maps) ==
  [i \in {<<-1, 0>>} \cup DOMAIN maps |-> IF i = <<-1, 0>> THEN acc[c] ELSE maps[i]]

ImmutableSources(c) ==
  WithCollected(c, [i \in {0} \X DOMAIN immutable_memtables |->
                      ScannedMap(c, Reverse(immutable_memtables)[i[2]])])

ScanImmutable(c) ==
  /\ ImmUnlocked
  /\ ScanStep(c, "scan_imm", FALSE, Merged(ImmutableSources(c)), "scan_sst")

(* Every table, level after level in the order of the lists.                *)
TableIndex == UNION {{l} \X DOMAIN sstables[l] : l \in Level}
RangeOf(c, i) == TableRange(sstables[i[1]][i[2]], call[c].key, call[c].end, Compression)
TableSources(c) ==
  WithCollected(c, [i \in TableIndex |-> Keep(sstables[i[1]][i[2]], RangeOf(c, i).keys)])

(* The answer leaves out the delete markers; collected as an empty value,   *)
(* they cannot be told from a value that is empty.                          *)
NonEmpty(rows) == {k \in KeysOf(rows) : ValueSize(rows[k].val) > 0}

(* The tables that cannot be read, or at which range panics: the first of   *)
(* them ends the scan.                                                      *)
Stops(c) == {i \in TableIndex : \E r \in {RangeOf(c, i)} : r.fails \/ r.panic}

ScanTables(c) ==
  /\ pc[c] = "scan_sst"
  /\ LET stops == Stops(c)
         fails == \E i \in stops : RangeOf(c, i).fails /\ \A j \in stops : Before(i, j)
         rows  == Merged(TableSources(c))
     IN Return(c, IF fails THEN Error("failed")
                  ELSE IF stops # {} THEN Error("panic")
                  ELSE Result("ok", None, Keep(rows, NonEmpty(rows))))
  /\ acc' = [acc EXCEPT ![c] = NoEntries]
  /\ UNCHANGED <<shared, call, hand, target, taken, history>>

-----------------------------------------------------------------------------
(* close takes the write lock of the immutable list, empties it ...         *)
CloseDrain(c) ==
  /\ pc[c] = "drain"
  /\ ImmUnlocked
  /\ hand' = [hand EXCEPT ![c] = immutable_memtables]
  /\ immutable_memtables' = <<>>
  /\ IF immutable_memtables = <<>>
     THEN Goto(c, "clone") /\ UNCHANGED imm_lock
     ELSE Goto(c, "drain_flush") /\ imm_lock' = c
  /\ UNCHANGED <<heap, memtable, sstables, sequence_counter, closed, call, target, taken,
                 acc, answer, history>>

(* Mutant: the lock is kept when the last memtable is flushed.              *)
DrainKeepsLock(c) ==
  /\ UNCHANGED imm_lock
  /\ IF Len(hand[c]) = 1 THEN Goto(c, "clone") ELSE UNCHANGED pc

DrainNext(c) == IF Len(hand[c]) = 1 THEN Goto(c, "clone") /\ imm_lock' = Idle
                                    ELSE UNCHANGED <<pc, imm_lock>>

(* ... and flushes the memtables oldest first, only printing an error; the  *)
(* lock is released after the last one.                                     *)
DrainFlush(c, r) ==
  /\ pc[c] = "drain_flush"
  /\ FlushMemtable(hand[c][1], r)
  /\ hand' = [hand EXCEPT ![c] = Tail(@)]
  /\ DrainNext(c)
  /\ UNCHANGED <<heap, memtable, immutable_memtables, sequence_counter, closed, call,
                 target, taken, acc, answer, latest, floor, begun>>

(* The active memtable is cloned under a read lock, which does not keep out *)
(* the writes that hold one too, and the clone is frozen and flushed.  The  *)
(* memtable itself stays in place and is not frozen.                        *)
CloseClone(c) ==
  /\ pc[c] = "clone"
  /\ IF heap[memtable].count = 0
     THEN Return(c, Ok) /\ UNCHANGED <<heap, hand>>
     ELSE /\ heap' = Append(heap, [heap[memtable] EXCEPT !.immutable = TRUE])
          /\ hand' = [hand EXCEPT ![c] = <<Len(heap) + 1>>]
          /\ Goto(c, "clone_flush") /\ UNCHANGED answer
  /\ UNCHANGED <<memtable, immutable_memtables, sstables, sequence_counter, closed,
                 imm_lock, call, target, taken, acc, history>>

CloseFlush(c, r) ==
  /\ pc[c] = "clone_flush"
  /\ FlushMemtable(hand[c][1], r)
  /\ hand' = [hand EXCEPT ![c] = <<>>]
  /\ Return(c, Ok)
  /\ UNCHANGED <<heap, memtable, immutable_memtables, sequence_counter, closed, imm_lock,
                 call, target, taken, acc, latest, floor, begun>>

-----------------------------------------------------------------------------
(* The calls a client can make; arguments an operation does not have are    *)
(* fixed.                                                                   *)
AnyKey == CHOOSE k \in Key : TRUE
Requests ==
  {r \in Request : /\ r.val # None <=> r.op = "put"
                   /\ r.op # "scan" => r.end = AnyKey
                   /\ r.op = "close" => r.key = AnyKey}

(* Steps that wait for a lock that is kept across steps, and the others.    *)
LockStep(c) == RotateSwap(c) \/ RotatePush(c) \/ RotateAgain(c) \/ GetImmutable(c)
                 \/ ScanImmutable(c) \/ CloseDrain(c)
FlushStep(c) == \E r \in FlushResults \cup {"ok"} :
                  Flush(c, r) \/ DrainFlush(c, r) \/ CloseFlush(c, r)
FreeStep(c) == CheckRotate(c) \/ TakeSequence(c) \/ Insert(c) \/ GetMemtable(c)
                 \/ GetTables(c) \/ ScanMemtable(c) \/ ScanTables(c) \/ CloseClone(c)
Invoke(c) == \E r \in Requests : Enter(c, r) \/ Reject(c, r) \/ BeginClose(c, r)

Next == \E c \in Client : Invoke(c) \/ LockStep(c) \/ FlushStep(c) \/ FreeStep(c)

Spec == Init /\ [][Next]_vars

(* The runtime keeps running a task that can run, and the locks, which are  *)
(* eventually fair, are granted to a task that waits.                       *)
Fairness == \A c \in Client :
              WF_vars(FreeStep(c)) /\ WF_vars(FlushStep(c)) /\ SF_vars(LockStep(c))

FairSpec == Spec /\ Fairness

-----------------------------------------------------------------------------
StampOf(e) == IF e = None THEN 0 ELSE e.stamp

(* The memtables that something still refers to, and the maps of all the    *)
(* places where an entry can be.                                            *)
InHand(c) == {hand[c][i] : i \in DOMAIN hand[c]}
Listed == {immutable_memtables[i] : i \in DOMAIN immutable_memtables}
Memtables == {memtable} \cup Listed \cup UNION {InHand(c) : c \in Client}
Held(k, stamp) ==
  \/ \E m \in Memtables \cup dropped : StampOf(heap[m].data[k]) = stamp
  \/ \E i \in TableIndex : StampOf(sstables[i[1]][i[2]][k]) = stamp

(* No write is lost on its way from the memtable to level 0, whatever the   *)
(* clients do meanwhile: the newest entry of every key that was written is  *)
(* in the memtable, the immutable list, the hands of a task that rotates or *)
(* closes, or a table; or a flush of its memtable failed.                   *)
NothingLost == \A k \in Key : latest[k] > 0 => Held(k, latest[k])

(* "limit number of immutable memtables": the list never outgrows the       *)
(* configured length, although several clients push and evict at once.      *)
ImmutablesBounded == Len(immutable_memtables) <= MaxMemtables

(* A memtable is in one place at a time, so that it is flushed at most once *)
(* and never while it still takes writes.                                   *)
HeldOnce ==
  /\ \A c \in Client : InHand(c) \cap ({memtable} \cup Listed) = {}
  /\ \A c, d \in Client : c # d => InHand(c) \cap InHand(d) = {}
  /\ memtable \notin Listed
  /\ \A i, j \in DOMAIN immutable_memtables :
       i # j => immutable_memtables[i] # immutable_memtables[j]
  /\ \A c \in Client : \A i, j \in DOMAIN hand[c] : i # j => hand[c][i] # hand[c][j]

(* A memtable that was rotated out, or cloned by close, never changes       *)
(* again, although writers run during the swap: what is flushed is what     *)
(* readers saw in the list.                                                 *)
Frozen == [][\A m \in DOMAIN heap : heap[m].immutable => heap'[m] = heap[m]]_vars

(* The order in which a lookup asks: the memtable, the immutable list and   *)
(* level 0, "newest first".                                                 *)
ReadOrder ==
  <<heap[memtable].data>>
    \o [i \in DOMAIN immutable_memtables |-> heap[Reverse(immutable_memtables)[i]].data]
    \o Reverse(sstables[0])

(* Of two entries of a key, a lookup meets the newer one first.             *)
NewestFirst ==
  LET order == ReadOrder
  IN \A i, j \in DOMAIN order, k \in Key :
       i < j /\ order[i][k] # None /\ order[j][k] # None
         => order[i][k].stamp >= order[j][k].stamp

Answered(c, op) == pc[c] = "idle" /\ call[c] # Idle /\ call[c].op = op /\ answer[c].tag = "ok"

(* A get never answers with less than what the key held when it was called: *)
(* what a put wrote is there for every get that begins after it.            *)
GetIsFresh ==
  \A c \in Client : Answered(c, "get") =>
    StampOf(answer[c].entry) >= floor[c][call[c].key]

(* The same where flushes may fail: a get misses what the key held only if  *)
(* that was in a memtable whose flush failed.                               *)
GetFindsWhatIsLeft ==
  \A c \in Client : Answered(c, "get") =>
    \A k \in {call[c].key} :
      \/ StampOf(answer[c].entry) >= floor[c][k]
      \/ \E m \in dropped : StampOf(heap[m].data[k]) = floor[c][k]

(* The rows of a scan are not older than what their keys held when it was   *)
(* called.                                                                  *)
ScanReturnsNewest ==
  \A c \in Client : Answered(c, "scan") =>
    \A k \in KeysOf(answer[c].rows) : answer[c].rows[k].stamp >= floor[c][k]

(* A scan reads the memtable, the list and the tables one after the other,  *)
(* and other tasks run in between.  It answers for every key of its range   *)
(* with an entry of the highest sequence number among all that the engine   *)
(* holds of the key, or with no row if that entry is a delete marker or an  *)
(* empty value, and with nothing else.                                      *)
EntriesOf(k) ==
  ({ReadOrder[i][k] : i \in DOMAIN ReadOrder}
     \cup {sstables[i[1]][i[2]][k] : i \in TableIndex}) \ {None}
Highest(k) ==
  {top \in EntriesOf(k) : \A e \in EntriesOf(k) : e.sequence <= top.sequence}
RowFor(e) == IF ValueSize(e.val) > 0 THEN e ELSE None
RowsOf(c, k) ==
  IF k \in call[c].key..(call[c].end - 1) /\ EntriesOf(k) # {}
  THEN {RowFor(top) : top \in Highest(k)} ELSE {None}
ScanTakesHighest ==
  [][\A c \in Client : pc[c] = "scan_sst" /\ pc'[c] = "idle" /\ answer'[c].tag = "ok" =>
       \A k \in Key : answer'[c].rows[k] \in RowsOf(c, k)]_vars

(* When close has returned and nothing runs, the newest entry of every key  *)
(* is in a table, or the flush of its memtable failed.                      *)
ClosePersists ==
  closed /\ (\A c \in Client : pc[c] = "idle") =>
    \A k \in Key : latest[k] > 0 =>
      \/ \E i \in TableIndex : StampOf(sstables[i[1]][i[2]][k]) = latest[k]
      \/ \E m \in dropped : StampOf(heap[m].data[k]) = latest[k]

(* Every call returns: nobody waits for ever for the memtable or for the    *)
(* immutable list, not even while close keeps the list locked.              *)
CallsReturn == \A c \in Client : pc[c] # "idle" ~> pc[c] = "idle"
=============================================================================
