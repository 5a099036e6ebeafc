------------------------ MODULE StorageEngineProofs ------------------------
(***************************************************************************)
(* Theorems about StorageEngine for every number of clients, every set of  *)
(* keys and values, every bound and every way a flush may end; and that    *)
(* one client, whose flushes may fail, sees the map of KVStore.            *)
(***************************************************************************)
EXTENDS EngineRefinement, SSTableProofs

-----------------------------------------------------------------------------
(* Sequences and arithmetic.                                                *)
LEMMA SeqGrows ==
  ASSUME NEW S, NEW T, S \subseteq T, NEW s \in Seq(S)
  PROVE  s \in Seq(T)
OBVIOUS

LEMMA SeqUpdate ==
  ASSUME NEW S, NEW s \in Seq(S), NEW i \in 1..Len(s), NEW v \in S
  PROVE  /\ [s EXCEPT ![i] = v] \in Seq(S)
         /\ Len([s EXCEPT ![i] = v]) = Len(s)
         /\ [s EXCEPT ![i] = v][i] = v
         /\ \A j \in 1..Len(s) : j # i => [s EXCEPT ![i] = v][j] = s[j]
OBVIOUS

LEMMA TailEmpty ==
  ASSUME NEW S, NEW s \in Seq(S), s # <<>>
  PROVE  Len(s) = 1 <=> Tail(s) = <<>>
<1>1. Tail(s) \in Seq(S) /\ Len(Tail(s)) = Len(s) - 1 /\ Len(s) \in Nat
  BY HeadTailProperties, LenProperties
<1>2. Tail(s) = <<>> => Len(Tail(s)) = 0
  BY EmptySeq
<1>3. Tail(s) # <<>> => Len(Tail(s)) # 0
  BY <1>1, EmptySeq
<1> QED
  BY <1>1, <1>2, <1>3

LEMMA ReverseElement ==
  ASSUME NEW S, NEW s \in Seq(S), NEW i \in DOMAIN s
  PROVE  Reverse(s)[i] \in S
BY DEF Reverse

-----------------------------------------------------------------------------
(* The operators the engine is built from return what their names say.      *)
LEMMA FirstFoundType ==
  ASSUME NEW found, NEW S, \A i \in DOMAIN found : found[i] \in S \cup {None}
  PROVE  FirstFound(found) \in S \cup {None}
<1>1. FirstIn(found) \in S \cup {None}
  BY DEF FirstIn
<1>2. FirstFound(found) = FirstIn(found)
  BY DEF FirstFound
<1> QED BY <1>1, <1>2

LEMMA MergedType ==
  ASSUME NEW sources, \A i \in DOMAIN sources : sources[i] \in EntryMap
  PROVE  Merged(sources) \in EntryMap
BY DEF Merged, EntryMap

LEMMA KeepType ==
  ASSUME NEW data \in EntryMap, NEW keys
  PROVE  Keep(data, keys) \in EntryMap
BY DEF Keep, EntryMap

(* What a lookup may come back with: an entry or the error of a reader.     *)
Findable == Entry \cup {Unreadable}

LEMMA TableGetType ==
  ASSUME NEW data \in EntryMap, NEW k \in Key, NEW compression
  PROVE  TableGet(data, k, compression) \in Findable \cup {None}
<1>1. PICK b : b = Built(data)
  OBVIOUS
<1>2. data[k] \in Entry \cup {None}
  BY DEF EntryMap
<1>3. GetIn(b, data, k, compression) \in {None, Unreadable, data[k]}
  BY DEF GetIn
<1> QED
  BY <1>1, <1>2, <1>3, TableGetIs DEF Findable

-----------------------------------------------------------------------------
(* What every step needs to know besides the types: where a client inside a *)
(* call can be, what it can have in its hands, and that a memtable counted  *)
(* empty is empty.                                                          *)
InCall(c) == pc[c] # "idle" => call[c] \in Request
HandShape(c) ==
  /\ hand[c] # <<>> => pc[c] \in {"push", "flush", "drain_flush", "clone_flush"}
  /\ pc[c] \in {"push", "flush", "clone_flush"} => Len(hand[c]) = 1
  /\ pc[c] = "drain_flush" => hand[c] # <<>>
WritesActive(c) == pc[c] = "insert" => target[c] = memtable
ActiveMutable == ~heap[memtable].immutable
CountZeroIsEmpty == \A m \in Ids : heap[m].count = 0 => heap[m].data = NoEntries

Shape ==
  /\ TypeOK
  /\ \A c \in Client : InCall(c) /\ HandShape(c) /\ WritesActive(c)
  /\ ActiveMutable
  /\ CountZeroIsEmpty

LEMMA NoEntriesType == NoEntries \in EntryMap
BY DEF NoEntries, EntryMap

LEMMA ErrorType ==
  ASSUME NEW t \in {"ok", "closed", "invalid", "read_only", "failed", "panic"},
         NEW e \in Entry \cup {None}, NEW rows \in EntryMap
  PROVE  Result(t, e, rows) \in Answer
BY DEF Result, Answer

LEMMA OkType == Ok \in Answer
BY NoEntriesType, ErrorType DEF Ok

LEMMA InitShape == Init => Shape
<1> SUFFICES ASSUME Init PROVE Shape
  OBVIOUS
<1> DEFINE m == NewMemTable(0)
<1>0. m \in MemTableRec /\ m.data = NoEntries /\ m.immutable = FALSE
  BY NewMemTableType
<1> HIDE DEF m
<1>1. /\ Len(heap) = 1 /\ Ids = {1}
      /\ heap[1] \in MemTableRec /\ heap \in Seq(MemTableRec)
      /\ heap[1].data = NoEntries /\ ~heap[1].immutable
  BY <1>0 DEF Init, Ids, m
<1>2. sstables \in [Level -> Seq(EntryMap)]
  BY DEF Init
<1>3. hand \in [Client -> Seq(Ids)] /\ immutable_memtables \in Seq(Ids)
  BY DEF Init
<1>4. acc \in [Client -> EntryMap] /\ answer \in [Client -> Answer]
  BY NoEntriesType, OkType DEF Init
<1>5. pc \in [Client -> Steps] /\ call \in [Client -> Request \cup {Idle}]
  BY DEF Init, Steps
<1>6. TypeOK
  BY <1>1, <1>2, <1>3, <1>4, <1>5 DEF Init, TypeOK
<1> QED
  BY <1>1, <1>6 DEF Init, Shape, InCall, HandShape, WritesActive, ActiveMutable, CountZeroIsEmpty

(* A step that leaves the memtables alone.                                  *)
LEMMA SameHeap ==
  ASSUME Shape, UNCHANGED <<heap, memtable>>, TypeOK',
         \A c \in Client : InCall(c)' /\ HandShape(c)' /\ WritesActive(c)'
  PROVE  Shape'
BY DEF Shape, ActiveMutable, CountZeroIsEmpty, Ids

LEMMA RequestsType == Requests \subseteq Request
BY DEF Requests

LEMMA EnterShape ==
  ASSUME Shape, NEW c \in Client, NEW r \in Request, Enter(c, r)
  PROVE  Shape'
<1>1. FirstStep(r.op) \in Steps /\ FirstStep(r.op) \in {"check", "get", "scan", "drain"}
  <2>1. r.op \in {"put", "delete", "get", "scan"}
    BY StorageEngineAssumption DEF Enter, Request, OpName
  <2>2. CASE r.op \in {"put", "delete"}
    BY <2>2 DEF FirstStep, Steps
  <2>3. CASE r.op = "get"
    BY <2>3 DEF FirstStep, Steps
  <2>4. CASE r.op = "scan"
    BY <2>4 DEF FirstStep, Steps
  <2> QED
    BY <2>1, <2>2, <2>3, <2>4
<1>2. TypeOK'
  BY <1>1 DEF Shape, TypeOK, Enter, Begin, Goto, Ids
<1>3. \A d \in Client : InCall(d)' /\ HandShape(d)' /\ WritesActive(d)'
  BY <1>1, <1>2 DEF Shape, TypeOK, Enter, Begin, Goto, InCall, HandShape, WritesActive
<1> QED
  BY <1>2, <1>3, SameHeap DEF Enter, Begin

LEMMA RejectShape ==
  ASSUME Shape, NEW c \in Client, NEW r \in Request, Reject(c, r)
  PROVE  Shape'
<1>1. Error(IF closed THEN "closed" ELSE "invalid") \in Answer
  BY ErrorType, NoEntriesType DEF Error
<1>2. TypeOK'
  BY <1>1 DEF Shape, TypeOK, Reject, Begin, Return, Goto, Ids, Steps
<1>3. \A d \in Client : InCall(d)' /\ HandShape(d)' /\ WritesActive(d)'
  BY DEF Shape, TypeOK, Reject, Begin, Return, Goto, InCall, HandShape, WritesActive
<1> QED
  BY <1>2, <1>3, SameHeap DEF Reject, Begin

LEMMA BeginCloseShape ==
  ASSUME Shape, NEW c \in Client, NEW r \in Request, BeginClose(c, r)
  PROVE  Shape'
<1>1. FirstStep(r.op) = "drain"
  BY DEF BeginClose, FirstStep
<1>2. TypeOK'
  BY <1>1, OkType, ZenonT(30) DEF Shape, TypeOK, BeginClose, Begin, Return, Goto, Ids, Steps
<1>3. \A d \in Client : InCall(d)' /\ HandShape(d)' /\ WritesActive(d)'
  BY <1>1 DEF Shape, TypeOK, BeginClose, Begin, Return, Goto, InCall, HandShape, WritesActive
<1> QED
  BY <1>2, <1>3, SameHeap DEF BeginClose, Begin

LEMMA CheckRotateShape ==
  ASSUME Shape, NEW c \in Client, CheckRotate(c)
  PROVE  Shape'
<1>1. TypeOK'
  BY DEF Shape, TypeOK, CheckRotate, Goto, Ids, Steps, shared, history
<1>2. \A d \in Client : InCall(d)' /\ HandShape(d)' /\ WritesActive(d)'
  BY DEF Shape, TypeOK, CheckRotate, Goto, InCall, HandShape, WritesActive, shared, history
<1> QED
  BY <1>1, <1>2, SameHeap DEF CheckRotate, shared

LEMMA RotateSwapShape ==
  ASSUME Shape, NEW c \in Client, RotateSwap(c)
  PROVE  Shape'
<1> DEFINE fresh == NewMemTable(sequence_counter)
           frozen == [heap[memtable] EXCEPT !.immutable = TRUE]
           old == [heap EXCEPT ![memtable] = frozen]
<1>1. /\ fresh \in MemTableRec /\ fresh.data = NoEntries
      /\ fresh.immutable = FALSE /\ fresh.count = 0
  BY NewMemTableType DEF Shape, TypeOK
<1>2. /\ heap \in Seq(MemTableRec) /\ memtable \in 1..Len(heap)
      /\ \A m \in 1..Len(heap) : heap[m] \in MemTableRec
  BY DEF Shape, TypeOK, Ids
<1>3. heap' = Append(old, fresh) /\ memtable' = Len(heap) + 1
  BY DEF RotateSwap
<1>4. /\ frozen \in MemTableRec
      /\ frozen.data = heap[memtable].data /\ frozen.count = heap[memtable].count
  BY <1>2, FreezeFacts
<1> HIDE DEF fresh, frozen
<1>a. /\ old \in Seq(MemTableRec) /\ Len(old) = Len(heap)
      /\ \A m \in Ids : old[m].data = heap[m].data /\ old[m].count = heap[m].count
  BY <1>2, <1>4, SeqUpdate DEF Ids
<1> HIDE DEF old
<1>b. /\ heap' \in Seq(MemTableRec) /\ Len(heap') = Len(heap) + 1
      /\ heap'[Len(heap) + 1] = fresh
      /\ \A m \in Ids : heap'[m] = old[m]
  BY <1>a, <1>1, <1>3, SeqAppend DEF Ids
<1>c. Ids' = Ids \cup {Len(heap) + 1}
  BY <1>2, <1>b DEF Ids
<1>5. TypeOK'
  BY <1>3, <1>b, <1>c, SeqGrows DEF Shape, TypeOK, RotateSwap, Goto, Steps, history
<1>6. \A d \in Client : InCall(d)' /\ HandShape(d)' /\ WritesActive(d)'
  BY DEF Shape, TypeOK, RotateSwap, WriteLockFree, Goto, InCall, HandShape, WritesActive
<1>7. ActiveMutable' /\ CountZeroIsEmpty'
  BY <1>1, <1>3, <1>a, <1>b, <1>c, ZenonT(30) DEF Shape, ActiveMutable, CountZeroIsEmpty
<1> QED
  BY <1>5, <1>6, <1>7 DEF Shape

(* Adding a memtable to the list and testing the length, for both places    *)
(* that do it.                                                              *)
LEMMA LimitShape ==
  ASSUME Shape, NEW c \in Client, NEW immutable \in Seq(Ids), Limit(c, immutable),
         pc[c] \in {"push", "limit"},
         UNCHANGED <<heap, memtable, sstables, sequence_counter, closed, imm_lock, call,
                     target, taken, acc, answer, history>>
  PROVE  Shape'
<1>0. Ids' = Ids
  BY DEF Ids
<1>1. CASE Len(immutable) > MaxMemtables
  <2>1. Head(immutable) \in Ids /\ Tail(immutable) \in Seq(Ids)
    BY <1>1, StorageEngineAssumption
  <2>2. TypeOK'
    <3>1. hand' = [hand EXCEPT ![c] = <<Head(immutable)>>]
      BY <1>1 DEF Limit
    <3>3. <<Head(immutable)>> \in Seq(Ids)
      BY <2>1
    <3>4. hand' \in [Client -> Seq(Ids)]
      BY <3>1, <3>3 DEF Shape, TypeOK
    <3>2. pc' \in [Client -> Steps]
      BY <1>1, ZenonT(30) DEF Shape, TypeOK, Limit, Goto, Steps
    <3> QED
      BY <1>0, <1>1, <2>1, <3>4, <3>2 DEF Shape, TypeOK, Limit, history
  <2>3. \A d \in Client : InCall(d)' /\ HandShape(d)' /\ WritesActive(d)'
    BY <1>1, <2>1 DEF Shape, TypeOK, Limit, Goto, InCall, HandShape, WritesActive
  <2> QED
    BY <2>2, <2>3, SameHeap
<1>2. CASE ~(Len(immutable) > MaxMemtables)
  <2>1. TypeOK'
    <3>1. hand' = [hand EXCEPT ![c] = <<>>]
      BY <1>2 DEF Limit
    <3>3. <<>> \in Seq(Ids)
      OBVIOUS
    <3>4. hand' \in [Client -> Seq(Ids)]
      BY <3>1, <3>3 DEF Shape, TypeOK
    <3>2. pc' \in [Client -> Steps]
      BY <1>2, ZenonT(30) DEF Shape, TypeOK, Limit, Goto, Steps
    <3> QED
      BY <1>0, <1>2, <3>4, <3>2 DEF Shape, TypeOK, Limit, history
  <2>2. \A d \in Client : InCall(d)' /\ HandShape(d)' /\ WritesActive(d)'
    BY <1>2 DEF Shape, TypeOK, Limit, Goto, InCall, HandShape, WritesActive
  <2> QED
    BY <2>1, <2>2, SameHeap
<1> QED
  BY <1>1, <1>2

LEMMA RotatePushShape ==
  ASSUME Shape, NEW c \in Client, RotatePush(c)
  PROVE  Shape'
<1>1. Append(immutable_memtables, hand[c][1]) \in Seq(Ids)
  BY DEF Shape, TypeOK, HandShape, RotatePush
<1> QED
  BY <1>1, LimitShape DEF RotatePush

LEMMA RotateAgainShape ==
  ASSUME Shape, NEW c \in Client, RotateAgain(c)
  PROVE  Shape'
BY LimitShape DEF RotateAgain, Shape, TypeOK

(* What flush_memtable returns and leaves behind has the right types.       *)
LEMMA FlushMemtableType ==
  ASSUME Shape, NEW m \in Ids, NEW r, FlushMemtable(m, r)
  PROVE  /\ sstables' \in [Level -> Seq(EntryMap)]
         /\ dropped' \subseteq Ids
<1>1. heap[m].data \in EntryMap
  <2>1. heap[m] \in MemTableRec
    BY DEF Shape, TypeOK, Ids
  <2> QED
    BY <2>1 DEF MemTableRec
<1>2. 0 \in Level
  BY StorageEngineAssumption DEF Level
<1> QED
  BY <1>1, <1>2 DEF FlushMemtable, Shape, TypeOK

LEMMA FlushShape ==
  ASSUME Shape, NEW c \in Client, NEW r, Flush(c, r)
  PROVE  Shape'
<1>1. hand[c][1] \in Ids
  BY DEF Shape, TypeOK, HandShape, Flush
<1>2. sstables' \in [Level -> Seq(EntryMap)] /\ dropped' \subseteq Ids
  BY <1>1, FlushMemtableType DEF Flush
<1>3. Error("failed") \in Answer
  BY ErrorType, NoEntriesType DEF Error
<1>4. TypeOK'
  <2>1. Ids' = Ids
    BY DEF Ids, Flush
  <2>2. hand' \in [Client -> Seq(Ids)]
    BY DEF Shape, TypeOK, Flush
  <2>3. pc' \in [Client -> Steps]
    BY ZenonT(30) DEF Shape, TypeOK, Flush, Return, Goto, Steps
  <2>4. answer' \in [Client -> Answer]
    BY <1>3 DEF Shape, TypeOK, Flush, Return
  <2> QED
    BY <1>2, <2>1, <2>2, <2>3, <2>4 DEF Shape, TypeOK, Flush
<1>5. \A d \in Client : InCall(d)' /\ HandShape(d)' /\ WritesActive(d)'
  BY DEF Shape, TypeOK, Flush, Return, Goto, InCall, HandShape, WritesActive
<1> QED
  BY <1>4, <1>5, SameHeap DEF Flush

(* The heap after a step that replaces one memtable by mt.                  *)
LEMMA HeapUpdate ==
  ASSUME Shape, NEW m \in Ids, NEW mt \in MemTableRec,
         heap' = [heap EXCEPT ![m] = mt]
  PROVE  /\ heap' \in Seq(MemTableRec) /\ Ids' = Ids
         /\ heap'[m] = mt
         /\ \A n \in Ids : n # m => heap'[n] = heap[n]
<1>1. heap \in Seq(MemTableRec) /\ m \in 1..Len(heap)
  BY DEF Shape, TypeOK, Ids
<1> QED
  BY <1>1, SeqUpdate DEF Ids

LEMMA TakeSequenceShape ==
  ASSUME Shape, NEW c \in Client, TakeSequence(c)
  PROVE  Shape'
<1> DEFINE mt == [heap[memtable] EXCEPT !.next_sequence = @ + 1]
<1>1. /\ heap[memtable] \in MemTableRec
      /\ memtable \in Ids
  BY DEF Shape, TypeOK, Ids
<1>2. /\ mt \in MemTableRec /\ heap[memtable].next_sequence \in Nat
      /\ mt.data = heap[memtable].data /\ mt.count = heap[memtable].count
      /\ mt.immutable = heap[memtable].immutable
  BY <1>1 DEF MemTableRec
<1>3. /\ heap' = [heap EXCEPT ![memtable] = mt]
      /\ target' = [target EXCEPT ![c] = memtable]
      /\ taken' = [taken EXCEPT ![c] = heap[memtable].next_sequence]
      /\ Goto(c, "insert") /\ UNCHANGED answer
  BY DEF TakeSequence, Shape, ActiveMutable
<1> HIDE DEF mt
<1>4. /\ heap' \in Seq(MemTableRec) /\ Ids' = Ids
      /\ heap'[memtable] = mt
      /\ \A n \in Ids : n # memtable => heap'[n] = heap[n]
  BY <1>1, <1>2, <1>3, HeapUpdate
<1>5. TypeOK'
  BY <1>1, <1>2, <1>3, <1>4 DEF Shape, TypeOK, TakeSequence, Goto, Steps, history
<1>6. \A d \in Client : InCall(d)' /\ HandShape(d)' /\ WritesActive(d)'
  BY <1>3 DEF Shape, TypeOK, TakeSequence, Goto, InCall, HandShape, WritesActive
<1>7. ActiveMutable' /\ CountZeroIsEmpty'
  BY <1>1, <1>2, <1>4 DEF TakeSequence, Shape, ActiveMutable, CountZeroIsEmpty
<1> QED
  BY <1>5, <1>6, <1>7 DEF Shape

LEMMA InsertShape ==
  ASSUME Shape, NEW c \in Client, Insert(c)
  PROVE  Shape'
<1> DEFINE k == call[c].key
           e == [val |-> call[c].val, sequence |-> taken[c], stamp |-> latest[k] + 1]
           mt == PutEntry(heap[memtable], k, e)
<1>1. /\ heap[memtable] \in MemTableRec
      /\ memtable \in Ids /\ target[c] = memtable
  BY DEF Shape, TypeOK, Ids, WritesActive, Insert
<1>2. k \in Key /\ e \in Entry /\ latest[k] + 1 \in Nat
  BY DEF Shape, TypeOK, InCall, Insert, Request, Entry
<1>3. /\ heap' = [heap EXCEPT ![memtable] = mt]
      /\ latest' = [latest EXCEPT ![k] = @ + 1]
  BY <1>1 DEF Insert
<1> HIDE DEF k, e
<1>4. heap[memtable].data[k] = None \/ heap[memtable].count # 0
  BY <1>1, <1>2 DEF Shape, CountZeroIsEmpty, NoEntries
<1>5. mt \in MemTableRec /\ mt.immutable = heap[memtable].immutable /\ mt.count # 0
  BY <1>1, <1>2, <1>4, PutEntryFacts
<1> HIDE DEF mt
<1>6. /\ heap' \in Seq(MemTableRec) /\ Ids' = Ids
      /\ heap'[memtable] = mt
      /\ \A n \in Ids : n # memtable => heap'[n] = heap[n]
  BY <1>1, <1>3, <1>5, HeapUpdate
<1>7. TypeOK'
  <2>1. latest' \in [Key -> Nat]
    BY <1>2, <1>3 DEF Shape, TypeOK
  <2>2. answer' \in [Client -> Answer]
    BY OkType DEF Shape, TypeOK, Insert, Return
  <2>3. pc' \in [Client -> Steps]
    BY DEF Shape, TypeOK, Insert, Return, Goto, Steps
  <2> QED
    BY <1>6, <2>1, <2>2, <2>3 DEF Shape, TypeOK, Insert
<1>8. \A d \in Client : InCall(d)' /\ HandShape(d)' /\ WritesActive(d)'
  BY DEF Shape, TypeOK, Insert, Return, Goto, InCall, HandShape, WritesActive
<1>9. ActiveMutable' /\ CountZeroIsEmpty'
  BY <1>1, <1>5, <1>6 DEF Insert, Shape, ActiveMutable, CountZeroIsEmpty
<1> QED
  BY <1>7, <1>8, <1>9 DEF Shape

(* The three steps of get.                                                  *)
LEMMA GetFromShape ==
  ASSUME Shape, NEW c \in Client, NEW found \in Findable \cup {None},
         NEW step \in Steps, NEW next \in {"get_imm", "get_sst", "idle"},
         step \in {"get", "get_imm", "get_sst"},
         GetFrom(c, step, found, next)
  PROVE  Shape'
<1>0. PICK a : a = IF found = Unreadable THEN Error("failed") ELSE Result("ok", found, NoEntries)
  OBVIOUS
<1>1. a \in Answer
  <2>1. Error("failed") \in Answer
    BY ErrorType, NoEntriesType DEF Error
  <2>2. found # Unreadable => Result("ok", found, NoEntries) \in Answer
    BY ErrorType, NoEntriesType DEF Findable
  <2> QED
    BY <1>0, <2>1, <2>2
<1>3. /\ pc[c] = step
      /\ \E q \in {"get_imm", "get_sst", "idle"} : pc' = [pc EXCEPT ![c] = q]
      /\ \/ answer' = [answer EXCEPT ![c] = a]
         \/ answer' = answer
  BY <1>0 DEF GetFrom, Return, Goto
<1>2. answer' \in [Client -> Answer] /\ pc' \in [Client -> Steps]
  <2>1. answer' \in [Client -> Answer]
    BY <1>1, <1>3 DEF Shape, TypeOK
  <2>2. pc' \in [Client -> Steps]
    BY <1>3 DEF Shape, TypeOK, Steps
  <2> QED
    BY <2>1, <2>2
<1>4. Ids' = Ids
  BY DEF GetFrom, shared, Ids
<1>5. TypeOK'
  BY <1>2, <1>4 DEF Shape, TypeOK, GetFrom, shared, history
<1>6. \A d \in Client : InCall(d)' /\ HandShape(d)' /\ WritesActive(d)'
  BY <1>3 DEF Shape, TypeOK, GetFrom, InCall, HandShape, WritesActive, shared
<1> QED
  BY <1>5, <1>6, SameHeap DEF GetFrom, shared

LEMMA GetShape ==
  ASSUME Shape, NEW c \in Client, GetMemtable(c) \/ GetImmutable(c) \/ GetTables(c)
  PROVE  Shape'
<1>1. \A m \in Ids : heap[m] \in MemTableRec
  BY DEF Shape, TypeOK, Ids
<1>2. \A m \in Ids, k \in Key : heap[m].data[k] \in Entry \cup {None}
  BY <1>1 DEF MemTableRec, EntryMap
<1>3. CASE GetMemtable(c)
  <2>1. heap[memtable].data[call[c].key] \in Findable \cup {None}
    BY <1>2, <1>3 DEF Shape, TypeOK, InCall, Request, GetMemtable, GetFrom, Findable
  <2> QED
    BY <1>3, <2>1, GetFromShape DEF GetMemtable, Steps
<1>4. CASE GetImmutable(c)
  <2>1. call[c].key \in Key
    BY <1>4 DEF Shape, InCall, Request, GetImmutable, GetFrom
  <2>2. \A i \in DOMAIN immutable_memtables :
          heap[Reverse(immutable_memtables)[i]].data[call[c].key] \in Findable \cup {None}
    BY <1>2, <2>1, ReverseElement DEF Shape, TypeOK, Findable
  <2>3. LookupImmutables(call[c].key) \in Findable \cup {None}
    BY <2>2, FirstFoundType DEF LookupImmutables
  <2> QED
    BY <1>4, <2>3, GetFromShape DEF GetImmutable, Steps
<1>5. CASE GetTables(c)
  <2>1. call[c].key \in Key
    BY <1>5 DEF Shape, InCall, Request, GetTables, GetFrom
  <2>2. \A l \in Level : LookupLevel(l, call[c].key) \in Findable \cup {None}
    <3> SUFFICES ASSUME NEW l \in Level
                 PROVE  LookupLevel(l, call[c].key) \in Findable \cup {None}
      OBVIOUS
    <3>1. sstables[l] \in Seq(EntryMap)
      BY DEF Shape, TypeOK
    <3>2. \A i \in DOMAIN sstables[l] :
            /\ TableGet(Reverse(sstables[l])[i], call[c].key, Compression) \in Findable \cup {None}
            /\ TableGet(sstables[l][i], call[c].key, Compression) \in Findable \cup {None}
      BY <2>1, <3>1, ReverseElement, TableGetType
    <3> QED
      BY <3>2, FirstFoundType DEF LookupLevel
  <2>3. LookupTables(call[c].key) \in Findable \cup {None}
    <3>1. \A i \in 1..MaxLevels : i - 1 \in Level
      BY StorageEngineAssumption DEF Level
    <3> QED
      BY <2>2, <3>1, FirstFoundType DEF LookupTables
  <2> QED
    BY <1>5, <2>3, GetFromShape DEF GetTables, Steps
<1> QED
  BY <1>3, <1>4, <1>5

(* The three steps of scan.                                                 *)
LEMMA CollectedType ==
  ASSUME Shape, NEW c \in Client, NEW sources,
         \A i \in DOMAIN sources : sources[i] \in EntryMap
  PROVE  Merged(WithCollected(c, sources)) \in EntryMap
<1>1. acc[c] \in EntryMap
  BY DEF Shape, TypeOK
<1>2. \A i \in DOMAIN WithCollected(c, sources) : WithCollected(c, sources)[i] \in EntryMap
  BY <1>1 DEF WithCollected
<1> QED
  BY <1>2, MergedType

LEMMA ScanStepShape ==
  ASSUME Shape, NEW c \in Client, NEW panics \in BOOLEAN, NEW rows \in EntryMap,
         NEW step \in {"scan", "scan_imm"}, NEW next \in {"scan_imm", "scan_sst"},
         ScanStep(c, step, panics, rows, next)
  PROVE  Shape'
<1>1. Error("panic") \in Answer
  BY ErrorType, NoEntriesType DEF Error
<1>2. /\ pc[c] = step
      /\ \E q \in {"scan_imm", "scan_sst", "idle"} : pc' = [pc EXCEPT ![c] = q]
      /\ \/ answer' = [answer EXCEPT ![c] = Error("panic")]
         \/ answer' = answer
      /\ \E a \in {rows, NoEntries} : acc' = [acc EXCEPT ![c] = a]
  BY DEF ScanStep, Return, Goto
<1>3. answer' \in [Client -> Answer]
  BY <1>1, <1>2 DEF Shape, TypeOK
<1>4. pc' \in [Client -> Steps]
  BY <1>2 DEF Shape, TypeOK, Steps
<1>5. acc' \in [Client -> EntryMap]
  BY <1>2, NoEntriesType DEF Shape, TypeOK
<1>6. Ids' = Ids
  BY DEF ScanStep, shared, Ids
<1>7. TypeOK'
  BY <1>3, <1>4, <1>5, <1>6 DEF Shape, TypeOK, ScanStep, shared, history
<1>8. \A d \in Client : InCall(d)' /\ HandShape(d)' /\ WritesActive(d)'
  BY <1>2 DEF Shape, TypeOK, ScanStep, InCall, HandShape, WritesActive, shared
<1> QED
  BY <1>7, <1>8, SameHeap DEF ScanStep, shared

LEMMA ScanMapsShape ==
  ASSUME Shape, NEW c \in Client, ScanMemtable(c) \/ ScanImmutable(c)
  PROVE  Shape'
<1>1. \A m \in Ids : ScannedMap(c, m) \in EntryMap
  <2>1. \A m \in Ids : heap[m] \in MemTableRec
    BY DEF Shape, TypeOK, Ids
  <2> QED
    BY <2>1, KeepType DEF ScannedMap, MemTableRec
<1>2. CASE ScanMemtable(c)
  <2>1. ScannedMap(c, memtable) \in EntryMap
    BY <1>1 DEF Shape, TypeOK
  <2>2. (call[c].key > call[c].end) \in BOOLEAN
    BY <1>2, LsmDataAssumption DEF Shape, InCall, Request, ScanMemtable, ScanStep
  <2> QED
    BY <1>2, <2>1, <2>2, ScanStepShape DEF ScanMemtable
<1>3. CASE ScanImmutable(c)
  <2> DEFINE maps == [i \in {0} \X DOMAIN immutable_memtables |->
                        ScannedMap(c, Reverse(immutable_memtables)[i[2]])]
  <2>1. \A i \in DOMAIN maps : maps[i] \in EntryMap
    BY <1>1, ReverseElement DEF Shape, TypeOK
  <2>2. Merged(ImmutableSources(c)) \in EntryMap
    BY <2>1, CollectedType DEF ImmutableSources
  <2> QED
    BY <1>3, <2>2, ScanStepShape DEF ScanImmutable
<1> QED
  BY <1>2, <1>3

LEMMA ScanTablesShape ==
  ASSUME Shape, NEW c \in Client, ScanTables(c)
  PROVE  Shape'
<1> DEFINE maps == [i \in TableIndex |-> Keep(sstables[i[1]][i[2]], RangeOf(c, i).keys)]
           rows == Merged(TableSources(c))
           sent == Keep(rows, NonEmpty(rows))
<1>1. \A i \in TableIndex : sstables[i[1]][i[2]] \in EntryMap
  BY DEF TableIndex, Shape, TypeOK
<1>2. \A i \in DOMAIN maps : maps[i] \in EntryMap
  BY <1>1, KeepType
<1>3. rows \in EntryMap
  BY <1>2, CollectedType DEF TableSources
<1>4. sent \in EntryMap
  BY <1>3, KeepType
<1>5. /\ Error("panic") \in Answer /\ Error("failed") \in Answer
      /\ Result("ok", None, sent) \in Answer
  BY <1>4, ErrorType, NoEntriesType DEF Error
<1>6. /\ pc[c] = "scan_sst" /\ pc' = [pc EXCEPT ![c] = "idle"]
      /\ \/ answer' = [answer EXCEPT ![c] = Error("panic")]
         \/ answer' = [answer EXCEPT ![c] = Error("failed")]
         \/ answer' = [answer EXCEPT ![c] = Result("ok", None, sent)]
      /\ acc' = [acc EXCEPT ![c] = NoEntries]
  BY DEF ScanTables, Return, Goto
<1>7. answer' \in [Client -> Answer]
  BY <1>5, <1>6 DEF Shape, TypeOK
<1>8. acc' \in [Client -> EntryMap] /\ pc' \in [Client -> Steps]
  BY <1>6, NoEntriesType DEF Shape, TypeOK, Steps
<1>9. Ids' = Ids
  BY DEF ScanTables, shared, Ids
<1>10. TypeOK'
  BY <1>7, <1>8, <1>9 DEF Shape, TypeOK, ScanTables, shared, history
<1>11. \A d \in Client : InCall(d)' /\ HandShape(d)' /\ WritesActive(d)'
  BY <1>6 DEF Shape, TypeOK, ScanTables, InCall, HandShape, WritesActive, shared
<1> QED
  BY <1>10, <1>11, SameHeap DEF ScanTables, shared

(* The steps of close.                                                      *)
LEMMA CloseDrainShape ==
  ASSUME Shape, NEW c \in Client, CloseDrain(c)
  PROVE  Shape'
<1>1. Ids' = Ids
  BY DEF CloseDrain, Ids
<1>2. hand' \in [Client -> Seq(Ids)] /\ immutable_memtables' \in Seq(Ids)
  BY DEF Shape, TypeOK, CloseDrain
<1>3. pc' \in [Client -> Steps] /\ imm_lock' \in Client \cup {Idle}
  BY DEF Shape, TypeOK, CloseDrain, Goto, Steps
<1>4. TypeOK'
  BY <1>1, <1>2, <1>3 DEF Shape, TypeOK, CloseDrain, history
<1>5. \A d \in Client : InCall(d)' /\ HandShape(d)' /\ WritesActive(d)'
  BY DEF Shape, TypeOK, CloseDrain, Goto, InCall, HandShape, WritesActive
<1> QED
  BY <1>4, <1>5, SameHeap DEF CloseDrain

LEMMA DrainFlushShape ==
  ASSUME Shape, NEW c \in Client, NEW r, DrainFlush(c, r)
  PROVE  Shape'
<1>1. /\ hand[c] \in Seq(Ids) /\ hand[c] # <<>>
      /\ hand' = [hand EXCEPT ![c] = Tail(hand[c])]
  BY DEF Shape, TypeOK, HandShape, DrainFlush
<1>2. hand[c][1] \in Ids /\ Tail(hand[c]) \in Seq(Ids)
  BY <1>1
<1>3. sstables' \in [Level -> Seq(EntryMap)] /\ dropped' \subseteq Ids
  BY <1>2, FlushMemtableType DEF DrainFlush
<1>4. Ids' = Ids
  BY DEF DrainFlush, Ids
<1>5. hand' \in [Client -> Seq(Ids)]
  BY <1>1, <1>2 DEF Shape, TypeOK
<1>6. pc' \in [Client -> Steps] /\ imm_lock' \in Client \cup {Idle}
  BY DEF Shape, TypeOK, DrainFlush, DrainNext, Goto, Steps
<1>7. TypeOK'
  BY <1>3, <1>4, <1>5, <1>6 DEF Shape, TypeOK, DrainFlush
<1>a. Len(hand[c]) = 1 <=> Tail(hand[c]) = <<>>
  BY <1>1, TailEmpty
<1>8. \A d \in Client : InCall(d)' /\ HandShape(d)' /\ WritesActive(d)'
  BY <1>1, <1>a DEF Shape, TypeOK, DrainFlush, DrainNext, Goto, InCall, HandShape, WritesActive
<1> QED
  BY <1>7, <1>8, SameHeap DEF DrainFlush

LEMMA CloseFlushShape ==
  ASSUME Shape, NEW c \in Client, NEW r, CloseFlush(c, r)
  PROVE  Shape'
<1>1. hand[c][1] \in Ids
  BY DEF Shape, TypeOK, HandShape, CloseFlush
<1>2. sstables' \in [Level -> Seq(EntryMap)] /\ dropped' \subseteq Ids
  BY <1>1, FlushMemtableType DEF CloseFlush
<1>3. Ids' = Ids
  BY DEF CloseFlush, Ids
<1>4. hand' \in [Client -> Seq(Ids)]
  BY DEF Shape, TypeOK, CloseFlush
<1>5. pc' \in [Client -> Steps]
  BY DEF Shape, TypeOK, CloseFlush, Return, Goto, Steps
<1>6. answer' \in [Client -> Answer]
  BY OkType DEF Shape, TypeOK, CloseFlush, Return
<1>7. TypeOK'
  BY <1>2, <1>3, <1>4, <1>5, <1>6 DEF Shape, TypeOK, CloseFlush
<1>8. \A d \in Client : InCall(d)' /\ HandShape(d)' /\ WritesActive(d)'
  BY DEF Shape, TypeOK, CloseFlush, Return, Goto, InCall, HandShape, WritesActive
<1> QED
  BY <1>7, <1>8, SameHeap DEF CloseFlush

LEMMA CloseCloneShape ==
  ASSUME Shape, NEW c \in Client, CloseClone(c)
  PROVE  Shape'
<1>1. CASE heap[memtable].count = 0
  <2>1. UNCHANGED <<heap, memtable, hand>> /\ Ids' = Ids
    BY <1>1 DEF CloseClone, Ids
  <2>2. pc' \in [Client -> Steps] /\ answer' \in [Client -> Answer]
    BY <1>1, OkType DEF Shape, TypeOK, CloseClone, Return, Goto, Steps
  <2>3. TypeOK'
    BY <1>1, <2>1, <2>2 DEF Shape, TypeOK, CloseClone, history
  <2>4. \A d \in Client : InCall(d)' /\ HandShape(d)' /\ WritesActive(d)'
    BY <1>1 DEF Shape, TypeOK, CloseClone, Return, Goto, InCall, HandShape, WritesActive
  <2> QED
    BY <2>1, <2>3, <2>4, SameHeap
<1>2. CASE heap[memtable].count # 0
  <2> DEFINE clone == [heap[memtable] EXCEPT !.immutable = TRUE]
  <2>1. /\ heap' = Append(heap, clone)
        /\ hand' = [hand EXCEPT ![c] = <<Len(heap) + 1>>]
        /\ pc' = [pc EXCEPT ![c] = "clone_flush"] /\ UNCHANGED answer
    BY <1>2 DEF CloseClone, Goto
  <2>2. heap \in Seq(MemTableRec) /\ memtable \in 1..Len(heap)
    BY DEF Shape, TypeOK, Ids
  <2>3. heap[memtable] \in MemTableRec
    BY <2>2
  <2>4. clone \in MemTableRec /\ clone.data = heap[memtable].data
        /\ clone.count = heap[memtable].count
    BY <2>3, FreezeFacts
  <2> HIDE DEF clone
  <2>5. /\ heap' \in Seq(MemTableRec) /\ Len(heap') = Len(heap) + 1
        /\ heap'[Len(heap) + 1] = clone
        /\ \A m \in Ids : heap'[m] = heap[m]
    BY <2>1, <2>2, <2>4, SeqAppend DEF Ids
  <2>6. Ids' = Ids \cup {Len(heap) + 1}
    BY <2>2, <2>5 DEF Ids
  <2>7. hand' \in [Client -> Seq(Ids')]
    <3>1. \A d \in Client : hand[d] \in Seq(Ids')
      BY <2>6, SeqGrows DEF Shape, TypeOK
    <3>2. <<Len(heap) + 1>> \in Seq(Ids')
      BY <2>6
    <3> QED
      BY <2>1, <3>1, <3>2 DEF Shape, TypeOK
  <2>8. pc' \in [Client -> Steps]
    BY <2>1 DEF Shape, TypeOK, Steps
  <2>9. immutable_memtables' \in Seq(Ids')
    BY <2>6, SeqGrows DEF Shape, TypeOK, CloseClone
  <2>10. TypeOK'
    BY <2>1, <2>5, <2>6, <2>7, <2>8, <2>9 DEF Shape, TypeOK, CloseClone, history
  <2>11. \A d \in Client : InCall(d)' /\ HandShape(d)' /\ WritesActive(d)'
    BY <2>1 DEF Shape, TypeOK, CloseClone, InCall, HandShape, WritesActive
  <2>12. ActiveMutable' /\ CountZeroIsEmpty'
    BY <1>2, <2>4, <2>5, <2>6 DEF CloseClone, Shape, TypeOK, ActiveMutable, CountZeroIsEmpty
  <2> QED
    BY <2>10, <2>11, <2>12 DEF Shape
<1> QED
  BY <1>1, <1>2

LEMMA NextShape == Shape /\ [Next]_vars => Shape'
<1> SUFFICES ASSUME Shape, [Next]_vars PROVE Shape'
  OBVIOUS
<1>1. CASE UNCHANGED vars
  <2>1. UNCHANGED <<heap, memtable>> /\ Ids' = Ids
    BY <1>1 DEF vars, shared, Ids
  <2>2. TypeOK'
    BY <1>1, <2>1 DEF Shape, TypeOK, vars, shared, private, history
  <2>3. \A d \in Client : InCall(d)' /\ HandShape(d)' /\ WritesActive(d)'
    BY <1>1 DEF Shape, vars, shared, private, InCall, HandShape, WritesActive
  <2> QED
    BY <2>1, <2>2, <2>3, SameHeap
<1>2. ASSUME NEW c \in Client, Invoke(c) PROVE Shape'
  BY <1>2, EnterShape, RejectShape, BeginCloseShape, RequestsType DEF Invoke
<1>3. ASSUME NEW c \in Client, LockStep(c) PROVE Shape'
  BY <1>3, RotateSwapShape, RotatePushShape, RotateAgainShape, GetShape, ScanMapsShape,
     CloseDrainShape DEF LockStep
<1>4. ASSUME NEW c \in Client, FlushStep(c) PROVE Shape'
  BY <1>4, FlushShape, DrainFlushShape, CloseFlushShape DEF FlushStep
<1>5. ASSUME NEW c \in Client, FreeStep(c) PROVE Shape'
  BY <1>5, CheckRotateShape, TakeSequenceShape, InsertShape, GetShape, ScanMapsShape,
     ScanTablesShape, CloseCloneShape DEF FreeStep
<1> QED
  BY <1>1, <1>2, <1>3, <1>4, <1>5 DEF Next

(* The shape of the state is kept by every step.                            *)
THEOREM ShapeInvariant == Spec => []Shape
<1>1. Init => Shape
  BY InitShape
<1>2. Shape /\ [Next]_vars => Shape'
  BY NextShape
<1> QED
  BY <1>1, <1>2, PTL DEF Spec

(* Every variable keeps its type: memtable ids stay valid, sequences keep   *)
(* their elements, entries and rows stay entries.                           *)
THEOREM TypeCorrect == Spec => []TypeOK
<1>1. Shape => TypeOK
  BY DEF Shape
<1> QED
  BY <1>1, ShapeInvariant, PTL

-----------------------------------------------------------------------------
(* Only these steps change a memtable or add one.                           *)
LEMMA HeapChanges ==
  ASSUME [Next]_vars
  PROVE  \/ UNCHANGED heap
         \/ \E c \in Client : \/ RotateSwap(c) \/ TakeSequence(c) \/ Insert(c)
                              \/ CloseClone(c) /\ heap[memtable].count # 0
<1>1. CASE UNCHANGED vars
  BY <1>1 DEF vars, shared
<1>2. ASSUME NEW c \in Client, Invoke(c) PROVE UNCHANGED heap
  BY <1>2 DEF Invoke, Enter, Reject, BeginClose, Begin
<1>3. ASSUME NEW c \in Client, LockStep(c) PROVE UNCHANGED heap \/ RotateSwap(c)
  BY <1>3 DEF LockStep, RotatePush, RotateAgain, GetImmutable, GetFrom, ScanImmutable,
              ScanStep, CloseDrain, shared
<1>4. ASSUME NEW c \in Client, FlushStep(c) PROVE UNCHANGED heap
  BY <1>4 DEF FlushStep, Flush, DrainFlush, CloseFlush
<1>5. ASSUME NEW c \in Client, FreeStep(c)
      PROVE  \/ UNCHANGED heap \/ TakeSequence(c) \/ Insert(c)
             \/ CloseClone(c) /\ heap[memtable].count # 0
  BY <1>5 DEF FreeStep, CheckRotate, GetMemtable, GetTables, GetFrom, ScanMemtable,
              ScanStep, ScanTables, CloseClone, shared
<1> QED
  BY <1>1, <1>2, <1>3, <1>4, <1>5 DEF Next

(* No step touches a memtable that is not the active one, and only an       *)
(* insertion changes the entries of the active one.                         *)
LEMMA HeapSteps ==
  ASSUME Shape, [Next]_vars
  PROVE  \A m \in Ids : /\ m \in Ids'
                        /\ m # memtable => heap'[m] = heap[m]
                        /\ (\A c \in Client : ~Insert(c)) => heap'[m].data = heap[m].data
<1> DEFINE Kept == \A m \in Ids : /\ m \in Ids'
                                  /\ m # memtable => heap'[m] = heap[m]
                                  /\ heap'[m].data = heap[m].data
<1>1. heap \in Seq(MemTableRec) /\ memtable \in 1..Len(heap)
      /\ \A m \in 1..Len(heap) : heap[m] \in MemTableRec
  BY DEF Shape, TypeOK, Ids
<1>2. CASE UNCHANGED heap
  BY <1>2 DEF Ids
<1>3. ASSUME NEW c \in Client, RotateSwap(c) PROVE Kept
  <2> DEFINE frozen == [heap[memtable] EXCEPT !.immutable = TRUE]
             fresh == NewMemTable(sequence_counter)
             old == [heap EXCEPT ![memtable] = frozen]
  <2>1. frozen \in MemTableRec /\ frozen.data = heap[memtable].data
    BY <1>1, FreezeFacts
  <2>2. fresh \in MemTableRec
    BY NewMemTableType DEF Shape, TypeOK
  <2>3. heap' = Append(old, fresh)
    BY <1>3 DEF RotateSwap
  <2> HIDE DEF frozen, fresh
  <2>4. /\ old \in Seq(MemTableRec) /\ Len(old) = Len(heap)
        /\ old[memtable] = frozen
        /\ \A m \in 1..Len(heap) : m # memtable => old[m] = heap[m]
    BY <1>1, <2>1, SeqUpdate
  <2> HIDE DEF old
  <2>5. /\ Len(heap') = Len(heap) + 1
        /\ \A m \in 1..Len(heap) : heap'[m] = old[m]
    BY <2>2, <2>3, <2>4, SeqAppend
  <2> QED
    BY <1>1, <2>1, <2>4, <2>5 DEF Ids
<1>4. ASSUME NEW c \in Client, TakeSequence(c) PROVE Kept
  <2> DEFINE mt == [heap[memtable] EXCEPT !.next_sequence = @ + 1]
  <2>0. heap[memtable] \in MemTableRec
    BY <1>1
  <2>1. mt \in MemTableRec /\ mt.data = heap[memtable].data
    BY <2>0 DEF MemTableRec
  <2>2. heap' = [heap EXCEPT ![memtable] = mt]
    BY <1>4 DEF TakeSequence, Shape, ActiveMutable
  <2> HIDE DEF mt
  <2> QED
    BY <1>1, <2>1, <2>2, HeapUpdate DEF Ids
<1>5. ASSUME NEW c \in Client, Insert(c)
      PROVE  \A m \in Ids : m \in Ids' /\ (m # memtable => heap'[m] = heap[m])
  <2>1. \E mt : heap' = [heap EXCEPT ![memtable] = mt]
    BY <1>5 DEF Insert, Shape, WritesActive
  <2> QED
    BY <1>1, <2>1 DEF Ids
<1>6. ASSUME NEW c \in Client, CloseClone(c), heap[memtable].count # 0 PROVE Kept
  <2> DEFINE clone == [heap[memtable] EXCEPT !.immutable = TRUE]
  <2>1. clone \in MemTableRec
    BY <1>1, FreezeFacts
  <2>2. heap' = Append(heap, clone)
    BY <1>6 DEF CloseClone
  <2> HIDE DEF clone
  <2>3. /\ Len(heap') = Len(heap) + 1
        /\ \A m \in 1..Len(heap) : heap'[m] = heap[m]
    BY <1>1, <2>1, <2>2, SeqAppend
  <2> QED
    BY <1>1, <2>3 DEF Ids
<1> QED
  BY <1>2, <1>3, <1>4, <1>5, <1>6, HeapChanges

(* A memtable that has left the shared slot, or was cloned, never changes.  *)
THEOREM FrozenHolds == Spec => Frozen
<1> DEFINE Unchanging == \A m \in DOMAIN heap : heap[m].immutable => heap'[m] = heap[m]
<1>1. Shape /\ [Next]_vars => [Unchanging]_vars
  <2> SUFFICES ASSUME Shape, [Next]_vars PROVE Unchanging
    OBVIOUS
  <2>1. DOMAIN heap = Ids
    BY DEF Shape, TypeOK, Ids
  <2> QED
    BY <2>1, HeapSteps DEF Shape, ActiveMutable
<1> QED
  BY <1>1, ShapeInvariant, PTL DEF Spec, Frozen

-----------------------------------------------------------------------------
(* Which steps change the immutable list, and how.                          *)
LEMMA ListSteps ==
  ASSUME Shape, [Next]_vars
  PROVE  \/ UNCHANGED immutable_memtables
         \/ \E c \in Client : RotatePush(c) \/ RotateAgain(c) \/ CloseDrain(c)
<1>1. CASE UNCHANGED vars
  BY <1>1 DEF vars, shared
<1>2. ASSUME NEW c \in Client, Invoke(c) PROVE UNCHANGED immutable_memtables
  BY <1>2 DEF Invoke, Enter, Reject, BeginClose, Begin
<1>3. ASSUME NEW c \in Client, LockStep(c)
      PROVE  UNCHANGED immutable_memtables \/ RotatePush(c) \/ RotateAgain(c) \/ CloseDrain(c)
  BY <1>3 DEF LockStep, RotateSwap, GetImmutable, GetFrom, ScanImmutable, ScanStep, shared
<1>4. ASSUME NEW c \in Client, FlushStep(c) PROVE UNCHANGED immutable_memtables
  BY <1>4 DEF FlushStep, Flush, DrainFlush, CloseFlush
<1>5. ASSUME NEW c \in Client, FreeStep(c) PROVE UNCHANGED immutable_memtables
  BY <1>5 DEF FreeStep, CheckRotate, TakeSequence, Insert, GetMemtable, GetTables, GetFrom,
              ScanMemtable, ScanStep, ScanTables, CloseClone, shared
<1> QED
  BY <1>1, <1>2, <1>3, <1>4, <1>5 DEF Next

(* The immutable list stays within max_memtables for any number of clients: *)
(* whoever pushes removes one in the same critical section if it must.      *)
THEOREM ImmutablesBoundedHolds == Spec => []ImmutablesBounded
<1>1. Init => ImmutablesBounded
  BY StorageEngineAssumption DEF Init, ImmutablesBounded
<1>2. Shape /\ ImmutablesBounded /\ [Next]_vars => ImmutablesBounded'
  <2> SUFFICES ASSUME Shape, ImmutablesBounded, [Next]_vars PROVE ImmutablesBounded'
    OBVIOUS
  <2>1. immutable_memtables \in Seq(Ids) /\ Len(immutable_memtables) \in Nat
    BY DEF Shape, TypeOK
  <2>2. ASSUME NEW c \in Client, NEW immutable \in Seq(Ids), Limit(c, immutable),
               Len(immutable) <= MaxMemtables + 1
        PROVE  ImmutablesBounded'
    <3>1. CASE Len(immutable) > MaxMemtables
      <4>1. immutable # <<>>
        BY <3>1, StorageEngineAssumption
      <4>2. Len(Tail(immutable)) = Len(immutable) - 1 /\ Len(immutable) \in Nat
        BY <4>1, HeadTailProperties, LenProperties
      <4> QED
        BY <2>2, <3>1, <4>2, StorageEngineAssumption DEF Limit, ImmutablesBounded
    <3>2. CASE ~(Len(immutable) > MaxMemtables)
      BY <2>2, <3>2, StorageEngineAssumption DEF Limit, ImmutablesBounded
    <3> QED
      BY <3>1, <3>2
  <2>3. ASSUME NEW c \in Client, RotatePush(c) PROVE ImmutablesBounded'
    <3>1. hand[c][1] \in Ids
      BY <2>3 DEF Shape, TypeOK, HandShape, RotatePush
    <3>2. /\ Append(immutable_memtables, hand[c][1]) \in Seq(Ids)
          /\ Len(Append(immutable_memtables, hand[c][1])) <= MaxMemtables + 1
      BY <2>1, <3>1, SeqAppend, StorageEngineAssumption DEF ImmutablesBounded
    <3> QED
      BY <2>2, <2>3, <3>2 DEF RotatePush
  <2>4. ASSUME NEW c \in Client, RotateAgain(c) PROVE ImmutablesBounded'
    BY <2>1, <2>2, <2>4, StorageEngineAssumption DEF RotateAgain, ImmutablesBounded
  <2>5. ASSUME NEW c \in Client, CloseDrain(c) PROVE ImmutablesBounded'
    BY <2>5, StorageEngineAssumption DEF CloseDrain, ImmutablesBounded
  <2> QED
    BY <2>3, <2>4, <2>5, ListSteps DEF ImmutablesBounded
<1> QED
  BY <1>1, <1>2, ShapeInvariant, PTL DEF Spec

-----------------------------------------------------------------------------
(* What keeps a write held through a step that does not insert: a memtable  *)
(* may go when its entries are in a table or it never had any.              *)
LEMMA StillHeld ==
  ASSUME Shape, NothingLost, UNCHANGED latest,
         \A i \in TableIndex : i \in TableIndex' /\ sstables'[i[1]][i[2]] = sstables[i[1]][i[2]],
         \A m \in Memtables \cup dropped :
           \/ m \in Memtables' \cup dropped' /\ heap'[m].data = heap[m].data
           \/ \E i \in TableIndex' : sstables'[i[1]][i[2]] = heap[m].data
           \/ heap[m].data = NoEntries
  PROVE  NothingLost'
<1> SUFFICES ASSUME NEW k \in Key, latest[k] > 0
             PROVE  Held(k, latest[k])'
  BY DEF NothingLost
<1>1. Held(k, latest[k])
  BY DEF NothingLost
<1>2. CASE \E i \in TableIndex : StampOf(sstables[i[1]][i[2]][k]) = latest[k]
  BY <1>2 DEF Held, StampOf
<1>3. ASSUME NEW m \in Memtables \cup dropped, StampOf(heap[m].data[k]) = latest[k]
      PROVE  Held(k, latest[k])'
  <2>1. CASE m \in Memtables' \cup dropped' /\ heap'[m].data = heap[m].data
    BY <1>3, <2>1 DEF Held, StampOf
  <2>2. CASE \E i \in TableIndex' : sstables'[i[1]][i[2]] = heap[m].data
    BY <1>3, <2>2 DEF Held, StampOf
  <2>3. CASE heap[m].data = NoEntries
    BY <1>3, <2>3 DEF NoEntries, StampOf
  <2> QED
    BY <2>1, <2>2, <2>3
<1> QED
  BY <1>1, <1>2, <1>3 DEF Held

LEMMA TablesUnchanged ==
  ASSUME UNCHANGED sstables
  PROVE  \A i \in TableIndex : i \in TableIndex' /\ sstables'[i[1]][i[2]] = sstables[i[1]][i[2]]
BY DEF TableIndex

(* flush_memtable keeps every table and puts m into one, or into dropped,   *)
(* or m has no entries.                                                     *)
LEMMA FlushKeeps ==
  ASSUME Shape, NEW m \in Ids, NEW r, FlushMemtable(m, r)
  PROVE  /\ \A i \in TableIndex : i \in TableIndex' /\ sstables'[i[1]][i[2]] = sstables[i[1]][i[2]]
         /\ dropped \subseteq dropped'
         /\ \/ r = "err" /\ m \in dropped'
            \/ \E i \in TableIndex' : sstables'[i[1]][i[2]] = heap[m].data
            \/ heap[m].data = NoEntries
<1>0. 0 \in Level /\ sstables[0] \in Seq(EntryMap)
  BY StorageEngineAssumption DEF Level, Shape, TypeOK
<1>1. CASE heap[m].count = 0
  <2>1. heap[m].data = NoEntries
    BY <1>1 DEF Shape, CountZeroIsEmpty
  <2>2. UNCHANGED sstables /\ dropped \subseteq dropped'
    BY <1>1 DEF FlushMemtable, Shape, TypeOK
  <2> QED
    BY <2>1, <2>2, TablesUnchanged
<1>2. CASE heap[m].count # 0 /\ r = "err"
  <2>1. UNCHANGED sstables /\ dropped' = dropped \cup {m}
    BY <1>2 DEF FlushMemtable
  <2> QED
    BY <1>2, <2>1, TablesUnchanged
<1>3. CASE heap[m].count # 0 /\ r # "err"
  <2>1. heap[m] \in MemTableRec
    BY DEF Shape, TypeOK, Ids
  <2>2. heap[m].count > 0 /\ heap[m].data \in EntryMap
    BY <1>3, <2>1 DEF MemTableRec
  <2>3. /\ dropped' = dropped
        /\ sstables' = [sstables EXCEPT ![0] = Append(@, heap[m].data)]
    BY <1>3, <2>2, StorageEngineAssumption DEF FlushMemtable
  <2> DEFINE tables == Append(sstables[0], heap[m].data)
  <2>4. /\ tables \in Seq(EntryMap) /\ Len(tables) = Len(sstables[0]) + 1
        /\ tables[Len(sstables[0]) + 1] = heap[m].data
        /\ \A i \in 1..Len(sstables[0]) : tables[i] = sstables[0][i]
        /\ Len(sstables[0]) \in Nat
    BY <1>0, <2>2, SeqAppend
  <2>5. /\ sstables'[0] = tables
        /\ \A l \in Level : l # 0 => sstables'[l] = sstables[l]
    BY <1>0, <2>3 DEF Shape, TypeOK
  <2> HIDE DEF tables
  <2>6. DOMAIN tables = 1..(Len(sstables[0]) + 1) /\ DOMAIN sstables[0] = 1..Len(sstables[0])
    BY <1>0, <2>4
  <2>7. ASSUME NEW l \in Level, NEW j \in DOMAIN sstables[l]
        PROVE  j \in DOMAIN sstables'[l] /\ sstables'[l][j] = sstables[l][j]
    BY <2>4, <2>5, <2>6
  <2>8. \A i \in TableIndex : i \in TableIndex' /\ sstables'[i[1]][i[2]] = sstables[i[1]][i[2]]
    BY <2>7 DEF TableIndex
  <2>9. Len(sstables[0]) + 1 \in DOMAIN sstables'[0]
    BY <2>4, <2>5, <2>6
  <2>10. /\ <<0, Len(sstables[0]) + 1>> \in TableIndex'
         /\ sstables'[0][Len(sstables[0]) + 1] = heap[m].data
    BY <1>0, <2>4, <2>5, <2>9 DEF TableIndex
  <2> QED
    BY <2>3, <2>8, <2>10
<1> QED
  BY <1>1, <1>2, <1>3

LEMMA IdsHeld ==
  ASSUME Shape
  PROVE  Memtables \cup dropped \subseteq Ids
BY DEF Memtables, Listed, InHand, Shape, TypeOK

(* Only these steps move memtables about.                                   *)
LEMMA MovingSteps ==
  ASSUME Shape, [Next]_vars
  PROVE  \/ UNCHANGED <<memtable, immutable_memtables, hand, dropped, sstables, latest>>
         \/ \E c \in Client : \/ RotateSwap(c) \/ RotatePush(c) \/ RotateAgain(c)
                              \/ CloseDrain(c) \/ FlushStep(c) \/ Insert(c) \/ CloseClone(c)
<1>1. CASE UNCHANGED vars
  BY <1>1 DEF vars, shared, private, history
<1>2. ASSUME NEW c \in Client, Invoke(c)
      PROVE  UNCHANGED <<memtable, immutable_memtables, hand, dropped, sstables, latest>>
  BY <1>2 DEF Invoke, Enter, Reject, BeginClose, Begin
<1>3. ASSUME NEW c \in Client, LockStep(c)
      PROVE  \/ UNCHANGED <<memtable, immutable_memtables, hand, dropped, sstables, latest>>
             \/ RotateSwap(c) \/ RotatePush(c) \/ RotateAgain(c) \/ CloseDrain(c)
  BY <1>3 DEF LockStep, GetImmutable, GetFrom, ScanImmutable, ScanStep, shared, history
<1>4. ASSUME NEW c \in Client, FreeStep(c)
      PROVE  \/ UNCHANGED <<memtable, immutable_memtables, hand, dropped, sstables, latest>>
             \/ Insert(c) \/ CloseClone(c)
  BY <1>4 DEF FreeStep, CheckRotate, TakeSequence, GetMemtable, GetTables, GetFrom,
              ScanMemtable, ScanStep, ScanTables, shared, history
<1> QED
  BY <1>1, <1>2, <1>3, <1>4 DEF Next

(* A step that inserts nothing keeps every write held if every memtable     *)
(* that is referred to before is referred to after.                         *)
LEMMA KeptWhenReferred ==
  ASSUME Shape, NothingLost, [Next]_vars, \A c \in Client : ~Insert(c),
         UNCHANGED <<sstables, latest, dropped>>, Memtables \subseteq Memtables'
  PROVE  NothingLost'
<1>1. \A m \in Memtables \cup dropped : heap'[m].data = heap[m].data
  BY HeapSteps, IdsHeld
<1> QED
  BY <1>1, StillHeld, TablesUnchanged

LEMMA OneStepAtATime ==
  ASSUME Shape, NEW c \in Client,
         \/ RotateSwap(c) \/ RotatePush(c) \/ RotateAgain(c) \/ CloseDrain(c)
         \/ FlushStep(c) \/ CloseClone(c)
  PROVE  \A d \in Client : ~Insert(d)
<1>1. latest' = latest
  BY DEF RotateSwap, RotatePush, RotateAgain, CloseDrain, FlushStep, Flush, DrainFlush,
         CloseFlush, CloseClone, history
<1>2. ASSUME NEW d \in Client, Insert(d) PROVE FALSE
  <2>1. call[d].key \in Key /\ latest[call[d].key] \in Nat
    BY <1>2 DEF Insert, Shape, TypeOK, InCall, Request
  <2>2. latest'[call[d].key] = latest[call[d].key] + 1
    BY <1>2, <2>1 DEF Insert, Shape, TypeOK
  <2> QED
    BY <1>1, <2>1, <2>2
<1> QED
  BY <1>2

LEMMA LimitRefers ==
  ASSUME Shape, NEW c \in Client,
         NEW immutable \in Seq(Ids), Limit(c, immutable), UNCHANGED <<memtable, dropped>>,
         \A m \in Listed \cup InHand(c) : \E i \in DOMAIN immutable : m = immutable[i]
  PROVE  Memtables \subseteq Memtables' /\ UNCHANGED dropped
<1>1. hand \in [Client -> Seq(Ids)]
  BY DEF Shape, TypeOK
<1>2. \A d \in Client : d # c => InHand(d)' = InHand(d)
  BY <1>1 DEF Limit, InHand
<1>3. \A i \in DOMAIN immutable : immutable[i] \in Listed' \cup InHand(c)'
  <2>1. CASE Len(immutable) > MaxMemtables
    <3>1. immutable # <<>>
      BY <2>1, StorageEngineAssumption
    <3>2. /\ Tail(immutable) \in Seq(Ids) /\ Len(Tail(immutable)) = Len(immutable) - 1
          /\ \A i \in 1..Len(Tail(immutable)) : Tail(immutable)[i] = immutable[i + 1]
      BY <3>1, HeadTailProperties
    <3>3. Listed' = {Tail(immutable)[i] : i \in 1..Len(Tail(immutable))}
      <4>1. immutable_memtables' = Tail(immutable)
        BY <2>1 DEF Limit
      <4>2. DOMAIN immutable_memtables' = 1..Len(Tail(immutable))
        BY <3>2, <4>1, LenProperties
      <4> QED
        BY <4>1, <4>2 DEF Listed
    <3>4. hand'[c] = <<immutable[1]>>
      BY <1>1, <2>1, <3>1 DEF Limit
    <3>5. InHand(c)' = {immutable[1]}
      BY <3>4 DEF InHand
    <3>6. \A i \in DOMAIN immutable : i = 1 \/ (i - 1 \in 1..Len(Tail(immutable)))
      BY <3>2, LenProperties
    <3>7. ASSUME NEW i \in DOMAIN immutable, i # 1
          PROVE  immutable[i] \in Listed'
      <4>1. i - 1 \in 1..Len(Tail(immutable)) /\ i \in Nat
        BY <3>6, <3>7, LenProperties
      <4>2. Tail(immutable)[i - 1] = immutable[i]
        BY <3>2, <4>1
      <4> QED
        BY <3>3, <4>1, <4>2
    <3> QED
      BY <3>5, <3>7
  <2>2. CASE ~(Len(immutable) > MaxMemtables)
    BY <2>2 DEF Limit, Listed
  <2> QED
    BY <2>1, <2>2
<1>4. \A m \in Listed \cup InHand(c) : m \in Listed' \cup InHand(c)'
  BY <1>3
<1> QED
  BY <1>2, <1>4 DEF Memtables

LEMMA SwapRefers ==
  ASSUME Shape, NEW c \in Client, RotateSwap(c)
  PROVE  Memtables \subseteq Memtables' /\ UNCHANGED dropped
<1>1. hand \in [Client -> Seq(Ids)] /\ hand[c] = <<>>
  BY DEF Shape, TypeOK, HandShape, RotateSwap
<1>2. InHand(c) = {} /\ InHand(c)' = {memtable}
  BY <1>1 DEF RotateSwap, InHand
<1>3. \A d \in Client : d # c => InHand(d)' = InHand(d)
  BY <1>1 DEF RotateSwap, InHand
<1>4. UNCHANGED <<immutable_memtables, dropped>>
  BY DEF RotateSwap, history
<1>5. Listed' = Listed
  BY <1>4 DEF Listed
<1> QED
  BY <1>2, <1>3, <1>4, <1>5 DEF Memtables

LEMMA RotateRefers ==
  ASSUME Shape, NEW c \in Client, RotatePush(c) \/ RotateAgain(c)
  PROVE  Memtables \subseteq Memtables' /\ UNCHANGED dropped
<1>1. UNCHANGED <<memtable, dropped>>
  BY DEF RotatePush, RotateAgain, history
<1>2. immutable_memtables \in Seq(Ids) /\ hand \in [Client -> Seq(Ids)]
  BY DEF Shape, TypeOK
<1>3. CASE RotatePush(c)
  <2> DEFINE longer == Append(immutable_memtables, hand[c][1])
  <2>1. Len(hand[c]) = 1 /\ hand[c] \in Seq(Ids)
    BY <1>2, <1>3 DEF Shape, HandShape, RotatePush
  <2>2. DOMAIN hand[c] = {1} /\ hand[c][1] \in Ids
    BY <2>1
  <2>3. InHand(c) = {hand[c][1]}
    BY <2>2 DEF InHand
  <2>4. /\ longer \in Seq(Ids) /\ Len(longer) = Len(immutable_memtables) + 1
        /\ longer[Len(immutable_memtables) + 1] = hand[c][1]
        /\ \A i \in 1..Len(immutable_memtables) : longer[i] = immutable_memtables[i]
        /\ Len(immutable_memtables) \in Nat
    BY <1>2, <2>2, SeqAppend
  <2>5. /\ DOMAIN longer = 1..(Len(immutable_memtables) + 1)
        /\ DOMAIN immutable_memtables = 1..Len(immutable_memtables)
    BY <1>2, <2>4
  <2>6. Limit(c, longer)
    BY <1>3 DEF RotatePush
  <2> HIDE DEF longer
  <2>7. \A m \in Listed \cup InHand(c) : \E i \in DOMAIN longer : m = longer[i]
    BY <2>3, <2>4, <2>5 DEF Listed
  <2> QED
    BY <1>1, <2>4, <2>6, <2>7, LimitRefers
<1>4. CASE RotateAgain(c)
  <2>1. hand[c] = <<>>
    BY <1>4 DEF Shape, HandShape, RotateAgain
  <2>2. InHand(c) = {}
    BY <2>1 DEF InHand
  <2>3. \A m \in Listed \cup InHand(c) :
          \E i \in DOMAIN immutable_memtables : m = immutable_memtables[i]
    BY <2>2 DEF Listed
  <2>4. Limit(c, immutable_memtables)
    BY <1>4 DEF RotateAgain
  <2> QED
    BY <1>1, <1>2, <2>3, <2>4, LimitRefers
<1> QED
  BY <1>3, <1>4

LEMMA DrainRefers ==
  ASSUME Shape, NEW c \in Client, CloseDrain(c)
  PROVE  Memtables \subseteq Memtables' /\ UNCHANGED dropped
<1>1. hand \in [Client -> Seq(Ids)] /\ hand[c] = <<>>
  BY DEF Shape, TypeOK, HandShape, CloseDrain
<1>2. InHand(c) = {} /\ InHand(c)' = Listed
  BY <1>1 DEF CloseDrain, InHand, Listed
<1>3. \A d \in Client : d # c => InHand(d)' = InHand(d)
  BY <1>1 DEF CloseDrain, InHand
<1>4. UNCHANGED <<memtable, dropped>>
  BY DEF CloseDrain, history
<1> QED
  BY <1>2, <1>3, <1>4 DEF Memtables

LEMMA CloneRefers ==
  ASSUME Shape, NEW c \in Client, CloseClone(c)
  PROVE  Memtables \subseteq Memtables' /\ UNCHANGED dropped
<1>1. hand \in [Client -> Seq(Ids)] /\ hand[c] = <<>>
  BY DEF Shape, TypeOK, HandShape, CloseClone
<1>2. InHand(c) = {}
  BY <1>1 DEF InHand
<1>3. \A d \in Client : d # c => InHand(d)' = InHand(d)
  BY <1>1 DEF CloseClone, InHand
<1>4. UNCHANGED <<memtable, immutable_memtables, dropped>>
  BY DEF CloseClone, history
<1>5. Listed' = Listed
  BY <1>4 DEF Listed
<1> QED
  BY <1>2, <1>3, <1>4, <1>5 DEF Memtables

(* Only a flush makes anything forget a memtable.                           *)
LEMMA MemtablesStay ==
  ASSUME Shape, [Next]_vars, \A c \in Client : ~FlushStep(c)
  PROVE  Memtables \subseteq Memtables' /\ UNCHANGED dropped
<1>1. CASE UNCHANGED <<memtable, immutable_memtables, hand, dropped>>
  BY <1>1 DEF Memtables, Listed, InHand
<1>2. ASSUME NEW c \in Client, Insert(c) PROVE UNCHANGED <<memtable, immutable_memtables, hand, dropped>>
  BY <1>2 DEF Insert
<1> QED
  BY <1>1, <1>2, SwapRefers, RotateRefers, DrainRefers, CloneRefers, MovingSteps

(* The memtable a flush takes out of the hands of a task is the only one    *)
(* that goes.                                                               *)
LEMMA FlushTakes ==
  ASSUME Shape, NEW c \in Client, FlushStep(c), NEW m, m = hand[c][1]
  PROVE  /\ m \in Ids /\ UNCHANGED <<heap, memtable, immutable_memtables, latest>>
         /\ \A n \in Memtables : n = m \/ n \in Memtables'
         /\ \E r : FlushMemtable(m, r)
<1>1. hand \in [Client -> Seq(Ids)]
  BY DEF Shape, TypeOK
<1>2. PICK r : Flush(c, r) \/ DrainFlush(c, r) \/ CloseFlush(c, r)
  BY DEF FlushStep
<1>3. hand[c] \in Seq(Ids) /\ hand[c] # <<>>
  <2>1. pc[c] \in {"flush", "drain_flush", "clone_flush"}
    BY <1>2 DEF Flush, DrainFlush, CloseFlush
  <2>2. HandShape(c)
    BY DEF Shape
  <2>3. Len(hand[c]) = 1 \/ hand[c] # <<>>
    BY <2>1, <2>2 DEF HandShape
  <2>4. Len(hand[c]) = 1 => hand[c] # <<>>
    OBVIOUS
  <2> QED
    BY <1>1, <2>3, <2>4
<1>4. m \in Ids /\ Len(hand[c]) \in Nat \ {0}
  BY <1>3
<1>5. FlushMemtable(m, r)
  BY <1>2 DEF Flush, DrainFlush, CloseFlush
<1>6. /\ UNCHANGED <<heap, memtable, immutable_memtables, latest>>
      /\ hand' = [hand EXCEPT ![c] = <<>>] \/ hand' = [hand EXCEPT ![c] = Tail(hand[c])]
  BY <1>2 DEF Flush, DrainFlush, CloseFlush
<1>7. \/ hand'[c] = <<>> /\ (Flush(c, r) \/ CloseFlush(c, r))
      \/ hand'[c] = Tail(hand[c])
  BY <1>1, <1>2 DEF Flush, DrainFlush, CloseFlush
<1>8. \A i \in DOMAIN hand[c] : hand[c][i] = m \/ hand[c][i] \in InHand(c)'
  <2>1. CASE hand'[c] = Tail(hand[c])
    <3>1. /\ Tail(hand[c]) \in Seq(Ids) /\ Len(Tail(hand[c])) = Len(hand[c]) - 1
          /\ \A i \in 1..Len(Tail(hand[c])) : Tail(hand[c])[i] = hand[c][i + 1]
      BY <1>3, HeadTailProperties
    <3>2. DOMAIN Tail(hand[c]) = 1..(Len(hand[c]) - 1) /\ DOMAIN hand[c] = 1..Len(hand[c])
      BY <1>3, <3>1, LenProperties
    <3>3. InHand(c)' = {Tail(hand[c])[i] : i \in 1..(Len(hand[c]) - 1)}
      BY <2>1, <3>2 DEF InHand
    <3>4. ASSUME NEW i \in DOMAIN hand[c], i # 1
          PROVE  hand[c][i] \in InHand(c)'
      <4>1. i - 1 \in 1..(Len(hand[c]) - 1) /\ i = (i - 1) + 1
        BY <1>4, <3>2, <3>4
      <4>2. Tail(hand[c])[i - 1] = hand[c][i]
        BY <3>1, <4>1
      <4> QED
        BY <3>3, <4>1, <4>2
    <3> QED
      BY <3>4
  <2>2. CASE Flush(c, r) \/ CloseFlush(c, r)
    <3>1. Len(hand[c]) = 1
      BY <2>2 DEF Flush, CloseFlush, Shape, HandShape
    <3>2. DOMAIN hand[c] = {1}
      BY <1>3, <3>1
    <3> QED
      BY <3>2
  <2> QED
    BY <1>7, <2>1, <2>2
<1>9. \A d \in Client : d # c => InHand(d)' = InHand(d)
  BY <1>1, <1>6 DEF InHand
<1>10. Listed' = Listed
  BY <1>6 DEF Listed
<1>11. \A n \in InHand(c) : n = m \/ n \in InHand(c)'
  BY <1>8 DEF InHand
<1>12. \A n \in Memtables : n = m \/ n \in Memtables'
  BY <1>6, <1>9, <1>10, <1>11 DEF Memtables
<1> QED
  BY <1>4, <1>5, <1>6, <1>12

(* It went into a table or into dropped.                                    *)
LEMMA NothingLostFlush ==
  ASSUME Shape, NothingLost, NEW c \in Client, FlushStep(c)
  PROVE  NothingLost'
<1>1. PICK m : m = hand[c][1]
  OBVIOUS
<1>2. /\ m \in Ids /\ UNCHANGED <<heap, memtable, immutable_memtables, latest>>
      /\ \A n \in Memtables : n = m \/ n \in Memtables'
      /\ \E r : FlushMemtable(m, r)
  BY <1>1, FlushTakes
<1>3. /\ \A i \in TableIndex : i \in TableIndex' /\ sstables'[i[1]][i[2]] = sstables[i[1]][i[2]]
      /\ dropped \subseteq dropped'
      /\ \/ m \in dropped'
         \/ \E i \in TableIndex' : sstables'[i[1]][i[2]] = heap[m].data
         \/ heap[m].data = NoEntries
  BY <1>2, FlushKeeps
<1>4. \A n \in Memtables \cup dropped :
         \/ n \in Memtables' \cup dropped' /\ heap'[n].data = heap[n].data
         \/ \E i \in TableIndex' : sstables'[i[1]][i[2]] = heap[n].data
         \/ heap[n].data = NoEntries
  BY <1>2, <1>3
<1> QED
  BY <1>2, <1>3, <1>4, StillHeld

(* An insertion puts the newest entry of its key into the active memtable   *)
(* and leaves the entries of other keys where they are.                     *)
LEMMA NothingLostInsert ==
  ASSUME Shape, NothingLost, NEW c \in Client, Insert(c)
  PROVE  NothingLost'
<1> DEFINE key == call[c].key
           entry == [val |-> call[c].val, sequence |-> taken[c], stamp |-> latest[key] + 1]
<1>1. key \in Key /\ entry \in Entry /\ target[c] = memtable /\ memtable \in Ids
  BY DEF Insert, Shape, TypeOK, InCall, WritesActive, Request, Entry
<1>2. heap \in Seq(MemTableRec) /\ heap[memtable] \in MemTableRec /\ latest \in [Key -> Nat]
  BY <1>1 DEF Shape, TypeOK, Ids
<1>3. /\ heap' = [heap EXCEPT ![memtable] = PutEntry(heap[memtable], key, entry)]
      /\ latest' = [latest EXCEPT ![key] = latest[key] + 1]
      /\ UNCHANGED <<memtable, immutable_memtables, sstables, hand, dropped>>
  BY <1>1 DEF Insert
<1>4. /\ PutEntry(heap[memtable], key, entry) \in MemTableRec
      /\ PutEntry(heap[memtable], key, entry).data[key] = entry
      /\ \A j \in Key \ {key} :
           PutEntry(heap[memtable], key, entry).data[j] = heap[memtable].data[j]
  BY <1>1, <1>2, PutEntryFacts, SMTT(30)
<1>5. /\ heap'[memtable] = PutEntry(heap[memtable], key, entry)
      /\ \A n \in Ids : n # memtable => heap'[n] = heap[n]
  BY <1>1, <1>2, <1>3, <1>4, SeqUpdate DEF Ids
<1>6. Memtables' = Memtables /\ TableIndex' = TableIndex /\ memtable \in Memtables
  BY <1>3 DEF Memtables, Listed, InHand, TableIndex
<1>7. Memtables \cup dropped \subseteq Ids
  BY IdsHeld
<1>8. entry.stamp = latest[key] + 1 /\ entry # None
  BY <1>1, NoneAssumption
<1> HIDE DEF entry, key
<1> SUFFICES ASSUME NEW k \in Key, latest'[k] > 0
             PROVE  Held(k, latest[k])'
  BY DEF NothingLost
<1>9. CASE k = key
  <2>1. latest'[k] = entry.stamp /\ heap'[memtable].data[k] = entry
    BY <1>1, <1>2, <1>3, <1>4, <1>5, <1>8, <1>9
  <2> QED
    BY <1>3, <1>6, <1>8, <2>1 DEF Held, StampOf
<1>10. CASE k # key
  <2>1. latest'[k] = latest[k] /\ Held(k, latest[k])
    BY <1>1, <1>2, <1>3, <1>10 DEF NothingLost
  <2>2. \A n \in Memtables \cup dropped : heap'[n].data[k] = heap[n].data[k]
    BY <1>4, <1>5, <1>7, <1>10
  <2> QED
    BY <1>3, <1>6, <2>1, <2>2 DEF Held, StampOf
<1> QED
  BY <1>9, <1>10

LEMMA NothingLostStep == Shape /\ NothingLost /\ [Next]_vars => NothingLost'
<1> SUFFICES ASSUME Shape, NothingLost, [Next]_vars PROVE NothingLost'
  OBVIOUS
<1>1. ASSUME NEW c \in Client, FlushStep(c) PROVE NothingLost'
  BY <1>1, NothingLostFlush
<1>2. ASSUME NEW c \in Client, Insert(c) PROVE NothingLost'
  BY <1>2, NothingLostInsert
<1>3. CASE \A c \in Client : ~FlushStep(c) /\ ~Insert(c)
  <2>1. UNCHANGED <<sstables, latest>>
    BY <1>3, MovingSteps DEF RotateSwap, RotatePush, RotateAgain, CloseDrain, CloseClone, history
  <2> QED
    BY <1>3, <2>1, MemtablesStay, KeptWhenReferred
<1> QED
  BY <1>1, <1>2, <1>3

(* No write is lost on its way to level 0: for any number of clients, any   *)
(* interleaving of writes, rotations, evictions, flushes and close, and any *)
(* configuration, the newest entry of a key stays where something refers to *)
(* it until it is in a table or the flush of its memtable fails.            *)
THEOREM NothingLostHolds == Spec => []NothingLost
<1>1. Init => NothingLost
  BY DEF Init, NothingLost
<1> QED
  BY <1>1, NothingLostStep, ShapeInvariant, PTL DEF Spec

-----------------------------------------------------------------------------
(* Every memtable is in one place at a time.                                *)
Distinct(s) == \A i, j \in DOMAIN s : i # j => s[i] # s[j]

LEMMA DistinctTail ==
  ASSUME NEW S, NEW s \in Seq(S), s # <<>>, Distinct(s)
  PROVE  /\ Tail(s) \in Seq(S) /\ Distinct(Tail(s))
         /\ \A i \in DOMAIN Tail(s) : \E j \in DOMAIN s : Tail(s)[i] = s[j] /\ s[j] # s[1]
<1>1. /\ Tail(s) \in Seq(S) /\ Len(Tail(s)) = Len(s) - 1
      /\ \A i \in 1..Len(Tail(s)) : Tail(s)[i] = s[i + 1]
  BY HeadTailProperties
<1>2. Len(s) \in Nat /\ DOMAIN s = 1..Len(s) /\ DOMAIN Tail(s) = 1..(Len(s) - 1)
  BY <1>1, LenProperties
<1>3. ASSUME NEW i \in DOMAIN Tail(s)
      PROVE  i \in Nat /\ i + 1 \in DOMAIN s /\ i + 1 # 1 /\ 1 \in DOMAIN s /\ Tail(s)[i] = s[i + 1]
  BY <1>1, <1>2, <1>3
<1>4. \A i, j \in DOMAIN Tail(s) : i # j => i + 1 # j + 1
  BY <1>2
<1>5. Distinct(Tail(s))
  BY <1>3, <1>4 DEF Distinct
<1>6. \A i \in DOMAIN Tail(s) : \E j \in DOMAIN s : Tail(s)[i] = s[j] /\ s[j] # s[1]
  BY <1>3 DEF Distinct
<1> QED
  BY <1>1, <1>5, <1>6

LEMMA DistinctAppend ==
  ASSUME NEW S, NEW s \in Seq(S), NEW v \in S, Distinct(s), \A i \in DOMAIN s : s[i] # v
  PROVE  /\ Append(s, v) \in Seq(S) /\ Distinct(Append(s, v))
         /\ \A i \in DOMAIN Append(s, v) :
              Append(s, v)[i] = v \/ \E j \in DOMAIN s : Append(s, v)[i] = s[j]
<1>1. /\ Append(s, v) \in Seq(S) /\ Len(Append(s, v)) = Len(s) + 1
      /\ Append(s, v)[Len(s) + 1] = v
      /\ \A j \in 1..Len(s) : Append(s, v)[j] = s[j]
  BY SeqAppend
<1>2. Len(s) \in Nat /\ DOMAIN s = 1..Len(s) /\ DOMAIN Append(s, v) = 1..(Len(s) + 1)
  BY <1>1, LenProperties
<1>3. \A i \in DOMAIN Append(s, v) :
        \/ i = Len(s) + 1 /\ Append(s, v)[i] = v
        \/ i \in DOMAIN s /\ Append(s, v)[i] = s[i]
  BY <1>1, <1>2
<1> QED
  BY <1>1, <1>3 DEF Distinct

-----------------------------------------------------------------------------
(* A step that changes the hands of one client to s.                        *)
LEMMA HandMoves ==
  ASSUME Shape, HeldOnce, NEW c \in Client, NEW s,
         hand' = [hand EXCEPT ![c] = s],
         Distinct(s),
         \A i \in DOMAIN s : s[i] # memtable' /\ s[i] \notin Listed',
         \A d \in Client \ {c} : \A i \in DOMAIN s : s[i] \notin InHand(d),
         \A d \in Client \ {c} : InHand(d) \cap ({memtable'} \cup Listed') = {},
         memtable' \notin Listed',
         Distinct(immutable_memtables')
  PROVE  HeldOnce'
<1>1. hand'[c] = s /\ \A d \in Client \ {c} : hand'[d] = hand[d]
  BY DEF Shape, TypeOK
<1>2. InHand(c)' = {s[i] : i \in DOMAIN s}
  BY <1>1 DEF InHand
<1>3. \A d \in Client \ {c} : InHand(d)' = InHand(d)
  BY <1>1 DEF InHand
<1>4. \A d \in Client : InHand(d)' \cap ({memtable'} \cup Listed') = {}
  BY <1>2, <1>3
<1>5. \A d, e \in Client : d # e => InHand(d)' \cap InHand(e)' = {}
  <2>1. \A d \in Client \ {c} : InHand(d)' \cap InHand(c)' = {}
    BY <1>2, <1>3
  <2>2. \A d, e \in Client \ {c} : d # e => InHand(d)' \cap InHand(e)' = {}
    BY <1>3 DEF HeldOnce
  <2> QED
    BY <2>1, <2>2
<1>6. \A d \in Client : Distinct(hand'[d])
  BY <1>1 DEF HeldOnce, Distinct
<1> QED
  BY <1>4, <1>5, <1>6 DEF HeldOnce, Distinct

(* What Shape and HeldOnce say of the places before a step.                 *)
LEMMA Places ==
  ASSUME Shape, HeldOnce
  PROVE  /\ memtable \in Ids /\ memtable \notin Listed /\ Listed \subseteq Ids
         /\ immutable_memtables \in Seq(Ids) /\ Distinct(immutable_memtables)
         /\ \A c \in Client : /\ hand[c] \in Seq(Ids) /\ Distinct(hand[c])
                              /\ InHand(c) \subseteq Ids
                              /\ InHand(c) \cap ({memtable} \cup Listed) = {}
         /\ \A c, d \in Client : c # d => InHand(c) \cap InHand(d) = {}
         /\ Len(heap) + 1 \notin Ids
<1>1. /\ memtable \in Ids /\ immutable_memtables \in Seq(Ids)
      /\ \A c \in Client : hand[c] \in Seq(Ids)
      /\ heap \in Seq(MemTableRec)
  BY DEF Shape, TypeOK
<1>2. Listed \subseteq Ids
  BY <1>1 DEF Listed
<1>3. \A c \in Client : InHand(c) \subseteq Ids
  BY <1>1 DEF InHand
<1>4. Len(heap) + 1 \notin Ids
  BY <1>1 DEF Ids
<1>5. /\ memtable \notin Listed /\ Distinct(immutable_memtables)
      /\ \A c \in Client : Distinct(hand[c]) /\ InHand(c) \cap ({memtable} \cup Listed) = {}
      /\ \A c, d \in Client : c # d => InHand(c) \cap InHand(d) = {}
  BY DEF HeldOnce, Distinct
<1> QED
  BY <1>1, <1>2, <1>3, <1>4, <1>5

LEMMA HeldOnceSwap ==
  ASSUME Shape, HeldOnce, NEW c \in Client, RotateSwap(c)
  PROVE  HeldOnce'
<1> DEFINE s == <<memtable>>
<1>1. hand' = [hand EXCEPT ![c] = s] /\ memtable' = Len(heap) + 1 /\ UNCHANGED immutable_memtables
  BY DEF RotateSwap
<1>2. Listed' = Listed
  BY <1>1 DEF Listed
<1>3. Distinct(s) /\ \A i \in DOMAIN s : s[i] = memtable
  BY DEF Distinct
<1> HIDE DEF s
<1>4. /\ memtable' \notin Listed' /\ Distinct(immutable_memtables')
      /\ \A d \in Client : InHand(d) \cap ({memtable'} \cup Listed') = {}
  BY <1>1, <1>2, Places
<1>5. /\ memtable # memtable' /\ memtable \notin Listed'
      /\ \A d \in Client : memtable \notin InHand(d)
  BY <1>1, <1>2, Places
<1>6. /\ Distinct(s)
      /\ \A i \in DOMAIN s : s[i] # memtable' /\ s[i] \notin Listed'
      /\ \A d \in Client \ {c} : \A i \in DOMAIN s : s[i] \notin InHand(d)
  BY <1>3, <1>5
<1>7. hand' = [hand EXCEPT ![c] = s]
  BY <1>1
<1> QED
  BY <1>4, <1>6, <1>7, HandMoves

LEMMA HeldOnceLimit ==
  ASSUME Shape, HeldOnce, NEW c \in Client, NEW immutable \in Seq(Ids), Distinct(immutable),
         Limit(c, immutable), UNCHANGED memtable,
         \A i \in DOMAIN immutable :
           /\ immutable[i] # memtable
           /\ \A d \in Client \ {c} : immutable[i] \notin InHand(d)
  PROVE  HeldOnce'
<1>1. CASE Len(immutable) > MaxMemtables
  <2> DEFINE s == <<Head(immutable)>>
  <2>1. immutable # <<>>
    BY <1>1, StorageEngineAssumption
  <2>2. 1 \in DOMAIN immutable /\ Head(immutable) = immutable[1]
    BY <2>1
  <2>3. hand' = [hand EXCEPT ![c] = s] /\ immutable_memtables' = Tail(immutable)
    BY <1>1 DEF Limit
  <2>4. Distinct(s) /\ \A i \in DOMAIN s : s[i] = immutable[1]
    BY <2>2 DEF Distinct
  <2> HIDE DEF s
  <2>5. Distinct(immutable_memtables')
    BY <2>1, <2>3, DistinctTail
  <2>6. \A m \in Listed' : m # immutable[1] /\ \E j \in DOMAIN immutable : m = immutable[j]
    BY <2>1, <2>3, DistinctTail DEF Listed
  <2>7. /\ memtable' \notin Listed'
        /\ \A d \in Client \ {c} : InHand(d) \cap ({memtable'} \cup Listed') = {}
    BY <2>6, Places
  <2>8. /\ immutable[1] # memtable' /\ immutable[1] \notin Listed'
        /\ \A d \in Client \ {c} : immutable[1] \notin InHand(d)
    BY <2>2, <2>6
  <2> QED
    BY <2>3, <2>4, <2>5, <2>7, <2>8, HandMoves
<1>2. CASE ~(Len(immutable) > MaxMemtables)
  <2> DEFINE s == <<>>
  <2>1. hand' = [hand EXCEPT ![c] = s] /\ immutable_memtables' = immutable
    BY <1>2 DEF Limit
  <2>2. Distinct(s) /\ DOMAIN s = {}
    BY DEF Distinct
  <2> HIDE DEF s
  <2>3. \A m \in Listed' : \E j \in DOMAIN immutable : m = immutable[j]
    BY <2>1 DEF Listed
  <2>4. /\ memtable' \notin Listed'
        /\ \A d \in Client \ {c} : InHand(d) \cap ({memtable'} \cup Listed') = {}
    BY <2>3, Places
  <2> QED
    BY <2>1, <2>2, <2>4, HandMoves
<1> QED
  BY <1>1, <1>2

LEMMA HeldOncePush ==
  ASSUME Shape, HeldOnce, NEW c \in Client, RotatePush(c)
  PROVE  HeldOnce'
<1> DEFINE m == hand[c][1]
<1>1. m \in Ids /\ m \in InHand(c)
  BY DEF Shape, TypeOK, HandShape, RotatePush, InHand
<1>2. m \notin Listed /\ m # memtable /\ \A d \in Client \ {c} : m \notin InHand(d)
  BY <1>1, Places
<1> HIDE DEF m
<1>3. \A i \in DOMAIN immutable_memtables :
        /\ immutable_memtables[i] # m /\ immutable_memtables[i] # memtable
        /\ \A d \in Client : immutable_memtables[i] \notin InHand(d)
  BY <1>2, Places DEF Listed
<1>4. immutable_memtables \in Seq(Ids) /\ Distinct(immutable_memtables)
  BY Places
<1> DEFINE immutable == Append(immutable_memtables, m)
<1>5. /\ immutable \in Seq(Ids) /\ Distinct(immutable)
      /\ \A i \in DOMAIN immutable :
           immutable[i] = m \/ \E j \in DOMAIN immutable_memtables : immutable[i] = immutable_memtables[j]
  BY <1>1, <1>3, <1>4, DistinctAppend
<1>6. Limit(c, immutable) /\ UNCHANGED memtable
  BY DEF RotatePush, m
<1> HIDE DEF immutable
<1>7. \A i \in DOMAIN immutable :
        immutable[i] # memtable /\ \A d \in Client \ {c} : immutable[i] \notin InHand(d)
  BY <1>2, <1>3, <1>5
<1> QED
  BY <1>5, <1>6, <1>7, HeldOnceLimit

LEMMA HeldOnceAgain ==
  ASSUME Shape, HeldOnce, NEW c \in Client, RotateAgain(c)
  PROVE  HeldOnce'
<1>1. Limit(c, immutable_memtables) /\ UNCHANGED memtable
  BY DEF RotateAgain
<1>2. \A i \in DOMAIN immutable_memtables :
        /\ immutable_memtables[i] # memtable
        /\ \A d \in Client : immutable_memtables[i] \notin InHand(d)
  BY Places DEF Listed
<1> QED
  BY <1>1, <1>2, Places, HeldOnceLimit

LEMMA HeldOnceDrain ==
  ASSUME Shape, HeldOnce, NEW c \in Client, CloseDrain(c)
  PROVE  HeldOnce'
<1>1. /\ hand' = [hand EXCEPT ![c] = immutable_memtables]
      /\ immutable_memtables' = <<>> /\ UNCHANGED memtable
  BY DEF CloseDrain
<1>2. Listed' = {} /\ Distinct(immutable_memtables')
  BY <1>1 DEF Listed, Distinct
<1>3. \A i \in DOMAIN immutable_memtables :
        /\ immutable_memtables[i] # memtable
        /\ \A d \in Client : immutable_memtables[i] \notin InHand(d)
  BY Places DEF Listed
<1> QED
  BY <1>1, <1>2, <1>3, Places, HandMoves

(* A flush empties the hands or, in close, takes the first of them.         *)
LEMMA HeldOnceFlush ==
  ASSUME Shape, HeldOnce, NEW c \in Client, FlushStep(c)
  PROVE  HeldOnce'
<1>1. UNCHANGED <<memtable, immutable_memtables>>
  BY DEF FlushStep, Flush, DrainFlush, CloseFlush
<1>2. Listed' = Listed
  BY <1>1 DEF Listed
<1>3. CASE hand' = [hand EXCEPT ![c] = <<>>]
  <2>1. Distinct(<<>>) /\ DOMAIN <<>> = {}
    BY DEF Distinct
  <2> QED
    BY <1>1, <1>2, <1>3, <2>1, Places, HandMoves
<1>4. CASE pc[c] = "drain_flush" /\ hand' = [hand EXCEPT ![c] = Tail(@)]
  <2> DEFINE s == Tail(hand[c])
  <2>1. hand[c] \in Seq(Ids) /\ hand[c] # <<>> /\ Distinct(hand[c])
    BY <1>4, Places DEF Shape, HandShape
  <2>2. Distinct(s) /\ \A i \in DOMAIN s : \E j \in DOMAIN hand[c] : s[i] = hand[c][j]
    BY <2>1, DistinctTail
  <2>3. hand' = [hand EXCEPT ![c] = s]
    BY <1>4 DEF Shape, TypeOK
  <2> HIDE DEF s
  <2>4. \A i \in DOMAIN s : s[i] \in InHand(c)
    BY <2>2 DEF InHand
  <2> QED
    BY <1>1, <1>2, <2>2, <2>3, <2>4, Places, HandMoves
<1>5. \/ hand' = [hand EXCEPT ![c] = <<>>]
      \/ pc[c] = "drain_flush" /\ hand' = [hand EXCEPT ![c] = Tail(@)]
  BY DEF FlushStep, Flush, DrainFlush, CloseFlush
<1> QED
  BY <1>3, <1>4, <1>5

LEMMA HeldOnceSame ==
  ASSUME HeldOnce, UNCHANGED <<memtable, immutable_memtables, hand>>
  PROVE  HeldOnce'
<1>1. Listed' = Listed /\ \A c : InHand(c)' = InHand(c)
  BY DEF Listed, InHand
<1> QED
  BY <1>1 DEF HeldOnce

LEMMA HeldOnceClone ==
  ASSUME Shape, HeldOnce, NEW c \in Client, CloseClone(c)
  PROVE  HeldOnce'
<1>1. UNCHANGED <<memtable, immutable_memtables>>
  BY DEF CloseClone
<1>2. CASE UNCHANGED hand
  BY <1>1, <1>2, HeldOnceSame
<1>3. CASE hand' = [hand EXCEPT ![c] = <<Len(heap) + 1>>]
  <2> DEFINE s == <<Len(heap) + 1>>
  <2>1. Distinct(s) /\ \A i \in DOMAIN s : s[i] = Len(heap) + 1
    BY DEF Distinct
  <2>2. hand' = [hand EXCEPT ![c] = s]
    BY <1>3
  <2> HIDE DEF s
  <2>3. Listed' = Listed
    BY <1>1 DEF Listed
  <2>4. \A i \in DOMAIN s : /\ s[i] # memtable' /\ s[i] \notin Listed'
                           /\ \A d \in Client : s[i] \notin InHand(d)
    BY <1>1, <2>1, <2>3, Places
  <2> QED
    BY <1>1, <2>1, <2>2, <2>3, <2>4, Places, HandMoves
<1> QED
  BY <1>2, <1>3 DEF CloseClone

LEMMA HeldOnceInit == Init => HeldOnce
BY DEF Init, HeldOnce, InHand, Listed

LEMMA HeldOnceStep == Shape /\ HeldOnce /\ [Next]_vars => HeldOnce'
<1> SUFFICES ASSUME Shape, HeldOnce, [Next]_vars PROVE HeldOnce'
  OBVIOUS
<1>1. CASE UNCHANGED <<memtable, immutable_memtables, hand, dropped, sstables, latest>>
  BY <1>1, HeldOnceSame
<1>2. ASSUME NEW c \in Client, Insert(c) PROVE HeldOnce'
  BY <1>2, HeldOnceSame DEF Insert
<1> QED
  BY <1>1, <1>2, MovingSteps, HeldOnceSwap, HeldOncePush, HeldOnceAgain, HeldOnceDrain,
     HeldOnceFlush, HeldOnceClone

(* A memtable is in one place at a time: active, in the immutable list, or  *)
(* in the hands of one client, and once there.  So rotate_memtable and      *)
(* close flush no memtable twice, and none that still takes writes, however *)
(* many clients rotate, evict and close at once.                            *)
THEOREM HeldOnceHolds == Spec => []HeldOnce
BY HeldOnceInit, HeldOnceStep, ShapeInvariant, PTL DEF Spec

-----------------------------------------------------------------------------
(* What a step makes of the entries: a memtable after it is empty, holds    *)
(* what one held before, or one entry more, the newest of its key; and the  *)
(* only step that changes a table is a flush that appends a memtable to     *)
(* level 0.                                                                 *)
LEMMA HeapEntries ==
  ASSUME Shape, [Next]_vars, NEW m \in Ids'
  PROVE  \/ heap'[m].data = NoEntries
         \/ \E n \in Ids : \/ heap'[m].data = heap[n].data
                           \/ \E k \in Key, e \in Entry :
                                /\ e.stamp = latest[k] + 1 /\ latest' = [latest EXCEPT ![k] = @ + 1]
                                /\ heap'[m].data = [heap[n].data EXCEPT ![k] = e]
<1>0. heap \in Seq(MemTableRec) /\ memtable \in 1..Len(heap) /\ Ids = 1..Len(heap)
      /\ heap[memtable] \in MemTableRec
  BY DEF Shape, TypeOK, Ids
<1>1. CASE m \in Ids /\ \A c \in Client : ~Insert(c)
  BY <1>1, HeapSteps
<1>2. ASSUME NEW c \in Client, Insert(c)
      PROVE  \E n \in Ids : \/ heap'[m].data = heap[n].data
                            \/ \E k \in Key, e \in Entry :
                                 /\ e.stamp = latest[k] + 1 /\ latest' = [latest EXCEPT ![k] = @ + 1]
                                 /\ heap'[m].data = [heap[n].data EXCEPT ![k] = e]
  <2> DEFINE k == call[c].key
             e == [val |-> call[c].val, sequence |-> taken[c], stamp |-> latest[k] + 1]
             mt == PutEntry(heap[memtable], k, e)
  <2>1. k \in Key /\ e \in Entry /\ e.stamp = latest[k] + 1
        /\ latest' = [latest EXCEPT ![k] = @ + 1]
    BY <1>2 DEF Shape, TypeOK, InCall, Insert, Request, Entry
  <2>2. heap' = [heap EXCEPT ![memtable] = mt]
    BY <1>2 DEF Insert, Shape, WritesActive
  <2> HIDE DEF k, e
  <2>3. mt.data = [heap[memtable].data EXCEPT ![k] = e]
    BY DEF PutEntry
  <2> HIDE DEF mt
  <2>4. heap'[memtable] = mt /\ Ids' = Ids /\ \A n \in Ids : n # memtable => heap'[n] = heap[n]
    BY <1>0, <2>2 DEF Ids
  <2>5. m = memtable => heap'[m].data = [heap[memtable].data EXCEPT ![k] = e]
    BY <2>3, <2>4
  <2>6. m # memtable => m \in Ids /\ heap'[m].data = heap[m].data
    BY <2>4
  <2> HIDE DEF mt
  <2> QED
    BY <1>0, <2>1, <2>5, <2>6, Zenon
<1>3. ASSUME m \notin Ids, NEW c \in Client, RotateSwap(c)
      PROVE  heap'[m].data = NoEntries
  <2> DEFINE fresh == NewMemTable(sequence_counter)
             old == [heap EXCEPT ![memtable].immutable = TRUE]
  <2>1. heap' = Append(old, fresh) /\ Len(old) = Len(heap)
    BY <1>0, <1>3 DEF RotateSwap
  <2>2. m = Len(heap) + 1 /\ heap'[m] = fresh
    BY <1>0, <1>3, <2>1 DEF Ids
  <2> QED
    BY <2>2 DEF NewMemTable
<1>4. ASSUME m \notin Ids, NEW c \in Client, CloseClone(c), heap[memtable].count # 0
      PROVE  heap'[m].data = heap[memtable].data
  <2> DEFINE clone == [heap[memtable] EXCEPT !.immutable = TRUE]
  <2>1. clone.data = heap[memtable].data
    BY <1>0, FreezeFacts
  <2>2. heap' = Append(heap, clone)
    BY <1>4 DEF CloseClone
  <2> HIDE DEF clone
  <2>3. m = Len(heap) + 1 /\ heap'[m] = clone
    BY <1>0, <1>4, <2>2 DEF Ids
  <2> QED
    BY <2>1, <2>3
<1>5. m \notin Ids =>
        \E c \in Client : RotateSwap(c) \/ Insert(c) \/ (CloseClone(c) /\ heap[memtable].count # 0)
  <2>1. ASSUME NEW c \in Client, TakeSequence(c) PROVE Ids' = Ids
    BY <1>0, <2>1 DEF TakeSequence, Ids
  <2> QED
    BY <2>1, HeapChanges DEF Ids
<1> QED
  BY <1>0, <1>1, <1>2, <1>3, <1>4, <1>5

LEMMA TableSteps ==
  ASSUME Shape, [Next]_vars
  PROVE  \/ UNCHANGED sstables
         \/ \E m \in Memtables : sstables' = [sstables EXCEPT ![0] = Append(@, heap[m].data)]
<1>1. ASSUME NEW c \in Client, FlushStep(c)
      PROVE  \/ UNCHANGED sstables
             \/ \E m \in Memtables : sstables' = [sstables EXCEPT ![0] = Append(@, heap[m].data)]
  <2>1. PICK r : FlushMemtable(hand[c][1], r)
    BY <1>1 DEF FlushStep, Flush, DrainFlush, CloseFlush
  <2>2. hand[c] \in Seq(Ids) /\ hand[c] # <<>>
    BY <1>1 DEF FlushStep, Flush, DrainFlush, CloseFlush, Shape, TypeOK, HandShape
  <2>3. hand[c][1] \in Memtables
    BY <2>2 DEF InHand, Memtables
  <2> QED
    BY <2>1, <2>3 DEF FlushMemtable
<1> QED
  BY <1>1, MovingSteps DEF RotateSwap, RotatePush, RotateAgain, CloseDrain, Insert, CloseClone
LEMMA TablesComeFrom ==
  ASSUME Shape, [Next]_vars, NEW i \in TableIndex'
  PROVE  \/ i \in TableIndex /\ sstables'[i[1]][i[2]] = sstables[i[1]][i[2]]
         \/ \E m \in Memtables : sstables'[i[1]][i[2]] = heap[m].data
<1>1. CASE UNCHANGED sstables
  BY <1>1 DEF TableIndex
<1>2. ASSUME NEW m \in Memtables, sstables' = [sstables EXCEPT ![0] = Append(@, heap[m].data)]
      PROVE  \/ i \in TableIndex /\ sstables'[i[1]][i[2]] = sstables[i[1]][i[2]]
             \/ sstables'[i[1]][i[2]] = heap[m].data
  <2>1. i[1] \in Level /\ i[2] \in DOMAIN sstables'[i[1]] /\ i = <<i[1], i[2]>>
    BY DEF TableIndex
  <2>2. /\ 0 \in Level /\ sstables \in [Level -> Seq(EntryMap)] /\ sstables[0] \in Seq(EntryMap)
        /\ heap[m].data \in EntryMap
    <3>1. heap[m] \in MemTableRec
      BY IdsHeld DEF Shape, TypeOK, Ids
    <3> QED
      BY <3>1, StorageEngineAssumption, SMTT(30) DEF Level, Shape, TypeOK, MemTableRec
  <2>3. CASE i[1] # 0
    <3>1. sstables'[i[1]] = sstables[i[1]]
      BY <1>2, <2>1, <2>2, <2>3
    <3>2. <<i[1], i[2]>> \in TableIndex
      BY <2>1, <3>1 DEF TableIndex
    <3> QED
      BY <2>1, <3>1, <3>2
  <2>4. CASE i[1] = 0
    <3> DEFINE tables == Append(sstables[0], heap[m].data)
               n == Len(sstables[0])
    <3>1. sstables'[0] = tables
      BY <1>2, <2>2
    <3>2. /\ DOMAIN tables = 1..(n + 1) /\ DOMAIN sstables[0] = 1..n /\ n \in Nat
          /\ tables[n + 1] = heap[m].data /\ \A j \in 1..n : tables[j] = sstables[0][j]
      BY <2>2, SeqAppend
    <3> HIDE DEF tables, n
    <3>3. CASE i[2] = n + 1
      BY <2>4, <3>1, <3>2, <3>3
    <3>4. CASE i[2] # n + 1
      <4>1. i[2] \in DOMAIN sstables[0] /\ sstables'[0][i[2]] = sstables[0][i[2]]
        BY <2>1, <2>4, <3>1, <3>2, <3>4
      <4>2. <<0, i[2]>> \in TableIndex
        BY <2>2, <4>1 DEF TableIndex
      <4> QED
        BY <2>1, <2>4, <4>1, <4>2
    <3> QED
      BY <3>3, <3>4
  <2> QED
    BY <2>3, <2>4
<1> QED
  BY <1>1, <1>2, TableSteps

(* So every table stays where it is.                                        *)
LEMMA TablesStay ==
  ASSUME Shape, [Next]_vars
  PROVE  \A i \in TableIndex : i \in TableIndex' /\ sstables'[i[1]][i[2]] = sstables[i[1]][i[2]]
<1>1. CASE UNCHANGED sstables
  BY <1>1, TablesUnchanged
<1>2. ASSUME NEW c \in Client, FlushStep(c)
      PROVE  \A i \in TableIndex : i \in TableIndex' /\ sstables'[i[1]][i[2]] = sstables[i[1]][i[2]]
  <2>1. PICK r : FlushMemtable(hand[c][1], r)
    BY <1>2 DEF FlushStep, Flush, DrainFlush, CloseFlush
  <2>2. hand[c][1] \in Ids
    BY <1>2 DEF FlushStep, Flush, DrainFlush, CloseFlush, Shape, TypeOK, HandShape
  <2> QED
    BY <2>1, <2>2, FlushKeeps
<1> QED
  BY <1>1, <1>2, MovingSteps DEF RotateSwap, RotatePush, RotateAgain, CloseDrain, Insert, CloseClone
-----------------------------------------------------------------------------
(* The order in which lookups ask the places, for one client: with two, a   *)
(* memtable that was rotated out first can come into the list last.         *)
OneClient == \A c, d \in Client : c = d

NotOlder(d, e) == \A k \in KeysOf(d) \cap KeysOf(e) : d[k].stamp >= e[k].stamp
Deeper(i, j) == i[1] < j[1] \/ (i[1] = 0 /\ j[1] = 0 /\ i[2] > j[2])
InHands == {"push", "flush", "drain_flush", "clone_flush"}

(* The memtables: the active one, the list from its end on, and what the    *)
(* client holds, which is newer than the list before the push and older     *)
(* than the list once it was taken from it.                                 *)
ActiveNewest == \A m \in Memtables : NotOlder(heap[memtable].data, heap[m].data)
ListByAge ==
  \A i, j \in DOMAIN immutable_memtables : i < j =>
    NotOlder(heap[immutable_memtables[j]].data, heap[immutable_memtables[i]].data)
HandByAge(c) ==
  /\ \A h \in InHand(c), m \in Listed : IF pc[c] = "push" THEN NotOlder(heap[h].data, heap[m].data)
                                                         ELSE NotOlder(heap[m].data, heap[h].data)
  /\ \A i, j \in DOMAIN hand[c] : i < j => NotOlder(heap[hand[c][j]].data, heap[hand[c][i]].data)
  /\ pc[c] \in {"drain_flush", "clone", "clone_flush"} => immutable_memtables = <<>>

(* The tables: older than all memtables, and ordered among themselves.      *)
TablesOldest ==
  \A m \in Memtables, i \in TableIndex : NotOlder(heap[m].data, sstables[i[1]][i[2]])
TablesByAge ==
  \A i, j \in TableIndex : Deeper(i, j) => NotOlder(sstables[i[1]][i[2]], sstables[j[1]][j[2]])

(* No entry is newer than the newest write of its key.                      *)
Within(data, top) == \A k \in KeysOf(data) : data[k].stamp <= top[k]
AllKnown ==
  /\ \A m \in Ids : Within(heap[m].data, latest)
  /\ \A i \in TableIndex : Within(sstables[i[1]][i[2]], latest)

MemtablesByAge == ActiveNewest /\ ListByAge /\ \A c \in Client : HandByAge(c)
ByAge == Shape /\ HeldOnce /\ MemtablesByAge
Aged == ByAge /\ TablesOldest /\ TablesByAge /\ AllKnown

(* No memtable has an older entry than d.                                   *)
AllNewer(d) == \A m \in Memtables : NotOlder(heap[m].data, d)

(* What lookups need of all this: level 0 is older than the memtables, and  *)
(* ordered.                                                                 *)
Level0ByAge ==
  /\ \A i \in DOMAIN sstables[0] : AllNewer(sstables[0][i])
  /\ \A i, j \in DOMAIN sstables[0] : i > j => NotOlder(sstables[0][i], sstables[0][j])

LEMMA DataTypes ==
  ASSUME Shape
  PROVE  /\ heap \in Seq(MemTableRec) /\ Ids = 1..Len(heap) /\ Len(heap) \in Nat
         /\ \A m \in Ids : heap[m] \in MemTableRec /\ heap[m].data \in EntryMap
         /\ \A i \in TableIndex : sstables[i[1]][i[2]] \in EntryMap
         /\ latest \in [Key -> Nat]
<1>1. heap \in Seq(MemTableRec) /\ Ids = 1..Len(heap) /\ Len(heap) \in Nat
  BY DEF Shape, TypeOK, Ids
<1>2. \A m \in Ids : heap[m] \in MemTableRec /\ heap[m].data \in EntryMap
  <2>1. \A m \in Ids : heap[m] \in MemTableRec
    BY <1>1
  <2> QED
    BY <2>1 DEF MemTableRec
<1>3. \A i \in TableIndex : sstables[i[1]][i[2]] \in EntryMap
  BY DEF TableIndex, Shape, TypeOK
<1>4. latest \in [Key -> Nat]
  BY DEF Shape, TypeOK
<1> QED
  BY <1>1, <1>2, <1>3, <1>4

LEMMA NotOlderFacts ==
  /\ \A d : NotOlder(d, NoEntries) /\ NotOlder(NoEntries, d)
  /\ \A d \in EntryMap : NotOlder(d, d)
<1>1. KeysOf(NoEntries) = {}
  BY DEF KeysOf, NoEntries
<1>2. ASSUME NEW d \in EntryMap, NEW k \in KeysOf(d) PROVE d[k].stamp >= d[k].stamp
  <2>1. d[k] \in Entry
    BY DEF KeysOf, EntryMap
  <2>2. d[k].stamp \in Nat
    BY <2>1 DEF Entry
  <2> QED
    BY <2>2
<1> QED
  BY <1>1, <1>2 DEF NotOlder

(* Which steps can move the client to a place where it holds memtables.     *)
Quiet ==
  /\ UNCHANGED <<memtable, immutable_memtables, hand, dropped, sstables, latest>>
  /\ \A d \in Client : \/ pc'[d] = pc[d]
                       \/ pc'[d] \notin InHands \cup {"clone"} /\ pc[d] \notin InHands

LEMMA QuietSteps ==
  ASSUME Shape, [Next]_vars
  PROVE  \/ Quiet
         \/ \E c \in Client : \/ RotateSwap(c) \/ RotatePush(c) \/ RotateAgain(c)
                              \/ CloseDrain(c) \/ FlushStep(c) \/ Insert(c) \/ CloseClone(c)
<1>0. pc \in [Client -> Steps]
  BY DEF Shape, TypeOK
<1>1. CASE UNCHANGED vars
  BY <1>1 DEF Quiet, vars, shared, private, history
<1>2. ASSUME NEW c \in Client, Invoke(c) PROVE Quiet
  <2>1. PICK r \in Requests : Enter(c, r) \/ Reject(c, r) \/ BeginClose(c, r)
    BY <1>2 DEF Invoke
  <2>2. r.op \in OpName
    BY <2>1, StorageEngineAssumption DEF Requests, Request
  <2>3. UNCHANGED <<memtable, immutable_memtables, hand, dropped, sstables, latest>> /\ pc[c] = "idle"
    BY <2>1 DEF Enter, Reject, BeginClose, Begin
  <2>4. FirstStep(r.op) \notin InHands \cup {"clone"}
    BY <2>2 DEF FirstStep, InHands, OpName
  <2>5. pc' = [pc EXCEPT ![c] = "idle"] \/ pc' = [pc EXCEPT ![c] = FirstStep(r.op)]
    BY <2>1 DEF Enter, Reject, BeginClose, Return, Goto
  <2> HIDE DEF FirstStep
  <2> QED
    BY <1>0, <2>3, <2>4, <2>5 DEF Quiet, InHands
<1>3. ASSUME NEW c \in Client, LockStep(c)
      PROVE  Quiet \/ RotateSwap(c) \/ RotatePush(c) \/ RotateAgain(c) \/ CloseDrain(c)
  BY <1>0, <1>3 DEF LockStep, GetImmutable, GetFrom, ScanImmutable, ScanStep, Return, Goto,
                    Quiet, InHands, shared, history
<1>4. ASSUME NEW c \in Client, FreeStep(c)
      PROVE  Quiet \/ Insert(c) \/ CloseClone(c)
  BY <1>0, <1>4 DEF FreeStep, CheckRotate, TakeSequence, GetMemtable, GetTables, GetFrom,
              ScanMemtable, ScanStep, ScanTables, Return, Goto, Quiet, InHands, shared, history
<1> QED
  BY <1>1, <1>2, <1>3, <1>4 DEF Next
LEMMA NoInsert ==
  ASSUME Shape, UNCHANGED latest
  PROVE  \A c \in Client : ~Insert(c)
<1> SUFFICES ASSUME NEW c \in Client, Insert(c) PROVE FALSE
  OBVIOUS
<1>1. call[c].key \in Key /\ latest[call[c].key] \in Nat
  BY DEF Insert, Shape, TypeOK, InCall, Request
<1>2. latest'[call[c].key] = latest[call[c].key] + 1
  BY <1>1 DEF Insert, Shape, TypeOK
<1> QED
  BY <1>1, <1>2

(* The newest write of a key only gets newer.                               *)
LEMMA LatestGrows ==
  ASSUME Shape, [Next]_vars
  PROVE  \A d \in EntryMap : Within(d, latest) => Within(d, latest')
<1>0. latest \in [Key -> Nat] /\ \A k \in Key : latest[k] \in Nat
  BY DataTypes
<1>1. \A k \in Key : latest'[k] >= latest[k] /\ latest'[k] \in Nat
  <2>1. CASE UNCHANGED latest
    BY <1>0, <2>1
  <2>2. ASSUME NEW c \in Client, Insert(c)
        PROVE  \A k \in Key : latest'[k] >= latest[k] /\ latest'[k] \in Nat
    BY <1>0, <2>2 DEF Insert
  <2>3. UNCHANGED latest \/ \E c \in Client : Insert(c)
    BY MovingSteps DEF RotateSwap, RotatePush, RotateAgain, CloseDrain, CloseClone, FlushStep,
       Flush, DrainFlush, CloseFlush, history
  <2> QED
    BY <2>1, <2>2, <2>3
<1>2. ASSUME NEW d \in EntryMap, Within(d, latest) PROVE Within(d, latest')
  <2> SUFFICES ASSUME NEW k \in KeysOf(d) PROVE d[k].stamp <= latest'[k]
    BY DEF Within
  <2>1. k \in Key /\ d[k] \in Entry
    BY DEF KeysOf, EntryMap
  <2>2. d[k].stamp \in Nat /\ d[k].stamp <= latest[k]
    BY <1>2, <2>1 DEF Within, Entry
  <2> QED
    BY <1>0, <1>1, <2>1, <2>2
<1> QED
  BY <1>2

LEMMA KnownStep ==
  ASSUME Shape, AllKnown, [Next]_vars
  PROVE  AllKnown'
<1>0. /\ \A n \in Ids : heap[n].data \in EntryMap /\ Within(heap[n].data, latest)
      /\ \A i \in TableIndex : sstables[i[1]][i[2]] \in EntryMap /\ Within(sstables[i[1]][i[2]], latest)
      /\ \A k \in Key : latest[k] \in Nat
      /\ latest \in [Key -> Nat]
  BY DataTypes DEF AllKnown
<1>2. \A d \in EntryMap : Within(d, latest) => Within(d, latest')
  BY LatestGrows
<1>3. ASSUME NEW m \in Ids' PROVE Within(heap'[m].data, latest')
  <2>1. CASE heap'[m].data = NoEntries
    BY <2>1 DEF Within, KeysOf, NoEntries
  <2>2. CASE \E n \in Ids : heap'[m].data = heap[n].data
    BY <1>0, <1>2, <2>2
  <2>3. ASSUME NEW n \in Ids, NEW k \in Key, NEW e \in Entry,
               e.stamp = latest[k] + 1, latest' = [latest EXCEPT ![k] = @ + 1],
               heap'[m].data = [heap[n].data EXCEPT ![k] = e]
        PROVE  Within(heap'[m].data, latest')
    <3>1. \A j \in Key : heap'[m].data[j] = IF j = k THEN e ELSE heap[n].data[j]
      BY <1>0, <2>3 DEF EntryMap
    <3>2. e.stamp <= latest'[k] /\ \A j \in Key : j # k => latest'[j] = latest[j]
      BY <1>0, <2>3
    <3> QED
      BY <1>0, <3>1, <3>2 DEF Within, KeysOf
  <2>4. \/ heap'[m].data = NoEntries
        \/ \E n \in Ids : \/ heap'[m].data = heap[n].data
                          \/ \E k \in Key, e \in Entry :
                               /\ e.stamp = latest[k] + 1 /\ latest' = [latest EXCEPT ![k] = @ + 1]
                               /\ heap'[m].data = [heap[n].data EXCEPT ![k] = e]
    BY HeapEntries
  <2> QED
    BY <2>1, <2>2, <2>3, <2>4, Zenon
<1>4. ASSUME NEW i \in TableIndex' PROVE Within(sstables'[i[1]][i[2]], latest')
  <2>1. CASE i \in TableIndex /\ sstables'[i[1]][i[2]] = sstables[i[1]][i[2]]
    BY <1>0, <1>2, <2>1
  <2>2. CASE \E m \in Ids : sstables'[i[1]][i[2]] = heap[m].data
    BY <1>0, <1>2, <2>2
  <2> QED
    BY <2>1, <2>2, TablesComeFrom, IdsHeld
<1> QED
  BY <1>3, <1>4 DEF AllKnown
(* A step that inserts nothing: what the memtables hold it holds again.     *)
MemtablesFrom ==
  \A m \in Memtables' : \/ heap'[m].data = NoEntries
                        \/ \E n \in Memtables : heap'[m].data = heap[n].data

LEMMA AgesQuiet ==
  ASSUME ByAge, [Next]_vars, Quiet
  PROVE  MemtablesByAge' /\ MemtablesFrom
<1>0. /\ UNCHANGED <<memtable, immutable_memtables, hand, dropped, sstables, latest>>
      /\ \A d \in Client : \/ pc'[d] = pc[d]
                           \/ pc'[d] \notin InHands \cup {"clone"} /\ pc[d] \notin InHands
  BY DEF Quiet
<1>1. /\ Memtables' = Memtables /\ Listed' = Listed /\ \A d \in Client : InHand(d)' = InHand(d)
  BY <1>0 DEF Memtables, Listed, InHand
<1>2. \A m \in Memtables : heap'[m].data = heap[m].data
  BY <1>0, NoInsert, HeapSteps, IdsHeld DEF ByAge
<1>3. memtable \in Memtables /\ Listed \subseteq Memtables /\ \A d \in Client : InHand(d) \subseteq Memtables
  BY DEF Memtables
<1>4. ActiveNewest'
  BY <1>0, <1>1, <1>2, <1>3 DEF ByAge, MemtablesByAge, ActiveNewest
<1>5. ListByAge'
  <2>1. \A i \in DOMAIN immutable_memtables : immutable_memtables[i] \in Listed
    BY DEF Listed
  <2> QED
    BY <1>0, <1>2, <1>3, <2>1 DEF ByAge, MemtablesByAge, ListByAge
<1>6. ASSUME NEW d \in Client PROVE HandByAge(d)'
  <2>1. \A i \in DOMAIN hand[d] : hand[d][i] \in InHand(d)
    BY DEF InHand
  <2>2. pc[d] \notin InHands => InHand(d) = {}
    BY DEF ByAge, Shape, HandShape, InHand, InHands
  <2>3. HandByAge(d)
    BY DEF ByAge, MemtablesByAge
  <2>4. CASE pc'[d] = pc[d]
    BY <1>0, <1>1, <1>2, <1>3, <2>1, <2>3, <2>4 DEF HandByAge
  <2>5. CASE pc'[d] \notin InHands \cup {"clone"} /\ pc[d] \notin InHands
    BY <1>0, <1>1, <2>1, <2>2, <2>5 DEF HandByAge, InHands
  <2> QED
    BY <1>0, <2>4, <2>5
<1> QED
  BY <1>1, <1>2, <1>4, <1>5, <1>6 DEF MemtablesByAge, MemtablesFrom

LEMMA AgesSwap ==
  ASSUME OneClient, ByAge, [Next]_vars, NEW c \in Client, RotateSwap(c)
  PROVE  MemtablesByAge' /\ MemtablesFrom
<1>1. /\ hand' = [hand EXCEPT ![c] = <<memtable>>] /\ memtable' = Len(heap) + 1
      /\ UNCHANGED immutable_memtables /\ pc' = [pc EXCEPT ![c] = "push"]
      /\ heap' = Append([heap EXCEPT ![memtable].immutable = TRUE], NewMemTable(sequence_counter))
  BY DEF RotateSwap, Goto
<1>2. /\ heap \in Seq(MemTableRec) /\ hand \in [Client -> Seq(Ids)] /\ pc \in [Client -> Steps]
      /\ memtable \in Ids /\ \A d \in Client : d = c
  BY DEF OneClient, ByAge, Shape, TypeOK
<1>3. \A m \in Memtables : heap'[m].data = heap[m].data
  BY OneStepAtATime, HeapSteps, IdsHeld DEF ByAge
<1>4. heap'[memtable'].data = NoEntries
  <2>1. heap'[Len(heap) + 1] = NewMemTable(sequence_counter)
    BY <1>1, <1>2 DEF Ids
  <2> QED
    BY <1>1, <2>1 DEF NewMemTable
<1>5. /\ Listed' = Listed /\ InHand(c)' = {memtable} /\ hand'[c] = <<memtable>> /\ pc'[c] = "push"
      /\ memtable \in Memtables /\ Listed \subseteq Memtables
  BY <1>1, <1>2 DEF Listed, InHand, Memtables
<1>6. Memtables' \subseteq {memtable'} \cup Memtables
  BY <1>2, <1>5 DEF Memtables
<1>7. ActiveNewest'
  BY <1>4, NotOlderFacts DEF ActiveNewest
<1>7a. ActiveNewest /\ ListByAge
  BY DEF ByAge, MemtablesByAge
<1>8. ListByAge'
  <2>1. \A i \in DOMAIN immutable_memtables : immutable_memtables[i] \in Memtables
    BY <1>5 DEF Listed
  <2> QED
    BY <1>1, <1>3, <1>7a, <2>1 DEF ListByAge
<1>9. HandByAge(c)'
  <2>1. \A m \in Listed : NotOlder(heap[memtable].data, heap[m].data)
    BY <1>5, <1>7a DEF ActiveNewest
  <2>2. \A h \in InHand(c)', m \in Listed' : NotOlder(heap'[h].data, heap'[m].data)
    BY <1>3, <1>5, <2>1
  <2>3. DOMAIN hand'[c] = {1} /\ \A i, j \in {1} : ~(i < j)
    BY <1>5
  <2> QED
    BY <1>5, <2>2, <2>3 DEF HandByAge
<1> QED
  BY <1>2, <1>3, <1>4, <1>6, <1>7, <1>8, <1>9 DEF MemtablesByAge, MemtablesFrom

(* The list immutable, whose entries are in the order of their age, becomes *)
(* the list, or its head goes to the client's hands.                        *)
LEMMA AgesLimit ==
  ASSUME OneClient, ByAge, [Next]_vars, NEW c \in Client, NEW immutable \in Seq(Ids),
         Limit(c, immutable), UNCHANGED <<memtable, latest>>,
         \A i \in DOMAIN immutable : immutable[i] \in Memtables,
         \A i, j \in DOMAIN immutable : i < j =>
           NotOlder(heap[immutable[j]].data, heap[immutable[i]].data)
  PROVE  MemtablesByAge' /\ MemtablesFrom
<1>1. /\ hand \in [Client -> Seq(Ids)] /\ pc \in [Client -> Steps] /\ \A d \in Client : d = c
      /\ MaxMemtables \in Nat /\ DOMAIN immutable = 1..Len(immutable) /\ Len(immutable) \in Nat
  BY StorageEngineAssumption DEF OneClient, ByAge, Shape, TypeOK
<1>2. \A m \in Memtables : heap'[m].data = heap[m].data
  BY NoInsert, HeapSteps, IdsHeld DEF ByAge
<1>3. ActiveNewest /\ memtable \in Memtables
  BY DEF ByAge, MemtablesByAge, Memtables
<1>4. CASE Len(immutable) > MaxMemtables
  <2>1. /\ immutable_memtables' = Tail(immutable)
        /\ hand' = [hand EXCEPT ![c] = <<Head(immutable)>>]
        /\ pc' = [pc EXCEPT ![c] = "flush"]
    BY <1>4 DEF Limit, Goto
  <2>2. /\ hand'[c] = <<immutable[1]>> /\ pc'[c] = "flush" /\ 1 \in DOMAIN immutable
        /\ InHand(c)' = {immutable[1]}
    BY <1>1, <1>4, <2>1 DEF InHand
  <2>3. /\ DOMAIN immutable_memtables' = 1..(Len(immutable) - 1)
        /\ \A i \in 1..(Len(immutable) - 1) : /\ i + 1 \in DOMAIN immutable /\ 1 < i + 1
                                             /\ immutable_memtables'[i] = immutable[i + 1]
    BY <1>1, <1>4, <2>1
  <2>4. \A m \in Listed' : m \in Memtables /\ NotOlder(heap[m].data, heap[immutable[1]].data)
    BY <2>2, <2>3, SMTT(30) DEF Listed
  <2>5. Memtables' \subseteq Memtables
    BY <1>1, <1>3, <2>2, <2>4 DEF Memtables
  <2>6. ActiveNewest'
    BY <1>2, <1>3, <2>5 DEF ActiveNewest
  <2>7. ListByAge'
    <3> SUFFICES ASSUME NEW i \in DOMAIN immutable_memtables', NEW j \in DOMAIN immutable_memtables', i < j
                 PROVE  NotOlder(heap'[immutable_memtables'[j]].data, heap'[immutable_memtables'[i]].data)
      BY DEF ListByAge
    <3>1. i + 1 \in DOMAIN immutable /\ j + 1 \in DOMAIN immutable /\ i + 1 < j + 1
      BY <1>1, <2>3
    <3> QED
      BY <1>2, <2>3, <3>1
  <2>8. HandByAge(c)'
    <3>1. DOMAIN hand'[c] = {1} /\ \A i, j \in {1} : ~(i < j)
      BY <2>2
    <3>2. \A h \in InHand(c)', m \in Listed' : NotOlder(heap'[m].data, heap'[h].data)
      BY <1>2, <2>2, <2>4
    <3> QED
      BY <2>2, <3>1, <3>2 DEF HandByAge
  <2> QED
    BY <1>1, <1>2, <2>5, <2>6, <2>7, <2>8 DEF MemtablesByAge, MemtablesFrom
<1>5. CASE ~(Len(immutable) > MaxMemtables)
  <2>1. /\ immutable_memtables' = immutable
        /\ hand' = [hand EXCEPT ![c] = <<>>]
        /\ pc' = [pc EXCEPT ![c] = "sequence"]
    BY <1>5 DEF Limit, Goto
  <2>2. hand'[c] = <<>> /\ pc'[c] = "sequence" /\ InHand(c)' = {} /\ DOMAIN hand'[c] = {}
    BY <1>1, <2>1 DEF InHand
  <2>3. Listed' \subseteq Memtables
    BY <2>1 DEF Listed
  <2>4. Memtables' \subseteq Memtables
    BY <1>1, <1>3, <2>2, <2>3 DEF Memtables
  <2>5. ActiveNewest'
    BY <1>2, <1>3, <2>4 DEF ActiveNewest
  <2>6. ListByAge'
    BY <1>2, <2>1 DEF ListByAge
  <2>7. HandByAge(c)'
    BY <2>2 DEF HandByAge
  <2> QED
    BY <1>1, <1>2, <2>4, <2>5, <2>6, <2>7 DEF MemtablesByAge, MemtablesFrom
<1> QED
  BY <1>4, <1>5

LEMMA AgesPush ==
  ASSUME OneClient, ByAge, [Next]_vars, NEW c \in Client, RotatePush(c)
  PROVE  MemtablesByAge' /\ MemtablesFrom
<1> DEFINE m == hand[c][1]
           n == Len(immutable_memtables)
           immutable == Append(immutable_memtables, m)
<1>1. m \in Ids /\ m \in InHand(c) /\ immutable_memtables \in Seq(Ids) /\ n \in Nat
  BY DEF ByAge, Shape, TypeOK, HandShape, RotatePush, InHand
<1>2. /\ immutable \in Seq(Ids) /\ DOMAIN immutable = 1..(n + 1) /\ DOMAIN immutable_memtables = 1..n
      /\ immutable[n + 1] = m /\ \A i \in 1..n : immutable[i] = immutable_memtables[i]
  BY <1>1, SeqAppend
<1>3. Limit(c, immutable) /\ UNCHANGED <<memtable, latest>>
  BY DEF RotatePush, history
<1>4. \A i \in 1..n : NotOlder(heap[m].data, heap[immutable_memtables[i]].data)
  <2>1. HandByAge(c) /\ pc[c] = "push"
    BY DEF ByAge, MemtablesByAge, RotatePush
  <2>2. \A i \in 1..n : immutable_memtables[i] \in Listed
    BY <1>2 DEF Listed
  <2> QED
    BY <1>1, <2>1, <2>2 DEF HandByAge
<1> HIDE DEF m, immutable, n
<1>5. \A i \in DOMAIN immutable : immutable[i] \in Memtables
  <2>1. m \in Memtables /\ \A i \in 1..n : immutable_memtables[i] \in Memtables
    BY <1>1, <1>2 DEF Memtables, Listed
  <2> QED
    BY <1>1, <1>2, <2>1
<1>6. ASSUME NEW i \in DOMAIN immutable, NEW j \in DOMAIN immutable, i < j
      PROVE  NotOlder(heap[immutable[j]].data, heap[immutable[i]].data)
  <2>1. i \in 1..n /\ (j = n + 1 \/ j \in 1..n)
    BY <1>1, <1>2, <1>6
  <2>2. ListByAge
    BY DEF ByAge, MemtablesByAge
  <2> QED
    BY <1>2, <1>4, <1>6, <2>1, <2>2 DEF ListByAge
<1> QED
  BY <1>2, <1>3, <1>5, <1>6, AgesLimit

LEMMA AgesAgain ==
  ASSUME OneClient, ByAge, [Next]_vars, NEW c \in Client, RotateAgain(c)
  PROVE  MemtablesByAge' /\ MemtablesFrom
<1>1. Limit(c, immutable_memtables) /\ UNCHANGED <<memtable, latest>>
  BY DEF RotateAgain, history
<1>2. immutable_memtables \in Seq(Ids) /\ ListByAge
      /\ \A i \in DOMAIN immutable_memtables : immutable_memtables[i] \in Memtables
  BY DEF ByAge, MemtablesByAge, Shape, TypeOK, Memtables, Listed
<1> QED
  BY <1>1, <1>2, AgesLimit DEF ListByAge
LEMMA AgesDrain ==
  ASSUME OneClient, ByAge, [Next]_vars, NEW c \in Client, CloseDrain(c)
  PROVE  MemtablesByAge' /\ MemtablesFrom
<1>1. /\ hand \in [Client -> Seq(Ids)] /\ pc \in [Client -> Steps] /\ \A d \in Client : d = c
      /\ immutable_memtables' = <<>> /\ hand' = [hand EXCEPT ![c] = immutable_memtables]
      /\ UNCHANGED <<memtable, latest>>
      /\ pc'[c] \in {"clone", "drain_flush"}
  BY DEF OneClient, ByAge, Shape, TypeOK, CloseDrain, Goto, history
<1>2. \A m \in Memtables : heap'[m].data = heap[m].data
  BY <1>1, NoInsert, HeapSteps, IdsHeld DEF ByAge
<1>3. ActiveNewest /\ ListByAge /\ memtable \in Memtables
      /\ \A i \in DOMAIN immutable_memtables : immutable_memtables[i] \in Memtables
  BY DEF ByAge, MemtablesByAge, Memtables, Listed
<1>4. Listed' = {} /\ InHand(c)' = Listed /\ hand'[c] = immutable_memtables
  BY <1>1 DEF Listed, InHand
<1>5. Memtables' \subseteq Memtables
  BY <1>1, <1>4 DEF Memtables
<1>6. ActiveNewest'
  BY <1>1, <1>2, <1>3, <1>5 DEF ActiveNewest
<1>7. ListByAge'
  BY <1>1 DEF ListByAge
<1>8. HandByAge(c)'
  BY <1>1, <1>2, <1>3, <1>4 DEF HandByAge, ListByAge
<1> QED
  BY <1>1, <1>2, <1>5, <1>6, <1>7, <1>8 DEF MemtablesByAge, MemtablesFrom

LEMMA AgesClone ==
  ASSUME OneClient, ByAge, [Next]_vars, NEW c \in Client, CloseClone(c)
  PROVE  MemtablesByAge' /\ MemtablesFrom
<1>1. /\ hand \in [Client -> Seq(Ids)] /\ pc \in [Client -> Steps] /\ \A d \in Client : d = c
      /\ UNCHANGED <<memtable, immutable_memtables, latest>> /\ pc[c] = "clone"
  BY DEF OneClient, ByAge, Shape, TypeOK, CloseClone, history
<1>2. \A m \in Memtables : heap'[m].data = heap[m].data
  BY <1>1, NoInsert, HeapSteps, IdsHeld DEF ByAge
<1>3. ActiveNewest /\ memtable \in Memtables /\ immutable_memtables = <<>> /\ Listed' = {}
  BY <1>1 DEF ByAge, MemtablesByAge, HandByAge, Memtables, Listed
<1>4. ListByAge'
  BY <1>1, <1>3 DEF ListByAge
<1>5. CASE heap[memtable].count = 0
  <2>1. UNCHANGED hand /\ pc'[c] = "idle" /\ hand[c] = <<>>
    BY <1>1, <1>5 DEF CloseClone, Return, Goto, ByAge, Shape, HandShape
  <2>2. InHand(c)' = {} /\ DOMAIN hand'[c] = {}
    BY <2>1 DEF InHand
  <2>3. Memtables' \subseteq Memtables
    BY <1>1, <1>3, <2>2 DEF Memtables
  <2>4. ActiveNewest'
    BY <1>1, <1>2, <1>3, <2>3 DEF ActiveNewest
  <2>5. HandByAge(c)'
    BY <2>1, <2>2 DEF HandByAge
  <2> QED
    BY <1>1, <1>2, <1>4, <2>3, <2>4, <2>5 DEF MemtablesByAge, MemtablesFrom
<1>6. CASE heap[memtable].count # 0
  <2> DEFINE clone == [heap[memtable] EXCEPT !.immutable = TRUE]
             n == Len(heap) + 1
  <2>1. /\ heap' = Append(heap, clone) /\ hand'[c] = <<n>> /\ pc'[c] = "clone_flush"
    BY <1>1, <1>6 DEF CloseClone, Goto
  <2>2. /\ heap \in Seq(MemTableRec) /\ memtable \in Ids /\ heap[memtable] \in MemTableRec
        /\ heap[memtable].data \in EntryMap
    BY DataTypes DEF ByAge, Shape, TypeOK
  <2>3. clone.data = heap[memtable].data
    BY <2>2, FreezeFacts
  <2> HIDE DEF clone
  <2>4. heap'[n].data = heap[memtable].data
    BY <2>1, <2>2, <2>3
  <2> HIDE DEF n
  <2>5. InHand(c)' = {n} /\ DOMAIN hand'[c] = {1}
    BY <2>1 DEF InHand
  <2>6. Memtables' \subseteq Memtables \cup {n}
    BY <1>1, <1>3, <2>5 DEF Memtables
  <2>7. ActiveNewest'
    BY <1>1, <1>2, <1>3, <2>2, <2>4, <2>6, NotOlderFacts DEF ActiveNewest
  <2>8. \A i, j \in {1} : ~(i < j)
    OBVIOUS
  <2>9. HandByAge(c)'
    BY <1>1, <1>3, <2>1, <2>5, <2>8 DEF HandByAge
  <2> QED
    BY <1>1, <1>2, <1>3, <1>4, <2>4, <2>6, <2>7, <2>9 DEF MemtablesByAge, MemtablesFrom
<1> QED
  BY <1>5, <1>6

(* A flush appends what the client holds first to level 0.                  *)
LEMMA AgesFlush ==
  ASSUME OneClient, ByAge, [Next]_vars, NEW c \in Client, FlushStep(c)
  PROVE  /\ MemtablesByAge' /\ MemtablesFrom
         /\ hand[c][1] \in Memtables \cap Ids
         /\ \A m \in Memtables' : NotOlder(heap'[m].data, heap[hand[c][1]].data)
<1> DEFINE h == hand[c][1]
<1>1. PICK r : FlushMemtable(h, r)
  BY DEF FlushStep, Flush, DrainFlush, CloseFlush
<1>2. /\ hand \in [Client -> Seq(Ids)] /\ pc \in [Client -> Steps] /\ \A d \in Client : d = c
      /\ hand[c] \in Seq(Ids)
  BY DEF OneClient, ByAge, Shape, TypeOK
<1>3. /\ UNCHANGED <<memtable, immutable_memtables, latest>>
      /\ pc[c] \in {"flush", "drain_flush", "clone_flush"}
      /\ hand'[c] = <<>> \/ (pc[c] = "drain_flush" /\ hand'[c] = Tail(hand[c]))
      /\ pc'[c] \in {"limit", "idle", "clone", "drain_flush"}
      /\ pc[c] = "flush" => pc'[c] \in {"limit", "idle"}
  BY <1>2 DEF FlushStep, Flush, DrainFlush, DrainNext, CloseFlush, Return, Goto
<1>4. hand[c] # <<>> /\ 1 \in DOMAIN hand[c] /\ h \in InHand(c) /\ h \in Ids
  <2>1. Len(hand[c]) = 1 \/ hand[c] # <<>>
    BY <1>3 DEF ByAge, Shape, HandShape
  <2>2. 1 \in DOMAIN hand[c] /\ hand[c][1] \in Ids
    BY <1>2, <2>1
  <2> QED
    BY <2>1, <2>2 DEF InHand
<1> HIDE DEF h
<1>5. \A m \in Memtables : heap'[m].data = heap[m].data
  BY <1>3, NoInsert, HeapSteps, IdsHeld DEF ByAge
<1>6. /\ ActiveNewest /\ ListByAge /\ HandByAge(c) /\ memtable \in Memtables
      /\ Listed \subseteq Memtables /\ InHand(c) \subseteq Memtables
  BY DEF ByAge, MemtablesByAge, Memtables
<1>7. /\ \A i \in DOMAIN hand'[c] : /\ i + 1 \in DOMAIN hand[c] /\ i \in Nat /\ 1 < i + 1
                                    /\ hand'[c][i] = hand[c][i + 1]
  <2>1. CASE hand'[c] = <<>>
    BY <2>1
  <2>2. CASE hand'[c] = Tail(hand[c])
    <3> DEFINE s == hand[c]
    <3>1. s \in Seq(Ids) /\ s # <<>>
      BY <1>2, <1>4
    <3> HIDE DEF s
    <3>2. \A i \in DOMAIN Tail(s) : i + 1 \in DOMAIN s /\ i \in Nat /\ 1 < i + 1 /\ Tail(s)[i] = s[i + 1]
      BY <3>1
    <3> QED
      BY <2>2, <3>2 DEF s
  <2> QED
    BY <1>3, <2>1, <2>2
<1>8. \A m \in InHand(c)' : m \in InHand(c) /\ NotOlder(heap[m].data, heap[h].data)
  <2>1. ASSUME NEW i \in DOMAIN hand'[c]
        PROVE  hand'[c][i] \in InHand(c) /\ NotOlder(heap[hand'[c][i]].data, heap[h].data)
    BY <1>4, <1>6, <1>7 DEF HandByAge, InHand, h
  <2> QED
    BY <2>1 DEF InHand
<1>9. Listed' = Listed /\ Memtables' \subseteq Memtables
  <2>1. Listed' = Listed
    BY <1>3 DEF Listed
  <2> QED
    BY <1>2, <1>3, <1>6, <1>8, <2>1 DEF Memtables
<1>10. \A m \in Memtables' : NotOlder(heap[m].data, heap[h].data)
  <2>1. NotOlder(heap[memtable].data, heap[h].data)
    BY <1>4, <1>6 DEF ActiveNewest
  <2>2. \A m \in Listed : NotOlder(heap[m].data, heap[h].data)
    BY <1>3, <1>4, <1>6 DEF HandByAge
  <2> QED
    BY <1>2, <1>3, <1>8, <1>9, <2>1, <2>2 DEF Memtables
<1>11. MemtablesByAge' /\ MemtablesFrom
  <2>1. ActiveNewest'
    BY <1>3, <1>5, <1>6, <1>9 DEF ActiveNewest
  <2>2. ListByAge'
    <3>1. \A i \in DOMAIN immutable_memtables : immutable_memtables[i] \in Memtables
      BY <1>6 DEF Listed
    <3> QED
      BY <1>3, <1>5, <1>6, <3>1 DEF ListByAge
  <2>3. HandByAge(c)'
    <3>1. \A m \in InHand(c)', l \in Listed' : NotOlder(heap'[l].data, heap'[m].data)
      BY <1>3, <1>5, <1>6, <1>8, <1>9 DEF HandByAge
    <3>2. ASSUME NEW i \in DOMAIN hand'[c], NEW j \in DOMAIN hand'[c], i < j
          PROVE  NotOlder(heap'[hand'[c][j]].data, heap'[hand'[c][i]].data)
      <4>1. /\ i + 1 \in DOMAIN hand[c] /\ j + 1 \in DOMAIN hand[c] /\ i + 1 < j + 1
            /\ hand'[c][i] = hand[c][i + 1] /\ hand'[c][j] = hand[c][j + 1]
        BY <1>7, <3>2
      <4>2. NotOlder(heap[hand'[c][j]].data, heap[hand'[c][i]].data)
        BY <1>6, <4>1 DEF HandByAge
      <4>3. hand'[c][i] \in Memtables /\ hand'[c][j] \in Memtables
        BY <1>6, <4>1 DEF InHand
      <4> QED
        BY <1>5, <4>2, <4>3
    <3>3. pc'[c] \in {"drain_flush", "clone", "clone_flush"} => immutable_memtables' = <<>>
      BY <1>3, <1>6 DEF HandByAge
    <3> QED
      BY <1>3, <3>1, <3>2, <3>3 DEF HandByAge
  <2> QED
    BY <1>2, <1>5, <1>9, <2>1, <2>2, <2>3 DEF MemtablesByAge, MemtablesFrom
<1>12. h \in Memtables \cap Ids
  BY <1>4, <1>6
<1>13. \A m \in Memtables' : NotOlder(heap'[m].data, heap[h].data)
  BY <1>5, <1>9, <1>10
<1> QED
  BY <1>11, <1>12, <1>13 DEF h

(* An insertion makes the active memtable newer still.                      *)
LEMMA AgesInsert ==
  ASSUME OneClient, ByAge, \A m \in Ids : Within(heap[m].data, latest),
         NEW c \in Client, Insert(c)
  PROVE  /\ MemtablesByAge'
         /\ \A d \in EntryMap : Within(d, latest) /\ AllNewer(d) => AllNewer(d)'
<1> DEFINE k == call[c].key
           e == [val |-> call[c].val, sequence |-> taken[c], stamp |-> latest[k] + 1]
           mt == PutEntry(heap[memtable], k, e)
<1>1. /\ UNCHANGED <<memtable, immutable_memtables, sstables, hand>> /\ pc[c] = "insert"
      /\ pc'[c] = "idle" /\ \A d \in Client : d = c
  BY DEF Insert, Return, Goto, OneClient, ByAge, Shape, TypeOK
<1>2. k \in Key /\ e \in Entry /\ e.stamp = latest[k] + 1 /\ latest[k] \in Nat
  BY DEF ByAge, Shape, TypeOK, InCall, Insert, Request, Entry
<1>3. heap' = [heap EXCEPT ![memtable] = mt]
  BY DEF Insert, ByAge, Shape, WritesActive
<1> HIDE DEF k, e
<1>4. mt.data = [heap[memtable].data EXCEPT ![k] = e]
  BY DEF PutEntry
<1> HIDE DEF mt
<1>5. /\ heap \in Seq(MemTableRec) /\ Ids = 1..Len(heap) /\ memtable \in Ids
      /\ \A m \in Ids : heap[m].data \in EntryMap /\ Within(heap[m].data, latest)
  BY DataTypes DEF ByAge, Shape, TypeOK
<1>6. heap'[memtable].data = [heap[memtable].data EXCEPT ![k] = e]
      /\ \A m \in Ids \ {memtable} : heap'[m].data = heap[m].data
  BY <1>3, <1>4, <1>5
<1>7. /\ Listed' = Listed /\ Memtables' = Memtables
      /\ InHand(c) = {} /\ InHand(c)' = {} /\ DOMAIN hand'[c] = {}
      /\ memtable \notin Listed /\ Memtables \subseteq Ids /\ Listed \subseteq Ids
  <2>1. hand[c] = <<>>
    BY <1>1 DEF ByAge, Shape, HandShape
  <2>2. memtable \notin Listed /\ Memtables \subseteq Ids /\ Listed \subseteq Memtables
    BY IdsHeld, Places DEF ByAge, Memtables
  <2> QED
    BY <1>1, <2>1, <2>2 DEF Listed, Memtables, InHand
<1>8. ASSUME NEW d \in EntryMap, Within(d, latest), NotOlder(heap[memtable].data, d)
      PROVE  NotOlder(heap'[memtable].data, d)
  <2> SUFFICES ASSUME NEW j \in KeysOf(heap'[memtable].data) \cap KeysOf(d)
               PROVE  heap'[memtable].data[j].stamp >= d[j].stamp
    BY DEF NotOlder
  <2>1. j \in Key /\ d[j] \in Entry /\ heap'[memtable].data[j] = IF j = k THEN e ELSE heap[memtable].data[j]
    BY <1>5, <1>6 DEF KeysOf, EntryMap
  <2>2. CASE j = k
    <3>1. d[j].stamp <= latest[k] /\ d[j].stamp \in Nat
      BY <1>8, <2>1, <2>2 DEF Within, Entry
    <3> QED
      BY <1>2, <2>1, <2>2, <3>1
  <2>3. CASE j # k
    <3>1. j \in KeysOf(heap[memtable].data)
      BY <2>1, <2>3 DEF KeysOf
    <3> QED
      BY <1>8, <2>1, <2>3, <3>1 DEF NotOlder
  <2> QED
    BY <2>2, <2>3
<1>9. ActiveNewest /\ ListByAge /\ memtable \in Memtables
  BY DEF ByAge, MemtablesByAge, Memtables
<1>10. ActiveNewest'
  <2>1. heap'[memtable].data \in EntryMap
    BY <1>2, <1>5, <1>6 DEF EntryMap
  <2>2. ASSUME NEW m \in Memtables PROVE NotOlder(heap'[memtable].data, heap'[m].data)
    <3>1. CASE m = memtable
      BY <2>1, <3>1, NotOlderFacts
    <3>2. CASE m # memtable
      BY <1>5, <1>6, <1>7, <1>8, <1>9, <3>2 DEF ActiveNewest
    <3> QED
      BY <3>1, <3>2
  <2> QED
    BY <1>1, <1>7, <2>2 DEF ActiveNewest
<1>11. ListByAge'
  <2>1. \A i \in DOMAIN immutable_memtables :
          immutable_memtables[i] \in Ids /\ immutable_memtables[i] # memtable
    BY <1>7 DEF Listed
  <2> QED
    BY <1>1, <1>6, <1>9, <2>1 DEF ListByAge
<1>12. HandByAge(c)'
  BY <1>1, <1>7 DEF HandByAge
<1>13. ASSUME NEW d \in EntryMap, Within(d, latest), AllNewer(d) PROVE AllNewer(d)'
  <2>1. ASSUME NEW m \in Memtables PROVE NotOlder(heap'[m].data, d)
    <3>1. NotOlder(heap[m].data, d)
      BY <1>13 DEF AllNewer
    <3>2. CASE m = memtable
      BY <1>8, <1>13, <3>1, <3>2
    <3>3. CASE m # memtable
      BY <1>6, <1>7, <3>1, <3>3
    <3> QED
      BY <3>2, <3>3
  <2> QED
    BY <1>7, <2>1 DEF AllNewer
<1> QED
  BY <1>1, <1>10, <1>11, <1>12, <1>13 DEF MemtablesByAge

(* Whatever all memtables are newer than, they are still newer than.        *)
LEMMA ByAgeStep ==
  ASSUME OneClient, ByAge, \A m \in Ids : Within(heap[m].data, latest), [Next]_vars
  PROVE  /\ ByAge'
         /\ \A d \in EntryMap : Within(d, latest) /\ AllNewer(d) => AllNewer(d)'
<1>1. Shape' /\ HeldOnce'
  BY NextShape, HeldOnceStep DEF ByAge
<1>2. ASSUME MemtablesByAge', MemtablesFrom
      PROVE  ByAge' /\ \A d \in EntryMap : Within(d, latest) /\ AllNewer(d) => AllNewer(d)'
  <2> SUFFICES ASSUME NEW d \in EntryMap, AllNewer(d), NEW m \in Memtables'
               PROVE  NotOlder(heap'[m].data, d)
    BY <1>1, <1>2 DEF ByAge, AllNewer
  <2>1. CASE heap'[m].data = NoEntries
    BY <2>1, NotOlderFacts
  <2>2. CASE \E n \in Memtables : heap'[m].data = heap[n].data
    BY <2>2 DEF AllNewer
  <2> QED
    BY <1>2, <2>1, <2>2 DEF MemtablesFrom
<1>3. CASE Quiet
  BY <1>2, <1>3, AgesQuiet
<1>4. ASSUME NEW c \in Client,
             RotateSwap(c) \/ RotatePush(c) \/ RotateAgain(c) \/ CloseDrain(c) \/ CloseClone(c)
      PROVE  MemtablesByAge' /\ MemtablesFrom
  BY <1>4, AgesSwap, AgesPush, AgesAgain, AgesDrain, AgesClone
<1>5. ASSUME NEW c \in Client, FlushStep(c)
      PROVE  MemtablesByAge' /\ MemtablesFrom
  BY <1>5, AgesFlush
<1>6. ASSUME NEW c \in Client, Insert(c)
      PROVE  ByAge' /\ \A d \in EntryMap : Within(d, latest) /\ AllNewer(d) => AllNewer(d)'
  BY <1>1, <1>6, AgesInsert DEF ByAge
<1>7. Quiet \/ \E c \in Client : \/ RotateSwap(c) \/ RotatePush(c) \/ RotateAgain(c)
                               \/ CloseDrain(c) \/ FlushStep(c) \/ Insert(c) \/ CloseClone(c)
  BY QuietSteps DEF ByAge
<1> QED
  BY <1>2, <1>3, <1>4, <1>5, <1>6, <1>7

(* A flush makes a table that is older than all memtables and newer than    *)
(* all tables.                                                              *)
LEMMA TablesAge ==
  ASSUME OneClient, Aged, [Next]_vars
  PROVE  TablesOldest' /\ TablesByAge'
<1>0. /\ ByAge /\ Shape /\ \A m \in Ids : Within(heap[m].data, latest)
      /\ \A i \in TableIndex : Within(sstables[i[1]][i[2]], latest)
      /\ TablesOldest /\ TablesByAge
  BY DEF Aged, ByAge, AllKnown
<1>1. \A d \in EntryMap : Within(d, latest) /\ AllNewer(d) => AllNewer(d)'
  BY <1>0, ByAgeStep
<1>2. \A i \in TableIndex, m \in Memtables' : NotOlder(heap'[m].data, sstables[i[1]][i[2]])
  <2> TAKE i \in TableIndex
  <2>1. PICK d : d = sstables[i[1]][i[2]]
    OBVIOUS
  <2>2. d \in EntryMap /\ AllNewer(d) /\ Within(d, latest)
    BY <1>0, <2>1, DataTypes DEF TablesOldest, AllNewer
  <2>3. \A m \in Memtables' : NotOlder(heap'[m].data, d)
    BY <1>1, <2>2 DEF AllNewer
  <2> QED
    BY <2>1, <2>3
<1>3. CASE UNCHANGED sstables
  <2>1. TableIndex' = TableIndex
    BY <1>3 DEF TableIndex
  <2> QED
    BY <1>0, <1>2, <1>3, <2>1 DEF TablesOldest, TablesByAge
<1>4. ASSUME NEW c \in Client, FlushStep(c), NEW h, h = hand[c][1],
             sstables' = [sstables EXCEPT ![0] = Append(@, heap[h].data)]
      PROVE  TablesOldest' /\ TablesByAge'
  <2>0. /\ h \in Memtables \cap Ids
        /\ \A m \in Memtables' : NotOlder(heap'[m].data, heap[h].data)
    BY <1>0, <1>4, AgesFlush
  <2> DEFINE n == Len(sstables[0])
             new == <<0, n + 1>>
  <2>1. /\ sstables \in [Level -> Seq(EntryMap)] /\ 0 \in Level /\ heap[h].data \in EntryMap
        /\ sstables[0] \in Seq(EntryMap) /\ n \in Nat
    <3>1. 0 \in Level
      BY StorageEngineAssumption DEF Level
    <3>2. heap[h].data \in EntryMap
      BY <1>0, <2>0, DataTypes
    <3>3. sstables \in [Level -> Seq(EntryMap)]
      BY <1>0 DEF Shape, TypeOK
    <3> QED
      BY <3>1, <3>2, <3>3
  <2>2. /\ sstables'[0] = Append(sstables[0], heap[h].data)
        /\ \A l \in Level : l # 0 => sstables'[l] = sstables[l]
    BY <1>4, <2>1
  <2>3. /\ DOMAIN sstables'[0] = 1..(n + 1) /\ DOMAIN sstables[0] = 1..n
        /\ sstables'[0][n + 1] = heap[h].data /\ \A j \in 1..n : sstables'[0][j] = sstables[0][j]
    BY <2>1, <2>2, SeqAppend
  <2>4. ASSUME NEW i \in TableIndex'
        PROVE  \/ i \in TableIndex /\ sstables'[i[1]][i[2]] = sstables[i[1]][i[2]] /\ ~(i[1] = 0 /\ i[2] > n)
               \/ i[1] = 0 /\ i[2] = n + 1 /\ sstables'[i[1]][i[2]] = heap[h].data
    <3> HIDE DEF n
    <3>1. i[1] \in Level /\ i[2] \in DOMAIN sstables'[i[1]] /\ i = <<i[1], i[2]>>
      BY DEF TableIndex
    <3>2. CASE i[1] # 0
      <4>1. i[2] \in DOMAIN sstables[i[1]]
        BY <2>2, <3>1, <3>2
      <4>2. <<i[1], i[2]>> \in TableIndex
        BY <3>1, <4>1 DEF TableIndex
      <4> QED
        BY <2>2, <3>1, <3>2, <4>2
    <3>3. CASE i[1] = 0 /\ i[2] = n + 1
      BY <2>3, <3>3
    <3>4. CASE i[1] = 0 /\ i[2] # n + 1
      <4>1. i[2] \in 1..n /\ ~(i[2] > n)
        BY <2>1, <2>3, <3>1, <3>4
      <4>2. <<i[1], i[2]>> \in TableIndex
        <5>1. i[1] \in Level /\ i[2] \in DOMAIN sstables[i[1]]
          BY <2>3, <3>1, <3>4, <4>1
        <5> QED
          BY <5>1 DEF TableIndex
      <4> QED
        BY <2>3, <3>1, <3>4, <4>1, <4>2
    <3> QED
      BY <3>2, <3>3, <3>4
  <2> HIDE DEF n, new
  <2>5. TablesOldest'
    <3>1. ASSUME NEW m \in Memtables', NEW i \in TableIndex'
          PROVE  NotOlder(heap'[m].data, sstables'[i[1]][i[2]])
      <4>1. CASE sstables'[i[1]][i[2]] = heap[h].data
        BY <2>0, <4>1
      <4>2. CASE i \in TableIndex /\ sstables'[i[1]][i[2]] = sstables[i[1]][i[2]]
        BY <1>2, <4>2
      <4> QED
        BY <2>4, <4>1, <4>2
    <3> QED
      BY <3>1 DEF TablesOldest
  <2>6. TablesByAge'
    <3>1. ASSUME NEW i \in TableIndex', NEW j \in TableIndex', Deeper(i, j)
          PROVE  NotOlder(sstables'[i[1]][i[2]], sstables'[j[1]][j[2]])
      <4>1. \A t \in TableIndex : NotOlder(heap[h].data, sstables[t[1]][t[2]])
        BY <1>0, <2>0 DEF TablesOldest
      <4>2. i[1] \in Nat /\ j[1] \in Nat
        BY DEF TableIndex, Level
      <4>3. j \in TableIndex /\ sstables'[j[1]][j[2]] = sstables[j[1]][j[2]]
        <5>1. CASE j[1] = 0 /\ j[2] = n + 1
          <6>1. i[1] = 0 /\ i[2] > n + 1
            BY <3>1, <4>2, <5>1 DEF Deeper
          <6>2. i[2] \in DOMAIN sstables'[i[1]]
            BY DEF TableIndex
          <6> QED
            BY <2>1, <2>3, <6>1, <6>2
        <5> QED
          BY <2>4, <5>1
      <4> QED
        BY <1>0, <2>4, <3>1, <4>1, <4>3 DEF TablesByAge
    <3> QED
      BY <3>1 DEF TablesByAge
  <2> QED
    BY <2>5, <2>6
<1>5. ASSUME NEW c \in Client, FlushStep(c)
      PROVE  UNCHANGED sstables
             \/ \E h : h = hand[c][1] /\ sstables' = [sstables EXCEPT ![0] = Append(@, heap[h].data)]
  <2>1. PICK r : FlushMemtable(hand[c][1], r)
    BY <1>5 DEF FlushStep, Flush, DrainFlush, CloseFlush
  <2> QED
    BY <2>1 DEF FlushMemtable
<1>6. UNCHANGED sstables \/ \E c \in Client : FlushStep(c)
  BY <1>0, MovingSteps DEF RotateSwap, RotatePush, RotateAgain, CloseDrain, Insert, CloseClone
<1> QED
  BY <1>3, <1>4, <1>5, <1>6

(* The order of level 0 alone needs nothing of the deeper levels.           *)
LEMMA Level0Step ==
  ASSUME OneClient, ByAge, Level0ByAge, AllKnown, [Next]_vars
  PROVE  Level0ByAge'
<1>0. /\ Shape /\ 0 \in Level /\ sstables \in [Level -> Seq(EntryMap)] /\ sstables[0] \in Seq(EntryMap)
      /\ \A m \in Ids : heap[m].data \in EntryMap /\ Within(heap[m].data, latest)
  <2>1. 0 \in Level
    BY StorageEngineAssumption DEF Level
  <2> QED
    BY <2>1, DataTypes DEF ByAge, Shape, TypeOK, AllKnown
<1>1. \A i \in DOMAIN sstables[0] : Within(sstables[0][i], latest) /\ sstables[0][i] \in EntryMap
  <2> TAKE i \in DOMAIN sstables[0]
  <2>1. PICK t \in TableIndex : t[1] = 0 /\ t[2] = i
    <3>1. <<0, i>> \in TableIndex
      BY <1>0 DEF TableIndex
    <3> QED
      BY <3>1
  <2>2. Within(sstables[t[1]][t[2]], latest)
    BY DEF AllKnown
  <2> QED
    BY <1>0, <2>1, <2>2
<1>2. \A d \in EntryMap : Within(d, latest) /\ AllNewer(d) => AllNewer(d)'
  BY <1>0, ByAgeStep
<1>3. \A i \in DOMAIN sstables[0], m \in Memtables' : NotOlder(heap'[m].data, sstables[0][i])
  <2> TAKE i \in DOMAIN sstables[0]
  <2>1. PICK d : d = sstables[0][i]
    OBVIOUS
  <2>2. d \in EntryMap /\ AllNewer(d) /\ Within(d, latest)
    BY <1>1, <2>1 DEF Level0ByAge, AllNewer
  <2>3. \A m \in Memtables' : NotOlder(heap'[m].data, d)
    BY <1>2, <2>2 DEF AllNewer
  <2> QED
    BY <2>1, <2>3
<1>4. CASE UNCHANGED sstables
  BY <1>3, <1>4 DEF Level0ByAge, AllNewer
<1>5. ASSUME NEW c \in Client, FlushStep(c), NEW h, h = hand[c][1],
             sstables' = [sstables EXCEPT ![0] = Append(@, heap[h].data)]
      PROVE  Level0ByAge'
  <2>0. /\ h \in Memtables \cap Ids
        /\ \A m \in Memtables' : NotOlder(heap'[m].data, heap[h].data)
    BY <1>5, AgesFlush
  <2> DEFINE n == Len(sstables[0])
  <2>1. sstables'[0] = Append(sstables[0], heap[h].data) /\ heap[h].data \in EntryMap /\ n \in Nat
    BY <1>0, <1>5, <2>0
  <2>2. /\ DOMAIN sstables'[0] = 1..(n + 1) /\ DOMAIN sstables[0] = 1..n
        /\ sstables'[0][n + 1] = heap[h].data /\ \A j \in 1..n : sstables'[0][j] = sstables[0][j]
    BY <1>0, <2>1, SeqAppend
  <2> HIDE DEF n
  <2>3. \A i \in 1..(n + 1), m \in Memtables' : NotOlder(heap'[m].data, sstables'[0][i])
    <3>1. \A i \in 1..(n + 1) : i = n + 1 \/ i \in 1..n
      BY <2>1
    <3> QED
      BY <1>3, <2>0, <2>2, <3>1
  <2>4. ASSUME NEW i \in 1..(n + 1), NEW j \in 1..(n + 1), i > j
        PROVE  NotOlder(sstables'[0][i], sstables'[0][j])
    <3>1. j \in 1..n /\ (i = n + 1 \/ i \in 1..n)
      BY <2>1, <2>4
    <3>2. NotOlder(heap[h].data, sstables[0][j])
      BY <2>0, <2>2, <3>1 DEF Level0ByAge, AllNewer
    <3> QED
      BY <2>2, <2>4, <3>1, <3>2 DEF Level0ByAge
  <2> QED
    BY <2>2, <2>3, <2>4 DEF Level0ByAge, AllNewer
<1>6. ASSUME NEW c \in Client, FlushStep(c)
      PROVE  UNCHANGED sstables
             \/ \E h : h = hand[c][1] /\ sstables' = [sstables EXCEPT ![0] = Append(@, heap[h].data)]
  <2>1. PICK r : FlushMemtable(hand[c][1], r)
    BY <1>6 DEF FlushStep, Flush, DrainFlush, CloseFlush
  <2> QED
    BY <2>1 DEF FlushMemtable
<1>7. UNCHANGED sstables \/ \E c \in Client : FlushStep(c)
  BY <1>0, MovingSteps DEF RotateSwap, RotatePush, RotateAgain, CloseDrain, Insert, CloseClone
<1> QED
  BY <1>4, <1>5, <1>6, <1>7

LEMMA AgedInit == Init => Aged
<1> SUFFICES ASSUME Init PROVE Aged
  OBVIOUS
<1>1. /\ TableIndex = {} /\ Listed = {} /\ \A c \in Client : InHand(c) = {} /\ hand[c] = <<>>
      /\ immutable_memtables = <<>> /\ memtable = 1 /\ Ids = {1} /\ pc = [c \in Client |-> "idle"]
      /\ sstables = [l \in Level |-> <<>>]
  BY DEF Init, TableIndex, Listed, InHand, Ids
<1>2. Memtables = {1} /\ heap[1].data = NoEntries
  BY <1>1 DEF Init, Memtables, NewMemTable
<1>3. MemtablesByAge
  BY <1>1, <1>2, NotOlderFacts DEF MemtablesByAge, ActiveNewest, ListByAge, HandByAge
<1>4. AllKnown
  BY <1>1, <1>2 DEF AllKnown, Within, KeysOf, NoEntries
<1> QED
  BY <1>1, <1>3, <1>4, InitShape, HeldOnceInit DEF Aged, ByAge, TablesOldest, TablesByAge

LEMMA AgedStep ==
  ASSUME OneClient, Aged, [Next]_vars
  PROVE  Aged'
<1>1. ByAge /\ AllKnown /\ Shape
  BY DEF Aged, ByAge
<1>2. ByAge'
  BY <1>1, ByAgeStep DEF AllKnown
<1>3. AllKnown'
  BY <1>1, KnownStep
<1> QED
  BY <1>2, <1>3, TablesAge DEF Aged

LEMMA ThreeParts ==
  ASSUME NEW S, NEW e \in S, NEW a \in Seq(S), NEW b \in Seq(S), NEW all, all = <<e>> \o a \o b
  PROVE  /\ DOMAIN all = 1..(1 + Len(a) + Len(b)) /\ all[1] = e
         /\ \A i \in 2..(Len(a) + 1) : all[i] = a[i - 1]
         /\ \A i \in (Len(a) + 2)..(1 + Len(a) + Len(b)) : all[i] = b[i - (Len(a) + 1)]
OBVIOUS

LEMMA FromTheEnd ==
  ASSUME NEW n \in Nat, NEW t \in Nat, NEW i \in (n + 2)..(1 + n + t)
  PROVE  i - (n + 1) \in 1..t /\ t + 1 - (i - (n + 1)) = n + t + 2 - i
OBVIOUS

LEMMA ReverseOrder ==
  ASSUME NEW S, NEW s \in Seq(S)
  PROVE  /\ Reverse(s) \in Seq(S) /\ Len(Reverse(s)) = Len(s) /\ DOMAIN Reverse(s) = 1..Len(s)
         /\ \A i \in 1..Len(s) : Reverse(s)[i] = s[Len(s) + 1 - i]
<1> DEFINE r == [i \in 1..Len(s) |-> s[(Len(s) - i) + 1]]
<1>1. Len(s) \in Nat /\ \A i \in 1..Len(s) : s[(Len(s) - i) + 1] \in S
                                             /\ (Len(s) - i) + 1 = Len(s) + 1 - i
  OBVIOUS
<1>2. r \in Seq(S) /\ Len(r) = Len(s)
  BY <1>1
<1>3. Reverse(s) = r
  BY DEF Reverse
<1> QED
  BY <1>1, <1>2, <1>3

(* The memtables and the tables of level 0 in the order in which a lookup   *)
(* asks them.                                                               *)
ReadsInOrder(n, t) ==
  /\ n = Len(immutable_memtables) /\ n \in Nat /\ t \in Nat /\ DOMAIN ReadOrder = 1..(1 + n + t)
  /\ ReadOrder[1] = heap[memtable].data
  /\ \A i \in 2..(n + 1) : /\ n + 2 - i \in DOMAIN immutable_memtables
                           /\ ReadOrder[i] = heap[immutable_memtables[n + 2 - i]].data
  /\ \A i \in (n + 2)..(1 + n + t) : /\ <<0, n + t + 2 - i>> \in TableIndex
                                     /\ ReadOrder[i] = sstables[0][n + t + 2 - i]

LEMMA OrderOfReads ==
  ASSUME Shape
  PROVE  \E n, t : ReadsInOrder(n, t)
<1>0. PICK n, t : n = Len(immutable_memtables) /\ t = Len(sstables[0])
  OBVIOUS
<1> DEFINE active == heap[memtable].data
           list == [i \in DOMAIN immutable_memtables |-> heap[Reverse(immutable_memtables)[i]].data]
           tables == Reverse(sstables[0])
<1>1. 0 \in Level
  BY StorageEngineAssumption DEF Level
<1>2. /\ immutable_memtables \in Seq(Ids) /\ n \in Nat /\ DOMAIN immutable_memtables = 1..n
  BY <1>0 DEF Shape, TypeOK
<1>3. /\ sstables[0] \in Seq(EntryMap) /\ t \in Nat /\ DOMAIN sstables[0] = 1..t
  BY <1>0, <1>1 DEF Shape, TypeOK
<1>4. n \in Nat /\ t \in Nat
  BY <1>2, <1>3
<1>4a. \A i \in 1..n : /\ n + 1 - i \in DOMAIN immutable_memtables
                       /\ list[i] = heap[immutable_memtables[n + 1 - i]].data
  <2> TAKE i \in 1..n
  <2>1. n + 1 - i \in DOMAIN immutable_memtables /\ i \in DOMAIN immutable_memtables
    BY <1>2
  <2>2. Reverse(immutable_memtables)[i] = immutable_memtables[n + 1 - i]
    BY <1>2, ReverseOrder
  <2> QED
    BY <2>1, <2>2
<1>5. list \in Seq(EntryMap) /\ Len(list) = n
  <2>1. \A i \in 1..n : list[i] \in EntryMap
    <3>1. \A m \in Ids : heap[m].data \in EntryMap
      BY DataTypes
    <3>2. \A j \in DOMAIN immutable_memtables : immutable_memtables[j] \in Ids
      BY <1>2
    <3> HIDE DEF list
    <3> QED
      BY <1>4a, <3>1, <3>2
  <2> QED
    BY <1>2, <2>1
<1>6. tables \in Seq(EntryMap) /\ Len(tables) = t
      /\ \A i \in 1..t : t + 1 - i \in DOMAIN sstables[0] /\ tables[i] = sstables[0][t + 1 - i]
  BY <1>3, ReverseOrder
<1>7. active \in EntryMap
  BY DataTypes DEF Shape, TypeOK
<1>8. ReadOrder = <<active>> \o list \o tables
  BY DEF ReadOrder
<1> HIDE DEF active, list, tables
<1>9. /\ DOMAIN ReadOrder = 1..(1 + n + t) /\ ReadOrder[1] = active
      /\ \A i \in 2..(n + 1) : ReadOrder[i] = list[i - 1]
      /\ \A i \in (n + 2)..(1 + n + t) : ReadOrder[i] = tables[i - (n + 1)]
  <2>1. n = Len(list) /\ t = Len(tables) /\ list \in Seq(EntryMap) /\ tables \in Seq(EntryMap)
    BY <1>5, <1>6
  <2>2. PICK all : all = ReadOrder
    OBVIOUS
  <2>3. all = <<active>> \o list \o tables
    BY <1>8, <2>2
  <2>4. /\ DOMAIN all = 1..(1 + Len(list) + Len(tables)) /\ all[1] = active
        /\ \A i \in 2..(Len(list) + 1) : all[i] = list[i - 1]
        /\ \A i \in (Len(list) + 2)..(1 + Len(list) + Len(tables)) :
              all[i] = tables[i - (Len(list) + 1)]
    BY <1>7, <2>1, <2>3, ThreeParts
  <2> QED
    BY <2>1, <2>2, <2>4
<1>10. \A i \in 2..(n + 1) : /\ n + 2 - i \in DOMAIN immutable_memtables
                             /\ ReadOrder[i] = heap[immutable_memtables[n + 2 - i]].data
  <2> TAKE i \in 2..(n + 1)
  <2>1. i - 1 \in 1..n /\ n + 1 - (i - 1) = n + 2 - i
    BY <1>4
  <2> QED
    BY <1>4a, <1>9, <2>1
<1>11. \A i \in (n + 2)..(1 + n + t) : /\ <<0, n + t + 2 - i>> \in TableIndex
                                       /\ ReadOrder[i] = sstables[0][n + t + 2 - i]
  <2> TAKE i \in (n + 2)..(1 + n + t)
  <2>1. i - (n + 1) \in 1..t /\ t + 1 - (i - (n + 1)) = n + t + 2 - i
    BY <1>4, FromTheEnd
  <2>2. n + t + 2 - i \in DOMAIN sstables[0] /\ ReadOrder[i] = sstables[0][n + t + 2 - i]
    BY <1>6, <1>9, <2>1
  <2> QED
    BY <1>1, <2>2 DEF TableIndex
<1>12. ReadsInOrder(n, t)
  BY <1>0, <1>4, <1>9, <1>10, <1>11 DEF active, ReadsInOrder
<1> QED
  BY <1>12

LEMMA ByAgeImpliesNewestFirst == ByAge /\ Level0ByAge => NewestFirst
<1> SUFFICES ASSUME ByAge, Level0ByAge PROVE NewestFirst
  OBVIOUS
<1>0. PICK n, t : ReadsInOrder(n, t)
  BY OrderOfReads DEF ByAge
<1> DEFINE order == ReadOrder
<1>1. /\ n \in Nat /\ t \in Nat /\ DOMAIN order = 1..(1 + n + t)
      /\ order[1] = heap[memtable].data
      /\ \A i \in 2..(n + 1) : /\ n + 2 - i \in DOMAIN immutable_memtables
                               /\ order[i] = heap[immutable_memtables[n + 2 - i]].data
      /\ \A i \in (n + 2)..(1 + n + t) : /\ <<0, n + t + 2 - i>> \in TableIndex
                                         /\ order[i] = sstables[0][n + t + 2 - i]
  BY <1>0 DEF ReadsInOrder
<1>2. ActiveNewest /\ ListByAge
  BY DEF ByAge, MemtablesByAge
<1>2a. \A i : <<0, i>> \in TableIndex => i \in DOMAIN sstables[0]
  BY DEF TableIndex
<1>3. memtable \in Memtables
      /\ \A i \in DOMAIN immutable_memtables : immutable_memtables[i] \in Memtables
  BY DEF Memtables, Listed
<1>4. \A d \in DOMAIN order : order[d] \in EntryMap
  <2>1. memtable \in Ids /\ \A i \in DOMAIN immutable_memtables : immutable_memtables[i] \in Ids
    BY DEF ByAge, Shape, TypeOK
  <2>2. \A m \in Ids : heap[m].data \in EntryMap
    BY DataTypes DEF ByAge
  <2>3. \A i \in TableIndex : sstables[i[1]][i[2]] \in EntryMap
    BY DataTypes DEF ByAge
  <2>4. \A i : <<0, i>> \in TableIndex => sstables[0][i] \in EntryMap
    BY <2>3
  <2> HIDE DEF order
  <2> TAKE d \in DOMAIN order
  <2>5. d = 1 \/ d \in 2..(n + 1) \/ d \in (n + 2)..(1 + n + t)
    BY <1>1
  <2> QED
    BY <1>1, <2>1, <2>2, <2>4, <2>5
<1> HIDE DEF order
<1>5. ASSUME NEW i \in DOMAIN order, NEW j \in DOMAIN order, i < j
      PROVE  NotOlder(order[i], order[j])
  <2>0. /\ i = 1 \/ i \in 2..(n + 1) \/ i \in (n + 2)..(1 + n + t)
        /\ j \in 2..(n + 1) \/ j \in (n + 2)..(1 + n + t)
        /\ i \in (n + 2)..(1 + n + t) => j \in (n + 2)..(1 + n + t)
    BY <1>1, <1>5
  <2>1. CASE i = 1 /\ j \in 2..(n + 1)
    BY <1>1, <1>2, <1>3, <2>1 DEF ActiveNewest
  <2>2. CASE i \in 2..(n + 1) /\ j \in 2..(n + 1)
    <3>1. n + 2 - j < n + 2 - i
      BY <1>1, <1>5, <2>2
    <3> QED
      BY <1>1, <1>2, <2>2, <3>1 DEF ListByAge
  <2>3. CASE (i = 1 \/ i \in 2..(n + 1)) /\ j \in (n + 2)..(1 + n + t)
    <3>1. \E m \in Memtables : order[i] = heap[m].data
      BY <1>1, <1>3, <2>3
    <3>2. n + t + 2 - j \in DOMAIN sstables[0] /\ order[j] = sstables[0][n + t + 2 - j]
      BY <1>1, <1>2a, <2>3
    <3> QED
      BY <3>1, <3>2 DEF Level0ByAge, AllNewer
  <2>4. CASE i \in (n + 2)..(1 + n + t) /\ j \in (n + 2)..(1 + n + t)
    <3> DEFINE a == n + t + 2 - i
               b == n + t + 2 - j
    <3>1. /\ a \in DOMAIN sstables[0] /\ order[i] = sstables[0][a]
          /\ b \in DOMAIN sstables[0] /\ order[j] = sstables[0][b]
      BY <1>1, <1>2a, <2>4
    <3>2. a > b
      BY <1>1, <1>5, <2>4
    <3> QED
      BY <3>1, <3>2 DEF Level0ByAge
  <2> QED
    BY <2>0, <2>1, <2>2, <2>3, <2>4
<1>6. ASSUME NEW i \in DOMAIN order, NEW j \in DOMAIN order, NEW k \in Key,
             i < j, order[i][k] # None, order[j][k] # None
      PROVE  order[i][k].stamp >= order[j][k].stamp
  <2>1. k \in KeysOf(order[i]) \cap KeysOf(order[j])
    BY <1>6 DEF KeysOf
  <2> QED
    BY <1>5, <1>6, <2>1 DEF NotOlder
<1> QED
  BY <1>6 DEF NewestFirst, order

LEMMA AgedImpliesNewestFirst == Aged => ByAge /\ Level0ByAge /\ NewestFirst
<1> SUFFICES ASSUME Aged PROVE ByAge /\ Level0ByAge
  BY ByAgeImpliesNewestFirst
<1>1. \A i \in DOMAIN sstables[0] : <<0, i>> \in TableIndex
  BY StorageEngineAssumption DEF TableIndex, Level
<1>2. ASSUME NEW i \in DOMAIN sstables[0] PROVE AllNewer(sstables[0][i])
  BY <1>1 DEF Aged, TablesOldest, AllNewer
<1>3. ASSUME NEW i \in DOMAIN sstables[0], NEW j \in DOMAIN sstables[0], i > j
      PROVE  NotOlder(sstables[0][i], sstables[0][j])
  <2> DEFINE a == <<0, i>>
             b == <<0, j>>
  <2>1. a \in TableIndex /\ b \in TableIndex /\ Deeper(a, b)
    BY <1>1, <1>3 DEF Deeper
  <2>2. NotOlder(sstables[a[1]][a[2]], sstables[b[1]][b[2]])
    BY <2>1 DEF Aged, TablesByAge
  <2> QED
    BY <2>2
<1> QED
  BY <1>2, <1>3 DEF Aged, Level0ByAge

(* While one client uses the engine, a lookup that goes through the active  *)
(* memtable, the immutable list from its end and level 0 from its end meets *)
(* the newest entry of every key first: rotation, eviction, flushes and     *)
(* close keep the order.  With two clients it does not hold.                *)
THEOREM NewestFirstHolds == ASSUME OneClient PROVE Spec => []NewestFirst
<1>1. Init => Aged
  BY AgedInit
<1>2. Aged /\ [Next]_vars => Aged'
  BY AgedStep
<1>3. Aged => NewestFirst
  BY AgedImpliesNewestFirst
<1> QED
  BY <1>1, <1>2, <1>3, PTL DEF Spec


-----------------------------------------------------------------------------
(* A get.  What a lookup through some sources finds, in the order in which  *)
(* they are asked.                                                          *)
Finds(found, e) ==
  \/ e = None /\ \A i \in DOMAIN found : found[i] = None
  \/ \E i \in DOMAIN found : FoundAt(found, i) /\ e = found[i]

LEMMA FirstFoundIs ==
  ASSUME NEW n \in Nat, NEW found, DOMAIN found = 1..n
  PROVE  Finds(found, FirstFound(found))
<1>1. FirstFound(found) = FirstIn(found)
  BY DEF FirstFound
<1>2. CASE \E i \in DOMAIN found : FoundAt(found, i)
  <2>1. PICK i : i = CHOOSE j \in DOMAIN found : FoundAt(found, j)
    OBVIOUS
  <2>2. i \in DOMAIN found /\ FoundAt(found, i)
    BY <1>2, <2>1
  <2>3. FirstIn(found) = found[i]
    BY <1>2, <2>1 DEF FirstIn
  <2> QED
    BY <1>1, <2>2, <2>3 DEF Finds
<1>3. CASE ~\E i \in DOMAIN found : FoundAt(found, i)
  <2>1. FirstIn(found) = None
    BY <1>3 DEF FirstIn
  <2>2. ASSUME NEW i \in DOMAIN found, found[i] # None PROVE FALSE
    <3> DEFINE T == {j \in 1..n : found[j] # None}
    <3>1. T \subseteq Nat /\ T # {}
      BY <2>2
    <3> HIDE DEF T
    <3>2. PICK j \in T : \A m \in T : j <= m
      BY <3>1, NatLeast
    <3>3. j \in 1..n /\ found[j] # None /\ \A m \in 1..n : found[m] # None => j <= m
      BY <3>2 DEF T
    <3>4. \A m \in 1..(j - 1) : m \in 1..n /\ ~(j <= m)
      BY <3>3
    <3>5. FoundAt(found, j)
      BY <3>3, <3>4 DEF FoundAt
    <3> QED
      BY <1>3, <3>3, <3>5
  <2> QED
    BY <1>1, <2>1, <2>2 DEF Finds
<1> QED
  BY <1>2, <1>3

(* Level 0 is all there is in this module.                                  *)
DeepEmpty == \A l \in Level \ {0} : sstables[l] = <<>>


(* Lookups ask the lists from their end on.                                 *)
FoundLast(rows, e) ==
  \/ e = None /\ \A a \in DOMAIN rows : rows[a] = None
  \/ \E a \in DOMAIN rows : /\ rows[a] = e /\ e # None
                            /\ \A b \in DOMAIN rows : b > a => rows[b] = None

LEMMA FirstFromTheEnd ==
  ASSUME NEW n \in Nat, NEW rows, DOMAIN rows = 1..n, NEW found, DOMAIN found = 1..n,
         \A i \in 1..n : found[i] = rows[n + 1 - i]
  PROVE  FoundLast(rows, FirstFound(found))
<1>1. PICK e : e = FirstFound(found)
  OBVIOUS
<1>2. Finds(found, e)
  BY <1>1, FirstFoundIs
<1>3. \A a \in 1..n : n + 1 - a \in 1..n /\ found[n + 1 - a] = rows[a]
  <2> TAKE a \in 1..n
  <2>1. n + 1 - a \in 1..n /\ n + 1 - (n + 1 - a) = a
    OBVIOUS
  <2> QED
    BY <2>1
<1>4. CASE e = None /\ \A i \in DOMAIN found : found[i] = None
  BY <1>1, <1>3, <1>4 DEF FoundLast
<1>5. ASSUME NEW i \in DOMAIN found, FoundAt(found, i), e = found[i]
      PROVE  FoundLast(rows, e)
  <2>1. n + 1 - i \in 1..n /\ rows[n + 1 - i] = e /\ e # None
    BY <1>5 DEF FoundAt
  <2>2. ASSUME NEW b \in 1..n, b > n + 1 - i PROVE rows[b] = None
    <3>1. n + 1 - b \in 1..(i - 1)
      BY <2>2
    <3> QED
      BY <1>3, <1>5, <3>1 DEF FoundAt
  <2> QED
    BY <2>1, <2>2 DEF FoundLast
<1> QED
  BY <1>1, <1>2, <1>4, <1>5 DEF Finds

ListRows(k) == [a \in DOMAIN immutable_memtables |-> heap[immutable_memtables[a]].data[k]]
TableRows(k) == [a \in DOMAIN sstables[0] |-> sstables[0][a][k]]

LEMMA LookupImmutablesIs ==
  ASSUME Shape, NEW k \in Key
  PROVE  FoundLast(ListRows(k), LookupImmutables(k))
<1>1. PICK list : list = immutable_memtables
  OBVIOUS
<1>2. list \in Seq(Ids)
  BY <1>1 DEF Shape, TypeOK
<1>3. PICK n \in Nat : n = Len(list) /\ DOMAIN list = 1..n
  BY <1>2
<1>4. PICK rev : rev = Reverse(list)
  OBVIOUS
<1>5. \A i \in 1..n : rev[i] = list[n + 1 - i]
  BY <1>2, <1>3, <1>4, ReverseOrder
<1>6. PICK rows, found : rows = ListRows(k) /\ found = [i \in 1..n |-> heap[rev[i]].data[k]]
  OBVIOUS
<1>7. DOMAIN rows = 1..n /\ DOMAIN found = 1..n
  BY <1>1, <1>3, <1>6 DEF ListRows
<1>8. \A i \in 1..n : n + 1 - i \in 1..n
  BY <1>3
<1>9. \A i \in 1..n : found[i] = rows[n + 1 - i]
  BY <1>1, <1>3, <1>5, <1>6, <1>8 DEF ListRows
<1>10. FoundLast(rows, FirstFound(found))
  BY <1>7, <1>9, FirstFromTheEnd
<1>11. LookupImmutables(k) = FirstFound(found)
  BY <1>1, <1>3, <1>4, <1>6 DEF LookupImmutables
<1> QED
  BY <1>6, <1>10, <1>11

(* Of level 0, the newest table that has the key answers, unless a newer    *)
(* one has a block that cannot be read where the key would be.              *)
ReadsTables(k, e) ==
  \/ e = Unreadable /\ Compression = "zstd"
  \/ e # Unreadable /\ FoundLast(TableRows(k), e)

(* The filters of readers deny nothing that is there: they are turned off,  *)
(* or no table was ever written.                                            *)
FiltersPass == BloomLoaded => sstables[0] = <<>>

LEMMA TableFinds ==
  ASSUME LengthsAreNat, ~BloomLoaded, NEW data \in EntryMap, NEW k \in Key,
         NEW e, e = TableGet(data, k, Compression)
  PROVE  /\ data[k] \in Entry \cup {None} /\ data[k] # Unreadable
         /\ e = data[k] \/ (e = Unreadable /\ Compression = "zstd")
<1>1. data[k] \in Entry \cup {None}
  BY DEF EntryMap
<1>2. PICK b, f : b = Built(data) /\ f = FindBlock(b.index, k)
  OBVIOUS
<1>3. e \in {data[k], Unreadable} /\ (Compression # "zstd" => e = data[k])
  BY <1>2, TableGetHas
<1> QED
  BY <1>1, <1>3, SSTableAssumption

LEMMA LookupTablesIs ==
  ASSUME LengthsAreNat, Shape, FiltersPass, DeepEmpty, NEW k \in Key
  PROVE  ReadsTables(k, LookupTables(k))
<1>1. PICK tables : tables = sstables[0]
  OBVIOUS
<1>2. tables \in Seq(EntryMap)
  BY <1>1, StorageEngineAssumption DEF Shape, TypeOK, Level
<1>3. PICK n \in Nat : n = Len(tables) /\ DOMAIN tables = 1..n
  BY <1>2
<1>4. PICK rev : rev = Reverse(tables)
  OBVIOUS
<1>5. \A i \in 1..n : rev[i] = tables[n + 1 - i] /\ n + 1 - i \in 1..n /\ rev[i] \in EntryMap
  <2>1. \A i \in 1..n : n + 1 - i \in 1..n
    BY <1>3
  <2> QED
    BY <1>2, <1>3, <1>4, <2>1, ReverseOrder
<1>6. PICK gets : gets = [a \in 1..n |-> TableGet(tables[a], k, Compression)]
  OBVIOUS
<1>7. PICK rows, found : rows = TableRows(k) /\ found = [i \in 1..n |-> TableGet(rev[i], k, Compression)]
  OBVIOUS
<1>8. DOMAIN rows = 1..n /\ DOMAIN found = 1..n /\ DOMAIN gets = 1..n
  BY <1>1, <1>3, <1>6, <1>7 DEF TableRows
<1>9. \A i \in 1..n : found[i] = gets[n + 1 - i]
  BY <1>3, <1>5, <1>6, <1>7
<1>10. PICK e : e = FirstFound(found)
  OBVIOUS
<1>11. FoundLast(gets, e)
  BY <1>8, <1>9, <1>10, FirstFromTheEnd
<1>12. LookupLevel(0, k) = e
  BY <1>1, <1>3, <1>4, <1>7, <1>10 DEF LookupLevel
<1>13. ASSUME NEW l \in Level, l # 0 PROVE LookupLevel(l, k) = None
  <2>1. sstables[l] = <<>>
    BY <1>13 DEF DeepEmpty
  <2>2. DOMAIN sstables[l] = {}
    BY <2>1
  <2>3. FirstIn([i \in DOMAIN sstables[l] |->
                   IF i \in {j \in DOMAIN sstables[l] :
                               CoversKey(sstables[l][j], k) /\ \A m \in 1..(j - 1) : ~CoversKey(sstables[l][m], k)}
                   THEN TableGet(sstables[l][i], k, Compression) ELSE None]) = None
    BY <2>2 DEF FirstIn
  <2> QED
    BY <1>13, <2>3 DEF LookupLevel, FirstFound
<1>14. PICK levels : levels = [i \in 1..MaxLevels |-> LookupLevel(i - 1, k)]
  OBVIOUS
<1>15. /\ DOMAIN levels = 1..MaxLevels /\ 1 \in 1..MaxLevels /\ MaxLevels \in Nat /\ levels[1] = e
       /\ \A i \in 1..MaxLevels : i # 1 => levels[i] = None
  <2>1. MaxLevels \in Nat /\ 1 \in 1..MaxLevels /\ \A i \in 1..MaxLevels : i # 1 => i - 1 \in Level /\ i - 1 # 0
    BY StorageEngineAssumption DEF Level
  <2> QED
    BY <1>12, <1>13, <1>14, <2>1
<1>16. PICK f : f = FirstFound(levels)
  OBVIOUS
<1>17. Finds(levels, f)
  BY <1>15, <1>16, FirstFoundIs
<1>18. f = e
  BY <1>15, <1>17 DEF Finds, FoundAt
<1>19. LookupTables(k) = f
  BY <1>14, <1>16 DEF LookupTables
<1>20. ASSUME NEW a \in 1..n
       PROVE  /\ rows[a] # Unreadable
              /\ gets[a] = rows[a] \/ (gets[a] = Unreadable /\ Compression = "zstd")
  <2>1. ~BloomLoaded
    <3>1. tables # <<>>
      BY <1>3, <1>20
    <3> QED
      BY <1>1, <3>1 DEF FiltersPass
  <2>2. tables[a] \in EntryMap /\ gets[a] = TableGet(tables[a], k, Compression) /\ rows[a] = tables[a][k]
    BY <1>1, <1>2, <1>3, <1>6, <1>7 DEF TableRows
  <2> QED
    BY <2>1, <2>2, TableFinds
<1>21. None # Unreadable
  BY SSTableAssumption
<1>22. \A a \in 1..n : gets[a] = None => rows[a] = None
  BY <1>20, <1>21
<1>23. CASE e = None /\ \A a \in 1..n : gets[a] = None
  BY <1>7, <1>8, <1>18, <1>19, <1>21, <1>22, <1>23 DEF ReadsTables, FoundLast
<1>24. ASSUME NEW a \in 1..n, gets[a] = e, e # None, \A b \in 1..n : b > a => gets[b] = None
       PROVE  ReadsTables(k, e)
  <2>1. CASE e = Unreadable
    BY <1>20, <1>24, <2>1 DEF ReadsTables
  <2>2. CASE e # Unreadable
    <3>1. rows[a] = e
      BY <1>20, <1>24, <2>2
    <3>2. FoundLast(rows, e)
      BY <1>8, <1>22, <1>24, <3>1 DEF FoundLast
    <3> QED
      BY <1>7, <2>2, <3>2 DEF ReadsTables
  <2> QED
    BY <2>1, <2>2
<1> QED
  BY <1>8, <1>11, <1>18, <1>19, <1>23, <1>24 DEF FoundLast


(* A get of the only client, at each of its three steps: nothing was        *)
(* written since it began, and the places it has asked do not have the key. *)
GetSteps == {"get", "get_imm", "get_sst"}
Getting(c) ==
  /\ pc[c] # "idle" => (pc[c] \in GetSteps <=> call[c].op = "get")
  /\ pc[c] \in GetSteps => floor[c] = latest
  /\ pc[c] \in {"get_imm", "get_sst"} => heap[memtable].data[call[c].key] = None
  /\ pc[c] = "get_sst" =>
       \A i \in DOMAIN immutable_memtables : heap[immutable_memtables[i]].data[call[c].key] = None
LeftOf(c, k, e) ==
  \/ StampOf(e) >= floor[c][k]
  \/ \E m \in dropped : StampOf(heap[m].data[k]) = floor[c][k]
GetsFresh(c) == Answered(c, "get") => LeftOf(c, call[c].key, answer[c].entry)

Reads == \A c \in Client : Getting(c) /\ GetsFresh(c)
InPlace == Aged /\ NothingLost /\ DeepEmpty /\ FiltersPass

LEMMA NotOlderStamp ==
  ASSUME NEW d, NEW f, NotOlder(d, f), NEW k \in Key, d[k] # None, f[k] # None
  PROVE  d[k].stamp >= f[k].stamp
BY DEF NotOlder, KeysOf

LEMMA AgesOfReads ==
  ASSUME InPlace
  PROVE  /\ \A i \in DOMAIN immutable_memtables :
              NotOlder(heap[memtable].data, heap[immutable_memtables[i]].data)
         /\ \A i \in DOMAIN sstables[0] : NotOlder(heap[memtable].data, sstables[0][i])
         /\ \A i, j \in DOMAIN immutable_memtables : i < j =>
              NotOlder(heap[immutable_memtables[j]].data, heap[immutable_memtables[i]].data)
         /\ \A i \in DOMAIN immutable_memtables, j \in DOMAIN sstables[0] :
              NotOlder(heap[immutable_memtables[i]].data, sstables[0][j])
         /\ \A i, j \in DOMAIN sstables[0] : i < j => NotOlder(sstables[0][j], sstables[0][i])
         /\ DOMAIN immutable_memtables \subseteq Nat /\ DOMAIN sstables[0] \subseteq Nat
<1>1. memtable \in Memtables /\ \A i \in DOMAIN immutable_memtables : immutable_memtables[i] \in Memtables
  BY DEF Memtables, Listed
<1>2. ActiveNewest /\ ListByAge /\ Level0ByAge /\ Shape
  BY AgedImpliesNewestFirst DEF InPlace, Aged, ByAge, MemtablesByAge
<1>3. immutable_memtables \in Seq(Ids) /\ sstables[0] \in Seq(EntryMap)
  BY <1>2, StorageEngineAssumption DEF Shape, TypeOK, Level
<1>4. DOMAIN immutable_memtables \subseteq Nat /\ DOMAIN sstables[0] \subseteq Nat
  BY <1>3
<1>5. \A i \in DOMAIN sstables[0] : \A m \in Memtables : NotOlder(heap[m].data, sstables[0][i])
  BY <1>2 DEF Level0ByAge, AllNewer
<1>6. \A i, j \in DOMAIN sstables[0] : i < j => NotOlder(sstables[0][j], sstables[0][i])
  BY <1>2, <1>4 DEF Level0ByAge
<1> QED
  BY <1>1, <1>2, <1>4, <1>5, <1>6 DEF ActiveNewest, ListByAge

-----------------------------------------------------------------------------
(* The entries of a key, anywhere in the engine, are where a lookup goes    *)
(* while nobody has memtables in his hands.                                 *)
InMemtable(k, e) == e = heap[memtable].data[k]
InList(k, e) == \E i \in DOMAIN immutable_memtables : e = heap[immutable_memtables[i]].data[k]
InLevel0(k, e) == \E i \in DOMAIN sstables[0] : e = sstables[0][i][k]

LEMMA EntriesTyped ==
  ASSUME Shape, NEW k \in Key, NEW e \in EntriesAnywhere(k)
  PROVE  e \in Entry /\ e # None /\ e.stamp \in Nat
<1>1. Memtables \subseteq Ids
  BY IdsHeld
<1>2. \A m \in Ids : heap[m].data[k] \in Entry \cup {None}
  BY DataTypes DEF EntryMap
<1>3. \A i \in TableIndex : sstables[i[1]][i[2]][k] \in Entry \cup {None}
  BY DataTypes DEF EntryMap
<1>4. e \in Entry /\ e # None
  BY <1>1, <1>2, <1>3 DEF EntriesAnywhere
<1> QED
  BY <1>4 DEF Entry

LEMMA EntriesAre ==
  ASSUME Shape, DeepEmpty, \A c \in Client : hand[c] = <<>>, NEW k \in Key, NEW e
  PROVE  e \in EntriesAnywhere(k) <=> e # None /\ (InMemtable(k, e) \/ InList(k, e) \/ InLevel0(k, e))
<1>1. \A c \in Client : InHand(c) = {}
  BY DEF InHand
<1>2. Memtables = {memtable} \cup Listed
  BY <1>1 DEF Memtables
<1>3. \A i \in TableIndex : i[1] = 0 /\ i[2] \in DOMAIN sstables[0]
  <2> TAKE i \in TableIndex
  <2>1. i[1] \in Level /\ i[2] \in DOMAIN sstables[i[1]]
    BY DEF TableIndex
  <2>2. DOMAIN <<>> = {}
    OBVIOUS
  <2> QED
    BY <2>1, <2>2 DEF DeepEmpty
<1>4. \A i \in DOMAIN sstables[0] : <<0, i>> \in TableIndex
  BY StorageEngineAssumption DEF TableIndex, Level
<1>5. (\E m \in Memtables : e = heap[m].data[k]) <=> InMemtable(k, e) \/ InList(k, e)
  BY <1>2 DEF Listed, InMemtable, InList
<1>6. (\E i \in TableIndex : e = sstables[i[1]][i[2]][k]) <=> InLevel0(k, e)
  BY <1>3, <1>4 DEF InLevel0
<1> QED
  BY <1>5, <1>6 DEF EntriesAnywhere

(* So what a step of a get finds first is the newest of them.               *)
Newest(k, e) ==
  IF e = None THEN EntriesAnywhere(k) = {}
  ELSE e \in EntriesAnywhere(k) /\ \A f \in EntriesAnywhere(k) : f.stamp <= e.stamp

LEMMA MemtableNewest ==
  ASSUME InPlace, \A c \in Client : hand[c] = <<>>, NEW k \in Key,
         NEW e, e = heap[memtable].data[k], e # None
  PROVE  Newest(k, e)
<1>1. Shape /\ DeepEmpty
  BY DEF InPlace, Aged, ByAge
<1>2. e \in EntriesAnywhere(k)
  BY <1>1, EntriesAre DEF InMemtable
<1>3. ASSUME NEW f \in EntriesAnywhere(k) PROVE f.stamp <= e.stamp
  <2>1. f # None /\ (InMemtable(k, f) \/ InList(k, f) \/ InLevel0(k, f))
    BY <1>1, EntriesAre
  <2>2. f.stamp \in Nat /\ e.stamp \in Nat
    BY <1>1, <1>2, EntriesTyped
  <2>3. f = e \/ e.stamp >= f.stamp
    BY <2>1, AgesOfReads, NotOlderStamp DEF InMemtable, InList, InLevel0
  <2> QED
    BY <2>2, <2>3
<1> QED
  BY <1>2, <1>3 DEF Newest

LEMMA ListNewest ==
  ASSUME InPlace, \A c \in Client : hand[c] = <<>>, NEW k \in Key, heap[memtable].data[k] = None,
         NEW e, NEW a \in DOMAIN immutable_memtables, e = heap[immutable_memtables[a]].data[k], e # None,
         \A b \in DOMAIN immutable_memtables : b > a => heap[immutable_memtables[b]].data[k] = None
  PROVE  Newest(k, e)
<1>1. Shape /\ DeepEmpty
  BY DEF InPlace, Aged, ByAge
<1>2. e \in EntriesAnywhere(k)
  BY <1>1, EntriesAre DEF InList
<1>3. ASSUME NEW f \in EntriesAnywhere(k) PROVE f.stamp <= e.stamp
  <2>1. f # None /\ (InList(k, f) \/ InLevel0(k, f))
    BY <1>1, EntriesAre DEF InMemtable
  <2>2. f.stamp \in Nat /\ e.stamp \in Nat
    BY <1>1, <1>2, EntriesTyped
  <2>3. CASE InList(k, f)
    <3>1. PICK i \in DOMAIN immutable_memtables : f = heap[immutable_memtables[i]].data[k]
      BY <2>3 DEF InList
    <3>2. i \in Nat /\ a \in Nat /\ ~(i > a)
      BY <2>1, <3>1, AgesOfReads
    <3>3. i < a \/ i = a
      BY <3>2
    <3>4. CASE i < a
      <4>1. e.stamp >= f.stamp
        BY <2>1, <3>1, <3>4, AgesOfReads, NotOlderStamp
      <4> QED
        BY <2>2, <4>1
    <3> QED
      BY <2>2, <3>1, <3>3, <3>4
  <2>4. CASE InLevel0(k, f)
    <3>1. e.stamp >= f.stamp
      BY <2>1, <2>4, AgesOfReads, NotOlderStamp DEF InLevel0
    <3> QED
      BY <2>2, <3>1
  <2> QED
    BY <2>1, <2>3, <2>4
<1> QED
  BY <1>2, <1>3 DEF Newest

LEMMA TablesNewest ==
  ASSUME InPlace, \A c \in Client : hand[c] = <<>>, NEW k \in Key, heap[memtable].data[k] = None,
         \A i \in DOMAIN immutable_memtables : heap[immutable_memtables[i]].data[k] = None,
         NEW e, FoundLast(TableRows(k), e)
  PROVE  Newest(k, e)
<1>1. Shape /\ DeepEmpty
  BY DEF InPlace, Aged, ByAge
<1>2. ASSUME NEW f \in EntriesAnywhere(k) PROVE f # None /\ InLevel0(k, f)
  BY <1>1, EntriesAre DEF InMemtable, InList
<1>3. /\ DOMAIN TableRows(k) = DOMAIN sstables[0]
      /\ \A i \in DOMAIN sstables[0] : TableRows(k)[i] = sstables[0][i][k]
  BY DEF TableRows
<1>4. CASE e = None /\ \A i \in DOMAIN sstables[0] : sstables[0][i][k] = None
  BY <1>2, <1>4 DEF InLevel0, Newest
<1>5. ASSUME NEW a \in DOMAIN sstables[0], sstables[0][a][k] = e, e # None,
             \A b \in DOMAIN sstables[0] : b > a => sstables[0][b][k] = None
      PROVE  Newest(k, e)
  <2>1. e \in EntriesAnywhere(k)
    BY <1>1, <1>5, EntriesAre DEF InLevel0
  <2>2. ASSUME NEW f \in EntriesAnywhere(k) PROVE f.stamp <= e.stamp
    <3>1. PICK i \in DOMAIN sstables[0] : f = sstables[0][i][k] /\ f # None
      BY <1>2, <2>2 DEF InLevel0
    <3>2. i \in Nat /\ a \in Nat /\ ~(i > a)
      BY <1>5, <3>1, AgesOfReads
    <3>3. f.stamp \in Nat /\ e.stamp \in Nat
      BY <1>1, <2>1, <2>2, EntriesTyped
    <3>4. i < a \/ i = a
      BY <3>2
    <3>5. CASE i < a
      <4>1. e.stamp >= f.stamp
        BY <1>5, <3>1, <3>5, AgesOfReads, NotOlderStamp
      <4> QED
        BY <3>3, <4>1
    <3> QED
      BY <1>5, <3>1, <3>3, <3>4, <3>5
  <2> QED
    BY <1>5, <2>1, <2>2 DEF Newest
<1>6. \/ e = None /\ \A i \in DOMAIN sstables[0] : sstables[0][i][k] = None
      \/ \E a \in DOMAIN sstables[0] : /\ sstables[0][a][k] = e /\ e # None
                                       /\ \A b \in DOMAIN sstables[0] : b > a => sstables[0][b][k] = None
  BY <1>3 DEF FoundLast
<1> QED
  BY <1>4, <1>5, <1>6

(* And it is the newest write, unless the flush of that failed.             *)
FreshAnswer(k, e) ==
  \/ StampOf(e) >= latest[k]
  \/ \E m \in dropped : StampOf(heap[m].data[k]) = latest[k]

LEMMA NewestFresh ==
  ASSUME InPlace, NEW k \in Key, NEW e, Newest(k, e)
  PROVE  FreshAnswer(k, e)
<1>1. Shape /\ NothingLost
  BY DEF InPlace, Aged, ByAge
<1>2. latest[k] \in Nat
  BY <1>1, DataTypes
<1>3. ASSUME NEW f, f \in EntriesAnywhere(k), StampOf(f) = latest[k] PROVE StampOf(e) >= latest[k]
  <2>1. e # None /\ e \in EntriesAnywhere(k) /\ f.stamp <= e.stamp
    BY <1>3 DEF Newest
  <2>2. e.stamp \in Nat /\ f.stamp \in Nat /\ f # None
    BY <1>1, <1>3, <2>1, EntriesTyped
  <2> QED
    BY <1>3, <2>1, <2>2 DEF StampOf
<1>4. CASE latest[k] = 0
  <2>1. StampOf(e) \in Nat
    BY <1>1, EntriesTyped DEF Newest, StampOf
  <2> QED
    BY <1>4, <2>1 DEF FreshAnswer
<1>5. CASE latest[k] > 0
  <2>1. Held(k, latest[k])
    BY <1>1, <1>5 DEF NothingLost
  <2>2. \A f : StampOf(f) = latest[k] => f # None
    BY <1>2, <1>5 DEF StampOf
  <2>3. CASE \E m \in dropped : StampOf(heap[m].data[k]) = latest[k]
    BY <2>3 DEF FreshAnswer
  <2>4. ASSUME NEW m \in Memtables, StampOf(heap[m].data[k]) = latest[k] PROVE FreshAnswer(k, e)
    <3>1. heap[m].data[k] \in EntriesAnywhere(k)
      BY <2>2, <2>4 DEF EntriesAnywhere
    <3> QED
      BY <1>3, <2>4, <3>1 DEF FreshAnswer
  <2>5. ASSUME NEW i \in TableIndex, StampOf(sstables[i[1]][i[2]][k]) = latest[k] PROVE FreshAnswer(k, e)
    <3>1. sstables[i[1]][i[2]][k] \in EntriesAnywhere(k)
      BY <2>2, <2>5 DEF EntriesAnywhere
    <3> QED
      BY <1>3, <2>5, <3>1 DEF FreshAnswer
  <2> QED
    BY <2>1, <2>3, <2>4, <2>5 DEF Held
<1> QED
  BY <1>2, <1>4, <1>5

-----------------------------------------------------------------------------
(* What a build must be like for lookups to find tables: either its flushes *)
(* all fail, so that no table is ever read, or its readers have no filter   *)
(* that denies keys.  The present build is of the first kind.               *)
FilterSound == "ok" \notin FlushResults \/ ~BloomLoaded

LEMMA InPlaceInit == Init => InPlace
<1> SUFFICES ASSUME Init PROVE InPlace
  OBVIOUS
<1>1. 0 \in Level
  BY StorageEngineAssumption DEF Level
<1> QED
  BY <1>1, AgedInit DEF Init, InPlace, NothingLost, DeepEmpty, FiltersPass

LEMMA InPlaceStep ==
  ASSUME OneClient, FilterSound, InPlace, [Next]_vars
  PROVE  InPlace'
<1>1. Shape
  BY DEF InPlace, Aged, ByAge
<1>2. Aged' /\ NothingLost'
  BY <1>1, AgedStep, NothingLostStep DEF InPlace
<1>3. DeepEmpty'
  <2>1. sstables \in [Level -> Seq(EntryMap)]
    BY <1>1 DEF Shape, TypeOK
  <2>2. CASE UNCHANGED sstables
    BY <2>2 DEF InPlace, DeepEmpty
  <2>3. ASSUME NEW m \in Memtables, sstables' = [sstables EXCEPT ![0] = Append(@, heap[m].data)]
        PROVE  DeepEmpty'
    BY <2>1, <2>3 DEF InPlace, DeepEmpty
  <2> QED
    BY <1>1, <2>2, <2>3, TableSteps
<1>4. FiltersPass'
  <2>1. ASSUME NEW c \in Client, FlushStep(c) PROVE FiltersPass'
    <3>1. PICK r : FlushMemtable(hand[c][1], r)
      BY <2>1 DEF FlushStep, Flush, DrainFlush, CloseFlush
    <3>2. sstables' = sstables \/ "ok" \in FlushResults
      BY <3>1 DEF FlushMemtable
    <3> QED
      BY <3>2 DEF InPlace, FiltersPass, FilterSound
  <2>2. ASSUME UNCHANGED sstables PROVE FiltersPass'
    BY <2>2 DEF InPlace, FiltersPass
  <2>3. UNCHANGED sstables \/ \E c \in Client : FlushStep(c)
    BY <1>1, MovingSteps DEF RotateSwap, RotatePush, RotateAgain, CloseDrain, Insert,
                             CloseClone, history
  <2> QED
    BY <2>1, <2>2, <2>3
<1> QED
  BY <1>2, <1>3, <1>4 DEF InPlace

(* The steps of the other operations, whose calls are not gets.             *)
Elsewhere(c) ==
  /\ pc[c] # "idle" /\ pc[c] \notin GetSteps
  /\ call' = call
  /\ pc'[c] \notin GetSteps

GetStep(c) == GetMemtable(c) \/ GetImmutable(c) \/ GetTables(c)

LEMMA StepsOfOthers ==
  ASSUME Shape, [Next]_vars
  PROVE  \/ UNCHANGED vars
         \/ \E c \in Client : Invoke(c) \/ GetStep(c) \/ Elsewhere(c)
<1>0. pc \in [Client -> Steps]
  BY DEF Shape, TypeOK
<1>1. ASSUME NEW c \in Client, LockStep(c) PROVE GetStep(c) \/ Elsewhere(c)
  <2>1. ASSUME NEW list, Limit(c, list) PROVE pc'[c] \notin GetSteps
    BY <1>0, <2>1 DEF Limit, Goto, GetSteps
  <2> QED
    BY <1>0, <1>1, <2>1 DEF LockStep, RotateSwap, RotatePush, RotateAgain, CloseDrain, ScanImmutable,
       ScanStep, Return, Goto, GetStep, Elsewhere, GetSteps
<1>2. ASSUME NEW c \in Client, FlushStep(c) PROVE Elsewhere(c)
  BY <1>0, <1>2 DEF FlushStep, Flush, DrainFlush, DrainNext, CloseFlush, Return, Goto, Elsewhere, GetSteps
<1>3. ASSUME NEW c \in Client, FreeStep(c) PROVE GetStep(c) \/ Elsewhere(c)
  BY <1>0, <1>3 DEF FreeStep, CheckRotate, TakeSequence, Insert, ScanMemtable, ScanTables, CloseClone,
     ScanStep, Return, Goto, GetStep, Elsewhere, GetSteps
<1> QED
  BY <1>1, <1>2, <1>3 DEF Next

(* What a step of a get does: it answers with the newest entry, or that a   *)
(* block cannot be read, or it goes on because nothing was there.           *)
GetEnds(c, k) ==
  \/ \E e \in Entry \cup {None} : Newest(k, e) /\ Return(c, Result("ok", e, NoEntries))
  \/ Compression = "zstd" /\ Return(c, Error("failed"))
GetGoesOn(c, k) ==
  \E next \in {"get_imm", "get_sst"} :
    /\ Goto(c, next) /\ UNCHANGED answer
    /\ heap[memtable].data[k] = None
    /\ next = "get_sst" =>
         \A i \in DOMAIN immutable_memtables : heap[immutable_memtables[i]].data[k] = None

LEMMA GetStepDoes ==
  ASSUME LengthsAreNat, InPlace, NEW c \in Client, Getting(c), GetStep(c),
         \A d \in Client : d = c, NEW k, k = call[c].key
  PROVE  GetEnds(c, k) \/ GetGoesOn(c, k)
<1>1. Shape /\ DeepEmpty /\ FiltersPass
  BY DEF InPlace, Aged, ByAge
<1>2. call[c] \in Request /\ hand[c] = <<>> /\ pc[c] \in GetSteps
  BY <1>1 DEF Shape, InCall, HandShape, GetStep, GetSteps, GetMemtable, GetImmutable, GetTables, GetFrom
<1>3. \A d \in Client : hand[d] = <<>>
  BY <1>2
<1>4. k \in Key
  BY <1>2 DEF Request
<1>5. ASSUME NEW e, Newest(k, e) PROVE e \in Entry \cup {None} /\ e # Unreadable
  <2>1. e \in Entry \cup {None}
    BY <1>1, <1>4, <1>5, EntriesTyped DEF Newest
  <2> QED
    BY <2>1, SSTableAssumption
<1>6. ASSUME NEW e, NEW step, NEW next \in {"get_imm", "get_sst"}, GetFrom(c, step, e, next),
             IF e # None THEN Newest(k, e)
             ELSE /\ heap[memtable].data[k] = None
                  /\ next = "get_sst" =>
                       \A i \in DOMAIN immutable_memtables : heap[immutable_memtables[i]].data[k] = None
      PROVE  GetEnds(c, k) \/ GetGoesOn(c, k)
  <2>1. CASE e # None
    <3>1. Newest(k, e) /\ e \in Entry \cup {None} /\ e # Unreadable
      BY <1>5, <1>6, <2>1
    <3>2. Return(c, Result("ok", e, NoEntries))
      BY <1>6, <2>1, <3>1 DEF GetFrom
    <3> QED
      BY <3>1, <3>2 DEF GetEnds
  <2>2. CASE e = None
    <3>1. Goto(c, next) /\ UNCHANGED answer
      BY <1>6, <2>2 DEF GetFrom
    <3> QED
      BY <1>6, <2>2, <3>1 DEF GetGoesOn
  <2> QED
    BY <2>1, <2>2
<1>9. CASE GetMemtable(c)
  <2>1. PICK e : e = heap[memtable].data[k]
    OBVIOUS
  <2>2. GetFrom(c, "get", e, "get_imm")
    BY <1>9, <2>1 DEF GetMemtable
  <2>3. e # None => Newest(k, e)
    BY <1>3, <1>4, <2>1, MemtableNewest
  <2> QED
    BY <1>6, <2>1, <2>2, <2>3
<1>10. CASE GetImmutable(c)
  <2>1. PICK e : e = LookupImmutables(k)
    OBVIOUS
  <2>2. GetFrom(c, "get_imm", e, "get_sst")
    BY <1>10, <2>1 DEF GetImmutable
  <2>3. heap[memtable].data[k] = None
    BY <2>2 DEF GetFrom, Getting
  <2>4. FoundLast(ListRows(k), e)
    BY <1>1, <1>4, <2>1, LookupImmutablesIs
  <2>5. CASE e = None /\ \A a \in DOMAIN ListRows(k) : ListRows(k)[a] = None
    <3>1. \A i \in DOMAIN immutable_memtables : heap[immutable_memtables[i]].data[k] = None
      BY <2>5 DEF ListRows
    <3> QED
      BY <1>6, <2>2, <2>3, <2>5, <3>1
  <2>6. ASSUME NEW a \in DOMAIN ListRows(k), ListRows(k)[a] = e, e # None,
               \A b \in DOMAIN ListRows(k) : b > a => ListRows(k)[b] = None
        PROVE  GetEnds(c, k) \/ GetGoesOn(c, k)
    <3>1. /\ a \in DOMAIN immutable_memtables /\ e = heap[immutable_memtables[a]].data[k]
          /\ \A b \in DOMAIN immutable_memtables : b > a => heap[immutable_memtables[b]].data[k] = None
      BY <2>6 DEF ListRows
    <3>2. Newest(k, e)
      BY <1>3, <1>4, <2>3, <2>6, <3>1, ListNewest
    <3> QED
      BY <1>6, <2>2, <2>6, <3>2
  <2> QED
    BY <2>4, <2>5, <2>6 DEF FoundLast
<1>11. CASE GetTables(c)
  <2>1. PICK e : e = LookupTables(k)
    OBVIOUS
  <2>2. GetFrom(c, "get_sst", e, "idle")
    BY <1>11, <2>1 DEF GetTables
  <2>3. /\ heap[memtable].data[k] = None
        /\ \A i \in DOMAIN immutable_memtables : heap[immutable_memtables[i]].data[k] = None
    BY <2>2 DEF GetFrom, Getting
  <2>4. ReadsTables(k, e)
    BY <1>1, <1>4, <2>1, LookupTablesIs
  <2>5. CASE e = Unreadable /\ Compression = "zstd"
    <3>1. Return(c, Error("failed"))
      BY <2>2, <2>5 DEF GetFrom
    <3> QED
      BY <2>5, <3>1 DEF GetEnds
  <2>6. CASE e # Unreadable /\ FoundLast(TableRows(k), e)
    <3>1. Newest(k, e)
      BY <1>3, <1>4, <2>3, <2>6, TablesNewest
    <3>2. Return(c, Result("ok", e, NoEntries))
      BY <2>2, <2>6 DEF GetFrom
    <3> QED
      BY <1>5, <3>1, <3>2 DEF GetEnds
  <2> QED
    BY <2>4, <2>5, <2>6 DEF ReadsTables
<1> QED
  BY <1>9, <1>10, <1>11 DEF GetStep

LEMMA GetStepReads ==
  ASSUME LengthsAreNat, InPlace, NEW c \in Client, Getting(c), GetStep(c),
         \A d \in Client : d = c
  PROVE  Getting(c)' /\ GetsFresh(c)'
<1>1. Shape
  BY DEF InPlace, Aged, ByAge
<1>2. /\ pc \in [Client -> Steps] /\ answer \in [Client -> Answer]
      /\ call[c] \in Request /\ pc[c] \in GetSteps
  BY <1>1 DEF Shape, TypeOK, InCall, GetStep, GetSteps, GetMemtable, GetImmutable, GetTables, GetFrom
<1>4. PICK k : k = call[c].key
  OBVIOUS
<1>5. k \in Key /\ call[c].op = "get" /\ floor[c] = latest
  BY <1>2, <1>4 DEF Request, Getting, GetSteps
<1>6. UNCHANGED <<heap, memtable, immutable_memtables, sstables, call, floor, latest, dropped>>
  BY DEF GetStep, GetMemtable, GetImmutable, GetTables, GetFrom, shared, history
<1>7. ASSUME NEW e, Newest(k, e), Return(c, Result("ok", e, NoEntries))
      PROVE  Getting(c)' /\ GetsFresh(c)'
  <2>1. pc'[c] = "idle" /\ answer'[c].entry = e
    BY <1>2, <1>7 DEF Return, Goto, Result
  <2>2. LeftOf(c, k, e)
    BY <1>5, <1>7, NewestFresh DEF FreshAnswer, LeftOf
  <2>3. LeftOf(c, k, e)' <=> LeftOf(c, k, e)
    BY <1>6 DEF LeftOf
  <2>4. GetsFresh(c)' <=> (Answered(c, "get")' => LeftOf(c, k, e)')
    BY <1>4, <1>6, <2>1 DEF GetsFresh, LeftOf
  <2> QED
    BY <2>1, <2>2, <2>3, <2>4 DEF Getting, GetSteps
<1>8. CASE GetGoesOn(c, k)
  <2>0. PICK next \in {"get_imm", "get_sst"} :
          /\ Goto(c, next) /\ heap[memtable].data[k] = None
          /\ next = "get_sst" =>
               \A i \in DOMAIN immutable_memtables : heap[immutable_memtables[i]].data[k] = None
    BY <1>8 DEF GetGoesOn
  <2>1. pc'[c] = next
    BY <1>2, <2>0 DEF Goto
  <2> QED
    BY <1>4, <1>5, <1>6, <2>0, <2>1 DEF Getting, GetsFresh, Answered, GetSteps
<1>9. CASE Return(c, Error("failed"))
  <2>1. pc'[c] = "idle" /\ answer'[c].tag # "ok"
    BY <1>2, <1>9 DEF Return, Goto, Error, Result
  <2> QED
    BY <2>1 DEF Getting, GetsFresh, Answered, GetSteps
<1> QED
  BY <1>4, <1>7, <1>8, <1>9, GetStepDoes DEF GetEnds

LEMMA InvokeReads ==
  ASSUME InPlace, NEW c \in Client, Invoke(c)
  PROVE  Getting(c)' /\ GetsFresh(c)'
<1>1. Shape
  BY DEF InPlace, Aged, ByAge
<1>2. PICK r \in Requests : Enter(c, r) \/ Reject(c, r) \/ BeginClose(c, r)
  BY DEF Invoke
<1>3. r \in Request /\ r.op \in OpName
  BY <1>1, <1>2, RequestsType, StorageEngineAssumption DEF Request, Requests
<1>4. /\ pc \in [Client -> Steps] /\ call \in [Client -> Request \cup {Idle}]
      /\ floor \in [Client -> [Key -> Nat]] /\ answer \in [Client -> Answer]
  BY <1>1 DEF Shape, TypeOK
<1>5. call'[c] = r /\ floor'[c] = latest /\ latest' = latest
  BY <1>2, <1>4 DEF Enter, Reject, BeginClose, Begin
<1>6. CASE Enter(c, r)
  <2>1. pc'[c] = FirstStep(r.op) /\ r.op # "close"
    BY <1>4, <1>6 DEF Enter, Goto
  <2>2. /\ r.op = "get" => FirstStep(r.op) = "get"
        /\ r.op # "get" => FirstStep(r.op) \notin GetSteps \cup {"idle"}
        /\ FirstStep(r.op) # "idle"
    BY <1>3 DEF FirstStep, OpName, GetSteps
  <2> HIDE DEF FirstStep
  <2> QED
    BY <1>5, <2>1, <2>2 DEF Getting, GetsFresh, Answered, GetSteps
<1>7. CASE Reject(c, r)
  <2>1. pc'[c] = "idle" /\ answer'[c].tag # "ok"
    BY <1>4, <1>7 DEF Reject, Return, Goto, Error, Result
  <2> QED
    BY <2>1 DEF Getting, GetsFresh, Answered, GetSteps
<1>8. CASE BeginClose(c, r)
  <2>1. r.op = "close" /\ (pc'[c] = "idle" \/ pc'[c] = "drain")
    BY <1>4, <1>8 DEF BeginClose, Return, Goto, FirstStep
  <2> QED
    BY <1>5, <2>1 DEF Getting, GetsFresh, Answered, GetSteps
<1> QED
  BY <1>2, <1>6, <1>7, <1>8

LEMMA ReadsStep ==
  ASSUME OneClient, LengthsAreNat, InPlace, Reads, [Next]_vars
  PROVE  Reads'
<1>1. Shape
  BY DEF InPlace, Aged, ByAge
<1>2. CASE UNCHANGED vars
  <2>1. \A c \in Client : Getting(c)' <=> Getting(c)
    BY <1>2 DEF Getting, vars, shared, private, history
  <2>2. \A c \in Client : GetsFresh(c)' <=> GetsFresh(c)
    BY <1>2 DEF GetsFresh, LeftOf, Answered, vars, shared, private, history
  <2> QED
    BY <2>1, <2>2 DEF Reads
<1>3. ASSUME NEW c \in Client, Invoke(c) \/ GetStep(c) \/ Elsewhere(c)
      PROVE  Reads'
  <2>1. \A d \in Client : d = c
    BY DEF OneClient
  <2>2. CASE Elsewhere(c)
    BY <2>1, <2>2 DEF Elsewhere, Reads, Getting, GetsFresh, Answered, GetSteps
  <2> QED
    BY <1>3, <2>1, <2>2, InvokeReads, GetStepReads DEF Reads
<1> QED
  BY <1>1, <1>2, <1>3, StepsOfOthers

(* While one client uses the engine, a get answers with nothing older than  *)
(* what its key held when it was called, wherever the key is by then, or    *)
(* that was in a memtable whose flush failed: for every set of keys, sizes, *)
(* block size and configuration, and whether flushes fail or not.  With two *)
(* clients the property does not hold.                                      *)
THEOREM GetFindsWhatIsLeftHolds ==
  ASSUME OneClient, FilterSound, LengthsAreNat
  PROVE  Spec => []GetFindsWhatIsLeft
<1>1. Init => InPlace /\ Reads
  BY InPlaceInit DEF Init, Reads, Getting, GetsFresh, Answered, GetSteps
<1>2. InPlace /\ Reads /\ [Next]_vars => (InPlace /\ Reads)'
  BY InPlaceStep, ReadsStep
<1>3. InPlace /\ Reads => GetFindsWhatIsLeft
  BY DEF Reads, GetsFresh, LeftOf, GetFindsWhatIsLeft
<1> QED
  BY <1>1, <1>2, <1>3, PTL DEF Spec


-----------------------------------------------------------------------------
(* The map that one client sees.  A step that inserts nothing adds no       *)
(* version, and takes some away only when a flush fails.                    *)
LEMMA NothingAdded ==
  ASSUME OneClient, ByAge, [Next]_vars, UNCHANGED latest
  PROVE  MemtablesFrom
<1>1. Quiet \/ \E c \in Client : \/ RotateSwap(c) \/ RotatePush(c) \/ RotateAgain(c)
                                 \/ CloseDrain(c) \/ FlushStep(c) \/ CloseClone(c)
  BY QuietSteps, NoInsert DEF ByAge
<1> QED
  BY <1>1, AgesQuiet, AgesSwap, AgesPush, AgesAgain, AgesDrain, AgesFlush, AgesClone

LEMMA EntriesFrom ==
  ASSUME OneClient, ByAge, [Next]_vars, UNCHANGED latest, NEW k \in Key
  PROVE  EntriesAnywhere(k)' \subseteq EntriesAnywhere(k)
<1> SUFFICES ASSUME NEW e \in EntriesAnywhere(k)' PROVE e \in EntriesAnywhere(k)
  OBVIOUS
<1>0. Shape /\ MemtablesFrom
  BY NothingAdded DEF ByAge
<1>1. e # None
  BY DEF EntriesAnywhere
<1>2. ASSUME NEW n \in Memtables, e = heap[n].data[k] PROVE e \in EntriesAnywhere(k)
  BY <1>1, <1>2 DEF EntriesAnywhere
<1>3. ASSUME NEW i \in TableIndex, e = sstables[i[1]][i[2]][k] PROVE e \in EntriesAnywhere(k)
  BY <1>1, <1>3 DEF EntriesAnywhere
<1>4. ASSUME NEW m \in Memtables', e = heap'[m].data[k] PROVE e \in EntriesAnywhere(k)
  <2>1. heap'[m].data # NoEntries
    BY <1>1, <1>4 DEF NoEntries
  <2> QED
    BY <1>0, <1>2, <1>4, <2>1 DEF MemtablesFrom
<1>5. ASSUME NEW i \in TableIndex', e = sstables'[i[1]][i[2]][k] PROVE e \in EntriesAnywhere(k)
  BY <1>0, <1>2, <1>3, <1>5, TablesComeFrom
<1> QED
  BY <1>4, <1>5 DEF EntriesAnywhere

(* Between its clone and its flush the memtable that close has cloned is    *)
(* the active one, so that a failure of that flush takes nothing away.      *)
CloneKept == \A c \in Client : pc[c] = "clone_flush" => heap[hand[c][1]].data = heap[memtable].data

LEMMA CloneKeptStep ==
  ASSUME OneClient, Shape, CloneKept, [Next]_vars
  PROVE  CloneKept'
<1> SUFFICES ASSUME NEW c \in Client, pc'[c] = "clone_flush"
             PROVE  heap'[hand'[c][1]].data = heap'[memtable'].data
  BY DEF CloneKept
<1>0. /\ pc \in [Client -> Steps] /\ hand \in [Client -> Seq(Ids)] /\ \A d \in Client : d = c
      /\ heap \in Seq(MemTableRec) /\ memtable \in Ids /\ heap[memtable] \in MemTableRec /\ Ids = 1..Len(heap)
  BY DEF Shape, TypeOK, OneClient, Ids
<1>1. CASE UNCHANGED vars
  BY <1>1 DEF CloneKept, vars, shared, private
<1>2. ASSUME ~UNCHANGED vars PROVE CloseClone(c) /\ heap[memtable].count # 0
  <2>1. ASSUME NEW op \in OpName PROVE FirstStep(op) # "clone_flush"
    BY DEF FirstStep, OpName
  <2>2. ~Invoke(c)
    <3> SUFFICES ASSUME NEW r \in Requests, Enter(c, r) \/ Reject(c, r) \/ BeginClose(c, r) PROVE FALSE
      BY DEF Invoke
    <3>1. r.op \in OpName
      BY RequestsType, StorageEngineAssumption DEF Request
    <3>2. pc'[c] = "idle" \/ pc'[c] = FirstStep(r.op)
      BY <1>0 DEF Enter, Reject, BeginClose, Return, Goto
    <3> QED
      BY <2>1, <3>1, <3>2
  <2>3. ASSUME NEW list, Limit(c, list) PROVE FALSE
    BY <1>0, <2>3 DEF Limit, Goto
  <2>4. ~LockStep(c)
    BY <1>0, <2>3 DEF LockStep, RotateSwap, RotatePush, RotateAgain, GetImmutable, GetFrom, ScanImmutable,
       ScanStep, CloseDrain, Return, Goto
  <2>5. ~FlushStep(c)
    BY <1>0 DEF FlushStep, Flush, DrainFlush, DrainNext, CloseFlush, Return, Goto
  <2>6. FreeStep(c) => CloseClone(c) /\ heap[memtable].count # 0
    BY <1>0 DEF FreeStep, CheckRotate, TakeSequence, Insert, GetMemtable, GetTables, GetFrom, ScanMemtable,
       ScanTables, ScanStep, CloseClone, Return, Goto
  <2> QED
    BY <1>0, <1>2, <2>2, <2>4, <2>5, <2>6 DEF Next
<1>3. CASE ~UNCHANGED vars
  <2> DEFINE clone == [heap[memtable] EXCEPT !.immutable = TRUE]
             n == Len(heap) + 1
  <2>1. heap' = Append(heap, clone) /\ hand'[c] = <<n>> /\ memtable' = memtable
    BY <1>0, <1>2, <1>3 DEF CloseClone
  <2>2. clone.data = heap[memtable].data
    BY <1>0, FreezeFacts
  <2> HIDE DEF clone
  <2>3. heap'[n] = clone /\ heap'[memtable] = heap[memtable] /\ hand'[c][1] = n
    BY <1>0, <2>1
  <2> QED
    BY <2>1, <2>2, <2>3
<1> QED
  BY <1>1, <1>3

FailingFlush(c) == (Flush(c, "err") \/ DrainFlush(c, "err")) /\ "err" \in FlushResults

LEMMA EntriesStay ==
  ASSUME OneClient, Shape, CloneKept, [Next]_vars, UNCHANGED latest, \A c \in Client : ~FailingFlush(c),
         NEW k \in Key
  PROVE  EntriesAnywhere(k) \subseteq EntriesAnywhere(k)'
<1> SUFFICES ASSUME NEW e \in EntriesAnywhere(k) PROVE e \in EntriesAnywhere(k)'
  OBVIOUS
<1>1. e # None
  BY DEF EntriesAnywhere
<1>2. \A m \in Memtables : m \in Ids /\ heap'[m].data = heap[m].data
  BY NoInsert, HeapSteps, IdsHeld
<1>3. ASSUME NEW i \in TableIndex', e = sstables'[i[1]][i[2]][k] PROVE e \in EntriesAnywhere(k)'
  BY <1>1, <1>3 DEF EntriesAnywhere
<1>4. ASSUME NEW i \in TableIndex, e = sstables[i[1]][i[2]][k] PROVE e \in EntriesAnywhere(k)'
  BY <1>3, <1>4, TablesStay
<1>5. ASSUME NEW m \in Memtables', e = heap'[m].data[k] PROVE e \in EntriesAnywhere(k)'
  BY <1>1, <1>5 DEF EntriesAnywhere
<1>6. ASSUME NEW m \in Memtables, e = heap[m].data[k] PROVE e \in EntriesAnywhere(k)'
  <2>1. CASE m \in Memtables'
    BY <1>2, <1>5, <1>6, <2>1
  <2>2. CASE m \notin Memtables'
    <3>1. PICK c \in Client : FlushStep(c)
      BY <2>2, MemtablesStay
    <3>2. m = hand[c][1]
      BY <2>2, <3>1, FlushTakes
    <3>3. PICK r : /\ Flush(c, r) \/ DrainFlush(c, r) \/ CloseFlush(c, r)
                   /\ FlushMemtable(m, r)
      BY <3>1, <3>2 DEF FlushStep, Flush, DrainFlush, CloseFlush
    <3>4. heap[m].data # NoEntries
      BY <1>1, <1>6 DEF NoEntries
    <3>5. heap[m].count # 0
      BY <1>2, <3>4 DEF Shape, CountZeroIsEmpty
    <3>6. r \in FlushResults
      BY <3>3, <3>5 DEF FlushMemtable
    <3>7. CASE r # "err"
      <4>1. PICK i \in TableIndex' : sstables'[i[1]][i[2]] = heap[m].data
        BY <1>2, <3>3, <3>4, <3>7, FlushKeeps
      <4> QED
        BY <1>3, <1>6, <4>1
    <3>8. CASE r = "err"
      <4>1. CloseFlush(c, r)
        BY <3>3, <3>6, <3>8 DEF FailingFlush
      <4>2. heap[m].data = heap[memtable].data /\ memtable' = memtable
        BY <3>2, <4>1 DEF CloneKept, CloseFlush
      <4>3. memtable \in Memtables /\ memtable \in Memtables'
        BY <4>2 DEF Memtables
      <4> QED
        BY <1>2, <1>5, <1>6, <4>2, <4>3
    <3> QED
      BY <3>7, <3>8
  <2> QED
    BY <2>1, <2>2
<1> QED
  BY <1>4, <1>6 DEF EntriesAnywhere

(* An insertion adds a version that is newer than the others of its key.    *)
Inserted(c) == [val |-> call[c].val, sequence |-> taken[c], stamp |-> latest[call[c].key] + 1]

LEMMA InsertAdds ==
  ASSUME Shape, AllKnown, NEW c \in Client, Insert(c), NEW key, key = call[c].key
  PROVE  /\ key \in Key
         /\ Inserted(c) \in EntriesAnywhere(key)'
         /\ EntriesAnywhere(key)' \subseteq EntriesAnywhere(key) \cup {Inserted(c)}
         /\ \A f \in EntriesAnywhere(key) : f.stamp < Inserted(c).stamp
         /\ \A k \in Key : k # key => EntriesAnywhere(k)' = EntriesAnywhere(k)
<1>1. PICK e : e = Inserted(c)
  OBVIOUS
<1>2. key \in Key /\ e \in Entry /\ e.stamp = latest[key] + 1 /\ latest[key] \in Nat /\ target[c] = memtable
  BY <1>1 DEF Insert, Shape, TypeOK, InCall, WritesActive, Request, Entry, Inserted
<1>3. heap \in Seq(MemTableRec) /\ memtable \in Ids /\ Ids = 1..Len(heap) /\ heap[memtable] \in MemTableRec
  BY DEF Shape, TypeOK, Ids
<1>4. PICK mt : mt = PutEntry(heap[memtable], key, e)
  OBVIOUS
<1>5. mt \in MemTableRec /\ mt.data[key] = e /\ \A j \in Key \ {key} : mt.data[j] = heap[memtable].data[j]
  BY <1>2, <1>3, <1>4, PutEntryFacts, SMTT(30)
<1>6. heap' = [heap EXCEPT ![memtable] = mt] /\ UNCHANGED <<memtable, immutable_memtables, sstables, hand>>
  BY <1>1, <1>2, <1>4 DEF Insert, Inserted
<1>7. heap'[memtable] = mt /\ \A n \in Ids : n # memtable => heap'[n] = heap[n]
  BY <1>3, <1>5, <1>6, SeqUpdate
<1>8. Memtables' = Memtables /\ TableIndex' = TableIndex /\ memtable \in Memtables /\ Memtables \subseteq Ids
  BY <1>6, IdsHeld DEF Memtables, Listed, InHand, TableIndex
<1>9. e # None
  BY <1>2, NoneAssumption
<1>10. ASSUME NEW k \in Key, k # key PROVE EntriesAnywhere(k)' = EntriesAnywhere(k)
  <2>1. \A n \in Memtables : heap'[n].data[k] = heap[n].data[k]
    BY <1>5, <1>7, <1>8, <1>10
  <2> QED
    BY <1>6, <1>8, <2>1 DEF EntriesAnywhere
<1>11. e \in EntriesAnywhere(key)'
  BY <1>5, <1>7, <1>8, <1>9 DEF EntriesAnywhere
<1>12. ASSUME NEW f \in EntriesAnywhere(key)' PROVE f \in EntriesAnywhere(key) \cup {e}
  <2>1. f # None /\ (\/ \E n \in Memtables : f = heap'[n].data[key]
                     \/ \E i \in TableIndex : f = sstables[i[1]][i[2]][key])
    BY <1>6, <1>8 DEF EntriesAnywhere
  <2>2. \A n \in Memtables : heap'[n].data[key] = e \/ heap'[n].data[key] = heap[n].data[key]
    BY <1>5, <1>7, <1>8
  <2> QED
    BY <2>1, <2>2 DEF EntriesAnywhere
<1>13. ASSUME NEW f \in EntriesAnywhere(key) PROVE f.stamp < e.stamp
  <2>1. f # None /\ f.stamp \in Nat
    BY <1>2, EntriesTyped
  <2>2. ASSUME NEW d, Within(d, latest), f = d[key] PROVE f.stamp <= latest[key]
    BY <1>2, <2>1, <2>2 DEF Within, KeysOf
  <2>3. f.stamp <= latest[key]
    BY <1>8, <2>2 DEF EntriesAnywhere, AllKnown
  <2> QED
    BY <1>2, <2>1, <2>3
<1> QED
  BY <1>1, <1>2, <1>10, <1>11, <1>12, <1>13

(* The same of the versions of the map.                                     *)
LEMMA VersionsAre ==
  ASSUME NEW k \in Key
  PROVE  /\ \A v : v \in AbsVersions[k] <=> \E e \in EntriesAnywhere(k) : v = VersionOf(e)
         /\ \A v : v \in AbsVersions'[k] <=> \E e \in EntriesAnywhere(k)' : v = VersionOf(e)
BY DEF AbsVersions

LEMMA VersionTypes ==
  ASSUME Shape, NEW k \in Key
  PROVE  AbsVersions[k] \subseteq Abstract!Version
<1>1. ASSUME NEW e \in EntriesAnywhere(k) PROVE VersionOf(e) \in Abstract!Version
  <2>1. e \in Entry /\ e.stamp \in Nat
    BY EntriesTyped
  <2>2. e.val \in Value \cup {None}
    BY <2>1 DEF Entry
  <2> QED
    BY <2>1, <2>2 DEF VersionOf, Abstract!Version
<1> QED
  BY <1>1, VersionsAre

LEMMA VersionsSame ==
  ASSUME OneClient, ByAge, CloneKept, [Next]_vars, UNCHANGED latest, \A c \in Client : ~FailingFlush(c)
  PROVE  UNCHANGED AbsVersions
<1>1. \A k \in Key : EntriesAnywhere(k)' = EntriesAnywhere(k)
  BY EntriesFrom, EntriesStay DEF ByAge
<1> QED
  BY <1>1 DEF AbsVersions

LEMMA VersionsFewer ==
  ASSUME OneClient, ByAge, [Next]_vars, UNCHANGED latest
  PROVE  /\ AbsVersions' \in [Key -> SUBSET Abstract!Version]
         /\ \A k \in Key : AbsVersions'[k] \subseteq AbsVersions[k]
<1>1. ASSUME NEW k \in Key PROVE AbsVersions'[k] \subseteq AbsVersions[k]
  BY EntriesFrom, VersionsAre
<1>2. \A k \in Key : AbsVersions'[k] \subseteq Abstract!Version
  BY <1>1, VersionTypes DEF ByAge
<1>3. PICK v : v = AbsVersions'
  OBVIOUS
<1>4. v = [k \in Key |-> v[k]]
  BY <1>3 DEF AbsVersions
<1>5. v \in [Key -> SUBSET Abstract!Version]
  BY <1>2, <1>3, <1>4
<1> QED
  BY <1>1, <1>3, <1>5

LEMMA InsertWrites ==
  ASSUME Shape, AllKnown, NEW c \in Client, Insert(c), NEW key, key = call[c].key
  PROVE  Abstract!Write(key, call[c].val)
<1>1. PICK e : e = Inserted(c)
  OBVIOUS
<1>2. /\ key \in Key /\ e \in EntriesAnywhere(key)'
      /\ EntriesAnywhere(key)' \subseteq EntriesAnywhere(key) \cup {e}
      /\ \A f \in EntriesAnywhere(key) : f.stamp < e.stamp
      /\ \A k \in Key : k # key => EntriesAnywhere(k)' = EntriesAnywhere(k)
  BY <1>1, InsertAdds
<1>3. PICK n : n = VersionOf(e)
  OBVIOUS
<1>4. n.at = e.stamp /\ n.val = call[c].val
  BY <1>1, <1>3 DEF VersionOf, Inserted
<1>5. n \in AbsVersions'[key]
  BY <1>2, <1>3, VersionsAre
<1>6. \A v \in AbsVersions[key] : v.at < n.at
  <2> TAKE v \in AbsVersions[key]
  <2>1. PICK f \in EntriesAnywhere(key) : v = VersionOf(f)
    BY <1>2, VersionsAre
  <2>2. v.at = f.stamp
    BY <2>1 DEF VersionOf
  <2> QED
    BY <1>2, <1>4, <2>2
<1>7. AbsVersions'[key] \subseteq AbsVersions[key] \cup {n}
  BY <1>2, <1>3, VersionsAre
<1>8. AbsVersions' = [AbsVersions EXCEPT ![key] = AbsVersions'[key]]
  <2>1. PICK v, w : v = AbsVersions /\ w = AbsVersions'
    OBVIOUS
  <2>2. v = [k \in Key |-> v[k]] /\ w = [k \in Key |-> w[k]]
    BY <2>1 DEF AbsVersions
  <2>3. \A k \in Key : k # key => w[k] = v[k]
    BY <1>2, <2>1 DEF AbsVersions
  <2>4. w = [v EXCEPT ![key] = w[key]]
    BY <2>2, <2>3
  <2> QED
    BY <2>1, <2>4
<1> QED
  BY <1>4, <1>5, <1>6, <1>7, <1>8 DEF Abstract!Write

LEMMA NewestIsValue ==
  ASSUME Shape, NEW k \in Key, NEW e, Newest(k, e)
  PROVE  Abstract!IsValue(k, ValueOf(e))
<1>1. CASE e = None
  <2>1. AbsVersions[k] = {}
    BY <1>1, VersionsAre DEF Newest
  <2> QED
    BY <1>1, <2>1 DEF Abstract!IsValue, ValueOf
<1>2. CASE e # None
  <2>1. e \in EntriesAnywhere(k) /\ \A f \in EntriesAnywhere(k) : f.stamp <= e.stamp
    BY <1>2 DEF Newest
  <2>2. PICK n : n = VersionOf(e)
    OBVIOUS
  <2>3. n \in AbsVersions[k] /\ n.val = ValueOf(e) /\ n.at = e.stamp
    BY <1>2, <2>1, <2>2, VersionsAre DEF VersionOf, ValueOf
  <2>4. \A v \in AbsVersions[k] : v.at <= n.at
    <3> TAKE v \in AbsVersions[k]
    <3>1. PICK f \in EntriesAnywhere(k) : v = VersionOf(f)
      BY VersionsAre
    <3>2. v.at = f.stamp
      BY <3>1 DEF VersionOf
    <3> QED
      BY <2>1, <2>3, <3>2
  <2> QED
    BY <2>3, <2>4 DEF Abstract!IsValue, Abstract!IsNewest
<1> QED
  BY <1>1, <1>2


-----------------------------------------------------------------------------
(* What the only client is doing, while it is inside a call.                *)
WriteSteps == {"check", "swap", "push", "flush", "limit", "sequence", "insert"}
CloseSteps == {"drain", "drain_flush", "clone", "clone_flush"}
Doing(c) ==
  pc[c] # "idle" =>
    /\ call[c] \in Requests
    /\ \/ pc[c] \in WriteSteps /\ call[c].op \in {"put", "delete"} /\ ~closed
       \/ pc[c] \in GetSteps /\ call[c].op = "get" /\ ~closed
       \/ pc[c] \in CloseSteps /\ call[c].op = "close" /\ closed

(* A step inside a call goes on with the call, or ends it with the answer.  *)
(* It ends a put or delete with an insertion or with a flush that failed.   *)
GoesOn(c) ==
  /\ \E S \in {WriteSteps, GetSteps, CloseSteps} : pc[c] \in S /\ pc'[c] \in S
  /\ ~Flush(c, "err") /\ UNCHANGED <<answer, latest>>
Ends(c) ==
  /\ pc'[c] = "idle"
  /\ \/ Insert(c)
     \/ Flush(c, "err") /\ "err" \in FlushResults
     \/ GetStep(c) /\ UNCHANGED latest
     \/ pc[c] \in CloseSteps /\ ~DrainFlush(c, "err") /\ Return(c, Ok) /\ UNCHANGED latest

LEMMA InsideSteps ==
  ASSUME Shape, NEW c \in Client, Doing(c), LockStep(c) \/ FlushStep(c) \/ FreeStep(c)
  PROVE  pc[c] # "idle" /\ UNCHANGED <<call, closed>> /\ (GoesOn(c) \/ Ends(c))
<1>0. pc \in [Client -> Steps] /\ answer \in [Client -> Answer] /\ ActiveMutable
  BY DEF Shape, TypeOK
<1>1. \A S : S \in {WriteSteps, GetSteps, CloseSteps} <=> S = WriteSteps \/ S = GetSteps \/ S = CloseSteps
  OBVIOUS
<1>2. pc[c] \notin {"scan", "scan_imm", "scan_sst"}
  BY DEF Doing, WriteSteps, GetSteps, CloseSteps
<1>3. /\ Flush(c, "err") => pc[c] = "flush"
      /\ DrainFlush(c, "err") => pc[c] = "drain_flush"
  BY DEF Flush, DrainFlush
<1>4. ASSUME NEW S \in {WriteSteps, GetSteps, CloseSteps}, pc[c] \in S, pc'[c] \in S,
             pc[c] # "flush", UNCHANGED <<answer, latest, call, closed>>
      PROVE  pc[c] # "idle" /\ UNCHANGED <<call, closed>> /\ (GoesOn(c) \/ Ends(c))
  BY <1>3, <1>4 DEF GoesOn, WriteSteps, GetSteps, CloseSteps
<1>5. CASE GetStep(c)
  <2>1. pc[c] \in GetSteps /\ UNCHANGED <<call, closed, latest>>
    BY <1>5 DEF GetStep, GetMemtable, GetImmutable, GetTables, GetFrom, shared, history, GetSteps
  <2>2. pc'[c] = "idle" \/ (pc'[c] \in GetSteps /\ UNCHANGED answer)
    BY <1>0, <1>5 DEF GetStep, GetMemtable, GetImmutable, GetTables, GetFrom, Return, Goto, GetSteps
  <2>3. pc[c] # "idle" /\ pc[c] # "flush"
    BY <2>1 DEF GetSteps
  <2> QED
    BY <1>4, <1>5, <2>1, <2>2, <2>3 DEF Ends
<1>6. CASE LockStep(c) /\ ~GetStep(c)
  <2>1. CASE RotateSwap(c)
    <3>1. pc[c] \in WriteSteps /\ pc'[c] \in WriteSteps /\ pc[c] # "flush" /\ UNCHANGED <<answer, latest, call, closed>>
      BY <1>0, <2>1 DEF RotateSwap, Goto, WriteSteps, history
    <3> QED
      BY <1>4, <3>1
  <2>2. ASSUME NEW list, Limit(c, list) PROVE pc'[c] \in WriteSteps
    BY <1>0, <2>2 DEF Limit, Goto, WriteSteps
  <2>3. CASE RotatePush(c) \/ RotateAgain(c)
    <3>1. pc[c] \in WriteSteps /\ pc'[c] \in WriteSteps /\ pc[c] # "flush" /\ UNCHANGED <<answer, latest, call, closed>>
      BY <2>2, <2>3 DEF RotatePush, RotateAgain, WriteSteps, history
    <3> QED
      BY <1>4, <3>1
  <2>4. CASE CloseDrain(c)
    <3>1. pc[c] \in CloseSteps /\ pc'[c] \in CloseSteps /\ pc[c] # "flush" /\ UNCHANGED <<answer, latest, call, closed>>
      BY <1>0, <2>4 DEF CloseDrain, Goto, CloseSteps, history
    <3> QED
      BY <1>4, <3>1
  <2> QED
    BY <1>2, <1>6, <2>1, <2>3, <2>4 DEF LockStep, GetStep, ScanImmutable, ScanStep
<1>7. CASE FlushStep(c)
  <2>1. PICK r \in FlushResults \cup {"ok"} : Flush(c, r) \/ DrainFlush(c, r) \/ CloseFlush(c, r)
    BY <1>7 DEF FlushStep
  <2>2. UNCHANGED <<call, closed, latest>> /\ pc[c] # "idle" /\ r \in {"ok", "err"}
    BY <2>1, StorageEngineAssumption DEF Flush, DrainFlush, CloseFlush
  <2>3. CASE Flush(c, r) /\ r = "ok"
    <3>1. pc[c] = "flush" /\ pc'[c] = "limit" /\ UNCHANGED answer
      BY <1>0, <2>3 DEF Flush, Goto
    <3>2. ~Flush(c, "err")
      BY <1>0, <3>1 DEF Flush, Return, Goto
    <3> QED
      BY <2>2, <3>1, <3>2 DEF GoesOn, WriteSteps
  <2>4. CASE Flush(c, r) /\ r = "err"
    <3>1. pc'[c] = "idle" /\ "err" \in FlushResults
      BY <1>0, <2>1, <2>4 DEF Flush, Return, Goto
    <3> QED
      BY <2>2, <2>4, <3>1 DEF Ends
  <2>5. CASE DrainFlush(c, r)
    <3>1. pc[c] = "drain_flush" /\ pc'[c] \in {"drain_flush", "clone"} /\ UNCHANGED answer
      BY <1>0, <2>5 DEF DrainFlush, DrainNext, Goto
    <3> QED
      BY <1>4, <2>2, <3>1 DEF CloseSteps
  <2>6. CASE CloseFlush(c, r)
    <3>1. pc[c] = "clone_flush" /\ pc'[c] = "idle" /\ Return(c, Ok)
      BY <1>0, <2>6 DEF CloseFlush, Return, Goto
    <3>2. pc[c] \in CloseSteps /\ ~DrainFlush(c, "err")
      BY <1>3, <3>1 DEF CloseSteps
    <3> QED
      BY <2>2, <3>1, <3>2 DEF Ends
  <2> QED
    BY <2>1, <2>2, <2>3, <2>4, <2>5, <2>6
<1>8. CASE FreeStep(c) /\ ~GetStep(c)
  <2>1. CASE CheckRotate(c)
    <3>1. pc[c] \in WriteSteps /\ pc'[c] \in WriteSteps /\ pc[c] # "flush" /\ UNCHANGED <<answer, latest, call, closed>>
      BY <1>0, <2>1 DEF CheckRotate, Goto, WriteSteps, shared, history
    <3> QED
      BY <1>4, <3>1
  <2>2. CASE TakeSequence(c)
    <3>1. pc[c] \in WriteSteps /\ pc'[c] \in WriteSteps /\ pc[c] # "flush" /\ UNCHANGED <<answer, latest, call, closed>>
      BY <1>0, <2>2 DEF TakeSequence, ActiveMutable, Goto, WriteSteps, history
    <3> QED
      BY <1>4, <3>1
  <2>3. CASE Insert(c)
    <3>1. pc[c] = "insert" /\ pc'[c] = "idle" /\ UNCHANGED <<call, closed>>
      BY <1>0, <2>3 DEF Insert, Return, Goto
    <3> QED
      BY <2>3, <3>1 DEF Ends
  <2>4. CASE CloseClone(c)
    <3>1. /\ pc[c] = "clone" /\ pc[c] \in CloseSteps /\ UNCHANGED <<latest, call, closed>>
          /\ \/ pc'[c] = "idle" /\ Return(c, Ok)
             \/ pc'[c] = "clone_flush" /\ UNCHANGED answer
      BY <1>0, <2>4 DEF CloseClone, Return, Goto, CloseSteps, history
    <3>2. ~DrainFlush(c, "err")
      BY <1>3, <3>1
    <3> QED
      BY <1>4, <3>1, <3>2 DEF Ends, CloseSteps
  <2> QED
    BY <1>2, <1>8, <2>1, <2>2, <2>3, <2>4 DEF FreeStep, GetStep, ScanMemtable, ScanTables, ScanStep
<1> QED
  BY <1>5, <1>6, <1>7, <1>8

LEMMA RequestShape ==
  ASSUME OneCaller, NEW r \in Requests
  PROVE  /\ r \in Request /\ r.op \in OpName \ {"scan"} /\ AbsCall(r) # Idle /\ AbsCall(r) \in Abstract!Request
         /\ AbsCall(r).op = r.op /\ AbsCall(r).key = r.key /\ AbsCall(r).val = r.val
         /\ AbsCall(r) \in AbsTooLarge <=> Oversized(r)
<1>1. r \in Request /\ Calls = OpName \ {"scan"}
  BY RequestsType DEF OneCaller
<1>2. r.op \in OpName \ {"scan"} /\ r.key \in Key /\ r.val \in Value \cup {None}
  BY <1>1 DEF Request
<1>3. r.val # None <=> r.op = "put"
  BY DEF Requests
<1>4. PICK op, key, val : op = r.op /\ key = r.key /\ val = r.val
  OBVIOUS
<1>5. AbsCall(r) = [op |-> op, key |-> key, val |-> val]
  BY <1>4 DEF AbsCall
<1>6. AbsCall(r) \in [op : OpName, key : Key, val : Value \cup {None}]
  BY <1>2, <1>4, <1>5
<1>7. AbsCall(r) # Idle
  BY <1>6, IdleIsNoCall
<1>8. AbsCall(r) \in Abstract!Request
  <2>1. CASE op = "put"
    <3>1. val \in Value
      BY <1>2, <1>3, <1>4, <2>1
    <3> QED
      BY <1>2, <1>4, <1>5, <2>1, <3>1 DEF Abstract!Request
  <2>2. CASE op # "put"
    <3>1. val = None /\ op \in {"delete", "get", "close"}
      BY <1>2, <1>3, <1>4, <2>2 DEF OpName
    <3> QED
      BY <1>2, <1>4, <1>5, <3>1 DEF Abstract!Request
  <2> QED
    BY <2>1, <2>2
<1>9. Oversized(r) => AbsCall(r) \in AbsTooLarge
  BY DEF AbsTooLarge
<1>10. ASSUME NEW q \in Requests, Oversized(q), AbsCall(q) = AbsCall(r) PROVE Oversized(r)
  <2>1. q.op = r.op /\ q.key = r.key /\ q.val = r.val
    BY <1>10 DEF AbsCall
  <2> QED
    BY <1>10, <2>1 DEF Oversized
<1>11. AbsCall(r) \in AbsTooLarge => Oversized(r)
  BY <1>10 DEF AbsTooLarge
<1> QED
  BY <1>1, <1>2, <1>4, <1>5, <1>7, <1>8, <1>9, <1>11

LEMMA FirstSteps ==
  ASSUME NEW op \in OpName \ {"scan"}
  PROVE  /\ op \in {"put", "delete"} => FirstStep(op) \in WriteSteps
         /\ op = "get" => FirstStep(op) \in GetSteps
         /\ op = "close" => FirstStep(op) = "drain"
         /\ FirstStep(op) # "idle"
BY DEF FirstStep, OpName, WriteSteps, GetSteps

LEMMA DoingStep ==
  ASSUME OneCaller, Shape, \A c \in Client : Doing(c), [Next]_vars
  PROVE  \A c \in Client : Doing(c)'
<1>1. PICK c \in Client : Client = {c}
  BY DEF OneCaller
<1>2. SUFFICES Doing(c)'
  BY <1>1
<1>3. pc \in [Client -> Steps] /\ call \in [Client -> Request \cup {Idle}] /\ answer \in [Client -> Answer]
  BY DEF Shape, TypeOK
<1>4. CASE UNCHANGED vars
  BY <1>4 DEF Doing, vars, shared, private
<1>5. CASE LockStep(c) \/ FlushStep(c) \/ FreeStep(c)
  <2>1. pc[c] # "idle" /\ UNCHANGED <<call, closed>> /\ (GoesOn(c) \/ Ends(c)) /\ Doing(c)
    BY <1>5, InsideSteps
  <2>2. CASE Ends(c)
    BY <2>2 DEF Ends, Doing
  <2>3. CASE GoesOn(c)
    BY <2>1, <2>3 DEF GoesOn, Doing, WriteSteps, GetSteps, CloseSteps
  <2> QED
    BY <2>1, <2>2, <2>3
<1>6. ASSUME NEW r \in Requests, Enter(c, r) \/ Reject(c, r) \/ BeginClose(c, r) PROVE Doing(c)'
  <2>1. call'[c] = r /\ r.op \in OpName \ {"scan"}
    BY <1>3, <1>6, RequestShape DEF Enter, Reject, BeginClose, Begin
  <2>2. CASE Enter(c, r)
    <3>1. pc'[c] = FirstStep(r.op) /\ ~closed' /\ r.op # "close" /\ r.op \in {"put", "delete", "get"}
      BY <1>3, <2>1, <2>2 DEF Enter, Goto, OpName
    <3> QED
      BY <2>1, <3>1, FirstSteps DEF Doing
  <2>3. CASE Reject(c, r)
    BY <1>3, <2>3 DEF Reject, Return, Goto, Doing
  <2>4. CASE BeginClose(c, r)
    <3>1. r.op = "close" /\ closed' /\ (pc'[c] = "idle" \/ pc'[c] = "drain")
      BY <1>3, <2>1, <2>4, FirstSteps DEF BeginClose, Return, Goto
    <3> QED
      BY <2>1, <3>1 DEF Doing, CloseSteps
  <2> QED
    BY <1>6, <2>2, <2>3, <2>4
<1> QED
  BY <1>1, <1>4, <1>5, <1>6 DEF Next, Invoke


(* The abstract state of the only client, before and after a step.          *)
LEMMA AbsBefore ==
  ASSUME OneCaller, NEW c \in Client
  PROVE  /\ AbsClosed <=> closed /\ pc[c] = "idle"
         /\ AbsPending[c] = IF pc[c] = "idle" THEN Idle ELSE AbsCall(call[c])
BY DEF OneCaller, AbsClosed, AbsPending

LEMMA AbsAfter ==
  ASSUME OneCaller, NEW c \in Client
  PROVE  /\ AbsClosed' <=> closed' /\ pc'[c] = "idle"
         /\ AbsPending' = [AbsPending EXCEPT ![c] = IF pc'[c] = "idle" THEN Idle ELSE AbsCall(call'[c])]
         /\ AbsAnswer' = [AbsAnswer EXCEPT ![c] = [tag |-> answer'[c].tag, val |-> ValueOf(answer'[c].entry)]]
<1>1. Client = {c}
  BY DEF OneCaller
<1>2. PICK p, q, a, b : p = AbsPending /\ q = AbsPending' /\ a = AbsAnswer /\ b = AbsAnswer'
  OBVIOUS
<1>3. PICK x, y : /\ x = IF pc'[c] = "idle" THEN Idle ELSE AbsCall(call'[c])
                  /\ y = [tag |-> answer'[c].tag, val |-> ValueOf(answer'[c].entry)]
  OBVIOUS
<1>4. AbsClosed' <=> closed' /\ pc'[c] = "idle"
  BY <1>1 DEF AbsClosed
<1>5. DOMAIN p = {c} /\ q = [d \in {c} |-> q[d]] /\ q[c] = x
  BY <1>1, <1>2, <1>3 DEF AbsPending
<1>6. DOMAIN a = {c} /\ b = [d \in {c} |-> b[d]] /\ b[c] = y
  BY <1>1, <1>2, <1>3 DEF AbsAnswer
<1>7. [p EXCEPT ![c] = x] = [d \in {c} |-> x] /\ [a EXCEPT ![c] = y] = [d \in {c} |-> y]
  BY <1>5, <1>6
<1>8. q = [d \in {c} |-> x] /\ b = [d \in {c} |-> y]
  BY <1>5, <1>6
<1> QED
  BY <1>2, <1>3, <1>4, <1>7, <1>8

LEMMA AbsSame ==
  ASSUME UNCHANGED <<pc, call, closed, answer>>
  PROVE  UNCHANGED <<AbsClosed, AbsPending, AbsAnswer>>
BY DEF AbsClosed, AbsPending, AbsAnswer

(* Each kind of step, as a step of the map.                                 *)
LEMMA GoesOnStutters ==
  ASSUME OneCaller, NEW c \in Client, pc[c] # "idle", UNCHANGED <<call, closed>>, GoesOn(c),
         UNCHANGED AbsVersions
  PROVE  UNCHANGED Abstract!vars
<1>1. pc'[c] # "idle" /\ answer' = answer
  BY DEF GoesOn, WriteSteps, GetSteps, CloseSteps
<1>2. Client = {c}
  BY DEF OneCaller
<1>3. AbsClosed' = AbsClosed /\ AbsAnswer' = AbsAnswer /\ AbsPending' = AbsPending
  BY <1>1, <1>2 DEF AbsClosed, AbsAnswer, AbsPending
<1> QED
  BY <1>3 DEF Abstract!vars

LEMMA InsertIsWrite ==
  ASSUME OneCaller, Shape, AllKnown, NEW c \in Client, Doing(c), Insert(c)
  PROVE  Abstract!DoWrite(c)
<1>1. pc \in [Client -> Steps] /\ answer \in [Client -> Answer]
  BY DEF Shape, TypeOK
<1>2. /\ pc[c] = "insert" /\ pc'[c] = "idle" /\ answer'[c] = Ok /\ UNCHANGED <<call, closed>>
  BY <1>1 DEF Insert, Return, Goto
<1>3. call[c] \in Requests /\ call[c].op \in {"put", "delete"} /\ ~closed
  BY <1>2 DEF Doing, GetSteps, CloseSteps
<1>4. PICK r \in Requests : r = call[c]
  BY <1>3
<1>5. /\ AbsCall(r) # Idle /\ AbsCall(r).op = r.op /\ AbsCall(r).key = r.key /\ AbsCall(r).val = r.val
  BY RequestShape
<1>6. AbsPending[c] = AbsCall(r) /\ ~AbsClosed /\ ~AbsClosed'
  BY <1>2, <1>3, <1>4, AbsBefore, AbsAfter
<1>7. AbsClosed' = AbsClosed
  BY <1>6 DEF AbsClosed
<1>8. AbsPending' = [AbsPending EXCEPT ![c] = Idle]
  BY <1>2, AbsAfter
<1>9. answer'[c].tag = "ok" /\ ValueOf(answer'[c].entry) = None
  BY <1>2 DEF Ok, Result, ValueOf
<1>10. AbsAnswer' = [AbsAnswer EXCEPT ![c] = [tag |-> "ok", val |-> None]]
  BY <1>9, AbsAfter
<1>11. Abstract!Write(AbsPending[c].key, AbsPending[c].val)
  <2>1. PICK key : key = call[c].key
    OBVIOUS
  <2>2. Abstract!Write(key, call[c].val)
    BY <2>1, InsertWrites
  <2>3. AbsPending[c].key = key /\ AbsPending[c].val = call[c].val
    BY <1>4, <1>5, <1>6, <2>1
  <2> QED
    BY <2>2, <2>3
<1> HIDE DEF Abstract!Write
<1> QED
  BY <1>3, <1>4, <1>5, <1>6, <1>7, <1>8, <1>10, <1>11
  DEF Abstract!DoWrite, Abstract!Reply, Abstract!Ok, Abstract!Pending

LEMMA CloseIsClose ==
  ASSUME OneCaller, Shape, NEW c \in Client, Doing(c), pc[c] \in CloseSteps, Return(c, Ok),
         UNCHANGED <<call, closed>>, UNCHANGED AbsVersions
  PROVE  Abstract!DoClose(c)
<1>1. pc \in [Client -> Steps] /\ answer \in [Client -> Answer]
  BY DEF Shape, TypeOK
<1>2. pc[c] # "idle" /\ pc'[c] = "idle" /\ answer'[c] = Ok
  BY <1>1 DEF Return, Goto, CloseSteps
<1>3. call[c] \in Requests /\ call[c].op = "close" /\ closed
  BY <1>2 DEF Doing, WriteSteps, GetSteps, CloseSteps
<1>4. PICK r \in Requests : r = call[c]
  BY <1>3
<1>5. AbsCall(r) # Idle /\ AbsCall(r).op = r.op
  BY RequestShape
<1>6. AbsPending[c] = AbsCall(r) /\ AbsClosed'
  BY <1>2, <1>3, <1>4, AbsBefore, AbsAfter
<1>7. AbsClosed' = TRUE
  BY <1>6 DEF AbsClosed
<1>8. AbsPending' = [AbsPending EXCEPT ![c] = Idle]
  BY <1>2, AbsAfter
<1>9. answer'[c].tag = "ok" /\ ValueOf(answer'[c].entry) = None
  BY <1>2 DEF Ok, Result, ValueOf
<1>10. AbsAnswer' = [AbsAnswer EXCEPT ![c] = [tag |-> "ok", val |-> None]]
  BY <1>9, AbsAfter
<1> QED
  BY <1>3, <1>4, <1>5, <1>6, <1>7, <1>8, <1>10 DEF Abstract!DoClose, Abstract!Reply, Abstract!Ok, Abstract!Pending

LEMMA FailedFlushIsFailure ==
  ASSUME OneCaller, ByAge, NEW c \in Client, Doing(c), Flush(c, "err"), "err" \in FlushResults, [Next]_vars
  PROVE  Abstract!FailWrite(c)
<1>0. OneClient /\ Shape /\ "err" \in FlushResults
  BY DEF OneCaller, OneClient, ByAge
<1>1. pc \in [Client -> Steps] /\ answer \in [Client -> Answer]
  BY <1>0 DEF Shape, TypeOK
<1>2. /\ pc[c] = "flush" /\ pc'[c] = "idle" /\ answer'[c] = Error("failed")
      /\ UNCHANGED <<call, closed, latest>>
  BY <1>1 DEF Flush, Return, Goto
<1>3. call[c] \in Requests /\ call[c].op \in {"put", "delete"} /\ ~closed
  BY <1>2 DEF Doing, GetSteps, CloseSteps
<1>4. PICK r \in Requests : r = call[c]
  BY <1>3
<1>5. AbsCall(r) # Idle /\ AbsCall(r).op = r.op
  BY RequestShape
<1>6. AbsPending[c] = AbsCall(r) /\ ~AbsClosed /\ ~AbsClosed'
  BY <1>2, <1>3, <1>4, AbsBefore, AbsAfter
<1>7. AbsClosed' = AbsClosed
  BY <1>6 DEF AbsClosed
<1>8. AbsPending' = [AbsPending EXCEPT ![c] = Idle]
  BY <1>2, AbsAfter
<1>9. answer'[c].tag = "failed" /\ ValueOf(answer'[c].entry) = None
  BY <1>2 DEF Error, Result, ValueOf
<1>10. AbsAnswer' = [AbsAnswer EXCEPT ![c] = [tag |-> "failed", val |-> None]]
  BY <1>9, AbsAfter
<1>11. Abstract!Lose
  BY <1>0, <1>2, VersionsFewer DEF Abstract!Lose
<1> HIDE DEF Abstract!Lose
<1> QED
  BY <1>3, <1>4, <1>5, <1>6, <1>7, <1>8, <1>10, <1>11
  DEF Abstract!FailWrite, Abstract!Reply, Abstract!Error, Abstract!Pending

LEMMA FailedDrainIsLoss ==
  ASSUME OneCaller, ByAge, NEW c \in Client, Doing(c), DrainFlush(c, "err"), "err" \in FlushResults, [Next]_vars
  PROVE  Abstract!LoseOnClose(c)
<1>0. OneClient /\ Shape
  BY DEF OneCaller, OneClient, ByAge
<1>1. pc \in [Client -> Steps]
  BY <1>0 DEF Shape, TypeOK
<1>2. /\ pc[c] = "drain_flush" /\ pc'[c] \in {"drain_flush", "clone"}
      /\ UNCHANGED <<call, closed, latest, answer>>
  BY <1>1 DEF DrainFlush, DrainNext, Goto
<1>3. call[c] \in Requests /\ call[c].op = "close"
  BY <1>2 DEF Doing, WriteSteps, GetSteps
<1>4. PICK r \in Requests : r = call[c]
  BY <1>3
<1>5. AbsCall(r) # Idle /\ AbsCall(r).op = r.op
  BY RequestShape
<1>6. AbsPending[c] = AbsCall(r)
  BY <1>2, <1>4, AbsBefore
<1>7. Client = {c} /\ pc[c] # "idle" /\ pc'[c] # "idle"
  BY <1>2 DEF OneCaller
<1>8. AbsClosed' = AbsClosed /\ AbsAnswer' = AbsAnswer /\ AbsPending' = AbsPending
  BY <1>2, <1>7 DEF AbsClosed, AbsAnswer, AbsPending
<1>9. Abstract!Lose
  BY <1>0, <1>2, VersionsFewer DEF Abstract!Lose
<1> HIDE DEF Abstract!Lose
<1> QED
  BY <1>3, <1>4, <1>5, <1>6, <1>8, <1>9 DEF Abstract!LoseOnClose, Abstract!Pending

LEMMA GetIsGet ==
  ASSUME OneCaller, LengthsAreNat, InPlace, NEW c \in Client, Getting(c), Doing(c),
         GetStep(c), pc'[c] = "idle", UNCHANGED <<call, closed>>, UNCHANGED AbsVersions
  PROVE  Abstract!DoGet(c) \/ Abstract!FailGet(c)
<1>1. Shape
  BY DEF InPlace, Aged, ByAge
<1>2. pc \in [Client -> Steps] /\ answer \in [Client -> Answer]
  BY <1>1 DEF Shape, TypeOK
<1>3. pc[c] \in GetSteps /\ pc[c] # "idle"
  BY DEF GetStep, GetMemtable, GetImmutable, GetTables, GetFrom, GetSteps
<1>4. call[c] \in Requests /\ call[c].op = "get" /\ ~closed
  BY <1>3 DEF Doing, WriteSteps, GetSteps, CloseSteps
<1>5. PICK r \in Requests : r = call[c]
  BY <1>4
<1>6. /\ AbsCall(r) # Idle /\ AbsCall(r).op = r.op /\ AbsCall(r).key = r.key /\ r.key \in Key
  BY RequestShape DEF Request
<1>7. PICK k \in Key : k = r.key /\ k = call[c].key
  BY <1>5, <1>6
<1>8. AbsPending[c] = AbsCall(r) /\ ~AbsClosed /\ ~AbsClosed'
  BY <1>3, <1>4, <1>5, AbsBefore, AbsAfter
<1>9. AbsClosed' = AbsClosed
  BY <1>8 DEF AbsClosed
<1>10. AbsPending' = [AbsPending EXCEPT ![c] = Idle]
  BY AbsAfter
<1>11. ASSUME NEW e \in Entry \cup {None}, Newest(k, e), Return(c, Result("ok", e, NoEntries))
       PROVE  Abstract!DoGet(c)
  <2>1. answer'[c].tag = "ok" /\ answer'[c].entry = e
    BY <1>2, <1>11 DEF Return, Result
  <2>2. PICK val : val = ValueOf(e)
    OBVIOUS
  <2>3. val \in Value \cup {None}
    BY <2>2 DEF ValueOf, Entry
  <2>4. Abstract!IsValue(k, val)
    BY <1>1, <1>11, <2>2, NewestIsValue
  <2>5. AbsAnswer' = [AbsAnswer EXCEPT ![c] = [tag |-> "ok", val |-> val]]
    BY <2>1, <2>2, AbsAfter
  <2>6. AbsPending[c].op = "get" /\ AbsPending[c] # Idle /\ AbsPending[c].key = k
    BY <1>4, <1>5, <1>6, <1>7, <1>8
  <2> HIDE DEF Abstract!IsValue
  <2>7. Abstract!IsValue(AbsPending[c].key, val) /\ Abstract!Reply(c, Abstract!Ok(val))
    BY <1>10, <2>4, <2>5, <2>6 DEF Abstract!Reply, Abstract!Ok
  <2> QED
    BY <1>9, <2>3, <2>6, <2>7 DEF Abstract!DoGet, Abstract!Pending
<1>12. ASSUME Compression = "zstd", Return(c, Error("failed")) PROVE Abstract!FailGet(c)
  <2>1. answer'[c].tag = "failed" /\ ValueOf(answer'[c].entry) = None
    BY <1>2, <1>12 DEF Return, Error, Result, ValueOf
  <2>2. AbsAnswer' = [AbsAnswer EXCEPT ![c] = [tag |-> "failed", val |-> None]]
    BY <2>1, AbsAfter
  <2> QED
    BY <1>4, <1>5, <1>6, <1>8, <1>9, <1>10, <1>12, <2>2
    DEF Abstract!FailGet, Abstract!Pending, Abstract!Reply, Abstract!Error
<1>13. ~GetGoesOn(c, k)
  BY <1>2 DEF GetGoesOn, Goto
<1>14. \A d \in Client : d = c
  BY DEF OneCaller
<1> QED
  BY <1>7, <1>11, <1>12, <1>13, <1>14, GetStepDoes DEF GetEnds


LEMMA InvokeIsCall ==
  ASSUME OneCaller, Shape, NEW c \in Client, NEW r \in Requests,
         Enter(c, r) \/ Reject(c, r) \/ BeginClose(c, r), UNCHANGED AbsVersions
  PROVE  Abstract!Accept(c, AbsCall(r)) \/ Abstract!Refuse(c, AbsCall(r))
<1>1. pc \in [Client -> Steps] /\ answer \in [Client -> Answer] /\ call \in [Client -> Request \cup {Idle}]
  BY DEF Shape, TypeOK
<1>2. PICK a : a = AbsCall(r)
  OBVIOUS
<1>3. a # Idle /\ a.op = r.op /\ (a \in AbsTooLarge <=> Oversized(r)) /\ r.op \in OpName \ {"scan"}
  BY <1>2, RequestShape
<1>4. pc[c] = "idle" /\ call'[c] = r
  BY <1>1 DEF Enter, Reject, BeginClose, Begin
<1>5. AbsPending[c] = Idle /\ (AbsClosed <=> closed)
  BY <1>4, AbsBefore
<1>6. FirstStep(r.op) # "idle"
  BY <1>3, FirstSteps
<1>7. ASSUME pc'[c] # "idle", ~closed, ~Oversized(r), UNCHANGED answer
      PROVE  Abstract!Accept(c, a)
  <2>1. AbsPending' = [AbsPending EXCEPT ![c] = a]
    BY <1>2, <1>4, <1>7, AbsAfter
  <2>2. ~AbsClosed /\ ~AbsClosed'
    BY <1>5, <1>7, AbsAfter
  <2>3. UNCHANGED AbsClosed
    BY <2>2 DEF AbsClosed
  <2>4. UNCHANGED AbsAnswer
    BY <1>7 DEF AbsAnswer
  <2> QED
    BY <1>3, <1>5, <1>7, <2>1, <2>2, <2>3, <2>4 DEF Abstract!Accept
<1>8. ASSUME NEW x, pc'[c] = "idle", answer'[c] = x, closed' = closed, closed \/ Oversized(r),
             [tag |-> x.tag, val |-> ValueOf(x.entry)] =
               (IF ~closed THEN [tag |-> "invalid", val |-> None]
                ELSE IF r.op = "close" THEN [tag |-> "ok", val |-> None]
                ELSE [tag |-> "closed", val |-> None])
      PROVE  Abstract!Refuse(c, a)
  <2>1. AbsPending' = AbsPending
    <3>1. AbsPending' = [AbsPending EXCEPT ![c] = AbsPending[c]]
      BY <1>5, <1>8, AbsAfter
    <3>2. PICK p : p = AbsPending
      OBVIOUS
    <3>3. p = [d \in Client |-> p[d]]
      BY <3>2 DEF AbsPending
    <3>4. [p EXCEPT ![c] = p[c]] = p
      BY <3>3
    <3> QED
      BY <3>1, <3>2, <3>4
  <2>2. (AbsClosed' <=> closed) /\ (AbsClosed <=> closed)
    BY <1>5, <1>8, AbsAfter
  <2>3. AbsClosed' = AbsClosed
    BY <2>2 DEF AbsClosed
  <2>4. AbsAnswer' = [AbsAnswer EXCEPT ![c] =
                        IF ~closed THEN [tag |-> "invalid", val |-> None]
                        ELSE IF r.op = "close" THEN [tag |-> "ok", val |-> None]
                        ELSE [tag |-> "closed", val |-> None]]
    BY <1>8, AbsAfter
  <2>5. (IF ~closed THEN [tag |-> "invalid", val |-> None]
         ELSE IF r.op = "close" THEN [tag |-> "ok", val |-> None]
         ELSE [tag |-> "closed", val |-> None])
        = (IF ~AbsClosed THEN Abstract!Error("invalid")
           ELSE IF a.op = "close" THEN Abstract!Ok(None)
           ELSE Abstract!Error("closed"))
    BY <1>3, <2>2 DEF Abstract!Ok, Abstract!Error
  <2> QED
    BY <1>3, <1>5, <1>8, <2>1, <2>2, <2>3, <2>4, <2>5 DEF Abstract!Refuse
<1>9. CASE Enter(c, r)
  <2>1. pc'[c] # "idle" /\ ~closed /\ ~Oversized(r) /\ UNCHANGED answer
    BY <1>1, <1>6, <1>9 DEF Enter, Goto
  <2> QED
    BY <1>2, <1>7, <2>1
<1>10. CASE Reject(c, r)
  <2>1. PICK tag : tag = IF closed THEN "closed" ELSE "invalid"
    OBVIOUS
  <2>2. pc'[c] = "idle" /\ answer'[c] = Error(tag) /\ closed' = closed /\ (closed \/ Oversized(r)) /\ r.op # "close"
    BY <1>1, <1>10, <2>1 DEF Reject, Return, Goto
  <2>3. Error(tag).tag = tag /\ ValueOf(Error(tag).entry) = None
    BY DEF Error, Result, ValueOf
  <2> HIDE DEF Error
  <2> QED
    BY <1>2, <1>8, <2>1, <2>2, <2>3
<1>11. CASE BeginClose(c, r)
  <2>1. CASE closed
    <3>1. pc'[c] = "idle" /\ answer'[c] = Ok /\ closed' = closed /\ r.op = "close"
      BY <1>1, <1>11, <2>1 DEF BeginClose, Return, Goto
    <3>2. Ok.tag = "ok" /\ ValueOf(Ok.entry) = None
      BY DEF Ok, Result, ValueOf
    <3> QED
      BY <1>2, <1>8, <2>1, <3>1, <3>2
  <2>2. CASE ~closed
    <3>1. pc'[c] # "idle" /\ UNCHANGED answer /\ r.op = "close"
      BY <1>1, <1>6, <1>11, <2>2 DEF BeginClose, Goto
    <3>2. ~Oversized(r)
      BY <3>1 DEF Oversized
    <3> QED
      BY <1>2, <1>7, <2>2, <3>1, <3>2
  <2> QED
    BY <2>1, <2>2
<1> QED
  BY <1>2, <1>9, <1>10, <1>11

(* The inductive invariant of the refinement, and its initial states.       *)
Mapped == InPlace /\ CloneKept /\ Reads /\ \A c \in Client : Doing(c)

LEMMA AbsInit ==
  ASSUME OneCaller, Init
  PROVE  Mapped /\ Abstract!Init
<1>1. Mapped
  <2>1. InPlace
    BY InPlaceInit
  <2>2. CloneKept /\ Reads /\ \A c \in Client : Doing(c)
    BY DEF Init, CloneKept, Reads, Getting, GetsFresh, Answered, GetSteps, Doing
  <2> QED
    BY <2>1, <2>2 DEF Mapped
<1>2. AbsVersions = [k \in Key |-> {}]
  <2>1. Memtables = {1} /\ heap[1].data = NoEntries /\ TableIndex = {}
    BY DEF Init, NewMemTable, Memtables, Listed, InHand, TableIndex
  <2>2. \A k \in Key : EntriesAnywhere(k) = {}
    BY <2>1 DEF EntriesAnywhere, NoEntries
  <2> QED
    BY <2>2 DEF AbsVersions
<1>3. AbsClosed = FALSE
  BY DEF Init, AbsClosed
<1>4. AbsPending = [c \in Client |-> Idle]
  BY DEF Init, AbsPending
<1>5. AbsAnswer = [c \in Client |-> Abstract!Ok(None)]
  <2>1. Ok.tag = "ok" /\ ValueOf(Ok.entry) = None
    BY DEF Ok, Result, ValueOf
  <2>2. \A c \in Client : answer[c] = Ok
    BY DEF Init
  <2> QED
    BY <2>1, <2>2 DEF AbsAnswer, Abstract!Ok
<1> QED
  BY <1>1, <1>2, <1>3, <1>4, <1>5 DEF Abstract!Init

LEMMA MappedStep ==
  ASSUME OneCaller, FilterSound, LengthsAreNat, Mapped, [Next]_vars
  PROVE  Mapped'
<1>1. OneClient /\ Shape
  BY DEF OneCaller, OneClient, Mapped, InPlace, Aged, ByAge
<1>2. InPlace' /\ Reads'
  BY <1>1, InPlaceStep, ReadsStep DEF Mapped
<1>3. CloneKept'
  BY <1>1, CloneKeptStep DEF Mapped
<1>4. \A c \in Client : Doing(c)'
  BY <1>1, DoingStep DEF Mapped
<1> QED
  BY <1>2, <1>3, <1>4 DEF Mapped

LEMMA AbsStep ==
  ASSUME OneCaller, LengthsAreNat, Mapped, [Next]_vars
  PROVE  [Abstract!Next]_(Abstract!vars)
<1>1. PICK c \in Client : Client = {c}
  BY DEF OneCaller
<1>2. OneClient /\ Shape /\ AllKnown /\ ByAge /\ InPlace /\ CloneKept /\ Getting(c) /\ Doing(c)
  BY <1>1 DEF OneClient, Mapped, InPlace, Aged, ByAge, Reads
<1>3. UNCHANGED latest /\ ~Flush(c, "err") /\ ~DrainFlush(c, "err") => UNCHANGED AbsVersions
  BY <1>1, <1>2, VersionsSame DEF FailingFlush
<1>4. /\ Flush(c, "err") => pc[c] = "flush"
      /\ DrainFlush(c, "err") => pc[c] = "drain_flush" /\ "err" \in FlushResults
  BY DEF Flush, DrainFlush, FlushMemtable
<1>5. CASE UNCHANGED vars
  <2>1. UNCHANGED <<pc, call, closed, answer, heap, memtable, immutable_memtables, hand, sstables>>
    BY <1>5 DEF vars, shared, private
  <2>2. UNCHANGED AbsVersions
    BY <2>1 DEF AbsVersions, EntriesAnywhere, Memtables, Listed, InHand, TableIndex
  <2>3. UNCHANGED Abstract!vars
    BY <2>1, <2>2, AbsSame DEF Abstract!vars
  <2> QED
    BY <2>3
<1>6. ASSUME NEW r \in Requests, Enter(c, r) \/ Reject(c, r) \/ BeginClose(c, r)
      PROVE  \E a \in Abstract!Request : Abstract!Accept(c, a) \/ Abstract!Refuse(c, a)
  <2>1. pc[c] = "idle" /\ UNCHANGED latest
    BY <1>6 DEF Enter, Reject, BeginClose, Begin
  <2>2. UNCHANGED AbsVersions
    BY <1>3, <1>4, <2>1
  <2>3. Abstract!Accept(c, AbsCall(r)) \/ Abstract!Refuse(c, AbsCall(r))
    BY <1>2, <1>6, <2>2, InvokeIsCall
  <2> QED
    BY <2>3, RequestShape
<1>7. ASSUME LockStep(c) \/ FlushStep(c) \/ FreeStep(c)
      PROVE  \/ Abstract!DoWrite(c) \/ Abstract!FailWrite(c) \/ Abstract!DoGet(c) \/ Abstract!FailGet(c)
             \/ Abstract!DoClose(c) \/ Abstract!LoseOnClose(c) \/ UNCHANGED Abstract!vars
  <2>1. pc[c] # "idle" /\ UNCHANGED <<call, closed>> /\ (GoesOn(c) \/ Ends(c))
    BY <1>2, <1>7, InsideSteps
  <2>2. CASE DrainFlush(c, "err")
    BY <1>2, <1>4, <2>2, FailedDrainIsLoss
  <2>3. CASE GoesOn(c) /\ ~DrainFlush(c, "err")
    <3>1. UNCHANGED AbsVersions
      BY <1>3, <2>3 DEF GoesOn
    <3> QED
      BY <2>1, <2>3, <3>1, GoesOnStutters
  <2>4. CASE Ends(c) /\ Insert(c)
    BY <1>2, <2>4, InsertIsWrite
  <2>5. CASE Ends(c) /\ Flush(c, "err") /\ "err" \in FlushResults
    BY <1>2, <2>5, FailedFlushIsFailure
  <2>6. CASE Ends(c) /\ GetStep(c) /\ UNCHANGED latest
    <3>1. pc[c] \in GetSteps /\ pc'[c] = "idle"
      BY <2>6 DEF Ends, GetStep, GetMemtable, GetImmutable, GetTables, GetFrom, GetSteps
    <3>2. UNCHANGED AbsVersions
      BY <1>3, <1>4, <2>6, <3>1 DEF GetSteps
    <3> QED
      BY <1>2, <2>1, <2>6, <3>1, <3>2, GetIsGet
  <2>7. CASE pc[c] \in CloseSteps /\ ~DrainFlush(c, "err") /\ Return(c, Ok) /\ UNCHANGED latest
    <3>1. UNCHANGED AbsVersions
      BY <1>3, <1>4, <2>7 DEF CloseSteps
    <3> QED
      BY <1>2, <2>1, <2>7, <3>1, CloseIsClose
  <2>8. Ends(c) => \/ Insert(c)
                   \/ Flush(c, "err") /\ "err" \in FlushResults
                   \/ GetStep(c) /\ UNCHANGED latest
                   \/ pc[c] \in CloseSteps /\ ~DrainFlush(c, "err") /\ Return(c, Ok) /\ UNCHANGED latest
    BY DEF Ends
  <2> QED
    BY <2>1, <2>2, <2>3, <2>4, <2>5, <2>6, <2>7, <2>8
<1>8. CASE LockStep(c) \/ FlushStep(c) \/ FreeStep(c)
  BY <1>7, <1>8 DEF Abstract!Next
<1> QED
  BY <1>1, <1>5, <1>6, <1>8 DEF Next, Invoke, Abstract!Next

(* With one client, and whatever sizes, lengths, bounds, compression and    *)
(* filter size there are, each answer of put, delete, get and close is the  *)
(* one that the map of KVStore allows: a get finds the newest entry of its  *)
(* key that is left, and fails only over a block that Zstd cannot give      *)
(* back; a put or delete that is answered "ok" adds the newest version of   *)
(* its key; entries are lost only where a flush fails.  Only filters that   *)
(* deny a key that their table has are excluded: FilterSound, which holds   *)
(* where no flush leaves a table that can be opened, as in the present      *)
(* build, and where readers have no filter.                                 *)
THEOREM ImplementsMapHolds ==
  ASSUME OneCaller, FilterSound, LengthsAreNat
  PROVE  Spec => ImplementsMap
<1>1. Init => Mapped /\ Abstract!Init
  BY AbsInit
<1>2. Mapped /\ [Next]_vars => Mapped'
  BY MappedStep
<1>3. Mapped /\ [Next]_vars => [Abstract!Next]_(Abstract!vars)
  BY AbsStep
<1> QED
  BY <1>1, <1>2, <1>3, PTL DEF Spec, ImplementsMap, Abstract!Spec
=============================================================================
