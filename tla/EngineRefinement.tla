-------------------------- MODULE EngineRefinement --------------------------
(***************************************************************************)
(* One client at a time: StorageEngine implements the map of KVStore.      *)
(*                                                                         *)
(* The versions of a key are the entries it has anywhere: in the memtable, *)
(* the immutable list, the memtables that the client has taken out of the  *)
(* shared lists, and the tables.  A call is pending from its first step to *)
(* its last, and the store is closed when close returns.  Scans are not    *)
(* part of it: they do not read the store newest first.                    *)
(***************************************************************************)
EXTENDS StorageEngine

(* What the refinement holds for; scans are left out as said above.         *)
OneCaller == (\E c \in Client : Client = {c}) /\ Calls = OpName \ {"scan"}

(* No call is taken for the absence of a call.                              *)
ASSUME IdleIsNoCall ==
  Idle \notin Request /\ Idle \notin [op : OpName, key : Key, val : Value \cup {None}]

EntriesAnywhere(k) ==
  ({heap[m].data[k] : m \in Memtables}
     \cup {sstables[i[1]][i[2]][k] : i \in TableIndex}) \ {None}

ValueOf(e) == IF e = None THEN None ELSE e.val
VersionOf(e) == [at |-> e.stamp, val |-> e.val]
AbsVersions == [k \in Key |-> {VersionOf(e) : e \in EntriesAnywhere(k)}]

AbsCall(r) == [op |-> r.op, key |-> r.key, val |-> r.val]
AbsClosed  == closed /\ \A c \in Client : pc[c] = "idle"
AbsPending == [c \in Client |-> IF pc[c] = "idle" THEN Idle ELSE AbsCall(call[c])]
AbsAnswer  == [c \in Client |-> [tag |-> answer[c].tag, val |-> ValueOf(answer[c].entry)]]
AbsTooLarge == {AbsCall(r) : r \in {q \in Requests : Oversized(q)}}

(* Only a flush writes to the disk here, and of tables that can be opened   *)
(* only Zstd leaves blocks that cannot be read.                             *)
Abstract == INSTANCE KVStore WITH
  versions <- AbsVersions, closed <- AbsClosed, pending <- AbsPending, answer <- AbsAnswer,
  TooLarge <- AbsTooLarge,
  WritesFail <- "err" \in FlushResults, ReadsFail <- Compression = "zstd"

(* With one client every answer of the engine is the one the map of KVStore *)
(* would give, through any number of rotations, evictions and flushes and   *)
(* through close: overwrites, delete markers and entries in several         *)
(* memtables and tables never show.  A flush that fails costs a put or      *)
(* delete its effect and the store some versions, but never more: no get    *)
(* answers with a value while a newer one is left.                          *)
ImplementsMap == Abstract!Spec
=============================================================================
