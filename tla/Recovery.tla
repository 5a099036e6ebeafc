------------------------------ MODULE Recovery ------------------------------
(***************************************************************************)
(* The engine with its directory of tables: every flush and every table    *)
(* that compaction makes is a file (SSTableWriter), compaction deletes the *)
(* files it has merged one by one, the process may end at any moment, and  *)
(* StorageEngine::open loads what it finds (storage.rs, sstable.rs).       *)
(*                                                                         *)
(* What is in memory is gone when the process ends: put appends to no log. *)
(* A file is complete once it is synced; one that is not has no footer and *)
(* load_sstables leaves it out.                                            *)
(*                                                                         *)
(* The module is for one client beside the compaction task.  A file gets   *)
(* its created_at when its writer is made (sstable.rs:620) and its table   *)
(* its place in the level later, under another lock (storage.rs:356); here *)
(* both happen in one step.  With one client nothing can come in between,  *)
(* since level 0 is written only by the client and the levels below only   *)
(* by the task.  Two clients that flush at once may push in one order and  *)
(* have created in the other.                                              *)
(***************************************************************************)
EXTENDS Compaction

CONSTANTS
  MaxSecond,     \* bound: the clock, in seconds, that is part of a file name
  MaxCrashes     \* bound: ends of the process

ASSUME RecoveryAssumption ==
  /\ \A c, d \in Client : c = d
  /\ MaxSecond \in Nat /\ MaxCrashes \in Nat

VARIABLES
  disk,       \* the complete files, in the order of created_at
  names,      \* names[l][i]: the file of table sstables[l][i]
  inputs,     \* the files of the compaction's snapshot, until they are deleted
  made_names, \* the files of made
  second,     \* the clock when the last file was named
  up,         \* does a process have the directory open?
  clobbered,  \* has it overwritten a file that it has open?
  crashes,    \* history: ends of the process
  stored      \* history: stored[k] is the stamp of the newest entry of k
              \* that reached the disk

files == <<disk, names, inputs, made_names, second, clobbered, stored>>
process == <<up, crashes>>
rvars == <<cvars, files, process>>

FileName == [level : Level, second : 0..MaxSecond, sequence : Nat]
File == [name : FileName, data : EntryMap]

RecoveryTypeOK ==
  /\ disk \in Seq(File)
  /\ names \in [Level -> Seq(FileName)]
  /\ inputs \in Seq(FileName) /\ made_names \in Seq(FileName)
  /\ second \in 0..MaxSecond
  /\ up \in BOOLEAN /\ clobbered \in BOOLEAN
  /\ crashes \in 0..MaxCrashes
  /\ stored \in [Key -> Nat]

NoTables == [l \in Level |-> <<>>]

RecoveryInit ==
  /\ CompactionInit
  /\ disk = <<>> /\ names = NoTables /\ inputs = <<>> /\ made_names = <<>>
  /\ second = 0 /\ up = TRUE /\ clobbered = FALSE /\ crashes = 0
  /\ stored = [k \in Key |-> 0]

-----------------------------------------------------------------------------
(* Mutant: the sequence number is left out.                                 *)
NewNameShort(l, s, n) == [level |-> l, second |-> s]

(* The name of a new file: level, seconds and a sequence number.            *)
NewName(l, s, n) == [level |-> l, second |-> s, sequence |-> n]

Exists(name) == \E i \in DOMAIN disk : disk[i].name = name

(* The files at some positions of d, in their order.                        *)
Chosen(d, at) == LET s == Sorted(at) IN [i \in DOMAIN s |-> d[s[i]]]
Without(d, name) == Chosen(d, {i \in DOMAIN d : d[i].name # name})

(* How far the writer of a file may come when it fails or the process ends: *)
(* the file is not there, is cut short, or is complete.                     *)
Left == {"absent", "cut", "complete"}

(* SSTableWriter::new truncates a file of the same name.                    *)
Written(d, file, left) ==
  IF left = "absent" THEN d
  ELSE IF left = "cut" THEN Without(d, file.name)
  ELSE Append(Without(d, file.name), file)

Stamps(data) == [k \in Key |-> StampOf(data[k])]
Higher(f, g) == [k \in Key |-> IF f[k] >= g[k] THEN f[k] ELSE g[k]]

(* Building a file ends with r; if it is not "ok", the file may be left in  *)
(* any state.                                                               *)
WriteFile(l, n, data, r, left, s) ==
  /\ left \in (IF r = "ok" THEN {"complete"} ELSE Left)
  /\ s >= second
  /\ disk' = Written(disk, [name |-> NewName(l, s, n), data |-> data], left)
  /\ second' = IF disk' = disk THEN second ELSE s
  /\ clobbered' = (left # "absent" /\ Exists(NewName(l, s, n)))
  /\ stored' = IF left = "complete" THEN Higher(Stamps(data), stored) ELSE stored

OnDisk(k, stamp) == \E i \in DOMAIN disk : StampOf(disk[i].data[k]) = stamp
TopStamp(d, k) == Max({0} \cup {StampOf(d[i].data[k]) : i \in DOMAIN d})

-----------------------------------------------------------------------------
(* flush_memtable of memtable m: the file is named with the number the      *)
(* memtable has reached; it becomes a table if it can be reopened.          *)
FlushFile(m, r, left, s) ==
  IF heap[m].count = 0 THEN left = "absent" /\ s = second /\ UNCHANGED files
  ELSE /\ WriteFile(0, heap[m].next_sequence, heap[m].data, r, left, s)
       /\ names' = IF r = "ok"
                   THEN [names EXCEPT ![0] = Append(@, NewName(0, s, heap[m].next_sequence))]
                   ELSE names
       /\ UNCHANGED <<inputs, made_names>>

FlushToFile(c, r, left, s) ==
  /\ Flush(c, r) \/ DrainFlush(c, r) \/ CloseFlush(c, r)
  /\ FlushFile(hand[c][1], r, left, s)
  /\ UNCHANGED compactor

ClientStep(c) ==
  \/ (Invoke(c) \/ LockStep(c) \/ FreeStep(c)) /\ UNCHANGED <<compactor, files>>
  \/ \E r \in FlushResults \cup {"ok"}, left \in Left, s \in 0..MaxSecond :
       FlushToFile(c, r, left, s)

-----------------------------------------------------------------------------
CloneFiles(r) ==
  /\ CloneAndMerge(r)
  /\ inputs' = IF snapshot' = NoSnapshot THEN <<>> ELSE names[level] \o names[level + 1]
  /\ UNCHANGED <<disk, names, made_names, second, clobbered, stored>>

CreateFile(r, left, s) ==
  /\ CreateTable(r)
  /\ WriteFile(level + 1, sequence_counter, Head(todo), r, left, s)
  /\ made_names' = IF r = "ok" THEN Append(made_names, NewName(level + 1, s, sequence_counter))
                               ELSE <<>>
  /\ inputs' = IF r = "ok" THEN inputs ELSE <<>>
  /\ UNCHANGED names

(* Mutants: what is deleted is read from the lists again, after or before   *)
(* they were replaced.                                                      *)
InstallFilesReread ==
  /\ Install
  /\ names' = [names EXCEPT ![level] = <<>>, ![level + 1] = made_names]
  /\ inputs' = names'[level] \o names'[level + 1]
  /\ made_names' = <<>>
  /\ UNCHANGED <<disk, second, clobbered, stored>>
InstallFilesCurrent ==
  /\ Install
  /\ names' = [names EXCEPT ![level] = <<>>, ![level + 1] = made_names]
  /\ inputs' = names[level] \o names[level + 1]
  /\ made_names' = <<>>
  /\ UNCHANGED <<disk, second, clobbered, stored>>

InstallFiles ==
  /\ Install
  /\ names' = [names EXCEPT ![level] = <<>>, ![level + 1] = made_names]
  /\ made_names' = <<>>
  /\ UNCHANGED <<disk, inputs, second, clobbered, stored>>

(* remove_file of the files that were merged, one after the other; an error *)
(* is printed.                                                              *)
DeleteFile(r) ==
  /\ cpc = "delete" /\ inputs # <<>>
  /\ disk' = IF r = "ok" THEN Without(disk, Head(inputs)) ELSE disk
  /\ inputs' = Tail(inputs)
  /\ UNCHANGED <<cvars, names, made_names, second, clobbered, stored>>

CompactorStep ==
  \/ (Tick \/ CountLevel0 \/ MeasureLevel) /\ UNCHANGED files
  \/ Deleted /\ inputs = <<>> /\ UNCHANGED files
  \/ InstallFiles
  \/ \E r \in FlushResults \cup {"ok"} :
       \/ CloneFiles(r) \/ DeleteFile(r)
       \/ \E left \in Left, s \in 0..MaxSecond : CreateFile(r, left, s)

-----------------------------------------------------------------------------
(* The files that are being written.                                        *)
Flushing(c) == pc[c] \in {"flush", "drain_flush", "clone_flush"} /\ heap[hand[c][1]].count > 0
FlushedFile(c, s) ==
  [name |-> NewName(0, s, heap[hand[c][1]].next_sequence), data |-> heap[hand[c][1]].data]
MadeFile(s) == [name |-> NewName(level + 1, s, sequence_counter), data |-> Head(todo)]
UnderWay(s) ==
  {FlushedFile(c, s) : c \in {d \in Client : Flushing(d)}}
    \cup (IF cpc = "create" THEN {MadeFile(s)} ELSE {})

(* The process ends, by itself or not: what stays is the disk, with what    *)
(* has been written of the files under way.  The lists of tables are kept   *)
(* for OpenRestores only; everything else in memory is as it will be after  *)
(* the next open, and the counters start anew.                              *)
Crash(s, left) ==
  /\ up /\ crashes < MaxCrashes
  /\ s >= second
  /\ disk' = FoldSet(LAMBDA file, d : Written(d, file, left[file]), disk, UnderWay(s))
  /\ second' = IF disk' = disk THEN second ELSE s
  /\ clobbered' = (clobbered \/ \E file \in UnderWay(s) :
                                  left[file] # "absent" /\ Exists(file.name))
  /\ up' = FALSE /\ crashes' = crashes + 1
  /\ heap' = <<NewMemTable(0)>> /\ memtable' = 1 /\ immutable_memtables' = <<>>
  /\ sequence_counter' = 1 /\ closed' = FALSE /\ imm_lock' = Idle
  /\ pc' = [c \in Client |-> "idle"] /\ call' = [c \in Client |-> Idle]
  /\ hand' = [c \in Client |-> <<>>] /\ target' = [c \in Client |-> 1]
  /\ taken' = [c \in Client |-> 0] /\ acc' = [c \in Client |-> NoEntries]
  /\ answer' = [c \in Client |-> Ok]
  /\ cpc' = "tick" /\ level' = 0 /\ snapshot' = NoSnapshot /\ todo' = <<>> /\ made' = <<>>
  /\ inputs' = <<>> /\ made_names' = <<>>
  /\ stored' = [k \in Key |-> TopStamp(disk', k)] /\ latest' = stored'
  /\ floor' = [c \in Client |-> [k \in Key |-> 0]]
  /\ dropped' = {}
  /\ UNCHANGED <<sstables, names, begun>>

(* Mutant: the tables are not sorted by their time of creation.             *)
LoadedUnsorted(l) == Reverse(Chosen(disk, {i \in DOMAIN disk : disk[i].name.level = l}))

(* load_sstables: the level is read from the name; the tables of a level    *)
(* are sorted by created_at.                                                *)
Loaded(l) == Chosen(disk, {i \in DOMAIN disk : disk[i].name.level = l})

Open ==
  /\ ~up
  /\ up' = TRUE /\ clobbered' = FALSE
  /\ sstables' = [l \in Level |-> [i \in DOMAIN Loaded(l) |-> Loaded(l)[i].data]]
  /\ names' = [l \in Level |-> [i \in DOMAIN Loaded(l) |-> Loaded(l)[i].name]]
  /\ UNCHANGED <<heap, memtable, immutable_memtables, sequence_counter, closed, imm_lock,
                 private, history, compactor, disk, inputs, made_names, second, stored, crashes>>

-----------------------------------------------------------------------------
(* After the process has overwritten a file it has open, what its readers   *)
(* answer is anybody's guess, and it does nothing more here.                *)
Running == up /\ ~clobbered /\ UNCHANGED process

RecoveryNext ==
  \/ Running /\ \E c \in Client : ClientStep(c)
  \/ Running /\ CompactorStep
  \/ \E s \in 0..MaxSecond : \E left \in [UnderWay(s) -> Left] : Crash(s, left)
  \/ Open

RecoverySpec == RecoveryInit /\ [][RecoveryNext]_rvars

-----------------------------------------------------------------------------
(* Every table that lookups ask has its file on the disk, whatever          *)
(* compaction deletes and flushes create, as long as no name is used twice. *)
TablesHaveFiles ==
  up /\ ~clobbered => \A i \in TableIndex :
    Contains(disk, [name |-> names[i[1]][i[2]], data |-> sstables[i[1]][i[2]]])

(* When close has returned, the newest entry of every key has reached the   *)
(* disk, or the flush of its memtable failed.                               *)
CloseReachesDisk ==
  up /\ closed /\ (\A c \in Client : pc[c] = "idle") =>
    \A k \in Key : \/ latest[k] <= stored[k]
                   \/ \E m \in dropped : StampOf(heap[m].data[k]) = latest[k]

(* What has reached the disk stays there, through crashes in the middle of  *)
(* everything: the newest entry of a key is on the disk until compaction    *)
(* deletes a file whose entry of the key was merged away as a delete marker *)
(* or because another one had no lower number; or its file is overwritten.  *)
DiskKeeps ==
  [][\A k \in Key : \A newest \in {TopStamp(disk, k)} :
       newest > 0 => \/ OnDisk(k, newest)'
                     \/ clobbered'
                     \/ cpc = "delete" /\ (Marker(k, newest) \/ Outnumbered(k, newest))]_rvars

(* If the directory has the files of the tables and no others, open finds   *)
(* the tables as they were: all of them, in the same levels and order.      *)
OpenRestores ==
  [][~up /\ ~clobbered /\ {disk[i].name : i \in DOMAIN disk} = {names[i[1]][i[2]] : i \in TableIndex}
       => sstables' = sstables]_rvars
=============================================================================
