----------------------------- MODULE Compaction -----------------------------
(***************************************************************************)
(* The background task of StorageEngine (storage.rs): it clones a level    *)
(* and the next one under the read lock of the tables, merges them and     *)
(* writes new tables with no lock held, and then replaces both levels      *)
(* under the write lock.  Clients and their flushes go on meanwhile.       *)
(*                                                                         *)
(* The task suspends only while it waits for the next tick, so that close, *)
(* which aborts it, never interrupts a compaction: it runs to its end.     *)
(* The files of old tables are deleted in Recovery, which has a disk.      *)
(***************************************************************************)
EXTENDS StorageEngine

CONSTANTS
  L0CompactionThreshold,   \* Config::l0_compaction_threshold
  L0SstableSize,           \* Config::l0_sstable_size
  LevelSizeMultiplier,     \* Config::level_size_multiplier
  MaxSequence              \* bound: engine numbers taken by compaction, which takes
                           \* new ones whenever it tries again after an error

(* Config::validate also asks for a multiplier of at least 10, which is     *)
(* scaled down here as BLOCK_SIZE is, and it accepts a single level, with   *)
(* which level 1 would be written and never read.                           *)
ASSUME CompactionAssumption ==
  /\ L0CompactionThreshold \in Nat \ {0}
  /\ L0SstableSize \in Nat \ {0}
  /\ LevelSizeMultiplier \in Nat \ {0}
  /\ MaxLevels >= 2
  /\ MaxSequence \in Nat

VARIABLES
  cpc,        \* where the task is
  level,      \* the level it looks at or compacts into the next one
  snapshot,   \* the tables it cloned: those of level and those of the next
  todo,       \* what is left to write, table by table
  made        \* the tables it has written

compactor == <<cpc, level, snapshot, todo, made>>
cvars == <<vars, compactor>>

NoSnapshot == [from |-> <<>>, to |-> <<>>]

CompactorTypeOK ==
  /\ cpc \in {"tick", "count", "size", "clone", "create", "install", "delete", "stopped"}
  /\ level \in Level /\ level + 1 \in Level
  /\ snapshot \in [from : Seq(EntryMap), to : Seq(EntryMap)]
  /\ todo \in Seq(EntryMap)
  /\ made \in Seq(EntryMap)

AtRest == level = 0 /\ snapshot = NoSnapshot /\ todo = <<>> /\ made = <<>>

CompactionInit == Init /\ cpc = "tick" /\ AtRest

-----------------------------------------------------------------------------
(* The loop of start_background_compaction: a tick, then the flag.          *)
Tick ==
  /\ cpc = "tick"
  /\ cpc' = IF closed THEN "stopped" ELSE "count"
  /\ UNCHANGED <<vars, level, snapshot, todo, made>>

(* Mutant: the last level is compacted too.                                 *)
NextLevelTooFar ==
  /\ IF level + 1 < MaxLevels THEN cpc' = "size" /\ level' = level + 1
                              ELSE cpc' = "tick" /\ level' = 0
  /\ snapshot' = NoSnapshot /\ todo' = <<>> /\ made' = <<>>

(* run_compaction goes on to the next level, as long as there is one below  *)
(* it, or back to the loop.                                                 *)
NextLevel ==
  /\ IF level + 2 < MaxLevels THEN cpc' = "size" /\ level' = level + 1
                              ELSE cpc' = "tick" /\ level' = 0
  /\ snapshot' = NoSnapshot /\ todo' = <<>> /\ made' = <<>>

(* An error ends the whole run; it is printed, and the next tick begins a   *)
(* new one.                                                                 *)
GiveUp == cpc' = "tick" /\ level' = 0 /\ snapshot' = NoSnapshot /\ todo' = <<>> /\ made' = <<>>

CountLevel0 ==
  /\ cpc = "count"
  /\ IF Len(sstables[0]) >= L0CompactionThreshold
     THEN cpc' = "clone" /\ UNCHANGED <<level, snapshot, todo, made>>
     ELSE NextLevel
  /\ UNCHANGED vars

(* level_needs_compaction: the data bytes in the level against its target.  *)
DataSize(data) == CHOOSE n \in {Built(data).position} : TRUE
LevelSize(l) ==
  MapThenSumSet(LAMBDA i : DataSize(sstables[l][i]), DOMAIN sstables[l])
LevelTargetSize(l) == (L0SstableSize * LevelSizeMultiplier ^ l) % UsizeMod

MeasureLevel ==
  /\ cpc = "size"
  /\ IF LevelSize(level) > LevelTargetSize(level)
     THEN cpc' = "clone" /\ UNCHANGED <<level, snapshot, todo, made>>
     ELSE NextLevel
  /\ UNCHANGED vars

-----------------------------------------------------------------------------
(* merge_sstables: the tables are read one after the other; an entry        *)
(* replaces the one found before if its sequence number is higher.          *)
MergeOf(tables) == Merged([i \in {0} \X DOMAIN tables |-> tables[i[2]]])

(* Delete markers are left out.                                             *)
LiveKeys(rows) == {k \in KeysOf(rows) : rows[k].val # None}

(* Mutant: the entry that makes a table too large is not carried over.      *)
AddToTableDrops(s, k, e) ==
  IF s.size + EntrySize(k, e) > L0SstableSize * 2 /\ KeysOf(s.current) # {}
  THEN [full |-> Append(s.full, s.current), current |-> NoEntries, size |-> 0]
  ELSE [s EXCEPT !.current[k] = e, !.size = @ + EntrySize(k, e)]

(* create_sstables_for_level: a table that is not empty and would outgrow   *)
(* the target size is written, and the entry begins a new one.              *)
AddToTable(s, k, e) ==
  IF s.size + EntrySize(k, e) > L0SstableSize * 2 /\ KeysOf(s.current) # {}
  THEN [full |-> Append(s.full, s.current), current |-> [NoEntries EXCEPT ![k] = e],
        size |-> EntrySize(k, e)]
  ELSE [s EXCEPT !.current[k] = e, !.size = @ + EntrySize(k, e)]

Split(rows) ==
  LET s == FoldLeft(LAMBDA t, k : AddToTable(t, k, rows[k]),
                    [full |-> <<>>, current |-> NoEntries, size |-> 0],
                    Sorted(LiveKeys(rows)))
  IN IF KeysOf(s.current) = {} THEN s.full ELSE Append(s.full, s.current)

(* compact_l0_to_l1 and compact_level: both levels are cloned under one     *)
(* read lock, and the clones, which nobody can change, are merged; or one   *)
(* of them cannot be read, for what it holds or for another reason.         *)
Cloned == sstables[level] \o sstables[level + 1]
CloneAndMerge(r) ==
  /\ cpc = "clone"
  /\ IF sstables[level] = <<>> THEN r = "ok" /\ NextLevel
     ELSE IF r = "err" \/ (\E i \in DOMAIN Cloned : TableFails(Cloned[i], Compression)) THEN GiveUp
     ELSE /\ snapshot' = [from |-> sstables[level], to |-> sstables[level + 1]]
          /\ todo' = Split(MergeOf(snapshot'.from \o snapshot'.to))
          /\ cpc' = IF todo' = <<>> THEN "install" ELSE "create"
          /\ UNCHANGED <<level, made>>
  /\ UNCHANGED vars

(* create_sstable takes an engine sequence number for the name, builds the  *)
(* file and reopens it.                                                     *)
CreateTable(r) ==
  /\ cpc = "create"
  /\ sequence_counter < MaxSequence
  /\ sequence_counter' = sequence_counter + 1
  /\ IF r = "ok"
     THEN /\ made' = Append(made, Head(todo))
          /\ todo' = Tail(todo)
          /\ cpc' = IF Len(todo) = 1 THEN "install" ELSE "create"
          /\ UNCHANGED <<level, snapshot>>
     ELSE GiveUp
  /\ UNCHANGED <<heap, memtable, immutable_memtables, sstables, closed, imm_lock,
                 private, history>>

(* Mutant: the new tables join those that are already in the level.         *)
InstalledBeside(tables) ==
  [tables EXCEPT ![level] = <<>>, ![level + 1] = @ \o made]

(* Mutant: the merged tables stay in their level.                           *)
InstalledBelow(tables) == [tables EXCEPT ![level + 1] = made]

(* Under the write lock both lists are replaced, whatever they hold by now. *)
Installed(tables) == [tables EXCEPT ![level] = <<>>, ![level + 1] = made]

Install ==
  /\ cpc = "install"
  /\ sstables' = Installed(sstables)
  /\ cpc' = "delete"
  /\ UNCHANGED <<heap, memtable, immutable_memtables, sequence_counter, closed, imm_lock,
                 private, history, level, snapshot, todo, made>>

(* The files of the merged tables are deleted (see Recovery).               *)
Deleted ==
  /\ cpc = "delete"
  /\ NextLevel
  /\ UNCHANGED vars

-----------------------------------------------------------------------------
Compact ==
  Tick \/ CountLevel0 \/ MeasureLevel \/ Install \/ Deleted
    \/ \E r \in FlushResults \cup {"ok"} : CloneAndMerge(r) \/ CreateTable(r)

CompactionNext == (Next /\ UNCHANGED compactor) \/ Compact

CompactionSpec == CompactionInit /\ [][CompactionNext]_cvars

-----------------------------------------------------------------------------
(* While the task works on its snapshot, the levels still begin with it:    *)
(* flushes only append to level 0, and nobody else touches the next one.    *)
(* Without this, Install would throw away more than it has merged.          *)
SnapshotStands ==
  cpc \in {"create", "install"} =>
    /\ IsPrefix(snapshot.from, sstables[level])
    /\ level > 0 => snapshot.from = sstables[level]
    /\ snapshot.to = sstables[level + 1]

(* Tables below level 0 hold ascending, disjoint keys, and none is empty:   *)
(* a lookup asks only one of them.                                          *)
LevelsSorted ==
  \A l \in Level \ {0} : \A i \in DOMAIN sstables[l] :
    /\ KeysOf(sstables[l][i]) # {}
    /\ \A j \in DOMAIN sstables[l] : i < j =>
         \A a \in KeysOf(sstables[l][i]), b \in KeysOf(sstables[l][j]) : a < b

(* A lookup below level 0 finds every key of a table that the table's       *)
(* filter does not deny and that is not behind the first key of its last    *)
(* block, which the reader takes for its largest key: only the one table    *)
(* that has the key is asked, and no other keeps the lookup from it.  A     *)
(* block that cannot be read is reported.  Only an installation changes     *)
(* these levels, so it is enough to look at them after each.                *)
InReach(data, k) == MightContain(k) /\ k <= MaxKeyOf(Built(data).index)
BlockOf(data, k) == Built(data).flushed[FindBlock(Built(data).index, k)]
LevelLookup ==
  cpc = "delete" =>
    \A l \in Level \ {0} : \A i \in DOMAIN sstables[l] : \A k \in KeysOf(sstables[l][i]) :
      InReach(sstables[l][i], k) =>
        LookupLevel(l, k) =
          IF Decodable(sstables[l][i], BlockOf(sstables[l][i], k), Compression)
          THEN sstables[l][i][k] ELSE Unreadable

(* A lookup ends at the first level that has the key, so an entry must not  *)
(* be older than one in a deeper level, through all the merges and the      *)
(* flushes that go on beside them.                                          *)
LevelsByAge ==
  \A i, j \in TableIndex : i[1] < j[1] =>
    \A k \in KeysOf(sstables[i[1]][i[2]]) \cap KeysOf(sstables[j[1]][j[2]]) :
      sstables[i[1]][i[2]][k].stamp >= sstables[j[1]][j[2]][k].stamp

(* What a merge may throw away: the newest entry e of key k is in no table  *)
(* after an installation only if it was in a table that was flushed after   *)
(* the snapshot, if it is a delete marker, or if another entry of the key   *)
(* that was merged has no lower sequence number.                            *)
Inputs == snapshot.from \o snapshot.to
InTable(k, stamp) == \E i \in TableIndex : StampOf(sstables[i[1]][i[2]][k]) = stamp
FlushedMeanwhile(k, stamp) ==
  \E i \in DOMAIN sstables[level] :
    i > Len(snapshot.from) /\ StampOf(sstables[level][i][k]) = stamp
Marker(k, stamp) ==
  \E i \in DOMAIN Inputs : StampOf(Inputs[i][k]) = stamp /\ Inputs[i][k].val = None
Outnumbered(k, stamp) ==
  \E i, j \in DOMAIN Inputs :
    /\ StampOf(Inputs[i][k]) = stamp
    /\ StampOf(Inputs[j][k]) \notin {0, stamp}
    /\ Inputs[j][k].sequence >= Inputs[i][k].sequence

CompactionKeeps ==
  [][sstables' # sstables =>
       \A k \in Key : \A newest \in {latest[k]} :
         newest > 0 /\ InTable(k, newest) =>
           \/ InTable(k, newest)'
           \/ /\ cpc = "install"
              /\ FlushedMeanwhile(k, newest) \/ Marker(k, newest) \/ Outnumbered(k, newest)]_cvars
=============================================================================
