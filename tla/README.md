# A TLA+ model of JustDB

JustDB is an embedded key-value store built as a log-structured merge tree
(Rust, `src/`). This directory models its storage engine in TLA+, checks the
model with TLC on small instances, and proves the central properties with
TLAPS for every instance. Line numbers below are those of `src/` as it is in
this repository.

## 1. Inventory

### Components, their state and their operations

| Component | Source | State | Operations |
|---|---|---|---|
| Memtable | `memtable.rs` | ordered map behind a lock, byte and entry counters, sequence counter, immutable flag (atomics) | `put`, `delete`, `get`, `range_iter`, `iter`, `should_flush`, `make_immutable`, `clone` |
| Storage engine | `storage.rs` 22-370, 684-740 | active memtable, list of immutable memtables, levels of tables (three locks), engine sequence counter, `closed` flag | `open`, `put`, `get`, `delete`, `scan`, rotation, flush, `close`, `stats` |
| Compaction | `storage.rs` 443-683, `compaction.rs` (stub) | the background task; a snapshot of a level and the tables merged from it | `run_compaction` and its helpers |
| Opening and recovery | `storage.rs` 33-71, 383-442 | the files of the data directory | `load_sstables`, names of tables |
| SSTable | `sstable.rs` | writer: current block, index, filter, position; reader: index, key range, filter, block cache | `new`, `add`, `finish`; `open`, `get`, `range`, `iter` |
| Bloom filter | `bloom.rs` | bit array, number of bits, hashes, elements | `new`, `add`, `might_contain`, `to_bytes`, `from_bytes`, `merge`, `clear` |
| Entries, limits | `lib.rs` | - | `Entry`, its size, the size limits |
| Serialization | `serialization.rs` | - | fixed- and variable-width encoders |
| Configuration | `config.rs` | - | presets, `validate`, sizes of levels |
| Errors | `error.rs` | - | kinds of errors and their classification |
| Write-ahead log | `wal.rs` | - | a stub that nothing calls |
| Command line | `bin/cli.rs`, `main.rs` | - | parses a command, opens, runs, closes |

### How they interact

A `put` checks the `closed` flag and the size limits, asks whether the active
memtable is full and, if it is, *rotates*: a new memtable takes its place
under the memtable's lock; the old one, now immutable, is pushed to the list
under the list's lock; while the list is longer than `max_memtables` its
oldest memtable is removed and flushed with no lock held. A flush sorts the
entries into an SSTable, reopens the file and pushes the reader to level 0.
The `put` then inserts into whatever memtable is active by now. `get` asks the
memtable, the list from its end, level 0 from its end and one table of each
deeper level, taking one lock after the other. `scan` visits the same places
and merges by sequence number. `close` sets the flag, flushes the list with
its lock held, then flushes a clone of the active memtable. All of it runs as
tasks on a multi-threaded runtime, so that calls interleave at every point
where no lock is held.

### What is hard here

- Memtables travel through private hands: between the swap and the push, and
  between eviction and flush, a memtable is in no shared structure
  (`storage.rs:292-319`).
- Checks and acts are separated by released locks: `should_flush` and the
  rotation (278), `is_closed` and the insertion (686), the `is_immutable` test
  and the insertion (`memtable.rs:126`).
- Sequence numbers are taken outside the lock under which entries are
  inserted, and counted anew in each memtable (`memtable.rs:130`,
  `storage.rs:295`).
- Locks kept over long work: `close` keeps the list locked while it flushes.
- A flush may fail after its memtable has left the list (`storage.rs:315`).
- Counters and sizes at their edges: the byte counter's wrap-around, blocks
  that are just full, an entry larger than a block, the decompression buffer.
- The block cache is filled and cleared by readers that do not hold its lock
  while they read the file (`sstable.rs:274-360`).
- Compaction replaces lists of tables that have grown since it cloned them
  (`storage.rs:523`), merges by sequence numbers that start anew in every
  memtable (587), and drops delete markers (599).
- The process may end between any two steps of a flush, of a compaction's new
  files, and of the deletion of old ones; names of files consist of seconds and
  a number that starts anew, so that they can repeat (335).
- A buffer that was cut must not decode to a value (`serialization.rs:73`).

### What makes each component correct

- Memtable: counters cover the contents; no sequence number is used twice;
  writers return.
- Engine: no write is lost on its way; every memtable is in one place; the
  list is bounded; frozen memtables stay frozen; a lookup asks newest first; a
  scan merges by sequence number whatever moves meanwhile; `close` persists
  everything; calls return; one client sees a map, from which only a failed
  flush takes something.
- SSTable: the index describes the file; the search finds the block of a key;
  what was added is read back; the cache shows the file.
- Bloom filter: never a false negative; what is written can be loaded.
- Compaction: what it has cloned is still there when it replaces it; levels
  below 0 are sorted, disjoint and older than those above; a lookup that asks
  one table per level is not kept from the key; a merge keeps the newest entry.
- Recovery: every table has its file; what reached the disk stays there
  through crashes; the tables are found again, in their order.
- Serialization: what was written is read back; a cut is an error.

`PROJECT.json` lists the hazards at their lines with the properties that
cover them, and the hazards that nothing covers yet.

## 2. Modules

    LsmData            entries, contents of a memtable, byte arithmetic
      LsmDataProofs      lemmas on its operators
      MemTable           one memtable shared by threads
        MemTableProofs
      SSTable            a table as a value: blocks, index, get, range
        SSTableProofs      how a table is laid out, searched and read
        SSTableFile        life of a file: writer, reader, block cache
                           (with BloomFilter, the filter as a value)
          SSTableFileProofs
        StorageEngine      put, get, delete, scan, close; rotation and flush
          EngineRefinement   with KVStore, the abstract map
          StorageEngineProofs
          Compaction         the background task beside the clients
            CompactionProofs
            Recovery           files, crashes, open
              RecoveryProofs
    Codec              Serializer and Deserializer
    FoldProofs         what a fold computes, for any operation
    MC*                values for TLC, one module per run's specification

**LsmData.** A key is a natural number, so that `<` is the byte order; of keys
and values only the length matters besides the identity. A memtable is a
record with the fields of `MemTable`. `PutEntry` is the critical section that
`put` and `delete` share. `SizeAfter` keeps the code's arithmetic: a negative
difference is cast to `usize` and subtracted, which wraps around and *adds*
the bytes that were freed; the counter is therefore never below the size of
the contents and usually above it, although `memtable.rs:209` calls it the
approximate size. Entries carry a history field `stamp`, the position of the
write in the order in which writes took effect: "newer" means a larger stamp,
independent of the program's sequence numbers.

**MemTable.** `Start` (flag check), `TakeSequence` (`fetch_add`) and `Insert`
(under the map's write lock) are the three atomic effects of `put` and
`delete`; `MakeImmutable`, `Clone` and `Iter` run in between. `Iter` leaks a
read guard (`mem::forget`, `memtable.rs:57`): nothing ever releases it, and
`Insert` waits for `guards = 0`.

**SSTable, BloomFilter.** Pure operators. `AddToBlock`/`FlushBlock` are the
writer's block side including index offsets and sizes; `FindBlock` the binary
search, as the count it computes; `TableGet` and `TableRange` the reader's
`get` and `range`, the latter with the loop bound of the code, the *length of
the end key*. Reading a block may fail: `Decodable` is the Zstd buffer of four
block sizes, `Unreadable` the answer of a `get` that meets such a block, and
`fails` and `TableFails` say the same of a range and of a full iteration.
`BloomFilter` has the filter as built: `SetBit` stores nothing
and `BloomNew` allocates 7/8 of `bit_count` as bytes. The compressor
(`CompressedLen`) and the hash functions are external.

**SSTableFile.** `Create`, `Add`, `Finish`, `Open`, and per thread `Start`,
then block by block `CacheHit`, or `CacheMiss` followed by `Load` or
`LoadFails`, until `Finished` or `Panics`. A miss and the load are two steps
since the cache's lock is released in between.

**StorageEngine.** `heap` is the list of all memtable objects ever made, so a
memtable's identity is its index; `memtable`, `immutable_memtables`,
`sstables`, `sequence_counter` and `closed` are the fields of the struct;
`hand[c]` is what task `c` has taken out of them. A step is what happens
between two acquisitions of a lock:

| Code | Actions |
|---|---|
| `is_closed`, size checks | `Enter`, `Reject` |
| `check_rotate_memtable` | `CheckRotate` |
| `rotate_memtable` | `RotateSwap`, `RotatePush`, `Flush`, `RotateAgain` (the loop's test is `Limit`) |
| `MemTable::put`/`delete` under the engine's read lock | `TakeSequence`, `Insert` |
| `get` | `GetMemtable`, `GetImmutable`, `GetTables` |
| `scan` | `ScanMemtable`, `ScanImmutable`, `ScanTables` |
| `close` | `BeginClose`, `CloseDrain`, `DrainFlush`, `CloseClone`, `CloseFlush` |

Two locks are held across steps. A write that has its sequence number holds a
read lock of the memtable, which `RotateSwap` waits for (`WriteLockFree`);
`close` holds the list's write lock from `CloseDrain` to its last
`DrainFlush` (`imm_lock`), and every user of the list waits for it.
`latest`, `floor`, `begun` and `dropped` are history: the newest stamp of each
key, its value when a call began, the writes admitted, and the memtables whose
flush failed. A merge of sources (`Merged`) is written as its result: for each
key the entry that no later source beats with a higher number. A `get` or
`scan` that meets an unreadable block answers with an error, as does a call
whose flush fails; a range that panics ends the scan (`Stops`).

**The flush and the state of the present build.** As `bloom.rs` is, a file
with entries cannot be reopened (run `sstable_open`, theorem `NeverOpens`), so
every flush of a non-empty memtable returns an error: the engine as built is
the instance `FlushResults = {"err"}`. And a filter that could be loaded would
deny every key (theorem `FilterDeniesAll`): that is `BloomLoaded = TRUE`. The
engine's own logic deserves to be checked apart from these two one-line
defects, so its runs allow both results of a flush where the property does
(`engine_two`, `engine_map`, `recovery`), and take readers without a filter. In
`recovery` a flush that fails may leave a complete file, which is what the
present build does every time. The theorems on `StorageEngine` hold for every
outcome of a flush; two of them need `FilterSound` (section 4), which the
present build meets, because its flushes leave no table to look into.

**Compaction.** Extends `StorageEngine` with the background task, which shares
`sstables` and `sequence_counter` with the clients:

| Code | Actions |
|---|---|
| `start_background_compaction`, its loop | `Tick` |
| `run_compaction`: count of level 0, size of another level | `CountLevel0`, `MeasureLevel` |
| `compact_l0_to_l1`/`compact_level`: clone both lists; `merge_sstables` | `CloneAndMerge` |
| `create_sstable` for each table that `create_sstables_for_level` cuts | `CreateTable` |
| both lists replaced under the write lock | `Install` |
| old files deleted | `Deleted` (in Recovery: `DeleteFile`, one by one) |

Cloning and merging are one step because the cloned readers cannot change; a
block that cannot be read ends the run like any other error.
The two functions have the same shape and are modelled once, with `level` as
parameter. Cutting the merged entries into tables is `Split`; the tables are
then written one per step, each with a new engine number. The only `await` at
which the task really suspends is the tick, so that `close`, which aborts it,
never stops a compaction in the middle, and it may go on after `close` has
returned; the abort itself is not modelled. An error ends the run; the next tick begins again.

**Recovery.** Extends `Compaction` with the directory, for one client beside
the compaction task (`RecoveryAssumption`): `created_at` is taken when a file
is begun (`sstable.rs:620`) and its reader is pushed later under another lock
(`storage.rs:356`), so that with two clients that flush at once the order of
the files is not that of the pushes, which the single step `FlushToFile` could
not show. `disk` is the sequence of complete files, in the order of
`created_at`; `names` says which file each
table is. A flush and a new table write a file under `NewName` (level, second,
sequence number); what is left of a file that fails or is interrupted is
nothing, a file cut short, or a complete one (`Left`). A file cut short has no
footer, and `load_metadata` refuses it, so that it counts as absent, but it
has truncated a file of the same name. `SSTableWriter::finish` syncs, so that
a complete file survives. `Crash` ends the process at any step, with any
outcome for each file under way; everything in memory starts anew. `Open` is
`load_sstables`. When a name repeats, the file of an open reader is
overwritten: the model records it (`clobbered`) and lets the process do
nothing more until it ends, since what its readers answer is then undefined.
It happens: a memtable that started at number *s* and took *n* writes is named
*s + n*, so that two memtables flushed in one second (as `close` does), and
two short processes in one second, can meet. The properties hold up to it.

**Codec.** `Write` appends a value of any type, `StartReading` hands over a
prefix of the buffer, `ReadNext` and `SkipNext` follow the types that were
written. Numbers, lengths and groups of 7 bits are computed as the code does,
with the width of a byte and of the integer types as constants.

**KVStore, EngineRefinement.** The abstract specification: a map that keeps
versions of each key, of which the newest is its value; a call is accepted,
takes effect and is answered atomically. Where writing to the disk can fail, a
put or delete can be answered `"failed"`, or a store be closed, and versions
be lost with it; where reading can fail, so can a get. A write that is
answered `"ok"` loses nothing but older versions of its own key. The
refinement mapping gives a key the entries it has anywhere, the memtables in
the client's hands included. The step `Insert` is where a write takes effect
and the step that answers is where a lookup does; a flush that fails is a
failed write, or a loss while the store is closed; every other step stutters.

## 3. Runs

| Run | Shows |
|---|---|
| `memtable` | two threads, three writes, overwrites by longer and shorter values and deletes: counters cover the contents (also of clones), sequence numbers are distinct, and every call returns unless an iterator leaked its guard |
| `engine_two` | two clients that put, get, scan and close, flushes that succeed or fail: `NothingLost`, `ImmutablesBounded`, `HeldOnce`, `Frozen`, and every call returns although `close` keeps the list locked |
| `compaction` | one client puts, deletes, scans and closes while the task compacts three levels: `SnapshotStands`, `LevelsSorted`, `LevelLookup`, `LevelsByAge`, `CompactionKeeps`, and of the engine, with tables on all levels, `NewestFirst` and `ScanTakesHighest`: whatever moves between the parts of a scan, it answers with the highest number of each key |
| `recovery` | one client puts, deletes and closes; flushes, table files, merges and deletions succeed or fail, and the process ends once, anywhere: `TablesHaveFiles`, `CloseReachesDisk`, `DiskKeeps`, `OpenRestores`, `NewestFirst` |
| `codec` | two values of any types, the buffer cut anywhere: `ReadsBack`, `CutIsNoticed`, `CursorInItem`, `VarintsShortest` |
| `engine_map` | one client, flushes that succeed or fail, blocks that Zstd cannot give back: types, `GetFindsWhatIsLeft`, and the engine implements `KVStore`, refused calls included |
| `sstable_file` | every file of up to three entries, two compressors, two threads: `IndexTilesFile`, `SearchFindsKey`, `CacheCoherent`, `IterReturnsAll`, `RangeIsTableRange`, errors and panics included |

Five runs show where the code does not do what its comments or tests say:

| Run | Property that is violated | What happens |
|---|---|---|
| `engine_get_race` | `GetIsFresh` | a `get` during a rotation does not find a key that was put before it began |
| `engine_close_race` | `ClosePersists` | a `put` that passed the `closed` check writes after `close` has flushed |
| `engine_scan_stale` | `ScanReturnsNewest` | an overwrite in a newer memtable has a lower sequence number, and `scan` returns the old value |
| `sstable_open` | `OpensWhatWasWritten` | the filter is written with one length and read with another |
| `sstable_range` | `RangeReturnsAll` | `range` loops to the length of the end key: it panics or stops early |

The same models show more deviations, which have no run of their own: two
rotations can push in the wrong order (`NewestFirst` fails with two clients);
the byte counter grows when an overwrite shrinks the data; a leaked iterator
guard blocks a memtable's writers; a sequence number taken first can be
inserted last; Zstd blocks beyond four block sizes cannot be read
(`IterReturnsAll` and `Decodable` state exactly when); an entry that a client
stored with an empty value is left out of a scan like a deleted one
(`ScanTakesHighest`); and the largest key a reader reports is wrong:
`load_index` takes the first key of the last block (`sstable.rs:181`), while
`finish` returns the last key, as the test at `sstable.rs:1026` asserts
(`assert_eq!(meta.max_key, b"key2".to_vec())`). `find_sstable_for_key`
(`storage.rs:379`) then passes over the table, and below level 0 a key behind
that first key is not found. The model has it as `MaxKeyOf`, which
`LookupLevel` asks.

Of compaction and recovery the properties themselves say what they must admit,
and each exception is a deviation that TLC reaches if it is left out:

- `CompactionKeeps`: `Install` replaces level 0 by an empty list, so that a
  table flushed since the snapshot is lost to all lookups until the next open
  (`FlushedMeanwhile`); a delete marker is dropped even if a deeper level has
  the key, whose old value then answers (`Marker`); an older value with a
  higher or equal number wins the merge (`Outnumbered`).
- `LevelLookup` speaks of the keys up to the first key of their table's last
  block (`InReach`) and says nothing of those behind it, which are not found as
  said above; without `InReach` it fails in the run.
- `DiskKeeps`, `TablesHaveFiles`: hold up to a repeated file name.
- `OpenRestores`: only if the directory has no other files. After a crash it
  may have those of an unfinished compaction or of a failed flush, and open
  loads them too: level 0 beside the level 1 it was merged into, and tables of
  level 1 that overlap.

### Bounds, and why they are enough

- Clients and threads: two. The races here are between pairs: swap against
  swap, push against push, write against close, reader against rotation.
- An entry has 18 bytes in `MCEngine`, a delete marker 17. With two clients
  the threshold is 17 and `max_memtables` 1, so that every entry fills a
  memtable and every later write rotates: within three writes rotations,
  evictions, flushes and a close overlap in both clients. `engine_map` has
  entries of 19 and 20 bytes, delete markers of 17 and 18, a threshold of 20 and
  `max_memtables` 2, so that a memtable holds up to two keys and lookups cross
  two immutable memtables before they reach a table; a block holds one entry
  and has 32 bytes for the one key, just what four blocks of 8 bytes allow, and
  33 for the other, which Zstd does not read back.
- `compaction`: entries of 17 and 20 bytes, delete markers of 17, and a
  threshold of 18, so that a memtable holds one entry or two; tables below level 0 take 36 bytes, hence
  one entry or two; the thresholds (one table, and 54 bytes with a multiplier
  of 3 instead of at least 10) make four writes reach level 2, where a
  value outlives its delete marker. Flushes succeed
  here; `recovery` has those that fail. One client, because with two
  `NewestFirst` fails already without compaction.
- `recovery`: one key, three writes, one end of the process, a clock of two
  seconds, so that names repeat and do not. A failing compaction is tried
  again for ever and takes a new number each time: `MaxSequence` (4) cuts that
  off. In `compaction` it is out of reach.
- `codec`: bytes of 3 bits and a `u64` of 9, so that, as in the code, the
  largest integer is some full groups and one bit; values at which the number
  of bytes or groups changes; texts of up to three bytes.
- Keys: one where only places matter, two or three where order, ranges and the
  blocks of a table do. In `engine_map` one of them is too long.
- Levels: three in `compaction`, so that level 1 is both a target and a source;
  elsewhere two, the deeper of which is empty without compaction.
- `BLOCK_SIZE` is scaled to 64 bytes, entries to some twenty, so that files
  have one to three blocks; two entries leave one byte of a block, fill it, or
  are one byte too many; one entry overflows a block, and the value `"large"`
  exceeds four. The cache holds one
  block, so it is cleared at every second insertion.
- `usize` has 16 bits (`UsizeMod`); the wrap-around is reached by the first
  shrinking overwrite. The filter has 64 bits, the least the code allows.
- `Expected` contains 0 in some SSTable runs: `SSTableWriter::new` takes it,
  and it is the only hint with which the present build can open a file. The
  filter of such a file denies every key, so that in `sstable_file` a `get`
  ends at the filter, as it does in the program; the lookup behind it is
  checked by `SearchFindsKey`, and in the engine's runs, whose tables have no
  filter.

Deadlock checking is off in every run because every system here may stop: the
bound on writes is used up, or the engine is closed and nobody calls it.

### Fairness

`MemTable`: weak fairness for the step of a thread that can run; strong
fairness for taking the map's lock, which is free again and again and, being
`parking_lot`'s, eventually fair. `StorageEngine`: the runtime keeps polling a
task that can run (weak fairness of its own steps and of flushes, which end in
one way or the other); the `tokio` and `parking_lot` locks are granted to a
waiting task when they are free again and again (strong fairness of the steps
in `LockStep`). Clients are never obliged to make a call.

## 4. Theorems

TLC checks each property on a small instance; the theorems state it for every
set of keys and values, every size and threshold, every outcome of a flush,
and, unless a hypothesis is named, any number of clients and threads.

| Module | Theorems about | Inductive invariant |
|---|---|---|
| `MemTableProofs` | `TypeOK`, `SequencesDistinct`, `CountersCoverData` | `SequenceInv`, `CountInv(b)` |
| `SSTableProofs` | on the operators: `TableGetFinds`, `RangeReadsAll` | - |
| `SSTableFileProofs` | `FilterDeniesAll`, `NeverOpens`, `TypeOK`, `IndexTilesFile`, `SearchFindsKey`, `CacheCoherent`, `IterReturnsAll`, `RangeIsTableRange` | `FiltersShaped`, `CacheInv`, `FileInv`, `Shaped` |
| `StorageEngineProofs` | `TypeOK`, `Frozen`, `ImmutablesBounded`, `NothingLost`, `HeldOnce`, `NewestFirst`, `GetFindsWhatIsLeft`, the refinement `ImplementsMap` | `Shape`, `Aged`, `Reads` with `InPlace`, `Mapped` |
| `CompactionProofs` | `CompactorTypeOK`, `SnapshotStands`, `LevelsSorted`, `LevelLookup`, `CompactionKeeps`, `LevelsByAge`, `NewestFirst`, `ScanTakesHighest` | `CompactInv`, `AgedInv`, `Scans` |
| `RecoveryProofs` | `RecoveryTypeOK`, `TablesHaveFiles`, `DiskKeeps`, `OpenRestores`, `NewestFirst`, `CloseReachesDisk` | `BaseInv`, `AgeInv`, `FilesInv`, `CloseInv` |

`FoldProofs` and `LsmDataProofs` hold what all of these cite. Of the safety
properties of the passing runs only the four of `codec` are not proved.

### Hypotheses

The proofs use the named assumptions on constants (`LsmDataAssumption`,
`NoneAssumption`, `SSTableAssumption`, `StorageEngineAssumption`,
`CompactionAssumption`, `RecoveryAssumption`, `BloomFilterAssumption`,
`SSTableFileAssumption`); TLC evaluates them in the runs. They are what
`Config::validate` and the types of the code give, with three exceptions:
`MaxLevels >= 2` asks for more than `validate` (`config.rs:149`), which accepts
one level, where compaction would write tables that no lookup reads; the
multiplier of levels is scaled and may be less than the 10 of `validate`; and
`RecoveryAssumption` allows only one client. Beyond them:

- `OneClient`, that there are no two clients, in `NewestFirst`, `LevelsByAge`,
  `GetFindsWhatIsLeft` and `ScanTakesHighest`, and from its assumption in all
  of `RecoveryProofs`. With two clients the first two are false, since two
  rotations can push in the wrong order; a `get` or `scan` during a rotation
  passes a memtable that is in another task's hands (the run
  `engine_get_race`); and a `put` can slip past `close` (the run
  `engine_close_race`), which would refute `CloseReachesDisk`.
- `OneCaller`, one client that does not call `scan`, in `ImplementsMap`: a scan
  that follows the numbers is not that of a map (the run `engine_scan_stale`).
- `FilterSound` in `GetFindsWhatIsLeft` and `ImplementsMap`: no flush succeeds
  (`"ok" \notin FlushResults`), so that no table is ever asked, or readers carry
  no filter (`~BloomLoaded`). The present build is of the first kind
  (`NeverOpens`), so both theorems apply to it as it is: it is a map that loses
  what it flushes. A build whose filters could be loaded but still denied every
  key (`FilterDeniesAll`) would be of neither. `LevelLookup` needs no such
  hypothesis: it speaks of the keys the filter does not deny. `TableGetFinds`
  is about a reader without a filter.
- `ShortTables`, that no table has more blocks than a key has bytes, in
  `ScanTakesHighest`, and the same of one table and one key in `RangeReadsAll`:
  the loop of `range` ends at the length of the end key (the run
  `sstable_range`), so that beyond it the property is false.
- `IdleIsNoCall`, that the model's word for "no call" is not a call: an
  assumption of `EngineRefinement` that TLC evaluates.
- `NoEntryLonger(b)` and `MaxWrites * b < UsizeMod` in `CountersCoverData`:
  the byte counter never decreases, so it covers the contents until 2^64 bytes
  have been written in all.
- `LengthsAreNat`, that the compressor returns a length, wherever a file has
  offsets. It ranges over all numbers, so TLC cannot evaluate it and it stays a
  hypothesis; the compressors of the runs satisfy it.

### The arguments

**Folds.** Several operators of the model are folds of the community modules:
the bytes of a map, the tables a merge is cut into, the files a crash leaves.
A fold is a recursive function on subsets, and what it computes needs
induction. `FoldProofs` proves this once: that the recursion has exactly one
solution, so that it can be unfolded (`FoldPick`, `FoldInterval`), that the
value stays in a set closed under the operation (`FoldClosed`), and that the
order does not matter if the operation commutes (`FoldAnyOrder`). Its
operation is a CONSTANT, so that a module instantiates it with the operation
it folds: the bytes of a map (`Sizes`), of a block (`Lens`) and of a file
(`Offsets`), the entries a writer adds (`Adding`), the rows a reader takes of a
block (`Taking`), the tables of a merge (`Tables`) and the files a crash leaves
(`Writes`).

**MemTable.** `SequencesDistinct` needs that the number a thread has taken is
below the counter (`TakenBelowCounter`) and that a thread that holds one has
an operation to apply it to (`HasOperation`). `CountersCoverData` compares the
counter, a number modulo 2^64, with a sum over the keys of the map
(`LiveBytesPut`: a put adds the entry and takes the one it replaces); the
invariant adds that the counter is at most the number of writes times the
longest entry, so that it never wraps around to a small number.

**StorageEngine.** `TypeOK` alone is not inductive: the head of a hand is used
in `RotatePush` and the flushes, so `Shape` adds what a client can have in its
hands at each step (`HandShape`). A write goes to `target[c]`, read before the
insertion; it is the active memtable because `RotateSwap` waits for writes
(`WritesActive`), and the active memtable is never frozen (`ActiveMutable`):
these two give `Frozen`. A flush skips a memtable whose entry counter is zero,
so nothing is lost only if such a memtable is empty (`CountZeroIsEmpty`).

`NothingLost` follows step by step: `HeapSteps` says which memtables a step
may change, `StillHeld` that an entry stays held if its memtable or table is
still referred to, and one lemma per movement (swap, push, evict, drain,
clone, flush, insert) that a memtable leaves one place only for another, for a
table, or for `dropped`. `HeldOnce` is proved with the same movements:
`Places` collects where memtables are before a step, `HandMoves` what the new
content of one client's hands must satisfy.

`NewestFirst` is not inductive either, since it says nothing of memtables on
their way. `ByAge` orders all places of one client's engine: tables, then the
hands, then the list, then the active memtable, with the stamps of each key
ascending. Each movement takes a memtable from the end of one place to the end
of the next; an insertion carries the newest stamp of all.

`GetFindsWhatIsLeft` follows the one client's `get` through its three steps. Its
invariant `Reads` says of each place already asked that it does not have the
key; nothing moves meanwhile, since only the client moves anything. In the last
step `NewestFirst` makes the first table that has the key the newest entry, and
`TableGetFinds` makes the lookup in it return it or fail. What it does not find
is then in no place, so that by `NothingLost` it was in a memtable whose flush
failed. `InPlace` collects what this needs: the order, that nothing is lost,
and that the deeper levels are empty, as they are without compaction.

`ImplementsMap` maps the engine to `KVStore`. The versions of a key are its
entries in all places, which a stamp identifies. They are unchanged by every
movement; an insertion adds the newest and takes at most the one it overwrites;
a flush that fails takes those of its memtable, except that the clone which
`close` flushes is still the active memtable (`CloneKept`). A lookup finds the
newest of them because places are ordered by age. `Doing` says which calls can be at which
step; `InsideSteps` that a step inside a call either goes on with it or ends it
with the answer. So each step of the engine is one step of `KVStore` or a
stutter: the beginning of a call, a refused call, the insertion, the answer of a
lookup or of `close`, and the flush that fails.

**Compaction.** The task's snapshot is a pair of sequences and the levels begin
with them (`SnapshotStands`), because clients only append to level 0 and no
one but the task touches the others. `WorkInv` adds what
the task has in its hands at each place: what it has written and what it still
has to write (`made`, `todo`) are together the tables that `Split` makes of
its snapshot. That `Split` cuts sorted rows into ascending tables that are not
empty is the induction `SplitFacts`; `LevelsSorted` follows when they replace
the level. `CompactionKeeps` follows the newest entry of a key through
the merge: its row is that entry unless another has no lower number, a row is
in a table unless it is a delete marker, and the tables are installed.
`LevelsByAge` is part of `Aged`: a merged entry was in the level it goes to or
in the one above, so that every level stays older than those above it; for
level 0 this needs the order of its tables and that all memtables are newer.
`LevelLookup` joins `LevelsSorted` with the search within a table: at most one
table of a level can have a key, it is the one asked, and what it answers is
what it was built from up to the reader's largest key (`MaxKeyOf`).

`ScanTakesHighest` is an action property of the last part of a scan. `Gathering`
says what the parts before it have collected: entries that memtables hold, and
for every key of the range that the memtables passed have, one with no lower
number. The compaction and its `Install` between the parts only change tables,
which are read last and all under one lock, and what the client's own
rotations would move it moves before or after its scan. A range read that does
not fail or panic returns every key of a short table (`RangeReadsAll`), and the
merge takes of each key an entry with the highest number of its sources
(`HighestFirst`), which is then left out if it is a marker or empty.

**Recovery.** A process that ended is memory as it is at the start, beside a
disk: `BaseInv` says both. `FilesInv` ties tables and files: every table has
its file under its name as long as no name was used twice, in the order of its
level; what compaction will delete (`inputs`) is on the disk until then, what
it has written (`made_names`) too, and the two have no name in common.
`TablesHaveFiles`, `OpenRestores` (open reads
the files in the order of `created_at`, which is that of the levels) and
`DiskKeeps` (only a repeated name or the deletion after a compaction removes a
file, and then the merged tables have the entry, up to the exceptions of
`CompactionKeeps`) rest on it. `CloseReachesDisk` needs where the newest entry of a key
can be at each step of a close: `Reached`, that it has reached the disk, or
was in a memtable whose flush failed (`Gone`), or is in a memtable that
something still refers to; and `ClosesAll`, that the list stays empty once
`close` has drained it, and that the clone it flushes is what the active
memtable still holds.

**SSTable.** `Laid` says of a writer's blocks that they are not empty, ascend,
and hold exactly the keys added so far; `Tiled` that the index has one entry
for each, with its first key, the bytes stored before it and its own, and that
a block is over the limit only if it has one entry. Both are kept by one
`AddToBlock`, hence by the fold over all entries. In such a table the count that
`FindBlock` computes divides the index (`Divides`): the blocks up to it begin
at or before the key, those behind it after. So a key can only be in the block
found, which gives `TableGetFinds`. `RangeReadsAll` adds that a range begins in
the block that holds its first key and that a block is passed over only when
all its keys are out of range.

**SSTableFile.** `FilterDeniesAll` and `NeverOpens` justify what is said above
of the present build: no bit of a filter is ever set, and the bytes `BloomNew`
allocates never match the length that is written beside them. `LayoutSound`
carries `Laid` and `Tiled` through `Create`, `Add` and `Finish`, which gives
`IndexTilesFile`; `SearchFindsKey` is an argument about the loop of the binary
search, whose bounds always enclose the count it looks for (`Searches`).
`CacheInv` adds to coherence that a thread on its way to a load is at a block
of the index, which does not change once the file is finished, and that the
cache is empty until the file is open. `ThreadSound` says of every thread what
it holds: the rows its operation wants of the blocks it has passed (`Collected`),
each of which could be read and none of which was the last to look at
(`Reached`), whether they came from the cache or from the file. So an iteration
that ends well has passed every block, and a range read ends or panics where
`TableRange` does. Its types need both (`Shaped`).

### Only model-checked

- Liveness (`CallsReturn`, `WritersReturn`), which is out of the proof system's
  reach.
- `Codec` (`ReadsBack`, `CutIsNoticed`, `CursorInItem`, `VarintsShortest`). What
  is read back, lengths included, rests on powers of the base of a byte, and
  the provers behind TLAPS have no fact about exponentiation, not even that
  *b*^0 is 1. The component is sequential, and the run enumerates its values up
  to the widths at which it branches.
- The properties of the runs that end in a violation, which are false, and
  where the hypotheses above exclude a case: more than one client for the order
  of memtables, scans for the refinement, and filters that are loaded and still
  deny keys for `GetFindsWhatIsLeft` and the refinement.

## 5. Not modelled

- The `read_only` answer of `TakeSequence` is in the model but cannot occur, as
  in the code, since the active memtable is never frozen.
- Two clients together with compaction or crashes: the flushes of two clients
  are covered without them, and the task beside one client.
- Disks that lose synced data, damaged files, I/O errors while `open` reads the
  directory or a reader its blocks (a block that Zstd cannot give back is
  modelled), two processes on one directory.
- That `close` aborts the compaction task, which can stop only at its tick.
- `stats`, `flush_stats` and other counters that nothing depends on; logging.
- Bytes: checksums of damaged files, compressors, hash functions, floats in the
  sizing of the filter.
- `merge` and `clear` of the filter, which nothing calls; presets and setters of
  the configuration; `level_max_sstables`, which calls itself for ever and has
  no caller; the classification of errors, a pure table.
- The write-ahead log is a stub; the command line holds no state but the
  engine's (it skips `close` when a command fails).

## 6. Plan

1. *Done:* LsmData, MemTable, SSTable, BloomFilter, SSTableFile, StorageEngine,
   KVStore and the refinement; the first theorems.
2. *Done:* Compaction, Recovery, Codec.
3. *Done:* theorems on `MemTable`, `StorageEngine`, `Compaction` and
   `Recovery`.
4. *Done:* the layout of tables, the search and the readers; from them
   `LevelLookup` and, for one client, `GetFindsWhatIsLeft`.
5. *Done:* the refinement of `KVStore` with losses, `ScanTakesHighest`.
6. Open: that what `Codec` reads is what was written, for every width, once
   the provers know of powers; and a refinement for several clients, once `get`
   can no longer miss a memtable that is being rotated.
