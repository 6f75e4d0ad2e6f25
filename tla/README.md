# A TLA+ verification of CQLite's write path

CQLite reads and writes Apache Cassandra SSTables without a Cassandra process. Most of
the repository decodes file formats; the part that keeps state, promises durability and
has to survive failures is the **write engine** in
`cqlite-core/src/storage/write_engine/`: a write-ahead log, a memtable, flushes that turn
the memtable into an SSTable, compaction that replaces SSTables by their merge, and the
recovery that opens an engine on whatever a crash left behind. Next to it stands the reader
side that follows a directory while it changes. This project models those parts in TLA+,
checks them with TLC on small instances, and proves with TLAPS, for every value of the
constants, the safety properties that the runs check. Paths below are relative to
`cqlite-core/src/storage/` unless they start with `cqlite-`.

| Module | What it is |
| --- | --- |
| `Wal` | the write-ahead log and the recovery sequence run over it |
| `WriteEngine` | writes, flush, compaction's publication and deletions, opening and closing |
| `DurableStore` | what a caller is promised: the abstract specification of `WriteEngine` |
| `MergeProducer` | a merge's producer threads, channels, cancellation and teardown, and the egress budget |
| `StreamingMerge` | a merge drained row by row in calls that pause, resume and fail |
| `Reconcile` | what a merge keeps of a row, as operators on sets of facts |
| `TombstonePurge` | when a compaction may forget a deletion: `Reconcile` inside writes, flushes and merges |
| `Refresh` | a reader handle that lists and opens SSTables while an engine changes them |
| `MC...` | small instances for TLC, one per module with behaviours |
| `WalProofs`, `WriteEngineProofs`, `MergeProducerProofs`, `StreamingMergeProofs`, `ReconcileProofs`, `TombstonePurgeProofs`, `RefreshProofs` | theorems and their proofs |

`PROJECT.json` lists the runs, the source lines behind every definition, the hazards, the
findings and the theorems.

## 1. Inventory

### Durability

**Write-ahead log** (`write_engine/wal.rs`). State: the log file, a `BufWriter` in front
of it, `current_size`, `pending_valid_prefix` (a corrupt tail that was found and not yet
cut away) and `poisoned`. An entry is `[length | crc32 | payload]`. Operations:
`create_with_buffer_size`, `open_existing`, `append`, `sync`, `replay_each`,
`reset_to_valid_prefix`, `truncate_checked`, `rotate`, `delete_old`. Hard: every operation
is several system calls any of which may fail; what is in the buffer, in the file and on
the disk are three different things; on reopening, a torn tail (trim it) has to be told
from corruption (preserve it). Correct when: what was synced is replayed; a loss is
reported; recovery destroys no bytes.

**Write engine** (`write_engine/mod.rs`, `write_engine/durability.rs`,
`write_engine/memtable.rs`). State: the log, the memtable, the next generation, the active
merge, the directory. Operations: `new`, `write`/`write_async`, `flush`, `close`, drop.
The engine takes `&mut self` and holds a directory lock, so one operation runs at a time;
a kill or a power loss may come between any two of its system calls. Hard: the handoff
from log to SSTable (the log may be truncated only when every directory entry of the
SSTable is durable), retries after a failure, and a truncate that fails half way. Correct
when: what a write or a flush promised is found by every later open.

**SSTable publication** (`sstable/writer/finish.rs`, `write_engine/compaction.rs`).
`TOC.txt` is the publication barrier: an SSTable exists for readers, the compaction policy
and the startup sweep when its `TOC.txt` does. A flush writes components and TOC in place
and syncs the directory behind them. A merge writes into a tmp directory, renames the
components in one by one, syncs, renames the TOC in, syncs, and only then deletes its inputs.
Correct when: no published SSTable is rewritten, a TOC that could not be made durable
stands for nothing the log or the inputs do not still have, and whoever follows the
directory sees an SSTable only when all of its components are there.

**Compaction driver, deletion and sweep** (`write_engine/maintenance.rs`,
`write_engine/compaction.rs`, `write_engine/sweep.rs`). State: `active_merge` (output
generation, input paths, merge progress). Operations: `start_merge`, the drain,
`finalize_merge_async` with its rollback, `delete_sstable_files`, the startup sweep of
tmp directories and of SSTables without a TOC. Hard: flushes run while a merge is
paused, both take generations from one counter, and each file operation may fail or be
the last before a crash.

**Merge policy** (`write_engine/merge_policy.rs`). Pure: groups candidates into size
buckets and returns one bucket of at least `min_threshold`. `WriteEngine` lets it return
any set of that size.

### The merge

**Producers** (`write_engine/merge/producer_iter.rs`, `from_readers.rs`, `producer_msg.rs`,
`RunReader` and the heap refill in `merge/mod.rs`). State: one thread per input, its bounded
channel, its cancel token, the adapter's `RunState`, the peek buffer, the row in the heap.
Operations: open, the producer's walk and its single terminator, `next`, refill, `Drop`.
Hard: a producer may panic, die without a terminator, be refused by the OS or block on a
full channel while its consumer goes away. Correct when: a merge that reports `Complete`
has handed on every row; a call that waits returns; a drop ends.

**Egress budget and gauges** (`merge/egress_budget.rs`, `channel_depth.rs`,
`producer_gauge.rs`). Three process-wide counters that threads of several merges change.
Correct when: they come back to zero whatever failed, and a merge alone gets the whole
budget.

**Paused drain** (`write_engine/maintenance.rs`, `merge/streaming.rs`,
`merge/schema_order.rs`). State: `pending_partition`, the checkpoint of the partition being
reconciled (range tombstones seen, rows awaiting them, the current cluster), rows written.
Hard: a range tombstone is yielded at its end bound, after rows it covers; a call may stop
after any group or fail. Correct when: the output shows what the inputs show, rows come
once and in order, and the merge ends however small the budget is.

**Reconciliation and purging** (`merge/reconcile.rs`, `reconcile_rules.rs`,
`merge/fully_expired.rs`, the bounds in `maintenance.rs` and `merge/mod.rs`). Pure rules
(last write wins, shadowing by complex, row, range and partition deletions, TTL expiry,
gc_grace) and the conditions under which a deletion, or a whole expired SSTable, may be
forgotten. Hard: the bounds are taken once, before a merge that runs while other data is
flushed. Correct when: no compaction makes deleted data visible again or loses data.

### The reader side

**Directory refresh** (`sstable/refresh.rs`, `sstable/mod.rs`). State: the readers of a
handle, the refresh lock. Operations: `load_existing_sstables`, `refresh_tables` (list,
diff, open, swap). Nothing locks the directory against the engine. Correct when: what was
published before a successful refresh is visible after it, no refresh takes visible data
away, every refresh returns.

**Caches** (`cache/`): the process-wide key-offset cache, nested LRUs by file identity under
one byte budget. Not modelled yet (section 6).

### Left aside

SSTable and commit-log parsers, the mutation codec, CQL-to-mutation translation, schema
parsing, result export, SSTable export: conversions of data without a protocol, which the
repository tests against files Cassandra wrote. The query engine plans and runs `SELECT`s
over open readers and keeps no state beyond a query but caches and counters. The CLI, the
bindings, the Flight server and the Trino connector are front ends.

## 2. Modules and the code

### `Wal`

The log is a sequence of *segments*, one per framed entry or fragment of one; a segment's
`kind` is what the reader in `replay_each` and `scan_valid_prefix` can tell about it (it
decodes; CRC good and payload undecodable; CRC mismatch; implausible length; payload cut
short; header cut short; a hole of zeros). Payloads are mutations as model values: which
of the legacy layouts a payload decodes under is left out, whether it decodes is kept.

| State | Code |
| --- | --- |
| `buf` | the `BufWriter` |
| `file` | the log file as a read sees it |
| `disk`, `stable` | what a power loss leaves: the last synced contents, or `file` cut anywhere behind its first `stable` segments |
| `handle` | `WriteAheadLog`: `size` (`current_size`), `pending` (`pending_valid_prefix`), `poisoned`, whether the file was opened in append mode, and whether its cursor was left behind the end |
| `recovery`, `report` | how far `WriteEngine::new` is with the log, and its `RecoveryReport` |
| `evidence` | the copy `preserve_corrupt_wal` sets aside |
| `archive`, `clock` | rotated logs `commitlog.wal.<seconds>` |
| `appended`, `acked`, `exposed`, `told`, `archived` | history: appended and not synced; synced; hit by media corruption; surfaced as lost; rotated out |

| Action | Code |
| --- | --- |
| `Create`, `OpenExisting` | `create_with_buffer_size`, `open_existing` with the trim of a torn tail |
| `ReplayEach`, `PreserveCorruptWal`, `ResetToValidPrefix` | the recovery sequence of `WriteEngine::new` |
| `AppendBuffered`, `AppendSpilled`, `AppendFails` | `append`: into the buffer, past it, failing between header and payload |
| `Sync` | `sync`: flush, fsync, and their failures |
| `TruncateBeforeMutation`, `Truncate` | `truncate_checked`, split at `set_len(0)` as `TruncateError` is |
| `Rotate`, `DeleteOld` | `rotate`, `delete_old` |
| `Close`, `Kill`, `PowerLoss`, `Rot`, `Tick` | a handle dropped in order, the process killed, the machine losing power, one entry damaged on the medium, a second passing |

`Faults` names the system calls the environment may fail: `append`, `flush`, `fsync`,
`setlen`, `seek`, `copy`. Not modelled: failures of `rotate` behind its rename, read
errors while replaying, and platforms on which a directory sync does nothing.

### `WriteEngine`

The log is reduced to what `Wal` establishes of it when no append fails half way: the set
of mutations that replaying the file yields (`walFile`) and that replaying it after a
power loss yields (`walDisk`). An SSTable is the state of its files plus the set of
mutations in its data file. A file state is `absent`, `leftover` (components but neither
`Data.db` nor `TOC.txt`), `partial` (`Data.db`, no TOC), `published`, or `torn` (a TOC in
front of missing or half-written components); `sst[g]` is what the process sees and
`survives[g]` is the set of states a power loss may leave, which a directory sync reduces
to one. `pc` says how far the one running operation has come.

| Action | Code |
| --- | --- |
| `Open`, `OpenFails` | `WriteEngine::new`: sweep, replay, next generation; an entry that does not apply fails it |
| `Write`, `WriteSyncFails` | `write`/`write_async` through `write_into_memtable`: admission, log, sync, memtable |
| `FlushComponents`, `FlushToc`, `FlushSyncLeaf` | `flush_internal_async` and `SSTableWriter::finish` |
| `FlushSyncChain`, `FlushCommit` | `finalize_flush_durability`: directory chain, truncate, then memtable and generation |
| `StartMerge` | `start_merge` |
| `MergeRename`, `MergeSyncComponents`, `MergeToc`, `MergeSyncToc`, `MergeRollback`, `MergeDone` | the steps of `finalize_merge_async` and its rollback |
| `DeleteToc`, `DeleteData`, `DeleteRest` | `delete_sstable_files_static` on one input |
| `Close`, `Kill`, `PowerLoss` | `close`; drop or kill; power loss |

Abstractions to know of:

- A merge's output is the union of its inputs. Shadowing, purging, inputs dropped whole,
  pausing and resuming are the subject of `TombstonePurge` and `StreamingMerge`.
- The flush threshold is not counted in bytes: a flush may start whenever the engine is
  idle and the memtable is not empty, which includes the moment after the write that
  crosses the threshold. `HardLimit` counts mutations.
- The directory lock is taken to do its work: one engine at a time.
- Component files of a generation fall into `Data.db`, `TOC.txt` and the rest.
- The rollback of a finalize removes what was renamed, `TOC.txt` last, and ignores every
  error: components and TOC may each stay (`ComponentsRemoved`, `TocRemoved`), so a
  rolled-back output may be published, torn, partial or gone.

### `DurableStore`

A store is up or down, has a set of `visible` mutations while up, a set `promised` that
no crash may lose, and a set ever `attempted`. Opening finds everything promised and
nothing that was never attempted. `WriteEngine` implements it with `visible` mapped to
the memtable together with the published SSTables: flush and compaction are stutters or
`StoreFlush`, and never change what a caller sees.

### `MergeProducer`

Rows of an input are numbered. Per merge: `phase`, the shared channel capacity `cap`, the
token `cancelled`, and `todo`, the inputs that the constructor, the current call or the
drop still has to go through. Per input: the producer's program counter and position, the
channel, the adapter (`rx`, `state`, `received`), the reader (`buffer`, `exhausted`), its
row in the heap (`head`) and the row `pull_one` holds while it refills (`held`).

| Action | Code |
| --- | --- |
| `begin_merge`, `open`, `open_spawn_fails` | `egress_budget::begin_merge`, `SSTableRowIteratorAdapter::open` |
| `decode_row`, `forward_row`, `count_sent`, `walk_ends`, `walk_cancelled`, `walk_fails` | the walk in `producer_thread` with `forward_row` |
| `send_terminator`, `die_silently`, `thread_exits` | the terminator, a panic in front of it, `ProducerThreadGuard` |
| `pull_one`, `initialize_heap`, `advance_buffered`, `advance_exhausted` | `StreamingMerger::pull_one`, `KWayMerger::initialize_heap`, `RunReader::advance` |
| `next_item`, `next_done`, `next_failed`, `next_disconnected`, `next_again` | `SSTableRowIteratorAdapter::next` by what it finds, a sticky verdict included |
| `cancel`, `drop_merger`, `drop_receiver`, `join_producer`, `drop_egress_slot` | the token and the steps of `Drop` |

Which head the heap yields depends on keys, so any may be; the order is `StreamingMerge`'s
subject. `BufferRows` stands for the 8 KB of the peek buffer.

### `Reconcile` and `TombstonePurge`

A row is a set of *facts*: a value (possibly with a TTL), or a deletion of a cell, of the
complex column, of the row, of a range around it, of the partition; each with a write
timestamp and a local deletion time. `Reconcile` translates the steps of
`reconcile_cluster_with_overlap_counted` and `merge_partition_rows` in their order, and
defines independently of them what a reader shows (`Visible`). Values are left out, so two
live facts of one cell have different timestamps; dropped columns (the filter of
`reconcile.rs:406-432`), static rows and row liveness markers are left out too. A row
deletion or the deletion of a simple cell whose local deletion time is 0 counts as unknown
and is never purged (`ldt_unknown`). Of the cells that expire, those of second 0 are outside
the model, whose clock starts at 1.

`TombstonePurge` has a memtable, a set of published SSTables with the `min_timestamp` their
`Statistics.db` carries, one merge, a clock, and the log of all facts written. `start_merge`
takes any choice of at least `MinThreshold` SSTables, computes the purge bound and the
fully expired ones exactly as the code does and keeps them while flushes go on. The
`Statistics.db` of an SSTable may be unreadable when it does (`Unread`): nothing is dropped
whole then, and if the SSTable is outside the merge nothing is purged either. `publish` adds
the output, with a `min_timestamp` taken from the inputs whose statistics it can read and from
the facts it writes; `delete_sstable_files` removes the inputs one at a time; `restart` forgets
the merge. Two switches stand for what the code does not defend against: `Backdated`
(a client's own, older timestamps) and `PurgeFaults` (an input of a merge that purged is
not deleted); see section 4.

### `StreamingMerge`

The inputs are sequences of entries in file order; a range tombstone stands where the
reader yields it. `cur` is the `StreamingMerger` together with the partition's state in the
drain loop, `stash` is `pending_partition`, `written` is what the writer got. Actions:
`begin_partition`, `pull_one` (absorb an entry, and finalize the cluster before it with
`finalize_current_cluster`, `reshadow_and_flush_awaiting`), `finish_partition`,
`cluster_group`, `partition_end`, `pause`, `resume`, `step_fails`, `merge_complete`. Rows
are facts of `Reconcile`. A partition wide enough is written while it is drained
(`stream_rows_directly`): when a call fails, the rows already fed stay in `Data.db` without
the end of their partition, otherwise they go with the call; `step_fails` may do either.
`AtEnd` is the checkpoint of a partition whose entries have all been
pulled: its last cluster final, the rows that waited shadowed and released (`Survivors`), the
range tombstones flushed; if that leaves groups the end of the partition is put off, otherwise
the partition is written.

`MergesAssumption` says what the inputs of a merge are: each file is sorted by partition and
clustering key, a partition deletion stands in front of its partition, a range tombstone behind
the rows up to its end bound and in front of the later ones (`FileOrder`), and a cell has one
value per timestamp, as values are left out. `Merges` may be any set of such merges, so the
theorems are about any number of files of any length. `TimelyMerges` excludes the circumstances
of finding 2; the inputs of the run `streaming_merge` satisfy it, late range tombstones in merges
that do not purge included.

### `Refresh`

An SSTable's files are `none`, `writing` (a flush in place), `partial` (`Data.db` of a
compaction's output is there, another component of it not), `complete` (all but the TOC),
`published` or `unpublished` (TOC gone, `Data.db` not); its contents are the set of flushes
merged into it. The engine's steps are `flush_data`, `flush_toc`, `merge_start`, then the
renames of `finalize_merge_async` in their order, `merge_rename_data`, `merge_rename_rest`,
`merge_toc`, `merge_sync_toc`, `merge_rollback` from any of them, and `delete_toc`,
`delete_data`, `delete_data_fails`. A merge that fails before its first rename leaves nothing
a reader could find and is one that never started. A reader task lists one directory entry at
a time (`next_entry`), takes the `diff`, opens what is new (`open_reader`), and fails closed
(`refresh_fails`) or swaps (`refresh_swap`); the first load skips what does not open
(`skip_unreadable`). Generations are not used again here.

`Opens` says what a reader opened now sees for good: all rows of a generation whose
components are there, with or without TOC, and any part of the rows of one that is still
written, renamed or deleted, because `SSTableReader::open` requires neither `Statistics.db`
nor `CompressionInfo.db`. The engine is not restrained in any way. What the code cannot
promise is said in the properties: `Behind`, the writes of SSTables whose reader was opened
too early, and `quiet`, that no input was deleted during the latest listing.

## 3. Runs

The instances of the log and the engine use two ordinary mutations (interchangeable, hence
the symmetry set) and, where it matters, one
that is special: oversized for `Wal`, without a valid key for `WriteEngine`.

| Run | Expectation | What it shows |
| --- | --- | --- |
| `wal_faults` | pass | with every fault but a half-done append, kills, power losses and one media corruption: `AckedRecoverable`, `EvidenceKept`, `LossReported` |
| `wal_rotate` | pass | with half-done appends and a rotation: the bytes of acknowledged entries are kept in log, preserved copy or archive (`EvidenceKept`, `ArchivedKept`) |
| `engine` | pass | every fault but a failed directory sync in a flush, a kill and a power loss at any step: `NoAckedLoss`, `DurableStore` is implemented, no published SSTable is rewritten (`PublishedImmutable`), a flush or finalize under way always has a next step (`OperationGoesOn`) |
| `engine_no_compaction` | pass | the same two with compaction off and the directory sync of a flush failing: the retry over the same generation loses nothing, because the log still has it |
| `engine_generation_reuse` | violation | finding 1 |
| `merge_producer` | pass | two inputs, every failure of a producer at every step: `CompleteIsWhole`, `CallReturns`, `TeardownEnds` |
| `merge_pair` | pass | two merges in any order: `CountersSettle`, `SoloUnthrottled` |
| `tombstone_purge` | pass | every kind of write, gc_grace passing, any choice of inputs, unreadable statistics, flushes during a merge: `NoResurrection` |
| `streaming_merge` | pass | every choice of rows, row deletions, range tombstones and a partition deletion in two runs, calls that stop anywhere and one that fails, with or without the rows it streamed: `MergedView`, `RowsInOrder`, `Completes` |
| `streaming_late_range` | violation | finding 2 |
| `refresh` | pass | two callers against flushes and a compaction whose renames, rollback and deletions may fall anywhere into a listing: `RefreshShows`, `NeverForgets`, `DropsOnlyDeleted`, `RefreshReturns` |
| `refresh_unpublished` | violation | finding 3 |

**Bounds.** `MaxLen` = 2 segments in the log (3 after a power loss that leaves a torn
one): enough for an acknowledged entry in front of, and behind, a bad segment, which is
where every verdict of the reader changes; the theorem of section 5 has no such bound.
`MaxRot` = 1: a second corruption adds nothing that one in each position does not show.
`MaxGen` = 3: two flushed inputs and one merge output, or a merge interleaved with one
flush. `MinThreshold` = 2 is the smallest merge; 9 means compaction off. `HardLimit` = 2
lets both mutations sit in one memtable and refuses a third. `MaxKills` = 1 and
`MaxPowerLosses` = 1 allow a crash, a recovery, and a second crash in the middle of what
follows; `engine` has 1.1 million distinct states with them, `engine_no_compaction` half a
million. One rotation and one tick are enough for `ArchivedKept`.

`MergeProducer`: two inputs of 2 and 1 rows behind channels of one row, so that a producer
blocks, and a buffer of two, so that a refill takes several messages; the pair has a budget
of two that two merges have to share. `TombstonePurge`: three writes, three SSTables, a
clock of three values with a gc_grace of 0 and a TTL of 2 are enough for a value, its
deletion and a third fact that is outside the merge, older or newer, with the deletion
past gc_grace or not; both a simple column and an element of a complex one. The theorem of
section 5 has no such bound. `StreamingMerge`: three clustering rows let a range begin
before, at and behind a row of the other run; the second partition makes the state of the
first one end. `Refresh`: three generations are two flushes and their merge; two callers
are what the refresh lock is about.

**Deadlock** is checked in `MergeProducer`, `StreamingMerge` and `Refresh`. It is not in
`Wal`, `WriteEngine` and `TombstonePurge`: a log or an engine may sit idle for ever, and the
bounds end every behaviour.

**Fairness.** `MergeProducer`: a producer thread runs (weakly fair), and so does a thread that is inside a
constructor, a call or a drop; nothing makes a caller call, cancel or drop. `StreamingMerge`:
`maintenance_step` is called again and again and each call runs; a call may pause whenever
the code lets it. `Refresh`: a task that is in a call is scheduled, and taking the refresh
lock is strongly fair because tokio's `Mutex` is fair: it serves its waiters in order. The
engine's runs assume no fairness: `OperationGoesOn` is an invariant, and since no step of a
flush or a finalize leads back and the inputs it goes through are finitely many, an operation
that is scheduled ends. `FairSpec` of `WriteEngine`, a caller that retries a failed open, is
there for `WriteEngine_poison_entry.cfg` only.

## 4. Findings

Where TLC finds a statement of the repository violated by what the code does. These three
are runs; `PROJECT.json` quotes the statements.

1. **A merge can reuse a published generation** (`compaction.rs`, `start_merge`). A flush
   that fails to sync its directory leaves its SSTable published and the generation where
   it was. A merge that runs before the retry takes that SSTable as an input and its
   generation as the output, and deleting the inputs deletes the output.
2. **A late range tombstone misses rows that have gone out** (`merge/streaming.rs`,
   `finalize_current_cluster`). While a partition has shown no range tombstone its rows go
   out at once, but a range tombstone is yielded only at its end bound, after the rows of its
   own file that it covers. An older row of another input in front of those is written
   unshadowed. While the tombstone stays in the output that is harmless; once it is purged
   under gc_grace at the end of the partition, the deleted row is back.
3. **Readers do not wait for `TOC.txt`** (`sstable/mod.rs`, `find_data_files`). The comments
   in `maintenance.rs` and `compaction.rs` say that the read path takes a `Data.db` without a
   TOC as unpublished. It lists every `-Data.db` and opens it with the components it finds, so
   a refresh in the middle of a flush, or of a compaction's renames (`Data.db` first), gets a
   reader without statistics or compression information, and keeps it when the SSTable is
   published, because unchanged generations keep their reader.

The passing runs leave out the circumstances of the first two and of the following deviations,
each by a switch or a fault of the model; `refresh` leaves nothing out and names the exceptions
in its properties. A configuration for each is kept beside the runs; TLC
finds the property named violated.

| Configuration (module) | Property | What happens |
| --- | --- | --- |
| `TombstonePurge_undeleted.cfg` (`MCTombstonePurge`) | `NoResurrection` | the inputs of a merge that purged are deleted one by one and a failed deletion is only logged; if the one with the deletion goes and the one with the value stays (failure, kill), the value is back, where `compaction.rs` says of such a failure that "the merge output is correct" |
| `TombstonePurge_backdated.cfg` (`MCTombstonePurge`) | `NoResurrection` | the purge bound looks at SSTables only: a write with an older `USING TIMESTAMP` in the memtable, or flushed during the merge, loses the deletion that covers it |
| `StreamingMerge_error.cfg` (`MCStreamingMerge`) | `MergedViewDespiteErrors` | the paused partition is taken out of the merge before it is drained; after an error the merge stays active without it and can be published |
| `Refresh_overlap.cfg` (`MCRefresh`) | `NeverForgetsOverlapped` | a listing that passes a compaction's output before it exists and its inputs after they are gone shows neither, where `refresh.rs` promises no partial view |
| `Wal_append_fault.cfg` (`MCWal`) | `AckedRecoverable` | `append` writes header and payload in several `write_all` calls; when one fails the fragment stays, the handle stays usable, and entries synced behind it are never replayed |
| `Wal_loss_surfaced.cfg` (`MCWal`) | `LossSurfaced` | `reset_to_valid_prefix` cuts the log before an fsync that may fail; the failing open drops its report and the next one finds a clean log |
| `Wal_rotate_same_second.cfg` (`MCWal`) | `ArchivedKept` | two rotations in one second take the same archive name |
| `WriteEngine_toc_before_sync.cfg` (`MCWriteEngine`) | `PublishedComplete` | a flush syncs the directory only behind the TOC; a power loss in between may keep the TOC's entry and lose a component's |
| `WriteEngine_orphans.cfg` (`MCWriteEngine`) | `OrphansReclaimed` | deletion removes `Data.db` right behind `TOC.txt`, and the startup sweep looks for `Data.db` files |
| `WriteEngine_poison_entry.cfg` (`MCWriteEngine`) | `EventuallyOpens` | a mutation is logged before its key is computed; one whose key does not serialize fails every later open |

Seen while modelling and not given a configuration of their own: the module comment of
`wal.rs` says corrupted entries are skipped and valid ones returned, while `replay_each`
stops at the first CRC mismatch; `delete_sstable_files_static` goes on to the data components
when `TOC.txt` could not be removed (fault `toc_delete`, which leaves a `torn` generation);
and a flush retried after a failed directory sync rewrites components under a visible TOC
(fault `flush_dirsync`). The model contains all three behaviours. With either of the two
faults enabled, after a power loss between TOC and directory sync, or after a failed sync of a
merge, whose rollback removes components before the TOC, `PublishedComplete` (`finish.rs:280`)
does not hold. No passing run claims it; `engine` and `engine_no_compaction` show with these
faults that nothing promised is lost by them.

## 5. Proofs

The proofs are checked by TLAPS without any unproved statement. They assume of the
constants what the `ASSUME`s of the modules say (the bounds are natural numbers, the sets
are related as named) and nothing about their size.

| Theorem | Statement |
| --- | --- |
| `WalTypeCorrect` | `Spec => []TypeOK` |
| `AckedNeverLost` | `"append" \notin Faults => (Spec => []AckedRecoverable)` |
| `AckedBytesKept` | `Spec => []EvidenceKept`, with every fault |
| `LossIsReported` | `Spec => LossReported`, with every fault |
| `RotatedEntriesKept` | `Spec /\ DistinctSeconds => []ArchivedKept` |
| `EngineTypeCorrect` | `Spec => []TypeOK` |
| `NothingPromisedIsLost` | without `flush_dirsync`, `Spec => []NoAckedLoss` |
| `PublishedNeverRewritten` | without `flush_dirsync`, `Spec => PublishedImmutable` |
| `EngineImplementsStore` | without `flush_dirsync`, `Spec => ImplementsStore` |
| `MergeKeepsView` | for all sets of facts `F` and `O`: `merge_partition_rows(F, g)` next to `O` shows what `F` next to `O` shows, at every later time, if the values in `O` are guarded |
| `PurgeTypeCorrect` | without `Backdated` and `PurgeFaults`, `Spec => []TypeOK` |
| `DeletedStaysDeleted` | without `Backdated` and `PurgeFaults`, `Spec => []NoResurrection` |
| `MergeProducerTypeCorrect` | `Spec => []TypeOK` |
| `CompleteMergeIsWhole` | `Spec => []CompleteIsWhole` |
| `ProcessCountersSettle` | `Spec => []CountersSettle` |
| `SoloMergeUnthrottled` | `Spec => SoloUnthrottled` |
| `StreamingTypeCorrect` | `Spec => []TypeOK` |
| `RowsComeInOrder` | `Spec => []RowsInOrder` |
| `MergedShowsInputs` | if no merge that purges has a late range tombstone (`TimelyMerges`), `Spec => []MergedView` |
| `RefreshTypeCorrect` | `Spec => []TypeOK` |
| `RefreshShowsPublished` | `Spec => []RefreshShows` |
| `RefreshNeverForgets` | `Spec => NeverForgets` |
| `RefreshDropsOnlyDeleted` | `Spec => DropsOnlyDeleted` |

What a theorem excludes is what section 4 shows the property to be false under. The engine
theorems hold for both durability modes, for every threshold and limit, and with all other
faults enabled together.

**`AckedNeverLost`.** What a power loss leaves is either `disk` or the file cut behind its
stable part, so `AckedRecoverable`, which speaks of `disk` alone, is not inductive. The
invariant adds: the stable part of the file already holds what was acknowledged
(`StableHoldsAcked`); a handle that admits an append has a log that replay walks to its
end, so that the next entry will be reached (`AppendableIsFramed`); while the corrupt-tail
guard is up nothing is buffered and the remembered boundary is the end of the framed
prefix, so that the cut loses nothing (`GuardMarksPrefix`); a poisoned or closed handle
holds nothing back (`PoisonedIsEmpty`, `ClosedIsEmpty`). The lemmas under it say what a
prefix, a cut and an appended entry do to `Recovered`, and where `ValidEnd` is.

**`AckedBytesKept`, `LossIsReported`, `RotatedEntriesKept`.** With half-done appends an entry
may no longer be replayed, but its bytes are not lost. The invariant follows the bytes from the
buffer (`AppendedKept`) to the stable part of the file (`StableKeepsBytes`) and through the
recovery, which cuts the log only when it was copied aside (`PreservedHolds`); unlike the
invariant above it says nothing about framing, so no fault disturbs it. A clean report means
that the reader came to the end of the log without a bad segment, hence that every mutation
whose bytes are in the log was handed back. The archives keep what was rotated as long as no
two rotations share a second (`DistinctSeconds`, an assumption on the behaviour).

**`NothingPromisedIsLost`.** The log may be truncated because everything promised is in
the memtable or safely stored (`MemtableCovers`), and the SSTable just flushed holds the
memtable and is durable by then (`FlushCarries`). An input may be deleted because the
merge's output is durable and holds what it held, and because no flush and no other merge
touches that generation (`MergeIsolated`, `FreshGeneration`). `OnlyAttempted` (nothing is
held that no caller wrote) is there for the refinement. One lemma per conjunct shows that
a step keeps it, over shared lemmas on which generations a step can touch
(`PublishedKept`, `StoredKept`, `MergeTouches`).

**`EngineImplementsStore`** uses the same invariant: a step of a flush or of a finalize
leaves `visible` unchanged because the SSTable that appears holds the memtable or the
inputs, and those that go are contained in the output.

**`MergeKeepsView`.** One direction follows the steps of the merge: a value that is visible
before survives each of them, and what the merge adds (an expired value as a deletion) hides
nothing because a cell has one value per timestamp. The other needs that whatever shadows a
value outside the merge leaves a shadow in the output (`ShadowKept`): of the deletions that
reach the value take the newest of the widest kind; it is not purged because the value is
*guarded* (purging is off, or the value is not older than the purge bound, or it is newer than
all inputs), and nothing wider removes it.

**`DeletedStaysDeleted`.** The invariant says that what remains after the merge has deleted its
inputs shows what was written, *now and at every later time* (a view at the present alone is
not inductive, because values expire), also next to any inputs left behind by a merge that
purged nothing (`ViewKept`); that the bounds taken at the start still guard everything around
the merge (`BoundsHold`; trivially so if the statistics of one of those SSTables could not be read, since
nothing is purged then), which holds of facts written or flushed since because they are newer
than all inputs (`MemNewest`, `LogOrder`); that `min_timestamp` bounds an SSTable from below
(`MinTimestamps`); and that a stored value is one that was written (`StoredFacts`).

**`CompleteMergeIsWhole`.** The invariant of a merge says of every input where its rows are: what
the producer has sent, what is in the channel and what the adapter has received are consecutive
rows from the first on, a terminator is the last message and says *done* only behind the last
row (`ProducerInv`); what the reader has taken, what waits in its buffer, in the heap and in the
hands of `pull_one` are the rows received (`ReaderInv`); and a merge is complete only when every
input is drained (`MergeInv`). A producer that panics, is cancelled or dies silently leaves the
adapter in a state other than *done*, so the merge cannot reach *complete* through it.

**`ProcessCountersSettle`, `SoloMergeUnthrottled`.** The counters are cardinalities of the sets
of merges registered and of producers running (`CountInv`), and the depth counter is what was
sent less what was received, summed over the channels that are not yet joined, which is stated
with sets of tokens (`DepthInv`): a sender counts a row after it sent it and the receiver may
count it first, so the counter may be negative for a while; the joiner corrects it by the
difference, and finally, because a joined producer has ended (`JoinInv`).

**`RowsComeInOrder`.** A checkpoint holds rows in three places: buffered for the writer, in
`pending`, in `awaiting`. The invariant says that each is ascending, that they follow one another
in this order, that the cluster under way and all entries ahead of the heap come behind them, and
that what is written of the partition comes before them (`Ordered`); that the heap has no entry
of an earlier partition (`InFront`); and that at most one checkpoint exists, since a call takes
`pending_partition` over and leaves nothing behind. It is stated of the positions of the runs, so
that a failed call, which drops a checkpoint, keeps it, whether the rows it streamed stay or not.

**`MergedShowsInputs`.** Of the partition in flight, with the entries `B` behind the heads and
`A` ahead (`Core`): the deletions collected are those of `B`; of every row of `B` that is final,
what is kept is a part of what reconciling it leaves and contains all of it that no deletion of
`B` shadows; what has gone out was not shadowed by a deletion that may be purged; the deletions
written are the ones collected. A row goes out before all range tombstones are seen, so this
cannot be strengthened to equality. It is enough at the end: a fact that went out in front of a
tombstone is hidden by the tombstone in the output if that is written, and if it may be purged,
the tombstone was not late. `NotLate` shows that: when a range tombstone is at the top of the heap
the row under way is one of its own file (`HeadCarriers`), so a row that went out and that it
covers makes the input `Late`. Every other partition is untouched or written and shows its inputs
(`Settled`). That reconciling row by row shows what reconciling all facts shows is taken from
`MergeKeepsView`.

**`RefreshShowsPublished`, `RefreshNeverForgets`, `RefreshDropsOnlyDeleted`.** A reader is sound
if it shows no more than its generation holds, and that is published or still being flushed; it
shows all of it or its generation is in `Behind`. During a call whose listing stays quiet, every
write that was published before it, and every write visible then, is in a generation that is
listed already, or in one still to be listed that only the deletion of an input could remove
(`Found`, `Firm`: an output whose TOC is not durable is not firm, but its inputs are). What has a
`Data.db` and no TOC is published elsewhere unless a flush is writing it, and the inputs of a
merge stay until its output is durable (`WriterInv`); and one call at a time changes the readers
(`LockInv`).

Only model-checked: the liveness properties `TeardownEnds`, `CallReturns`, `Completes` and
`RefreshReturns` and the invariant `OperationGoesOn` (liveness under fairness and `ENABLED` are out
of the prover's reach), and `engine_no_compaction`, which allows `flush_dirsync`: the theorems on the engine
exclude that fault, because with compaction it loses data (finding 1).

## 6. Plan

1. Proofs: `NothingPromisedIsLost` with `flush_dirsync` and compaction off.
2. The key-offset cache: that nested LRUs with stamps implement one LRU under one budget, and
   that invalidation racing with lookups leaves no byte uncounted.
3. `MergePolicy`: the size buckets, against the definition of a bucket.
4. Publication by component, to cover the BTI format, whose `Partitions.db` and `Rows.db`
   take part in neither every rename nor every deletion.

## 7. Not modelled

Most of the repository's lines decode or encode a format, translate CQL, or are front ends
(section 1, *Left aside*): pure conversions of bytes, out of a model's reach in the sense that
a model of them would be the code again. The modules therefore stand for a small share of all
lines and for nearly all of the state machine of the write path.

Within it: values and their encoding; memory accounting in bytes; the length of time budgets
(a call may stop wherever the code lets it); the export of flushed SSTables; the directory
lock's own protocol; columns dropped from the schema, static rows and row liveness in
`Reconcile`; scans that run over a set of readers while it is swapped (they hold clones).
Behaviour of `fsync` beyond "what was synced survives": a file system that reports success and
loses data is outside the model.
