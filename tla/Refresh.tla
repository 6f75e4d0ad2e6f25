------------------------------- MODULE Refresh -------------------------------
(***************************************************************************)
(* The reader side of a data directory that a write engine changes at the  *)
(* same time: SSTableManager::load_existing_sstables and refresh_tables    *)
(* (sstable/mod.rs, sstable/refresh.rs).  The manager lists Data.db files  *)
(* and keeps one reader per generation; nothing locks the directory.  What *)
(* an SSTable holds is a set of writes, each named by the generation that  *)
(* flushed it.                                                             *)
(***************************************************************************)
EXTENDS Naturals, FiniteSets

CONSTANTS
    Gens,       \* 1 .. n, generations are not used again
    Tasks       \* callers of refresh_tables on one handle

ASSUME RefreshAssumption ==
    /\ Gens = 1 .. Cardinality(Gens) /\ IsFiniteSet(Gens)
    /\ 0 \notin Tasks

VARIABLES
    disk,       \* of each generation: the state of its files
    rows,       \* of each generation: the writes it holds
    next,       \* WriteEngine::generation
    merge,      \* the compaction under way
    ready,      \* the handle is open
    lock,       \* SSTableManager::refresh_lock
    task,       \* of each task: where it is in its call
    held,       \* readers: the generation and what its reader can see
    quiet,      \* history: no input was deleted during the latest listing
    promised    \* history: the writes published before a refresh that succeeded

vars == <<disk, rows, next, merge, ready, lock, task, held, quiet, promised>>
writer == <<disk, rows, next, merge>>

(* none         there is no Data.db                                         *)
(* writing      a flush writes Data.db, then the other components, in place *)
(* partial      Data.db of a compaction's output is there, a component that *)
(*              belongs to it (Statistics.db, CompressionInfo.db ...) not   *)
(* complete     all components are there but TOC.txt                        *)
(* published    TOC.txt too                                                 *)
(* unpublished  TOC.txt is deleted, Data.db not yet or not at all           *)
DiskStates == {"none", "writing", "partial", "complete", "published", "unpublished"}

Published == UNION {rows[g] : g \in {x \in Gens : disk[x] = "published"}}
View == UNION {h.rows : h \in held}

(* The writes of SSTables whose reader does not see all of them.            *)
Behind == UNION {rows[h.gen] : h \in {x \in held : x.rows # rows[x.gen]}}

GensOf(readers) == {h.gen : h \in readers}

NoMerge == [phase |-> "none", inputs |-> {}, out |-> 0]
NoTask == 0
Idle == [pc |-> "idle", before |-> {}, unread |-> {}, listed |-> {},
         added |-> {}, opened |-> {}]

Init ==
    /\ disk = [g \in Gens |-> "none"]
    /\ rows = [g \in Gens |-> {}]
    /\ next = 1 /\ merge = NoMerge
    /\ ready = FALSE /\ lock = NoTask
    /\ task = [t \in Tasks |-> Idle]
    /\ held = {} /\ quiet = TRUE /\ promised = {}

(***************************************************************************)
(* The write engine, another process or another handle of this one.        *)
(***************************************************************************)
readers == <<ready, lock, task, held, promised>>
UnchangedReaders == UNCHANGED <<readers, quiet>>

flush_data ==
    /\ next \in Gens
    /\ disk' = [disk EXCEPT ![next] = "writing"]
    /\ rows' = [rows EXCEPT ![next] = {next}]
    /\ next' = next + 1
    /\ UNCHANGED merge /\ UnchangedReaders

flush_toc(g) ==
    /\ disk[g] = "writing"
    /\ disk' = [disk EXCEPT ![g] = "published"]
    /\ UNCHANGED <<rows, next, merge>> /\ UnchangedReaders

merge_start(inputs) ==
    /\ merge.phase = "none" /\ next \in Gens
    /\ Cardinality(inputs) = 2 /\ \A g \in inputs : disk[g] = "published"
    /\ merge' = [phase |-> "running", inputs |-> inputs, out |-> next]
    /\ next' = next + 1
    /\ UNCHANGED <<disk, rows>> /\ UnchangedReaders

(* finalize_merge_async renames the components one after the other, Data.db *)
(* first ...                                                                *)
merge_rename_data ==
    /\ merge.phase = "running"
    /\ disk' = [disk EXCEPT ![merge.out] = "partial"]
    /\ rows' = [rows EXCEPT ![merge.out] = UNION {rows[g] : g \in merge.inputs}]
    /\ merge' = [merge EXCEPT !.phase = "renaming"]
    /\ UNCHANGED next /\ UnchangedReaders

merge_rename_rest ==
    /\ merge.phase = "renaming"
    /\ disk' = [disk EXCEPT ![merge.out] = "complete"]
    /\ merge' = [merge EXCEPT !.phase = "renamed"]
    /\ UNCHANGED <<rows, next>> /\ UnchangedReaders

(* ... and TOC.txt last; no input goes before TOC.txt is durable.           *)
merge_toc ==
    /\ merge.phase = "renamed"
    /\ disk' = [disk EXCEPT ![merge.out] = "published"]
    /\ merge' = [merge EXCEPT !.phase = "toc"]
    /\ UNCHANGED <<rows, next>> /\ UnchangedReaders

merge_sync_toc ==
    /\ merge.phase = "toc"
    /\ merge' = [merge EXCEPT !.phase = "deleting"]
    /\ UNCHANGED <<disk, rows, next>> /\ UnchangedReaders

(* The rollback removes what was renamed, Data.db first, and ignores every  *)
(* error: any of the files may stay.                                        *)
merge_rollback ==
    /\ merge.phase \in {"renaming", "renamed", "toc"}
    /\ \E left \in {"none", "partial", disk[merge.out]} :
          disk' = [disk EXCEPT ![merge.out] = left]
    /\ merge' = NoMerge
    /\ UNCHANGED <<rows, next>> /\ UnchangedReaders

(* delete_sstable_files: TOC.txt, then Data.db, whose removal may fail, and *)
(* then the rest whether it failed or not.                                  *)
delete_toc(g) ==
    /\ merge.phase = "deleting" /\ g \in merge.inputs
    /\ disk[g] = "published"
    /\ \A x \in merge.inputs : disk[x] # "unpublished"
    /\ disk' = [disk EXCEPT ![g] = "unpublished"]
    /\ UNCHANGED <<rows, next, merge>> /\ UnchangedReaders

input_done_kept(g) ==
    /\ merge.phase = "deleting" /\ g \in merge.inputs /\ disk[g] = "unpublished"
    /\ merge' = [merge EXCEPT !.inputs = @ \ {g}]
    /\ UNCHANGED <<rows, next, readers>>

input_done(g) ==
    /\ merge.phase = "deleting" /\ g \in merge.inputs /\ disk[g] = "unpublished"
    /\ merge' = IF merge.inputs = {g} THEN NoMerge
                ELSE [merge EXCEPT !.inputs = @ \ {g}]
    /\ UNCHANGED <<rows, next, readers>>

delete_data(g) ==
    /\ input_done(g)
    /\ disk' = [disk EXCEPT ![g] = "none"]
    /\ quiet' = (quiet /\ \A t \in Tasks : task[t].pc # "list")

delete_data_fails(g) == input_done(g) /\ UNCHANGED <<disk, quiet>>

(***************************************************************************)
(* Discovery: find_data_files looks at one directory entry after the       *)
(* other, in no order, for the suffix -Data.db.                            *)
(***************************************************************************)
Set(t, fields) == task' = [task EXCEPT ![t] = fields]

begin_listing(t, before) ==
    /\ Set(t, [Idle EXCEPT !.pc = "list", !.before = before, !.unread = Gens])
    /\ quiet' = TRUE

next_entry(t, g) ==
    /\ task[t].pc = "list" /\ g \in task[t].unread
    /\ Set(t, [task[t] EXCEPT
                  !.unread = @ \ {g},
                  !.listed = IF disk[g] = "none" THEN @ ELSE @ \cup {g}])
    /\ UNCHANGED <<writer, ready, lock, held, quiet, promised>>

(* The end of the listing; the generations that are not held are opened.    *)
diff(t) ==
    /\ task[t].pc = "list" /\ task[t].unread = {}
    /\ Set(t, [task[t] EXCEPT !.pc = "open", !.added = task[t].listed \ GensOf(held)])
    /\ UNCHANGED <<writer, ready, lock, held, quiet, promised>>

(* SSTableReader::open takes what is there: it wants no TOC.txt, and of the *)
(* other components none is required.  A Data.db that is still written, or  *)
(* whose components are not there yet or not any more, may open and yield   *)
(* any part of its rows: the reader is without the schema, or takes         *)
(* compressed chunks for plain rows.                                        *)
Opens(g) ==
    CASE disk[g] \in {"published", "complete"}             -> {rows[g]}
      [] disk[g] \in {"writing", "partial", "unpublished"} -> SUBSET rows[g]
      [] disk[g] = "none"                                  -> {}

MayNotOpen(g) == disk[g] # "published"

open_reader(t, g) ==
    /\ task[t].pc = "open" /\ g \in task[t].added
    /\ \E seen \in Opens(g) :
          Set(t, [task[t] EXCEPT !.added = @ \ {g},
                                 !.opened = @ \cup {[gen |-> g, rows |-> seen]}])
    /\ UNCHANGED <<writer, ready, lock, held, quiet, promised>>

(***************************************************************************)
(* load_existing_sstables: what does not open is skipped.                  *)
(***************************************************************************)
load_begin(t) ==
    /\ ~ready /\ \A u \in Tasks : task[u] = Idle
    /\ begin_listing(t, {})
    /\ UNCHANGED <<writer, ready, lock, held, promised>>

skip_unreadable(t, g) ==
    /\ ~ready /\ task[t].pc = "open" /\ g \in task[t].added /\ MayNotOpen(g)
    /\ Set(t, [task[t] EXCEPT !.added = @ \ {g}])
    /\ UNCHANGED <<writer, ready, lock, held, quiet, promised>>

load_end(t) ==
    /\ ~ready /\ task[t].pc = "open" /\ task[t].added = {}
    /\ ready' = TRUE /\ held' = task[t].opened
    /\ Set(t, Idle)
    /\ UNCHANGED <<writer, lock, quiet, promised>>

(***************************************************************************)
(* refresh_tables.                                                         *)
(***************************************************************************)
refresh_call(t) ==
    /\ ready /\ task[t].pc = "idle"
    /\ Set(t, [Idle EXCEPT !.pc = "wait"])
    /\ UNCHANGED <<writer, ready, lock, held, quiet, promised>>

refresh_begin_unlocked(t) ==
    /\ task[t].pc = "wait"
    /\ lock' = t
    /\ begin_listing(t, Published)
    /\ UNCHANGED <<writer, ready, held, promised>>

refresh_begin(t) ==
    /\ task[t].pc = "wait" /\ lock = NoTask
    /\ lock' = t
    /\ begin_listing(t, Published)
    /\ UNCHANGED <<writer, ready, held, promised>>

refresh_fails_skips(t, g) ==
    /\ ready /\ task[t].pc = "open" /\ g \in task[t].added /\ MayNotOpen(g)
    /\ Set(t, [task[t] EXCEPT !.added = @ \ {g}])
    /\ UNCHANGED <<writer, ready, lock, held, quiet, promised>>

refresh_fails_locked(t, g) ==
    /\ ready /\ task[t].pc = "open" /\ g \in task[t].added /\ MayNotOpen(g)
    /\ Set(t, Idle)
    /\ UNCHANGED <<writer, ready, lock, held, quiet, promised>>

(* The first error ends the refresh.                                        *)
refresh_fails(t, g) ==
    /\ ready /\ task[t].pc = "open" /\ g \in task[t].added /\ MayNotOpen(g)
    /\ Set(t, Idle) /\ lock' = NoTask
    /\ UNCHANGED <<writer, ready, held, quiet, promised>>

(* The swap under the write guards.                                         *)
refresh_swap(t) ==
    LET kept == {h \in held : h.gen \in task[t].listed}
    IN  /\ ready /\ task[t].pc = "open" /\ task[t].added = {}
        /\ held' = kept \cup {o \in task[t].opened : o.gen \notin GensOf(kept)}
        /\ promised' = IF quiet THEN promised \cup task[t].before ELSE {}
        /\ Set(t, Idle) /\ lock' = NoTask
        /\ UNCHANGED <<writer, ready, quiet>>

Writes ==
    \/ flush_data
    \/ merge_rename_data \/ merge_rename_rest \/ merge_toc \/ merge_sync_toc
    \/ merge_rollback
    \/ \E g \in Gens :
          flush_toc(g) \/ delete_toc(g) \/ delete_data(g) \/ delete_data_fails(g)
    \/ \E inputs \in SUBSET Gens : merge_start(inputs)

Step(t) ==
    \/ diff(t) \/ load_end(t) \/ refresh_swap(t)
    \/ \E g \in Gens :
          next_entry(t, g) \/ open_reader(t, g) \/ skip_unreadable(t, g)
              \/ refresh_fails(t, g)

Next ==
    \/ Writes
    \/ \E t \in Tasks : load_begin(t) \/ refresh_call(t) \/ refresh_begin(t) \/ Step(t)

(* A call that runs is scheduled; tokio's Mutex serves its waiters in the   *)
(* order they came, so none is passed over for ever.                        *)
Spec ==
    /\ Init /\ [][Next]_vars
    /\ \A t \in Tasks : WF_vars(Step(t)) /\ SF_vars(refresh_begin(t))

(***************************************************************************)
(* Properties.                                                             *)
(***************************************************************************)
TypeOK ==
    /\ disk \in [Gens -> DiskStates]
    /\ rows \in [Gens -> SUBSET Gens]
    /\ next \in 1 .. Cardinality(Gens) + 1
    /\ lock \in Tasks \cup {NoTask}
    /\ merge.phase \in {"none", "running", "renaming", "renamed", "toc", "deleting"}
    /\ merge.phase = "none" <=> merge.inputs = {}
    /\ \A t \in Tasks : task[t].pc \in {"idle", "wait", "list", "open"}
    /\ held \subseteq [gen : Gens, rows : SUBSET Gens]
    /\ quiet \in BOOLEAN

(* Every write that was published before a successful refresh began is      *)
(* visible from then on, whatever flushes, compactions, rollbacks and other *)
(* refreshes did while it listed and opened files.  Two things are beyond   *)
(* what the code does, and are said here: a reader that was opened before   *)
(* its SSTable was complete may hide what the SSTable holds, and a refresh  *)
(* during whose listing an input was deleted promises nothing.              *)
RefreshShows == promised \subseteq View \cup Behind

(* No step takes a visible write away, with the same two exceptions: a      *)
(* refresh that lags behind another one or behind a compaction never        *)
(* narrows what queries see.                                                *)
NeverForgets == [][ready /\ quiet => View \subseteq View' \cup Behind']_vars

(* Without exception: a generation is dropped only when its Data.db is gone *)
(* for good.  refresh.rs: "a stale discovery set can never remove a         *)
(* generation a concurrent refresh just added".                             *)
DropsOnlyDeleted ==
    [][\A h \in held : h.gen \in GensOf(held') \/ disk[h.gen] = "none"]_vars

(* maintenance.rs: "both the read path (SSTableManager) and the compaction  *)
(* candidate scan [...] treat a Data.db without a sibling TOC.txt as        *)
(* unpublished": so no reader is opened before all components are there,    *)
(* and what a handle holds of a published SSTable is the whole of it.       *)
PublishedSeenWhole ==
    \A h \in held : disk[h.gen] = "published" => h.rows = rows[h.gen]

(* NeverForgets without its premise on the listing.                         *)
NeverForgetsOverlapped == [][ready => View \subseteq View' \cup Behind']_vars

(* Every refresh returns, with a report or with an error.                   *)
RefreshReturns ==
    \A t \in Tasks : (ready /\ task[t].pc # "idle") ~> (task[t].pc = "idle")

=============================================================================
