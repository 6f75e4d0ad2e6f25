---------------------------- MODULE WriteEngine ----------------------------
(***************************************************************************)
(* The write engine (write_engine/mod.rs) over its directories: writes go  *)
(* to the log and the memtable, a flush turns the memtable into an SSTable *)
(* and truncates the log, compaction replaces SSTables by their merge, and *)
(* opening recovers from whatever a kill or a power loss left behind.      *)
(*                                                                         *)
(* The log is seen here through what Wal establishes of it: the set of     *)
(* mutations replay hands back.  An SSTable is seen as the state of its    *)
(* files (below) and the set of mutations in them.  The engine takes       *)
(* `&mut self', so one operation runs at a time; `pc' says how far it got, *)
(* and a kill or a power loss may come between any two of its steps.       *)
(***************************************************************************)
EXTENDS Integers, FiniteSets

CONSTANTS
  Mutation,       \* the mutations a caller may write
  Unkeyable,      \* those whose partition key does not serialize for the schema
  SyncEachWrite,  \* Durability::SyncEachWrite (TRUE) or Durability::Disabled
  MinThreshold,   \* compaction_min_threshold
  HardLimit,      \* memtable_hard_limit, in mutations
  Faults,         \* which I/O failures the environment may inject
  MaxGen,         \* bound on generation numbers
  MaxKills,       \* bound on process kills
  MaxPowerLosses  \* bound on power losses

FaultKinds == {"walsync", "write", "flush_dirsync", "merge_dirsync", "truncate_before",
               "truncate_sync", "truncate_seek", "rename", "delete", "toc_delete", "sweep"}

ASSUME UnkeyableAssumption == Unkeyable \subseteq Mutation
ASSUME EngineModeAssumption == SyncEachWrite \in BOOLEAN /\ Faults \subseteq FaultKinds
ASSUME EngineBoundsAssumption ==
  /\ MinThreshold \in Nat /\ HardLimit \in Nat
  /\ MaxGen \in Nat /\ MaxKills \in Nat /\ MaxPowerLosses \in Nat

VARIABLES
  pc,          \* what the engine is in the middle of
  walFile,     \* what replaying the log file yields
  walDisk,     \* what replaying it yields after a power loss
  poisoned,    \* the log handle refuses to be used
  mem,         \* the memtable
  gen,         \* the next generation
  sst,         \* generation -> state of its files, as the process sees them
  survives,    \* generation -> states its files may have after a power loss
  data,        \* generation -> mutations in its data file
  merge,       \* the active merge, or NoMerge
  promised,    \* history: durability was promised for these
  attempted,   \* history: some write call was made with these
  kills, powerLosses

walVars == <<walFile, walDisk, poisoned>>
dirVars == <<sst, survives, data>>
histVars == <<promised, attempted>>
lossVars == <<kills, powerLosses>>
vars == <<pc, walVars, mem, gen, dirVars, merge, histVars, lossVars>>

-----------------------------------------------------------------------------
(* SSTables on disk.  TOC.txt is the publication barrier:                  *)
(*   absent     no file of the generation                                  *)
(*   leftover   component files, but neither Data.db nor TOC.txt           *)
(*   partial    Data.db and perhaps other components, no TOC.txt           *)
(*   published  TOC.txt and every component it names, complete             *)
(*   torn       TOC.txt, and a component missing or half rewritten         *)

Gens == 1 .. MaxGen
FileState == {"absent", "leftover", "partial", "published", "torn"}
HasToc(s) == s \in {"published", "torn"}

Published == {g \in Gens : sst[g] = "published"}
Stored == UNION {data[g] : g \in Published}

\* scan_data_files: a Data.db is a candidate when its TOC.txt exists.
Candidates == {g \in Gens : HasToc(sst[g])}

\* Off by one: the highest generation that has a file, never below 1.
HighestGeneration(states) ==
  CHOOSE n \in 0 .. MaxGen :
    /\ n = 0 \/ states[n] # "absent"
    /\ \A g \in Gens : g > n => states[g] = "absent"
ReusedGeneration(states) ==
  IF \A g \in Gens : states[g] = "absent" THEN 1 ELSE HighestGeneration(states)

\* determine_next_generation: one above the highest that has any file at all.
NextGeneration(states) ==
  1 + (CHOOSE n \in 0 .. MaxGen :
         /\ n = 0 \/ states[n] # "absent"
         /\ \A g \in Gens : g > n => states[g] = "absent")

NoMerge == [out |-> 0, inputs |-> {}]
Fault(f) == f \in Faults
Idle == pc = "idle"

\* New component files over what a generation had: an old TOC.txt stays ...
Rewritten(s) == IF HasToc(s) THEN "torn" ELSE "partial"
\* ... and until the directory is synced any part of the new entries may survive.
RewriteImages(s) == IF HasToc(s) THEN {"torn"} ELSE {s, "leftover", "partial"}

RewriteComponents(g, contents) ==
  /\ sst' = [sst EXCEPT ![g] = Rewritten(@)]
  /\ survives' = [survives EXCEPT ![g] = UNION {RewriteImages(s) : s \in @}]
  /\ data' = [data EXCEPT ![g] = contents]

\* A change of generation g's directory entries that no fsync has covered yet.
Unsynced(g, s, images) ==
  /\ sst' = [sst EXCEPT ![g] = s]
  /\ survives' = [survives EXCEPT ![g] = @ \cup {s} \cup images]

\* sync_directory on the table's directory: all its entries are durable.
DirSynced == [g \in Gens |-> {sst[g]}]

Init ==
  /\ pc = "down"
  /\ walFile = {} /\ walDisk = {} /\ poisoned = FALSE
  /\ mem = {} /\ gen = 1
  /\ sst = [g \in Gens |-> "absent"]
  /\ survives = [g \in Gens |-> {"absent"}]
  /\ data = [g \in Gens |-> {}]
  /\ merge = NoMerge
  /\ promised = {} /\ attempted = {}
  /\ kills = 0 /\ powerLosses = 0

-----------------------------------------------------------------------------
(* Opening. *)

\* sweep_startup_orphans: a Data.db without a TOC.txt goes, with its siblings, best
\* effort.  (sweep_orphaned_compaction_tmp removes files no other step looks at.)
Swept(kept) == [g \in Gens |-> IF sst[g] = "partial" /\ g \notin kept THEN "absent" ELSE sst[g]]

SweepStartupOrphans ==
  \E kept \in SUBSET {g \in Gens : sst[g] = "partial"} :
    /\ kept = {} \/ Fault("sweep")
    /\ sst' = Swept(kept)
    /\ survives' = [g \in Gens |-> IF sst'[g] = sst[g] THEN survives[g]
                                   ELSE survives[g] \cup {"absent", "leftover"}]

\* WriteEngine::new: sweep, replay the log into a memtable, pick the generation.
Open ==
  /\ pc = "down" /\ walFile \cap Unkeyable = {}
  /\ SweepStartupOrphans
  /\ gen' = NextGeneration(sst')
  /\ mem' = walFile
  /\ pc' = "idle"
  /\ UNCHANGED <<walVars, data, merge, histVars, lossVars>>

\* One entry that does not decorate to a key fails the whole open, after the sweep.
OpenFails ==
  /\ pc = "down" /\ walFile \cap Unkeyable # {}
  /\ SweepStartupOrphans
  /\ UNCHANGED <<pc, walVars, mem, gen, data, merge, histVars, lossVars>>

-----------------------------------------------------------------------------
(* Writing. *)

\* write_into_memtable up to the log: closed, admission, poisoned.
Admitted(m) ==
  /\ Idle
  /\ Cardinality(mem) < HardLimit
  /\ SyncEachWrite => ~poisoned

\* append and sync, then the memtable; a mutation without a key stops in between.
Logged(m) == IF SyncEachWrite THEN walFile \cup {m} ELSE walFile

Write(m) ==
  /\ Admitted(m)
  /\ attempted' = attempted \cup {m}
  /\ walFile' = Logged(m)
  /\ walDisk' = IF SyncEachWrite THEN walFile' ELSE walDisk
  /\ IF m \in Unkeyable
     THEN UNCHANGED <<mem, promised>>
     ELSE /\ mem' = mem \cup {m}
          /\ promised' = IF SyncEachWrite THEN promised \cup {m} ELSE promised
  /\ UNCHANGED <<pc, poisoned, gen, dirVars, merge, lossVars>>

\* The entry was appended but the sync failed: an error, and an entry in the log,
\* in its buffer or in its file.
WriteSyncFails(m) ==
  /\ Fault("walsync") /\ SyncEachWrite
  /\ Admitted(m)
  /\ attempted' = attempted \cup {m}
  /\ walFile' = Logged(m)
  /\ UNCHANGED <<pc, walDisk, poisoned, mem, gen, dirVars, merge, promised, lossVars>>

-----------------------------------------------------------------------------
(* Flushing: flush_internal_async. *)

Goto(to) == pc' = to /\ UNCHANGED <<walVars, mem, gen, merge, histVars, lossVars>>

\* A flush that clears the memtable before the SSTable is published.
FlushClearsFirst ==
  /\ Idle /\ mem # {} /\ gen \in Gens
  /\ RewriteComponents(gen, mem)
  /\ pc' = "flush_components" /\ mem' = {}
  /\ UNCHANGED <<walVars, gen, merge, histVars, lossVars>>

\* write_partition and SSTableWriter::finish up to the TOC, in place.
FlushComponents ==
  /\ Idle /\ mem # {} /\ gen \in Gens
  /\ RewriteComponents(gen, mem)
  /\ \/ Goto("flush_components")
     \/ Fault("write") /\ Goto("idle")

\* finish: TOC.txt goes last, and the directory is synced once, behind it.
FlushToc ==
  /\ pc = "flush_components"
  /\ Unsynced(gen, "published", {"torn"})
  /\ Goto("flush_toc")
  /\ UNCHANGED data

\* The table's directory may itself still be missing from its parent.
FlushSyncLeaf ==
  /\ pc = "flush_toc"
  /\ \/ /\ survives' = [DirSynced EXCEPT ![gen] = {"published", "absent"}]
        /\ Goto("flush_finished")
     \/ /\ Fault("flush_dirsync")
        /\ UNCHANGED survives
        /\ Goto("idle")
  /\ UNCHANGED <<sst, data>>

\* A flush that relies on the leaf directory's sync alone.
FlushSkipsChain ==
  /\ pc = "flush_finished"
  /\ Goto("flush_durable")
  /\ UNCHANGED dirVars

\* finalize_flush_durability, first half: the chain up to the data root.
FlushSyncChain ==
  /\ pc = "flush_finished"
  /\ \/ /\ survives' = DirSynced
        /\ Goto("flush_durable")
     \/ /\ Fault("flush_dirsync")
        /\ UNCHANGED survives
        /\ Goto("idle")
  /\ UNCHANGED <<sst, data>>

\* The outcomes of truncate_checked, skipped when the log is already empty: done,
\* failed before set_len(0), failed to sync behind it, failed to seek behind it.
WalTruncate ==
  \/ walFile = {} /\ UNCHANGED walVars
  \/ walFile # {} /\ walFile' = {} /\ walDisk' = {} /\ UNCHANGED poisoned
  \/ walFile # {} /\ Fault("truncate_before") /\ UNCHANGED walVars
  \/ walFile # {} /\ Fault("truncate_sync") /\ walFile' = {} /\ UNCHANGED <<walDisk, poisoned>>
  \/ walFile # {} /\ Fault("truncate_seek") /\ walFile' = {} /\ poisoned' = TRUE
       /\ walDisk' \in {{}, walDisk}

\* The flush is committed whatever became of the log: memtable and generation move
\* on.  The directory has been synced, so it is a promise for all that is visible.
FlushCommit ==
  /\ pc = "flush_durable"
  /\ WalTruncate
  /\ mem' = {}
  /\ gen' = gen + 1
  /\ promised' = promised \cup mem \cup Stored
  /\ pc' = "idle"
  /\ UNCHANGED <<dirVars, merge, attempted, lossVars>>

-----------------------------------------------------------------------------
(* Compaction: maintenance_step. *)

\* start_merge: the output takes the next generation.  A selection with a torn
\* SSTable in it fails to open and changes nothing.
StartMerge ==
  /\ Idle /\ merge = NoMerge
  /\ gen \in Gens
  /\ \E inputs \in SUBSET Candidates :
       /\ Cardinality(inputs) >= MinThreshold
       /\ inputs \subseteq Published
       /\ merge' = [out |-> gen, inputs |-> inputs]
  /\ gen' = gen + 1
  /\ UNCHANGED <<pc, walVars, mem, dirVars, histVars, lossVars>>

MergeData == UNION {data[g] : g \in merge.inputs}

\* finalize_merge_async takes the merge; an error anywhere drops it.
FinishMerge == pc' = "idle" /\ merge' = NoMerge
MergeFails == FinishMerge /\ UNCHANGED <<walVars, mem, gen, histVars, lossVars>>

\* The rollback closure: the renamed components are removed again, best effort.
RollBack(stay) ==
  \E s \in IF HasToc(sst[merge.out]) THEN {"torn"}
           ELSE {"absent"} \cup stay \cup IF Fault("delete") THEN {"partial", "leftover"} ELSE {} :
    /\ Unsynced(merge.out, s, {"leftover"})
    /\ MergeFails
    /\ UNCHANGED data

\* Step 1 finishes the output in its tmp directory; step 2a renames its non-TOC
\* components in, Data.db first.
MergeRename ==
  /\ Idle /\ merge # NoMerge
  /\ \/ RewriteComponents(merge.out, MergeData) /\ Goto("merge_renamed")
     \/ Fault("write") /\ MergeFails /\ UNCHANGED dirVars
     \/ Fault("rename") /\ RollBack({sst[merge.out]})

\* Step 2b: the component entries are durable before the TOC appears.
MergeSyncComponents ==
  /\ pc = "merge_renamed"
  /\ \/ survives' = DirSynced /\ Goto("merge_components_durable") /\ UNCHANGED <<sst, data>>
     \/ Fault("merge_dirsync") /\ RollBack({})

\* Step 2c: the TOC ...
MergeToc ==
  /\ pc = "merge_components_durable"
  /\ \/ Unsynced(merge.out, "published", {}) /\ Goto("merge_toc") /\ UNCHANGED data
     \/ Fault("rename") /\ RollBack({})

\* A finalize without the second directory sync.
MergeSkipsTocSync ==
  /\ pc = "merge_toc"
  /\ Goto("merge_published")
  /\ UNCHANGED dirVars

\* What removing the renamed components one by one leaves in front of TOC.txt; an
\* error of remove_file is ignored.
ComponentsRemoved == {"torn"} \cup IF Fault("delete") THEN {"published"} ELSE {}

\* ... whose entry is durable before an input goes.  A failure takes the output
\* back, components first and TOC.txt last.
MergeSyncToc ==
  /\ pc = "merge_toc"
  /\ \/ survives' = DirSynced /\ Goto("merge_published") /\ UNCHANGED sst
     \/ /\ Fault("merge_dirsync")
        /\ \E s \in ComponentsRemoved : Unsynced(merge.out, s, {"torn", "leftover", "absent"})
        /\ Goto("merge_rollback")
  /\ UNCHANGED data

\* What removing TOC.txt leaves: whatever components are still there, and TOC.txt
\* itself when it cannot be removed.
TocRemoved(s) ==
  (IF s = "published" THEN {"partial"}
   ELSE {"absent"} \cup IF Fault("delete") THEN {"partial", "leftover"} ELSE {})
  \cup IF Fault("toc_delete") THEN {s} ELSE {}

MergeRollback ==
  /\ pc = "merge_rollback"
  /\ \E s \in TocRemoved(sst[merge.out]) : Unsynced(merge.out, s, {"leftover"})
  /\ MergeFails
  /\ UNCHANGED data

\* Step 3, delete_sstable_files on one input after the other: TOC.txt, Data.db, the
\* rest.  Nothing syncs the directory behind it.
Deleting(g) == pc = "merge_published" /\ g \in merge.inputs
Deleted(g) == merge' = [merge EXCEPT !.inputs = @ \ {g}]
engineVars == <<pc, walVars, mem, gen, data, histVars, lossVars>>

DeleteToc(g) ==
  /\ Deleting(g)
  /\ merge.inputs \subseteq Candidates
  /\ \/ Unsynced(g, "partial", {}) /\ UNCHANGED merge
     \/ Fault("toc_delete") /\ Unsynced(g, "torn", {}) /\ Deleted(g)
  /\ UNCHANGED engineVars

\* A component that cannot be removed is left behind for the startup sweep.
DeleteData(g) ==
  /\ Deleting(g)
  /\ sst[g] = "partial"
  /\ \/ Unsynced(g, "leftover", {"torn"}) /\ UNCHANGED merge
     \/ Fault("delete") /\ Deleted(g) /\ UNCHANGED <<sst, survives>>
  /\ UNCHANGED engineVars

DeleteRest(g) ==
  /\ Deleting(g)
  /\ sst[g] = "leftover"
  /\ \/ Unsynced(g, "absent", {})
     \/ Fault("delete") /\ UNCHANGED <<sst, survives>>
  /\ Deleted(g)
  /\ UNCHANGED engineVars

\* A finalize that waits until no input has left a component behind.
MergeDoneWhenClean ==
  /\ pc = "merge_published"
  /\ merge.inputs = {} /\ \A g \in Gens : sst[g] # "leftover"
  /\ FinishMerge
  /\ UNCHANGED <<walVars, mem, gen, dirVars, histVars, lossVars>>

MergeDone ==
  /\ pc = "merge_published"
  /\ merge.inputs = {}
  /\ FinishMerge
  /\ UNCHANGED <<walVars, mem, gen, dirVars, histVars, lossVars>>

-----------------------------------------------------------------------------
(* Going down. *)

Down == pc' = "down" /\ mem' = {} /\ merge' = NoMerge /\ poisoned' = FALSE

\* close: the memtable has been flushed, the log is synced (an error is only
\* logged), the lock is released.  An unfinished merge is abandoned.
Close ==
  /\ Idle /\ mem = {}
  /\ Down
  /\ walDisk' \in IF Fault("walsync") \/ poisoned THEN {walFile, walDisk} ELSE {walFile}
  /\ UNCHANGED <<walFile, gen, dirVars, histVars, lossVars>>

\* Entries a failed sync left in the log may never have reached its file.
LostTail == SUBSET (walFile \ walDisk)

\* The process is killed, or drops the engine without closing it.
Kill ==
  /\ pc # "down" /\ kills < MaxKills
  /\ kills' = kills + 1
  /\ Down
  /\ \E lost \in LostTail : walFile' = walFile \ lost
  /\ UNCHANGED <<walDisk, gen, dirVars, histVars, powerLosses>>

\* Directory entries and log contents nobody synced may be old or new.
PowerLoss ==
  /\ powerLosses < MaxPowerLosses
  /\ powerLosses' = powerLosses + 1
  /\ Down
  /\ sst' \in [Gens -> FileState] /\ \A g \in Gens : sst'[g] \in survives[g]
  /\ survives' = [g \in Gens |-> {sst'[g]}]
  /\ walFile' \in {walDisk} \cup {walFile \ lost : lost \in LostTail}
  /\ walDisk' = walFile'
  /\ UNCHANGED <<gen, data, histVars, kills>>

\* The steps of an operation that is under way; nothing waits for a caller.
FlushStep == FlushToc \/ FlushSyncLeaf \/ FlushSyncChain \/ FlushCommit
FinalizeStep ==
  \/ MergeSyncComponents \/ MergeToc \/ MergeSyncToc \/ MergeRollback \/ MergeDone
  \/ \E g \in Gens : DeleteToc(g) \/ DeleteData(g) \/ DeleteRest(g)

Next ==
  \/ Open \/ OpenFails \/ Close \/ Kill \/ PowerLoss
  \/ \E m \in Mutation : Write(m) \/ WriteSyncFails(m)
  \/ FlushComponents \/ FlushStep
  \/ StartMerge \/ MergeRename \/ FinalizeStep

Spec == Init /\ [][Next]_vars

\* Whoever finds the engine down tries to open it again.
FairSpec == Spec /\ WF_vars(Open)

-----------------------------------------------------------------------------
(* Properties. *)

PcValues ==
  {"down", "idle", "flush_components", "flush_toc", "flush_finished", "flush_durable",
   "merge_renamed", "merge_components_durable", "merge_toc", "merge_published",
   "merge_rollback"}

\* Type invariant: log, memtable and data files hold mutations, every file state the
\* process sees is among those a power loss may leave, and an active merge has a
\* generation of its own range.
TypeOK ==
  /\ pc \in PcValues
  /\ walFile \subseteq Mutation /\ walDisk \subseteq Mutation /\ poisoned \in BOOLEAN
  /\ mem \subseteq Mutation /\ gen \in 1 .. MaxGen + 1
  /\ sst \in [Gens -> FileState] /\ survives \in [Gens -> SUBSET FileState]
  /\ \A g \in Gens : sst[g] \in survives[g]
  /\ data \in [Gens -> SUBSET Mutation]
  /\ merge \in [out : 0 .. MaxGen, inputs : SUBSET Gens]
  /\ promised \subseteq Mutation /\ attempted \subseteq Mutation
  /\ kills \in Nat /\ powerLosses \in Nat

\* A generation that every power-loss image shows published.
Durable(g) == survives[g] = {"published"}

\* Durability::SyncEachWrite: "A successful return guarantees the mutation is durable
\* on disk"; and a flush that returns Ok is durable in every mode.  Whatever a kill
\* or a power loss finds the engine doing, a promised mutation is in the log or in a
\* published SSTable of every image the disk may come back with.
NoAckedLoss ==
  \A m \in promised :
    \/ m \in walFile \cap walDisk
    \/ \E g \in Gens : Durable(g) /\ m \in data[g]

\* finish.rs:280: "if TOC.txt is visible then every component it names is present and
\* complete".  A power loss before the directory sync, a flush retried over its own
\* generation, and a rollback, which removes TOC.txt last, each break it.
PublishedComplete == \A g \in Gens : sst[g] # "torn"

\* A published SSTable is never rewritten under its readers: no flush and no merge
\* output takes the generation of a published one.
PublishedImmutable ==
  [][\A g \in Published : data'[g] = data[g]]_vars

\* maintenance.rs, above delete_sstable_files_static: a leftover is "reclaimed by
\* sweep_orphaned_partial_sstables on the next engine startup": an open whose
\* deletes all succeed leaves no component of an unpublished generation behind.
OrphansReclaimed ==
  [][Open => \A g \in Gens : sst'[g] \in {"absent", "published", "torn"}]_vars

\* mod.rs, WriteEngine::new: "If a WAL exists in the wal_dir, it will be replayed to
\* recover in-flight writes": an engine that is down can be opened again.
EventuallyOpens == pc = "down" ~> pc # "down"

\* A flush or a finalize under way is never stuck, whatever has failed so far: from
\* every state between its steps it goes on towards Ok or an error, and no step leads
\* back.
OperationGoesOn == pc \notin {"down", "idle"} => ENABLED (FlushStep \/ FinalizeStep)

\* What a caller sees of the engine.
visible == IF pc = "down" THEN {} ELSE mem \cup Stored

Store == INSTANCE DurableStore WITH up <- pc # "down"

\* The engine implements the durable store.
ImplementsStore == Store!StoreSpec
=============================================================================
