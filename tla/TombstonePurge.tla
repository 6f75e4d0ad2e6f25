--------------------------- MODULE TombstonePurge ---------------------------
(***************************************************************************)
(* When a compaction may forget a deletion: the selection of the inputs and *)
(* the overlap bounds of maintenance.rs, the SSTables that are dropped     *)
(* whole (merge/fully_expired.rs), the merge itself (Reconcile) and the    *)
(* deletion of the inputs, one after the other, in compaction.rs.  The     *)
(* table is one row, written by facts (see Reconcile); the memtable is     *)
(* flushed at any time, also while a merge is paused between two           *)
(* maintenance steps.                                                      *)
(***************************************************************************)
EXTENDS Reconcile, FiniteSets

CONSTANTS
    GcGrace,        \* gc_grace_seconds
    Ttl,            \* the TTL of a write USING TTL
    MinThreshold,   \* of the merge policy
    MaxWrites,      \* bound: writes
    MaxClock,       \* bound: the clock, in seconds
    MaxSSTables,    \* bound: SSTables at a time
    Backdated,      \* writes may choose their timestamp (USING TIMESTAMP)
    PurgeFaults     \* a deletion may fail also after a merge that purged

ASSUME TombstonePurgeAssumption ==
    /\ GcGrace \in Nat /\ Ttl \in Nat \ {0} /\ MinThreshold \in Nat \ {0}
    /\ MaxWrites \in Nat /\ MaxClock \in Nat \ {0} /\ MaxSSTables \in Nat
    /\ Backdated \in BOOLEAN /\ PurgeFaults \in BOOLEAN
    /\ MaxWrites < Infinity /\ MaxClock + Ttl < Infinity

VARIABLES
    mem,        \* the memtable
    sst,        \* the published SSTables
    merge,      \* WriteEngine::active_merge
    clock,      \* seconds
    log         \* every fact ever written (what a reader should go by)

vars == <<mem, sst, merge, clock, log>>

(* Statistics.db keeps the least timestamp as a field of its own: a         *)
(* compaction seeds it from its inputs (compute_baseline_min).              *)
SSTable == [facts : SUBSET Fact, min_ts : Nat]

Least(S) == CHOOSE x \in S : \A y \in S : x <= y
AllFacts(T) == UNION {t.facts : t \in T}

NoMerge == [phase |-> "none"]

Init ==
    /\ mem = {} /\ sst = {} /\ merge = NoMerge /\ clock = 1 /\ log = {}

(***************************************************************************)
(* Writes and flushes.                                                     *)
(***************************************************************************)
Writable(ts) ==
    [kind : {"cell"}, key : CellKeys, ts : {ts}, ldt : {Infinity}, ttl : {0}]
    \cup [kind : {"cell"}, key : CellKeys, ts : {ts}, ldt : {clock + Ttl}, ttl : {Ttl}]
    \cup [kind : {"celldel"}, key : CellKeys, ts : {ts}, ldt : {clock}, ttl : {0}]
    \cup [kind : Markers, key : {NoCell}, ts : {ts}, ldt : {clock}, ttl : {0}]

Timestamps ==
    IF Backdated THEN {ts \in 1 .. MaxWrites : \A f \in log : f.ts # ts}
                 ELSE {Cardinality(log) + 1}

write(f) ==
    /\ Cardinality(log) < MaxWrites
    /\ mem' = mem \cup {f}
    /\ log' = log \cup {f}
    /\ UNCHANGED <<sst, merge, clock>>

flush ==
    /\ mem # {} /\ Cardinality(sst) < MaxSSTables
    /\ sst' = sst \cup {[facts |-> mem, min_ts |-> Least({f.ts : f \in mem})]}
    /\ mem' = {}
    /\ UNCHANGED <<merge, clock, log>>

tick ==
    /\ clock < MaxClock
    /\ clock' = clock + 1
    /\ UNCHANGED <<mem, sst, merge, log>>

(***************************************************************************)
(* The bounds.                                                             *)
(***************************************************************************)
compute_gc_before == IF clock < GcGrace THEN 0 ELSE clock - GcGrace

(* One SSTable whose Statistics.db cannot be read (unread) leaves the bound *)
(* unknown.                                                                 *)
compute_max_purgeable_timestamp(outside, unread) ==
    IF outside = {} \/ outside \cap unread # {} THEN NoBound
    ELSE Least({t.min_ts : t \in outside})

(* An SSTable without a fact has no max_timestamp: it is never dropped.     *)
is_fully_expired(t, gc_before) ==
    t.facts # {} /\ \A f \in t.facts : f.ldt < gc_before

fully_expired_sstables_outside_only(inputs, outside, unread, gc_before) ==
    {t \in inputs :
        /\ is_fully_expired(t, gc_before)
        /\ (inputs \cup outside) \cap unread = {}
        /\ \A f \in t.facts : \A b \in outside : f.ts < b.min_ts}

(* An SSTable is dropped whole when it is older than every SSTable outside  *)
(* the compaction and every input that is not itself expired; none is when  *)
(* one of those Statistics.db cannot be read.                               *)
fully_expired_sstables(inputs, outside, unread, gc_before) ==
    LET bounding == outside \cup {t \in inputs : ~is_fully_expired(t, gc_before)}
    IN  {t \in inputs :
            /\ is_fully_expired(t, gc_before)
            /\ (inputs \cup outside) \cap unread = {}
            /\ \A f \in t.facts : \A b \in bounding : f.ts < b.min_ts}

(***************************************************************************)
(* A compaction.                                                           *)
(***************************************************************************)
(* One Statistics.db that cannot be read does what several of them do.      *)
Unread == {{}} \cup {{t} : t \in sst}

(* maintenance_step selects inputs; start_merge drops the fully expired     *)
(* ones, but keeps one as an input if that would leave none.                *)
start_merge(selected, unread) ==
    /\ merge.phase = "none"
    /\ Cardinality(selected) >= MinThreshold
    /\ LET outside   == sst \ selected
           gc_before == compute_gc_before
           drop_set  == fully_expired_sstables(selected, outside, unread, gc_before)
           g == effective_gc_settings(outside = {},
                    compute_max_purgeable_timestamp(outside, unread), gc_before, clock)
       IN  \E kept \in IF drop_set = selected THEN {{t} : t \in selected}
                                              ELSE {selected \ drop_set} :
              merge' = [phase |-> "running", inputs |-> kept,
                        dropped |-> drop_set \ kept, g |-> g]
    /\ UNCHANGED <<mem, sst, clock, log>>

(* The least timestamp of the inputs, by those Statistics.db that can be    *)
(* read, and of the facts that the writer is given.                         *)
compute_baseline_min(inputs, facts, unread) ==
    Least({Infinity} \cup {t.min_ts : t \in inputs \ unread} \cup {f.ts : f \in facts})

(* finalize_merge_async: the output appears with the rename of its TOC.     *)
publish ==
    /\ merge.phase = "running"
    /\ \E unread \in SUBSET merge.inputs :
          LET facts  == merge_partition_rows(AllFacts(merge.inputs), merge.g)
              output == [facts  |-> facts,
                         min_ts |-> compute_baseline_min(merge.inputs, facts, unread)]
          IN  /\ sst' = sst \cup {output}
              /\ merge' = [merge EXCEPT !.phase = "deleting", !.inputs = @ \ {output},
                                        !.dropped = @ \ {output}]
    /\ UNCHANGED <<mem, clock, log>>

(* The next SSTable to delete: the inputs first, then those dropped whole.  *)
(* A deletion that fails is only logged.                                    *)
Remaining(t) ==
    /\ merge.phase = "deleting"
    /\ t \in IF merge.inputs # {} THEN merge.inputs ELSE merge.dropped
    /\ merge' = [merge EXCEPT !.inputs = @ \ {t}, !.dropped = @ \ {t}]

delete_sstable_files(t) ==
    /\ Remaining(t)
    /\ sst' = sst \ {t}
    /\ UNCHANGED <<mem, clock, log>>

(* Inputs that stay behind are harmless only if nothing was purged.         *)
MayFail ==
    /\ merge.phase = "deleting" /\ Cardinality(sst) < MaxSSTables
    /\ merge.g.gc_before = 0 \/ PurgeFaults

delete_fails(t) ==
    /\ MayFail
    /\ Remaining(t)
    /\ UNCHANGED <<mem, sst, clock, log>>

merge_ends ==
    /\ merge.phase = "deleting" /\ merge.inputs = {} /\ merge.dropped = {}
    /\ merge' = NoMerge
    /\ UNCHANGED <<mem, sst, clock, log>>

(* The process dies and starts again: the memtable is replayed from the log *)
(* (see Wal), the unfinished merge is gone, what was not deleted stays.     *)
restart ==
    /\ merge.phase = "running" \/ MayFail
    /\ merge' = NoMerge
    /\ UNCHANGED <<mem, sst, clock, log>>

Next ==
    \/ \E ts \in Timestamps : \E f \in Writable(ts) : write(f)
    \/ flush \/ tick
    \/ \E selected \in SUBSET sst, unread \in Unread : start_merge(selected, unread)
    \/ publish
    \/ \E t \in sst : delete_sstable_files(t) \/ delete_fails(t)
    \/ merge_ends \/ restart

Spec == Init /\ [][Next]_vars

(***************************************************************************)
(* Properties.                                                             *)
(***************************************************************************)
TypeOK ==
    /\ mem \subseteq Fact /\ log \subseteq Fact
    /\ sst \subseteq SSTable
    /\ clock \in Nat
    /\ merge.phase \in {"none", "running", "deleting"}

(* What a reader of the memtable and the SSTables sees is what was written  *)
(* and not deleted since, also after the deletions themselves were purged:  *)
(* no compaction makes deleted data appear again, and none loses data.      *)
NoResurrection ==
    merge.phase # "deleting" =>
        Visible(mem \cup AllFacts(sst), clock) = Visible(log, clock)

=============================================================================
