--------------------------- MODULE StreamingMerge ---------------------------
(***************************************************************************)
(* A compaction drained in budgeted calls: StreamingMerger in              *)
(* merge/streaming.rs, which reconciles one clustering row at a time from  *)
(* the heads of the sorted inputs, and the drain loop of maintenance.rs,   *)
(* which may stop after any group and resume in a later call.              *)
(* A partition is a number, a clustering key too; a carrier (partition     *)
(* deletion, range tombstone) has no clustering key, which is 0 here.      *)
(***************************************************************************)
EXTENDS Reconcile, Sequences, SequencesExt

CONSTANTS
    Partitions,     \* 1 .. n
    Clusters,       \* 1 .. n
    Merges,         \* the merges that may start: their runs and gc settings
    MaxFailures     \* bound: conversions or writes that fail

ASSUME StreamingMergeAssumption ==
    /\ Partitions \subseteq Nat \ {0} /\ Clusters \subseteq Nat \ {0}
    /\ \E n \in Clusters : \A m \in Clusters : m <= n
    /\ MaxFailures \in Nat

(***************************************************************************)
(* The inputs.  An entry is a row or a carrier, which is one deletion.  A  *)
(* file is sorted by partition and clustering key; a partition deletion    *)
(* comes first in its partition, and a range tombstone when its end bound  *)
(* is reached: after the rows up to that bound (row_decoder/compaction.rs).*)
(***************************************************************************)
Carriers == {"partdel", "rangedel"}
KindOf(e) == (CHOOSE f \in e.facts : TRUE).kind

Entry == [part : Partitions, ck : Clusters \cup {0}, lo : Clusters, hi : Clusters,
          facts : SUBSET Fact]

WellFormed(e) ==
    \/ /\ e.ck = 0 /\ \E f \in e.facts : e.facts = {f} /\ f.kind \in Carriers
       /\ KindOf(e) = "partdel" => \A n \in Clusters : e.lo <= n /\ n <= e.hi
    \/ /\ e.ck # 0 /\ e.lo = e.ck /\ e.hi = e.ck
       /\ e.facts # {} /\ \A f \in e.facts : f.kind \notin Carriers

FileOrder(file) ==
    \A i, j \in DOMAIN file : i < j =>
        /\ file[i].part <= file[j].part
        /\ file[i].part = file[j].part =>
              /\ KindOf(file[j]) # "partdel"
              /\ file[i].ck # 0 => IF file[j].ck = 0 THEN file[i].ck <= file[j].hi
                                                    ELSE file[i].ck < file[j].ck

(* Values are left out: one value of a cell per timestamp.                  *)
OneValuePerTimestamp(F) ==
    \A f, e \in F : f.kind = "cell" /\ e.kind = "cell" /\ f.key = e.key /\ f.ts = e.ts
                        => f = e

Entries(runs) == UNION {Range(runs[r]) : r \in DOMAIN runs}

ASSUME MergesAssumption ==
    \A m \in Merges :
        /\ DOMAIN m = {"input", "gc"}
        /\ m.input \in Seq(Seq(Entry))
        /\ \A r \in DOMAIN m.input : FileOrder(m.input[r])
        /\ \A e \in Entries(m.input) :
              /\ WellFormed(e)
              /\ \A f \in e.facts : f.ts <= Infinity /\ f.ttl <= f.ldt
        /\ \A p \in Partitions, ck \in Clusters :
              OneValuePerTimestamp(UNION {e.facts : e \in
                  {x \in Entries(m.input) : x.part = p /\ x.ck = ck}})
        /\ m.gc \in [now : Nat, gc_before : Nat, max_purgeable : Nat]

VARIABLES
    input,      \* of each run: its entries, in the order of the file
    gc,         \* effective_gc_settings
    pos,        \* of each run: the entry that is its head in the heap
    phase,      \* "idle" between calls, "drain" in one, "complete"
    boundary,   \* the drain loop is between two calls of step_streaming
    cur,        \* the StreamingMerger and the PartitionStreamState of the call
    stash,      \* ActiveMerge::pending_partition
    written,    \* of each partition: the groups the writer got
    failures    \* history: the calls that returned an error

vars == <<input, gc, pos, phase, boundary, cur, stash, written, failures>>

(* An entry, a held range tombstone and an emitted group look alike.        *)
Group(ck, lo, hi, facts) == [ck |-> ck, lo |-> lo, hi |-> hi, facts |-> facts]
Covers(x, ck) == x.lo <= ck /\ ck <= x.hi

NoCluster == [ck |-> 0, facts |-> {}]
fresh == [part |-> 0, pending |-> <<>>, ranges |-> {}, pdel |-> {},
          resolved |-> FALSE, cluster |-> NoCluster, awaiting |-> <<>>,
          emitted |-> FALSE, rows |-> <<>>]

Init ==
    /\ \E m \in Merges : input = m.input /\ gc = m.gc
    /\ pos = [r \in DOMAIN input |-> 1]
    /\ phase = "idle" /\ boundary = FALSE
    /\ cur = fresh /\ stash = fresh
    /\ written = [p \in Partitions |-> <<>>] /\ failures = 0

(***************************************************************************)
(* The heap: one head per run, the least by (partition, clustering key,    *)
(* run), a missing clustering key first.                                   *)
(***************************************************************************)
HasHead(r) == pos[r] <= Len(input[r])
head(r) == input[r][pos[r]]

Precedes(r, q) ==
    \/ head(r).part < head(q).part
    \/ /\ head(r).part = head(q).part
       /\ \/ head(r).ck < head(q).ck
          \/ head(r).ck = head(q).ck /\ r <= q

IsTop(r) == HasHead(r) /\ \A q \in DOMAIN input : HasHead(q) => Precedes(r, q)

(***************************************************************************)
(* The steps of the StreamingMerger on its checkpoint c.                   *)
(***************************************************************************)
OneGroup(ck, lo, hi, facts) ==
    IF facts = {} THEN <<>> ELSE <<Group(ck, lo, hi, facts)>>

LastCluster == CHOOSE n \in Clusters : \A m \in Clusters : m <= n

resolve_partition_prefix(c) ==
    IF c.resolved THEN c
    ELSE [c EXCEPT !.resolved = TRUE,
                   !.pending = @ \o OneGroup(0, 1, LastCluster, purge_gc_grace(c.pdel, gc))]

(* apply_range_shadowing and apply_partition_shadowing.                     *)
Shadowed(x, ranges, pdel) ==
    [x EXCEPT !.facts =
        apply_shadowing(
            apply_shadowing(@, UNION {t.facts : t \in {y \in ranges : Covers(y, x.ck)}}),
            pdel)]

(* The groups that still say something, in their order.                     *)
Survivors(groups) ==
    LET kept == {i \in DOMAIN groups : groups[i].facts # {}}
        nth(k) == CHOOSE i \in kept : Cardinality({j \in kept : j <= i}) = k
    IN  [k \in 1 .. Cardinality(kept) |-> groups[nth(k)]]

reshadow_and_flush_awaiting(c) ==
    LET shadowed == [i \in DOMAIN c.awaiting |->
                        Shadowed(c.awaiting[i], c.ranges, c.pdel)]
    IN  IF c.awaiting = <<>> THEN c
        ELSE [c EXCEPT !.awaiting = <<>>, !.pending = @ \o Survivors(shadowed)]

finalize_current_cluster_at_once(c) ==
    LET d == [resolve_partition_prefix(c) EXCEPT !.cluster = NoCluster]
        ck == c.cluster.ck
        entry == Group(ck, ck, ck, reconcile_cluster(c.cluster.facts, gc))
    IN  IF c.cluster = NoCluster \/ entry.facts = {} THEN d
        ELSE [d EXCEPT !.pending =
                 @ \o OneGroup(ck, ck, ck, Shadowed(entry, {}, c.pdel).facts)]

(* A survivor goes out at once while the partition has shown no range       *)
(* tombstone, and waits for the next one otherwise.                         *)
finalize_current_cluster(c) ==
    LET d == [resolve_partition_prefix(c) EXCEPT !.cluster = NoCluster]
        ck == c.cluster.ck
        entry == Group(ck, ck, ck, reconcile_cluster(c.cluster.facts, gc))
    IN  IF c.cluster = NoCluster \/ entry.facts = {} THEN d
        ELSE IF c.ranges = {}
        THEN [d EXCEPT !.pending =
                 @ \o OneGroup(ck, ck, ck, Shadowed(entry, {}, c.pdel).facts)]
        ELSE [d EXCEPT !.awaiting = Append(@, entry)]

flush_range_tombstones(c) ==
    LET kept == {x \in c.ranges :
                    purge_gc_grace(apply_shadowing(x.facts, c.pdel), gc) # {}}
    IN  [c EXCEPT !.emitted = TRUE, !.pending = @ \o SetToSeq(kept)]

(* What step_streaming does with the entry it pulled.                       *)
Absorb(c, e) ==
    LET kind == KindOf(e)
        ready == IF c.cluster # NoCluster /\ c.cluster.ck # e.ck
                 THEN finalize_current_cluster(c) ELSE c
    IN  CASE kind = "partdel"  -> [c EXCEPT !.pdel = Newest(@ \cup e.facts)]
          [] kind = "rangedel" ->
                LET d == [c EXCEPT !.ranges = @ \cup {Group(0, e.lo, e.hi, e.facts)}]
                IN  IF c.resolved THEN reshadow_and_flush_awaiting(d) ELSE d
          [] OTHER ->
                [ready EXCEPT !.cluster =
                    [ck |-> e.ck, facts |-> @.facts \cup e.facts]]

(***************************************************************************)
(* A call of maintenance_step.                                             *)
(***************************************************************************)
(* A call that works on a copy of the paused partition.                     *)
resume_copied ==
    /\ phase = "idle"
    /\ phase' = "drain" /\ boundary' = FALSE
    /\ cur' = stash
    /\ UNCHANGED <<input, gc, pos, stash, written, failures>>

(* It takes the paused partition, if there is one.                          *)
resume ==
    /\ phase = "idle"
    /\ phase' = "drain" /\ boundary' = FALSE
    /\ cur' = stash /\ stash' = fresh
    /\ UNCHANGED <<input, gc, pos, written, failures>>

Steps == phase = "drain" /\ cur.pending = <<>>

begin_partition(r) ==
    /\ Steps /\ cur.part = 0 /\ IsTop(r)
    /\ cur' = [fresh EXCEPT !.part = head(r).part]
    /\ boundary' = FALSE
    /\ UNCHANGED <<input, gc, pos, phase, stash, written, failures>>

pull_one(r) ==
    /\ Steps /\ cur.part # 0 /\ IsTop(r) /\ head(r).part = cur.part
    /\ cur' = Absorb(cur, head(r))
    /\ pos' = [pos EXCEPT ![r] = @ + 1]
    /\ boundary' = FALSE
    /\ UNCHANGED <<input, gc, phase, stash, written, failures>>

PartitionDrained ==
    /\ Steps /\ cur.part # 0
    /\ \A r \in DOMAIN input : IsTop(r) => head(r).part # cur.part

(* What is left to do with the partition once its last cluster is final.    *)
Tail_(c) ==
    LET d == reshadow_and_flush_awaiting(c)
    IN  IF d.ranges # {} /\ ~d.emitted THEN flush_range_tombstones(d) ELSE d

(* The checkpoint of a drained partition behind these steps.                *)
AtEnd ==
    IF PartitionDrained THEN {Tail_(c) : c \in {finalize_current_cluster(cur)}} ELSE {}

(* The end of the partition still yields groups.                            *)
finish_partition ==
    /\ \E c \in AtEnd : c.pending # <<>> /\ cur' = c
    /\ boundary' = FALSE
    /\ UNCHANGED <<input, gc, pos, phase, stash, written, failures>>

cluster_group_kept ==
    /\ phase = "drain" /\ cur.pending # <<>>
    /\ cur' = [cur EXCEPT !.pending = IF boundary THEN @ ELSE Tail(@),
                          !.rows = Append(@, Head(cur.pending))]
    /\ boundary' = TRUE
    /\ UNCHANGED <<input, gc, pos, phase, stash, written, failures>>

(* step_streaming returns a ClusterGroup, which the loop buffers (or feeds  *)
(* to the open session: rows are then the ones in Data.db).                 *)
cluster_group ==
    /\ phase = "drain" /\ cur.pending # <<>>
    /\ cur' = [cur EXCEPT !.pending = Tail(@), !.rows = Append(@, Head(cur.pending))]
    /\ boundary' = TRUE
    /\ UNCHANGED <<input, gc, pos, phase, stash, written, failures>>

(* PartitionEnd: the buffered partition is written in one go, or the        *)
(* session is finished.                                                     *)
partition_end ==
    /\ \E c \in AtEnd : c.pending = <<>>
    /\ written' = [written EXCEPT ![cur.part] = @ \o cur.rows]
    /\ cur' = fresh
    /\ boundary' = TRUE
    /\ UNCHANGED <<input, gc, pos, phase, stash, failures>>

merge_complete ==
    /\ Steps /\ cur.part = 0 /\ \A r \in DOMAIN input : ~HasHead(r)
    /\ phase' = "complete" /\ boundary' = FALSE
    /\ UNCHANGED <<input, gc, pos, cur, stash, written, failures>>

pause_unprogressed ==
    /\ phase = "drain"
    /\ phase' = "idle" /\ boundary' = FALSE
    /\ stash' = cur /\ cur' = fresh
    /\ UNCHANGED <<input, gc, pos, written, failures>>

(* The budget is spent.  It is looked at only after some progress, and      *)
(* into_paused_state has nothing to keep between two partitions.            *)
pause ==
    /\ phase = "drain" /\ boundary
    /\ phase' = "idle" /\ boundary' = FALSE
    /\ stash' = cur /\ cur' = fresh
    /\ UNCHANGED <<input, gc, pos, written, failures>>

(* ActiveMerge::stream_rows_directly: the rows of a merge whose inputs hold *)
(* neither a deletion nor an expiring cell go to the writer as they come.   *)
stream_rows_directly ==
    \A e \in Entries(input) : \A f \in e.facts : f.kind = "cell" /\ f.ttl = 0

(* A group does not convert or the writer fails: the call returns the error *)
(* and what it buffered of the partition goes with it; the rows it streamed *)
(* stay in Data.db.  (Such a merge buffers too if the Statistics.db of an   *)
(* input cannot be read.)  The merge stays active.                          *)
step_fails ==
    /\ failures < MaxFailures /\ failures' = failures + 1
    /\ phase = "drain"
    /\ \/ cur.pending # <<>>
       \/ cur.rows # <<>> /\ \E c \in AtEnd : c.pending = <<>>
    /\ \/ UNCHANGED written
       \/ /\ stream_rows_directly
          /\ written' = [written EXCEPT ![cur.part] = @ \o cur.rows]
    /\ phase' = "idle" /\ boundary' = FALSE
    /\ cur' = fresh
    /\ UNCHANGED <<input, gc, pos, stash>>

step_streaming ==
    \/ cluster_group \/ finish_partition \/ partition_end \/ merge_complete
    \/ \E r \in DOMAIN input : begin_partition(r) \/ pull_one(r)

Finished == phase = "complete" /\ UNCHANGED vars

Next == resume \/ step_streaming \/ pause \/ step_fails \/ Finished

(* maintenance_step is called again and again, and each call runs.          *)
Spec == Init /\ [][Next]_vars /\ WF_vars(resume) /\ WF_vars(step_streaming)

(***************************************************************************)
(* Properties.                                                             *)
(***************************************************************************)
FactsAt(groups, ck) == UNION {x.facts : x \in {y \in groups : Covers(y, ck)}}
InputAt(p, ck) ==
    FactsAt({e \in Entries(input) : e.part = p}, ck)
WrittenAt(p, ck) == FactsAt(Range(written[p]), ck)

(* Type invariant: the domains, and one partition is in flight in one       *)
(* place: in the call that drains it, or paused between two calls.          *)
TypeOK ==
    /\ pos \in [DOMAIN input -> Nat \ {0}]
    /\ \A r \in DOMAIN input : pos[r] <= Len(input[r]) + 1
    /\ phase \in {"idle", "drain", "complete"}
    /\ boundary \in BOOLEAN
    /\ cur.part \in Partitions \cup {0} /\ stash.part \in Partitions \cup {0}
    /\ cur.part = 0 => cur = fresh
    /\ stash.part = 0 => stash = fresh
    /\ phase # "drain" => cur = fresh
    /\ phase # "idle" => stash = fresh

(* A range tombstone comes late if it covers an older row that the merge    *)
(* has let go: one before another covered row of the tombstone's own file.  *)
Late(runs) ==
    \E r \in DOMAIN runs : \E i, k \in DOMAIN runs[r] :
        LET own == runs[r][i]
            x == runs[r][k]
        IN  /\ i < k /\ x.ck = 0 /\ own.part = x.part /\ own.ck # 0 /\ Covers(x, own.ck)
            /\ \E e \in Entries(runs) :
                  e.part = x.part /\ e.ck # 0 /\ e.ck < own.ck /\ Covers(x, e.ck)

(* No merge that may purge a range tombstone has one that comes late.       *)
TimelyMerges == \A m \in Merges : m.gc.gc_before = 0 \/ ~Late(m.input)

SameView ==
    \A p \in Partitions, ck \in Clusters :
        Visible(WrittenAt(p, ck), gc.now) = Visible(InputAt(p, ck), gc.now)

(* However often the drain pauses, the merged SSTable shows at every row of *)
(* every partition what the inputs together show: no deleted row comes back *)
(* and none is lost.                                                        *)
MergedView == phase = "complete" /\ failures = 0 => SameView

(* The same of a merge one of whose calls returned an error in between.     *)
MergedViewDespiteErrors == phase = "complete" => SameView

(* A partition's rows reach the writer once each and in clustering order,   *)
(* so a resumed partition continues where it stopped.                       *)
RowsInOrder ==
    \A p \in Partitions :
        LET groups == written[p] \o (IF cur.part = p THEN cur.rows ELSE <<>>)
                          \o (IF stash.part = p THEN stash.rows ELSE <<>>)
        IN  \A i, j \in DOMAIN groups :
                i < j /\ groups[i].ck # 0 /\ groups[j].ck # 0 => groups[i].ck < groups[j].ck

(* A merge that is given calls ends, even if every call stops as soon as    *)
(* the budget allows.                                                       *)
Completes == <>(phase = "complete")

=============================================================================
