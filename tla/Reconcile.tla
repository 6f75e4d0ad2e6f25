----------------------------- MODULE Reconcile -----------------------------
(***************************************************************************)
(* What the merge keeps of one row: merge/reconcile.rs, reconcile_rules.rs *)
(* and the shadowing and purging of merge/mod.rs, as operators on sets of  *)
(* facts.  A fact is one thing an SSTable says about the row:              *)
(*   cell     a value (ttl > 0: one that expires at ldt)                   *)
(*   celldel  the deletion of a cell                                       *)
(*   coldel   the deletion of the complex column, i.e. of its elements     *)
(*   rowdel   the deletion of the row                                      *)
(*   rangedel the deletion of a clustering range that covers the row       *)
(*   partdel  the deletion of the partition                                *)
(* ts is the write timestamp (markedForDeleteAt of a deletion) and ldt the *)
(* local deletion time, the clock that gc_grace is measured on.  Values    *)
(* are left out: two facts of a cell differ in their timestamps.           *)
(***************************************************************************)
EXTENDS Naturals

CONSTANTS
    SimpleCells,    \* the row's simple columns
    Elements,       \* the elements (cell paths) of its complex column
    Infinity        \* i64::MAX as a bound on timestamps

ASSUME InfinityAssumption == Infinity \in Nat

Markers == {"coldel", "rowdel", "rangedel", "partdel"}
CellKinds == {"cell", "celldel"}
NoCell == "-"
CellKeys == SimpleCells \cup Elements

Fact == [kind : Markers \cup CellKinds, key : CellKeys \cup {NoCell},
         ts : Nat, ldt : Nat, ttl : Nat]

Of(F, kinds) == {f \in F : f.kind \in kinds}

(***************************************************************************)
(* reconcile_rules.rs.                                                     *)
(***************************************************************************)
cell_wins(c, e) ==
    \/ c.ts > e.ts
    \/ c.ts = e.ts /\ c.kind = "celldel" /\ e.kind = "cell"

element_survives_complex_deletion(f, d) == f.ts > d.ts

(* Of several deletions of one extent the newest is kept; of equal ones the *)
(* code keeps the first it saw, the model all of them: they differ only in  *)
(* ldt.                                                                     *)
Newest(D) == {d \in D : \A e \in D : e.ts <= d.ts}

(***************************************************************************)
(* The steps of reconcile_cluster_with_overlap_counted, in its order.  g   *)
(* holds now, gc_before and max_purgeable; gc_before = 0 is the None that  *)
(* disables purging.                                                       *)
(***************************************************************************)
resolve_cell_winners(F) ==
    {c \in Of(F, CellKinds) :
        \A e \in Of(F, CellKinds) : e.key = c.key => ~cell_wins(e, c)}

apply_complex_deletions(W, F) ==
    {c \in W : c.key \in Elements =>
        \A d \in Of(F, {"coldel"}) : element_survives_complex_deletion(c, d)}

shadow_by_row_deletion(W, F) ==
    {c \in W : \A d \in Of(F, {"rowdel"}) : c.ts > d.ts}

expired(c, now) == c.ttl > 0 /\ c.ldt <= now

expire_ttl_cells_twice(W, g) ==
    {c \in W : c.kind = "celldel" \/ ~expired(c, g.now)}
        \cup {[c EXCEPT !.kind = "celldel", !.ttl = 0, !.ldt = c.ldt - 2 * c.ttl] :
                 c \in {x \in W : x.kind = "cell" /\ expired(x, g.now)}}

(* An expired value turns into a deletion dated at the cell's creation.     *)
expire_ttl_cells(W, g) ==
    {c \in W : c.kind = "celldel" \/ ~expired(c, g.now)}
        \cup {[c EXCEPT !.kind = "celldel", !.ttl = 0, !.ldt = c.ldt - c.ttl] :
                 c \in {x \in W : x.kind = "cell" /\ expired(x, g.now)}}

(* 0 stands for a local deletion time the reader did not surface.  The row  *)
(* deletion and the deletion of a simple cell are then kept; the markers of *)
(* wider extents are compared with it as they are.                          *)
ldt_unknown(d) ==
    /\ d.ldt = 0
    /\ \/ d.kind = "rowdel"
       \/ d.kind = "celldel" /\ d.key \in SimpleCells

purgeable(d, g) ==
    ~ldt_unknown(d) /\ d.ldt < g.gc_before /\ d.ts < g.max_purgeable

purge_gc_grace(D, g) == {d \in D : d.kind = "cell" \/ ~purgeable(d, g)}

(* What the row contributes; a row that is only a deletion drops the        *)
(* complex deletion it covers (merge_entry_to_mutation).                    *)
build(W, R, C) ==
    W \cup R \cup {d \in C : W = {} => \A r \in R : d.ts > r.ts}

reconcile_cluster(F, g) ==
    LET won  == apply_complex_deletions(resolve_cell_winners(F), F)
        live == expire_ttl_cells(shadow_by_row_deletion(won, F), g)
    IN  build(purge_gc_grace(live, g),
              purge_gc_grace(Newest(Of(F, {"rowdel"})), g),
              purge_gc_grace(Newest(Of(F, {"coldel"})), g))

(***************************************************************************)
(* apply_range_shadowing, apply_partition_shadowing: what a deletion of a  *)
(* wider extent leaves; and the markers that are emitted again.            *)
(***************************************************************************)
apply_shadowing(W, D) == {f \in W : \A d \in D : f.ts > d.ts}

merge_partition_rows(F, g) ==
    LET ranges == Of(F, {"rangedel"})
        parts  == Of(F, {"partdel"})
        rows   == apply_shadowing(
                      apply_shadowing(reconcile_cluster(F, g), ranges), parts)
    IN  rows \cup purge_gc_grace(apply_shadowing(Newest(ranges), parts), g)
             \cup purge_gc_grace(Newest(parts), g)

(* effective_gc_settings: everything below Infinity when the compaction     *)
(* spans the table, the bound of the SSTables left out when it is known.    *)
NoBound == 0
effective_gc_settings(purge_safe, bound, gc_before, now) ==
    CASE purge_safe          -> [now |-> now, gc_before |-> gc_before,
                                 max_purgeable |-> Infinity]
      [] ~purge_safe /\ bound # NoBound
                             -> [now |-> now, gc_before |-> gc_before,
                                 max_purgeable |-> bound]
      [] OTHER               -> [now |-> now, gc_before |-> 0,
                                 max_purgeable |-> 0]

(***************************************************************************)
(* What a reader that sees the facts F shows, by the definition of the     *)
(* timestamps and not by the steps above.                                  *)
(***************************************************************************)
Shadows(d, c) ==
    \/ d.kind = "cell"    /\ d.key = c.key /\ d.ts > c.ts
    \/ d.kind = "celldel" /\ d.key = c.key /\ d.ts >= c.ts
    \/ d.kind = "coldel"  /\ c.key \in Elements /\ d.ts >= c.ts
    \/ d.kind \in {"rowdel", "rangedel", "partdel"} /\ d.ts >= c.ts

Visible(F, now) ==
    {c \in Of(F, {"cell"}) :
        ~expired(c, now) /\ \A d \in F : ~Shadows(d, c)}

=============================================================================
