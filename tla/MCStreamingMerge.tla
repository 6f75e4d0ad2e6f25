-------------------------- MODULE MCStreamingMerge --------------------------
(***************************************************************************)
(* Two runs over one wide partition and a second one of a single row.  Run *)
(* 1 holds old rows, run 2 newer rows and row deletions; each may hold a   *)
(* range tombstone and run 1 a partition deletion.                         *)
(***************************************************************************)
EXTENDS StreamingMerge

Deletion(kind, ts) == [kind |-> kind, key |-> NoCell, ts |-> ts, ldt |-> 1, ttl |-> 0]
Cell(ts) == [kind |-> "cell", key |-> "s", ts |-> ts, ldt |-> Infinity, ttl |-> 0]
OneFact(p, ck, lo, hi, f) == [part |-> p, ck |-> ck, lo |-> lo, hi |-> hi, facts |-> {f}]

(* The range tombstone stands behind the rows up to its end bound.          *)
RowsUpTo(rows, from, to) ==
    LET cks == SetToSortSeq({ck \in DOMAIN rows : from < ck /\ ck <= to},
                            LAMBDA a, b : a < b)
    IN  [i \in DOMAIN cks |-> OneFact(1, cks[i], cks[i], cks[i], rows[cks[i]])]

RunOf(pdel, rows, range, rest) ==
    pdel \o (IF range = {} THEN RowsUpTo(rows, 0, LastCluster)
             ELSE LET x == CHOOSE y \in range : TRUE
                  IN  RowsUpTo(rows, 0, x.hi)
                          \o <<OneFact(1, 0, x.lo, x.hi, Deletion("rangedel", x.ts))>>
                          \o RowsUpTo(rows, x.hi, LastCluster)) \o rest

Ranges(ts) == {{}} \cup {{[lo |-> l, hi |-> h, ts |-> ts]} :
                           <<l, h>> \in {<<1, 2>>, <<1, 3>>, <<2, 3>>}}
RowSets(facts) == UNION {[S -> facts] : S \in SUBSET Clusters}

Runs1 == {RunOf(d, rows, x, <<>>) :
             d \in {<<>>, <<OneFact(1, 0, 1, LastCluster, Deletion("partdel", 3))>>},
             rows \in RowSets({Cell(1)}), x \in Ranges(4)}
Runs2 == {RunOf(<<>>, rows, x, <<OneFact(2, 1, 1, 1, Cell(2))>>) :
             rows \in RowSets({Cell(6), Deletion("rowdel", 5)}), x \in Ranges(2)}

AllInputs == {<<a, b>> : a \in Runs1, b \in Runs2}

NoPurge == effective_gc_settings(FALSE, NoBound, 2, 2)
Purge == effective_gc_settings(TRUE, NoBound, 2, 2)
Merge(inputs, gcs) == [input : inputs, gc : gcs]

(* A late range tombstone does no harm while it stays in the output.        *)
const_Timely ==
    Merge({x \in AllInputs : ~Late(x)}, {Purge})
        \cup Merge({x \in AllInputs : Late(x)}, {NoPurge})
const_Late == Merge(AllInputs, {Purge})
const_NoPurge == Merge(AllInputs, {NoPurge})

=============================================================================
