--------------------------- MODULE ReconcileProofs ---------------------------
(***************************************************************************)
(* What a merge of any set of inputs may forget: for all facts, cells,     *)
(* timestamps and bounds, the merged facts show a reader what the inputs   *)
(* showed, next to whatever the merge left out.                            *)
(***************************************************************************)
EXTENDS Reconcile, WellFoundedInduction, TLAPS

\* The settings of a merge (effective_gc_settings).
GcSettings == [now : Nat, gc_before : Nat, max_purgeable : Nat]

\* The facts of a merge that are cells, before purging (the first steps of
\* reconcile_cluster).
Cells(F, g) ==
    expire_ttl_cells(
        shadow_by_row_deletion(
            apply_complex_deletions(resolve_cell_winners(F), F), F), g)

\* An expired cell as the merge writes it.
Converted(c) == [c EXCEPT !.kind = "celldel", !.ttl = 0, !.ldt = c.ldt - c.ttl]

\* Every non-empty set of facts with bounded timestamps has a newest one.
LEMMA NewestExists ==
  ASSUME NEW S, S \subseteq Fact, S # {}, \A f \in S : f.ts <= Infinity
  PROVE  \E m \in S : \A f \in S : f.ts <= m.ts
<1> USE InfinityAssumption
<1> DEFINE T == {Infinity - f.ts : f \in S}
           R == OpToRel(<, Nat)
<1>1. T \subseteq Nat /\ T # {}
  BY DEF Fact
<1>2. \E x \in T : \A y \in T : ~(<<y, x>> \in R)
  <2>1. IsWellFoundedOn(R, Nat)
    BY NatLessThanWellFounded
  <2> HIDE DEF R, T
  <2> QED BY <1>1, <2>1, WFMin
<1>3. PICK x \in T : \A y \in T : ~(<<y, x>> \in R)
  BY <1>2
<1>4. PICK m \in S : x = Infinity - m.ts
  BY <1>3
<1>5. ASSUME NEW f \in S PROVE f.ts <= m.ts
  <2>1. f.ts \in Nat /\ m.ts \in Nat
    BY DEF Fact
  <2>2. Infinity - f.ts \in T /\ <<Infinity - f.ts, x>> \in Nat \X Nat
    BY <1>1, <1>3
  <2>3. ~(Infinity - f.ts < x)
    BY <2>2, <1>3 DEF OpToRel
  <2> QED BY <2>1, <2>3, <1>4
<1> QED BY <1>5

\* What is left of the steps up to the expiry: a cell of the inputs that no
\* newer cell, complex deletion or row deletion shadows.
LEMMA CellsElim ==
  ASSUME NEW F \in SUBSET Fact, NEW g \in GcSettings, NEW x \in Cells(F, g)
  PROVE  \E c \in Of(F, CellKinds) :
            /\ \A e \in Of(F, CellKinds) : e.key = c.key => ~cell_wins(e, c)
            /\ c.key \in Elements => \A d \in Of(F, {"coldel"}) : c.ts > d.ts
            /\ \A d \in Of(F, {"rowdel"}) : c.ts > d.ts
            /\ \/ x = c /\ (c.kind = "celldel" \/ ~expired(c, g.now))
               \/ x = Converted(c) /\ c.kind = "cell" /\ expired(c, g.now)
BY DEF Cells, expire_ttl_cells, shadow_by_row_deletion, apply_complex_deletions,
       resolve_cell_winners, element_survives_complex_deletion, Converted

\* And such a cell of the inputs does come through, as itself or converted.
LEMMA CellsIntro ==
  ASSUME NEW F \in SUBSET Fact, NEW g \in GcSettings, NEW c \in Of(F, CellKinds),
         \A e \in Of(F, CellKinds) : e.key = c.key => ~cell_wins(e, c),
         c.key \in Elements => \A d \in Of(F, {"coldel"}) : c.ts > d.ts,
         \A d \in Of(F, {"rowdel"}) : c.ts > d.ts
  PROVE  \/ c \in Cells(F, g) /\ (c.kind = "celldel" \/ ~expired(c, g.now))
         \/ Converted(c) \in Cells(F, g) /\ c.kind = "cell"
BY DEF Cells, expire_ttl_cells, shadow_by_row_deletion, apply_complex_deletions,
       resolve_cell_winners, element_survives_complex_deletion, Converted, Of, CellKinds

\* The fields of a converted cell.
LEMMA ConvertedFields ==
  ASSUME NEW c \in Fact
  PROVE  /\ Converted(c).kind = "celldel" /\ Converted(c).key = c.key
         /\ Converted(c).ts = c.ts
BY DEF Converted, Fact

\* Of the merged facts, each is a fact of the inputs or an expired cell of
\* them as a deletion.
LEMMA MergedElim ==
  ASSUME NEW F \in SUBSET Fact, NEW g \in GcSettings,
         NEW x \in merge_partition_rows(F, g)
  PROVE  \/ x \in Of(F, Markers)
         \/ /\ x \in Cells(F, g)
            /\ \A d \in Of(F, {"rangedel", "partdel"}) : x.ts > d.ts
<1>1. CASE x \in reconcile_cluster(F, g) /\ \A d \in Of(F, {"rangedel", "partdel"}) : x.ts > d.ts
  BY <1>1 DEF reconcile_cluster, build, purge_gc_grace, Newest, Of, Markers, Cells
<1>2. CASE x \in Of(F, {"rangedel", "partdel"})
  BY <1>2 DEF Of, Markers
<1> QED
  BY <1>1, <1>2 DEF merge_partition_rows, apply_shadowing, purge_gc_grace, Newest, Of

\* What the merge emits, by kind: a cell, if nothing wider shadows it.
LEMMA CellKept ==
  ASSUME NEW F \in SUBSET Fact, NEW g \in GcSettings, NEW x \in Cells(F, g),
         x.kind = "cell" \/ ~purgeable(x, g),
         \A d \in Of(F, {"rangedel", "partdel"}) : x.ts > d.ts
  PROVE  x \in merge_partition_rows(F, g)
<1>1. x \in reconcile_cluster(F, g)
  BY DEF reconcile_cluster, build, purge_gc_grace, Cells
<1> QED BY <1>1 DEF merge_partition_rows, apply_shadowing, Of

\* A row deletion, if it is the newest and nothing wider shadows it.
LEMMA RowDeletionKept ==
  ASSUME NEW F \in SUBSET Fact, NEW g \in GcSettings,
         NEW x \in Newest(Of(F, {"rowdel"})), ~purgeable(x, g),
         \A d \in Of(F, {"rangedel", "partdel"}) : x.ts > d.ts
  PROVE  x \in merge_partition_rows(F, g)
<1>1. x \in reconcile_cluster(F, g)
  BY DEF reconcile_cluster, build, purge_gc_grace
<1> QED BY <1>1 DEF merge_partition_rows, apply_shadowing, Of

\* A complex deletion, if it is the newest and nothing wider shadows it.
LEMMA ComplexDeletionKept ==
  ASSUME NEW F \in SUBSET Fact, NEW g \in GcSettings,
         NEW x \in Newest(Of(F, {"coldel"})), ~purgeable(x, g),
         \A d \in Of(F, {"rowdel", "rangedel", "partdel"}) : x.ts > d.ts
  PROVE  x \in merge_partition_rows(F, g)
<1>1. x \in reconcile_cluster(F, g)
  BY DEF reconcile_cluster, build, purge_gc_grace, Newest, Of
<1> QED BY <1>1 DEF merge_partition_rows, apply_shadowing, Of

\* A range tombstone, if it is the newest and the partition's deletion does
\* not shadow it; and the newest partition deletion.
LEMMA WideDeletionKept ==
  ASSUME NEW F \in SUBSET Fact, NEW g \in GcSettings, NEW x, ~purgeable(x, g),
         \/ /\ x \in Newest(Of(F, {"rangedel"}))
            /\ \A d \in Of(F, {"partdel"}) : x.ts > d.ts
         \/ x \in Newest(Of(F, {"partdel"}))
  PROVE  x \in merge_partition_rows(F, g)
BY DEF merge_partition_rows, apply_shadowing, purge_gc_grace

\* When the merge may forget what shadows o: purging is off, or o is not older
\* than the bound, or all the merged facts are older than o.
Guarded(F, g, o) ==
    \/ g.gc_before = 0
    \/ o.ts >= g.max_purgeable
    \/ \A d \in F : d.ts < o.ts

\* Then nothing that shadows o is purged.
LEMMA GuardedKept ==
  ASSUME NEW F \in SUBSET Fact, NEW g \in GcSettings, NEW o \in Fact,
         Guarded(F, g, o), NEW d \in F, d.ts >= o.ts, NEW x, x.ts = d.ts,
         x.ldt \in Int, g.gc_before = 0 => x.ldt >= 0
  PROVE  ~purgeable(x, g)
BY DEF Guarded, purgeable, Fact, GcSettings

\* A fact the merge left out that the inputs shadow is shadowed by the output.
LEMMA ShadowKept ==
  ASSUME NEW F \in SUBSET Fact, NEW g \in GcSettings, NEW v \in Fact,
         \A f \in F : f.ts <= Infinity, \A f \in F : f.ttl <= f.ldt,
         Guarded(F, g, v), NEW d \in F, Shadows(d, v)
  PROVE  \E x \in merge_partition_rows(F, g) : Shadows(x, v)
<1> DEFINE Reaching(k) == {f \in Of(F, {k}) : f.ts >= v.ts}
<1>0. /\ d.ts \in Nat /\ v.ts \in Nat /\ d.ts >= v.ts
      /\ \A f \in F : f.ts \in Nat /\ f.ldt \in Nat /\ f.ttl \in Nat
  BY DEF Shadows, Fact
<1>1. ASSUME NEW k, NEW e \in Reaching(k)
      PROVE  \E m \in Newest(Of(F, {k})) :
                m \in F /\ m.kind = k /\ m.ts >= v.ts /\ ~purgeable(m, g)
  <2>1. PICK m \in Of(F, {k}) : \A f \in Of(F, {k}) : f.ts <= m.ts
    BY NewestExists, <1>1 DEF Of
  <2>2. m \in F /\ m.kind = k /\ m \in Newest(Of(F, {k}))
    BY <2>1 DEF Of, Newest
  <2>3. m.ts >= v.ts
    BY <2>1, <2>2, <1>0, <1>1 DEF Of
  <2>4. ~purgeable(m, g)
    BY <2>2, <2>3, <1>0, GuardedKept
  <2> QED BY <2>2, <2>3, <2>4
<1>2. ASSUME NEW k \in Markers \ {"coldel"}, NEW m, m.kind = k, m.ts >= v.ts
      PROVE  Shadows(m, v)
  BY <1>2 DEF Shadows, Markers
<1>3. ASSUME NEW k, Reaching(k) = {}
      PROVE  \A f \in Of(F, {k}) : f.ts < v.ts
  BY <1>3, <1>0 DEF Of
<1>4. CASE Reaching("partdel") # {}
  <2>1. PICK m \in Newest(Of(F, {"partdel"})) :
             m \in F /\ m.kind = "partdel" /\ m.ts >= v.ts /\ ~purgeable(m, g)
    BY <1>1, <1>4
  <2> QED BY <2>1, <1>2, WideDeletionKept DEF Markers
<1>5. CASE Reaching("partdel") = {} /\ Reaching("rangedel") # {}
  <2>1. PICK m \in Newest(Of(F, {"rangedel"})) :
             m \in F /\ m.kind = "rangedel" /\ m.ts >= v.ts /\ ~purgeable(m, g)
    BY <1>1, <1>5
  <2>2. \A f \in Of(F, {"partdel"}) : m.ts > f.ts
    BY <2>1, <1>3, <1>5, <1>0 DEF Of
  <2> QED BY <2>1, <2>2, <1>2, WideDeletionKept DEF Markers
<1>6. CASE /\ Reaching("partdel") = {} /\ Reaching("rangedel") = {}
           /\ Reaching("rowdel") # {}
  <2>1. PICK m \in Newest(Of(F, {"rowdel"})) :
             m \in F /\ m.kind = "rowdel" /\ m.ts >= v.ts /\ ~purgeable(m, g)
    BY <1>1, <1>6
  <2>2. \A f \in Of(F, {"rangedel", "partdel"}) : m.ts > f.ts
    BY <2>1, <1>3, <1>6, <1>0 DEF Of
  <2> QED BY <2>1, <2>2, <1>2, RowDeletionKept DEF Markers
<1>7. CASE /\ \A k \in {"partdel", "rangedel", "rowdel"} : Reaching(k) = {}
           /\ v.key \in Elements /\ Reaching("coldel") # {}
  <2>1. PICK m \in Newest(Of(F, {"coldel"})) :
             m \in F /\ m.kind = "coldel" /\ m.ts >= v.ts /\ ~purgeable(m, g)
    BY <1>1, <1>7
  <2>2. \A f \in Of(F, {"rowdel", "rangedel", "partdel"}) : m.ts > f.ts
    BY <2>1, <1>3, <1>7, <1>0 DEF Of
  <2>3. Shadows(m, v)
    BY <2>1, <1>7 DEF Shadows
  <2> QED BY <2>1, <2>2, <2>3, ComplexDeletionKept
<1>8. CASE /\ \A k \in {"partdel", "rangedel", "rowdel"} : Reaching(k) = {}
           /\ v.key \in Elements => Reaching("coldel") = {}
  <2> DEFINE Same == {c \in Of(F, CellKinds) : c.key = v.key}
  <2>1. d \in Same /\ d.ts >= v.ts /\ (d.ts > v.ts \/ d.kind = "celldel")
    BY <1>8, <1>0 DEF Shadows, Of, CellKinds
  <2>2. PICK t \in Same : \A f \in Same : f.ts <= t.ts
    BY NewestExists, <2>1 DEF Of
  <2>3. PICK x \in Same : /\ x.ts = t.ts
                          /\ \A e \in Same : ~cell_wins(e, x)
    <3>1. CASE \E y \in Same : y.ts = t.ts /\ y.kind = "celldel"
      <4>1. PICK y \in Same : y.ts = t.ts /\ y.kind = "celldel"
        BY <3>1
      <4>2. \A e \in Same : ~cell_wins(e, y)
        BY <4>1, <2>2, <1>0 DEF cell_wins, Of
      <4> QED BY <4>1, <4>2
    <3>2. CASE \A y \in Same : y.ts = t.ts => y.kind # "celldel"
      <4>1. \A e \in Same : ~cell_wins(e, t)
        BY <3>2, <2>2, <1>0 DEF cell_wins, Of
      <4> QED BY <4>1
    <3> QED BY <3>1, <3>2
  <2>4. /\ x \in F /\ x.kind \in CellKinds /\ x.key = v.key /\ x.ts >= v.ts
        /\ x.ts > v.ts \/ x.kind = "celldel"
    <3>1. x \in F /\ x.kind \in CellKinds /\ x.key = v.key
      BY DEF Of
    <3>2. x.ts >= d.ts
      BY <2>1, <2>2, <2>3
    <3>3. ASSUME x.ts = v.ts PROVE x.kind = "celldel"
      <4>1. d.ts = x.ts /\ d.kind = "celldel"
        BY <3>2, <3>3, <2>1, <3>1, <1>0
      <4>2. ~cell_wins(d, x)
        BY <2>1, <2>3
      <4> QED BY <4>1, <4>2, <3>1 DEF cell_wins, CellKinds
    <3> QED BY <3>1, <3>2, <3>3, <2>1, <1>0
  <2>5. \A f \in Of(F, {"rangedel", "partdel"}) : x.ts > f.ts
    BY <2>4, <1>3, <1>8, <1>0 DEF Of
  <2>6. \A f \in Of(F, {"rowdel"}) : x.ts > f.ts
    BY <2>4, <1>3, <1>8, <1>0 DEF Of
  <2>7. x.key \in Elements => \A f \in Of(F, {"coldel"}) : x.ts > f.ts
    BY <2>4, <1>3, <1>8, <1>0 DEF Of
  <2>8. \A e \in Of(F, CellKinds) : e.key = x.key => ~cell_wins(e, x)
    BY <2>3, <2>4
  <2>9. CASE x \in Cells(F, g)
    <3>1. ~purgeable(x, g)
      BY <2>4, <1>0, GuardedKept
    <3>2. Shadows(x, v)
      BY <2>4 DEF Shadows, CellKinds
    <3> QED BY <2>9, <3>1, <3>2, <2>5, CellKept
  <2>10. CASE Converted(x) \in Cells(F, g) /\ x.kind = "cell"
    <3>1. x \in Fact
      BY <2>4
    <3>2. Converted(x).kind = "celldel" /\ Converted(x).key = x.key /\ Converted(x).ts = x.ts
      BY <3>1, ConvertedFields
    <3>3. Converted(x).ldt = x.ldt - x.ttl
      BY <3>1 DEF Converted, Fact
    <3>4. Converted(x).ldt \in Int /\ Converted(x).ldt >= 0
      BY <3>3, <2>4, <1>0
    <3>5. ~purgeable(Converted(x), g)
      <4> HIDE DEF Same
      <4> QED BY <2>4, <3>2, <3>4, GuardedKept
    <3>6. Shadows(Converted(x), v)
      BY <3>2, <2>4 DEF Shadows
    <3> QED BY <2>10, <3>2, <3>5, <3>6, <2>5, CellKept
  <2> QED BY <2>9, <2>10, <2>4, <2>5, <2>6, <2>7, <2>8, CellsIntro DEF Of
<1> QED BY <1>4, <1>5, <1>6, <1>7, <1>8

\* A reader that sees the output of merge_partition_rows instead of its inputs
\* F, next to the facts O of everything the merge left out, sees the same
\* cells at every time from the merge on: whatever was purged, expired or
\* shadowed, nothing deleted comes back and nothing live is lost.  It takes
\* that every cell the purge could uncover is guarded, that a cell has one
\* value per timestamp, and that a cell's TTL is not longer than its expiry.
THEOREM MergeKeepsView ==
  ASSUME NEW F \in SUBSET Fact, NEW O \in SUBSET Fact, NEW g \in GcSettings,
         NEW now \in Nat, g.now <= now,
         \A f \in F : f.ts <= Infinity /\ f.ttl <= f.ldt,
         \A f, e \in F \cup O :
            f.kind = "cell" /\ e.kind = "cell" /\ f.key = e.key /\ f.ts = e.ts => f = e,
         \A o \in O : o.kind = "cell" => Guarded(F, g, o)
  PROVE  Visible(merge_partition_rows(F, g) \cup O, now) = Visible(F \cup O, now)
<1> DEFINE M == merge_partition_rows(F, g)
<1>1. \A f \in F \cup O : f.ts \in Nat /\ f.ldt \in Nat /\ f.ttl \in Nat
  BY DEF Fact
<1>2. ASSUME NEW v \in Visible(F \cup O, now) PROVE v \in Visible(M \cup O, now)
  <2>1. /\ v \in F \cup O /\ v.kind = "cell" /\ ~expired(v, now)
        /\ \A d \in F \cup O : ~Shadows(d, v)
    BY <1>2 DEF Visible, Of
  <2>2. ASSUME v \in F PROVE v \in M
    <3>1. v \in Of(F, CellKinds)
      BY <2>1, <2>2 DEF Of, CellKinds
    <3>2. \A e \in Of(F, CellKinds) : e.key = v.key => ~cell_wins(e, v)
      BY <2>1, <1>1 DEF Of, CellKinds, cell_wins, Shadows
    <3>3. v.key \in Elements => \A d \in Of(F, {"coldel"}) : v.ts > d.ts
      BY <2>1, <1>1 DEF Of, Shadows
    <3>4. \A d \in Of(F, {"rowdel", "rangedel", "partdel"}) : v.ts > d.ts
      BY <2>1, <1>1 DEF Of, Shadows
    <3>5. ~expired(v, g.now)
      BY <2>1, <1>1 DEF expired, GcSettings
    <3>6. v \in Cells(F, g)
      BY <3>1, <3>2, <3>3, <3>4, <3>5
      DEF Cells, expire_ttl_cells, shadow_by_row_deletion, apply_complex_deletions,
          resolve_cell_winners, element_survives_complex_deletion, Of
    <3> QED BY <2>1, <3>4, <3>6, CellKept DEF Of
  <2>3. ASSUME NEW d \in M, Shadows(d, v) PROVE FALSE
    <3>1. CASE d \in F
      BY <3>1, <2>1, <2>3
    <3>2. CASE d \in Cells(F, g)
      <4>1. PICK c \in Of(F, CellKinds) :
                    \/ d = c
                    \/ d = Converted(c) /\ c.kind = "cell" /\ expired(c, g.now)
        BY <3>2, CellsElim
      <4>2. CASE d = Converted(c) /\ c.kind = "cell" /\ expired(c, g.now)
        <5>1. c \in F /\ c \in Fact
          BY DEF Of
        <5>2. c.key = v.key /\ c.ts >= v.ts
          BY <4>2, <5>1, <2>3, ConvertedFields DEF Shadows
        <5>3. c.ts = v.ts
          BY <4>2, <5>1, <5>2, <2>1, <1>1 DEF Shadows
        <5>4. c = v
          BY <4>2, <5>1, <5>2, <5>3, <2>1
        <5>5. g.now \in Nat
          BY DEF GcSettings
        <5> QED BY <4>2, <5>1, <5>4, <5>5, <2>1, <1>1 DEF expired
      <4> QED BY <4>1, <4>2, <3>1 DEF Of
    <3> QED BY <2>3, <3>1, <3>2, MergedElim DEF Of
  <2> QED BY <2>1, <2>2, <2>3 DEF Visible, Of
<1>3. ASSUME NEW v \in Visible(M \cup O, now) PROVE v \in Visible(F \cup O, now)
  <2>1. /\ v \in M \cup O /\ v.kind = "cell" /\ ~expired(v, now)
        /\ \A d \in M \cup O : ~Shadows(d, v)
    BY <1>3 DEF Visible, Of
  <2>2. ASSUME v \in M
        PROVE  v \in F /\ \A d \in F : ~Shadows(d, v)
    <3>1. v \in Cells(F, g) /\ \A d \in Of(F, {"rangedel", "partdel"}) : v.ts > d.ts
      BY <2>1, <2>2, MergedElim DEF Of, Markers
    <3>2. PICK c \in Of(F, CellKinds) :
            /\ \A e \in Of(F, CellKinds) : e.key = c.key => ~cell_wins(e, c)
            /\ c.key \in Elements => \A d \in Of(F, {"coldel"}) : c.ts > d.ts
            /\ \A d \in Of(F, {"rowdel"}) : c.ts > d.ts
            /\ v = c \/ v = Converted(c)
      BY <3>1, CellsElim
    <3>3. v = c
      BY <3>2, <2>1, ConvertedFields DEF Of
    <3>4. ASSUME NEW d \in F, Shadows(d, v) PROVE FALSE
      <4>1. d.ts \in Nat /\ v.ts \in Nat
        BY <1>1, <3>3 DEF Of
      <4>2. CASE d.kind \in CellKinds
        BY <4>1, <4>2, <3>2, <3>3, <3>4, <2>1 DEF Of, Shadows, CellKinds, cell_wins
      <4>3. CASE d.kind = "coldel"
        BY <4>1, <4>3, <3>2, <3>3, <3>4 DEF Of, Shadows
      <4>4. CASE d.kind = "rowdel"
        BY <4>1, <4>4, <3>2, <3>3, <3>4 DEF Of, Shadows
      <4>5. CASE d.kind \in {"rangedel", "partdel"}
        BY <4>1, <4>5, <3>1, <3>4 DEF Of, Shadows
      <4> QED BY <4>2, <4>3, <4>4, <4>5, <3>4 DEF Shadows, CellKinds
    <3> QED BY <3>3, <3>4 DEF Of
  <2>3. ASSUME v \in O, NEW d \in F, Shadows(d, v) PROVE FALSE
    <3>1. v \in Fact /\ Guarded(F, g, v)
      BY <2>1, <2>3
    <3>2. \E x \in M : Shadows(x, v)
      BY <3>1, <2>3, ShadowKept
    <3> QED BY <3>2, <2>1
  <2> QED BY <2>1, <2>2, <2>3 DEF Visible, Of
<1> QED BY <1>2, <1>3

=============================================================================
