------------------------ MODULE TombstonePurgeProofs ------------------------
(***************************************************************************)
(* Purging deletions never brings data back: for every row, every bound,   *)
(* gc_grace, TTL and threshold, and every interleaving of writes, flushes  *)
(* and a merge.  The merge itself is ReconcileProofs; the rest is that the *)
(* bounds taken when the merge starts still guard the facts around it when *)
(* it is published.                                                        *)
(***************************************************************************)
EXTENDS TombstonePurge, ReconcileProofs, FiniteSetTheorems

\* The SSTables a merge is about to delete, and those of them that a failed
\* deletion or a restart may leave.
Selected == merge.inputs \cup merge.dropped
Doomed == IF merge.phase = "deleting" THEN Selected ELSE {}
Leftovers == IF merge.phase = "deleting" /\ merge.g.gc_before = 0
             THEN SUBSET Doomed ELSE {{}}

\* The facts a running merge has to do with, and those around it.
Merged == AllFacts(merge.inputs)
Around == mem \cup AllFacts(sst \ Selected)

ActiveMerge == [phase : {"running", "deleting"}, inputs : SUBSET SSTable,
                dropped : SUBSET SSTable, g : GcSettings]

Types ==
    /\ mem \subseteq Fact /\ log \subseteq Fact /\ sst \subseteq SSTable
    /\ clock \in Nat /\ clock <= MaxClock
    /\ merge \in ActiveMerge \cup {NoMerge}

\* Every write has a timestamp of its own, newer than all before it.
LogOrder ==
    /\ IsFiniteSet(log) /\ Cardinality(log) <= MaxWrites
    /\ \A f \in log : 1 <= f.ts /\ f.ts <= Cardinality(log)
    /\ \A f, e \in log : f.ts = e.ts => f = e

\* A value in the store is one that was written; a deletion may be an expired
\* value.
StoredFacts ==
    \A f \in mem \cup AllFacts(sst) :
        /\ 1 <= f.ts /\ f.ts <= Cardinality(log)
        /\ f.ttl <= f.ldt
        /\ f.kind = "cell" => f \in log /\ (f.ttl = 0 => f.ldt = Infinity)

MemNewest == \A f \in mem : \A s \in AllFacts(sst) : s.ts < f.ts

MinTimestamps ==
    \A t \in sst : 1 <= t.min_ts /\ \A f \in t.facts : t.min_ts <= f.ts

MergeSound ==
    merge.phase # "none" =>
        /\ Selected \subseteq sst
        /\ merge.g.gc_before <= clock /\ merge.g.now <= clock

\* The bounds hold of the facts around the merge, flushed since or not.
BoundsHold ==
    merge.phase = "running" =>
        /\ merge.inputs # {}
        /\ merge.g.gc_before = 0 => merge.dropped = {}
        /\ \A o \in Around : Guarded(Merged, merge.g, o)
        /\ \A d \in AllFacts(merge.dropped) :
              /\ d.ldt < merge.g.gc_before
              /\ \A o \in Around : d.ts < o.ts
              /\ \A o \in Merged : d.ts < o.ts \/ o.ldt < merge.g.gc_before

\* What is left once the merge has deleted its inputs, and some of them if
\* nothing was purged, shows what was written, now and later.
Shows(X) == \A t \in Nat : clock <= t => Visible(X, t) = Visible(log, t)

ViewKept == \A L \in Leftovers : Shows(mem \cup AllFacts((sst \ Doomed) \cup L))

PurgeInv ==
    /\ Types /\ LogOrder /\ StoredFacts /\ MemNewest /\ MinTimestamps
    /\ MergeSound /\ BoundsHold /\ ViewKept

-----------------------------------------------------------------------------
\* Every non-empty set of naturals has a least element.
LEMMA LeastOf ==
  ASSUME NEW S, S \subseteq Nat, S # {}
  PROVE  Least(S) \in S /\ \A y \in S : Least(S) <= y
<1> DEFINE R == OpToRel(<, Nat)
<1>1. \E x \in S : \A y \in S : ~(<<y, x>> \in R)
  <2>1. IsWellFoundedOn(R, Nat)
    BY NatLessThanWellFounded
  <2> HIDE DEF R
  <2> QED BY <2>1, WFMin
<1>2. PICK x \in S : \A y \in S : ~(<<y, x>> \in R)
  BY <1>1
<1>3. \A y \in S : x <= y
  <2> SUFFICES ASSUME NEW y \in S, y < x PROVE FALSE
    OBVIOUS
  <2>1. <<y, x>> \in R
    BY <1>2 DEF OpToRel
  <2> QED BY <2>1, <1>2
<1>4. \E z \in S : \A y \in S : z <= y
  BY <1>3
<1> QED BY <1>4 DEF Least

\* The facts of a set of SSTables.
LEMMA AllFactsUnion ==
  ASSUME NEW S, NEW T
  PROVE  /\ AllFacts(S \cup T) = AllFacts(S) \cup AllFacts(T)
         /\ S \subseteq T => AllFacts(S) \subseteq AllFacts(T)
         /\ AllFacts({}) = {}
         /\ \A t \in S : t.facts \subseteq AllFacts(S)
         /\ \A f \in AllFacts(S) : \E t \in S : f \in t.facts
BY DEF AllFacts

\* A write that is newer than all a reader sees adds itself and hides what it
\* shadows: two stores that show the same still do after it.
LEMMA NewestWrite ==
  ASSUME NEW X, NEW Y, NEW f \in Fact, NEW t \in Nat,
         X \subseteq Fact, Y \subseteq Fact,
         \A x \in X \cup Y : x.ts < f.ts,
         Visible(X, t) = Visible(Y, t)
  PROVE  Visible(X \cup {f}, t) = Visible(Y \cup {f}, t)
<1>1. ASSUME NEW Z \in SUBSET Fact, \A z \in Z : z.ts < f.ts
      PROVE  Visible(Z \cup {f}, t) =
                {c \in Visible(Z, t) : ~Shadows(f, c)}
                    \cup {c \in {f} : c.kind = "cell" /\ ~expired(c, t)}
  <2>1. ~Shadows(f, f) \/ f.kind # "cell"
    BY DEF Shadows, Fact
  <2>2. \A z \in Z : ~Shadows(z, f)
    <3> SUFFICES ASSUME NEW z \in Z, Shadows(z, f) PROVE FALSE
      OBVIOUS
    <3>1. z.ts \in Nat /\ f.ts \in Nat /\ z.ts < f.ts
      BY <1>1 DEF Fact
    <3> QED BY <3>1 DEF Shadows
  <2> QED BY <2>1, <2>2 DEF Visible, Of
<1> QED BY <1>1

\* Expired facts that are older than every value that can be seen show nothing
\* and hide nothing.
LEMMA DropExpired ==
  ASSUME NEW X, NEW D, NEW t,
         \A d \in D : d.kind = "cell" => expired(d, t),
         \A d \in D : \A c \in X : c.kind = "cell" /\ ~expired(c, t) => ~Shadows(d, c)
  PROVE  Visible(X \cup D, t) = Visible(X, t)
BY DEF Visible, Of

\* The facts a merge writes: timestamps of its inputs, and their values.
LEMMA MergedFacts ==
  ASSUME NEW F \in SUBSET Fact, NEW g \in GcSettings, \A f \in F : f.ttl <= f.ldt,
         NEW x \in merge_partition_rows(F, g)
  PROVE  /\ x \in Fact /\ x.ttl <= x.ldt
         /\ \E f \in F : x.ts = f.ts
         /\ x.kind = "cell" => x \in F
<1>1. CASE x \in F
  BY <1>1
<1>2. CASE x \in Cells(F, g)
  <2>1. PICK c \in Of(F, CellKinds) :
                \/ x = c
                \/ x = Converted(c) /\ c.kind = "cell" /\ expired(c, g.now)
    BY <1>2, CellsElim
  <2>2. c \in F /\ c \in Fact /\ c.ttl <= c.ldt
    BY DEF Of
  <2>3. CASE x = Converted(c)
    <3>1. /\ x = [c EXCEPT !.kind = "celldel", !.ttl = 0, !.ldt = c.ldt - c.ttl]
          /\ c.ldt \in Nat /\ c.ttl \in Nat
      BY <2>2, <2>3 DEF Converted, Fact
    <3>2. c.ldt - c.ttl \in Nat
      BY <3>1, <2>2
    <3>3. x \in Fact /\ x.ttl = 0 /\ x.ldt = c.ldt - c.ttl
      BY <3>1, <3>2, <2>2 DEF Fact, CellKinds
    <3>4. x.kind = "celldel" /\ x.ts = c.ts
      BY <2>2, <2>3, ConvertedFields
    <3> QED BY <3>2, <3>3, <3>4, <2>2
  <2> QED BY <2>1, <2>2, <2>3, <1>1
<1> QED BY <1>1, <1>2, MergedElim DEF Of

\* The fields of an active merge.
LEMMA ActiveMergeFields ==
  ASSUME Types, merge.phase # "none"
  PROVE  /\ merge \in ActiveMerge
         /\ merge.inputs \subseteq SSTable /\ merge.dropped \subseteq SSTable
         /\ merge.g \in GcSettings
         /\ merge.g.gc_before \in Nat /\ merge.g.now \in Nat
BY DEF Types, NoMerge, ActiveMerge, GcSettings

\* The type of what a reader sees.
LEMMA StoredTypes ==
  ASSUME Types
  PROVE  /\ AllFacts(sst) \subseteq Fact
         /\ \A t \in sst : t.min_ts \in Nat /\ t.facts \subseteq Fact
         /\ \A f \in mem \cup log \cup AllFacts(sst) :
               f.ts \in Nat /\ f.ldt \in Nat /\ f.ttl \in Nat
<1>1. \A t \in sst : t.min_ts \in Nat /\ t.facts \subseteq Fact
  BY DEF Types, SSTable
<1>2. AllFacts(sst) \subseteq Fact
  BY <1>1 DEF AllFacts
<1>3. \A f \in mem \cup log \cup AllFacts(sst) : f \in Fact
  BY <1>2 DEF Types
<1> QED BY <1>1, <1>2, <1>3 DEF Fact

\* What a reader may see once inputs were left behind is still in the store.
LEMMA StoreBounds ==
  ASSUME PurgeInv, NEW L \in Leftovers
  PROVE  /\ L \subseteq sst /\ Doomed \subseteq sst
         /\ AllFacts((sst \ Doomed) \cup L) \subseteq AllFacts(sst)
<1>1. Doomed \subseteq sst
  BY DEF PurgeInv, MergeSound, Doomed
<1>2. L \subseteq Doomed
  BY DEF Leftovers
<1> QED BY <1>1, <1>2 DEF AllFacts

\* The empty table.
LEMMA InitPurge == Init => PurgeInv
<1> SUFFICES ASSUME Init PROVE PurgeInv
  OBVIOUS
<1> USE TombstonePurgeAssumption DEF Init
<1>1. AllFacts(sst) = {} /\ merge.phase = "none"
  BY DEF AllFacts, NoMerge
<1>2. Types
  BY DEF Types
<1>3. LogOrder
  BY FS_EmptySet DEF LogOrder
<1>4. ViewKept
  <2>1. Leftovers = {{}} /\ Doomed = {}
    BY <1>1 DEF Leftovers, Doomed
  <2>2. mem \cup AllFacts((sst \ Doomed) \cup {}) = log
    BY <1>1, <2>1 DEF AllFacts
  <2> QED BY <2>1, <2>2 DEF ViewKept, Shows
<1> QED
  BY <1>1, <1>2, <1>3, <1>4
  DEF PurgeInv, StoredFacts, MemNewest, MinTimestamps, MergeSound, BoundsHold

\* Time passes.
LEMMA TickPurge == PurgeInv /\ tick => PurgeInv'
<1> SUFFICES ASSUME PurgeInv, tick PROVE PurgeInv'
  OBVIOUS
<1> USE TombstonePurgeAssumption
<1>1. /\ clock' = clock + 1 /\ clock < MaxClock /\ clock \in Nat
      /\ mem' = mem /\ sst' = sst /\ merge' = merge /\ log' = log
  BY DEF tick, PurgeInv, Types
<1>2. Types'
  BY <1>1 DEF PurgeInv, Types, ActiveMerge, SSTable
<1>3. LogOrder' /\ StoredFacts' /\ MemNewest' /\ MinTimestamps' /\ BoundsHold'
  BY <1>1 DEF PurgeInv, LogOrder, StoredFacts, MemNewest, MinTimestamps, BoundsHold,
              Around, Merged, Selected
<1>4. MergeSound'
  <2> SUFFICES ASSUME merge.phase # "none"
               PROVE  /\ Selected \subseteq sst
                      /\ merge.g.gc_before <= clock + 1 /\ merge.g.now <= clock + 1
    BY <1>1 DEF MergeSound, Selected
  <2> QED BY <1>1, ActiveMergeFields DEF PurgeInv, MergeSound
<1>5. ViewKept'
  <2>1. Leftovers' = Leftovers /\ Doomed' = Doomed
    BY <1>1 DEF Leftovers, Doomed, Selected
  <2>2. ASSUME NEW L \in Leftovers, NEW t \in Nat, clock + 1 <= t
        PROVE  Visible(mem \cup AllFacts((sst \ Doomed) \cup L), t) = Visible(log, t)
    <3>1. clock <= t
      BY <1>1, <2>2
    <3> QED BY <3>1 DEF PurgeInv, ViewKept, Shows
  <2> QED BY <1>1, <2>1, <2>2 DEF ViewKept, Shows
<1> QED BY <1>2, <1>3, <1>4, <1>5 DEF PurgeInv

\* A write is newer than everything in the store.
LEMMA WritePurge ==
  ASSUME PurgeInv, ~Backdated, NEW ts \in Timestamps, NEW f \in Writable(ts), write(f)
  PROVE  PurgeInv'
<1> USE TombstonePurgeAssumption, InfinityAssumption
<1> DEFINE n == Cardinality(log)
<1>1. /\ mem' = mem \cup {f} /\ log' = log \cup {f} /\ n < MaxWrites
      /\ sst' = sst /\ merge' = merge /\ clock' = clock
  BY DEF write
<1>2. n \in Nat /\ IsFiniteSet(log) /\ clock \in Nat
  BY FS_CardinalityType DEF PurgeInv, LogOrder, Types
<1>3. ts = n + 1
  BY DEF Timestamps
<1>4. /\ f \in Fact /\ f.ts = n + 1 /\ f.ttl <= f.ldt
      /\ f.kind = "cell" => (f.ttl = 0 => f.ldt = Infinity)
  BY <1>2, <1>3 DEF Writable, Fact, Markers, CellKinds
<1>5. \A e \in mem \cup log \cup AllFacts(sst) : e.ts \in Nat /\ 1 <= e.ts /\ e.ts <= n
  BY StoredTypes DEF PurgeInv, LogOrder, StoredFacts
<1>6. f \notin log
  BY <1>2, <1>4, <1>5
<1>7. Cardinality(log') = n + 1 /\ IsFiniteSet(log')
  BY <1>1, <1>2, <1>6, FS_AddElement
<1>8. Types'
  BY <1>1, <1>4 DEF PurgeInv, Types, ActiveMerge, SSTable
<1>9. LogOrder'
  <2>1. \A e \in log \cup {f} : 1 <= e.ts /\ e.ts <= n + 1
    BY <1>2, <1>4, <1>5
  <2>2. \A e \in log : e.ts # f.ts
    BY <1>2, <1>4, <1>5
  <2>3. \A e, h \in log : e.ts = h.ts => e = h
    BY DEF PurgeInv, LogOrder
  <2>4. \A e, h \in log \cup {f} : e.ts = h.ts => e = h
    BY <2>2, <2>3
  <2>5. n + 1 <= MaxWrites
    BY <1>1, <1>2
  <2> HIDE DEF n
  <2> QED BY <1>1, <1>7, <2>1, <2>4, <2>5 DEF LogOrder
<1>10. StoredFacts'
  <2> SUFFICES ASSUME NEW e \in mem \cup {f} \cup AllFacts(sst)
               PROVE  /\ 1 <= e.ts /\ e.ts <= n + 1 /\ e.ttl <= e.ldt
                      /\ e.kind = "cell" => e \in log \cup {f} /\ (e.ttl = 0 => e.ldt = Infinity)
    BY <1>1, <1>7 DEF StoredFacts
  <2>1. CASE e = f
    BY <1>2, <1>4, <2>1
  <2>2. CASE e \in mem \cup AllFacts(sst)
    BY <1>2, <1>5, <2>2 DEF PurgeInv, StoredFacts
  <2> QED BY <2>1, <2>2
<1>11. MemNewest'
  BY <1>1, <1>2, <1>4, <1>5 DEF PurgeInv, MemNewest
<1>12. MinTimestamps' /\ MergeSound'
  BY <1>1 DEF PurgeInv, MinTimestamps, MergeSound, Selected
<1>13. BoundsHold'
  <2> SUFFICES ASSUME merge.phase = "running" PROVE BoundsHold'
    BY <1>1 DEF BoundsHold
  <2>1. Selected \subseteq sst
    BY DEF PurgeInv, MergeSound
  <2>2. /\ Around' = Around \cup {f} /\ Merged' = Merged
        /\ \A d \in Merged \cup AllFacts(merge.dropped) : d.ts < f.ts
    <3>1. Merged \subseteq AllFacts(sst) /\ AllFacts(merge.dropped) \subseteq AllFacts(sst)
      BY <2>1 DEF Merged, AllFacts, Selected
    <3>2. \A d \in AllFacts(sst) : d.ts < f.ts
      BY <1>2, <1>4, <1>5
    <3> QED BY <1>1, <3>1, <3>2 DEF Around, Merged, Selected
  <2>3. Guarded(Merged, merge.g, f)
    BY <2>2 DEF Guarded
  <2> QED BY <1>1, <2>2, <2>3 DEF PurgeInv, BoundsHold
<1>14. ViewKept'
  <2>1. Leftovers' = Leftovers /\ Doomed' = Doomed
    BY <1>1 DEF Leftovers, Doomed, Selected
  <2>2. ASSUME NEW L \in Leftovers, NEW t \in Nat, clock <= t
        PROVE  Visible(mem \cup {f} \cup AllFacts((sst \ Doomed) \cup L), t) = Visible(log \cup {f}, t)
    <3> DEFINE X == mem \cup AllFacts((sst \ Doomed) \cup L)
    <3>1. X \subseteq mem \cup AllFacts(sst)
      BY StoreBounds
    <3>2. X \subseteq Fact /\ log \subseteq Fact
      BY <3>1, StoredTypes DEF PurgeInv, Types
    <3>3. \A x \in X \cup log : x.ts < f.ts
      BY <3>1, <1>2, <1>4, <1>5
    <3>4. Visible(X, t) = Visible(log, t)
      BY <2>2 DEF PurgeInv, ViewKept, Shows
    <3>5. mem \cup {f} \cup AllFacts((sst \ Doomed) \cup L) = X \cup {f}
      OBVIOUS
    <3> HIDE DEF X
    <3>6. Visible(X \cup {f}, t) = Visible(log \cup {f}, t)
      BY <3>2, <3>3, <3>4, <1>4, NewestWrite
    <3> QED BY <3>5, <3>6
  <2> QED BY <1>1, <2>1, <2>2 DEF ViewKept, Shows
<1> QED BY <1>8, <1>9, <1>10, <1>11, <1>12, <1>13, <1>14 DEF PurgeInv

\* A flush moves facts: a reader sees the same, and so does a running merge.
LEMMA FlushPurge ==
  ASSUME PurgeInv, flush
  PROVE  PurgeInv'
<1> DEFINE T == {f.ts : f \in mem}
           u == [facts |-> mem, min_ts |-> Least(T)]
<1>1. /\ mem # {} /\ sst' = sst \cup {u} /\ mem' = {}
      /\ merge' = merge /\ clock' = clock /\ log' = log
  BY DEF flush
<1>2. mem \subseteq Fact /\ \A f \in mem : f.ts \in Nat
  BY StoredTypes DEF PurgeInv, Types
<1>3. Least(T) \in T /\ \A f \in mem : Least(T) <= f.ts
  <2>1. T \subseteq Nat /\ T # {}
    BY <1>1, <1>2
  <2>2. Least(T) \in T /\ \A y \in T : Least(T) <= y
    <3> HIDE DEF T
    <3> QED BY <2>1, LeastOf
  <2> QED BY <2>2
<1>4. u \in SSTable /\ u.facts = mem /\ 1 <= u.min_ts
  <2>1. 1 <= Least(T) /\ Least(T) \in Nat
    BY <1>2, <1>3 DEF PurgeInv, StoredFacts
  <2> HIDE DEF T
  <2> QED BY <1>2, <2>1 DEF SSTable
<1> HIDE DEF u
<1>5. u \notin sst
  <2>1. PICK f \in mem : TRUE
    BY <1>1
  <2> SUFFICES ASSUME u \in sst PROVE FALSE
    OBVIOUS
  <2>2. f \in AllFacts(sst)
    BY <1>4, <2>1 DEF AllFacts
  <2>3. f.ts < f.ts
    BY <2>2 DEF PurgeInv, MemNewest
  <2> QED BY <2>3, <1>2
<1>6. ASSUME NEW S, NEW D, D \subseteq sst
      PROVE  mem' \cup AllFacts((sst' \ D) \cup S) = mem \cup AllFacts((sst \ D) \cup S)
  <2>1. (sst' \ D) \cup S = ((sst \ D) \cup S) \cup {u}
    BY <1>1, <1>5, <1>6
  <2>2. AllFacts({u}) = mem
    BY <1>4 DEF AllFacts
  <2> QED BY <1>1, <2>1, <2>2, AllFactsUnion
<1>7. mem' \cup AllFacts(sst') = mem \cup AllFacts(sst)
  <2>1. mem' \cup AllFacts((sst' \ {}) \cup {}) = mem \cup AllFacts((sst \ {}) \cup {})
    BY <1>6
  <2>2. (sst' \ {}) \cup {} = sst' /\ (sst \ {}) \cup {} = sst
    OBVIOUS
  <2> QED BY <2>1, <2>2
<1>8. Types'
  BY <1>1, <1>4 DEF PurgeInv, Types, ActiveMerge, SSTable
<1>9. LogOrder'
  BY <1>1 DEF PurgeInv, LogOrder
<1>10. StoredFacts'
  BY <1>1, <1>7 DEF PurgeInv, StoredFacts
<1>11. MemNewest'
  BY <1>1 DEF MemNewest
<1>12. MinTimestamps'
  <2>1. u.min_ts = Least(T)
    BY DEF u
  <2> HIDE DEF T
  <2> QED BY <1>1, <1>3, <1>4, <2>1 DEF PurgeInv, MinTimestamps
<1>13. MergeSound'
  BY <1>1 DEF PurgeInv, MergeSound, Selected
<1>14. BoundsHold'
  <2> SUFFICES ASSUME merge.phase = "running" PROVE BoundsHold'
    BY <1>1 DEF BoundsHold
  <2>1. Selected \subseteq sst
    BY DEF PurgeInv, MergeSound
  <2>2. mem' \cup AllFacts((sst' \ Selected) \cup {}) = mem \cup AllFacts((sst \ Selected) \cup {})
    BY <1>6, <2>1
  <2>3. (sst' \ Selected) \cup {} = sst' \ Selected /\ (sst \ Selected) \cup {} = sst \ Selected
    OBVIOUS
  <2>4. Selected' = Selected /\ Merged' = Merged
    BY <1>1 DEF Selected, Merged
  <2>5. Around' = Around
    BY <2>2, <2>3, <2>4 DEF Around
  <2> QED BY <1>1, <2>4, <2>5 DEF PurgeInv, BoundsHold
<1>15. ViewKept'
  <2>1. Leftovers' = Leftovers /\ Doomed' = Doomed
    BY <1>1 DEF Leftovers, Doomed, Selected
  <2>2. \A L \in Leftovers : mem' \cup AllFacts((sst' \ Doomed) \cup L)
                               = mem \cup AllFacts((sst \ Doomed) \cup L)
    BY <1>6, StoreBounds
  <2>3. \A L \in Leftovers : Shows(mem \cup AllFacts((sst \ Doomed) \cup L))
    BY DEF PurgeInv, ViewKept
  <2> QED BY <1>1, <2>1, <2>2, <2>3 DEF ViewKept, Shows
<1> QED
  BY <1>8, <1>9, <1>10, <1>11, <1>12, <1>13, <1>14, <1>15 DEF PurgeInv

\* The bounds that start_merge takes: they hold of the SSTables left out.
LEMMA StartMergePurge ==
  ASSUME PurgeInv, NEW selected \in SUBSET sst, NEW unread,
         start_merge(selected, unread)
  PROVE  PurgeInv'
<1> USE TombstonePurgeAssumption, InfinityAssumption
<1> DEFINE outside == sst \ selected
           before == compute_gc_before
           dropped == fully_expired_sstables(selected, outside, unread, before)
           bound == compute_max_purgeable_timestamp(outside, unread)
           g == effective_gc_settings(outside = {}, bound, before, clock)
<1>1. /\ merge.phase = "none" /\ Cardinality(selected) >= MinThreshold
      /\ mem' = mem /\ sst' = sst /\ clock' = clock /\ log' = log
  BY DEF start_merge
<1>2. PICK kept \in IF dropped = selected THEN {{t} : t \in selected}
                                          ELSE {selected \ dropped} :
           merge' = [phase |-> "running", inputs |-> kept,
                     dropped |-> dropped \ kept, g |-> g]
  BY DEF start_merge
<1>3. selected # {}
  BY <1>1, FS_EmptySet
<1>4. /\ clock \in Nat /\ before \in Nat /\ before <= clock /\ clock <= MaxClock
  BY DEF PurgeInv, Types, compute_gc_before
<1>5. dropped \subseteq selected
  BY DEF fully_expired_sstables
<1>6. /\ kept # {} /\ kept \subseteq selected /\ kept \cup (dropped \ kept) = selected
      /\ dropped \ kept # {} => \/ kept = selected \ dropped
                                \/ dropped = selected
  BY <1>2, <1>3, <1>5
<1>7. outside # {} /\ outside \cap unread = {} =>
          /\ bound \in Nat /\ bound # NoBound
          /\ \A t \in outside : bound <= t.min_ts
  <2> SUFFICES ASSUME outside # {}, outside \cap unread = {}
               PROVE  /\ bound \in Nat /\ bound # NoBound
                      /\ \A t \in outside : bound <= t.min_ts
    OBVIOUS
  <2> DEFINE T == {t.min_ts : t \in outside}
  <2>1. T \subseteq Nat /\ T # {} /\ \A x \in T : 1 <= x
    BY StoredTypes DEF PurgeInv, MinTimestamps
  <2>2. bound = Least(T)
    BY DEF compute_max_purgeable_timestamp
  <2>3. Least(T) \in T /\ \A y \in T : Least(T) <= y
    <3> HIDE DEF T
    <3> QED BY <2>1, LeastOf
  <2> HIDE DEF bound
  <2> QED BY <2>1, <2>2, <2>3 DEF NoBound
<1>8. /\ g \in GcSettings /\ g.now = clock
      /\ \/ g.gc_before = 0 /\ outside \cap unread # {}
         \/ g.gc_before = before /\ outside = {}
         \/ /\ g.gc_before = before /\ outside # {} /\ outside \cap unread = {}
            /\ g.max_purgeable = bound
  <2>1. CASE outside = {}
    <3>1. g = [now |-> clock, gc_before |-> before, max_purgeable |-> Infinity]
      BY <2>1 DEF effective_gc_settings
    <3> HIDE DEF g, before
    <3> QED BY <2>1, <3>1, <1>4 DEF GcSettings
  <2>2. CASE outside # {} /\ outside \cap unread = {}
    <3> HIDE DEF bound, before, outside
    <3>1. g = [now |-> clock, gc_before |-> before, max_purgeable |-> bound]
      BY <2>2, <1>7 DEF effective_gc_settings
    <3> HIDE DEF g
    <3> QED BY <2>2, <3>1, <1>4, <1>7 DEF GcSettings
  <2>3. CASE outside # {} /\ outside \cap unread # {}
    <3>1. bound = NoBound
      BY <2>3 DEF compute_max_purgeable_timestamp
    <3> HIDE DEF bound, before, outside
    <3>2. g = [now |-> clock, gc_before |-> 0, max_purgeable |-> 0]
      BY <2>3, <3>1 DEF effective_gc_settings
    <3> HIDE DEF g
    <3> QED BY <2>3, <3>2, <1>4 DEF GcSettings
  <2> QED BY <2>1, <2>2, <2>3
<1>u. dropped # {} => outside \cap unread = {}
  BY DEF fully_expired_sstables
<1> HIDE DEF g, before, bound
<1>9. /\ merge'.phase = "running" /\ merge'.inputs = kept
      /\ merge'.dropped = dropped \ kept /\ merge'.g = g
  <2> HIDE DEF dropped
  <2> QED BY <1>2
<1>10. Selected' = selected /\ Merged' = AllFacts(kept)
  BY <1>6, <1>9 DEF Selected, Merged
<1>11. Around' = mem \cup AllFacts(outside)
  BY <1>1, <1>10 DEF Around
<1>12. Types'
  <2>1. kept \subseteq SSTable /\ dropped \ kept \subseteq SSTable
    BY <1>5, <1>6 DEF PurgeInv, Types
  <2>2. merge' \in ActiveMerge
    <3> HIDE DEF dropped
    <3> QED BY <2>1, <1>2, <1>8 DEF ActiveMerge
  <2> QED BY <1>1, <2>2 DEF PurgeInv, Types
<1>13. LogOrder' /\ StoredFacts' /\ MemNewest' /\ MinTimestamps'
  BY <1>1 DEF PurgeInv, LogOrder, StoredFacts, MemNewest, MinTimestamps
<1>14. MergeSound'
  BY <1>1, <1>4, <1>8, <1>9, <1>10 DEF MergeSound
<1>15. BoundsHold'
  <2>1. \A f \in mem : \A d \in AllFacts(selected) : d.ts < f.ts
    BY DEF PurgeInv, MemNewest, AllFacts
  <2>2. ASSUME NEW o \in AllFacts(outside)
        PROVE  outside # {} /\ (outside \cap unread = {} => bound <= o.ts)
    <3>1. PICK t \in outside : o \in t.facts
      BY DEF AllFacts
    <3>2. t.min_ts <= o.ts /\ t.min_ts \in Nat /\ o.ts \in Nat
      BY <3>1, StoredTypes DEF PurgeInv, MinTimestamps, AllFacts
    <3> QED BY <3>1, <3>2, <1>7
  <2>3. ASSUME NEW o \in Around' PROVE Guarded(Merged', merge'.g, o)
    <3>1. CASE o \in mem
      <4>1. \A d \in AllFacts(kept) : d.ts < o.ts
        BY <3>1, <2>1, <1>6 DEF AllFacts
      <4> QED BY <4>1, <1>10 DEF Guarded
    <3>2. CASE o \in AllFacts(outside)
      <4>1. g.gc_before = 0 \/ o.ts >= g.max_purgeable
        <5>1. o.ts \in Nat
          BY <3>2, StoredTypes DEF PurgeInv, AllFacts
        <5>2. outside # {} /\ (outside \cap unread = {} => bound <= o.ts /\ bound \in Nat)
          BY <3>2, <2>2, <1>7
        <5> HIDE DEF outside
        <5> QED BY <5>1, <5>2, <1>8
      <4> QED BY <4>1, <1>9 DEF Guarded
    <3> QED BY <3>1, <3>2, <2>3, <1>11
  <2>4. ASSUME NEW x \in dropped
        PROVE  /\ x \in selected /\ is_fully_expired(x, before)
               /\ \A f \in x.facts : f.ldt < before
               /\ \A f \in x.facts : \A b \in outside : f.ts < b.min_ts
               /\ \A f \in x.facts : \A b \in selected \ dropped :
                     f.ts < b.min_ts \/ \A e \in b.facts : e.ldt < before
    <3>1. /\ x \in selected /\ is_fully_expired(x, before)
          /\ \A f \in x.facts : \A b \in outside \cup {t \in selected : ~is_fully_expired(t, before)} :
                f.ts < b.min_ts
      BY <2>4 DEF fully_expired_sstables
    <3>2. \A b \in sst : is_fully_expired(b, before) => \A e \in b.facts : e.ldt < before
      BY DEF is_fully_expired
    <3> QED BY <3>1, <3>2
  <2>5. ASSUME NEW d \in AllFacts(dropped \ kept)
        PROVE  /\ d.ldt < before
               /\ \A o \in Around' : d.ts < o.ts
               /\ \A o \in Merged' : d.ts < o.ts \/ o.ldt < before
    <3>1. PICK x \in dropped \ kept : d \in x.facts
      BY DEF AllFacts
    <3>2. d.ldt < before /\ d \in AllFacts(selected) /\ d.ts \in Nat
      BY <3>1, <2>4, <1>5, StoredTypes DEF PurgeInv, AllFacts
    <3>3. ASSUME NEW o \in AllFacts(outside) PROVE d.ts < o.ts
      <4>1. PICK b \in outside : o \in b.facts
        BY DEF AllFacts
      <4>2. b.min_ts <= o.ts /\ b.min_ts \in Nat /\ o.ts \in Nat /\ d.ts < b.min_ts
        BY <4>1, <3>1, <2>4, StoredTypes DEF PurgeInv, MinTimestamps, AllFacts
      <4> QED BY <4>2, <3>2
    <3>4. ASSUME NEW o \in AllFacts(kept) PROVE d.ts < o.ts \/ o.ldt < before
      <4>1. PICK b \in kept : o \in b.facts
        BY DEF AllFacts
      <4>2. CASE b \in dropped
        BY <4>1, <4>2, <2>4
      <4>3. CASE b \notin dropped
        <5>1. b \in selected \ dropped
          BY <4>3, <4>1, <1>6
        <5>2. b.min_ts <= o.ts /\ b.min_ts \in Nat /\ o.ts \in Nat
          BY <5>1, <4>1, StoredTypes DEF PurgeInv, MinTimestamps, AllFacts
        <5>3. d.ts < b.min_ts \/ o.ldt < before
          <6> HIDE DEF dropped
          <6> QED BY <3>1, <5>1, <4>1, <2>4
        <5> QED BY <5>2, <5>3, <3>2
      <4> QED BY <4>2, <4>3
    <3> QED BY <3>2, <3>3, <3>4, <2>1, <1>10, <1>11
  <2>6. g.gc_before = 0 => dropped \ kept = {}
    <3> SUFFICES ASSUME before = 0, NEW x \in dropped PROVE FALSE
      BY <1>8, <1>u
    <3>1. x.facts # {} /\ \A f \in x.facts : f.ldt < 0
      BY <2>4 DEF is_fully_expired
    <3>2. \A f \in x.facts : f.ldt \in Nat
      BY <2>4, StoredTypes DEF PurgeInv, AllFacts
    <3> QED BY <3>1, <3>2
  <2> HIDE DEF dropped
  <2>7. dropped # {} => g.gc_before = before
    BY <1>8, <1>u
  <2>8. AllFacts(dropped \ kept) # {} => dropped # {}
    BY DEF AllFacts
  <2> QED BY <2>3, <2>5, <2>6, <2>7, <2>8, <1>6, <1>9 DEF BoundsHold
<1>16. ViewKept'
  <2>1. /\ Leftovers = {{}} /\ Leftovers' = {{}}
        /\ Doomed = {} /\ Doomed' = {}
    BY <1>1, <1>9 DEF Leftovers, Doomed
  <2> QED BY <2>1, <1>1 DEF PurgeInv, ViewKept, Shows
<1> QED BY <1>12, <1>13, <1>14, <1>15, <1>16 DEF PurgeInv

\* A value in the store whose expiry is before the purge bound of the merge has
\* expired for good.
LEMMA BeforeBoundExpired ==
  ASSUME PurgeInv, merge.phase = "running", NEW c \in mem \cup AllFacts(sst),
         c.kind = "cell", c.ldt < merge.g.gc_before, NEW t \in Nat, clock <= t
  PROVE  expired(c, t)
<1> USE TombstonePurgeAssumption, InfinityAssumption
<1>1. c.ldt \in Nat /\ c.ttl \in Nat /\ merge.g.gc_before \in Nat /\ clock \in Nat
  BY StoredTypes, ActiveMergeFields DEF PurgeInv, Types
<1>2. merge.g.gc_before <= clock /\ clock <= MaxClock /\ (c.ttl = 0 => c.ldt = Infinity)
  BY DEF PurgeInv, MergeSound, Types, StoredFacts
<1> QED BY <1>1, <1>2 DEF expired

\* The SSTables dropped unread hide nothing and show nothing.
LEMMA DroppedUnseen ==
  ASSUME PurgeInv, merge.phase = "running", NEW t \in Nat, clock <= t
  PROVE  Visible(Merged \cup Around, t) = Visible(log, t)
<1> DEFINE D == AllFacts(merge.dropped)
           X == Merged \cup Around
<1>1. Selected \subseteq sst
  BY DEF PurgeInv, MergeSound
<1>2. X \cup D = mem \cup AllFacts(sst)
  BY <1>1 DEF Merged, Around, Selected, AllFacts
<1>3. Visible(X \cup D, t) = Visible(log, t)
  <2>1. {} \in Leftovers /\ (sst \ Doomed) \cup {} = sst
    BY DEF Leftovers, Doomed
  <2>2. Shows(mem \cup AllFacts(sst))
    BY <2>1 DEF PurgeInv, ViewKept
  <2> QED BY <1>2, <2>2 DEF Shows
<1>4. \A d \in D : /\ d.ldt < merge.g.gc_before
                   /\ \A o \in Around : d.ts < o.ts
                   /\ \A o \in Merged : d.ts < o.ts \/ o.ldt < merge.g.gc_before
  BY DEF PurgeInv, BoundsHold
<1>5. ASSUME NEW d \in D, d.kind = "cell" PROVE expired(d, t)
  BY <1>2, <1>4, <1>5, BeforeBoundExpired
<1>6. ASSUME NEW d \in D, NEW c \in X, c.kind = "cell", ~expired(c, t)
      PROVE  ~Shadows(d, c)
  <2>1. d.ts < c.ts
    BY <1>2, <1>4, <1>6, BeforeBoundExpired
  <2>2. d.ts \in Nat /\ c.ts \in Nat
    BY <1>2, StoredTypes DEF PurgeInv
  <2> QED BY <2>1, <2>2 DEF Shadows
<1> HIDE DEF D, X
<1>7. Visible(X \cup D, t) = Visible(X, t)
  BY <1>5, <1>6, DropExpired
<1> QED BY <1>3, <1>7 DEF X

\* The output shows what its inputs showed, next to the facts around the merge
\* and to inputs that are left behind when nothing was purged.
LEMMA OutputShows ==
  ASSUME PurgeInv, merge.phase = "running", NEW t \in Nat, clock <= t, NEW E,
         E \subseteq Merged, E # {} => merge.g.gc_before = 0
  PROVE  Visible(merge_partition_rows(Merged, merge.g) \cup (Around \cup E), t)
            = Visible(log, t)
<1> USE TombstonePurgeAssumption, InfinityAssumption
<1> DEFINE F == Merged
           O == Around \cup E
           g == merge.g
<1>1. Selected \subseteq sst /\ F \subseteq AllFacts(sst)
      /\ O \subseteq mem \cup AllFacts(sst)
  BY DEF PurgeInv, MergeSound, Merged, Around, Selected, AllFacts
<1>2. F \in SUBSET Fact /\ O \in SUBSET Fact
  BY <1>1, StoredTypes DEF PurgeInv, Types
<1>3. g \in GcSettings /\ g.now \in Nat /\ g.now <= clock /\ clock \in Nat
  BY ActiveMergeFields DEF PurgeInv, MergeSound, Types
<1>4. g.now <= t
  BY <1>3
<1>5. \A f \in F : f.ts <= Infinity /\ f.ttl <= f.ldt
  <2>1. Cardinality(log) \in Nat /\ Cardinality(log) <= MaxWrites
    BY FS_CardinalityType DEF PurgeInv, LogOrder
  <2>2. \A f \in F : f.ts \in Nat /\ f.ts <= Cardinality(log) /\ f.ttl <= f.ldt
    BY <1>1, StoredTypes DEF PurgeInv, StoredFacts
  <2> QED BY <2>1, <2>2
<1>6. \A f, e \in F \cup O :
         f.kind = "cell" /\ e.kind = "cell" /\ f.key = e.key /\ f.ts = e.ts => f = e
  <2>1. \A f \in F \cup O : f.kind = "cell" => f \in log
    BY <1>1 DEF PurgeInv, StoredFacts
  <2> HIDE DEF F, O
  <2> QED BY <2>1 DEF PurgeInv, LogOrder
<1>7. \A o \in O : o.kind = "cell" => Guarded(F, g, o)
  BY DEF PurgeInv, BoundsHold, Guarded
<1>8. F \cup O = Merged \cup Around
  OBVIOUS
<1> HIDE DEF F, O, g
<1>9. Visible(merge_partition_rows(F, g) \cup O, t) = Visible(F \cup O, t)
  <2>1. g \in GcSettings
    BY <1>3
  <2> QED BY ONLY <1>2, <2>1, <1>4, <1>5, <1>6, <1>7, t \in Nat, MergeKeepsView
<1> QED BY <1>8, <1>9, DroppedUnseen DEF F, O, g

\* The merge is published.
LEMMA PublishPurge ==
  ASSUME PurgeInv, publish
  PROVE  PurgeInv'
<1> USE TombstonePurgeAssumption, InfinityAssumption
<1> DEFINE M == merge_partition_rows(Merged, merge.g)
<1>p. merge.phase = "running" /\ mem' = mem /\ clock' = clock /\ log' = log
  BY DEF publish
<1>q. PICK unread \in SUBSET merge.inputs :
         LET output == [facts |-> M, min_ts |-> compute_baseline_min(merge.inputs, M, unread)]
         IN  /\ sst' = sst \cup {output}
             /\ merge' = [merge EXCEPT !.phase = "deleting", !.inputs = @ \ {output},
                                       !.dropped = @ \ {output}]
  BY DEF publish, Merged
<1> DEFINE T == {Infinity} \cup {x.min_ts : x \in merge.inputs \ unread} \cup {f.ts : f \in M}
           output == [facts |-> M, min_ts |-> Least(T)]
<1>1. /\ merge.phase = "running" /\ sst' = sst \cup {output}
      /\ merge' = [merge EXCEPT !.phase = "deleting", !.inputs = @ \ {output},
                                !.dropped = @ \ {output}]
      /\ mem' = mem /\ clock' = clock /\ log' = log
  BY <1>p, <1>q DEF compute_baseline_min
<1>2. /\ merge \in ActiveMerge /\ merge.g \in GcSettings
      /\ merge.inputs \subseteq SSTable /\ merge.dropped \subseteq SSTable
      /\ Selected \subseteq sst /\ merge.inputs # {} /\ merge.inputs \subseteq sst
  BY <1>1, ActiveMergeFields DEF PurgeInv, MergeSound, BoundsHold, Selected
<1>3. Merged \in SUBSET Fact /\ Merged \subseteq AllFacts(sst)
      /\ \A f \in Merged : f.ttl <= f.ldt
  BY <1>2, StoredTypes DEF PurgeInv, StoredFacts, Merged, AllFacts
<1>4. \A x \in M : /\ x \in Fact /\ x.ttl <= x.ldt
                   /\ \E f \in Merged : x.ts = f.ts
                   /\ x.kind = "cell" => x \in Merged
  BY <1>2, <1>3, MergedFacts
<1>5. T \subseteq Nat /\ \A y \in T : 1 <= y
  <2>1. \A f \in M : f.ts \in Nat /\ 1 <= f.ts
    BY <1>3, <1>4 DEF PurgeInv, StoredFacts, Fact
  <2>2. \A x \in merge.inputs : x.min_ts \in Nat /\ 1 <= x.min_ts
    BY <1>2, StoredTypes DEF PurgeInv, MinTimestamps
  <2>3. Infinity \in Nat /\ 1 <= Infinity
    OBVIOUS
  <2> HIDE DEF M
  <2> QED BY <2>1, <2>2, <2>3
<1>6. /\ Least(T) \in Nat /\ 1 <= Least(T)
      /\ \A x \in M : Least(T) <= x.ts
  <2>1. T # {} /\ \A x \in M : x.ts \in T
    OBVIOUS
  <2> HIDE DEF T, M
  <2>2. Least(T) \in T /\ \A y \in T : Least(T) <= y
    BY <1>5, <2>1, LeastOf
  <2> QED BY <1>5, <2>1, <2>2
<1>7. output \in SSTable /\ output.facts = M /\ output.min_ts = Least(T)
  <2> HIDE DEF T, M
  <2> QED BY <1>4, <1>6 DEF SSTable
<1> HIDE DEF output, M, T
<1>8. /\ merge'.phase = "deleting" /\ merge'.inputs = merge.inputs \ {output}
      /\ merge'.dropped = merge.dropped \ {output} /\ merge'.g = merge.g
      /\ merge' \in ActiveMerge
  BY <1>1, <1>2 DEF ActiveMerge
<1>9. Selected' = Selected \ {output} /\ Doomed' = Selected \ {output}
  BY <1>8 DEF Selected, Doomed
<1>10. AllFacts(sst') = AllFacts(sst) \cup M
  <2>1. AllFacts({output}) = M
    BY <1>7 DEF AllFacts
  <2> QED BY <1>1, <2>1, AllFactsUnion
<1>11. Types'
  BY <1>1, <1>7, <1>8 DEF PurgeInv, Types
<1>12. LogOrder'
  BY <1>1 DEF PurgeInv, LogOrder
<1>13. StoredFacts'
  <2>1. ASSUME NEW x \in M
        PROVE  /\ 1 <= x.ts /\ x.ts <= Cardinality(log) /\ x.ttl <= x.ldt
               /\ x.kind = "cell" => x \in log /\ (x.ttl = 0 => x.ldt = Infinity)
    BY <1>3, <1>4 DEF PurgeInv, StoredFacts
  <2> QED BY <1>1, <1>10, <2>1 DEF PurgeInv, StoredFacts
<1>14. MemNewest'
  <2>1. \A f \in mem : \A x \in M : x.ts < f.ts
    BY <1>3, <1>4 DEF PurgeInv, MemNewest
  <2> QED BY <1>1, <1>10, <2>1 DEF PurgeInv, MemNewest
<1>15. MinTimestamps'
  BY <1>1, <1>6, <1>7 DEF PurgeInv, MinTimestamps
<1>16. MergeSound' /\ BoundsHold'
  BY <1>1, <1>2, <1>8, <1>9 DEF PurgeInv, MergeSound, BoundsHold
<1>17. ViewKept'
  <2>1. ASSUME NEW L \in Leftovers', NEW t \in Nat, clock <= t
        PROVE  Visible(mem \cup AllFacts((sst' \ Doomed') \cup L), t) = Visible(log, t)
    <3>1. L \subseteq Selected /\ (L # {} => merge.g.gc_before = 0)
      BY <1>8, <1>9 DEF Leftovers
    <3>2. AllFacts(L) \subseteq Merged /\ (AllFacts(L) # {} => merge.g.gc_before = 0)
      <4>1. merge.g.gc_before = 0 => merge.dropped = {}
        BY <1>1 DEF PurgeInv, BoundsHold
      <4>2. L \subseteq merge.inputs
        BY <3>1, <4>1 DEF Selected
      <4> QED BY <3>1, <4>2 DEF Merged, AllFacts
    <3>3. sst' \ Doomed' = (sst \ Selected) \cup {output}
      BY <1>1, <1>9
    <3>4. AllFacts({output}) = M
      BY <1>7 DEF AllFacts
    <3>5. AllFacts((sst' \ Doomed') \cup L) = AllFacts(sst \ Selected) \cup M \cup AllFacts(L)
      BY <3>3, <3>4, AllFactsUnion
    <3>6. mem \cup AllFacts((sst' \ Doomed') \cup L) = M \cup (Around \cup AllFacts(L))
      BY <3>5 DEF Around
    <3>7. Visible(M \cup (Around \cup AllFacts(L)), t) = Visible(log, t)
      BY <2>1, <3>2, <1>1, OutputShows DEF M
    <3> QED BY <3>6, <3>7
  <2> QED BY <1>1, <2>1 DEF ViewKept, Shows
<1> QED
  BY <1>11, <1>12, <1>13, <1>14, <1>15, <1>16, <1>17 DEF PurgeInv

\* An SSTable of the merge is gone, or stays behind if nothing was purged.
LEMMA DeletePurge ==
  ASSUME PurgeInv, ~PurgeFaults, NEW x \in sst,
         delete_sstable_files(x) \/ delete_fails(x)
  PROVE  PurgeInv'
<1>1. /\ merge.phase = "deleting" /\ x \in Selected
      /\ merge' = [merge EXCEPT !.inputs = @ \ {x}, !.dropped = @ \ {x}]
      /\ mem' = mem /\ clock' = clock /\ log' = log
      /\ sst' = sst \ {x} \/ (sst' = sst /\ merge.g.gc_before = 0)
  BY DEF delete_sstable_files, delete_fails, Remaining, MayFail, Selected
<1>2. merge \in ActiveMerge /\ Selected \subseteq sst
  BY <1>1, ActiveMergeFields DEF PurgeInv, MergeSound
<1>3. /\ merge'.phase = "deleting" /\ merge'.inputs = merge.inputs \ {x}
      /\ merge'.dropped = merge.dropped \ {x} /\ merge'.g = merge.g
      /\ merge' \in ActiveMerge
  BY <1>1, <1>2 DEF ActiveMerge
<1>4. Selected' = Selected \ {x} /\ Doomed = Selected /\ Doomed' = Selected \ {x}
  BY <1>1, <1>3 DEF Selected, Doomed
<1>5. sst' \subseteq sst /\ AllFacts(sst') \subseteq AllFacts(sst)
  BY <1>1 DEF AllFacts
<1>6. Types' /\ LogOrder'
  BY <1>1, <1>3, <1>5 DEF PurgeInv, Types, LogOrder
<1>7. StoredFacts' /\ MemNewest' /\ MinTimestamps'
  BY <1>1, <1>5 DEF PurgeInv, StoredFacts, MemNewest, MinTimestamps
<1>8. MergeSound' /\ BoundsHold'
  <2>1. Selected' \subseteq sst'
    BY <1>1, <1>2, <1>4
  <2> QED BY <1>1, <1>3, <2>1 DEF PurgeInv, MergeSound, BoundsHold
<1>9. ViewKept'
  <2>1. ASSUME NEW L \in Leftovers'
        PROVE  \E K \in Leftovers : (sst' \ Doomed') \cup L = (sst \ Doomed) \cup K
    <3>1. L \subseteq Selected \ {x} /\ (merge.g.gc_before # 0 => L = {})
      BY <1>3, <1>4 DEF Leftovers
    <3>2. CASE sst' = sst \ {x}
      <4>1. sst' \ Doomed' = sst \ Doomed
        BY <3>2, <1>1, <1>4
      <4>2. L \in Leftovers
        BY <3>1, <1>1, <1>4 DEF Leftovers
      <4> QED BY <4>1, <4>2
    <3>3. CASE sst' = sst /\ merge.g.gc_before = 0
      <4>1. L \cup {x} \in Leftovers
        BY <3>1, <3>3, <1>1, <1>4 DEF Leftovers
      <4>2. (sst' \ Doomed') \cup L = (sst \ Doomed) \cup (L \cup {x})
        BY <3>3, <1>1, <1>4
      <4> QED BY <4>1, <4>2
    <3> QED BY <3>2, <3>3, <1>1
  <2>2. \A K \in Leftovers : Shows(mem \cup AllFacts((sst \ Doomed) \cup K))
    BY DEF PurgeInv, ViewKept
  <2> QED BY <1>1, <2>1, <2>2 DEF ViewKept, Shows
<1> QED BY <1>6, <1>7, <1>8, <1>9 DEF PurgeInv

\* The merge is over, or was cut short by a restart.
LEMMA MergeOverPurge ==
  ASSUME PurgeInv, ~PurgeFaults, merge_ends \/ restart
  PROVE  PurgeInv'
<1>1. /\ merge' = NoMerge /\ mem' = mem /\ sst' = sst /\ clock' = clock /\ log' = log
      /\ \/ merge.phase = "running"
         \/ merge.phase = "deleting" /\ Selected = {}
         \/ merge.phase = "deleting" /\ merge.g.gc_before = 0
  BY DEF merge_ends, restart, MayFail, Selected
<1>2. merge'.phase = "none"
  BY <1>1 DEF NoMerge
<1>3. Types' /\ LogOrder' /\ StoredFacts' /\ MemNewest' /\ MinTimestamps'
  BY <1>1 DEF PurgeInv, Types, LogOrder, StoredFacts, MemNewest, MinTimestamps
<1>4. MergeSound' /\ BoundsHold'
  BY <1>2 DEF MergeSound, BoundsHold
<1>5. ViewKept'
  <2>1. Leftovers' = {{}} /\ Doomed' = {}
    BY <1>2 DEF Leftovers, Doomed
  <2>2. \E K \in Leftovers : sst = (sst \ Doomed) \cup K
    <3>1. CASE merge.phase = "running" \/ Selected = {}
      <4>1. {} \in Leftovers /\ Doomed = {}
        BY <3>1, <1>1 DEF Leftovers, Doomed
      <4> QED BY <4>1
    <3>2. CASE merge.phase = "deleting" /\ merge.g.gc_before = 0
      <4>1. Doomed \in Leftovers
        BY <3>2 DEF Leftovers
      <4>2. Doomed \subseteq sst
        BY <4>1, StoreBounds
      <4> QED BY <4>1, <4>2
    <3> QED BY <1>1, <3>1, <3>2
  <2>3. Shows(mem \cup AllFacts(sst))
    BY <2>2 DEF PurgeInv, ViewKept
  <2>4. (sst' \ Doomed') \cup {} = sst
    BY <1>1, <2>1
  <2> QED BY <1>1, <2>1, <2>3, <2>4 DEF ViewKept, Shows
<1> QED BY <1>3, <1>4, <1>5 DEF PurgeInv

\* A step that changes nothing.
LEMMA StutterPurge == PurgeInv /\ UNCHANGED vars => PurgeInv'
<1> SUFFICES ASSUME PurgeInv, UNCHANGED vars PROVE PurgeInv'
  OBVIOUS
<1>1. mem' = mem /\ sst' = sst /\ merge' = merge /\ clock' = clock /\ log' = log
  BY DEF vars
<1>2. /\ Selected' = Selected /\ Doomed' = Doomed /\ Leftovers' = Leftovers
      /\ Around' = Around /\ Merged' = Merged
  BY <1>1 DEF Selected, Doomed, Leftovers, Around, Merged
<1>3. Types' /\ LogOrder' /\ StoredFacts' /\ MemNewest' /\ MinTimestamps'
  BY <1>1 DEF PurgeInv, Types, LogOrder, StoredFacts, MemNewest, MinTimestamps
<1>4. MergeSound' /\ BoundsHold'
  BY <1>1, <1>2 DEF PurgeInv, MergeSound, BoundsHold
<1>5. ViewKept'
  BY <1>1, <1>2 DEF PurgeInv, ViewKept, Shows
<1> QED BY <1>3, <1>4, <1>5 DEF PurgeInv

\* The invariant holds of every run whose timestamps grow with the writes and
\* whose purging merges delete their inputs.
LEMMA PurgeInvariant ==
  ASSUME ~Backdated, ~PurgeFaults
  PROVE  Spec => []PurgeInv
<1>1. PurgeInv /\ [Next]_vars => PurgeInv'
  <2> SUFFICES ASSUME PurgeInv, [Next]_vars PROVE PurgeInv'
    OBVIOUS
  <2>1. CASE \E ts \in Timestamps : \E f \in Writable(ts) : write(f)
    BY <2>1, WritePurge
  <2>2. CASE flush
    BY <2>2, FlushPurge
  <2>3. CASE tick
    BY <2>3, TickPurge
  <2>4. CASE \E selected \in SUBSET sst, unread \in Unread : start_merge(selected, unread)
    BY <2>4, StartMergePurge
  <2>5. CASE publish
    BY <2>5, PublishPurge
  <2>6. CASE \E t \in sst : delete_sstable_files(t) \/ delete_fails(t)
    BY <2>6, DeletePurge
  <2>7. CASE merge_ends \/ restart
    BY <2>7, MergeOverPurge
  <2>8. CASE UNCHANGED vars
    BY <2>8, StutterPurge
  <2> QED BY <2>1, <2>2, <2>3, <2>4, <2>5, <2>6, <2>7, <2>8 DEF Next
<1> QED BY InitPurge, <1>1, PTL DEF Spec

\* Memtable, SSTables and the record of what was written hold well-formed facts:
\* the deletion that expire_ttl_cells makes of an expired value is dated at a
\* time that is not before the epoch.
THEOREM PurgeTypeCorrect ==
  ASSUME ~Backdated, ~PurgeFaults
  PROVE  Spec => []TypeOK
<1>1. PurgeInv => TypeOK
  <2> SUFFICES ASSUME PurgeInv PROVE TypeOK
    OBVIOUS
  <2>1. merge.phase \in {"none", "running", "deleting"}
    BY DEF PurgeInv, Types, ActiveMerge, NoMerge
  <2> QED BY <2>1 DEF PurgeInv, Types, TypeOK
<1> QED BY <1>1, PurgeInvariant, PTL

\* Compactions that purge deletions under gc_grace, drop expired SSTables
\* unread and run while other data is written and flushed never bring deleted
\* data back and never lose data, for every row, bound, gc_grace, TTL and
\* threshold: if timestamps grow with the writes and the inputs of a merge that
\* purged are deleted (compute_max_purgeable_timestamp, fully_expired_sstables,
\* merge_partition_rows, finalize_merge_async).
THEOREM DeletedStaysDeleted ==
  ASSUME ~Backdated, ~PurgeFaults
  PROVE  Spec => []NoResurrection
<1>1. PurgeInv => NoResurrection
  <2> SUFFICES ASSUME PurgeInv, merge.phase # "deleting"
               PROVE  Visible(mem \cup AllFacts(sst), clock) = Visible(log, clock)
    BY DEF NoResurrection
  <2>1. {} \in Leftovers /\ (sst \ Doomed) \cup {} = sst /\ clock \in Nat
    BY DEF Leftovers, Doomed, PurgeInv, Types
  <2>2. Shows(mem \cup AllFacts(sst))
    BY <2>1 DEF PurgeInv, ViewKept
  <2> QED BY <2>1, <2>2 DEF Shows
<1> QED BY <1>1, PurgeInvariant, PTL

=============================================================================
