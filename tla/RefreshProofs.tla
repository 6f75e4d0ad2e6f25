--------------------------- MODULE RefreshProofs ---------------------------
(***************************************************************************)
(* Proofs about Refresh: the types, and what a refresh may and may not     *)
(* take away, for any number of generations and callers, against every     *)
(* interleaving with flushes, compactions, rollbacks and deletions.        *)
(***************************************************************************)
EXTENDS Refresh, FiniteSetTheorems, TLAPS

Reader == [gen : Gens, rows : SUBSET Gens]
TaskRecord ==
    [pc : {"idle", "wait", "list", "open"}, before : SUBSET Gens,
     unread : SUBSET Gens, listed : SUBSET Gens, added : SUBSET Gens,
     opened : SUBSET Reader]
MergeRecord ==
    [phase : {"none", "running", "renaming", "renamed", "toc", "deleting"},
     inputs : SUBSET Gens, out : Gens \cup {0}]

WriterType ==
    /\ disk \in [Gens -> DiskStates]
    /\ rows \in [Gens -> SUBSET Gens]
    /\ next \in 1 .. Cardinality(Gens) + 1
    /\ merge \in MergeRecord
    /\ merge.phase = "none" <=> merge.inputs = {}
    /\ merge.phase # "none" => merge.out \in Gens

ReaderType ==
    /\ ready \in BOOLEAN
    /\ lock \in Tasks \cup {NoTask}
    /\ task \in [Tasks -> TaskRecord]
    /\ held \subseteq Reader
    /\ quiet \in BOOLEAN
    /\ promised \subseteq Gens

(* What a generation holds is settled: it was taken, and it is not the      *)
(* output of a compaction that has still to write it.                       *)
Settled(g) == g < next /\ ~(merge.phase = "running" /\ g = merge.out)

(* The writer: only settled generations have files, the inputs stay until   *)
(* the output is durable, and what has a Data.db but no TOC.txt any more or *)
(* not yet is published elsewhere, unless a flush is writing it.            *)
WriterInv ==
    /\ \A g \in Gens : disk[g] # "none" => Settled(g)
    /\ merge.phase # "none" => merge.out < next /\ merge.out \notin merge.inputs
    /\ merge.phase \in {"running", "renaming", "renamed", "toc"} =>
          \A g \in merge.inputs : disk[g] = "published"
    /\ merge.phase = "renaming" => disk[merge.out] = "partial"
    /\ merge.phase = "renamed" => disk[merge.out] = "complete"
    /\ merge.phase \in {"toc", "deleting"} => disk[merge.out] = "published"
    /\ merge.phase \in {"renaming", "renamed", "toc"} =>
          rows[merge.out] = UNION {rows[g] : g \in merge.inputs}
    /\ merge.phase = "deleting" =>
          \A g \in merge.inputs : /\ disk[g] \in {"published", "unpublished"}
                                  /\ rows[g] \subseteq rows[merge.out]
    /\ \A g \in Gens : disk[g] \in {"partial", "complete", "unpublished"} =>
                            rows[g] \subseteq Published

(* A Data.db that only the deletion of a compaction's input removes: an     *)
(* output whose TOC.txt is not durable may still be rolled back.            *)
Firm(g) ==
    /\ disk[g] \in {"writing", "published", "unpublished"}
    /\ ~(merge.phase = "toc" /\ g = merge.out)

Lists(t) == task[t].pc \in {"list", "open"}

(* One call at a time changes the readers: the first load, then the holder  *)
(* of the lock.                                                             *)
LockInv ==
    /\ ready => \A t \in Tasks : Lists(t) => lock = t
    /\ ~ready => /\ held = {} /\ promised = {}
                 /\ \A t \in Tasks : task[t].pc # "wait"
                 /\ \A t, u \in Tasks :
                       task[t].pc # "idle" /\ task[u].pc # "idle" => t = u

(* A reader sees no more than its generation holds, and that is published   *)
(* or still being flushed.                                                  *)
Sound(h) ==
    /\ Settled(h.gen) /\ h.rows \subseteq rows[h.gen]
    /\ rows[h.gen] \subseteq Published \/ disk[h.gen] = "writing"

(* What the held generations hold, whether their readers see it or not.     *)
Reach == UNION {rows[h.gen] : h \in held}

(* The call of t has found the write w in a file, or is about to find it in *)
(* one that stays.                                                          *)
Found(t, w) ==
    \E g \in Gens :
        /\ Settled(g) /\ w \in rows[g]
        /\ \/ g \in task[t].listed
           \/ task[t].pc = "list" /\ g \in task[t].unread /\ Firm(g)

(* The call of t has found, or is about to look for, what is held.          *)
Noted(t, h) == h.gen \in task[t].listed \cup task[t].unread \/ disk[h.gen] = "none"

CallInv(t) ==
    /\ Lists(t) => \A g \in task[t].listed : Settled(g)
    /\ \A h \in task[t].opened : Sound(h)
    /\ task[t].pc = "open" => task[t].unread = {}
    /\ ready /\ Lists(t) => \A h \in held : Noted(t, h)
    /\ ready /\ Lists(t) /\ quiet => \A w \in task[t].before \cup Reach : Found(t, w)
    /\ ready /\ task[t].pc = "open" =>
          task[t].listed \subseteq GensOf(held) \cup task[t].added
                                       \cup GensOf(task[t].opened)

ReadersInv ==
    /\ \A h \in held : Sound(h)
    /\ \A t \in Tasks : CallInv(t)
    /\ promised \subseteq Reach

IInv == WriterType /\ ReaderType /\ WriterInv /\ LockInv /\ ReadersInv

-----------------------------------------------------------------------------
(* Facts on generations and on sets of them.                                *)

LEMMA GensFacts ==
  /\ Cardinality(Gens) \in Nat /\ Gens = 1 .. Cardinality(Gens)
  /\ \A n \in 1 .. Cardinality(Gens) + 1 : n \in Gens => n + 1 \in 1 .. Cardinality(Gens) + 1
<1>1. Cardinality(Gens) \in Nat /\ Gens = 1 .. Cardinality(Gens)
  BY RefreshAssumption, FS_CardinalityType
<1>2. ASSUME NEW n \in 1 .. Cardinality(Gens) + 1, n \in Gens
      PROVE  n + 1 \in 1 .. Cardinality(Gens) + 1
  BY <1>1, <1>2
<1> QED BY <1>1, <1>2

LEMMA PairNotEmpty == ASSUME NEW S, Cardinality(S) = 2 PROVE S # {}
BY FS_EmptySet

LEMMA PublishedElim ==
  \A w : w \in Published <=> \E g \in Gens : disk[g] = "published" /\ w \in rows[g]
BY DEF Published

LEMMA PublishedElimPrime ==
  \A w : w \in Published' <=> \E g \in Gens : disk'[g] = "published" /\ w \in rows'[g]
BY DEF Published

LEMMA PublishedType == WriterType => Published \subseteq Gens
BY DEF Published, WriterType

-----------------------------------------------------------------------------
(* Types.                                                                   *)

LEMMA TypeInit == Init => WriterType /\ ReaderType
<1> SUFFICES ASSUME Init PROVE WriterType /\ ReaderType
  OBVIOUS
<1>1. WriterType
  BY GensFacts DEF Init, WriterType, MergeRecord, NoMerge, DiskStates
<1>2. ReaderType
  BY DEF Init, ReaderType, TaskRecord, Idle, NoTask
<1> QED BY <1>1, <1>2

LEMMA WriterTypeStep ==
  ASSUME WriterType, Writes
  PROVE  WriterType'
<1> USE GensFacts DEF WriterType, MergeRecord, DiskStates
<1>1. CASE flush_data
  BY <1>1 DEF flush_data
<1>2. CASE merge_rename_data
  BY <1>2 DEF merge_rename_data
<1>3. CASE merge_rename_rest
  BY <1>3 DEF merge_rename_rest
<1>4. CASE merge_toc
  BY <1>4 DEF merge_toc
<1>5. CASE merge_sync_toc
  BY <1>5 DEF merge_sync_toc
<1>6. CASE merge_rollback
  BY <1>6 DEF merge_rollback, NoMerge
<1>7. ASSUME NEW g \in Gens, flush_toc(g) PROVE WriterType'
  BY <1>7 DEF flush_toc
<1>8. ASSUME NEW g \in Gens, delete_toc(g) PROVE WriterType'
  BY <1>8 DEF delete_toc
<1>9. ASSUME NEW g \in Gens, input_done(g), disk' \in [Gens -> DiskStates]
      PROVE  WriterType'
  BY <1>9 DEF input_done, NoMerge
<1>10. ASSUME NEW g \in Gens, delete_data(g) \/ delete_data_fails(g)
      PROVE  WriterType'
  BY <1>9, <1>10 DEF delete_data, delete_data_fails
<1>11. ASSUME NEW inputs \in SUBSET Gens, merge_start(inputs) PROVE WriterType'
  <2>1. inputs # {}
    BY <1>11, PairNotEmpty DEF merge_start
  <2> QED BY <1>11, <2>1 DEF merge_start
<1> QED BY <1>1, <1>2, <1>3, <1>4, <1>5, <1>6, <1>7, <1>8, <1>10, <1>11 DEF Writes

(* The writer changes nothing of the callers, and lowers quiet at most.     *)
LEMMA WritesKeepCalls ==
  ASSUME ReaderType, Writes
  PROVE  UNCHANGED readers /\ (quiet' = quiet \/ quiet' = FALSE)
<1> USE DEF UnchangedReaders
<1>1. CASE flush_data
  BY <1>1 DEF flush_data
<1>2. CASE merge_rename_data \/ merge_rename_rest \/ merge_toc \/ merge_sync_toc
  BY <1>2 DEF merge_rename_data, merge_rename_rest, merge_toc, merge_sync_toc
<1>3. CASE merge_rollback
  BY <1>3 DEF merge_rollback
<1>4. ASSUME NEW g \in Gens, flush_toc(g) \/ delete_toc(g)
      PROVE  UNCHANGED <<readers, quiet>>
  BY <1>4 DEF flush_toc, delete_toc
<1>5. ASSUME NEW g \in Gens, delete_data(g) \/ delete_data_fails(g)
      PROVE  UNCHANGED readers /\ (quiet' = quiet \/ quiet' = FALSE)
  BY <1>5 DEF delete_data, delete_data_fails, input_done, ReaderType
<1>6. ASSUME NEW inputs \in SUBSET Gens, merge_start(inputs)
      PROVE  UNCHANGED <<readers, quiet>>
  BY <1>6 DEF merge_start
<1> QED BY <1>1, <1>2, <1>3, <1>4, <1>5, <1>6 DEF Writes

(* Types of a call's record.                                                *)
LEMMA IdleType == Idle \in TaskRecord /\ [Idle EXCEPT !.pc = "wait"] \in TaskRecord
BY DEF Idle, TaskRecord

LEMMA ListingType ==
  ASSUME NEW before \in SUBSET Gens
  PROVE  [Idle EXCEPT !.pc = "list", !.before = before, !.unread = Gens] \in TaskRecord
BY DEF Idle, TaskRecord

LEMMA SetType ==
  ASSUME ReaderType, NEW t \in Tasks, NEW r \in TaskRecord, Set(t, r)
  PROVE  task' \in [Tasks -> TaskRecord]
BY DEF ReaderType, Set

LEMMA ReaderTypeStep ==
  ASSUME WriterType, ReaderType, NEW t \in Tasks,
         load_begin(t) \/ refresh_call(t) \/ refresh_begin(t) \/ Step(t)
  PROVE  ReaderType'
<1> USE DEF ReaderType
<1>1. CASE load_begin(t)
  BY <1>1, ListingType, SetType DEF load_begin, begin_listing
<1>2. CASE refresh_call(t)
  BY <1>2, IdleType, SetType DEF refresh_call
<1>3. CASE refresh_begin(t)
  BY <1>3, ListingType, SetType, PublishedType DEF refresh_begin, begin_listing
<1>4. CASE diff(t)
  <2>1. [task[t] EXCEPT !.pc = "open", !.added = task[t].listed \ GensOf(held)]
           \in TaskRecord
    BY DEF TaskRecord
  <2> QED BY <1>4, <2>1, SetType DEF diff
<1>5. CASE load_end(t)
  BY <1>5, IdleType, SetType DEF load_end, TaskRecord
<1>6. CASE refresh_swap(t)
  BY <1>6, IdleType, SetType DEF refresh_swap, TaskRecord
<1>7. ASSUME NEW g \in Gens, next_entry(t, g) PROVE ReaderType'
  <2>1. [task[t] EXCEPT !.unread = @ \ {g},
             !.listed = IF disk[g] = "none" THEN @ ELSE @ \cup {g}] \in TaskRecord
    BY DEF TaskRecord
  <2> QED BY <1>7, <2>1, SetType DEF next_entry
<1>8. ASSUME NEW g \in Gens, open_reader(t, g) PROVE ReaderType'
  <2>1. PICK seen \in Opens(g) :
           Set(t, [task[t] EXCEPT !.added = @ \ {g},
                                  !.opened = @ \cup {[gen |-> g, rows |-> seen]}])
    BY <1>8 DEF open_reader
  <2>2. seen \in SUBSET Gens
    BY DEF Opens, WriterType, DiskStates
  <2>3. [task[t] EXCEPT !.added = @ \ {g},
             !.opened = @ \cup {[gen |-> g, rows |-> seen]}] \in TaskRecord
    <3>1. task[t].opened \cup {[gen |-> g, rows |-> seen]} \in SUBSET Reader
      BY <2>2 DEF TaskRecord, Reader
    <3> QED BY <3>1 DEF TaskRecord
  <2> QED BY <1>8, <2>1, <2>3, SetType DEF open_reader
<1>9. ASSUME NEW g \in Gens, skip_unreadable(t, g) PROVE ReaderType'
  <2>1. [task[t] EXCEPT !.added = @ \ {g}] \in TaskRecord
    BY DEF TaskRecord
  <2> QED BY <1>9, <2>1, SetType DEF skip_unreadable
<1>10. ASSUME NEW g \in Gens, refresh_fails(t, g) PROVE ReaderType'
  BY <1>10, IdleType, SetType DEF refresh_fails
<1> QED BY <1>1, <1>2, <1>3, <1>4, <1>5, <1>6, <1>7, <1>8, <1>9, <1>10 DEF Step

LEMMA TypeStep ==
  ASSUME WriterType, ReaderType, [Next]_vars
  PROVE  WriterType' /\ ReaderType'
<1>1. CASE Writes
  <2>1. UNCHANGED readers /\ (quiet' = quiet \/ quiet' = FALSE)
    BY <1>1, WritesKeepCalls
  <2> QED BY <1>1, <2>1, WriterTypeStep DEF readers, ReaderType
<1>2. ASSUME NEW t \in Tasks,
             load_begin(t) \/ refresh_call(t) \/ refresh_begin(t) \/ Step(t)
      PROVE  WriterType' /\ ReaderType'
  <2>1. UNCHANGED writer
    BY <1>2 DEF load_begin, refresh_call, refresh_begin, Step, diff, load_end,
                refresh_swap, next_entry, open_reader, skip_unreadable, refresh_fails
  <2> QED BY <1>2, <2>1, ReaderTypeStep DEF writer, WriterType
<1>3. CASE UNCHANGED vars
  BY <1>3 DEF vars, WriterType, ReaderType
<1> QED BY <1>1, <1>2, <1>3 DEF Next

(* Type correctness: the state of the directory, of the compaction, of the  *)
(* lock and of the readers stays what the properties read it as.            *)
THEOREM RefreshTypeCorrect == Spec => []TypeOK
<1>1. Init => WriterType /\ ReaderType
  BY TypeInit
<1>2. (WriterType /\ ReaderType) /\ [Next]_vars => (WriterType /\ ReaderType)'
  BY TypeStep
<1>3. WriterType /\ ReaderType => TypeOK
  BY DEF WriterType, ReaderType, TypeOK, MergeRecord, TaskRecord, Reader
<1> QED BY <1>1, <1>2, <1>3, PTL DEF Spec

-----------------------------------------------------------------------------
(* The writer never takes back what it published.                           *)

(* What the callers may rely on across a step of the writer.                *)
WriterKeeps ==
    /\ Published \subseteq Published'
    /\ \A g \in Gens : Settled(g) => Settled(g)' /\ rows'[g] = rows[g]
    /\ \A g \in Gens : Settled(g) /\ disk[g] = "none" => disk'[g] = "none"
    /\ \A g \in Gens : disk[g] = "writing" =>
                            disk'[g] = "writing" \/ rows'[g] \subseteq Published'

(* A firm Data.db is not removed during a listing that stays quiet.         *)
ListingKeeps ==
    quiet' /\ (\E t \in Tasks : task[t].pc = "list") =>
        \A g \in Gens : Firm(g) => Firm(g)'

(* The part of WriterInv that speaks of every generation.                   *)
LEMMA FilesKeep ==
  ASSUME WriterType, WriterInv, Published \subseteq Published',
         \A g \in Gens : Settled(g) => Settled(g)' /\ rows'[g] = rows[g],
         NEW x \in Gens, \A g \in Gens : g # x => disk'[g] = disk[g],
         disk'[x] # "none" => Settled(x)',
         disk'[x] \in {"partial", "complete", "unpublished"} =>
            rows'[x] \subseteq Published'
  PROVE  /\ \A g \in Gens : disk'[g] # "none" => Settled(g)'
         /\ \A g \in Gens : disk'[g] \in {"partial", "complete", "unpublished"} =>
                                 rows'[g] \subseteq Published'
<1>1. \A g \in Gens : disk[g] # "none" => Settled(g)
  BY DEF WriterInv
<1>2. \A g \in Gens : disk[g] \in {"partial", "complete", "unpublished"} =>
                          rows[g] \subseteq Published
  BY DEF WriterInv
<1> QED BY <1>1, <1>2

LEMMA WriterInvInit == Init => WriterInv
BY DEF Init, WriterInv, NoMerge

LEMMA FlushKeeps ==
  ASSUME WriterType, WriterInv, flush_data
  PROVE  WriterInv' /\ WriterKeeps /\ ListingKeeps
<1> USE GensFacts DEF flush_data, WriterType, DiskStates, MergeRecord
<1>1. disk[next] = "none" /\ ~Settled(next)
  BY DEF WriterInv, Settled
<1>2. \A g \in Gens : Settled(g) => Settled(g)' /\ rows'[g] = rows[g]
  BY DEF Settled
<1>3. Published \subseteq Published'
  BY <1>1, PublishedElim, PublishedElimPrime
<1>4. WriterKeeps
  BY <1>1, <1>2, <1>3 DEF WriterKeeps
<1>5. WriterInv'
  <2>0. PICK n \in Gens : n = next
    OBVIOUS
  <2>1. Settled(n)' /\ disk'[n] = "writing"
    <3>1. merge.phase = "none" \/ merge.out < next
      BY DEF WriterInv
    <3> QED BY <2>0, <3>1 DEF Settled
  <2>2. \A g \in Gens : g # next => disk'[g] = disk[g] /\ rows'[g] = rows[g]
    OBVIOUS
  <2>3. merge.phase # "none" => merge.out # next /\ next \notin merge.inputs
    BY <1>1 DEF WriterInv
  <2>4. /\ \A g \in Gens : disk'[g] # "none" => Settled(g)'
        /\ \A g \in Gens : disk'[g] \in {"partial", "complete", "unpublished"} =>
                                rows'[g] \subseteq Published'
    <3>1. ~(disk'[n] \in {"partial", "complete", "unpublished"})
      BY <2>1
    <3> QED BY <1>2, <1>3, <2>0, <2>1, <2>2, <3>1, FilesKeep
  <2>5. merge.phase \in {"renaming", "renamed", "toc"} =>
           rows'[merge.out] = UNION {rows'[g] : g \in merge.inputs}
    BY <2>2, <2>3 DEF WriterInv
  <2> QED BY <2>2, <2>3, <2>4, <2>5 DEF WriterInv
<1>6. ListingKeeps
  BY <1>1 DEF ListingKeeps, Firm
<1> QED BY <1>4, <1>5, <1>6

LEMMA FlushTocKeeps ==
  ASSUME WriterType, WriterInv, NEW g \in Gens, flush_toc(g)
  PROVE  WriterInv' /\ WriterKeeps /\ ListingKeeps
<1> USE DEF flush_toc, WriterType, DiskStates, MergeRecord
<1>1. \A x \in Gens : Settled(x) => Settled(x)' /\ rows'[x] = rows[x]
  BY DEF Settled
<1>2. Published \subseteq Published' /\ rows'[g] \subseteq Published'
  BY PublishedElim, PublishedElimPrime
<1>3. WriterKeeps
  BY <1>1, <1>2 DEF WriterKeeps
<1>4. WriterInv'
  <2>1. \A x \in Gens : x # g => disk'[x] = disk[x]
    OBVIOUS
  <2>2. Settled(g)'
    BY <1>1 DEF WriterInv
  <2>3. /\ \A x \in Gens : disk'[x] # "none" => Settled(x)'
        /\ \A x \in Gens : disk'[x] \in {"partial", "complete", "unpublished"} =>
                                rows'[x] \subseteq Published'
    BY <1>1, <1>2, <2>1, <2>2, FilesKeep
  <2>4. merge.phase # "none" => merge.phase = "running" \/ g # merge.out
    BY DEF WriterInv
  <2> QED BY <2>1, <2>3, <2>4 DEF WriterInv
<1>5. ListingKeeps
  BY DEF ListingKeeps, Firm
<1> QED BY <1>3, <1>4, <1>5

LEMMA MergeStartKeeps ==
  ASSUME WriterType, WriterInv, NEW inputs \in SUBSET Gens, merge_start(inputs)
  PROVE  WriterInv' /\ WriterKeeps /\ ListingKeeps
<1> USE GensFacts DEF merge_start, WriterType, DiskStates, MergeRecord
<1>1. disk[next] = "none"
  BY DEF WriterInv, Settled
<1>2. Published' = Published
  BY DEF Published
<1>3. \A g \in Gens : Settled(g) => Settled(g)' /\ rows'[g] = rows[g]
  BY DEF Settled
<1>4. WriterKeeps
  BY <1>2, <1>3 DEF WriterKeeps
<1>5. WriterInv'
  <2>1. merge'.phase = "running" /\ merge'.out = next /\ merge'.inputs = inputs
    OBVIOUS
  <2>2. \A x \in Gens : disk'[x] # "none" => Settled(x)'
    BY <1>3 DEF WriterInv
  <2> QED BY <1>1, <1>2, <2>1, <2>2 DEF WriterInv
<1>6. ListingKeeps
  BY DEF ListingKeeps, Firm
<1> QED BY <1>4, <1>5, <1>6

(* What the inputs of a compaction hold is published until it deletes them. *)
LEMMA InputsPublished ==
  ASSUME WriterType, WriterInv, merge.phase \in {"running", "renaming", "renamed", "toc"}
  PROVE  UNION {rows[g] : g \in merge.inputs} \subseteq Published
<1>1. merge.inputs \subseteq Gens /\ \A g \in merge.inputs : disk[g] = "published"
  BY DEF WriterType, MergeRecord, WriterInv
<1> QED BY <1>1, PublishedElim

LEMMA MergeRenameDataKeeps ==
  ASSUME WriterType, WriterInv, merge_rename_data
  PROVE  WriterInv' /\ WriterKeeps /\ ListingKeeps
<1> USE DEF merge_rename_data, WriterType, DiskStates, MergeRecord
<1>1. disk[merge.out] = "none" /\ merge.out \in Gens /\ ~Settled(merge.out)
  BY DEF WriterInv, Settled
<1>2. \A g \in Gens : g # merge.out => disk'[g] = disk[g] /\ rows'[g] = rows[g]
  OBVIOUS
<1>3. Published \subseteq Published'
  BY <1>1, <1>2, PublishedElim, PublishedElimPrime
<1>4. \A g \in Gens : Settled(g) => Settled(g)' /\ rows'[g] = rows[g]
  BY <1>1, <1>2 DEF Settled
<1>5. WriterKeeps
  BY <1>1, <1>2, <1>3, <1>4 DEF WriterKeeps
<1>6. WriterInv'
  <2>1. /\ merge'.phase = "renaming" /\ merge'.out = merge.out
        /\ merge'.inputs = merge.inputs
    OBVIOUS
  <2>2. rows'[merge.out] = UNION {rows[g] : g \in merge.inputs}
    BY <1>1
  <2>3. rows'[merge.out] \subseteq Published'
    BY <1>3, <2>2, InputsPublished
  <2>4. Settled(merge.out)' /\ disk'[merge.out] = "partial"
    BY <1>1, <2>1 DEF Settled, WriterInv
  <2>5. /\ \A g \in Gens : disk'[g] # "none" => Settled(g)'
        /\ \A g \in Gens : disk'[g] \in {"partial", "complete", "unpublished"} =>
                                rows'[g] \subseteq Published'
    BY <1>1, <1>2, <1>3, <1>4, <2>3, <2>4, FilesKeep
  <2>6. merge.out \notin merge.inputs /\ merge.inputs \subseteq Gens
    BY DEF WriterInv
  <2>7. UNION {rows'[g] : g \in merge.inputs} = UNION {rows[g] : g \in merge.inputs}
    BY <1>2, <2>6
  <2> QED BY <1>2, <2>1, <2>2, <2>4, <2>5, <2>6, <2>7 DEF WriterInv
<1>7. ListingKeeps
  BY <1>1, <1>2 DEF ListingKeeps, Firm
<1> QED BY <1>5, <1>6, <1>7

(* The steps that complete and publish an output.                           *)
LEMMA MergePublishKeeps ==
  ASSUME WriterType, WriterInv, merge_rename_rest \/ merge_toc \/ merge_sync_toc
  PROVE  WriterInv' /\ WriterKeeps /\ ListingKeeps
<1> USE DEF WriterType, DiskStates, MergeRecord
<1>1. /\ merge.out \in Gens
      /\ \/ merge.phase = "renaming" /\ disk[merge.out] = "partial"
         \/ merge.phase = "renamed" /\ disk[merge.out] = "complete"
         \/ merge.phase = "toc" /\ disk[merge.out] = "published"
      /\ merge'.out = merge.out /\ merge'.inputs = merge.inputs
      /\ rows' = rows /\ next' = next
      /\ \A g \in Gens : g # merge.out => disk'[g] = disk[g]
      /\ \/ /\ merge.phase = "renaming" /\ merge'.phase = "renamed"
            /\ disk'[merge.out] = "complete"
         \/ /\ merge.phase = "renamed" /\ merge'.phase = "toc"
            /\ disk'[merge.out] = "published"
         \/ /\ merge.phase = "toc" /\ merge'.phase = "deleting"
            /\ disk'[merge.out] = "published"
  BY DEF merge_rename_rest, merge_toc, merge_sync_toc, WriterInv
<1>2. \A g \in Gens : Settled(g) => Settled(g)' /\ rows'[g] = rows[g]
  BY <1>1 DEF Settled
<1>3. Published \subseteq Published'
  BY <1>1, PublishedElim, PublishedElimPrime
<1>4. WriterKeeps
  BY <1>1, <1>2, <1>3 DEF WriterKeeps
<1>5. rows[merge.out] = UNION {rows[g] : g \in merge.inputs}
  BY <1>1 DEF WriterInv
<1>6. rows[merge.out] \subseteq Published'
  BY <1>1, <1>3, <1>5, InputsPublished
<1>7. WriterInv'
  <2>1. Settled(merge.out)'
    BY <1>1, <1>2 DEF WriterInv
  <2>2. /\ \A g \in Gens : disk'[g] # "none" => Settled(g)'
        /\ \A g \in Gens : disk'[g] \in {"partial", "complete", "unpublished"} =>
                                rows'[g] \subseteq Published'
    BY <1>1, <1>2, <1>3, <1>6, <2>1, FilesKeep
  <2>3. \A g \in merge.inputs : disk'[g] = "published" /\ rows[g] \subseteq rows[merge.out]
    BY <1>1, <1>5 DEF WriterInv
  <2>4. merge.out < next /\ merge.out \notin merge.inputs
    BY <1>1 DEF WriterInv
  <2> QED BY <1>1, <1>5, <2>2, <2>3, <2>4 DEF WriterInv
<1>8. ListingKeeps
  BY <1>1 DEF ListingKeeps, Firm
<1> QED BY <1>4, <1>7, <1>8

(* A rollback takes away nothing that its inputs do not hold.               *)
LEMMA MergeRollbackKeeps ==
  ASSUME WriterType, WriterInv, merge_rollback
  PROVE  WriterInv' /\ WriterKeeps /\ ListingKeeps
<1> USE DEF WriterType, DiskStates, MergeRecord
<1>1. /\ merge.phase \in {"renaming", "renamed", "toc"} /\ merge.out \in Gens
      /\ disk[merge.out] \in {"partial", "complete", "published"}
      /\ merge' = NoMerge /\ rows' = rows /\ next' = next
      /\ \A g \in Gens : g # merge.out => disk'[g] = disk[g]
      /\ disk'[merge.out] \in {"none", "partial", disk[merge.out]}
  BY DEF merge_rollback, WriterInv
<1>2. \A g \in Gens : Settled(g) => Settled(g)' /\ rows'[g] = rows[g]
  BY <1>1 DEF Settled, NoMerge
<1>3. /\ rows[merge.out] = UNION {rows[g] : g \in merge.inputs}
      /\ merge.out \notin merge.inputs /\ merge.inputs \subseteq Gens
      /\ \A g \in merge.inputs : disk[g] = "published"
  BY <1>1 DEF WriterInv
<1>4. rows[merge.out] \subseteq Published'
  BY <1>1, <1>3, PublishedElimPrime
<1>5. Published \subseteq Published'
  <2> SUFFICES ASSUME NEW w \in Published PROVE w \in Published'
    OBVIOUS
  <2>1. PICK g \in Gens : disk[g] = "published" /\ w \in rows[g]
    BY PublishedElim
  <2>2. CASE g = merge.out
    BY <1>4, <2>1, <2>2
  <2>3. CASE g # merge.out
    BY <1>1, <2>1, <2>3, PublishedElimPrime
  <2> QED BY <2>2, <2>3
<1>6. WriterKeeps
  <2>1. Settled(merge.out)
    BY <1>1 DEF WriterInv
  <2> QED BY <1>1, <1>2, <1>5, <2>1 DEF WriterKeeps
<1>7. WriterInv'
  <2>0. PICK x \in Gens : x = merge.out
    BY <1>1
  <2>1. Settled(x)' /\ rows'[x] \subseteq Published'
    <3>1. \A g \in Gens : disk[g] # "none" => Settled(g)
      BY DEF WriterInv
    <3>2. disk[merge.out] # "none" /\ rows'[merge.out] = rows[merge.out]
      BY <1>1
    <3> QED BY <1>1, <1>2, <1>4, <2>0, <3>1, <3>2
  <2>2. /\ \A g \in Gens : disk'[g] # "none" => Settled(g)'
        /\ \A g \in Gens : disk'[g] \in {"partial", "complete", "unpublished"} =>
                                rows'[g] \subseteq Published'
    <3>1. \A g \in Gens : g # x => disk'[g] = disk[g]
      BY <1>1, <2>0
    <3> HIDE DEF WriterType, DiskStates, MergeRecord
    <3> QED BY <1>2, <1>5, <2>1, <3>1, FilesKeep
  <2> QED BY <1>1, <2>2 DEF WriterInv, NoMerge
<1>8. ListingKeeps
  BY <1>1 DEF ListingKeeps, Firm, NoMerge, WriterInv
<1> QED BY <1>6, <1>7, <1>8

(* The output has what the input held, so its TOC.txt may go.               *)
LEMMA DeleteTocKeeps ==
  ASSUME WriterType, WriterInv, NEW g \in Gens, delete_toc(g)
  PROVE  WriterInv' /\ WriterKeeps /\ ListingKeeps
<1> USE DEF delete_toc, WriterType, DiskStates, MergeRecord
<1>1. /\ merge.out \in Gens /\ merge.out # g /\ disk[merge.out] = "published"
      /\ rows[g] \subseteq rows[merge.out]
  BY DEF WriterInv
<1>2. \A x \in Gens : x # g => disk'[x] = disk[x]
  OBVIOUS
<1>3. Published \subseteq Published' /\ rows[g] \subseteq Published'
  BY <1>1, <1>2, PublishedElim, PublishedElimPrime
<1>4. \A x \in Gens : Settled(x) => Settled(x)' /\ rows'[x] = rows[x]
  BY DEF Settled
<1>5. WriterKeeps
  BY <1>2, <1>3, <1>4 DEF WriterKeeps
<1>6. WriterInv'
  <2>1. Settled(g)'
    BY <1>4 DEF WriterInv
  <2>2. /\ \A x \in Gens : disk'[x] # "none" => Settled(x)'
        /\ \A x \in Gens : disk'[x] \in {"partial", "complete", "unpublished"} =>
                                rows'[x] \subseteq Published'
    BY <1>2, <1>3, <1>4, <2>1, FilesKeep
  <2>3. \A x \in merge.inputs : disk'[x] \in {"published", "unpublished"}
    BY <1>2 DEF WriterInv
  <2> QED BY <1>1, <1>2, <2>2, <2>3 DEF WriterInv
<1>7. ListingKeeps
  BY <1>2 DEF ListingKeeps, Firm
<1> QED BY <1>5, <1>6, <1>7

LEMMA InputDoneKeeps ==
  ASSUME WriterType, WriterInv, NEW g \in Gens, delete_data(g) \/ delete_data_fails(g)
  PROVE  WriterInv' /\ WriterKeeps /\ ListingKeeps
<1> USE DEF input_done, NoMerge, WriterType, DiskStates, MergeRecord
<1>1. /\ input_done(g) /\ disk' \in [Gens -> DiskStates] /\ disk[g] = "unpublished"
      /\ \A x \in Gens : x # g => disk'[x] = disk[x]
      /\ disk'[g] \in {"none", "unpublished"}
  BY DEF delete_data, delete_data_fails
<1>2. Published \subseteq Published'
  BY <1>1, PublishedElim, PublishedElimPrime
<1>3. \A x \in Gens : Settled(x) => Settled(x)' /\ rows'[x] = rows[x]
  BY <1>1 DEF Settled
<1>4. WriterKeeps
  BY <1>1, <1>2, <1>3 DEF WriterKeeps
<1>5. WriterInv'
  <2>1. Settled(g)' /\ rows'[g] \subseteq Published'
    BY <1>1, <1>2, <1>3 DEF WriterInv
  <2>2. /\ \A x \in Gens : disk'[x] # "none" => Settled(x)'
        /\ \A x \in Gens : disk'[x] \in {"partial", "complete", "unpublished"} =>
                                rows'[x] \subseteq Published'
    BY <1>1, <1>2, <1>3, <2>1, FilesKeep
  <2>3. CASE merge' = NoMerge
    BY <2>2, <2>3 DEF WriterInv
  <2>4. CASE merge' = [merge EXCEPT !.inputs = @ \ {g}]
    <3>1. merge.out # g /\ merge.phase = "deleting" /\ merge.out \in Gens
      BY <1>1 DEF WriterInv
    <3>2. merge'.phase = "deleting" /\ merge'.out = merge.out
          /\ merge'.inputs = merge.inputs \ {g}
      BY <2>4, <3>1
    <3> QED BY <1>1, <2>2, <3>1, <3>2 DEF WriterInv
  <2> QED BY <1>1, <2>3, <2>4
<1>6. ListingKeeps
  <2>1. CASE delete_data_fails(g)
    BY <1>1, <2>1 DEF ListingKeeps, Firm, delete_data_fails
  <2>2. CASE delete_data(g)
    BY <2>2 DEF ListingKeeps, delete_data
  <2> QED BY <2>1, <2>2
<1> QED BY <1>4, <1>5, <1>6

LEMMA WritesKeep ==
  ASSUME WriterType, WriterInv, Writes
  PROVE  WriterInv' /\ WriterKeeps /\ ListingKeeps
BY FlushKeeps, FlushTocKeeps, MergeStartKeeps, MergeRenameDataKeeps,
   MergePublishKeeps, MergeRollbackKeeps, DeleteTocKeeps, InputDoneKeeps DEF Writes

-----------------------------------------------------------------------------
(* The callers.                                                             *)

LEMMA ReachElim == \A w : w \in Reach <=> \E h \in held : w \in rows[h.gen]
BY DEF Reach

LEMMA ReachElimPrime == \A w : w \in Reach' <=> \E h \in held' : w \in rows'[h.gen]
BY DEF Reach

(* What the held generations hold is seen, or behind a reader that does not *)
(* see all of it.                                                           *)
LEMMA ReachSplit ==
  ASSUME \A h \in held : h.rows \subseteq rows[h.gen]
  PROVE  Reach = View \cup Behind
<1>1. \A w : w \in View <=> \E h \in held : w \in h.rows
  BY DEF View
<1>2. \A w : w \in Behind <=> \E h \in held : h.rows # rows[h.gen] /\ w \in rows[h.gen]
  BY DEF Behind
<1> QED BY <1>1, <1>2, ReachElim

LEMMA ReadersInvInit == Init => LockInv /\ ReadersInv
<1> SUFFICES ASSUME Init PROVE LockInv /\ ReadersInv
  OBVIOUS
<1> USE DEF Init, Idle
<1>1. LockInv
  BY DEF LockInv, Lists
<1>2. \A t \in Tasks : CallInv(t)
  BY DEF CallInv, Lists
<1> QED BY <1>1, <1>2 DEF ReadersInv

(* A step of the writer disturbs no caller.                                 *)
LEMMA WritesKeepReaders ==
  ASSUME WriterType, ReaderType, LockInv, ReadersInv, WriterKeeps, ListingKeeps,
         UNCHANGED readers, quiet' = quiet \/ quiet' = FALSE
  PROVE  LockInv' /\ ReadersInv'
<1> USE DEF readers
<1>1. LockInv'
  BY DEF LockInv, Lists
<1>2. ASSUME NEW h \in Reader, Sound(h) PROVE Sound(h)' /\ rows'[h.gen] = rows[h.gen]
  BY <1>2 DEF Sound, WriterKeeps, Reader
<1>3. Reach' = Reach
  <2>1. \A h \in held : rows'[h.gen] = rows[h.gen]
    BY <1>2 DEF ReadersInv, ReaderType
  <2> QED BY <2>1, ReachElim, ReachElimPrime
<1>4. ASSUME NEW t \in Tasks PROVE CallInv(t)'
  <2>1. CallInv(t) /\ task[t] \in TaskRecord
    BY DEF ReadersInv, ReaderType
  <2>2. ASSUME NEW w, Found(t, w), quiet' PROVE Found(t, w)'
    <3>1. PICK g \in Gens :
            /\ Settled(g) /\ w \in rows[g]
            /\ \/ g \in task[t].listed
               \/ task[t].pc = "list" /\ g \in task[t].unread /\ Firm(g)
      BY <2>2 DEF Found
    <3>2. Settled(g)' /\ w \in rows'[g]
      BY <3>1 DEF WriterKeeps
    <3>3. task[t].pc = "list" /\ Firm(g) => Firm(g)'
      BY <2>2 DEF ListingKeeps
    <3> QED BY <3>1, <3>2, <3>3 DEF Found
  <2>3. \A g \in task[t].listed : Settled(g) => Settled(g)'
    BY <2>1 DEF WriterKeeps, TaskRecord
  <2>4. \A h \in task[t].opened : Sound(h)'
    BY <1>2, <2>1 DEF CallInv, TaskRecord
  <2>5. ready' /\ Lists(t)' /\ quiet' =>
           \A w \in task'[t].before \cup Reach' : Found(t, w)'
    BY <1>3, <2>1, <2>2 DEF CallInv, Lists
  <2>6. ready' /\ Lists(t)' => \A h \in held' : Noted(t, h)'
    <3> SUFFICES ASSUME ready, Lists(t), NEW h \in held PROVE Noted(t, h)'
      BY DEF Lists
    <3>1. Noted(t, h) /\ Settled(h.gen) /\ h.gen \in Gens
      BY <2>1 DEF CallInv, ReadersInv, Sound, ReaderType, Reader
    <3> QED BY <3>1 DEF Noted, WriterKeeps
  <2>7. GensOf(held)' = GensOf(held)
    BY DEF GensOf
  <2> QED BY <2>1, <2>3, <2>4, <2>5, <2>6, <2>7 DEF CallInv, Lists, GensOf
<1>5. \A h \in held' : Sound(h)'
  BY <1>2 DEF ReadersInv, ReaderType
<1> QED BY <1>1, <1>3, <1>4, <1>5 DEF ReadersInv

(* What a step of a caller leaves alone.                                    *)
LEMMA WriterStays ==
  ASSUME UNCHANGED writer
  PROVE  /\ Published' = Published
         /\ \A g : Settled(g)' <=> Settled(g)
         /\ \A g : Firm(g)' <=> Firm(g)
         /\ \A h : Sound(h)' <=> Sound(h)
<1> USE DEF writer
<1>1. Published' = Published
  BY DEF Published
<1>2. \A g : Settled(g)' <=> Settled(g)
  BY DEF Settled
<1>3. \A g : Firm(g)' <=> Firm(g)
  BY DEF Firm
<1>4. \A h : Sound(h)' <=> Sound(h)
  BY <1>1, <1>2 DEF Sound
<1> QED BY <1>1, <1>2, <1>3, <1>4

LEMMA HeldStays ==
  ASSUME UNCHANGED writer, held' = held
  PROVE  Reach' = Reach /\ GensOf(held)' = GensOf(held)
BY DEF writer, Reach, GensOf

(* A step of one call leaves the others as they are, unless it changes what *)
(* is visible or begins a listing; then no other call is under way.         *)
LEMMA OthersKeep ==
  ASSUME WriterType, ReaderType, LockInv, ReadersInv, UNCHANGED writer,
         NEW u \in Tasks, task'[u] = task[u],
         \/ ready' = ready /\ held' = held /\ quiet' = quiet
         \/ ~Lists(u)
  PROVE  CallInv(u)'
<1>1. CallInv(u)
  BY DEF ReadersInv
<1>2. \A h \in task[u].opened : Sound(h)'
  BY <1>1, WriterStays DEF CallInv
<1>3. CASE ready' = ready /\ held' = held /\ quiet' = quiet
  <2>1. Reach' = Reach /\ GensOf(held)' = GensOf(held)
    BY <1>3, HeldStays
  <2>2. \A w : Found(u, w)' <=> Found(u, w)
    BY WriterStays DEF Found, writer
  <2>3. \A h : Noted(u, h)' <=> Noted(u, h)
    BY DEF Noted, writer
  <2> QED BY <1>1, <1>2, <1>3, <2>1, <2>2, <2>3, WriterStays DEF CallInv, Lists, GensOf
<1>4. CASE ~Lists(u)
  BY <1>1, <1>2, <1>4 DEF CallInv, Lists
<1> QED BY <1>3, <1>4

(* A step of t that changes no reader keeps the invariant if it keeps its   *)
(* own part of it.                                                          *)
LEMMA StepOfOne ==
  ASSUME WriterType, ReaderType, LockInv, ReadersInv, UNCHANGED writer,
         NEW t \in Tasks, NEW r, Set(t, r), UNCHANGED <<ready, held, promised>>,
         quiet' = quiet \/ \A u \in Tasks : u # t => ~Lists(u),
         CallInv(t)'
  PROVE  ReadersInv'
<1>1. \A u \in Tasks : u # t => task'[u] = task[u]
  BY DEF Set, ReaderType
<1>2. \A u \in Tasks : CallInv(u)'
  BY <1>1, OthersKeep
<1>3. Reach' = Reach
  BY HeldStays
<1>4. \A h \in held' : Sound(h)'
  BY WriterStays DEF ReadersInv
<1> QED BY <1>2, <1>3, <1>4 DEF ReadersInv

LEMMA LoadBeginKeeps ==
  ASSUME IInv, NEW t \in Tasks, load_begin(t)
  PROVE  LockInv' /\ ReadersInv'
<1> USE DEF IInv
<1>1. task'[t] = [Idle EXCEPT !.pc = "list", !.before = {}, !.unread = Gens]
      /\ \A u \in Tasks : u # t => task'[u] = Idle
  BY DEF load_begin, begin_listing, Set, ReaderType
<1>2. LockInv'
  <2>1. task'[t].pc = "list" /\ \A u \in Tasks : u # t => task'[u].pc = "idle"
    BY <1>1 DEF Idle
  <2>2. ~ready' /\ held' = {} /\ promised' = {}
    BY DEF LockInv, load_begin
  <2> QED BY <2>1, <2>2 DEF LockInv
<1>3. CallInv(t)'
  BY <1>1 DEF CallInv, load_begin, Idle
<1>4. \A u \in Tasks : ~Lists(u)
  BY DEF Lists, load_begin, Idle
<1> QED BY <1>2, <1>3, <1>4, StepOfOne DEF load_begin, begin_listing

LEMMA RefreshCallKeeps ==
  ASSUME IInv, NEW t \in Tasks, refresh_call(t)
  PROVE  LockInv' /\ ReadersInv'
<1> USE DEF IInv
<1>1. task'[t] = [Idle EXCEPT !.pc = "wait"]
      /\ \A u \in Tasks : u # t => task'[u] = task[u]
  BY DEF refresh_call, Set, ReaderType
<1>2. LockInv'
  BY <1>1 DEF LockInv, Lists, refresh_call, Idle
<1>3. CallInv(t)'
  BY <1>1 DEF CallInv, Lists, Idle
<1> QED BY <1>2, <1>3, StepOfOne DEF refresh_call

(* At the start of a listing every published or held write is in a file     *)
(* that stays while the listing is quiet.                                   *)
LEMMA RefreshBeginKeeps ==
  ASSUME IInv, NEW t \in Tasks, refresh_begin(t)
  PROVE  LockInv' /\ ReadersInv'
<1> USE DEF IInv
<1>1. task'[t] = [Idle EXCEPT !.pc = "list", !.before = Published, !.unread = Gens]
      /\ \A u \in Tasks : u # t => task'[u] = task[u]
  BY DEF refresh_begin, begin_listing, Set, ReaderType
<1>2. ready /\ \A u \in Tasks : ~Lists(u)
  BY RefreshAssumption DEF LockInv, refresh_begin, NoTask
<1>3. LockInv'
  BY <1>1, <1>2 DEF LockInv, Lists, refresh_begin
<1>4. UNCHANGED writer /\ held' = held
  BY DEF refresh_begin
<1>5. /\ task'[t].before = Published /\ task'[t].listed = {} /\ task'[t].opened = {}
      /\ task'[t].pc = "list" /\ task'[t].unread = Gens
  BY <1>1 DEF Idle
<1>6. ASSUME NEW w, NEW g \in Gens, Firm(g), Settled(g), w \in rows[g]
      PROVE  Found(t, w)'
  BY <1>4, <1>5, <1>6, WriterStays DEF Found, writer
<1>7. ASSUME NEW w \in Published
      PROVE  \E g \in Gens : Firm(g) /\ Settled(g) /\ w \in rows[g]
  <2>1. PICK g \in Gens : disk[g] = "published" /\ w \in rows[g]
    BY <1>7, PublishedElim
  <2>2. CASE Firm(g)
    BY <2>1, <2>2 DEF WriterInv
  <2>3. CASE ~Firm(g)
    <3>1. merge.phase = "toc" /\ g = merge.out
      BY <2>1, <2>3 DEF Firm
    <3>2. /\ rows[g] = UNION {rows[x] : x \in merge.inputs}
          /\ g \notin merge.inputs /\ \A x \in merge.inputs : disk[x] = "published"
      BY <3>1 DEF WriterInv
    <3>3. PICK x \in merge.inputs : w \in rows[x]
      BY <2>1, <3>2
    <3>4. x \in Gens /\ x # g /\ disk[x] = "published"
      BY <3>2, <3>3 DEF WriterType, MergeRecord
    <3>5. Firm(x) /\ Settled(x)
      BY <3>1, <3>4 DEF Firm, WriterInv
    <3> QED BY <3>3, <3>4, <3>5
  <2> QED BY <2>2, <2>3
<1>8. ASSUME NEW w \in Reach PROVE Found(t, w)'
  <2>1. PICK h \in held : w \in rows[h.gen]
    BY <1>8, ReachElim
  <2>2. h.gen \in Gens /\ Sound(h)
    BY DEF ReadersInv, ReaderType, Reader
  <2>3. CASE rows[h.gen] \subseteq Published
    BY <1>6, <1>7, <2>1, <2>3
  <2>4. CASE disk[h.gen] = "writing"
    <3>1. Firm(h.gen)
      BY <2>4 DEF Firm, WriterInv
    <3> QED BY <1>6, <2>1, <2>2, <3>1 DEF Sound
  <2> QED BY <2>2, <2>3, <2>4 DEF Sound
<1>9. Reach' = Reach
  BY <1>4, HeldStays
<1>10. \A h \in held' : Noted(t, h)'
  BY <1>4, <1>5 DEF Noted, ReaderType, Reader
<1>11. CallInv(t)'
  BY <1>5, <1>6, <1>7, <1>8, <1>9, <1>10 DEF CallInv, Lists
<1> QED BY <1>2, <1>3, <1>11, StepOfOne DEF refresh_begin, begin_listing

LEMMA NextEntryKeeps ==
  ASSUME IInv, NEW t \in Tasks, NEW g \in Gens, next_entry(t, g)
  PROVE  LockInv' /\ ReadersInv'
<1> USE DEF IInv
<1> DEFINE r == [task[t] EXCEPT
                    !.unread = @ \ {g},
                    !.listed = IF disk[g] = "none" THEN @ ELSE @ \cup {g}]
<1>1. task' = [task EXCEPT ![t] = r] /\ task'[t] = r
      /\ \A u \in Tasks : u # t => task'[u] = task[u]
  BY DEF next_entry, Set, ReaderType
<1>2. task[t] \in TaskRecord /\ CallInv(t)
  BY DEF ReaderType, ReadersInv
<1>3. /\ r.pc = "list" /\ r.before = task[t].before /\ r.opened = task[t].opened
      /\ r.unread = task[t].unread \ {g} /\ r.added = task[t].added
      /\ r.listed = IF disk[g] = "none" THEN task[t].listed ELSE task[t].listed \cup {g}
  BY <1>2 DEF TaskRecord, next_entry
<1> HIDE DEF r
<1>4. LockInv'
  BY <1>1, <1>3 DEF LockInv, Lists, next_entry
<1>5. UNCHANGED writer /\ held' = held /\ ready' = ready /\ quiet' = quiet
      /\ Reach' = Reach
  BY HeldStays DEF next_entry
<1>6. disk[g] # "none" => Settled(g)
  BY DEF WriterInv
<1>7. \A x \in task'[t].listed : Settled(x)'
  BY <1>1, <1>2, <1>3, <1>5, <1>6, WriterStays DEF CallInv, Lists, next_entry
<1>8. \A h \in task'[t].opened : Sound(h)'
  BY <1>1, <1>2, <1>3, <1>5, WriterStays DEF CallInv
<1>9. ASSUME NEW w, Found(t, w) PROVE Found(t, w)'
  <2>1. PICK x \in Gens :
          /\ Settled(x) /\ w \in rows[x]
          /\ \/ x \in task[t].listed
             \/ task[t].pc = "list" /\ x \in task[t].unread /\ Firm(x)
    BY <1>9 DEF Found
  <2>2. Firm(x) => disk[x] # "none"
    BY DEF Firm
  <2> QED BY <1>1, <1>3, <1>5, <2>1, <2>2, WriterStays DEF Found, writer
<1>10. ready' /\ Lists(t)' /\ quiet' =>
          \A w \in task'[t].before \cup Reach' : Found(t, w)'
  BY <1>1, <1>2, <1>3, <1>5, <1>9 DEF CallInv, Lists, next_entry
<1>11. ready' /\ Lists(t)' => \A h \in held' : Noted(t, h)'
  BY <1>1, <1>2, <1>3, <1>5 DEF CallInv, Lists, Noted, next_entry, writer
<1>12. CallInv(t)'
  BY <1>1, <1>3, <1>7, <1>8, <1>10, <1>11 DEF CallInv
<1> QED BY <1>1, <1>4, <1>12, StepOfOne DEF next_entry, Set

LEMMA DiffKeeps ==
  ASSUME IInv, NEW t \in Tasks, diff(t)
  PROVE  LockInv' /\ ReadersInv'
<1> USE DEF IInv
<1> DEFINE r == [task[t] EXCEPT !.pc = "open", !.added = task[t].listed \ GensOf(held)]
<1>1. task' = [task EXCEPT ![t] = r] /\ task'[t] = r
      /\ \A u \in Tasks : u # t => task'[u] = task[u]
  BY DEF diff, Set, ReaderType
<1>2. task[t] \in TaskRecord /\ CallInv(t)
  BY DEF ReaderType, ReadersInv
<1>3. /\ r.pc = "open" /\ r.before = task[t].before /\ r.opened = task[t].opened
      /\ r.listed = task[t].listed /\ r.added = task[t].listed \ GensOf(held)
      /\ r.unread = {} /\ task[t].unread = {} /\ task[t].pc = "list"
  BY <1>2 DEF TaskRecord, diff
<1> HIDE DEF r
<1>4. LockInv'
  BY <1>1, <1>3 DEF LockInv, Lists, diff
<1>5. UNCHANGED writer /\ held' = held /\ ready' = ready /\ quiet' = quiet
      /\ Reach' = Reach /\ GensOf(held)' = GensOf(held)
  BY HeldStays DEF diff
<1>6. \A x \in task'[t].listed : Settled(x)'
  BY <1>1, <1>2, <1>3, <1>5, WriterStays DEF CallInv, Lists
<1>7. \A h \in task'[t].opened : Sound(h)'
  BY <1>1, <1>2, <1>3, <1>5, WriterStays DEF CallInv
<1>8. \A w : Found(t, w) => Found(t, w)'
  BY <1>1, <1>3, <1>5, WriterStays DEF Found, writer
<1>9. ready' /\ Lists(t)' /\ quiet' =>
         \A w \in task'[t].before \cup Reach' : Found(t, w)'
  BY <1>1, <1>2, <1>3, <1>5, <1>8 DEF CallInv, Lists
<1>10. ready' /\ Lists(t)' => \A h \in held' : Noted(t, h)'
  BY <1>1, <1>2, <1>3, <1>5 DEF CallInv, Lists, Noted, writer
<1>11. CallInv(t)'
  BY <1>1, <1>3, <1>5, <1>6, <1>7, <1>9, <1>10 DEF CallInv
<1> QED BY <1>1, <1>4, <1>11, StepOfOne DEF diff, Set

(* What opens yields no more than the generation holds.                     *)
LEMMA OpensSound ==
  ASSUME WriterType, WriterInv, NEW g \in Gens, NEW seen \in Opens(g)
  PROVE  Sound([gen |-> g, rows |-> seen])
<1>1. disk[g] # "none" /\ disk[g] \in DiskStates /\ seen \subseteq rows[g]
  BY DEF Opens, WriterType, DiskStates
<1>2. Settled(g)
  BY <1>1 DEF WriterInv
<1>3. disk[g] = "published" => rows[g] \subseteq Published
  BY PublishedElim
<1>4. disk[g] \in {"partial", "complete", "unpublished"} => rows[g] \subseteq Published
  BY DEF WriterInv
<1> QED BY <1>1, <1>2, <1>3, <1>4 DEF Sound, DiskStates

LEMMA OpenReaderKeeps ==
  ASSUME IInv, NEW t \in Tasks, NEW g \in Gens, open_reader(t, g)
  PROVE  LockInv' /\ ReadersInv'
<1> USE DEF IInv
<1>1. PICK seen \in Opens(g) :
         Set(t, [task[t] EXCEPT !.added = @ \ {g},
                                !.opened = @ \cup {[gen |-> g, rows |-> seen]}])
  BY DEF open_reader
<1> DEFINE o == [gen |-> g, rows |-> seen]
           r == [task[t] EXCEPT !.added = @ \ {g}, !.opened = @ \cup {o}]
<1>2. task' = [task EXCEPT ![t] = r] /\ task'[t] = r
      /\ \A u \in Tasks : u # t => task'[u] = task[u]
  BY <1>1 DEF Set, ReaderType
<1>3. task[t] \in TaskRecord /\ CallInv(t)
  BY DEF ReaderType, ReadersInv
<1>4. /\ r.pc = "open" /\ r.before = task[t].before /\ r.listed = task[t].listed
      /\ r.added = task[t].added \ {g} /\ r.opened = task[t].opened \cup {o}
      /\ r.unread = task[t].unread
  BY <1>3 DEF TaskRecord, open_reader
<1>5. Sound(o) /\ o.gen = g
  BY OpensSound
<1> HIDE DEF r, o
<1>6. LockInv'
  BY <1>2, <1>4 DEF LockInv, Lists, open_reader
<1>7. UNCHANGED writer /\ held' = held /\ ready' = ready /\ quiet' = quiet
      /\ Reach' = Reach /\ GensOf(held)' = GensOf(held) /\ task[t].pc = "open"
  BY HeldStays DEF open_reader
<1>8. \A x \in task'[t].listed : Settled(x)'
  BY <1>2, <1>3, <1>4, <1>7, WriterStays DEF CallInv, Lists
<1>9. \A h \in task'[t].opened : Sound(h)'
  BY <1>2, <1>3, <1>4, <1>5, <1>7, WriterStays DEF CallInv
<1>10. \A w : Found(t, w) => Found(t, w)'
  BY <1>2, <1>4, <1>7, WriterStays DEF Found, writer
<1>11. ready' /\ Lists(t)' /\ quiet' =>
          \A w \in task'[t].before \cup Reach' : Found(t, w)'
  BY <1>2, <1>3, <1>4, <1>7, <1>10 DEF CallInv, Lists
<1>12. GensOf(r.opened) = GensOf(task[t].opened) \cup {g}
  BY <1>4, <1>5 DEF GensOf
<1>13. ready => r.listed \subseteq GensOf(held) \cup r.added \cup GensOf(r.opened)
  BY <1>3, <1>4, <1>7, <1>12 DEF CallInv
<1>14. ready' /\ Lists(t)' => \A h \in held' : Noted(t, h)'
  BY <1>2, <1>3, <1>4, <1>7 DEF CallInv, Lists, Noted, writer
<1>15. task'[t].unread = {}
  BY <1>2, <1>3, <1>4, <1>7 DEF CallInv
<1>16. CallInv(t)'
  BY <1>2, <1>7, <1>8, <1>9, <1>11, <1>13, <1>14, <1>15 DEF CallInv, GensOf
<1> QED BY <1>2, <1>6, <1>16, StepOfOne DEF open_reader, Set

LEMMA SkipUnreadableKeeps ==
  ASSUME IInv, NEW t \in Tasks, NEW g \in Gens, skip_unreadable(t, g)
  PROVE  LockInv' /\ ReadersInv'
<1> USE DEF IInv
<1> DEFINE r == [task[t] EXCEPT !.added = @ \ {g}]
<1>1. task' = [task EXCEPT ![t] = r] /\ task'[t] = r
      /\ \A u \in Tasks : u # t => task'[u] = task[u]
  BY DEF skip_unreadable, Set, ReaderType
<1>2. task[t] \in TaskRecord /\ CallInv(t) /\ ~ready
  BY DEF ReaderType, ReadersInv, skip_unreadable
<1>3. /\ r.pc = "open" /\ r.listed = task[t].listed /\ r.opened = task[t].opened
      /\ r.unread = task[t].unread /\ task[t].pc = "open"
  BY <1>2 DEF TaskRecord, skip_unreadable
<1> HIDE DEF r
<1>4. LockInv'
  BY <1>1, <1>3 DEF LockInv, Lists, skip_unreadable
<1>5. UNCHANGED writer /\ ~ready'
  BY <1>2 DEF skip_unreadable
<1>6. CallInv(t)'
  BY <1>1, <1>2, <1>3, <1>5, WriterStays DEF CallInv, Lists
<1> QED BY <1>1, <1>4, <1>6, StepOfOne DEF skip_unreadable, Set

LEMMA RefreshFailsKeeps ==
  ASSUME IInv, NEW t \in Tasks, NEW g \in Gens, refresh_fails(t, g)
  PROVE  LockInv' /\ ReadersInv'
<1> USE DEF IInv
<1>1. task'[t] = Idle /\ \A u \in Tasks : u # t => task'[u] = task[u]
  BY DEF refresh_fails, Set, ReaderType
<1>2. ready /\ \A u \in Tasks : u # t => ~Lists(u)
  BY DEF LockInv, Lists, refresh_fails
<1>3. LockInv'
  BY <1>1, <1>2 DEF LockInv, Lists, refresh_fails, Idle
<1>4. CallInv(t)'
  BY <1>1 DEF CallInv, Lists, Idle
<1> QED BY <1>3, <1>4, StepOfOne DEF refresh_fails

LEMMA LoadEndKeeps ==
  ASSUME IInv, NEW t \in Tasks, load_end(t)
  PROVE  LockInv' /\ ReadersInv'
<1> USE DEF IInv
<1>1. task'[t] = Idle /\ \A u \in Tasks : u # t => task'[u] = task[u]
  BY DEF load_end, Set, ReaderType
<1>2. \A u \in Tasks : u # t => ~Lists(u)
  BY DEF LockInv, Lists, load_end
<1>3. LockInv'
  BY <1>1, <1>2 DEF LockInv, Lists, load_end, Idle
<1>4. CallInv(t)'
  BY <1>1 DEF CallInv, Lists, Idle
<1>5. \A u \in Tasks : CallInv(u)'
  BY <1>1, <1>2, <1>4, OthersKeep DEF load_end
<1>6. \A h \in held' : Sound(h)
  BY DEF ReadersInv, CallInv, load_end
<1>7. \A h \in held' : Sound(h)'
  BY <1>6, WriterStays DEF load_end
<1>8. promised' = {}
  BY DEF LockInv, load_end
<1> QED BY <1>3, <1>5, <1>7, <1>8 DEF ReadersInv

(* The readers after the swap are of generations that hold every write the  *)
(* call found.                                                              *)
LEMMA SwapShows ==
  ASSUME IInv, NEW t \in Tasks, refresh_swap(t), quiet
  PROVE  task[t].before \cup Reach \subseteq Reach'
<1> USE DEF IInv
<1> DEFINE kept == {h \in held : h.gen \in task[t].listed}
<1>1. held' = kept \cup {o \in task[t].opened : o.gen \notin GensOf(kept)}
      /\ rows' = rows
  BY DEF refresh_swap, writer
<1>2. CallInv(t) /\ ready /\ task[t].pc = "open" /\ task[t].added = {}
  BY DEF ReadersInv, refresh_swap
<1> SUFFICES ASSUME NEW w \in task[t].before \cup Reach PROVE w \in Reach'
  OBVIOUS
<1>3. PICK g \in Gens : w \in rows[g] /\ g \in task[t].listed
  BY <1>2 DEF CallInv, Lists, Found
<1>4. g \in GensOf(held) \cup GensOf(task[t].opened)
  BY <1>2, <1>3 DEF CallInv
<1>5. CASE g \in GensOf(held)
  <2>1. PICK h \in held : h.gen = g
    BY <1>5 DEF GensOf
  <2>2. h \in held'
    BY <1>1, <1>3, <2>1
  <2> QED BY <1>1, <1>3, <2>1, <2>2, ReachElimPrime
<1>6. CASE g \notin GensOf(held) /\ g \in GensOf(task[t].opened)
  <2>1. PICK o \in task[t].opened : o.gen = g
    BY <1>6 DEF GensOf
  <2>2. o \in held'
    BY <1>1, <1>6, <2>1 DEF GensOf
  <2> QED BY <1>1, <1>3, <2>1, <2>2, ReachElimPrime
<1> QED BY <1>4, <1>5, <1>6

(* A reader that the swap drops has lost its file.                          *)
LEMMA SwapDrops ==
  ASSUME IInv, NEW t \in Tasks, refresh_swap(t), NEW h \in held
  PROVE  h.gen \in GensOf(held') \/ disk[h.gen] = "none"
<1>1. CallInv(t) /\ ready /\ task[t].pc = "open"
  BY DEF IInv, ReadersInv, refresh_swap
<1>2. h.gen \in task[t].listed \/ disk[h.gen] = "none"
  BY <1>1 DEF CallInv, Lists, Noted
<1>3. h.gen \in task[t].listed => h \in held'
  BY DEF refresh_swap
<1> QED BY <1>2, <1>3 DEF GensOf

LEMMA RefreshSwapKeeps ==
  ASSUME IInv, NEW t \in Tasks, refresh_swap(t)
  PROVE  LockInv' /\ ReadersInv'
<1> USE DEF IInv
<1>1. task'[t] = Idle /\ \A u \in Tasks : u # t => task'[u] = task[u]
  BY DEF refresh_swap, Set, ReaderType
<1>2. ready /\ \A u \in Tasks : u # t => ~Lists(u)
  BY DEF LockInv, Lists, refresh_swap
<1>3. LockInv'
  BY <1>1, <1>2 DEF LockInv, Lists, refresh_swap, Idle
<1>4. CallInv(t)'
  BY <1>1 DEF CallInv, Lists, Idle
<1>5. \A u \in Tasks : CallInv(u)'
  BY <1>1, <1>2, <1>4, OthersKeep DEF refresh_swap
<1>6. \A h \in held' : h \in held \cup task[t].opened
  BY DEF refresh_swap
<1>7. \A h \in held' : Sound(h)'
  BY <1>6, WriterStays DEF ReadersInv, CallInv, refresh_swap
<1>8. promised' \subseteq Reach'
  <2>1. CASE quiet
    BY <2>1, SwapShows DEF refresh_swap, ReadersInv
  <2>2. CASE ~quiet
    BY <2>2 DEF refresh_swap
  <2> QED BY <2>1, <2>2
<1> QED BY <1>3, <1>5, <1>7, <1>8 DEF ReadersInv

LEMMA IInvStep ==
  ASSUME IInv, [Next]_vars
  PROVE  IInv'
<1>1. WriterType' /\ ReaderType'
  BY TypeStep DEF IInv
<1>2. CASE Writes
  BY <1>1, <1>2, WritesKeep, WritesKeepCalls, WritesKeepReaders DEF IInv
<1>3. ASSUME NEW t \in Tasks,
             load_begin(t) \/ refresh_call(t) \/ refresh_begin(t) \/ Step(t)
      PROVE  IInv'
  <2>1. UNCHANGED writer
    BY <1>3 DEF load_begin, refresh_call, refresh_begin, Step, diff, load_end,
                refresh_swap, next_entry, open_reader, skip_unreadable, refresh_fails
  <2>2. WriterInv'
    BY <2>1 DEF IInv, WriterInv, Published, Settled, writer
  <2>3. LockInv' /\ ReadersInv'
    BY <1>3, LoadBeginKeeps, RefreshCallKeeps, RefreshBeginKeeps, DiffKeeps,
       LoadEndKeeps, RefreshSwapKeeps, NextEntryKeeps, OpenReaderKeeps,
       SkipUnreadableKeeps, RefreshFailsKeeps DEF Step
  <2> QED BY <1>1, <2>2, <2>3 DEF IInv
<1>4. CASE UNCHANGED vars
  <2>1. WriterInv' /\ WriterKeeps /\ ListingKeeps /\ UNCHANGED <<readers, quiet>>
    BY <1>4 DEF vars, IInv, WriterInv, WriterKeeps, ListingKeeps, readers,
                Published, Settled, Firm
  <2> QED BY <1>1, <2>1, WritesKeepReaders DEF IInv
<1> QED BY <1>2, <1>3, <1>4 DEF Next

LEMMA RefreshInvariant == Spec => []IInv
<1>1. Init => IInv
  BY TypeInit, WriterInvInit, ReadersInvInit DEF IInv
<1>2. IInv /\ [Next]_vars => IInv'
  BY IInvStep
<1> QED BY <1>1, <1>2, PTL DEF Spec

LEMMA IInvReach == IInv => Reach = View \cup Behind
BY ReachSplit DEF IInv, ReadersInv, Sound

(* A step that is no swap leaves the readers of an open handle alone.       *)
LEMMA OnlySwaps ==
  ASSUME IInv, Next, ready, \A t \in Tasks : ~refresh_swap(t)
  PROVE  held' = held
<1>1. CASE Writes
  BY <1>1, WritesKeepCalls DEF IInv, readers
<1>2. ASSUME NEW t \in Tasks,
             load_begin(t) \/ refresh_call(t) \/ refresh_begin(t) \/ Step(t)
      PROVE  held' = held
  BY <1>2 DEF load_begin, refresh_call, refresh_begin, Step, diff, load_end,
              next_entry, open_reader, skip_unreadable, refresh_fails
<1> QED BY <1>1, <1>2 DEF Next

(* Every write that was published before a successful refresh_tables began  *)
(* is in an SSTable whose reader the handle holds from then on, and visible *)
(* unless that reader was opened before the SSTable was complete: for any   *)
(* number of SSTables, compactions, rollbacks and concurrent refreshes, as  *)
(* long as no input is deleted while a refresh lists the directory.         *)
THEOREM RefreshShowsPublished == Spec => []RefreshShows
<1>1. IInv => RefreshShows
  BY IInvReach DEF IInv, ReadersInv, RefreshShows
<1> QED BY <1>1, RefreshInvariant, PTL

(* Under the same reservations no step of a refresh, of a flush or of a     *)
(* compaction takes a visible write away from the queries.                  *)
THEOREM RefreshNeverForgets == Spec => NeverForgets
<1> DEFINE Split == Reach = View \cup Behind
<1>1. IInv /\ Split /\ Split' /\ [Next]_vars =>
         [ready /\ quiet => View \subseteq View' \cup Behind']_vars
  <2> SUFFICES ASSUME IInv, Split, Split', Next, ready, quiet
               PROVE  View \subseteq View' \cup Behind'
    BY DEF vars, View
  <2>1. CASE \E t \in Tasks : refresh_swap(t)
    <3>1. View \subseteq Reach /\ Reach' = View' \cup Behind'
      OBVIOUS
    <3>2. Reach \subseteq Reach'
      BY <2>1, SwapShows
    <3> QED BY <3>1, <3>2
  <2>2. CASE \A t \in Tasks : ~refresh_swap(t)
    BY <2>2, OnlySwaps DEF View
  <2> QED BY <2>1, <2>2
<1>2. IInv => Split
  BY IInvReach
<1> HIDE DEF Split
<1> QED BY <1>1, <1>2, RefreshInvariant, PTL DEF Spec, NeverForgets

(* A refresh drops the reader of a generation only when the Data.db is      *)
(* gone, whatever compactions delete while it lists: with no reservation.   *)
THEOREM RefreshDropsOnlyDeleted == Spec => DropsOnlyDeleted
<1>1. IInv /\ [Next]_vars =>
         [\A h \in held : h.gen \in GensOf(held') \/ disk[h.gen] = "none"]_vars
  <2> SUFFICES ASSUME IInv, Next, NEW h \in held
               PROVE  h.gen \in GensOf(held') \/ disk[h.gen] = "none"
    BY DEF vars, GensOf
  <2>1. ready
    BY DEF IInv, LockInv
  <2>2. CASE \E t \in Tasks : refresh_swap(t)
    BY <2>2, SwapDrops
  <2>3. CASE \A t \in Tasks : ~refresh_swap(t)
    BY <2>1, <2>3, OnlySwaps DEF GensOf
  <2> QED BY <2>2, <2>3
<1> QED BY <1>1, RefreshInvariant, PTL DEF Spec, DropsOnlyDeleted

=============================================================================
