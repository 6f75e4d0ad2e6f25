-------------------------- MODULE WriteEngineProofs --------------------------
(***************************************************************************)
(* What holds of the write engine for every set of mutations, every bound, *)
(* every combination of I/O faults and any number of kills and power       *)
(* losses.                                                                 *)
(***************************************************************************)
EXTENDS WriteEngine, WellFoundedInduction, TLAPS

-----------------------------------------------------------------------------
(* The next generation. *)

\* Every non-empty set of naturals has a least element.
LEMMA LeastNatural ==
  ASSUME NEW T, T \subseteq Nat, T # {}
  PROVE  \E x \in T : \A y \in T : x <= y
<1> DEFINE R == OpToRel(<, Nat)
<1>1. IsWellFoundedOn(R, Nat)
  BY NatLessThanWellFounded
<1>2. PICK x \in T : \A y \in T : ~(<<y, x>> \in R)
  <2> HIDE DEF R
  <2> QED BY <1>1, WFMin
<1>3. \A y \in T : ~(y < x)
  <2> SUFFICES ASSUME NEW y \in T, y < x PROVE FALSE
    OBVIOUS
  <2>1. <<y, x>> \in Nat \X Nat
    OBVIOUS
  <2>2. <<y, x>> \in R
    BY <2>1 DEF OpToRel
  <2> QED BY <2>2, <1>2
<1> QED BY <1>3

\* determine_next_generation returns a generation above every one that has a file.
LEMMA NextGenerationFresh ==
  ASSUME NEW states
  PROVE  /\ NextGeneration(states) \in 1 .. MaxGen + 1
         /\ \A g \in Gens : g >= NextGeneration(states) => states[g] = "absent"
<1> DEFINE T == {n \in 0 .. MaxGen : \A g \in Gens : g > n => states[g] = "absent"}
           P(n) == /\ n = 0 \/ states[n] # "absent"
                   /\ \A g \in Gens : g > n => states[g] = "absent"
<1>0. MaxGen \in Nat
  BY EngineBoundsAssumption
<1>1. T \subseteq Nat /\ MaxGen \in T
  BY <1>0 DEF Gens
<1>2. PICK x \in T : \A y \in T : x <= y
  <2> HIDE DEF T
  <2> QED BY <1>1, LeastNatural
<1>3. x \in 0 .. MaxGen /\ \A g \in Gens : g > x => states[g] = "absent"
  BY <1>2
<1>4. x = 0 \/ states[x] # "absent"
  <2> SUFFICES ASSUME x # 0, states[x] = "absent" PROVE FALSE
    OBVIOUS
  <2>1. x - 1 \in 0 .. MaxGen
    BY <1>0, <1>3
  <2>2. \A g \in Gens : g > x - 1 => g = x \/ g > x
    BY <1>0, <1>3 DEF Gens
  <2>3. x - 1 \in T
    BY <2>1, <2>2, <1>3
  <2>4. x <= x - 1
    BY <2>3, <1>2
  <2> QED BY <2>4, <1>0, <1>3
<1>5. \E n \in 0 .. MaxGen : P(n)
  BY <1>3, <1>4
<1>6. NextGeneration(states) = 1 + (CHOOSE n \in 0 .. MaxGen : P(n))
  BY DEF NextGeneration
<1>7. PICK n \in 0 .. MaxGen : P(n) /\ NextGeneration(states) = 1 + n
  <2> HIDE DEF P
  <2> QED BY <1>5, <1>6
<1> QED BY <1>0, <1>7 DEF Gens

-----------------------------------------------------------------------------
(* Type correctness. *)

FlushPcs == {"flush_components", "flush_toc", "flush_finished", "flush_durable"}
PublishedPcs == {"flush_toc", "flush_finished", "flush_durable"}
MergePcs == {"merge_renamed", "merge_components_durable", "merge_toc", "merge_published",
             "merge_rollback"}

\* What is under way has a generation to work on.
Phases ==
  /\ pc \in FlushPcs => gen \in Gens
  /\ pc \in MergePcs => merge # NoMerge
  /\ merge # NoMerge => merge.out \in Gens
  /\ pc \in PublishedPcs => sst[gen] = "published"

Typed == TypeOK /\ Phases

\* The states of the directory after a change of one generation.
LEMMA UnsyncedType ==
  ASSUME Typed, NEW g, NEW s \in FileState, NEW images \in SUBSET FileState,
         Unsynced(g, s, images)
  PROVE  /\ sst' \in [Gens -> FileState] /\ survives' \in [Gens -> SUBSET FileState]
         /\ \A h \in Gens : sst'[h] \in survives'[h]
BY DEF Typed, TypeOK, Unsynced

\* The states of the directory after components were written over a generation.
LEMMA RewriteType ==
  ASSUME Typed, NEW g, NEW contents \in SUBSET Mutation, RewriteComponents(g, contents)
  PROVE  /\ sst' \in [Gens -> FileState] /\ survives' \in [Gens -> SUBSET FileState]
         /\ \A h \in Gens : sst'[h] \in survives'[h]
         /\ data' \in [Gens -> SUBSET Mutation]
<1>1. /\ sst \in [Gens -> FileState] /\ survives \in [Gens -> SUBSET FileState]
      /\ \A h \in Gens : sst[h] \in survives[h]
      /\ data \in [Gens -> SUBSET Mutation]
  BY DEF Typed, TypeOK
<1>2. \A s \in FileState : /\ Rewritten(s) \in FileState
                           /\ RewriteImages(s) \subseteq FileState
                           /\ Rewritten(s) \in RewriteImages(s)
  BY DEF Rewritten, RewriteImages, FileState, HasToc
<1>3. /\ sst' = [sst EXCEPT ![g] = Rewritten(sst[g])]
      /\ survives' = [survives EXCEPT ![g] = UNION {RewriteImages(s) : s \in survives[g]}]
      /\ data' = [data EXCEPT ![g] = contents]
  BY DEF RewriteComponents
<1>4. \A h \in Gens : UNION {RewriteImages(s) : s \in survives[h]} \subseteq FileState
  BY <1>1, <1>2
<1>5. \A h \in Gens : Rewritten(sst[h]) \in UNION {RewriteImages(s) : s \in survives[h]}
  BY <1>1, <1>2
<1> QED BY <1>1, <1>2, <1>3, <1>4, <1>5

\* The states of the directory after a sync of it.
LEMMA DirSyncedType ==
  ASSUME Typed
  PROVE  /\ DirSynced \in [Gens -> SUBSET FileState]
         /\ \A h \in Gens : DirSynced[h] = {sst[h]}
BY DEF Typed, TypeOK, DirSynced

\* The states of the directory after the startup sweep.
LEMMA SweepType ==
  ASSUME Typed, SweepStartupOrphans
  PROVE  /\ sst' \in [Gens -> FileState] /\ survives' \in [Gens -> SUBSET FileState]
         /\ \A h \in Gens : sst'[h] \in survives'[h]
         /\ \A h \in Gens : HasToc(sst[h]) => sst'[h] = sst[h] /\ survives'[h] = survives[h]
         /\ \A h \in Gens : HasToc(sst'[h]) => sst'[h] = sst[h]
<1>1. /\ sst \in [Gens -> FileState] /\ survives \in [Gens -> SUBSET FileState]
      /\ \A h \in Gens : sst[h] \in survives[h]
  BY DEF Typed, TypeOK
<1>2. PICK kept : /\ sst' = Swept(kept)
                  /\ survives' = [g \in Gens |-> IF sst'[g] = sst[g] THEN survives[g]
                                   ELSE survives[g] \cup {"absent", "leftover"}]
  BY DEF SweepStartupOrphans
<1>3. sst' = [g \in Gens |-> IF sst[g] = "partial" /\ g \notin kept THEN "absent" ELSE sst[g]]
  BY <1>2 DEF Swept
<1> QED BY <1>1, <1>2, <1>3 DEF FileState, HasToc

\* The engine starts well typed.
LEMMA TypedInit == Init => Typed
<1> SUFFICES ASSUME Init PROVE Typed
  OBVIOUS
<1>1. 1 \in 1 .. MaxGen + 1 /\ 0 \in 0 .. MaxGen
  BY EngineBoundsAssumption
<1>2. /\ pc = "down" /\ walFile = {} /\ walDisk = {} /\ poisoned = FALSE
      /\ mem = {} /\ gen = 1 /\ merge = NoMerge /\ promised = {} /\ attempted = {}
      /\ kills = 0 /\ powerLosses = 0
  BY DEF Init
<1>3. /\ sst = [g \in Gens |-> "absent"] /\ survives = [g \in Gens |-> {"absent"}]
      /\ data = [g \in Gens |-> {}]
  BY DEF Init
<1>4. /\ sst \in [Gens -> FileState] /\ survives \in [Gens -> SUBSET FileState]
      /\ data \in [Gens -> SUBSET Mutation] /\ \A g \in Gens : sst[g] \in survives[g]
  BY <1>3 DEF FileState
<1>5. merge \in [out : 0 .. MaxGen, inputs : SUBSET Gens]
  BY <1>1, <1>2 DEF NoMerge
<1>6. TypeOK
  BY <1>1, <1>2, <1>4, <1>5 DEF TypeOK, PcValues
<1>7. Phases
  BY <1>2 DEF Phases, FlushPcs, MergePcs, PublishedPcs
<1> QED BY <1>6, <1>7 DEF Typed

\* What the engine's memory and its log are made of: everything TypeOK says that is
\* not about the directory.
EngineTyped ==
  /\ pc \in PcValues
  /\ walFile \subseteq Mutation /\ walDisk \subseteq Mutation /\ poisoned \in BOOLEAN
  /\ mem \subseteq Mutation /\ gen \in 1 .. MaxGen + 1
  /\ merge \in [out : 0 .. MaxGen, inputs : SUBSET Gens]
  /\ promised \subseteq Mutation /\ attempted \subseteq Mutation
  /\ kills \in Nat /\ powerLosses \in Nat

DirTyped ==
  /\ sst \in [Gens -> FileState] /\ survives \in [Gens -> SUBSET FileState]
  /\ \A g \in Gens : sst[g] \in survives[g]
  /\ data \in [Gens -> SUBSET Mutation]

\* The two halves of the type invariant.
LEMMA TypedParts == Typed <=> EngineTyped /\ DirTyped /\ Phases
BY DEF Typed, TypeOK, EngineTyped, DirTyped

\* Opening, failing to open, closing and being killed keep the types.
LEMMA TypedLifecycle ==
  ASSUME Typed, Open \/ OpenFails \/ Close \/ Kill \/ PowerLoss
  PROVE  Typed'
<1>0. EngineTyped /\ DirTyped /\ Phases
  BY TypedParts
<1>1. CASE Open
  <2>1. SweepStartupOrphans /\ UNCHANGED <<walVars, data, merge, histVars, lossVars>>
    BY <1>1 DEF Open
  <2>2. mem' = walFile /\ pc' = "idle" /\ gen' = NextGeneration(sst')
    BY <1>1 DEF Open
  <2>3. gen' \in 1 .. MaxGen + 1
    BY <2>2, NextGenerationFresh
  <2>4. DirTyped'
    BY <2>1, SweepType, <1>0 DEF DirTyped
  <2>5. EngineTyped'
    BY <1>0, <2>1, <2>2, <2>3 DEF EngineTyped, walVars, histVars, lossVars, PcValues
  <2>6. Phases'
    BY <1>0, <2>1, <2>2 DEF Phases, FlushPcs, MergePcs, PublishedPcs, Gens
  <2> QED BY <2>4, <2>5, <2>6, TypedParts DEF Typed, TypeOK, EngineTyped, DirTyped
<1>2. CASE OpenFails
  <2>1. /\ SweepStartupOrphans
        /\ UNCHANGED <<pc, walVars, mem, gen, data, merge, histVars, lossVars>>
    BY <1>2 DEF OpenFails
  <2>2. DirTyped'
    BY <2>1, SweepType, <1>0 DEF DirTyped
  <2>3. EngineTyped'
    BY <1>0, <2>1 DEF EngineTyped, walVars, histVars, lossVars
  <2>4. pc = "down" /\ pc' = "down" /\ merge' = merge
    BY <1>2 DEF OpenFails
  <2>5. Phases'
    BY <1>0, <2>4 DEF Phases, FlushPcs, MergePcs, PublishedPcs, Gens
  <2> QED BY <2>2, <2>3, <2>5 DEF Typed, TypeOK, EngineTyped, DirTyped
<1>3. ASSUME Down, walFile' \subseteq Mutation, walDisk' \subseteq Mutation, DirTyped',
             kills' \in Nat, powerLosses' \in Nat, UNCHANGED <<gen, histVars>>
      PROVE  Typed'
  <2>1. pc' = "down" /\ mem' = {} /\ merge' = NoMerge /\ poisoned' = FALSE
    BY <1>3 DEF Down
  <2>2. NoMerge \in [out : 0 .. MaxGen, inputs : SUBSET Gens]
    BY EngineBoundsAssumption DEF NoMerge
  <2>3. EngineTyped'
    BY <1>0, <1>3, <2>1, <2>2 DEF EngineTyped, histVars, PcValues
  <2>4. Phases'
    BY <2>1 DEF Phases, FlushPcs, MergePcs, PublishedPcs, NoMerge
  <2> QED BY <1>3, <2>3, <2>4 DEF Typed, TypeOK, EngineTyped, DirTyped
<1>4. CASE Close
  <2>1. Down /\ UNCHANGED <<walFile, gen, dirVars, histVars, lossVars>>
    BY <1>4 DEF Close
  <2>2. walDisk' \in {walFile, walDisk}
    BY <1>4 DEF Close
  <2> QED BY <1>0, <1>3, <2>1, <2>2 DEF EngineTyped, DirTyped, dirVars, lossVars, Gens
<1>5. CASE Kill
  <2>1. /\ Down /\ kills' = kills + 1
        /\ UNCHANGED <<walDisk, gen, dirVars, histVars, powerLosses>>
    BY <1>5 DEF Kill
  <2>2. walFile' \subseteq walFile
    BY <1>5 DEF Kill
  <2> QED BY <1>0, <1>3, <2>1, <2>2 DEF EngineTyped, DirTyped, dirVars, Gens
<1>6. CASE PowerLoss
  <2>1. /\ Down /\ powerLosses' = powerLosses + 1
        /\ UNCHANGED <<gen, data, histVars, kills>>
    BY <1>6 DEF PowerLoss
  <2>2. walFile' \subseteq walFile \cup walDisk /\ walDisk' = walFile'
    BY <1>6 DEF PowerLoss, LostTail
  <2>3. sst' \in [Gens -> FileState] /\ survives' = [g \in Gens |-> {sst'[g]}]
    BY <1>6 DEF PowerLoss
  <2>4. DirTyped'
    BY <1>0, <2>1, <2>3 DEF DirTyped
  <2> QED BY <1>0, <1>3, <2>1, <2>2, <2>4 DEF EngineTyped
<1> QED BY <1>1, <1>2, <1>4, <1>5, <1>6

\* Writing keeps the types.
LEMMA TypedWrite ==
  ASSUME Typed, NEW m \in Mutation, Write(m) \/ WriteSyncFails(m)
  PROVE  Typed'
<1>0. EngineTyped /\ DirTyped /\ Phases
  BY TypedParts
<1>1. /\ UNCHANGED <<pc, poisoned, gen, dirVars, merge, lossVars>>
      /\ attempted' = attempted \cup {m}
      /\ walFile' = Logged(m)
  BY DEF Write, WriteSyncFails
<1>2. /\ walDisk' \in {walFile', walDisk}
      /\ mem' \in {mem, mem \cup {m}} /\ promised' \in {promised, promised \cup {m}}
  BY DEF Write, WriteSyncFails
<1>3. walFile' \in {walFile, walFile \cup {m}}
  BY <1>1 DEF Logged
<1>4. EngineTyped'
  BY <1>0, <1>1, <1>2, <1>3 DEF EngineTyped, lossVars
<1>5. DirTyped' /\ Phases'
  BY <1>0, <1>1 DEF DirTyped, Phases, dirVars, Gens
<1> QED BY <1>4, <1>5 DEF Typed, TypeOK, EngineTyped, DirTyped

\* A step that only moves pc on, or ends the operation, keeps the types.
LEMMA TypedGoto ==
  ASSUME Typed, DirTyped', NEW to \in PcValues, Goto(to),
         to \in FlushPcs => gen \in Gens, to \in MergePcs => merge # NoMerge,
         to \in PublishedPcs => sst'[gen] = "published"
  PROVE  Typed'
<1>0. EngineTyped /\ Phases
  BY TypedParts
<1>1. pc' = to /\ UNCHANGED <<walVars, mem, gen, merge, histVars, lossVars>>
  BY DEF Goto
<1>2. EngineTyped'
  BY <1>0, <1>1 DEF EngineTyped, walVars, histVars, lossVars
<1>3. Phases'
  BY <1>0, <1>1 DEF Phases, Gens
<1> QED BY <1>2, <1>3 DEF Typed, TypeOK, EngineTyped, DirTyped

\* Dropping the merge keeps the types.
LEMMA TypedMergeFails ==
  ASSUME Typed, DirTyped', MergeFails
  PROVE  Typed'
<1>0. EngineTyped
  BY TypedParts
<1>1. /\ pc' = "idle" /\ merge' = NoMerge
      /\ UNCHANGED <<walVars, mem, gen, histVars, lossVars>>
  BY DEF MergeFails, FinishMerge
<1>2. NoMerge \in [out : 0 .. MaxGen, inputs : SUBSET Gens]
  BY EngineBoundsAssumption DEF NoMerge
<1>3. EngineTyped'
  BY <1>0, <1>1, <1>2 DEF EngineTyped, walVars, histVars, lossVars, PcValues
<1>4. Phases'
  BY <1>1 DEF Phases, FlushPcs, MergePcs, PublishedPcs, NoMerge
<1> QED BY <1>3, <1>4 DEF Typed, TypeOK, EngineTyped, DirTyped

\* Flushing keeps the types.
LEMMA TypedFlush ==
  ASSUME Typed, FlushComponents \/ FlushStep
  PROVE  Typed'
<1>0. EngineTyped /\ DirTyped /\ Phases
  BY TypedParts
<1>1. CASE FlushComponents
  <2>1. gen \in Gens /\ RewriteComponents(gen, mem)
    BY <1>1 DEF FlushComponents
  <2>2. mem \in SUBSET Mutation
    BY <1>0 DEF EngineTyped
  <2>3. DirTyped'
    BY <2>1, <2>2, RewriteType DEF DirTyped
  <2>4. Goto("flush_components") \/ Goto("idle")
    BY <1>1 DEF FlushComponents
  <2> QED BY <2>1, <2>3, <2>4, TypedGoto DEF PcValues, FlushPcs, MergePcs, PublishedPcs
<1>2. CASE FlushToc
  <2>1. /\ pc = "flush_components" /\ Unsynced(gen, "published", {"torn"})
        /\ Goto("flush_toc") /\ UNCHANGED data
    BY <1>2 DEF FlushToc
  <2>2. gen \in Gens
    BY <1>0, <2>1 DEF Phases, FlushPcs
  <2>3. "published" \in FileState /\ {"torn"} \in SUBSET FileState
    BY DEF FileState
  <2>4. DirTyped'
    BY <1>0, <2>1, <2>3, UnsyncedType DEF DirTyped
  <2>5. sst'[gen] = "published"
    BY <1>0, <2>1, <2>2 DEF Unsynced, DirTyped
  <2> QED BY <2>1, <2>2, <2>4, <2>5, TypedGoto DEF PcValues, FlushPcs, MergePcs, PublishedPcs
<1>3. CASE FlushSyncLeaf
  <2>1. pc = "flush_toc" /\ UNCHANGED <<sst, data>>
    BY <1>3 DEF FlushSyncLeaf
  <2>2. gen \in Gens
    BY <1>0, <2>1 DEF Phases, FlushPcs
  <2>3. CASE survives' = [DirSynced EXCEPT ![gen] = {"published", "absent"}] /\ Goto("flush_finished")
    <3>1. sst[gen] = "published" /\ sst'[gen] = "published"
      BY <1>0, <2>1 DEF Phases, PublishedPcs
    <3>2. DirTyped'
      BY <1>0, <2>1, <2>3, <3>1, DirSyncedType DEF DirTyped, FileState
    <3> QED BY <2>2, <2>3, <3>1, <3>2, TypedGoto DEF PcValues, FlushPcs, MergePcs, PublishedPcs
  <2>4. CASE UNCHANGED survives /\ Goto("idle")
    BY <1>0, <2>1, <2>4, TypedGoto DEF PcValues, FlushPcs, MergePcs, PublishedPcs, DirTyped, Gens
  <2> QED BY <1>3, <2>3, <2>4 DEF FlushSyncLeaf
<1>4. CASE FlushSyncChain
  <2>1. pc = "flush_finished" /\ UNCHANGED <<sst, data>>
    BY <1>4 DEF FlushSyncChain
  <2>2. gen \in Gens
    BY <1>0, <2>1 DEF Phases, FlushPcs
  <2>3. CASE survives' = DirSynced /\ Goto("flush_durable")
    <3>1. DirTyped'
      BY <1>0, <2>1, <2>3, DirSyncedType DEF DirTyped
    <3>2. sst'[gen] = "published"
      BY <1>0, <2>1 DEF Phases, PublishedPcs
    <3> QED BY <2>2, <2>3, <3>1, <3>2, TypedGoto DEF PcValues, FlushPcs, MergePcs, PublishedPcs
  <2>4. CASE UNCHANGED survives /\ Goto("idle")
    BY <1>0, <2>1, <2>4, TypedGoto DEF PcValues, FlushPcs, MergePcs, PublishedPcs, DirTyped, Gens
  <2> QED BY <1>4, <2>3, <2>4 DEF FlushSyncChain
<1>5. CASE FlushCommit
  <2>1. /\ pc = "flush_durable" /\ WalTruncate /\ mem' = {} /\ gen' = gen + 1
        /\ promised' = promised \cup mem \cup Stored /\ pc' = "idle"
        /\ UNCHANGED <<dirVars, merge, attempted, lossVars>>
    BY <1>5 DEF FlushCommit
  <2>2. gen \in Gens
    BY <1>0, <2>1 DEF Phases, FlushPcs
  <2>3. gen + 1 \in 1 .. MaxGen + 1
    BY <2>2, EngineBoundsAssumption DEF Gens
  <2>4. Stored \subseteq Mutation
    BY <1>0 DEF Stored, Published, DirTyped
  <2>5. walFile' \subseteq Mutation /\ walDisk' \subseteq Mutation /\ poisoned' \in BOOLEAN
    BY <1>0, <2>1 DEF WalTruncate, walVars, EngineTyped
  <2>6. EngineTyped'
    BY <1>0, <2>1, <2>3, <2>4, <2>5 DEF EngineTyped, lossVars, PcValues
  <2>7. DirTyped' /\ Phases'
    BY <1>0, <2>1 DEF DirTyped, dirVars, Phases, FlushPcs, MergePcs, PublishedPcs, Gens
  <2> QED BY <2>6, <2>7 DEF Typed, TypeOK, EngineTyped, DirTyped
<1> QED BY <1>1, <1>2, <1>3, <1>4, <1>5 DEF FlushStep

\* Compacting keeps the types.
LEMMA TypedMerge ==
  ASSUME Typed, StartMerge \/ MergeRename \/ FinalizeStep
  PROVE  Typed'
<1>0. EngineTyped /\ DirTyped /\ Phases
  BY TypedParts
<1>a. ASSUME NEW stay \in SUBSET FileState, RollBack(stay) PROVE Typed'
  <2>1. PICK s \in IF HasToc(sst[merge.out]) THEN {"torn"}
           ELSE {"absent"} \cup stay \cup IF Fault("delete") THEN {"partial", "leftover"} ELSE {} :
          Unsynced(merge.out, s, {"leftover"}) /\ MergeFails /\ UNCHANGED data
    BY <1>a DEF RollBack
  <2>2. s \in FileState /\ {"leftover"} \in SUBSET FileState
    BY <1>a, <2>1 DEF FileState
  <2>3. DirTyped'
    BY <1>0, <2>1, <2>2, UnsyncedType DEF DirTyped
  <2> QED BY <2>1, <2>3, TypedMergeFails
<1>1. CASE StartMerge
  <2>1. gen \in Gens /\ pc = "idle"
    BY <1>1 DEF StartMerge, Idle
  <2>2. PICK inputs \in SUBSET Candidates : merge' = [out |-> gen, inputs |-> inputs]
    BY <1>1 DEF StartMerge
  <2>3. gen' = gen + 1 /\ UNCHANGED <<pc, walVars, mem, dirVars, histVars, lossVars>>
    BY <1>1 DEF StartMerge
  <2>4. gen + 1 \in 1 .. MaxGen + 1 /\ gen \in 0 .. MaxGen
    BY <2>1, EngineBoundsAssumption DEF Gens
  <2>5. EngineTyped'
    BY <1>0, <2>2, <2>3, <2>4 DEF EngineTyped, Candidates, walVars, histVars, lossVars, Gens
  <2>6. DirTyped' /\ Phases'
    BY <1>0, <2>1, <2>2, <2>3 DEF DirTyped, dirVars, Phases, FlushPcs, MergePcs, PublishedPcs, Gens
  <2> QED BY <2>5, <2>6 DEF Typed, TypeOK, EngineTyped, DirTyped
<1>2. CASE MergeRename
  <2>1. pc = "idle" /\ merge # NoMerge /\ merge.out \in Gens
    BY <1>0, <1>2 DEF MergeRename, Idle, Phases
  <2>2. CASE RewriteComponents(merge.out, MergeData) /\ Goto("merge_renamed")
    <3>1. MergeData \in SUBSET Mutation
      BY <1>0 DEF MergeData, EngineTyped, DirTyped
    <3>2. DirTyped'
      BY <2>2, <3>1, RewriteType DEF DirTyped
    <3> QED BY <2>1, <2>2, <3>2, TypedGoto DEF PcValues, FlushPcs, MergePcs, PublishedPcs
  <2>3. CASE MergeFails /\ UNCHANGED dirVars
    BY <1>0, <2>3, TypedMergeFails DEF DirTyped, dirVars, Gens
  <2>4. CASE RollBack({sst[merge.out]})
    <3>1. {sst[merge.out]} \in SUBSET FileState
      BY <1>0, <2>1 DEF DirTyped
    <3> QED BY <1>a, <2>4, <3>1
  <2> QED BY <1>2, <2>2, <2>3, <2>4 DEF MergeRename
<1>3. CASE MergeSyncComponents
  <2>1. CASE survives' = DirSynced /\ Goto("merge_components_durable") /\ UNCHANGED <<sst, data>>
    <3>1. DirTyped'
      BY <1>0, <2>1, DirSyncedType DEF DirTyped
    <3>2. merge # NoMerge
      BY <1>0, <1>3 DEF MergeSyncComponents, Phases, MergePcs
    <3> QED BY <2>1, <3>1, <3>2, TypedGoto DEF PcValues, FlushPcs, MergePcs, PublishedPcs
  <2>2. CASE RollBack({})
    BY <1>a, <2>2
  <2> QED BY <1>3, <2>1, <2>2 DEF MergeSyncComponents
<1>4. CASE MergeToc
  <2>1. CASE Unsynced(merge.out, "published", {}) /\ Goto("merge_toc") /\ UNCHANGED data
    <3>1. "published" \in FileState /\ {} \in SUBSET FileState
      BY DEF FileState
    <3>2. DirTyped'
      BY <1>0, <2>1, <3>1, UnsyncedType DEF DirTyped
    <3>3. merge # NoMerge
      BY <1>0, <1>4 DEF MergeToc, Phases, MergePcs
    <3> QED BY <2>1, <3>2, <3>3, TypedGoto DEF PcValues, FlushPcs, MergePcs, PublishedPcs
  <2>2. CASE RollBack({})
    BY <1>a, <2>2
  <2> QED BY <1>4, <2>1, <2>2 DEF MergeToc
<1>5. CASE MergeSyncToc
  <2>0. merge # NoMerge /\ UNCHANGED data
    BY <1>0, <1>5 DEF MergeSyncToc, Phases, MergePcs
  <2>1. CASE survives' = DirSynced /\ Goto("merge_published") /\ UNCHANGED sst
    <3>1. DirTyped'
      BY <1>0, <2>0, <2>1, DirSyncedType DEF DirTyped
    <3> QED BY <2>0, <2>1, <3>1, TypedGoto DEF PcValues, FlushPcs, MergePcs, PublishedPcs
  <2>2. CASE (\E s \in ComponentsRemoved : Unsynced(merge.out, s, {"torn", "leftover", "absent"}))
             /\ Goto("merge_rollback")
    <3>1. PICK s \in ComponentsRemoved : Unsynced(merge.out, s, {"torn", "leftover", "absent"})
      BY <2>2
    <3>3. s \in FileState /\ {"torn", "leftover", "absent"} \in SUBSET FileState
      BY <3>1 DEF FileState, ComponentsRemoved
    <3>2. DirTyped'
      BY <1>0, <2>0, <3>1, <3>3, UnsyncedType DEF DirTyped
    <3> QED BY <2>0, <2>2, <3>2, TypedGoto DEF PcValues, FlushPcs, MergePcs, PublishedPcs
  <2> QED BY <1>5, <2>1, <2>2 DEF MergeSyncToc
<1>6. CASE MergeRollback
  <2>0. merge.out \in Gens /\ sst[merge.out] \in FileState
    BY <1>0, <1>6 DEF MergeRollback, Phases, MergePcs, DirTyped, TypeOK
  <2>1. PICK s \in TocRemoved(sst[merge.out]) : Unsynced(merge.out, s, {"leftover"})
    BY <1>6 DEF MergeRollback
  <2>2. s \in FileState /\ {"leftover"} \in SUBSET FileState
    BY <2>0, <2>1 DEF FileState, TocRemoved
  <2>3. MergeFails /\ UNCHANGED data
    BY <1>6 DEF MergeRollback
  <2>4. DirTyped'
    BY <1>0, <2>1, <2>2, <2>3, UnsyncedType DEF DirTyped
  <2> QED BY <2>3, <2>4, TypedMergeFails
<1>7. CASE MergeDone
  <2>1. MergeFails /\ UNCHANGED dirVars
    BY <1>7 DEF MergeDone, MergeFails
  <2> QED BY <1>0, <2>1, TypedMergeFails DEF DirTyped, dirVars, Gens
<1>8. ASSUME NEW g \in Gens, DeleteToc(g) \/ DeleteData(g) \/ DeleteRest(g) PROVE Typed'
  <2>1. UNCHANGED engineVars /\ pc = "merge_published"
    BY <1>8 DEF DeleteToc, DeleteData, DeleteRest, Deleting
  <2>2. merge' = merge \/ Deleted(g)
    BY <1>8 DEF DeleteToc, DeleteData, DeleteRest
  <2>3. \/ Unsynced(g, "partial", {}) \/ Unsynced(g, "torn", {})
        \/ Unsynced(g, "leftover", {"torn"}) \/ Unsynced(g, "absent", {})
        \/ UNCHANGED <<sst, survives>>
    BY <1>8 DEF DeleteToc, DeleteData, DeleteRest
  <2>4. /\ {"partial", "torn", "leftover", "absent"} \subseteq FileState
        /\ {} \in SUBSET FileState /\ {"torn"} \in SUBSET FileState
    BY DEF FileState
  <2>5. DirTyped'
    <3>1. data' = data
      BY <2>1 DEF engineVars
    <3>2. CASE UNCHANGED <<sst, survives>>
      BY <1>0, <3>1, <3>2 DEF DirTyped
    <3>3. CASE Unsynced(g, "partial", {})
      BY <1>0, <2>4, <3>1, <3>3, UnsyncedType DEF DirTyped
    <3>4. CASE Unsynced(g, "torn", {})
      BY <1>0, <2>4, <3>1, <3>4, UnsyncedType DEF DirTyped
    <3>5. CASE Unsynced(g, "leftover", {"torn"})
      BY <1>0, <2>4, <3>1, <3>5, UnsyncedType DEF DirTyped
    <3>6. CASE Unsynced(g, "absent", {})
      BY <1>0, <2>4, <3>1, <3>6, UnsyncedType DEF DirTyped
    <3> QED BY <2>3, <3>2, <3>3, <3>4, <3>5, <3>6
  <2>6. /\ merge' \in [out : 0 .. MaxGen, inputs : SUBSET Gens]
        /\ merge'.out = merge.out
    BY <1>0, <2>2 DEF Deleted, EngineTyped
  <2>7. merge # NoMerge /\ merge.out \in Gens
    BY <1>0, <2>1 DEF Phases, MergePcs
  <2>8. EngineTyped'
    BY <1>0, <2>1, <2>6 DEF EngineTyped, engineVars, walVars, histVars, lossVars
  <2>9. merge' # NoMerge
    BY <2>6, <2>7 DEF NoMerge, Gens
  <2>10. Phases'
    BY <1>0, <2>1, <2>6, <2>7, <2>9 DEF Phases, engineVars, FlushPcs, MergePcs, PublishedPcs, Gens
  <2> QED BY <2>5, <2>8, <2>10 DEF Typed, TypeOK, EngineTyped, DirTyped
<1> QED BY <1>1, <1>2, <1>3, <1>4, <1>5, <1>6, <1>7, <1>8 DEF FinalizeStep

\* Every step keeps the types.
LEMMA TypedStep == Typed /\ [Next]_vars => Typed'
<1> SUFFICES ASSUME Typed, [Next]_vars PROVE Typed'
  OBVIOUS
<1>1. CASE UNCHANGED vars
  BY <1>1 DEF Typed, TypeOK, Phases, vars, walVars, dirVars, histVars, lossVars, Gens
<1>2. CASE Next
  BY <1>2, TypedLifecycle, TypedWrite, TypedFlush, TypedMerge DEF Next
<1> QED BY <1>1, <1>2

\* Log, memtable, SSTables and the active merge of the write engine keep their
\* types, and the file states the process sees stay among those a power loss may
\* leave, for every number of generations, kills and power losses.
THEOREM EngineTypeCorrect == Spec => []TypeOK
<1>1. Init => Typed
  BY TypedInit
<1>2. Typed /\ [Next]_vars => Typed'
  BY TypedStep
<1>3. Typed => TypeOK
  BY DEF Typed
<1> QED BY <1>1, <1>2, <1>3, PTL DEF Spec

-----------------------------------------------------------------------------
(* Nothing promised is lost. *)

\* In an SSTable that every power-loss image shows.
SafelyStored(m) == \E g \in Gens : Durable(g) /\ m \in data[g]

\* No generation from the next one on has a TOC.txt, but for the one being flushed.
FreshGeneration ==
  pc # "down" =>
    \A g \in Gens : g >= gen /\ HasToc(sst[g]) => g = gen /\ pc \in PublishedPcs

\* Truncating the log loses nothing: what was promised is in the memtable or stored.
MemtableCovers ==
  pc # "down" => \A m \in promised : m \in mem \/ SafelyStored(m)

\* The SSTable being flushed holds the memtable and is not durable too early.
FlushCarries ==
  /\ pc \in FlushPcs => data[gen] = mem
  /\ pc = "flush_toc" => ~Durable(gen)
  /\ pc = "flush_durable" => \A g \in Gens : survives[g] = {sst[g]}

\* An active merge works on a generation no one else has, and its inputs stay until
\* its output is durable and holds what they hold.
MergeIsolated ==
  merge # NoMerge =>
    /\ pc # "down"
    /\ merge.out < gen /\ merge.out \notin merge.inputs
    /\ \A g \in merge.inputs : g < gen
    /\ pc # "merge_published" => merge.inputs \subseteq Published
    /\ pc \notin {"merge_toc", "merge_rollback", "merge_published"} => ~HasToc(sst[merge.out])
    /\ pc = "merge_toc" => sst[merge.out] = "published" /\ ~Durable(merge.out)
    /\ pc = "merge_rollback" => HasToc(sst[merge.out]) /\ ~Durable(merge.out)
    /\ pc \in {"merge_renamed", "merge_components_durable", "merge_toc", "merge_rollback"} =>
         data[merge.out] = MergeData
    /\ pc = "merge_published" =>
         Durable(merge.out) /\ \A g \in merge.inputs : data[g] \subseteq data[merge.out]

\* Nothing is held that no caller wrote.
OnlyAttempted ==
  /\ walFile \cup walDisk \cup mem \cup promised \subseteq attempted
  /\ \A g \in Gens : data[g] \subseteq attempted

Inv ==
  /\ Typed /\ NoAckedLoss /\ FreshGeneration /\ MemtableCovers
  /\ FlushCarries /\ MergeIsolated /\ OnlyAttempted

\* A change of one generation's files leaves the others alone.
LEMMA UnsyncedElsewhere ==
  ASSUME Typed, NEW g, NEW s, NEW images, Unsynced(g, s, images), NEW h \in Gens
  PROVE  /\ h # g => sst'[h] = sst[h] /\ survives'[h] = survives[h]
         /\ h = g => sst'[h] = s /\ survives'[h] = survives[h] \cup {s} \cup images
BY DEF Typed, TypeOK, Unsynced

\* Writing components touches one generation, whose TOC.txt stays what it was.
LEMMA RewriteElsewhere ==
  ASSUME Typed, NEW g, NEW contents, RewriteComponents(g, contents), NEW h \in Gens
  PROVE  /\ h # g => sst'[h] = sst[h] /\ survives'[h] = survives[h] /\ data'[h] = data[h]
         /\ h = g => sst'[h] = Rewritten(sst[h]) /\ data'[h] = contents
BY DEF Typed, TypeOK, RewriteComponents

\* The two ways to leave a merge alone, and the rollback.
LEMMA RollBackElsewhere ==
  ASSUME Typed, NEW stay, RollBack(stay), NEW h \in Gens
  PROVE  /\ MergeFails /\ data' = data
         /\ h # merge.out => sst'[h] = sst[h] /\ survives'[h] = survives[h]
         /\ h = merge.out => sst'[h] \in {"torn", "absent", "partial", "leftover"} \cup stay
         /\ h = merge.out /\ HasToc(sst'[h]) => HasToc(sst[h]) \/ sst'[h] \in stay
<1>1. PICK s \in IF HasToc(sst[merge.out]) THEN {"torn"}
           ELSE {"absent"} \cup stay \cup IF Fault("delete") THEN {"partial", "leftover"} ELSE {} :
          Unsynced(merge.out, s, {"leftover"}) /\ MergeFails /\ UNCHANGED data
  BY DEF RollBack
<1>2. /\ h # merge.out => sst'[h] = sst[h] /\ survives'[h] = survives[h]
      /\ h = merge.out => sst'[h] = s
  BY <1>1, UnsyncedElsewhere
<1>3. s \in {"torn", "absent", "partial", "leftover"} \cup stay
  BY <1>1
<1>4. h = merge.out /\ HasToc(s) => HasToc(sst[h]) \/ s \in stay
  BY <1>1 DEF HasToc
<1> QED BY <1>1, <1>2, <1>3, <1>4

\* What each finalize step finds, by the state it is in.
LEMMA MergeFacts ==
  ASSUME Inv
  PROVE  /\ pc \in MergePcs => merge # NoMerge
         /\ merge # NoMerge => /\ merge.out \in Gens /\ merge.inputs \subseteq Gens
                               /\ merge.out \notin merge.inputs
BY DEF Inv, Typed, TypeOK, Phases, MergeIsolated

\* A published SSTable keeps its contents, and stays durable unless it is an input of
\* a merge whose output is durable.
LEMMA PublishedKept ==
  ASSUME Inv, Next, NEW g \in Gens, sst[g] = "published"
  PROVE  /\ data'[g] = data[g]
         /\ Durable(g) => Durable(g)' \/ (pc = "merge_published" /\ g \in merge.inputs)
<1>0. Typed /\ FreshGeneration /\ FlushCarries /\ MergeIsolated
  BY DEF Inv
<1>t. HasToc(sst[g]) /\ survives[g] \subseteq FileState /\ sst[g] \in survives[g]
  BY <1>0 DEF HasToc, Typed, TypeOK
<1>u. ASSUME survives'[g] = survives[g] PROVE Durable(g) => Durable(g)'
  BY <1>u DEF Durable
<1>d. ASSUME survives' = DirSynced PROVE Durable(g)'
  BY <1>0, <1>d, DirSyncedType DEF Durable
<1>1. CASE Open \/ OpenFails
  <2>1. SweepStartupOrphans /\ data' = data
    BY <1>1 DEF Open, OpenFails
  <2>2. survives'[g] = survives[g]
    BY <1>0, <1>t, <2>1, SweepType
  <2> QED BY <2>1, <2>2, <1>u
<1>2. CASE Close \/ Kill \/ FlushCommit \/ StartMerge \/ MergeDone
  BY <1>2 DEF Close, Kill, FlushCommit, StartMerge, MergeDone, dirVars, Durable
<1>3. CASE \E m \in Mutation : Write(m) \/ WriteSyncFails(m)
  BY <1>3 DEF Write, WriteSyncFails, dirVars, Durable
<1>4. CASE PowerLoss
  <2>1. data' = data /\ sst'[g] \in survives[g] /\ survives'[g] = {sst'[g]}
    BY <1>4 DEF PowerLoss
  <2> QED BY <2>1 DEF Durable
<1>5. CASE FlushComponents
  <2>1. pc = "idle" /\ RewriteComponents(gen, mem)
    BY <1>5 DEF FlushComponents, Idle
  <2>2. g # gen
    BY <1>0, <1>t, <2>1 DEF FreshGeneration, PublishedPcs, Typed, TypeOK, Gens
  <2> QED BY <1>0, <1>u, <2>1, <2>2, RewriteElsewhere
<1>6. CASE FlushToc
  <2>1. pc = "flush_components" /\ Unsynced(gen, "published", {"torn"}) /\ data' = data
    BY <1>6 DEF FlushToc
  <2>2. g # gen
    BY <1>0, <1>t, <2>1 DEF FreshGeneration, PublishedPcs, Typed, TypeOK, Gens
  <2> QED BY <1>0, <1>u, <2>1, <2>2, UnsyncedElsewhere
<1>7. CASE FlushSyncLeaf
  <2>1. pc = "flush_toc" /\ data' = data
    BY <1>7 DEF FlushSyncLeaf
  <2>2. CASE survives' = survives
    BY <1>u, <2>1, <2>2
  <2>3. CASE survives' = [DirSynced EXCEPT ![gen] = {"published", "absent"}]
    <3>1. g = gen => ~Durable(g)
      BY <1>0, <2>1 DEF FlushCarries
    <3>2. g # gen => survives'[g] = {sst[g]}
      BY <1>0, <2>3, DirSyncedType
    <3> QED BY <2>1, <3>1, <3>2 DEF Durable
  <2> QED BY <1>7, <2>2, <2>3 DEF FlushSyncLeaf
<1>8. CASE FlushSyncChain
  <2>1. data' = data /\ (survives' = DirSynced \/ survives' = survives)
    BY <1>8 DEF FlushSyncChain
  <2> QED BY <1>d, <1>u, <2>1
<1>9. ASSUME merge # NoMerge, ~HasToc(sst[merge.out]), NEW stay, RollBack(stay)
      PROVE  data'[g] = data[g] /\ (Durable(g) => Durable(g)')
  BY <1>0, <1>t, <1>u, <1>9, RollBackElsewhere
<1>10. CASE MergeRename
  <2>1. pc = "idle" /\ merge # NoMerge
    BY <1>10 DEF MergeRename, Idle
  <2>2. ~HasToc(sst[merge.out])
    BY <1>0, <2>1 DEF MergeIsolated
  <2>3. CASE RewriteComponents(merge.out, MergeData)
    BY <1>0, <1>t, <1>u, <2>2, <2>3, RewriteElsewhere
  <2>4. CASE UNCHANGED dirVars
    BY <1>u, <2>4 DEF dirVars
  <2>5. CASE RollBack({sst[merge.out]})
    BY <1>9, <2>1, <2>2, <2>5
  <2> QED BY <1>10, <2>3, <2>4, <2>5 DEF MergeRename
<1>11. CASE MergeSyncComponents
  <2>1. pc = "merge_renamed"
    BY <1>11 DEF MergeSyncComponents
  <2>2. merge # NoMerge
    BY <2>1, MergeFacts DEF MergePcs
  <2>3. ~HasToc(sst[merge.out])
    BY <1>0, <2>1, <2>2 DEF MergeIsolated
  <2>4. CASE survives' = DirSynced /\ data' = data
    BY <1>d, <2>4
  <2>5. CASE RollBack({})
    BY <1>9, <2>2, <2>3, <2>5
  <2> QED BY <1>11, <2>4, <2>5 DEF MergeSyncComponents
<1>12. CASE MergeToc
  <2>1. pc = "merge_components_durable"
    BY <1>12 DEF MergeToc
  <2>2. merge # NoMerge
    BY <2>1, MergeFacts DEF MergePcs
  <2>3. ~HasToc(sst[merge.out])
    BY <1>0, <2>1, <2>2 DEF MergeIsolated
  <2>4. CASE Unsynced(merge.out, "published", {}) /\ data' = data
    BY <1>0, <1>t, <1>u, <2>3, <2>4, UnsyncedElsewhere
  <2>5. CASE RollBack({})
    BY <1>9, <2>2, <2>3, <2>5
  <2> QED BY <1>12, <2>4, <2>5 DEF MergeToc
<1>13. CASE MergeSyncToc
  <2>1. pc = "merge_toc" /\ data' = data
    BY <1>13 DEF MergeSyncToc
  <2>2. merge # NoMerge
    BY <2>1, MergeFacts DEF MergePcs
  <2>3. ~Durable(merge.out)
    BY <1>0, <2>1, <2>2 DEF MergeIsolated
  <2>4. CASE survives' = DirSynced
    BY <1>d, <2>1, <2>4
  <2>5. CASE \E s \in ComponentsRemoved : Unsynced(merge.out, s, {"torn", "leftover", "absent"})
    BY <1>0, <1>u, <2>1, <2>3, <2>5, UnsyncedElsewhere
  <2> QED BY <1>13, <2>4, <2>5 DEF MergeSyncToc
<1>14. CASE MergeRollback
  <2>1. pc = "merge_rollback" /\ data' = data
    BY <1>14 DEF MergeRollback
  <2>2. merge # NoMerge
    BY <2>1, MergeFacts DEF MergePcs
  <2>3. ~Durable(merge.out)
    BY <1>0, <2>1, <2>2 DEF MergeIsolated
  <2>4. PICK s : Unsynced(merge.out, s, {"leftover"})
    BY <1>14 DEF MergeRollback
  <2> QED BY <1>0, <1>u, <2>1, <2>3, <2>4, UnsyncedElsewhere
<1>15. ASSUME NEW h \in Gens, DeleteToc(h) \/ DeleteData(h) \/ DeleteRest(h)
       PROVE  /\ data'[g] = data[g]
              /\ Durable(g) => Durable(g)' \/ (pc = "merge_published" /\ g \in merge.inputs)
  <2>1. data' = data /\ pc = "merge_published" /\ h \in merge.inputs
    BY <1>15 DEF DeleteToc, DeleteData, DeleteRest, Deleting, engineVars
  <2>2. \/ \E s, images : Unsynced(h, s, images)
        \/ UNCHANGED <<sst, survives>>
    BY <1>15 DEF DeleteToc, DeleteData, DeleteRest
  <2>3. g # h => survives'[g] = survives[g]
    BY <1>0, <2>2, UnsyncedElsewhere
  <2> QED BY <1>u, <2>1, <2>3
<1> QED BY <1>1, <1>2, <1>3, <1>4, <1>5, <1>6, <1>7, <1>8, <1>10, <1>11, <1>12, <1>13,
           <1>14, <1>15 DEF Next, FlushStep, FinalizeStep

\* What is safely stored stays safely stored.
LEMMA StoredKept ==
  ASSUME Inv, Next, NEW m, SafelyStored(m)
  PROVE  SafelyStored(m)'
<1>1. PICK g \in Gens : Durable(g) /\ m \in data[g]
  BY DEF SafelyStored
<1>2. sst[g] = "published"
  BY <1>1 DEF Inv, Typed, TypeOK, Durable
<1>3. data'[g] = data[g]
  BY <1>2, PublishedKept
<1>4. CASE Durable(g)'
  BY <1>1, <1>3, <1>4 DEF SafelyStored, Gens
<1>5. CASE pc = "merge_published" /\ g \in merge.inputs
  <2>1. merge # NoMerge /\ merge.out \in Gens /\ merge.out \notin merge.inputs
    BY <1>5, MergeFacts DEF MergePcs
  <2>2. Durable(merge.out) /\ data[g] \subseteq data[merge.out]
    BY <1>5, <2>1 DEF Inv, MergeIsolated
  <2>3. sst[merge.out] = "published"
    BY <2>1, <2>2 DEF Inv, Typed, TypeOK, Durable
  <2>4. PICK o \in Gens : o = merge.out
    BY <2>1
  <2>5. sst[o] = "published" /\ Durable(o) /\ o \notin merge.inputs /\ m \in data[o]
    BY <1>1, <2>1, <2>2, <2>3, <2>4
  <2>6. Durable(o)' /\ data'[o] = data[o]
    BY <2>5, PublishedKept
  <2> QED BY <2>5, <2>6 DEF SafelyStored, Gens
<1> QED BY <1>1, <1>2, <1>4, <1>5, PublishedKept

\* A committed flush has stored everything it promises.
LEMMA CommitStores ==
  ASSUME Inv, FlushCommit, NEW m \in promised'
  PROVE  SafelyStored(m)
<1>1. pc = "flush_durable" /\ promised' = promised \cup mem \cup Stored
  BY DEF FlushCommit
<1>2. Typed /\ MemtableCovers /\ FlushCarries
  BY DEF Inv
<1>3. \A g \in Gens : survives[g] = {sst[g]}
  BY <1>1, <1>2 DEF FlushCarries
<1>4. gen \in Gens /\ sst[gen] = "published" /\ data[gen] = mem
  BY <1>1, <1>2 DEF Typed, Phases, FlushPcs, PublishedPcs, FlushCarries
<1>5. m \in mem => SafelyStored(m)
  BY <1>3, <1>4 DEF SafelyStored, Durable
<1>6. m \in Stored => SafelyStored(m)
  BY <1>3 DEF Stored, Published, SafelyStored, Durable
<1>7. m \in promised => m \in mem \/ SafelyStored(m)
  BY <1>1, <1>2 DEF MemtableCovers
<1> QED BY <1>1, <1>5, <1>6, <1>7

\* Only a committed flush takes an entry out of the log that is there on every image.
LEMMA LogKept ==
  ASSUME Inv, Next, ~FlushCommit, NEW m, m \in walFile, m \in walDisk
  PROVE  m \in walFile' /\ m \in walDisk'
<1>1. CASE Open \/ OpenFails \/ StartMerge \/ MergeDone
  BY <1>1 DEF Open, OpenFails, StartMerge, MergeDone, walVars
<1>2. CASE Close
  BY <1>2 DEF Close
<1>3. CASE Kill
  BY <1>3 DEF Kill, LostTail
<1>4. CASE PowerLoss
  BY <1>4 DEF PowerLoss, LostTail
<1>5. CASE \E x \in Mutation : Write(x) \/ WriteSyncFails(x)
  BY <1>5 DEF Write, WriteSyncFails, Logged
<1>6. CASE FlushComponents \/ FlushToc \/ FlushSyncLeaf \/ FlushSyncChain
  BY <1>6 DEF FlushComponents, FlushToc, FlushSyncLeaf, FlushSyncChain, Goto, walVars
<1>7. CASE MergeRename \/ MergeSyncComponents \/ MergeToc \/ MergeSyncToc \/ MergeRollback
  BY <1>7 DEF MergeRename, MergeSyncComponents, MergeToc, MergeSyncToc, MergeRollback, Goto,
     RollBack, MergeFails, walVars
<1>8. CASE \E g \in Gens : DeleteToc(g) \/ DeleteData(g) \/ DeleteRest(g)
  BY <1>8 DEF DeleteToc, DeleteData, DeleteRest, engineVars, walVars
<1> QED BY <1>1, <1>2, <1>3, <1>4, <1>5, <1>6, <1>7, <1>8 DEF Next, FlushStep, FinalizeStep

\* Only a write and a committed flush promise anything, and only they, opening and
\* going down change the memtable.
LEMMA MemoryEffect ==
  ASSUME Inv, Next, ~FlushCommit
  PROVE  \/ promised' = promised /\ mem' = mem /\ (pc' = "down" <=> pc = "down")
         \/ promised' = promised /\ pc' = "down"
         \/ promised' = promised /\ pc = "down" /\ mem' = walFile
         \/ \E m \in Mutation : /\ promised' \subseteq promised \cup {m}
                                /\ promised' # promised => m \in mem' \cap walFile' \cap walDisk'
                                /\ mem \subseteq mem' /\ pc # "down"
<1>1. CASE Open
  BY <1>1 DEF Open, histVars
<1>2. CASE OpenFails
  BY <1>2 DEF OpenFails, histVars
<1>3. CASE Close \/ Kill \/ PowerLoss
  BY <1>3 DEF Close, Kill, PowerLoss, Down, histVars
<1>4. ASSUME NEW m \in Mutation, Write(m)
      PROVE  /\ promised' \subseteq promised \cup {m}
             /\ promised' # promised => m \in mem' \cap walFile' \cap walDisk'
             /\ mem \subseteq mem' /\ pc # "down"
  BY <1>4 DEF Write, Admitted, Idle, Logged
<1>5. CASE \E m \in Mutation : WriteSyncFails(m)
  BY <1>5 DEF WriteSyncFails
<1>6. CASE StartMerge \/ MergeDone
  BY <1>6 DEF StartMerge, MergeDone, FinishMerge, histVars
<1>7. CASE FlushComponents \/ FlushToc \/ FlushSyncLeaf \/ FlushSyncChain
  BY <1>7 DEF FlushComponents, FlushToc, FlushSyncLeaf, FlushSyncChain, Goto, Idle, histVars
<1>8. CASE MergeRename \/ MergeSyncComponents \/ MergeToc \/ MergeSyncToc \/ MergeRollback
  BY <1>8 DEF MergeRename, MergeSyncComponents, MergeToc, MergeSyncToc, MergeRollback, Goto,
     RollBack, MergeFails, FinishMerge, Idle, histVars
<1>9. CASE \E g \in Gens : DeleteToc(g) \/ DeleteData(g) \/ DeleteRest(g)
  BY <1>9 DEF DeleteToc, DeleteData, DeleteRest, engineVars, histVars
<1> QED BY <1>1, <1>2, <1>3, <1>4, <1>5, <1>6, <1>7, <1>8, <1>9 DEF Next, FlushStep, FinalizeStep

\* Every step keeps the promises.
LEMMA LossStep ==
  ASSUME Inv, Next
  PROVE  NoAckedLoss'
<1> SUFFICES ASSUME NEW m \in promised'
             PROVE  (m \in walFile' /\ m \in walDisk') \/ SafelyStored(m)'
  BY DEF NoAckedLoss, SafelyStored
<1>1. CASE FlushCommit
  BY <1>1, CommitStores, StoredKept
<1>2. CASE ~FlushCommit /\ m \in promised
  <2>1. (m \in walFile /\ m \in walDisk) \/ SafelyStored(m)
    BY <1>2 DEF Inv, NoAckedLoss, SafelyStored
  <2> QED BY <1>2, <2>1, LogKept, StoredKept
<1>3. CASE ~FlushCommit /\ m \notin promised
  BY <1>3, MemoryEffect
<1> QED BY <1>1, <1>2, <1>3

\* Every step leaves the promises in the memtable or in stored SSTables.
LEMMA CoversStep ==
  ASSUME Inv, Next
  PROVE  MemtableCovers'
<1> SUFFICES ASSUME pc' # "down", NEW m \in promised'
             PROVE  m \in mem' \/ SafelyStored(m)'
  BY DEF MemtableCovers
<1>1. CASE FlushCommit
  BY <1>1, CommitStores, StoredKept
<1>2. CASE ~FlushCommit /\ SafelyStored(m)
  BY <1>2, StoredKept
<1>3. CASE ~FlushCommit /\ ~SafelyStored(m)
  <2>1. m \in promised => m \in walFile
    BY <1>3 DEF Inv, NoAckedLoss, SafelyStored
  <2>2. m \in promised /\ pc # "down" => m \in mem
    BY <1>3 DEF Inv, MemtableCovers
  <2> QED BY <1>3, <2>1, <2>2, MemoryEffect
<1> QED BY <1>1, <1>2, <1>3

\* The files a merge step touches are its output's or an input's, all of them below
\* the next generation.
LEMMA MergeTouches ==
  ASSUME Inv, MergeRename \/ FinalizeStep, NEW g \in Gens, g >= gen
  PROVE  /\ sst'[g] = sst[g] /\ gen' = gen
         /\ pc \notin PublishedPcs
<1>0. Typed /\ MergeIsolated /\ gen \in Nat
  BY EngineBoundsAssumption DEF Inv, Typed, TypeOK
<1>1. CASE MergeRename \/ MergeSyncComponents \/ MergeToc \/ MergeSyncToc \/ MergeRollback
  <2>1. merge # NoMerge /\ pc \notin PublishedPcs
    BY <1>1, MergeFacts DEF MergeRename, MergeSyncComponents, MergeToc, MergeSyncToc,
       MergeRollback, Idle, MergePcs, PublishedPcs
  <2>2. g # merge.out
    BY <1>0, <2>1, MergeFacts DEF MergeIsolated, Gens
  <2>3. gen' = gen
    BY <1>1 DEF MergeRename, MergeSyncComponents, MergeToc, MergeSyncToc, MergeRollback,
       Goto, RollBack, MergeFails
  <2>4. \/ RewriteComponents(merge.out, MergeData) \/ UNCHANGED sst
        \/ (\E stay : RollBack(stay)) \/ (\E s, images : Unsynced(merge.out, s, images))
    BY <1>1 DEF MergeRename, MergeSyncComponents, MergeToc, MergeSyncToc, MergeRollback, dirVars
  <2> QED BY <1>0, <2>1, <2>2, <2>3, <2>4, RewriteElsewhere, RollBackElsewhere, UnsyncedElsewhere
<1>2. CASE MergeDone
  BY <1>2 DEF MergeDone, dirVars, PublishedPcs
<1>3. ASSUME NEW h \in Gens, DeleteToc(h) \/ DeleteData(h) \/ DeleteRest(h)
      PROVE  sst'[g] = sst[g] /\ gen' = gen /\ pc \notin PublishedPcs
  <2>1. gen' = gen /\ pc = "merge_published" /\ h \in merge.inputs
    BY <1>3 DEF DeleteToc, DeleteData, DeleteRest, Deleting, engineVars
  <2>2. merge # NoMerge
    BY <2>1, MergeFacts DEF MergePcs
  <2>3. g # h
    BY <1>0, <2>1, <2>2 DEF MergeIsolated, Gens
  <2>4. (\E s, images : Unsynced(h, s, images)) \/ UNCHANGED sst
    BY <1>3 DEF DeleteToc, DeleteData, DeleteRest
  <2> QED BY <1>0, <2>1, <2>3, <2>4, UnsyncedElsewhere DEF PublishedPcs
<1> QED BY <1>1, <1>2, <1>3 DEF FinalizeStep

\* No step gives a generation from the next one on a TOC.txt, but a flush its own;
\* here a failed directory sync of a flush would.
LEMMA FreshStep ==
  ASSUME Inv, Next, "flush_dirsync" \notin Faults
  PROVE  FreshGeneration'
<1>0. Typed /\ FreshGeneration /\ gen \in Nat
  BY EngineBoundsAssumption DEF Inv, Typed, TypeOK
<1> SUFFICES ASSUME pc' # "down", NEW g \in Gens, g >= gen', HasToc(sst'[g])
             PROVE  g = gen' /\ pc' \in PublishedPcs
  BY DEF FreshGeneration, Gens, HasToc
<1>1. CASE Open
  <2>1. gen' = NextGeneration(sst')
    BY <1>1 DEF Open
  <2>2. sst'[g] = "absent"
    BY <2>1, NextGenerationFresh
  <2> QED BY <2>2 DEF HasToc
<1>2. CASE OpenFails \/ Close \/ Kill \/ PowerLoss
  BY <1>2 DEF OpenFails, Close, Kill, PowerLoss, Down
<1>3. CASE \E m \in Mutation : Write(m) \/ WriteSyncFails(m)
  <2>1. UNCHANGED <<pc, gen, sst>> /\ pc # "down"
    BY <1>3 DEF Write, WriteSyncFails, Admitted, Idle, dirVars
  <2> QED BY <1>0, <2>1 DEF FreshGeneration
<1>4. CASE FlushComponents
  <2>1. pc = "idle" /\ RewriteComponents(gen, mem) /\ gen' = gen
    BY <1>4 DEF FlushComponents, Idle, Goto
  <2>2. ~HasToc(sst[g])
    BY <1>0, <2>1 DEF FreshGeneration, PublishedPcs
  <2>3. sst'[g] = sst[g] \/ sst'[g] = Rewritten(sst[g])
    BY <1>0, <2>1, RewriteElsewhere
  <2> QED BY <2>2, <2>3 DEF Rewritten, HasToc
<1>5. CASE FlushToc
  <2>1. /\ pc = "flush_components" /\ pc' = "flush_toc" /\ gen' = gen
        /\ Unsynced(gen, "published", {"torn"})
    BY <1>5 DEF FlushToc, Goto
  <2>2. ~HasToc(sst[g])
    BY <1>0, <2>1 DEF FreshGeneration, PublishedPcs
  <2>3. g = gen
    BY <1>0, <2>1, <2>2, UnsyncedElsewhere
  <2> QED BY <2>1, <2>3 DEF PublishedPcs
<1>6. CASE FlushSyncLeaf \/ FlushSyncChain
  <2>1. /\ pc \in {"flush_toc", "flush_finished"} /\ sst' = sst /\ gen' = gen
        /\ pc' \in {"flush_finished", "flush_durable"}
    BY <1>6 DEF FlushSyncLeaf, FlushSyncChain, Goto, Fault
  <2> QED BY <1>0, <2>1 DEF FreshGeneration, PublishedPcs
<1>7. CASE FlushCommit \/ StartMerge
  <2>1. sst' = sst /\ gen' = gen + 1 /\ pc # "down"
    BY <1>7 DEF FlushCommit, StartMerge, Idle, dirVars
  <2>2. g >= gen /\ g # gen
    BY <1>0, <2>1 DEF Gens
  <2> QED BY <1>0, <2>1, <2>2 DEF FreshGeneration
<1>8. CASE MergeRename \/ FinalizeStep
  <2>0. gen' = gen
    BY <1>8 DEF FinalizeStep, MergeRename, MergeSyncComponents, MergeToc, MergeSyncToc,
       MergeRollback, MergeDone, DeleteToc, DeleteData, DeleteRest, engineVars, Goto, RollBack,
       MergeFails
  <2>1. sst'[g] = sst[g] /\ pc \notin PublishedPcs
    BY <1>8, <2>0, MergeTouches
  <2>2. pc # "down"
    BY <1>8 DEF FinalizeStep, MergeRename, MergeSyncComponents, MergeToc, MergeSyncToc,
       MergeRollback, MergeDone, DeleteToc, DeleteData, DeleteRest, Deleting, Idle
  <2> QED BY <1>0, <2>0, <2>1, <2>2 DEF FreshGeneration
<1> QED BY <1>1, <1>2, <1>3, <1>4, <1>5, <1>6, <1>7, <1>8 DEF Next, FlushStep

\* A flush keeps the memtable it writes, and its directory is synced before it commits.
LEMMA CarriesStep ==
  ASSUME Inv, Next
  PROVE  FlushCarries'
<1>0. Typed /\ FlushCarries
  BY DEF Inv
<1>1. CASE Open \/ OpenFails \/ Close \/ Kill \/ PowerLoss
  <2>1. pc' \notin FlushPcs
    BY <1>1 DEF Open, OpenFails, Close, Kill, PowerLoss, Down, FlushPcs
  <2> QED BY <2>1 DEF FlushCarries, FlushPcs
<1>2. CASE (\E m \in Mutation : Write(m) \/ WriteSyncFails(m)) \/ StartMerge \/ FlushCommit
  <2>1. pc' = "idle"
    BY <1>2 DEF Write, WriteSyncFails, Admitted, StartMerge, FlushCommit, Idle
  <2> QED BY <2>1 DEF FlushCarries, FlushPcs
<1>3. CASE MergeRename \/ FinalizeStep
  <2>1. pc' \notin FlushPcs
    BY <1>3 DEF FinalizeStep, MergeRename, MergeSyncComponents, MergeToc, MergeSyncToc,
       MergeRollback, MergeDone, DeleteToc, DeleteData, DeleteRest, Deleting, engineVars, Goto,
       RollBack, MergeFails, FinishMerge, FlushPcs
  <2> QED BY <2>1 DEF FlushCarries, FlushPcs
<1>4. CASE FlushComponents
  <2>1. gen \in Gens /\ RewriteComponents(gen, mem) /\ gen' = gen /\ mem' = mem
    BY <1>4 DEF FlushComponents, Goto
  <2>2. data'[gen] = mem
    BY <1>0, <2>1, RewriteElsewhere
  <2>3. pc' \in {"flush_components", "idle"}
    BY <1>4 DEF FlushComponents, Goto
  <2> QED BY <2>1, <2>2, <2>3 DEF FlushCarries, FlushPcs
<1>5. CASE FlushToc
  <2>1. /\ pc = "flush_components" /\ pc' = "flush_toc" /\ gen' = gen /\ mem' = mem
        /\ Unsynced(gen, "published", {"torn"}) /\ data' = data
    BY <1>5 DEF FlushToc, Goto
  <2>2. gen \in Gens
    BY <1>0, <2>1 DEF Typed, Phases, FlushPcs
  <2>3. "torn" \in survives'[gen]
    BY <1>0, <2>1, <2>2, UnsyncedElsewhere
  <2>4. ~Durable(gen)'
    BY <2>1, <2>3 DEF Durable
  <2> QED BY <1>0, <2>1, <2>4 DEF FlushCarries, FlushPcs
<1>6. CASE FlushSyncLeaf
  <2>1. /\ pc = "flush_toc" /\ data' = data /\ gen' = gen /\ mem' = mem
        /\ pc' \in {"flush_finished", "idle"}
    BY <1>6 DEF FlushSyncLeaf, Goto
  <2> QED BY <1>0, <2>1 DEF FlushCarries, FlushPcs
<1>7. CASE FlushSyncChain
  <2>1. pc = "flush_finished" /\ data' = data /\ sst' = sst /\ gen' = gen /\ mem' = mem
    BY <1>7 DEF FlushSyncChain, Goto
  <2>2. CASE survives' = DirSynced /\ pc' = "flush_durable"
    <3>1. \A g \in Gens : survives'[g] = {sst'[g]}
      BY <1>0, <2>1, <2>2, DirSyncedType
    <3> QED BY <1>0, <2>1, <2>2, <3>1 DEF FlushCarries, FlushPcs, Gens
  <2>3. CASE pc' = "idle"
    BY <2>3 DEF FlushCarries, FlushPcs
  <2> QED BY <1>7, <2>2, <2>3 DEF FlushSyncChain, Goto
<1> QED BY <1>1, <1>2, <1>3, <1>4, <1>5, <1>6, <1>7 DEF Next, FlushStep

\* A merge that waits for its turn is left alone by what happens to generations from
\* the next one on.
LEMMA MergeUntouched ==
  ASSUME Inv, merge' = merge, pc \notin MergePcs, pc # "down", pc' \notin MergePcs, pc' # "down",
         gen' \in Nat, gen' >= gen, \A g \in Gens : g < gen => sst'[g] = sst[g]
  PROVE  MergeIsolated'
<1> SUFFICES ASSUME merge # NoMerge PROVE MergeIsolated'
  BY DEF MergeIsolated, NoMerge
<1>1. /\ merge.out < gen /\ merge.out \notin merge.inputs /\ \A g \in merge.inputs : g < gen
      /\ merge.inputs \subseteq Published /\ ~HasToc(sst[merge.out])
  BY DEF Inv, MergeIsolated, MergePcs
<1>2. merge.out \in Gens /\ merge.inputs \subseteq Gens /\ gen \in Nat
  BY MergeFacts, EngineBoundsAssumption DEF Inv, Typed, TypeOK
<1>3. ~HasToc(sst'[merge.out])
  BY <1>1, <1>2
<1>4. \A g \in merge.inputs : g \in Gens /\ sst'[g] = "published"
  BY <1>1, <1>2 DEF Published
<1>5. merge.out < gen' /\ \A g \in merge.inputs : g < gen'
  BY <1>1, <1>2 DEF Gens
<1> QED BY <1>1, <1>3, <1>4, <1>5 DEF MergeIsolated, MergePcs, Published, Gens, HasToc

\* Flushes and writes leave the merge to its own generation and inputs.
LEMMA IsolatedFlush ==
  ASSUME Inv, (\E m \in Mutation : Write(m) \/ WriteSyncFails(m)) \/ FlushComponents \/ FlushStep
  PROVE  MergeIsolated'
<1>0. Typed /\ gen \in Nat
  BY EngineBoundsAssumption DEF Inv, Typed, TypeOK
<1>1. merge' = merge /\ pc \notin MergePcs /\ pc' \notin MergePcs /\ pc # "down" /\ pc' # "down"
  BY DEF Write, WriteSyncFails, Admitted, Idle, FlushComponents, FlushStep, FlushToc, FlushSyncLeaf,
     FlushSyncChain, FlushCommit, Goto, MergePcs
<1>2. gen' \in {gen, gen + 1}
  BY DEF Write, WriteSyncFails, FlushComponents, FlushStep, FlushToc, FlushSyncLeaf,
     FlushSyncChain, FlushCommit, Goto
<1>3. \/ UNCHANGED sst
      \/ RewriteComponents(gen, mem)
      \/ Unsynced(gen, "published", {"torn"})
  BY DEF Write, WriteSyncFails, FlushComponents, FlushStep, FlushToc, FlushSyncLeaf,
     FlushSyncChain, FlushCommit, dirVars
<1>4. \A g \in Gens : g < gen => sst'[g] = sst[g]
  BY <1>0, <1>3, RewriteElsewhere, UnsyncedElsewhere DEF Gens
<1> QED BY <1>0, <1>1, <1>2, <1>4, MergeUntouched

\* A merge starts on published inputs and a generation none of them has.
LEMMA IsolatedStart ==
  ASSUME Inv, StartMerge
  PROVE  MergeIsolated'
<1>0. Typed /\ FreshGeneration /\ gen \in Nat
  BY EngineBoundsAssumption DEF Inv, Typed, TypeOK
<1>1. /\ pc = "idle" /\ gen \in Gens /\ gen' = gen + 1 /\ pc' = pc /\ sst' = sst
  BY DEF StartMerge, Idle, dirVars
<1>2. PICK inputs \in SUBSET Candidates :
        inputs \subseteq Published /\ merge' = [out |-> gen, inputs |-> inputs]
  BY DEF StartMerge
<1>3. \A g \in Gens : HasToc(sst[g]) => g < gen
  BY <1>0, <1>1 DEF FreshGeneration, PublishedPcs, Gens
<1>4. \A g \in inputs : g \in Gens /\ sst[g] = "published" /\ HasToc(sst[g])
  BY <1>2 DEF Published, HasToc
<1>5. \A g \in inputs : g < gen /\ g < gen + 1
  BY <1>0, <1>3, <1>4 DEF Gens
<1>6. gen \notin inputs /\ ~HasToc(sst[gen]) /\ gen < gen + 1
  BY <1>0, <1>1, <1>3, <1>5
<1>7. merge'.out = gen /\ merge'.inputs = inputs
  BY <1>2
<1>8. inputs \subseteq Published'
  BY <1>1, <1>4 DEF Published, Gens
<1> QED BY <1>1, <1>5, <1>6, <1>7, <1>8 DEF MergeIsolated, HasToc

\* Bringing the output in: components, their sync, the TOC, its sync.
LEMMA IsolatedPublish ==
  ASSUME Inv, MergeRename \/ MergeSyncComponents \/ MergeToc \/ MergeSyncToc \/ MergeRollback
  PROVE  MergeIsolated'
<1>0. Typed /\ MergeIsolated
  BY DEF Inv
<1>1. merge # NoMerge
  BY MergeFacts DEF MergeRename, MergeSyncComponents, MergeToc, MergeSyncToc, MergeRollback, MergePcs
<1>2. CASE MergeFails
  BY <1>2 DEF MergeFails, FinishMerge, MergeIsolated
<1>3. PICK o \in Gens : o = merge.out
  BY <1>1, MergeFacts
<1>4. /\ o < gen /\ o \notin merge.inputs /\ merge.inputs \subseteq Gens
      /\ \A g \in merge.inputs : g < gen
      /\ merge.inputs \subseteq Published
  BY <1>0, <1>1, <1>3, MergeFacts DEF MergeIsolated, MergeRename, MergeSyncComponents, MergeToc,
     MergeSyncToc, MergeRollback, Idle
<1>5. ASSUME MergeRename, RewriteComponents(merge.out, MergeData), Goto("merge_renamed")
      PROVE  MergeIsolated'
  <2>1. pc = "idle" /\ pc' = "merge_renamed" /\ merge' = merge /\ gen' = gen
    BY <1>5 DEF MergeRename, Idle, Goto
  <2>2. \A g \in merge.inputs : sst'[g] = sst[g] /\ data'[g] = data[g]
    BY <1>0, <1>3, <1>4, <1>5, RewriteElsewhere
  <2>3. data'[o] = MergeData /\ sst'[o] = Rewritten(sst[o])
    BY <1>0, <1>3, <1>5, RewriteElsewhere
  <2>4. ~HasToc(sst[o])
    BY <1>0, <1>1, <1>3, <2>1 DEF MergeIsolated
  <2>5. ~HasToc(sst'[o])
    BY <2>3, <2>4 DEF Rewritten, HasToc
  <2>6. MergeData' = MergeData
    BY <2>1, <2>2 DEF MergeData
  <2>7. merge.inputs \subseteq Published'
    BY <1>4, <2>2 DEF Published, Gens
  <2> QED BY <1>3, <1>4, <2>1, <2>3, <2>5, <2>6, <2>7 DEF MergeIsolated, HasToc
<1>6. ASSUME MergeSyncComponents, survives' = DirSynced, Goto("merge_components_durable"),
             UNCHANGED <<sst, data>>
      PROVE  MergeIsolated'
  <2>1. /\ pc = "merge_renamed" /\ pc' = "merge_components_durable"
        /\ merge' = merge /\ gen' = gen /\ sst' = sst /\ data' = data
    BY <1>6 DEF MergeSyncComponents, Goto
  <2>2. ~HasToc(sst[o]) /\ data[o] = MergeData
    BY <1>0, <1>1, <1>3, <2>1 DEF MergeIsolated
  <2>3. MergeData' = MergeData /\ Published' = Published
    BY <2>1 DEF MergeData, Published, Gens
  <2> QED BY <1>3, <1>4, <2>1, <2>2, <2>3 DEF MergeIsolated, HasToc
<1>7. ASSUME MergeToc, Unsynced(merge.out, "published", {}), Goto("merge_toc"), UNCHANGED data
      PROVE  MergeIsolated'
  <2>1. /\ pc = "merge_components_durable" /\ pc' = "merge_toc"
        /\ merge' = merge /\ gen' = gen /\ data' = data
    BY <1>7 DEF MergeToc, Goto
  <2>2. ~HasToc(sst[o]) /\ data[o] = MergeData
    BY <1>0, <1>1, <1>3, <2>1 DEF MergeIsolated
  <2>3. sst[o] \in survives[o] /\ sst[o] # "published"
    BY <1>0, <2>2 DEF Typed, TypeOK, HasToc
  <2>4. sst'[o] = "published" /\ survives'[o] = survives[o] \cup {"published"} \cup {}
    BY <1>0, <1>3, <1>7, UnsyncedElsewhere
  <2>5. survives'[o] # {"published"}
    BY <2>3, <2>4
  <2>6. \A g \in merge.inputs : sst'[g] = sst[g]
    BY <1>0, <1>3, <1>4, <1>7, UnsyncedElsewhere
  <2>7. merge.inputs \subseteq Published'
    BY <1>4, <2>6 DEF Published, Gens
  <2>8. MergeData' = MergeData
    BY <2>1 DEF MergeData
  <2> QED BY <1>3, <1>4, <2>1, <2>2, <2>4, <2>5, <2>7, <2>8 DEF MergeIsolated, Durable
<1>8. ASSUME MergeSyncToc, survives' = DirSynced, Goto("merge_published"), UNCHANGED sst
      PROVE  MergeIsolated'
  <2>1. /\ pc = "merge_toc" /\ pc' = "merge_published"
        /\ merge' = merge /\ gen' = gen /\ data' = data
    BY <1>8 DEF MergeSyncToc, Goto
  <2>2. sst[o] = "published" /\ data[o] = MergeData
    BY <1>0, <1>1, <1>3, <2>1 DEF MergeIsolated
  <2>3. survives'[o] = {"published"}
    BY <1>0, <1>8, <2>2, DirSyncedType
  <2>4. \A g \in merge.inputs : data[g] \subseteq data[o]
    BY <2>2 DEF MergeData
  <2> QED BY <1>3, <1>4, <2>1, <2>3, <2>4 DEF MergeIsolated, Durable
<1>9. ASSUME MergeSyncToc, Goto("merge_rollback"), NEW s \in ComponentsRemoved,
             Unsynced(merge.out, s, {"torn", "leftover", "absent"})
      PROVE  MergeIsolated'
  <2>1. /\ pc = "merge_toc" /\ pc' = "merge_rollback"
        /\ merge' = merge /\ gen' = gen /\ data' = data
    BY <1>9 DEF MergeSyncToc, Goto
  <2>2. sst'[o] = s /\ "torn" \in survives'[o]
    BY <1>0, <1>3, <1>9, UnsyncedElsewhere
  <2>3. \A g \in merge.inputs : sst'[g] = sst[g]
    BY <1>0, <1>3, <1>4, <1>9, UnsyncedElsewhere
  <2>4. merge.inputs \subseteq Published'
    BY <1>4, <2>3 DEF Published, Gens
  <2>5. HasToc(s)
    BY <1>9 DEF ComponentsRemoved, HasToc
  <2>6. survives'[o] # {"published"}
    BY <2>2
  <2>7. data[o] = MergeData
    BY <1>0, <1>1, <1>3, <2>1 DEF MergeIsolated
  <2>8. MergeData' = MergeData
    BY <2>1 DEF MergeData
  <2> QED BY <1>3, <1>4, <2>1, <2>2, <2>4, <2>5, <2>6, <2>7, <2>8 DEF MergeIsolated, Durable, HasToc
<1>10. CASE MergeRename
  BY <1>2, <1>5, <1>10 DEF MergeRename, RollBack
<1>11. CASE MergeSyncComponents
  BY <1>2, <1>6, <1>11 DEF MergeSyncComponents, RollBack
<1>12. CASE MergeToc
  BY <1>2, <1>7, <1>12 DEF MergeToc, RollBack
<1>13. CASE MergeSyncToc
  BY <1>8, <1>9, <1>13 DEF MergeSyncToc
<1>14. CASE MergeRollback
  BY <1>2, <1>14 DEF MergeRollback
<1> QED BY <1>10, <1>11, <1>12, <1>13, <1>14

\* Taking the inputs out leaves the output alone.
LEMMA IsolatedDelete ==
  ASSUME Inv, NEW h \in Gens, DeleteToc(h) \/ DeleteData(h) \/ DeleteRest(h)
  PROVE  MergeIsolated'
<1>0. Typed /\ MergeIsolated
  BY DEF Inv
<1>1. /\ pc = "merge_published" /\ h \in merge.inputs
      /\ pc' = pc /\ gen' = gen /\ data' = data
  BY DEF DeleteToc, DeleteData, DeleteRest, Deleting, engineVars
<1>2. merge # NoMerge
  BY <1>1, MergeFacts DEF MergePcs
<1>3. PICK o \in Gens : o = merge.out
  BY <1>2, MergeFacts
<1>4. merge' = merge \/ merge' = [merge EXCEPT !.inputs = @ \ {h}]
  BY DEF DeleteToc, DeleteData, DeleteRest, Deleted
<1>5. merge'.out = o /\ merge'.inputs \subseteq merge.inputs
  BY <1>0, <1>3, <1>4 DEF Typed, TypeOK
<1>6. /\ o < gen /\ o \notin merge.inputs /\ \A g \in merge.inputs : g < gen
      /\ survives[o] = {"published"} /\ \A g \in merge.inputs : data[g] \subseteq data[o]
  BY <1>0, <1>1, <1>2, <1>3 DEF MergeIsolated, Durable
<1>7. (\E s, images : Unsynced(h, s, images)) \/ UNCHANGED survives
  BY DEF DeleteToc, DeleteData, DeleteRest
<1>8. survives'[o] = survives[o]
  BY <1>0, <1>1, <1>6, <1>7, UnsyncedElsewhere
<1> QED BY <1>1, <1>5, <1>6, <1>8 DEF MergeIsolated, Durable

\* Every step keeps the merge apart from what it does not own.
LEMMA IsolatedStep ==
  ASSUME Inv, Next
  PROVE  MergeIsolated'
<1>0. MergeIsolated
  BY DEF Inv
<1>1. CASE Open \/ OpenFails
  <2>1. pc = "down" /\ merge' = merge
    BY <1>1 DEF Open, OpenFails
  <2>2. merge = NoMerge
    BY <1>0, <2>1 DEF MergeIsolated
  <2> QED BY <2>1, <2>2 DEF MergeIsolated
<1>2. CASE Close \/ Kill \/ PowerLoss \/ MergeDone
  <2>1. merge' = NoMerge
    BY <1>2 DEF Close, Kill, PowerLoss, MergeDone, Down, FinishMerge
  <2> QED BY <2>1 DEF MergeIsolated
<1>3. CASE (\E m \in Mutation : Write(m) \/ WriteSyncFails(m)) \/ FlushComponents \/ FlushStep
  BY <1>3, IsolatedFlush
<1>4. CASE StartMerge
  BY <1>4, IsolatedStart
<1>5. CASE MergeRename \/ MergeSyncComponents \/ MergeToc \/ MergeSyncToc \/ MergeRollback
  BY <1>5, IsolatedPublish
<1>6. CASE \E h \in Gens : DeleteToc(h) \/ DeleteData(h) \/ DeleteRest(h)
  BY <1>6, IsolatedDelete
<1> QED BY <1>1, <1>2, <1>3, <1>4, <1>5, <1>6 DEF Next, FinalizeStep

\* Nothing is logged, held or written out that no caller wrote.
LEMMA AttemptedStep ==
  ASSUME Inv, Next
  PROVE  OnlyAttempted'
<1>0. Typed /\ OnlyAttempted
  BY DEF Inv
<1>1. CASE \E m \in Mutation : Write(m) \/ WriteSyncFails(m)
  <2>1. PICK m \in Mutation : Write(m) \/ WriteSyncFails(m)
    BY <1>1
  <2>2. attempted' = attempted \cup {m} /\ walFile' \subseteq walFile \cup {m} /\ data' = data
    BY <2>1 DEF Write, WriteSyncFails, Logged, dirVars
  <2>3. walDisk' \in {walFile', walDisk} /\ mem' \subseteq mem \cup {m} /\ promised' \subseteq promised \cup {m}
    BY <2>1 DEF Write, WriteSyncFails
  <2> QED BY <1>0, <2>2, <2>3 DEF OnlyAttempted, Gens
<1>2. ASSUME attempted' = attempted,
             walFile' \cup walDisk' \subseteq walFile \cup walDisk,
             mem' \subseteq mem \cup walFile, promised' \subseteq promised \cup mem \cup Stored,
             \A g \in Gens : data'[g] \subseteq data[g] \cup mem \cup MergeData
      PROVE  OnlyAttempted'
  <2>1. MergeData \subseteq attempted /\ Stored \subseteq attempted
    BY <1>0 DEF MergeData, Stored, Published, OnlyAttempted, Typed, TypeOK
  <2>2. \A g \in Gens : data'[g] \subseteq attempted'
    BY <1>0, <1>2, <2>1 DEF OnlyAttempted
  <2> QED BY <1>0, <1>2, <2>1, <2>2 DEF OnlyAttempted, Gens
<1>3. CASE Open \/ OpenFails
  BY <1>2, <1>3 DEF Open, OpenFails, walVars, histVars
<1>4. CASE Close \/ Kill \/ PowerLoss
  <2>1. attempted' = attempted /\ promised' = promised /\ data' = data /\ mem' = {}
    BY <1>4 DEF Close, Kill, PowerLoss, Down, histVars, dirVars
  <2>2. walFile' \cup walDisk' \subseteq walFile \cup walDisk
    BY <1>4 DEF Close, Kill, PowerLoss, LostTail
  <2> QED BY <1>2, <2>1, <2>2
<1>5. CASE FlushCommit
  <2>1. attempted' = attempted /\ promised' = promised \cup mem \cup Stored /\ data' = data /\ mem' = {}
    BY <1>5 DEF FlushCommit, dirVars
  <2>2. walFile' \cup walDisk' \subseteq walFile \cup walDisk
    BY <1>5 DEF FlushCommit, WalTruncate, walVars
  <2> QED BY <1>2, <2>1, <2>2
<1>6. CASE FlushComponents \/ MergeRename
  <2>1. attempted' = attempted /\ promised' = promised /\ mem' = mem /\ walFile' = walFile /\ walDisk' = walDisk
    BY <1>6 DEF FlushComponents, MergeRename, Goto, MergeFails, RollBack, walVars, histVars
  <2>2. RewriteComponents(gen, mem) \/ RewriteComponents(merge.out, MergeData) \/ data' = data
    BY <1>6 DEF FlushComponents, MergeRename, RollBack, dirVars
  <2>3. \A g \in Gens : data'[g] \subseteq data[g] \cup mem \cup MergeData
    BY <1>0, <2>2, RewriteElsewhere
  <2> QED BY <1>2, <2>1, <2>3
<1>7. CASE FlushToc \/ FlushSyncLeaf \/ FlushSyncChain \/ StartMerge
  BY <1>2, <1>7 DEF FlushToc, FlushSyncLeaf, FlushSyncChain, StartMerge, Goto, walVars, histVars,
     dirVars
<1>8. CASE FinalizeStep
  <2>1. /\ attempted' = attempted /\ promised' = promised /\ mem' = mem
        /\ walFile' = walFile /\ walDisk' = walDisk /\ data' = data
    BY <1>8 DEF FinalizeStep, MergeSyncComponents, MergeToc, MergeSyncToc, MergeRollback, MergeDone,
       DeleteToc, DeleteData, DeleteRest, engineVars, Goto, RollBack, MergeFails, walVars,
       histVars, dirVars
  <2> QED BY <1>2, <2>1
<1> QED BY <1>1, <1>3, <1>4, <1>5, <1>6, <1>7, <1>8 DEF Next, FlushStep

\* The invariant holds at the start.
LEMMA InvInit == Init => Inv
<1> SUFFICES ASSUME Init PROVE Inv
  OBVIOUS
<1>1. Typed
  BY TypedInit
<1>2. /\ pc = "down" /\ merge = NoMerge /\ walFile = {} /\ walDisk = {} /\ mem = {}
      /\ promised = {} /\ data = [g \in Gens |-> {}]
  BY DEF Init
<1> QED BY <1>1, <1>2 DEF Inv, NoAckedLoss, FreshGeneration, MemtableCovers, FlushCarries, FlushPcs,
     MergeIsolated, OnlyAttempted

\* The invariant is kept by every step of an engine whose flushes never fail to sync
\* their directory.
LEMMA InvStep ==
  ASSUME "flush_dirsync" \notin Faults
  PROVE  Inv /\ [Next]_vars => Inv'
<1> SUFFICES ASSUME Inv, [Next]_vars PROVE Inv'
  OBVIOUS
<1>1. CASE Next
  <2>1. Typed'
    BY <1>1, TypedStep DEF Inv
  <2> QED BY <1>1, <2>1, LossStep, FreshStep, CoversStep, CarriesStep, IsolatedStep, AttemptedStep DEF Inv
<1>2. CASE UNCHANGED vars
  <2>1. /\ UNCHANGED <<pc, walFile, walDisk, mem, gen, merge, promised, attempted>>
        /\ UNCHANGED <<sst, survives, data>>
    BY <1>2 DEF vars, walVars, dirVars, histVars
  <2>2. Typed'
    BY <1>2, TypedStep DEF Inv
  <2>3. /\ Published' = Published /\ MergeData' = MergeData
        /\ \A g \in Gens : Durable(g)' <=> Durable(g)
    BY <2>1 DEF Published, Gens, MergeData, Durable
  <2>4. NoAckedLoss' /\ MemtableCovers'
    BY <2>1, <2>3 DEF Inv, NoAckedLoss, MemtableCovers, SafelyStored, Gens, Durable
  <2>5. FreshGeneration' /\ FlushCarries' /\ OnlyAttempted'
    BY <2>1 DEF Inv, FreshGeneration, FlushCarries, OnlyAttempted, Gens, Durable
  <2>6. MergeIsolated'
    BY <2>1, <2>3 DEF Inv, MergeIsolated, Durable
  <2> QED BY <2>2, <2>4, <2>5, <2>6 DEF Inv
<1> QED BY <1>1, <1>2

\* Durability::SyncEachWrite and every flush that returned Ok: whatever the engine
\* is doing when a kill or a power loss comes, and whatever else fails, what was
\* promised is in the log or in a published SSTable of every image of the disk, in
\* an engine whose flushes never fail to sync their directory.
THEOREM NothingPromisedIsLost ==
  ASSUME "flush_dirsync" \notin Faults
  PROVE  Spec => []NoAckedLoss
<1>1. Init => Inv
  BY InvInit
<1>2. Inv /\ [Next]_vars => Inv'
  BY InvStep
<1>3. Inv => NoAckedLoss
  BY DEF Inv
<1> QED BY <1>1, <1>2, <1>3, PTL DEF Spec

\* No flush and no merge writes into an SSTable that is published.
THEOREM PublishedNeverRewritten ==
  ASSUME "flush_dirsync" \notin Faults
  PROVE  Spec => PublishedImmutable
<1>1. Init => Inv
  BY InvInit
<1>2. Inv /\ [Next]_vars => Inv'
  BY InvStep
<1>3. Inv /\ [Next]_vars => [\A g \in Published : data'[g] = data[g]]_vars
  BY PublishedKept DEF Published
<1> QED BY <1>1, <1>2, <1>3, PTL DEF Spec, PublishedImmutable

-----------------------------------------------------------------------------
(* The engine implements the durable store. *)

\* What the SSTables other than one hold.
StoredElsewhere(g) == UNION {data[h] : h \in {x \in Gens : x # g /\ sst[x] = "published"}}

\* A change of one generation, before and after which it is unpublished or holds only
\* what is held elsewhere, does not change what is held.
LEMMA OneGeneration ==
  ASSUME NEW g \in Gens, NEW held,
         \A h \in Gens : h # g => sst'[h] = sst[h] /\ data'[h] = data[h],
         sst[g] = "published" => data[g] \subseteq held \cup StoredElsewhere(g),
         sst'[g] = "published" => data'[g] \subseteq held \cup StoredElsewhere(g)
  PROVE  held \cup Stored' = held \cup Stored
<1>1. held \cup Stored = held \cup StoredElsewhere(g)
  <2>1. ASSUME NEW m, m \in Stored PROVE m \in held \cup StoredElsewhere(g)
    <3>1. PICK h \in Gens : sst[h] = "published" /\ m \in data[h]
      BY <2>1 DEF Stored, Published
    <3> QED BY <3>1 DEF StoredElsewhere
  <2>2. ASSUME NEW m, m \in StoredElsewhere(g) PROVE m \in Stored
    BY <2>2 DEF Stored, Published, StoredElsewhere
  <2> QED BY <2>1, <2>2
<1>2. held \cup Stored' = held \cup StoredElsewhere(g)
  <2>0. Stored' = UNION {data'[h] : h \in {x \in Gens : sst'[x] = "published"}}
    BY DEF Stored, Published, Gens
  <2>1. ASSUME NEW m, m \in Stored' PROVE m \in held \cup StoredElsewhere(g)
    <3>1. PICK h \in Gens : sst'[h] = "published" /\ m \in data'[h]
      BY <2>0, <2>1
    <3> QED BY <3>1 DEF StoredElsewhere
  <2>2. ASSUME NEW m, m \in StoredElsewhere(g) PROVE m \in Stored'
    <3>1. PICK h \in Gens : h # g /\ sst[h] = "published" /\ m \in data[h]
      BY <2>2 DEF StoredElsewhere
    <3> QED BY <2>0, <3>1
  <2> QED BY <2>1, <2>2
<1> QED BY <1>1, <1>2

\* No step of a flush short of its commit changes what the engine holds.
LEMMA FlushHolds ==
  ASSUME Inv, FlushComponents \/ FlushToc \/ FlushSyncLeaf \/ FlushSyncChain
  PROVE  mem \cup Stored' = mem \cup Stored
<1>0. Typed /\ FreshGeneration /\ FlushCarries
  BY DEF Inv
<1>1. CASE FlushComponents
  <2>1. pc = "idle" /\ gen \in Gens /\ RewriteComponents(gen, mem)
    BY <1>1 DEF FlushComponents, Idle
  <2>2. ~HasToc(sst[gen])
    BY <1>0, <2>1 DEF FreshGeneration, PublishedPcs, Gens
  <2>3. sst[gen] # "published" /\ sst'[gen] # "published"
    BY <1>0, <2>1, <2>2, RewriteElsewhere DEF Rewritten, HasToc
  <2>4. \A h \in Gens : h # gen => sst'[h] = sst[h] /\ data'[h] = data[h]
    BY <1>0, <2>1, RewriteElsewhere
  <2> QED BY <2>1, <2>3, <2>4, OneGeneration
<1>2. CASE FlushToc
  <2>1. pc = "flush_components" /\ Unsynced(gen, "published", {"torn"}) /\ data' = data
    BY <1>2 DEF FlushToc
  <2>2. gen \in Gens /\ data[gen] = mem
    BY <1>0, <2>1 DEF Typed, Phases, FlushPcs, FlushCarries
  <2>3. \A h \in Gens : h # gen => sst'[h] = sst[h] /\ data'[h] = data[h]
    BY <1>0, <2>1, UnsyncedElsewhere
  <2> QED BY <2>1, <2>2, <2>3, OneGeneration
<1>3. CASE FlushSyncLeaf \/ FlushSyncChain
  BY <1>3 DEF FlushSyncLeaf, FlushSyncChain, Stored, Published, Gens
<1> QED BY <1>1, <1>2, <1>3

\* No step of a merge changes what the engine holds: its output appears beside its
\* inputs, and they go only once it is there.
LEMMA MergeHolds ==
  ASSUME Inv, MergeRename \/ FinalizeStep
  PROVE  Stored' = Stored
<1>0. Typed /\ MergeIsolated
  BY DEF Inv
<1>a. merge # NoMerge
  BY MergeFacts DEF FinalizeStep, MergeRename, MergeSyncComponents, MergeToc, MergeSyncToc,
     MergeRollback, MergeDone, DeleteToc, DeleteData, DeleteRest, Deleting, MergePcs
<1>b. PICK o \in Gens : o = merge.out
  BY <1>a, MergeFacts
<1>c. o \notin merge.inputs /\ merge.inputs \subseteq Gens
  BY <1>a, <1>b, MergeFacts
<1>h. ASSUME NEW g \in Gens,
             \A h \in Gens : h # g => sst'[h] = sst[h] /\ data'[h] = data[h],
             sst[g] = "published" => data[g] \subseteq StoredElsewhere(g),
             sst'[g] = "published" => data'[g] \subseteq StoredElsewhere(g)
      PROVE  Stored' = Stored
  <2>1. {} \cup Stored' = {} \cup Stored
    BY <1>h, OneGeneration
  <2> QED BY <2>1
<1>r. ASSUME NEW stay, RollBack(stay), ~HasToc(sst[o]), "published" \notin stay
      PROVE  Stored' = Stored
  <2>1. sst[o] # "published"
    BY <1>r DEF HasToc
  <2>2. sst'[o] # "published" /\ \A h \in Gens : h # o => sst'[h] = sst[h] /\ data'[h] = data[h]
    BY <1>0, <1>b, <1>r, RollBackElsewhere
  <2> QED BY <1>h, <2>1, <2>2
<1>e. ASSUME UNCHANGED <<sst, data>> PROVE Stored' = Stored
  BY <1>e DEF Stored, Published, Gens
<1>i. pc \notin {"merge_published"} => MergeData \subseteq StoredElsewhere(o)
  <2> SUFFICES ASSUME pc # "merge_published", NEW m, m \in MergeData
               PROVE  m \in StoredElsewhere(o)
    OBVIOUS
  <2>1. PICK h \in merge.inputs : m \in data[h]
    BY DEF MergeData
  <2>2. merge.inputs \subseteq Published
    BY <1>0, <1>a DEF MergeIsolated
  <2> QED BY <1>c, <2>1, <2>2 DEF Published, StoredElsewhere
<1>1. CASE MergeRename
  <2>1. pc = "idle"
    BY <1>1 DEF MergeRename, Idle
  <2>2. ~HasToc(sst[o])
    BY <1>0, <1>a, <1>b, <2>1 DEF MergeIsolated
  <2>3. CASE RewriteComponents(merge.out, MergeData)
    <3>1. sst[o] # "published" /\ sst'[o] # "published"
      BY <1>0, <1>b, <2>2, <2>3, RewriteElsewhere DEF Rewritten, HasToc
    <3>2. \A h \in Gens : h # o => sst'[h] = sst[h] /\ data'[h] = data[h]
      BY <1>0, <1>b, <2>3, RewriteElsewhere
    <3> QED BY <1>h, <3>1, <3>2
  <2>4. CASE RollBack({sst[merge.out]})
    BY <1>b, <1>r, <2>2, <2>4 DEF HasToc
  <2> QED BY <1>1, <1>e, <2>3, <2>4 DEF MergeRename, dirVars
<1>2. CASE MergeSyncComponents
  <2>1. pc = "merge_renamed"
    BY <1>2 DEF MergeSyncComponents
  <2>2. ~HasToc(sst[o])
    BY <1>0, <1>a, <1>b, <2>1 DEF MergeIsolated
  <2> QED BY <1>2, <1>e, <1>r, <2>2 DEF MergeSyncComponents
<1>3. CASE MergeToc
  <2>1. pc = "merge_components_durable"
    BY <1>3 DEF MergeToc
  <2>2. ~HasToc(sst[o]) /\ data[o] = MergeData
    BY <1>0, <1>a, <1>b, <2>1 DEF MergeIsolated
  <2>3. CASE Unsynced(merge.out, "published", {}) /\ data' = data
    <3>1. \A h \in Gens : h # o => sst'[h] = sst[h] /\ data'[h] = data[h]
      BY <1>0, <1>b, <2>3, UnsyncedElsewhere
    <3>2. data[o] \subseteq StoredElsewhere(o) /\ data'[o] \subseteq StoredElsewhere(o)
      BY <1>i, <2>1, <2>2, <2>3
    <3> QED BY <1>h, <3>1, <3>2
  <2> QED BY <1>3, <1>r, <2>2, <2>3 DEF MergeToc
<1>4. CASE MergeSyncToc
  <2>1. pc = "merge_toc" /\ data' = data
    BY <1>4 DEF MergeSyncToc
  <2>2. data[o] = MergeData
    BY <1>0, <1>a, <1>b, <2>1 DEF MergeIsolated
  <2>3. CASE \E s \in ComponentsRemoved : Unsynced(merge.out, s, {"torn", "leftover", "absent"})
    <3>1. \A h \in Gens : h # o => sst'[h] = sst[h] /\ data'[h] = data[h]
      BY <1>0, <1>b, <2>1, <2>3, UnsyncedElsewhere
    <3>2. data[o] \subseteq StoredElsewhere(o) /\ data'[o] \subseteq StoredElsewhere(o)
      BY <1>i, <2>1, <2>2
    <3> QED BY <1>h, <3>1, <3>2
  <2> QED BY <1>4, <1>e, <2>1, <2>3 DEF MergeSyncToc
<1>5. CASE MergeRollback
  <2>1. pc = "merge_rollback" /\ data' = data
    BY <1>5 DEF MergeRollback
  <2>2. data[o] = MergeData
    BY <1>0, <1>a, <1>b, <2>1 DEF MergeIsolated
  <2>3. PICK s : Unsynced(merge.out, s, {"leftover"})
    BY <1>5 DEF MergeRollback
  <2>4. \A h \in Gens : h # o => sst'[h] = sst[h] /\ data'[h] = data[h]
    BY <1>0, <1>b, <2>1, <2>3, UnsyncedElsewhere
  <2>5. data[o] \subseteq StoredElsewhere(o) /\ data'[o] \subseteq StoredElsewhere(o)
    BY <1>i, <2>1, <2>2
  <2> QED BY <1>h, <2>4, <2>5
<1>6. CASE MergeDone
  BY <1>6, <1>e DEF MergeDone, dirVars
<1>7. ASSUME NEW g \in Gens, DeleteToc(g) \/ DeleteData(g) \/ DeleteRest(g)
      PROVE  Stored' = Stored
  <2>1. data' = data /\ pc = "merge_published" /\ g \in merge.inputs
    BY <1>7 DEF DeleteToc, DeleteData, DeleteRest, Deleting, engineVars
  <2>2. Durable(o) /\ data[g] \subseteq data[o]
    BY <1>0, <1>a, <1>b, <2>1 DEF MergeIsolated
  <2>3. sst[o] = "published" /\ o # g
    BY <1>0, <1>c, <2>1, <2>2 DEF Typed, TypeOK, Durable
  <2>4. data[g] \subseteq StoredElsewhere(g)
    BY <2>2, <2>3 DEF StoredElsewhere
  <2>5. (\E s, images : Unsynced(g, s, images)) \/ UNCHANGED sst
    BY <1>7 DEF DeleteToc, DeleteData, DeleteRest
  <2>6. \A h \in Gens : h # g => sst'[h] = sst[h] /\ data'[h] = data[h]
    BY <1>0, <2>1, <2>5, UnsyncedElsewhere
  <2> QED BY <1>h, <2>1, <2>4, <2>6
<1> QED BY <1>1, <1>2, <1>3, <1>4, <1>5, <1>6, <1>7 DEF FinalizeStep

\* Every step of the engine is a step of the store, or leaves it unchanged.
LEMMA StoreStep ==
  ASSUME Inv, Inv', Next
  PROVE  Store!StoreNext \/ UNCHANGED Store!storeVars
<1>0. Typed /\ FlushCarries
  BY DEF Inv
<1>u. pc # "down" => visible = mem \cup Stored
  BY DEF visible
<1>v. /\ pc' # "down" => visible' = mem' \cup Stored'
      /\ pc' = "down" => visible' = {}
  BY DEF visible
<1>w. ASSUME UNCHANGED <<promised, attempted>>, visible' = visible, pc' = "down" <=> pc = "down"
      PROVE  UNCHANGED Store!storeVars
  BY <1>w DEF Store!storeVars
<1>1. CASE Open
  <2>1. pc = "down" /\ pc' = "idle" /\ UNCHANGED <<promised, attempted>>
    BY <1>1 DEF Open, histVars
  <2>2. \A m \in promised' : m \in mem' \/ SafelyStored(m)'
    BY <2>1 DEF Inv, MemtableCovers
  <2>3. \A m : SafelyStored(m)' => m \in Stored'
    BY DEF Inv, Typed, TypeOK, SafelyStored, Durable, Stored, Published
  <2>4. promised \subseteq visible'
    BY <1>v, <2>1, <2>2, <2>3
  <2>5. \A m \in Stored' : m \in attempted'
    BY DEF Inv, OnlyAttempted, Stored, Published
  <2>6. mem' \subseteq attempted'
    BY DEF Inv, OnlyAttempted
  <2>7. visible' \subseteq attempted
    BY <1>v, <2>1, <2>5, <2>6
  <2>8. Store!StoreOpen
    BY <2>1, <2>4, <2>7 DEF Store!StoreOpen
  <2> QED BY <2>8 DEF Store!StoreNext
<1>2. CASE OpenFails
  <2>1. pc = "down" /\ pc' = "down" /\ UNCHANGED <<promised, attempted>>
    BY <1>2 DEF OpenFails, histVars
  <2> QED BY <1>v, <1>w, <2>1 DEF visible
<1>3. CASE Close \/ Kill \/ PowerLoss
  <2>1. pc' = "down" /\ UNCHANGED <<promised, attempted>>
    BY <1>3 DEF Close, Kill, PowerLoss, Down, histVars
  <2>2. CASE pc = "down"
    BY <1>v, <1>w, <2>1, <2>2 DEF visible
  <2>3. CASE pc # "down"
    <3>1. Store!StoreDown
      BY <1>v, <2>1, <2>3 DEF Store!StoreDown
    <3> QED BY <3>1 DEF Store!StoreNext
  <2> QED BY <2>2, <2>3
<1>4. ASSUME NEW m \in Mutation, Write(m) \/ WriteSyncFails(m)
      PROVE  Store!StoreNext
  <2>1. /\ pc = "idle" /\ pc' = "idle" /\ sst' = sst /\ data' = data
        /\ attempted' = attempted \cup {m}
    BY <1>4 DEF Write, WriteSyncFails, Admitted, Idle, dirVars
  <2>2. Stored' = Stored
    BY <2>1 DEF Stored, Published, Gens
  <2>3. \/ mem' = mem /\ promised' = promised
        \/ mem' = mem \cup {m} /\ promised' = IF SyncEachWrite THEN promised \cup {m} ELSE promised
    BY <1>4 DEF Write, WriteSyncFails
  <2>4. visible = mem \cup Stored /\ visible' = mem' \cup Stored
    BY <1>u, <1>v, <2>1, <2>2
  <2>5. Store!StoreWriteFails(m) \/ Store!StoreWrite(m)
    BY <2>1, <2>3, <2>4 DEF Store!StoreWriteFails, Store!StoreWrite
  <2> QED BY <2>5 DEF Store!StoreNext
<1>5. CASE FlushComponents \/ FlushToc \/ FlushSyncLeaf \/ FlushSyncChain
  <2>1. pc # "down" /\ pc' # "down" /\ mem' = mem /\ UNCHANGED <<promised, attempted>>
    BY <1>5 DEF FlushComponents, FlushToc, FlushSyncLeaf, FlushSyncChain, Idle, Goto, histVars
  <2> QED BY <1>5, <1>u, <1>v, <1>w, <2>1, FlushHolds
<1>6. CASE FlushCommit
  <2>1. /\ pc = "flush_durable" /\ pc' = "idle" /\ mem' = {} /\ sst' = sst /\ data' = data
        /\ promised' = promised \cup mem \cup Stored /\ attempted' = attempted
    BY <1>6 DEF FlushCommit, dirVars
  <2>2. gen \in Gens /\ sst[gen] = "published" /\ data[gen] = mem
    BY <1>0, <2>1 DEF Typed, Phases, FlushPcs, PublishedPcs, FlushCarries
  <2>3. mem \subseteq Stored
    BY <2>2 DEF Stored, Published
  <2>4. Stored' = Stored
    BY <2>1 DEF Stored, Published, Gens
  <2>5. visible = mem \cup Stored /\ visible' = visible
    BY <1>u, <1>v, <2>1, <2>3, <2>4
  <2>6. Store!StoreFlush
    BY <2>1, <2>5 DEF Store!StoreFlush
  <2> QED BY <2>6 DEF Store!StoreNext
<1>7. CASE StartMerge
  <2>1. pc = "idle" /\ pc' = "idle" /\ mem' = mem /\ UNCHANGED <<promised, attempted, sst, data>>
    BY <1>7 DEF StartMerge, Idle, histVars, dirVars
  <2>2. Stored' = Stored
    BY <2>1 DEF Stored, Published, Gens
  <2> QED BY <1>u, <1>v, <1>w, <2>1, <2>2
<1>8. CASE MergeRename \/ FinalizeStep
  <2>1. pc # "down" /\ pc' # "down" /\ mem' = mem /\ UNCHANGED <<promised, attempted>>
    BY <1>8 DEF FinalizeStep, MergeRename, MergeSyncComponents, MergeToc, MergeSyncToc,
       MergeRollback, MergeDone, DeleteToc, DeleteData, DeleteRest, Deleting, engineVars, Goto,
       RollBack, MergeFails, FinishMerge, Idle, histVars
  <2> QED BY <1>8, <1>u, <1>v, <1>w, <2>1, MergeHolds
<1> QED BY <1>1, <1>2, <1>3, <1>4, <1>5, <1>6, <1>7, <1>8 DEF Next, FlushStep

\* The write engine implements the durable store: opening finds everything promised
\* and nothing that was never written, no flush or compaction changes what a caller
\* sees, and every committed flush makes all of it durable.
THEOREM EngineImplementsStore ==
  ASSUME "flush_dirsync" \notin Faults
  PROVE  Spec => ImplementsStore
<1>1. Init => Inv
  BY InvInit
<1>2. Inv /\ [Next]_vars => Inv'
  BY InvStep
<1>3. Init => Store!StoreInit
  BY DEF Init, Store!StoreInit, visible
<1>4. Inv /\ Inv' /\ [Next]_vars => [Store!StoreNext]_(Store!storeVars)
  <2>1. ASSUME Inv, Inv', Next PROVE [Store!StoreNext]_(Store!storeVars)
    BY <2>1, StoreStep
  <2>2. ASSUME UNCHANGED vars PROVE UNCHANGED Store!storeVars
    BY <2>2 DEF vars, dirVars, histVars, Store!storeVars, visible, Stored, Published, Gens
  <2> QED BY <2>1, <2>2
<1> QED BY <1>1, <1>2, <1>3, <1>4, PTL DEF Spec, ImplementsStore, Store!StoreSpec
=============================================================================
