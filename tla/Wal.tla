--------------------------------- MODULE Wal ---------------------------------
(***************************************************************************)
(* The write-ahead log of the write engine (write_engine/wal.rs), with the *)
(* recovery sequence WriteEngine::new drives over it.                      *)
(*                                                                         *)
(* The log file is a sequence of SEGMENTS, one per framed entry            *)
(* [length | crc32 | payload] or fragment of one.  What the reader of the  *)
(* file can tell about a segment is its kind:                              *)
(*   ok           length, CRC and payload all decode                       *)
(*   undec        CRC valid, payload decodes under no known layout         *)
(*   badcrc       complete, CRC mismatch                                   *)
(*   implausible  complete header, length above MAX_ENTRY_LENGTH           *)
(*   short        complete header, declared payload not all there          *)
(*   torn         fewer than the 8 header bytes                            *)
(*   hole         zero bytes left by a write past the end of the file      *)
(*                                                                         *)
(* Three copies of the log exist: `buf' (the BufWriter), `file' (what a    *)
(* read of the file returns) and `disk' (what survives a power loss).  The *)
(* first `stable' segments of `file' are on stable storage.                *)
(***************************************************************************)
EXTENDS Integers, Sequences, FiniteSets

CONSTANTS
  Mutation,     \* the mutations a client may append
  Oversized,    \* those that serialize to more than MAX_ENTRY_LENGTH bytes
  NoMutation,   \* the content of a fragment that holds no entry
  Faults,       \* which I/O failures the environment may inject
  MaxLen,       \* bound on the number of segments in the log
  MaxRot,       \* bound on the number of media corruptions
  MaxRotate,    \* bound on the number of log rotations
  MaxClock      \* bound on the wall clock, in seconds

FaultKinds == {"append", "flush", "fsync", "setlen", "seek", "copy"}

ASSUME MutationAssumption == Oversized \subseteq Mutation /\ NoMutation \notin Mutation
ASSUME FaultsAssumption == Faults \subseteq FaultKinds
ASSUME BoundsAssumption ==
  MaxLen \in Nat /\ MaxRot \in Nat /\ MaxRotate \in Nat /\ MaxClock \in Nat

VARIABLES
  buf, file, disk, stable,     \* the three copies of the log
  handle,                      \* the WriteAheadLog value, or "none"
  recovery,                    \* progress of WriteEngine::new over the log
  report,                      \* the last RecoveryReport
  evidence,                    \* segments preserved aside, durable
  archive,                     \* commitlog.wal.<seconds> files
  clock,                       \* wall clock, in seconds
  appended,                    \* history: appended, not yet covered by a sync
  acked,                       \* history: covered by a successful sync
  exposed,                     \* history: at or behind a media corruption
  told,                        \* history: loss surfaced by a live engine
  archived,                    \* history: acknowledged, then rotated out
  rots, rotations              \* counters of the bounded events

logVars == <<buf, file, disk, stable>>
histVars == <<appended, acked, exposed, told, archived>>
vars == <<logVars, handle, recovery, report, evidence, archive, clock,
          histVars, rots, rotations>>

-----------------------------------------------------------------------------
(* Segments and what a reader makes of them. *)

RotKinds == {"undec", "badcrc", "implausible", "short"}
FragmentKinds == {"torn", "short"}

\* `m' identifies the bytes: it is kept through corruption so that evidence of
\* an entry can be told from its loss.  A fragment or a hole has no entry.
Segment == [kind : {"ok"} \cup RotKinds, m : Mutation]
             \cup [kind : FragmentKinds \cup {"hole"}, m : {NoMutation}]
Entry(m) == [kind |-> IF m \in Oversized THEN "implausible" ELSE "ok", m |-> m]
Fragment(k) == [kind |-> k, m |-> NoMutation]

\* The entry boundary is authoritative: the walk goes on behind it.
Framed(seg) == seg.kind \in {"ok", "undec"}

AllFramed(s) == \A i \in 1 .. Len(s) : Framed(s[i])

\* A walk that takes every short entry at the end of the file for a torn one.
WalStopShortIsTorn(s) ==
  LET n == CHOOSE k \in 0 .. Len(s) :
             /\ \A i \in 1 .. k : Framed(s[i])
             /\ k < Len(s) => ~Framed(s[k + 1])
  IN IF n = Len(s) THEN "CleanEof"
     ELSE IF s[n + 1].kind \in FragmentKinds THEN "TornTail"
     ELSE "Corruption"

\* scan_valid_prefix: the number of segments before the first unframed one ...
ValidEnd(s) == CHOOSE n \in 0 .. Len(s) :
                 /\ \A i \in 1 .. n : Framed(s[i])
                 /\ n < Len(s) => ~Framed(s[n + 1])

\* ... and why the scan stopped there.  Only a header cut short at the very end
\* of the file is a torn tail; bytes behind it complete the header with garbage.
WalStop(s) ==
  IF ValidEnd(s) = Len(s) THEN "CleanEof"
  ELSE IF ValidEnd(s) = Len(s) - 1 /\ s[Len(s)].kind = "torn" THEN "TornTail"
  ELSE "Corruption"

\* The mutations replay_each hands to its callback: the decodable entries before
\* the first segment that ends the walk.
Recovered(s) == {s[i].m : i \in {j \in 1 .. Len(s) :
                   s[j].kind = "ok" /\ \A k \in 1 .. j : Framed(s[k])}}

\* replay_each: an undecodable entry is counted and skipped, an unframed one is
\* counted and ends the walk early, a torn header at the end ends it cleanly.
RecoveryReport(s) ==
  [mutations     |-> Recovered(s),
   corrupt       |-> \/ \E i \in 1 .. ValidEnd(s) : s[i].kind = "undec"
                     \/ WalStop(s) = "Corruption",
   stopped_early |-> WalStop(s) = "Corruption"]

IsClean(r) == ~r.corrupt /\ ~r.stopped_early

-----------------------------------------------------------------------------
(* The handle. *)

NoReport == [mutations |-> {}, corrupt |-> FALSE, stopped_early |-> FALSE]
None == -1

\* append_mode: open_existing opens the file in append mode, create does not, so
\* only a created handle has a cursor that a failed seek can leave behind.
Handle == [open : BOOLEAN, size : Nat, pending : Int, poisoned : BOOLEAN,
           append_mode : BOOLEAN, cursor_stale : BOOLEAN]
Closed == [open |-> FALSE, size |-> 0, pending |-> None, poisoned |-> FALSE,
           append_mode |-> FALSE, cursor_stale |-> FALSE]
Opened(size, pending, append_mode) ==
  [open |-> TRUE, size |-> size, pending |-> pending, poisoned |-> FALSE,
   append_mode |-> append_mode, cursor_stale |-> FALSE]

HasPendingCorruptTail == handle.pending # None
EnsureNotPoisoned == ~handle.poisoned
\* WriteEngine::new holds the handle to itself until it returns; a consumer of
\* the log alone may use one that open_existing has just handed out.
InUse == handle.open /\ recovery \in {"opened", "live"}
SizeLimitOnly(m) == InUse /\ ~handle.poisoned /\ m \notin Oversized

Fault(f) == f \in Faults

\* A handle that is gone buffers nothing, and what it had not synced was never
\* acknowledged.
Drop == handle' = Closed /\ recovery' = "down" /\ buf' = <<>> /\ appended' = {}

\* Dropping a BufWriter in good order flushes what it holds.
FlushAndDrop == Drop /\ file' = file \o buf

Init ==
  /\ buf = <<>> /\ file = <<>> /\ disk = <<>> /\ stable = 0
  /\ handle = Closed
  /\ recovery = "absent"
  /\ report = NoReport
  /\ evidence = {} /\ archive = [t \in {} |-> <<>>] /\ clock = 0
  /\ appended = {} /\ acked = {} /\ exposed = {}
  /\ told = {} /\ archived = {}
  /\ rots = 0 /\ rotations = 0

-----------------------------------------------------------------------------
(* Opening and recovering. *)

\* create_with_buffer_size: reached from WriteEngine::new when no log exists.
Create ==
  /\ recovery = "absent"
  /\ handle' = Opened(0, None, FALSE)
  /\ recovery' = "live"
  /\ report' = NoReport
  /\ UNCHANGED <<logVars, evidence, archive, clock, histVars, rots, rotations>>

\* The stable part of the log once it has been cut to its first `end' segments.
StableAfterCut(end) == IF stable < end THEN stable ELSE end

\* open_existing: a torn tail is trimmed and synced, a corrupt tail is left for
\* the caller and guarded by pending_valid_prefix.
OpenExisting ==
  /\ recovery = "down"
  /\ LET end  == ValidEnd(file)
         trim == WalStop(file) = "TornTail"
         kept == IF trim THEN SubSeq(file, 1, end) ELSE file
     IN \/ /\ file' = kept
           /\ IF trim THEN disk' = kept /\ stable' = Len(kept)
                      ELSE UNCHANGED <<disk, stable>>
           /\ handle' = Opened(Len(kept),
                               IF WalStop(file) = "Corruption" THEN end ELSE None,
                               TRUE)
           /\ recovery' = "opened"
        \/ /\ trim /\ Fault("fsync")
           /\ file' = kept
           /\ stable' = StableAfterCut(end)
           /\ UNCHANGED <<disk, handle, recovery>>
  /\ UNCHANGED <<buf, report, evidence, archive, clock, histVars, rots, rotations>>

\* What WriteEngine::new does next: a lossy log is preserved aside, then reset.
ResetAtOnce(r) == IF IsClean(r) THEN "live" ELSE "preserved"
AfterReplay(r) == IF IsClean(r) THEN "live" ELSE "lossy"

\* replay_each, as WriteEngine::new uses it.
ReplayEach ==
  /\ recovery = "opened"
  /\ report' = RecoveryReport(file)
  /\ recovery' = AfterReplay(report')
  /\ UNCHANGED <<logVars, handle, evidence, archive, clock, histVars, rots, rotations>>

\* preserve_corrupt_wal: copy, fsync the copy, fsync the directory.
PreserveCorruptWal ==
  /\ recovery = "lossy"
  /\ \/ /\ evidence' = evidence \cup {file[i].m : i \in 1 .. Len(file)}
        /\ recovery' = "preserved"
        /\ UNCHANGED <<handle, buf, file, appended>>
     \/ /\ Fault("copy")
        /\ FlushAndDrop
        /\ UNCHANGED evidence
  /\ UNCHANGED <<disk, stable, report, archive, clock, acked, exposed, told, archived,
                 rots, rotations>>

\* reset_to_valid_prefix: the append guard is lifted only when every step of the
\* trim has succeeded.
ResetToValidPrefix ==
  /\ recovery = "preserved"
  /\ LET end   == handle.pending
         trims == HasPendingCorruptTail /\ end < Len(file)
         kept  == SubSeq(file, 1, end)
     IN \/ /\ ~trims
           /\ handle' = IF HasPendingCorruptTail
                        THEN [handle EXCEPT !.size = Len(file), !.pending = None]
                        ELSE handle
           /\ recovery' = "live"
           /\ UNCHANGED <<logVars, appended>>
        \/ /\ trims
           /\ file' = kept /\ disk' = kept /\ stable' = end
           /\ handle' = [handle EXCEPT !.size = end, !.pending = None]
           /\ recovery' = "live"
           /\ UNCHANGED <<buf, appended>>
        \/ /\ trims /\ Fault("setlen")
           /\ Drop
           /\ UNCHANGED <<file, disk, stable>>
        \/ /\ trims /\ Fault("fsync")
           /\ file' = kept
           /\ stable' = StableAfterCut(end)
           /\ Drop
           /\ UNCHANGED disk
  /\ told' = IF recovery' = "live" THEN told \cup (acked \ report.mutations) ELSE told
  /\ UNCHANGED <<report, evidence, archive, clock, acked, exposed, archived, rots,
                 rotations>>

-----------------------------------------------------------------------------
(* Appending and syncing. *)

\* The checks append makes before it writes a byte.
AppendAdmitted(m) ==
  /\ InUse
  /\ EnsureNotPoisoned
  /\ ~HasPendingCorruptTail
  /\ m \notin Oversized

\* A write at a cursor that a failed seek left behind the end of the file.
AtCursor(segs) == IF handle.cursor_stale THEN <<Fragment("hole")>> \o segs ELSE segs

\* append, when the entry fits what is left of the BufWriter ...
AppendBuffered(m) ==
  /\ AppendAdmitted(m)
  /\ Len(file) + Len(buf) < MaxLen
  /\ buf' = buf \o AtCursor(<<Entry(m)>>)
  /\ handle' = [handle EXCEPT !.size = @ + 1]
  /\ appended' = appended \cup {m}
  /\ UNCHANGED <<file, disk, stable, recovery, report, evidence, archive, clock,
                 acked, exposed, told, archived, rots, rotations>>

\* ... and when it does not: the buffer and the payload go to the file.
AppendSpilled(m) ==
  /\ AppendAdmitted(m)
  /\ Len(file) + Len(buf) < MaxLen
  /\ file' = file \o buf \o AtCursor(<<Entry(m)>>)
  /\ buf' = <<>>
  /\ handle' = [handle EXCEPT !.size = @ + 1]
  /\ appended' = appended \cup {m}
  /\ UNCHANGED <<disk, stable, recovery, report, evidence, archive, clock,
                 acked, exposed, told, archived, rots, rotations>>

\* append failing between its header and the end of its payload: the header is
\* left in the buffer, or the header and a part of the payload in the file.
\* current_size is not advanced and nothing is rolled back.
AppendFails(m) ==
  /\ Fault("append")
  /\ AppendAdmitted(m)
  /\ Len(file) + Len(buf) < MaxLen
  /\ \/ /\ buf' = buf \o <<Fragment("short")>>
        /\ UNCHANGED file
     \/ /\ file' = file \o buf \o <<Fragment("short")>>
        /\ buf' = <<>>
  /\ UNCHANGED <<disk, stable, handle, recovery, report, evidence, archive, clock,
                 histVars, rots, rotations>>

\* BufWriter::flush stopping after n whole segments; the rest stays buffered.
PartialFlush(n) ==
  /\ file' = file \o SubSeq(buf, 1, n)
  /\ buf' = SubSeq(buf, n + 1, Len(buf))

\* sync: flush the buffer, then fsync the file.
Sync ==
  /\ InUse
  /\ EnsureNotPoisoned
  /\ \/ /\ file' = file \o buf
        /\ buf' = <<>>
        /\ disk' = file'
        /\ stable' = Len(file')
        /\ acked' = acked \cup appended
        /\ exposed' = exposed \ appended
        /\ appended' = {}
     \/ /\ Fault("flush") /\ buf # <<>>
        /\ \E n \in 0 .. Len(buf) - 1 : PartialFlush(n)
        /\ UNCHANGED <<disk, stable, acked, appended, exposed>>
     \/ /\ Fault("fsync")
        /\ file' = file \o buf
        /\ buf' = <<>>
        /\ UNCHANGED <<disk, stable, acked, appended, exposed>>
  /\ UNCHANGED <<handle, recovery, report, evidence, archive, clock, told, archived,
                 rots, rotations>>

-----------------------------------------------------------------------------
(* Truncating and rotating. *)

\* truncate_checked failing at or before set_len(0): TruncateError::BeforeMutation.
TruncateBeforeMutation ==
  /\ InUse /\ EnsureNotPoisoned
  /\ \/ /\ Fault("flush") /\ buf # <<>>
        /\ \E n \in 0 .. Len(buf) - 1 : PartialFlush(n)
     \/ /\ Fault("setlen")
        /\ file' = file \o buf /\ buf' = <<>>
  /\ UNCHANGED <<disk, stable, handle, recovery, report, evidence, archive, clock,
                 histVars, rots, rotations>>

\* A truncate that resets current_size only when fsync and seek succeeded.
TruncateKeepsSize ==
  /\ InUse /\ EnsureNotPoisoned
  /\ \E syncOk \in IF Fault("fsync") THEN BOOLEAN ELSE {TRUE},
        seekOk \in IF Fault("seek") THEN BOOLEAN ELSE {TRUE} :
       /\ disk' = IF syncOk THEN <<>> ELSE disk
       /\ handle' = [handle EXCEPT
            !.size = IF syncOk /\ seekOk THEN 0 ELSE @,
            !.poisoned = ~seekOk,
            !.cursor_stale = ~seekOk /\ ~handle.append_mode /\ file \o buf # <<>>,
            !.pending = IF syncOk /\ seekOk THEN None ELSE @]
  /\ file' = <<>> /\ buf' = <<>> /\ stable' = 0
  /\ acked' = {} /\ appended' = {} /\ exposed' = {}
  /\ UNCHANGED <<recovery, report, evidence, archive, clock, told, archived, rots, rotations>>

\* truncate_checked past set_len(0): fsync and seek are both run, then a failed
\* seek poisons the handle, and the corrupt-tail guard is lifted only when both
\* succeeded.  The caller gives up every entry logged so far.
Truncate ==
  /\ InUse /\ EnsureNotPoisoned
  /\ \E syncOk \in IF Fault("fsync") THEN BOOLEAN ELSE {TRUE},
        seekOk \in IF Fault("seek") THEN BOOLEAN ELSE {TRUE} :
       /\ disk' = IF syncOk THEN <<>> ELSE disk
       /\ handle' = [handle EXCEPT
            !.size = 0,
            !.poisoned = ~seekOk,
            !.cursor_stale = ~seekOk /\ ~handle.append_mode /\ file \o buf # <<>>,
            !.pending = IF syncOk /\ seekOk THEN None ELSE @]
  /\ file' = <<>> /\ buf' = <<>> /\ stable' = 0
  /\ acked' = {} /\ appended' = {} /\ exposed' = {}
  /\ UNCHANGED <<recovery, report, evidence, archive, clock, told, archived, rots, rotations>>

RotatedUnflushed == file
RotatedLog == file \o buf

\* rotate: sync, rename to commitlog.wal.<seconds> (replacing a file of that
\* name), sync the directory, create a new log.
Rotate ==
  /\ handle.open /\ EnsureNotPoisoned /\ recovery = "live"
  /\ rotations < MaxRotate
  /\ rotations' = rotations + 1
  /\ archive' = [t \in DOMAIN archive \cup {clock} |->
                   IF t = clock THEN RotatedLog ELSE archive[t]]
  /\ archived' = archived \cup ((acked \cup appended) \ exposed)
  /\ buf' = <<>> /\ file' = <<>> /\ disk' = <<>> /\ stable' = 0
  /\ handle' = Opened(0, None, FALSE)
  /\ acked' = {} /\ appended' = {} /\ exposed' = {}
  /\ UNCHANGED <<recovery, report, evidence, clock, told, rots>>

\* delete_old: the caller no longer needs this archive.
DeleteOld(t) ==
  /\ t \in DOMAIN archive
  /\ archived' = archived \ {archive[t][i].m : i \in 1 .. Len(archive[t])}
  /\ archive' = [u \in DOMAIN archive \ {t} |-> archive[u]]
  /\ UNCHANGED <<logVars, handle, recovery, report, evidence, clock, appended, acked,
                 exposed, told, rots, rotations>>

-----------------------------------------------------------------------------
(* The environment. *)

Close ==
  /\ InUse
  /\ FlushAndDrop
  /\ UNCHANGED <<disk, stable, report, evidence, archive, clock, acked, exposed,
                 told, archived, rots, rotations>>

Tails == {<<>>} \cup {<<Fragment(k)>> : k \in FragmentKinds}

\* A killed process loses its buffer, of which a part may have been written.
Kill ==
  /\ handle.open
  /\ \E n \in 0 .. Len(buf) : \E tail \in Tails :
       /\ tail # <<>> => n < Len(buf)
       /\ file' = file \o SubSeq(buf, 1, n) \o tail
  /\ Drop
  /\ UNCHANGED <<disk, stable, report, evidence, archive, clock, acked, exposed,
                 told, archived, rots, rotations>>

\* What stable storage may hold after a power loss: the last synced contents, or
\* the current file cut anywhere behind its stable part, mid-segment included.
PowerLossImages ==
  {disk} \cup {SubSeq(file, 1, n) \o tail : n \in stable .. Len(file), tail \in Tails}

PowerLoss ==
  /\ recovery # "absent"
  /\ \E image \in PowerLossImages :
       /\ Len(image) <= MaxLen + 1
       /\ file' = image /\ disk' = image /\ stable' = Len(image)
  /\ Drop
  /\ UNCHANGED <<report, evidence, archive, clock, acked, exposed, told, archived, rots,
                 rotations>>

\* The medium, or an older writer, leaves an entry no reader decodes.
Rot ==
  /\ recovery = "down" /\ disk = file
  /\ rots < MaxRot
  /\ rots' = rots + 1
  /\ \E i \in 1 .. Len(file), k \in RotKinds :
       /\ file[i].kind = "ok"
       /\ file' = [file EXCEPT ![i].kind = k]
       /\ disk' = file'
       /\ exposed' = exposed \cup
            IF k = "undec" THEN {file[i].m} ELSE {file[j].m : j \in i .. Len(file)}
  /\ UNCHANGED <<buf, stable, handle, recovery, report, evidence, archive, clock,
                 appended, acked, told, archived, rotations>>

Tick ==
  /\ clock < MaxClock
  /\ clock' = clock + 1
  /\ UNCHANGED <<logVars, handle, recovery, report, evidence, archive, histVars,
                 rots, rotations>>

Next ==
  \/ Create \/ OpenExisting \/ ReplayEach \/ PreserveCorruptWal \/ ResetToValidPrefix
  \/ \E m \in Mutation : AppendBuffered(m) \/ AppendSpilled(m) \/ AppendFails(m)
  \/ Sync \/ TruncateBeforeMutation \/ Truncate \/ Rotate
  \/ \E t \in DOMAIN archive : DeleteOld(t)
  \/ Close \/ Kill \/ PowerLoss \/ Rot \/ Tick

Spec == Init /\ [][Next]_vars

-----------------------------------------------------------------------------
(* Properties. *)

\* The copies of the log are segment sequences, the stable part lies within the file,
\* and a pending valid prefix is a length.
Typed ==
  /\ buf \in Seq(Segment) /\ file \in Seq(Segment) /\ disk \in Seq(Segment)
  /\ stable \in 0 .. Len(file)
  /\ handle \in Handle /\ handle.pending \in {None} \cup Nat
  /\ recovery \in {"absent", "down", "opened", "lossy", "preserved", "live"}
  /\ report \in [mutations : SUBSET Mutation, corrupt : BOOLEAN, stopped_early : BOOLEAN]
  /\ evidence \subseteq Mutation \cup {NoMutation}
  /\ appended \subseteq Mutation /\ acked \subseteq Mutation
  /\ exposed \subseteq Mutation \cup {NoMutation} /\ told \subseteq Mutation

\* Type invariant: the domains, and size() never counts what the log no longer has,
\* whatever trim, reset, truncate or rotation came before, failed ones included.
TypeOK ==
  /\ Typed
  /\ handle.open => handle.size <= Len(file) + Len(buf)

\* A mutation that append and sync acknowledged is handed back by replay_each
\* whatever crash comes next, unless the medium itself was damaged at or before
\* its entry: no torn tail, corrupt tail, failed truncate, failed reset or
\* poisoned handle can put an acknowledged entry where replay does not reach.
AckedRecoverable == acked \ exposed \subseteq Recovered(disk)

\* A recovery that does not hand back every acknowledged mutation says so: the
\* RecoveryReport of replay_each is clean only when every acknowledged mutation
\* is handed back, or an earlier recovery of the same log has set it aside.
LossReported ==
  [][ReplayEach => (acked \ evidence \subseteq report'.mutations \/ ~IsClean(report'))]_vars

\* mod.rs, above preserve_corrupt_wal: the report is "exposed via `wal_recovery()`
\* so a caller sees the loss pre-truncate": an engine that goes live without an
\* acknowledged mutation says so in its own report, or an earlier one did.
LossSurfaced ==
  [][recovery' = "live" /\ recovery # "live"
       => acked \subseteq report'.mutations \cup told']_vars

\* The bytes of an acknowledged entry are never destroyed by recovery: they stay
\* in the log or in a durable copy preserve_corrupt_wal set aside before the reset.
EvidenceKept ==
  acked \subseteq evidence \cup {disk[i].m : i \in 1 .. Len(disk)}

\* rotate keeps the old log "intact for archival or backup purposes": every
\* acknowledged mutation rotated out, from the file or still from the buffer, is in
\* some archive until delete_old removes it, unless recovery had set it aside before.
ArchivedKept ==
  archived \subseteq evidence \cup
    UNION {{archive[t][i].m : i \in 1 .. Len(archive[t])} : t \in DOMAIN archive}
=============================================================================
