------------------------------ MODULE WalProofs ------------------------------
(***************************************************************************)
(* What holds of the write-ahead log for every set of mutations, every     *)
(* bound and every combination of I/O faults.  The argument rests on how   *)
(* the recoverable entries of a log change when it is extended or cut.     *)
(***************************************************************************)
EXTENDS Wal, SequenceTheorems, WellFoundedInduction, TLAPS

\* A mutation is recovered when some decodable entry of it has only framed
\* segments before it (replay_each never gets past an unframed one).
LEMMA RecoveredElim ==
  ASSUME NEW s, NEW x
  PROVE  x \in Recovered(s) <=>
           \E j \in 1 .. Len(s) : /\ s[j].kind = "ok" /\ s[j].m = x
                                  /\ \A k \in 1 .. j : Framed(s[k])
BY DEF Recovered

\* Every non-empty set of naturals has a least element.
LEMMA LeastNat ==
  ASSUME NEW T, T \subseteq Nat, T # {}
  PROVE  \E x \in T : \A y \in T : x <= y
<1> DEFINE R == OpToRel(<, Nat)
<1>1. IsWellFoundedOn(R, Nat)
  BY NatLessThanWellFounded
<1>2. \E x \in T : \A y \in T : ~(<<y, x>> \in R)
  <2> HIDE DEF R
  <2> QED BY <1>1, WFMin
<1>3. PICK x \in T : \A y \in T : ~(<<y, x>> \in R)
  BY <1>2
<1>4. \A y \in T : ~(y < x)
  <2> SUFFICES ASSUME NEW y \in T, y < x PROVE FALSE
    OBVIOUS
  <2>1. <<y, x>> \in Nat \X Nat
    OBVIOUS
  <2>2. <<y, x>> \in R
    BY <2>1 DEF OpToRel
  <2> QED BY <2>2, <1>3
<1> QED BY <1>4

\* scan_valid_prefix finds the end of the framed prefix.
LEMMA ValidEndProperties ==
  ASSUME NEW s \in Seq(Segment)
  PROVE  /\ ValidEnd(s) \in 0 .. Len(s)
         /\ \A i \in 1 .. ValidEnd(s) : Framed(s[i])
         /\ ValidEnd(s) < Len(s) => ~Framed(s[ValidEnd(s) + 1])
<1> DEFINE Bad == {i \in 1 .. Len(s) : ~Framed(s[i])}
           P(n) == /\ \A i \in 1 .. n : Framed(s[i])
                   /\ n < Len(s) => ~Framed(s[n + 1])
<1>0. Len(s) \in Nat
  OBVIOUS
<1>1. \E n \in 0 .. Len(s) : P(n)
  <2>1. CASE Bad = {}
    <3>1. P(Len(s))
      BY <1>0, <2>1
    <3> QED BY <3>1, <1>0
  <2>2. CASE Bad # {}
    <3>0. Bad \subseteq Nat
      BY <1>0
    <3>1. PICK x \in Bad : \A y \in Bad : x <= y
      <4> HIDE DEF Bad
      <4> QED BY <3>0, <2>2, LeastNat
    <3>2. x \in 1 .. Len(s) /\ ~Framed(s[x])
      BY <3>1
    <3>3. \A i \in 1 .. x - 1 : Framed(s[i])
      BY <1>0, <3>1, <3>2
    <3>4. (x - 1) + 1 = x /\ x - 1 \in 0 .. Len(s)
      BY <1>0, <3>2
    <3>5. P(x - 1)
      BY <3>2, <3>3, <3>4
    <3> HIDE DEF P
    <3> QED BY <3>4, <3>5
  <2> QED BY <2>1, <2>2
<1>2. ValidEnd(s) = CHOOSE n \in 0 .. Len(s) : P(n)
  BY DEF ValidEnd
<1>3. ValidEnd(s) \in 0 .. Len(s) /\ P(ValidEnd(s))
  <2> HIDE DEF P
  <2> QED BY <1>1, <1>2
<1> QED BY <1>3

\* A prefix of a log recovers no more than the log.
LEMMA PrefixRecovered ==
  ASSUME NEW s \in Seq(Segment), NEW t \in Seq(Segment),
         Len(s) <= Len(t), \A i \in 1 .. Len(s) : t[i] = s[i]
  PROVE  Recovered(s) \subseteq Recovered(t)
<1> SUFFICES ASSUME NEW x, x \in Recovered(s) PROVE x \in Recovered(t)
  OBVIOUS
<1>1. PICK j \in 1 .. Len(s) : /\ s[j].kind = "ok" /\ s[j].m = x
                               /\ \A k \in 1 .. j : Framed(s[k])
  BY RecoveredElim
<1>2. /\ j \in 1 .. Len(t) /\ t[j].kind = "ok" /\ t[j].m = x
      /\ \A k \in 1 .. j : Framed(t[k])
  BY <1>1
<1> QED BY <1>2, RecoveredElim

\* Cutting a log at an unframed segment loses nothing that replay reaches.
LEMMA CutRecovered ==
  ASSUME NEW s \in Seq(Segment), NEW t \in Seq(Segment),
         Len(t) <= Len(s), \A i \in 1 .. Len(t) : t[i] = s[i],
         Len(t) < Len(s) => ~Framed(s[Len(t) + 1])
  PROVE  Recovered(s) \subseteq Recovered(t)
<1> SUFFICES ASSUME NEW x, x \in Recovered(s) PROVE x \in Recovered(t)
  OBVIOUS
<1>1. PICK j \in 1 .. Len(s) : /\ s[j].kind = "ok" /\ s[j].m = x
                               /\ \A k \in 1 .. j : Framed(s[k])
  BY RecoveredElim
<1>2. j <= Len(t)
  BY <1>1
<1>3. /\ j \in 1 .. Len(t) /\ t[j].kind = "ok" /\ t[j].m = x
      /\ \A k \in 1 .. j : Framed(t[k])
  BY <1>1, <1>2
<1> QED BY <1>3, RecoveredElim

\* The first n segments of a log.
LEMMA SubSeqOf ==
  ASSUME NEW s \in Seq(Segment), NEW n \in 0 .. Len(s)
  PROVE  /\ SubSeq(s, 1, n) \in Seq(Segment)
         /\ Len(SubSeq(s, 1, n)) = n
         /\ \A i \in 1 .. n : SubSeq(s, 1, n)[i] = s[i]
BY SubSeqProperties, \A i \in 1 .. n : s[i] \in Segment

\* What a whole log recovers are mutations.
LEMMA RecoveredType ==
  ASSUME NEW s \in Seq(Segment)
  PROVE  Recovered(s) \subseteq Mutation
<1> SUFFICES ASSUME NEW x, x \in Recovered(s) PROVE x \in Mutation
  OBVIOUS
<1>1. PICK j \in 1 .. Len(s) : s[j].kind = "ok" /\ s[j].m = x
  BY RecoveredElim
<1>2. s[j] \in Segment
  OBVIOUS
<1> QED BY <1>1, <1>2 DEF Segment, FragmentKinds

-----------------------------------------------------------------------------
(* Type correctness. *)

\* What the constructors of segments build.
LEMMA SegmentTypes ==
  /\ \A m \in Mutation : Entry(m) \in Segment
  /\ \A k \in FragmentKinds \cup {"hole"} : Fragment(k) \in Segment
  /\ \A seg \in Segment : seg.m \in Mutation \cup {NoMutation}
  /\ \A seg \in Segment, k \in RotKinds :
        seg.kind = "ok" => [seg EXCEPT !.kind = k] \in Segment
BY DEF Segment, Entry, Fragment, FragmentKinds, RotKinds

\* The fragments a crash may leave behind are segments.
LEMMA TailsType == \A tail \in Tails : tail \in Seq(Segment)
<1>1. \A k \in FragmentKinds : <<Fragment(k)>> \in Seq(Segment)
  BY SegmentTypes
<1>2. <<>> \in Seq(Segment)
  OBVIOUS
<1>3. ASSUME NEW tail \in Tails
      PROVE  tail = <<>> \/ \E k \in FragmentKinds : tail = <<Fragment(k)>>
  BY DEF Tails
<1> QED BY <1>1, <1>2, <1>3

\* A closed handle is a handle without a pending corrupt tail.
LEMMA ClosedType == Closed \in Handle /\ Closed.pending = None
BY DEF Handle, Closed, None

\* What create and open_existing return is a handle.
LEMMA OpenedType ==
  ASSUME NEW n \in Nat, NEW p \in {None} \cup Nat, NEW a \in BOOLEAN
  PROVE  Opened(n, p, a) \in Handle /\ Opened(n, p, a).pending = p
BY DEF Handle, Opened, None

LogType ==
  /\ buf \in Seq(Segment) /\ file \in Seq(Segment) /\ disk \in Seq(Segment)
  /\ stable \in 0 .. Len(file)
HandleType == handle \in Handle /\ handle.pending \in {None} \cup Nat
RestType ==
  /\ recovery \in {"absent", "down", "opened", "lossy", "preserved", "live"}
  /\ report \in [mutations : SUBSET Mutation, corrupt : BOOLEAN, stopped_early : BOOLEAN]
  /\ evidence \subseteq Mutation \cup {NoMutation}
  /\ appended \subseteq Mutation /\ acked \subseteq Mutation
  /\ exposed \subseteq Mutation \cup {NoMutation} /\ told \subseteq Mutation

\* The type invariant, by the part of the state it is about.
LEMMA TypedParts == Typed <=> LogType /\ HandleType /\ RestType
BY DEF Typed, LogType, HandleType, RestType

\* Extending the log keeps its type.
LEMMA LogGrows ==
  ASSUME NEW s \in Seq(Segment), NEW t \in Seq(Segment)
  PROVE  /\ s \o t \in Seq(Segment) /\ Len(s \o t) = Len(s) + Len(t)
         /\ \A i \in 1 .. Len(s) : (s \o t)[i] = s[i]
         /\ \A i \in 1 .. Len(t) : (s \o t)[Len(s) + i] = t[i]
<1>1. /\ s \o t \in Seq(Segment) /\ Len(s \o t) = Len(s) + Len(t)
      /\ \A i \in 1 .. Len(s) + Len(t) :
            (s \o t)[i] = IF i <= Len(s) THEN s[i] ELSE t[i - Len(s)]
  BY ConcatProperties
<1> QED BY <1>1

\* A flush that stops half way leaves two logs of segments, no shorter than before.
LEMMA PartialFlushType ==
  ASSUME LogType, NEW n \in 0 .. Len(buf) - 1, PartialFlush(n)
  PROVE  /\ file' \in Seq(Segment) /\ buf' \in Seq(Segment)
         /\ Len(file') = Len(file) + n
         /\ file' \o buf' = file \o buf
         /\ \A i \in 1 .. Len(file) : file'[i] = file[i]
<1>1. SubSeq(buf, 1, n) \in Seq(Segment) /\ Len(SubSeq(buf, 1, n)) = n
      /\ \A i \in 1 .. n : SubSeq(buf, 1, n)[i] = buf[i]
  BY SubSeqOf DEF LogType
<1>2. /\ SubSeq(buf, n + 1, Len(buf)) \in Seq(Segment)
      /\ Len(SubSeq(buf, n + 1, Len(buf))) = Len(buf) - n
      /\ \A i \in 1 .. Len(buf) - n : SubSeq(buf, n + 1, Len(buf))[i] = buf[n + i]
  <2>1. \A i \in n + 1 .. Len(buf) : buf[i] \in Segment
    BY DEF LogType
  <2>2. n + 1 \in Int /\ Len(buf) \in Int
    BY DEF LogType
  <2> QED BY <2>1, <2>2, SubSeqProperties
<1>3. /\ file' \in Seq(Segment) /\ Len(file') = Len(file) + n
      /\ \A i \in 1 .. Len(file) : file'[i] = file[i]
      /\ \A i \in 1 .. n : file'[Len(file) + i] = buf[i]
  BY <1>1, LogGrows DEF LogType, PartialFlush
<1>4. buf' \in Seq(Segment) /\ Len(buf') = Len(buf) - n
      /\ \A i \in 1 .. Len(buf) - n : buf'[i] = buf[n + i]
  BY <1>2 DEF PartialFlush
<1>5. file' \o buf' = file \o buf
  <2> DEFINE f == file'
             b == buf'
  <2>0. f \in Seq(Segment) /\ b \in Seq(Segment)
    BY <1>3, <1>4
  <2> file \in Seq(Segment) /\ buf \in Seq(Segment)
    BY DEF LogType
  <2>1. /\ f \o b \in Seq(Segment) /\ Len(f \o b) = Len(f) + Len(b)
        /\ \A i \in 1 .. Len(f) + Len(b) :
              (f \o b)[i] = IF i <= Len(f) THEN f[i] ELSE b[i - Len(f)]
    <3> HIDE DEF f, b
    <3> QED BY <2>0, ConcatProperties
  <2>2. /\ file \o buf \in Seq(Segment) /\ Len(file \o buf) = Len(file) + Len(buf)
        /\ \A i \in 1 .. Len(file) + Len(buf) :
              (file \o buf)[i] = IF i <= Len(file) THEN file[i] ELSE buf[i - Len(file)]
    BY ConcatProperties
  <2>3. Len(f) = Len(file) + n /\ Len(b) = Len(buf) - n
    BY <1>3, <1>4
  <2>4. \A i \in 1 .. Len(file) : f[i] = file[i]
    BY <1>3
  <2>5. \A i \in 1 .. n : f[Len(file) + i] = buf[i]
    BY <1>3
  <2>6. \A i \in 1 .. Len(buf) - n : b[i] = buf[n + i]
    BY <1>4
  <2> HIDE DEF f, b
  <2>7. ASSUME NEW i \in 1 .. Len(f \o b) PROVE (f \o b)[i] = (file \o buf)[i]
    <3>1. CASE i <= Len(file)
      BY <3>1, <2>1, <2>2, <2>3, <2>4
    <3>2. CASE i > Len(file) /\ i <= Len(f)
      <4>1. (f \o b)[i] = f[i] /\ (file \o buf)[i] = buf[i - Len(file)]
        BY <3>2, <2>1, <2>2, <2>3
      <4>2. i - Len(file) \in 1 .. n /\ Len(file) + (i - Len(file)) = i
        BY <3>2, <2>1, <2>3
      <4> QED BY <4>1, <4>2, <2>5
    <3>3. CASE i > Len(f)
      <4>0. i \in 1 .. Len(f) + Len(b) /\ i \in 1 .. Len(file) + Len(buf)
            /\ ~(i <= Len(f)) /\ ~(i <= Len(file))
        BY <3>3, <2>1, <2>3
      <4>3. (f \o b)[i] = b[i - Len(f)]
        BY <4>0, <2>1
      <4>4. (file \o buf)[i] = buf[i - Len(file)]
        BY <4>0, <2>2
      <4>1. (f \o b)[i] = b[i - Len(f)] /\ (file \o buf)[i] = buf[i - Len(file)]
        BY <4>3, <4>4
      <4>2. i - Len(f) \in 1 .. Len(buf) - n /\ n + (i - Len(f)) = i - Len(file)
        BY <3>3, <2>1, <2>3
      <4> QED BY <4>1, <4>2, <2>6
    <3>4. i \in Int /\ Len(file) \in Int /\ Len(f) \in Int
      BY <2>0, <2>1
    <3>5. i <= Len(file) \/ (i > Len(file) /\ i <= Len(f)) \/ i > Len(f)
      BY <3>4
    <3> QED BY <3>1, <3>2, <3>3, <3>5
  <2>8. Len(f \o b) = Len(file \o buf)
    BY <2>1, <2>2, <2>3
  <2>9. f \o b = file \o buf
    BY <2>1, <2>2, <2>7, <2>8, SeqEqual
  <2> QED BY <2>9 DEF f, b
<1> QED BY <1>3, <1>4, <1>5

\* A flushed buffer leaves the file a log of segments.
LEMMA BufferFlushed ==
  ASSUME LogType
  PROVE  /\ file \o buf \in Seq(Segment) /\ Len(file \o buf) = Len(file) + Len(buf)
         /\ \A i \in 1 .. Len(file) : (file \o buf)[i] = file[i]
BY LogGrows DEF LogType

\* The log starts well typed.
LEMMA TypedInit == Init => Typed
BY ClosedType DEF Init, Typed, NoReport

\* Every operation keeps the types.
LEMMA TypedStep ==
  ASSUME Typed, [Next]_vars
  PROVE  Typed'
<1> LogType /\ HandleType /\ RestType
  BY TypedParts
<1> SUFFICES LogType' /\ HandleType' /\ RestType'
  BY TypedParts DEF Typed, LogType, HandleType, RestType
<1>1. CASE Create
  <2>1. HandleType'
    <3>1. handle' = Opened(0, None, FALSE)
      BY <1>1 DEF Create
    <3> QED BY <3>1, OpenedType DEF HandleType
  <2> QED BY <1>1, <2>1 DEF LogType, RestType, Create, NoReport, logVars, histVars
<1>2. CASE OpenExisting
  <2>1. /\ ValidEnd(file) \in 0 .. Len(file)
        /\ SubSeq(file, 1, ValidEnd(file)) \in Seq(Segment)
        /\ Len(SubSeq(file, 1, ValidEnd(file))) = ValidEnd(file)
    BY ValidEndProperties, SubSeqOf DEF LogType
  <2>2. LogType'
    <3>1. file' \in {file, SubSeq(file, 1, ValidEnd(file))} /\ buf' = buf
      BY <1>2 DEF OpenExisting
    <3>2. \/ file' = file /\ disk' = disk /\ stable' = stable
          \/ disk' = file' /\ stable' = Len(file')
          \/ /\ file' = SubSeq(file, 1, ValidEnd(file)) /\ disk' = disk
             /\ stable' = StableAfterCut(ValidEnd(file))
      BY <1>2 DEF OpenExisting
    <3>3. CASE file' = file /\ disk' = disk /\ stable' = stable
      BY <3>1, <3>3 DEF LogType
    <3>4. CASE disk' = file' /\ stable' = Len(file')
      BY <2>1, <3>1, <3>4 DEF LogType
    <3>5. CASE /\ file' = SubSeq(file, 1, ValidEnd(file)) /\ disk' = disk
               /\ stable' = StableAfterCut(ValidEnd(file))
      BY <2>1, <3>1, <3>5 DEF LogType, StableAfterCut
    <3> QED BY <3>2, <3>3, <3>4, <3>5
  <2>3. HandleType'
    <3>1. \/ handle' = handle
          \/ \E n \in Nat, p \in {None} \cup Nat : handle' = Opened(n, p, TRUE)
      <4> DEFINE kept == IF WalStop(file) = "TornTail" THEN SubSeq(file, 1, ValidEnd(file)) ELSE file
                 pend == IF WalStop(file) = "Corruption" THEN ValidEnd(file) ELSE None
      <4>1. handle' = handle \/ handle' = Opened(Len(kept), pend, TRUE)
        BY <1>2 DEF OpenExisting
      <4>2. Len(kept) \in Nat /\ pend \in {None} \cup Nat
        BY <2>1 DEF LogType
      <4> HIDE DEF kept, pend
      <4> QED BY <4>1, <4>2
    <3> QED BY <3>1, OpenedType DEF HandleType
  <2> QED BY <1>2, <2>2, <2>3 DEF RestType, OpenExisting, histVars
<1>3. CASE ReplayEach
  <2>1. Recovered(file) \subseteq Mutation
    BY RecoveredType DEF LogType
  <2>2. report' \in [mutations : SUBSET Mutation, corrupt : BOOLEAN, stopped_early : BOOLEAN]
    BY <1>3, <2>1 DEF ReplayEach, RecoveryReport
  <2> QED BY <1>3, <2>2
          DEF LogType, HandleType, RestType, ReplayEach, AfterReplay, logVars, histVars
<1>4. CASE PreserveCorruptWal
  <2>1. LogType'
    <3>1. /\ \/ file' = file /\ buf' = buf
             \/ file' = file \o buf /\ buf' = <<>>
          /\ disk' = disk /\ stable' = stable
      BY <1>4 DEF PreserveCorruptWal, Drop, FlushAndDrop
    <3>2. CASE file' = file /\ buf' = buf
      BY <3>1, <3>2 DEF LogType
    <3>3. CASE file' = file \o buf /\ buf' = <<>>
      BY <3>1, <3>3, BufferFlushed DEF LogType
    <3> QED BY <3>1, <3>2, <3>3
  <2>2. HandleType'
    BY <1>4, ClosedType DEF HandleType, PreserveCorruptWal, Drop, FlushAndDrop
  <2>3. {file[i].m : i \in 1 .. Len(file)} \subseteq Mutation \cup {NoMutation}
    BY SegmentTypes DEF LogType
  <2> QED BY <1>4, <2>1, <2>2, <2>3 DEF RestType, PreserveCorruptWal, Drop, FlushAndDrop
<1>5. CASE ResetToValidPrefix
  <2>1. HasPendingCorruptTail /\ handle.pending < Len(file)
          => /\ handle.pending \in 0 .. Len(file)
             /\ SubSeq(file, 1, handle.pending) \in Seq(Segment)
             /\ Len(SubSeq(file, 1, handle.pending)) = handle.pending
    BY SubSeqOf DEF LogType, HandleType, HasPendingCorruptTail
  <2> DEFINE trims == HasPendingCorruptTail /\ handle.pending < Len(file)
             kept == SubSeq(file, 1, handle.pending)
  <2>2. LogType'
    <3>1. \/ UNCHANGED logVars
          \/ trims /\ file' = kept /\ disk' = kept /\ stable' = handle.pending /\ buf' = buf
          \/ trims /\ file' = file /\ disk' = disk /\ stable' = stable /\ buf' = <<>>
          \/ /\ trims /\ file' = kept /\ disk' = disk /\ buf' = <<>>
             /\ stable' = StableAfterCut(handle.pending)
      BY <1>5 DEF ResetToValidPrefix, Drop
    <3>2. CASE UNCHANGED logVars
      BY <3>2 DEF LogType, logVars
    <3>3. CASE trims /\ file' = kept /\ disk' = kept /\ stable' = handle.pending /\ buf' = buf
      BY <2>1, <3>3 DEF LogType
    <3>4. CASE trims /\ file' = file /\ disk' = disk /\ stable' = stable /\ buf' = <<>>
      BY <3>4 DEF LogType
    <3>5. CASE /\ trims /\ file' = kept /\ disk' = disk /\ buf' = <<>>
               /\ stable' = StableAfterCut(handle.pending)
      BY <2>1, <3>5 DEF LogType, StableAfterCut
    <3> QED BY <3>1, <3>2, <3>3, <3>4, <3>5
  <2>3. HandleType'
    <3>1. \/ handle' \in {handle, Closed}
          \/ handle' = [handle EXCEPT !.size = Len(file), !.pending = None]
          \/ trims /\ handle' = [handle EXCEPT !.size = handle.pending, !.pending = None]
      BY <1>5 DEF ResetToValidPrefix, Drop
    <3>2. Len(file) \in Nat /\ (trims => handle.pending \in Nat)
      BY <2>1 DEF LogType
    <3> HIDE DEF trims
    <3> QED BY <3>1, <3>2, ClosedType DEF HandleType, Handle, None
  <2>4. RestType'
    BY <1>5 DEF RestType, ResetToValidPrefix, Drop
  <2> QED BY <2>2, <2>3, <2>4
<1>6. ASSUME NEW m \in Mutation, AppendBuffered(m) \/ AppendSpilled(m) \/ AppendFails(m)
      PROVE  LogType' /\ HandleType' /\ RestType'
  <2>1. AtCursor(<<Entry(m)>>) \in Seq(Segment) /\ <<Fragment("short")>> \in Seq(Segment)
    BY SegmentTypes DEF AtCursor, FragmentKinds
  <2>2. LogType'
    <3>1. CASE AppendBuffered(m)
      BY <3>1, <2>1, LogGrows DEF LogType, AppendBuffered
    <3>2. ASSUME NEW t \in Seq(Segment)
          PROVE  file \o buf \o t \in Seq(Segment) /\ Len(file) <= Len(file \o buf \o t)
      BY <3>2, BufferFlushed, LogGrows DEF LogType
    <3>3. CASE AppendSpilled(m)
      <4>1. file' = file \o buf \o AtCursor(<<Entry(m)>>) /\ UNCHANGED <<disk, stable>>
            /\ buf' = <<>>
        BY <3>3 DEF AppendSpilled
      <4> QED BY <4>1, <2>1, <3>2 DEF LogType
    <3>4. CASE AppendFails(m)
      <4>1. \/ file' = file \o buf \o <<Fragment("short")>> /\ buf' = <<>>
            \/ file' = file /\ buf' = buf \o <<Fragment("short")>>
        BY <3>4 DEF AppendFails
      <4>2. UNCHANGED <<disk, stable>>
        BY <3>4 DEF AppendFails
      <4>3. buf \o <<Fragment("short")>> \in Seq(Segment)
        BY <2>1, LogGrows DEF LogType
      <4>4. CASE file' = file \o buf \o <<Fragment("short")>> /\ buf' = <<>>
        BY <4>2, <4>4, <2>1, <3>2 DEF LogType
      <4>5. CASE file' = file /\ buf' = buf \o <<Fragment("short")>>
        BY <4>2, <4>3, <4>5 DEF LogType
      <4> QED BY <4>1, <4>4, <4>5
    <3> QED BY <3>1, <3>3, <3>4, <1>6
  <2>3. HandleType'
    BY <1>6 DEF HandleType, AppendBuffered, AppendSpilled, AppendFails, Handle
  <2> QED BY <1>6, <2>2, <2>3 DEF RestType, AppendBuffered, AppendSpilled, AppendFails, histVars
<1>7. CASE Sync
  <2>1. LogType'
    <3>1. \/ file' = file \o buf /\ buf' = <<>> /\ disk' = file' /\ stable' = Len(file')
          \/ file' = file \o buf /\ buf' = <<>> /\ UNCHANGED <<disk, stable>>
          \/ /\ \E n \in 0 .. Len(buf) - 1 : PartialFlush(n)
             /\ UNCHANGED <<disk, stable>>
      BY <1>7 DEF Sync
    <3>2. CASE /\ file' = file \o buf /\ buf' = <<>>
               /\ \/ disk' = file' /\ stable' = Len(file')
                  \/ UNCHANGED <<disk, stable>>
      <4>1. file' \in Seq(Segment) /\ Len(file) <= Len(file') /\ Len(file') \in Nat
        BY <3>2, BufferFlushed DEF LogType
      <4>2. CASE disk' = file' /\ stable' = Len(file')
        BY <3>2, <4>1, <4>2 DEF LogType
      <4>3. CASE disk' = disk /\ stable' = stable
        BY <3>2, <4>1, <4>3 DEF LogType
      <4> QED BY <3>2, <4>2, <4>3
    <3>3. ASSUME NEW n \in 0 .. Len(buf) - 1, PartialFlush(n), UNCHANGED <<disk, stable>>
          PROVE  LogType'
      BY <3>3, PartialFlushType DEF LogType
    <3> QED BY <3>1, <3>2, <3>3
  <2> QED BY <1>7, <2>1 DEF HandleType, RestType, Sync
<1>8. CASE TruncateBeforeMutation
  <2>1. LogType'
    <3>1. /\ \/ file' = file \o buf /\ buf' = <<>>
             \/ \E n \in 0 .. Len(buf) - 1 : PartialFlush(n)
          /\ UNCHANGED <<disk, stable>>
      BY <1>8 DEF TruncateBeforeMutation
    <3>2. CASE file' = file \o buf /\ buf' = <<>>
      BY <3>1, <3>2, BufferFlushed DEF LogType
    <3>3. ASSUME NEW n \in 0 .. Len(buf) - 1, PartialFlush(n), UNCHANGED <<disk, stable>>
          PROVE  LogType'
      BY <3>3, PartialFlushType DEF LogType
    <3> QED BY <3>1, <3>2, <3>3
  <2> QED BY <1>8, <2>1 DEF HandleType, RestType, TruncateBeforeMutation, histVars
<1>9. CASE Truncate
  <2>1. LogType'
    BY <1>9 DEF LogType, Truncate
  <2>2. HandleType'
    <3>1. PICK p \in BOOLEAN, c \in BOOLEAN, g \in {None, handle.pending} :
            handle' = [handle EXCEPT !.size = 0, !.poisoned = p, !.cursor_stale = c, !.pending = g]
      BY <1>9 DEF Truncate
    <3>2. g \in {None} \cup Nat /\ g \in Int
      BY DEF HandleType, None
    <3>3. handle' \in Handle
      BY <3>1, <3>2 DEF HandleType, Handle
    <3>4. handle'.pending = g
      BY <3>1 DEF HandleType, Handle
    <3> QED BY <3>2, <3>3, <3>4 DEF HandleType
  <2> QED BY <1>9, <2>1, <2>2 DEF RestType, Truncate
<1>10. CASE Rotate
  <2>1. HandleType'
    <3>1. handle' = Opened(0, None, FALSE)
      BY <1>10 DEF Rotate
    <3> QED BY <3>1, OpenedType DEF HandleType
  <2> QED BY <1>10, <2>1 DEF LogType, RestType, Rotate
<1>11. ASSUME NEW t \in DOMAIN archive, DeleteOld(t)
       PROVE  LogType' /\ HandleType' /\ RestType'
  BY <1>11 DEF LogType, HandleType, RestType, DeleteOld, logVars
<1>12. CASE Close
  <2>1. /\ file' = file \o buf /\ buf' = <<>> /\ UNCHANGED <<disk, stable>>
        /\ handle' = Closed
    BY <1>12 DEF Close, Drop, FlushAndDrop
  <2>2. LogType'
    BY <2>1, BufferFlushed DEF LogType
  <2> QED BY <1>12, <2>1, <2>2, ClosedType DEF HandleType, RestType, Close, Drop, FlushAndDrop
<1>13. CASE Kill
  <2>1. LogType'
    <3>1. PICK n \in 0 .. Len(buf), tail \in Tails :
             file' = file \o SubSeq(buf, 1, n) \o tail
      BY <1>13 DEF Kill
    <3>2. SubSeq(buf, 1, n) \in Seq(Segment) /\ tail \in Seq(Segment)
      BY SubSeqOf, TailsType DEF LogType
    <3>3. /\ file \o SubSeq(buf, 1, n) \in Seq(Segment)
          /\ Len(file) <= Len(file \o SubSeq(buf, 1, n))
      BY <3>2, LogGrows DEF LogType
    <3>4. file' \in Seq(Segment) /\ Len(file) <= Len(file')
      <4> DEFINE f == file \o SubSeq(buf, 1, n)
      <4>1. f \o tail \in Seq(Segment) /\ Len(f \o tail) = Len(f) + Len(tail)
        <5> HIDE DEF f
        <5> QED BY <3>2, <3>3, LogGrows DEF f
      <4>2. Len(f) \in Nat /\ Len(tail) \in Nat /\ Len(file) \in Nat
        BY <3>2, <3>3 DEF LogType
      <4> QED BY <3>1, <3>3, <4>1, <4>2
    <3> QED BY <1>13, <3>4 DEF LogType, Kill, Drop
  <2> QED BY <1>13, <2>1, ClosedType DEF HandleType, RestType, Kill, Drop
<1>14. CASE PowerLoss
  <2>1. \A image \in PowerLossImages : image \in Seq(Segment)
    <3>1. \A n \in stable .. Len(file), tail \in Tails : SubSeq(file, 1, n) \o tail \in Seq(Segment)
      <4> TAKE n \in stable .. Len(file), tail \in Tails
      <4>1. SubSeq(file, 1, n) \in Seq(Segment) /\ tail \in Seq(Segment)
        BY SubSeqOf, TailsType DEF LogType
      <4> QED BY <4>1, LogGrows
    <3>2. ASSUME NEW image \in PowerLossImages
          PROVE  \/ image = disk
                 \/ \E n \in stable .. Len(file), tail \in Tails : image = SubSeq(file, 1, n) \o tail
      BY DEF PowerLossImages
    <3> QED BY <3>1, <3>2 DEF LogType
  <2>2. LogType'
    BY <1>14, <2>1 DEF LogType, PowerLoss, Drop
  <2> QED BY <1>14, <2>2, ClosedType DEF HandleType, RestType, PowerLoss, Drop
<1>15. CASE Rot
  <2>1. PICK i \in 1 .. Len(file), k \in RotKinds :
          /\ file[i].kind = "ok" /\ file' = [file EXCEPT ![i].kind = k] /\ disk' = file'
          /\ exposed' = exposed \cup
               IF k = "undec" THEN {file[i].m} ELSE {file[j].m : j \in i .. Len(file)}
    BY <1>15 DEF Rot
  <2>2. [file[i] EXCEPT !.kind = k] \in Segment
    BY <2>1, SegmentTypes DEF LogType
  <2>3. file' \in Seq(Segment) /\ Len(file') = Len(file)
    BY <2>1, <2>2, ExceptSeq DEF LogType
  <2>4. exposed' \subseteq Mutation \cup {NoMutation}
    BY <2>1, SegmentTypes DEF LogType, RestType
  <2> QED BY <1>15, <2>1, <2>3, <2>4 DEF LogType, HandleType, RestType, Rot
<1>16. CASE Tick
  BY <1>16 DEF LogType, HandleType, RestType, Tick, logVars, histVars
<1>17. CASE UNCHANGED vars
  BY <1>17 DEF LogType, HandleType, RestType, vars, logVars, histVars
<1> QED BY <1>1, <1>2, <1>3, <1>4, <1>5, <1>6, <1>7, <1>8, <1>9, <1>10, <1>11, <1>12,
           <1>13, <1>14, <1>15, <1>16, <1>17 DEF Next

\* The size a handle reports lies within the log, and a log that is down has none.
SizeHeld ==
  /\ handle.open => handle.size <= Len(file) + Len(buf)
  /\ recovery \in {"absent", "down"} => ~handle.open

LEMMA SizeStep ==
  ASSUME Typed, SizeHeld, [Next]_vars
  PROVE  SizeHeld'
<1> LogType /\ HandleType
  BY TypedParts
<1>0. /\ file \in Seq(Segment) /\ buf \in Seq(Segment) /\ Len(file) \in Nat /\ Len(buf) \in Nat
      /\ handle.size \in Nat
  BY DEF LogType, HandleType, Handle
<1>c. CASE Drop
  BY <1>c DEF SizeHeld, Drop, Closed
<1>1. CASE Create \/ Rotate
  <2>1. handle' = Opened(0, None, FALSE) /\ Len(file') \in Nat /\ Len(buf') \in Nat /\ recovery' = "live"
    BY <1>0, <1>1 DEF Create, Rotate, logVars
  <2> QED BY <2>1 DEF SizeHeld, Opened
<1>2. CASE OpenExisting
  <2>1. /\ ValidEnd(file) \in 0 .. Len(file)
        /\ Len(SubSeq(file, 1, ValidEnd(file))) = ValidEnd(file)
    BY ValidEndProperties, SubSeqOf DEF LogType
  <2>2. CASE handle' = handle /\ recovery' = recovery
    <3>1. recovery = "down"
      BY <1>2 DEF OpenExisting
    <3> QED BY <2>2, <3>1 DEF SizeHeld
  <2>3. CASE recovery' = "opened"
    <3> DEFINE kept == IF WalStop(file) = "TornTail" THEN SubSeq(file, 1, ValidEnd(file)) ELSE file
               guard == IF WalStop(file) = "Corruption" THEN ValidEnd(file) ELSE None
    <3>1. file' = kept /\ buf' = buf /\ handle' = Opened(Len(kept), guard, TRUE)
      BY <1>2, <2>3 DEF OpenExisting
    <3>2. Len(kept) \in Nat
      BY <1>0, <2>1
    <3> HIDE DEF kept, guard
    <3> QED BY <1>0, <2>3, <3>1, <3>2 DEF SizeHeld, Opened
  <2> QED BY <1>2, <2>2, <2>3 DEF OpenExisting
<1>3. CASE UNCHANGED <<handle, file, buf>> /\ recovery' \notin {"absent", "down"}
  BY <1>3 DEF SizeHeld
<1>4. CASE UNCHANGED <<handle, recovery, buf>> /\ Len(file') = Len(file)
  BY <1>4 DEF SizeHeld
<1>5. CASE ReplayEach \/ PreserveCorruptWal
  BY <1>c, <1>3, <1>5 DEF ReplayEach, AfterReplay, PreserveCorruptWal, FlushAndDrop, logVars
<1>6. CASE ResetToValidPrefix
  <2>0. handle.pending \in {None} \cup Nat /\ handle \in Handle
    BY DEF HandleType
  <2>1. CASE /\ recovery' = "live" /\ file' = file /\ buf' = buf
             /\ handle' = IF HasPendingCorruptTail
                          THEN [handle EXCEPT !.size = Len(file), !.pending = None]
                          ELSE handle
    <3>1. handle' = handle \/ handle'.size = Len(file)
      BY <2>0, <2>1 DEF Handle
    <3> QED BY <1>0, <2>1, <3>1 DEF SizeHeld
  <2>2. CASE HasPendingCorruptTail /\ handle.pending < Len(file) /\ recovery' = "live"
             /\ file' = SubSeq(file, 1, handle.pending) /\ buf' = buf
             /\ handle' = [handle EXCEPT !.size = handle.pending, !.pending = None]
    <3>1. handle.pending \in 0 .. Len(file)
      BY <1>0, <2>0, <2>2 DEF HasPendingCorruptTail
    <3>2. Len(file') = handle.pending
      BY <1>0, <2>2, <3>1, SubSeqOf
    <3>3. handle'.size = handle.pending
      BY <2>0, <2>2 DEF Handle
    <3> QED BY <1>0, <2>2, <3>1, <3>2, <3>3 DEF SizeHeld
  <2> QED BY <1>6, <1>c, <2>1, <2>2 DEF ResetToValidPrefix, logVars
<1>7. CASE \E m \in Mutation : AppendBuffered(m) \/ AppendSpilled(m)
  <2>1. PICK m \in Mutation : AppendBuffered(m) \/ AppendSpilled(m)
    BY <1>7
  <2> DEFINE new == AtCursor(<<Entry(m)>>)
  <2>2. new \in Seq(Segment) /\ Len(new) >= 1 /\ Len(new) \in Nat
    BY SegmentTypes DEF AtCursor
  <2>3. Len(file') + Len(buf') = Len(file) + Len(buf) + Len(new)
    <3> HIDE DEF new
    <3>1. CASE file' = file /\ buf' = buf \o new
      BY <1>0, <2>2, <3>1
    <3>2. CASE file' = file \o buf \o new /\ buf' = <<>>
      BY <1>0, <2>2, <3>2
    <3> QED BY <2>1, <3>1, <3>2 DEF AppendBuffered, AppendSpilled, new
  <2>4. handle' = [handle EXCEPT !.size = @ + 1] /\ recovery' = recovery
    BY <2>1 DEF AppendBuffered, AppendSpilled
  <2>5. handle'.size = handle.size + 1 /\ handle'.open = handle.open
    BY <2>4 DEF HandleType, Handle
  <2> HIDE DEF new
  <2>6. Len(file') + Len(buf') >= Len(file) + Len(buf) + 1
    BY <1>0, <2>2, <2>3
  <2> QED BY <1>0, <2>4, <2>5, <2>6 DEF SizeHeld
<1>8. ASSUME UNCHANGED <<handle, recovery>>, Len(file') + Len(buf') >= Len(file) + Len(buf)
      PROVE  SizeHeld'
  <2>1. handle.open => handle.size <= Len(file') + Len(buf')
    BY <1>0, <1>8 DEF SizeHeld
  <2> QED BY <1>8, <2>1 DEF SizeHeld
<1>9. CASE \E m \in Mutation : AppendFails(m)
  <2>1. /\ UNCHANGED <<handle, recovery>>
        /\ \/ buf' = buf \o <<Fragment("short")>> /\ file' = file
           \/ file' = file \o buf \o <<Fragment("short")>> /\ buf' = <<>>
    BY <1>9 DEF AppendFails
  <2>2. Fragment("short") \in Segment
    BY SegmentTypes DEF FragmentKinds
  <2>3. Len(file') + Len(buf') >= Len(file) + Len(buf)
    <3> DEFINE new == <<Fragment("short")>>
    <3>1. new \in Seq(Segment) /\ Len(new) = 1
      BY <2>2
    <3> HIDE DEF new
    <3>2. CASE buf' = buf \o new /\ file' = file
      BY <1>0, <3>1, <3>2
    <3>3. CASE file' = file \o buf \o new /\ buf' = <<>>
      BY <1>0, <3>1, <3>3
    <3> QED BY <2>1, <3>2, <3>3 DEF new
  <2> QED BY <1>8, <2>1, <2>3
<1>10. ASSUME file' = file \o buf, buf' = <<>> PROVE Len(file') + Len(buf') = Len(file) + Len(buf)
  BY <1>0, <1>10
<1>11. ASSUME NEW n \in 0 .. Len(buf) - 1, PartialFlush(n)
       PROVE  Len(file') + Len(buf') = Len(file) + Len(buf)
  <2>1. Len(SubSeq(buf, 1, n)) = n /\ SubSeq(buf, 1, n) \in Seq(Segment)
    BY <1>0, SubSeqOf
  <2>2. Len(SubSeq(buf, n + 1, Len(buf))) = Len(buf) - n
    BY <1>0
  <2>3. Len(file \o SubSeq(buf, 1, n)) = Len(file) + n
    BY <1>0, <2>1
  <2>4. Len(file') = Len(file) + n /\ Len(buf') = Len(buf) - n
    BY <1>11, <2>2, <2>3 DEF PartialFlush
  <2> QED BY <1>0, <2>4
<1>12. CASE Sync \/ TruncateBeforeMutation
  <2>1. UNCHANGED <<handle, recovery>>
    BY <1>12 DEF Sync, TruncateBeforeMutation
  <2>2. \/ file' = file \o buf /\ buf' = <<>>
        \/ \E n \in 0 .. Len(buf) - 1 : PartialFlush(n)
    BY <1>12 DEF Sync, TruncateBeforeMutation
  <2>3. Len(file') + Len(buf') = Len(file) + Len(buf)
    BY <1>10, <1>11, <2>2
  <2> QED BY <1>0, <1>8, <2>1, <2>3
<1>13. CASE Truncate
  <2>1. handle'.size = 0 /\ file' = <<>> /\ buf' = <<>> /\ recovery' \in {"opened", "live"}
    BY <1>13 DEF Truncate, HandleType, Handle, InUse
  <2> QED BY <2>1 DEF SizeHeld
<1>14. CASE (\E t \in DOMAIN archive : DeleteOld(t)) \/ Tick \/ UNCHANGED vars
  BY <1>4, <1>14 DEF DeleteOld, Tick, vars, logVars
<1>15. CASE Close \/ Kill \/ PowerLoss
  BY <1>c, <1>15 DEF Close, Kill, PowerLoss, FlushAndDrop
<1>16. CASE Rot
  <2>1. recovery' = "down" /\ handle' = handle /\ recovery = "down"
    BY <1>16 DEF Rot
  <2> QED BY <2>1 DEF SizeHeld
<1> QED BY <1>1, <1>2, <1>5, <1>6, <1>7, <1>9, <1>12, <1>13, <1>14, <1>15, <1>16 DEF Next

\* Type correctness: no operation of the log, no fault and no crash takes the
\* stable length past the end of the file, leaves a handle with a nonsensical
\* guard, or makes it count bytes the log no longer has.
THEOREM WalTypeCorrect == Spec => []TypeOK
<1>1. Init => Typed /\ SizeHeld
  BY TypedInit DEF Init, SizeHeld, Closed
<1>2. (Typed /\ SizeHeld) /\ [Next]_vars => (Typed /\ SizeHeld)'
  BY TypedStep, SizeStep
<1>3. Typed /\ SizeHeld => TypeOK
  BY DEF SizeHeld, TypeOK
<1> QED BY <1>1, <1>2, <1>3, PTL DEF Spec

-----------------------------------------------------------------------------
(* The inductive invariant. *)

\* The part of the log already on stable storage holds what was acknowledged.
StableHoldsAcked == acked \ exposed \subseteq Recovered(SubSeq(file, 1, stable))

\* A handle that admits an append has a log replay walks to its end, so the next
\* entry is reached; and what it has appended is in that log.
AppendableIsFramed ==
  handle.open /\ ~handle.poisoned /\ handle.pending = None
    => AllFramed(file \o buf) /\ appended \subseteq Recovered(file \o buf)

\* While the corrupt-tail guard is up nothing is buffered, and the boundary it
\* remembers is the end of the framed prefix of the log.
GuardMarksPrefix ==
  handle.pending # None =>
    /\ buf = <<>> /\ appended = {}
    /\ \A i \in 1 .. Len(file) : i <= handle.pending => Framed(file[i])
    /\ handle.pending < Len(file) => ~Framed(file[handle.pending + 1])

\* A poisoned handle and a closed one hold nothing back.
PoisonedIsEmpty ==
  /\ handle.poisoned => buf = <<>> /\ appended = {}
  /\ handle.cursor_stale => handle.poisoned
ClosedIsEmpty ==
  /\ recovery \in {"absent", "down"} <=> ~handle.open
  /\ ~handle.open => handle = Closed /\ buf = <<>> /\ appended = {}
  /\ recovery = "absent" => file = <<>>

Inv ==
  /\ Typed
  /\ AckedRecoverable
  /\ StableHoldsAcked
  /\ AppendableIsFramed
  /\ GuardMarksPrefix
  /\ PoisonedIsEmpty
  /\ ClosedIsEmpty

\* What the first n segments of a log recover, every log that agrees on them
\* recovers too.
LEMMA SubSeqRecovered ==
  ASSUME NEW s \in Seq(Segment), NEW t \in Seq(Segment),
         NEW n \in 0 .. Len(s), NEW k \in 0 .. Len(t), n <= k,
         \A i \in 1 .. n : t[i] = s[i]
  PROVE  Recovered(SubSeq(s, 1, n)) \subseteq Recovered(SubSeq(t, 1, k))
<1> DEFINE u == SubSeq(s, 1, n)
           v == SubSeq(t, 1, k)
<1>1. /\ u \in Seq(Segment) /\ Len(u) = n /\ \A i \in 1 .. n : u[i] = s[i]
      /\ v \in Seq(Segment) /\ Len(v) = k /\ \A i \in 1 .. k : v[i] = t[i]
  BY SubSeqOf
<1>2. Recovered(u) \subseteq Recovered(v)
  <2> HIDE DEF u, v
  <2>1. Len(u) <= Len(v) /\ \A i \in 1 .. Len(u) : v[i] = u[i]
    BY <1>1
  <2> QED BY <1>1, <2>1, PrefixRecovered
<1> QED BY <1>2

\* Cutting a sequence at its length changes nothing.
LEMMA WholeSubSeq ==
  ASSUME NEW s \in Seq(Segment)
  PROVE  SubSeq(s, 1, Len(s)) = s
<1>1. Len(s) \in 0 .. Len(s)
  OBVIOUS
<1>2. /\ SubSeq(s, 1, Len(s)) \in Seq(Segment) /\ Len(SubSeq(s, 1, Len(s))) = Len(s)
      /\ \A i \in 1 .. Len(s) : SubSeq(s, 1, Len(s))[i] = s[i]
  BY <1>1, SubSeqOf
<1> QED BY <1>2, SeqEqual

\* Cutting a log at an unframed segment keeps what any of its prefixes recovers.
LEMMA SubSeqCut ==
  ASSUME NEW s \in Seq(Segment), NEW n \in 0 .. Len(s), NEW c \in 0 .. Len(s),
         c < Len(s) => ~Framed(s[c + 1])
  PROVE  Recovered(SubSeq(s, 1, n))
           \subseteq Recovered(SubSeq(SubSeq(s, 1, c), 1, IF n < c THEN n ELSE c))
<1> DEFINE k == IF n < c THEN n ELSE c
           u == SubSeq(s, 1, n)
           v == SubSeq(s, 1, c)
           w == SubSeq(v, 1, k)
<1>1. /\ u \in Seq(Segment) /\ Len(u) = n /\ \A i \in 1 .. n : u[i] = s[i]
      /\ v \in Seq(Segment) /\ Len(v) = c /\ \A i \in 1 .. c : v[i] = s[i]
  BY SubSeqOf
<1>2. w \in Seq(Segment) /\ Len(w) = k /\ \A i \in 1 .. k : w[i] = v[i]
  <2>1. k \in 0 .. Len(v)
    BY <1>1
  <2> HIDE DEF v, k
  <2> QED BY <1>1, <2>1, SubSeqOf
<1>3. /\ Len(w) <= Len(u) /\ \A i \in 1 .. Len(w) : w[i] = u[i]
      /\ Len(w) < Len(u) => ~Framed(u[Len(w) + 1])
  <2> HIDE DEF u, v, w
  <2> QED BY <1>1, <1>2
<1>4. Recovered(u) \subseteq Recovered(w)
  <2> HIDE DEF u, v, w
  <2> QED BY <1>1, <1>2, <1>3, CutRecovered
<1> QED BY <1>4

\* Adding a decodable entry to a log that is framed to its end.
LEMMA AppendFramed ==
  ASSUME NEW s \in Seq(Segment), NEW e \in Segment, AllFramed(s), e.kind = "ok"
  PROVE  /\ AllFramed(s \o <<e>>)
         /\ Recovered(s) \cup {e.m} \subseteq Recovered(s \o <<e>>)
<1> DEFINE t == s \o <<e>>
<1>1. <<e>> \in Seq(Segment) /\ Len(<<e>>) = 1 /\ <<e>>[1] = e
  OBVIOUS
<1>2. /\ t \in Seq(Segment) /\ Len(t) = Len(s) + 1
      /\ \A i \in 1 .. Len(s) : t[i] = s[i]
      /\ t[Len(s) + 1] = e
  BY <1>1, LogGrows
<1> HIDE DEF t
<1>3. AllFramed(t)
  BY <1>2 DEF AllFramed, Framed
<1>4. Recovered(s) \subseteq Recovered(t)
  BY <1>2, PrefixRecovered
<1>5. e.m \in Recovered(t)
  <2>1. /\ Len(s) + 1 \in 1 .. Len(t) /\ t[Len(s) + 1].kind = "ok" /\ t[Len(s) + 1].m = e.m
        /\ \A k \in 1 .. Len(s) + 1 : Framed(t[k])
    BY <1>2, <1>3 DEF AllFramed
  <2> QED BY <2>1, RecoveredElim
<1> QED BY <1>3, <1>4, <1>5 DEF t

\* What was acknowledged is in the whole file.
LEMMA FileHoldsAcked ==
  ASSUME LogType, StableHoldsAcked
  PROVE  acked \ exposed \subseteq Recovered(file)
<1>1. SubSeq(file, 1, Len(file)) = file
  BY WholeSubSeq DEF LogType
<1>2. Recovered(SubSeq(file, 1, stable)) \subseteq Recovered(SubSeq(file, 1, Len(file)))
  BY SubSeqRecovered DEF LogType
<1> QED BY <1>1, <1>2 DEF StableHoldsAcked

\* The part of the invariant that a step which leaves the handle alone, and only
\* adds to the file behind its stable part, cannot disturb.
LEMMA StableKept ==
  ASSUME LogType, AckedRecoverable, StableHoldsAcked, LogType',
         Len(file) <= Len(file'), \A i \in 1 .. Len(file) : file'[i] = file[i],
         UNCHANGED <<disk, stable, acked, exposed>>
  PROVE  AckedRecoverable' /\ StableHoldsAcked'
<1>1. AckedRecoverable'
  BY DEF AckedRecoverable
<1>2. Recovered(SubSeq(file, 1, stable)) \subseteq Recovered(SubSeq(file', 1, stable'))
  <2> DEFINE f == file'
  <2>1. f \in Seq(Segment) /\ stable \in 0 .. Len(f) /\ \A i \in 1 .. stable : f[i] = file[i]
    BY DEF LogType
  <2>2. file \in Seq(Segment) /\ stable \in 0 .. Len(file)
    BY DEF LogType
  <2> HIDE DEF f
  <2>3. Recovered(SubSeq(file, 1, stable)) \subseteq Recovered(SubSeq(f, 1, stable))
    BY <2>1, <2>2, SubSeqRecovered
  <2> QED BY <2>3 DEF f
<1> QED BY <1>1, <1>2 DEF StableHoldsAcked

\* A handle that goes away leaves nothing of the rest of the invariant to keep.
LEMMA DropEmpties ==
  ASSUME Drop
  PROVE  AppendableIsFramed' /\ GuardMarksPrefix' /\ PoisonedIsEmpty' /\ ClosedIsEmpty'
<1>1. handle' = Closed /\ recovery' = "down" /\ buf' = <<>> /\ appended' = {}
  BY DEF Drop
<1>2. /\ handle'.open = FALSE /\ handle'.pending = None /\ handle'.poisoned = FALSE
      /\ handle'.cursor_stale = FALSE
  BY <1>1 DEF Closed
<1> QED BY <1>1, <1>2 DEF AppendableIsFramed, GuardMarksPrefix, PoisonedIsEmpty, ClosedIsEmpty

\* Likewise an empty log under an open handle.
LEMMA EmptyLog ==
  ASSUME buf' = <<>>, file' = <<>>, appended' = {},
         handle'.open, recovery' \notin {"absent", "down"},
         handle'.cursor_stale => handle'.poisoned,
         handle'.pending \in {None} \cup Nat
  PROVE  AppendableIsFramed' /\ GuardMarksPrefix' /\ PoisonedIsEmpty' /\ ClosedIsEmpty'
<1>1. file' \o buf' = <<>>
  OBVIOUS
<1>2. AllFramed(<<>>)
  BY DEF AllFramed
<1>3. AppendableIsFramed'
  BY <1>1, <1>2 DEF AppendableIsFramed
<1> QED BY <1>3 DEF GuardMarksPrefix, PoisonedIsEmpty, ClosedIsEmpty, None

\* The steps that neither touch the log nor the handle.
LEMMA InvUntouched ==
  ASSUME Inv, UNCHANGED <<logVars, handle, recovery, histVars>>
  PROVE  /\ AckedRecoverable' /\ StableHoldsAcked' /\ AppendableIsFramed'
         /\ GuardMarksPrefix' /\ PoisonedIsEmpty' /\ ClosedIsEmpty'
BY DEF Inv, AckedRecoverable, StableHoldsAcked, AppendableIsFramed, GuardMarksPrefix,
       PoisonedIsEmpty, ClosedIsEmpty, logVars, histVars

\* Creating a log keeps the invariant.
LEMMA CreateStep ==
  ASSUME Inv, Create
  PROVE  /\ AckedRecoverable' /\ StableHoldsAcked' /\ AppendableIsFramed'
         /\ GuardMarksPrefix' /\ PoisonedIsEmpty' /\ ClosedIsEmpty'
<1>1. /\ recovery = "absent" /\ handle' = Opened(0, None, FALSE) /\ recovery' = "live"
      /\ UNCHANGED <<buf, file, disk, stable, appended, acked, exposed>>
  BY DEF Create, logVars, histVars
<1>2. file = <<>> /\ buf = <<>> /\ appended = {}
  BY <1>1 DEF Inv, ClosedIsEmpty
<1>3. /\ handle'.open /\ handle'.pending = None /\ handle'.cursor_stale = FALSE
  BY <1>1 DEF Opened
<1>4. AppendableIsFramed' /\ GuardMarksPrefix' /\ PoisonedIsEmpty' /\ ClosedIsEmpty'
  BY <1>1, <1>2, <1>3, EmptyLog
<1> QED BY <1>1, <1>4 DEF Inv, AckedRecoverable, StableHoldsAcked

\* Opening a log keeps the invariant: a torn tail goes, a corrupt one is guarded.
LEMMA OpenExistingStep ==
  ASSUME Inv, OpenExisting
  PROVE  /\ AckedRecoverable' /\ StableHoldsAcked' /\ AppendableIsFramed'
         /\ GuardMarksPrefix' /\ PoisonedIsEmpty' /\ ClosedIsEmpty'
<1> DEFINE end == ValidEnd(file)
           cut == SubSeq(file, 1, end)
           pend == IF WalStop(file) = "Corruption" THEN end ELSE None
<1>0. LogType /\ HandleType
  BY TypedParts DEF Inv
<1>1. /\ recovery = "down" /\ buf = <<>> /\ appended = {} /\ handle = Closed
      /\ UNCHANGED <<buf, appended, acked, exposed>>
  BY DEF OpenExisting, histVars, Inv, ClosedIsEmpty
<1>2. /\ end \in 0 .. Len(file) /\ \A i \in 1 .. end : Framed(file[i])
      /\ end < Len(file) => ~Framed(file[end + 1])
      /\ file \in Seq(Segment) /\ stable \in 0 .. Len(file)
  BY <1>0, ValidEndProperties DEF LogType
<1>3. /\ cut \in Seq(Segment) /\ Len(cut) = end /\ \A i \in 1 .. end : cut[i] = file[i]
  BY <1>2, SubSeqOf
<1>4. Recovered(file) \subseteq Recovered(cut)
  <2> HIDE DEF cut, end
  <2>1. Len(cut) <= Len(file) /\ \A i \in 1 .. Len(cut) : cut[i] = file[i]
        /\ (Len(cut) < Len(file) => ~Framed(file[Len(cut) + 1]))
    BY <1>2, <1>3
  <2> QED BY <1>2, <1>3, <2>1, CutRecovered
<1>5. acked \ exposed \subseteq Recovered(file)
  BY <1>0, FileHoldsAcked DEF Inv
<1>6. \/ /\ WalStop(file) # "TornTail" /\ UNCHANGED <<file, disk, stable>>
         /\ handle' = Opened(Len(file), pend, TRUE) /\ recovery' = "opened"
      \/ /\ WalStop(file) = "TornTail" /\ file' = cut /\ disk' = cut /\ stable' = Len(cut)
         /\ handle' = Opened(Len(cut), pend, TRUE) /\ recovery' = "opened"
      \/ /\ WalStop(file) = "TornTail" /\ file' = cut /\ stable' = StableAfterCut(end)
         /\ UNCHANGED <<disk, handle, recovery>>
  BY DEF OpenExisting
<1>7. CASE /\ WalStop(file) # "TornTail" /\ UNCHANGED <<file, disk, stable>>
           /\ handle' = Opened(Len(file), pend, TRUE) /\ recovery' = "opened"
  <2>1. AckedRecoverable' /\ StableHoldsAcked'
    BY <1>1, <1>7 DEF Inv, AckedRecoverable, StableHoldsAcked
  <2>2. /\ handle'.open = TRUE /\ handle'.pending = pend /\ handle'.poisoned = FALSE
        /\ handle'.cursor_stale = FALSE
    BY <1>7 DEF Opened
  <2>3. pend = None => end = Len(file)
    <3>1. end # None
      BY <1>2 DEF None
    <3> QED BY <1>7, <3>1 DEF WalStop
  <2>4. file \o buf = file
    BY <1>0, <1>1, ConcatEmptySeq DEF LogType
  <2>5. pend = None => AllFramed(file \o buf)
    BY <1>2, <2>3, <2>4 DEF AllFramed
  <2>6. AppendableIsFramed'
    BY <1>1, <1>7, <2>2, <2>5 DEF AppendableIsFramed
  <2>7. GuardMarksPrefix'
    <3>1. pend # None => pend = end
      OBVIOUS
    <3>2. CASE pend = None
      BY <2>2, <3>2 DEF GuardMarksPrefix
    <3>3. CASE pend = end
      <4>1. handle'.pending = end /\ file' = file /\ buf' = <<>> /\ appended' = {}
        BY <1>1, <1>7, <2>2, <3>3
      <4> HIDE DEF end
      <4> QED BY <1>2, <4>1 DEF GuardMarksPrefix
    <3> QED BY <3>1, <3>2, <3>3
  <2> QED BY <1>1, <1>7, <2>1, <2>2, <2>6, <2>7 DEF PoisonedIsEmpty, ClosedIsEmpty
<1>8. CASE /\ WalStop(file) = "TornTail" /\ file' = cut /\ disk' = cut /\ stable' = Len(cut)
           /\ handle' = Opened(Len(cut), pend, TRUE) /\ recovery' = "opened"
  <2>1. AckedRecoverable'
    BY <1>1, <1>4, <1>5, <1>8 DEF AckedRecoverable
  <2>2. StableHoldsAcked'
    <3>1. SubSeq(cut, 1, Len(cut)) = cut
      BY <1>3, WholeSubSeq
    <3> QED BY <1>1, <1>4, <1>5, <1>8, <3>1 DEF StableHoldsAcked
  <2>3. /\ handle'.open = TRUE /\ handle'.pending = None /\ handle'.poisoned = FALSE
        /\ handle'.cursor_stale = FALSE
    BY <1>8 DEF Opened
  <2>4. cut \o buf = cut
    BY <1>1, <1>3, ConcatEmptySeq
  <2>5. AllFramed(cut)
    BY <1>2, <1>3 DEF AllFramed
  <2>6. AppendableIsFramed'
    BY <1>1, <1>8, <2>4, <2>5 DEF AppendableIsFramed
  <2> QED BY <1>1, <1>8, <2>1, <2>2, <2>3, <2>6
          DEF GuardMarksPrefix, PoisonedIsEmpty, ClosedIsEmpty
<1>9. CASE /\ WalStop(file) = "TornTail" /\ file' = cut /\ stable' = StableAfterCut(end)
           /\ UNCHANGED <<disk, handle, recovery>>
  <2>1. AckedRecoverable'
    BY <1>1, <1>9 DEF Inv, AckedRecoverable
  <2>2. StableHoldsAcked'
    <3>1. Recovered(SubSeq(file, 1, stable)) \subseteq Recovered(SubSeq(cut, 1, StableAfterCut(end)))
      BY <1>2, SubSeqCut DEF StableAfterCut
    <3> QED BY <1>1, <1>9, <3>1 DEF Inv, StableHoldsAcked
  <2>3. ClosedIsEmpty' /\ PoisonedIsEmpty'
    BY <1>1, <1>9 DEF ClosedIsEmpty, PoisonedIsEmpty, Closed
  <2>4. AppendableIsFramed' /\ GuardMarksPrefix'
    BY <1>1, <1>9 DEF AppendableIsFramed, GuardMarksPrefix, Closed
  <2> QED BY <2>1, <2>2, <2>3, <2>4
<1> QED BY <1>6, <1>7, <1>8, <1>9

\* A handle that goes away and leaves a longer file behind: Close, a kill, and
\* the failing branch of preserve_corrupt_wal.
LEMMA DropStep ==
  ASSUME Inv, LogType', Drop, UNCHANGED <<disk, stable, acked, exposed>>,
         Len(file) <= Len(file'), \A i \in 1 .. Len(file) : file'[i] = file[i]
  PROVE  /\ AckedRecoverable' /\ StableHoldsAcked' /\ AppendableIsFramed'
         /\ GuardMarksPrefix' /\ PoisonedIsEmpty' /\ ClosedIsEmpty'
<1>1. AckedRecoverable' /\ StableHoldsAcked'
  BY StableKept, TypedParts DEF Inv
<1> QED BY <1>1, DropEmpties

\* A handle dropped in good order keeps the invariant.
LEMMA FlushAndDropStep ==
  ASSUME Inv, LogType', FlushAndDrop, UNCHANGED <<disk, stable, acked, exposed>>
  PROVE  /\ AckedRecoverable' /\ StableHoldsAcked' /\ AppendableIsFramed'
         /\ GuardMarksPrefix' /\ PoisonedIsEmpty' /\ ClosedIsEmpty'
<1>1. LogType
  BY TypedParts DEF Inv
<1>2. /\ Len(file) <= Len(file \o buf)
      /\ \A i \in 1 .. Len(file) : (file \o buf)[i] = file[i]
  BY <1>1, BufferFlushed DEF LogType
<1>3. Len(file) <= Len(file') /\ \A i \in 1 .. Len(file) : file'[i] = file[i]
  BY <1>2 DEF FlushAndDrop
<1> QED BY <1>3, DropStep DEF FlushAndDrop

\* Replaying keeps the invariant.
LEMMA ReplayEachStep ==
  ASSUME Inv, ReplayEach
  PROVE  /\ AckedRecoverable' /\ StableHoldsAcked' /\ AppendableIsFramed'
         /\ GuardMarksPrefix' /\ PoisonedIsEmpty' /\ ClosedIsEmpty'
<1>1. /\ UNCHANGED <<logVars, handle, histVars>>
      /\ recovery = "opened" /\ recovery' \in {"live", "lossy"}
  BY DEF ReplayEach, AfterReplay
<1> QED BY <1>1 DEF Inv, AckedRecoverable, StableHoldsAcked, AppendableIsFramed,
        GuardMarksPrefix, PoisonedIsEmpty, ClosedIsEmpty, logVars, histVars

\* Setting a corrupt log aside keeps the invariant.
LEMMA PreserveStep ==
  ASSUME Inv, LogType', PreserveCorruptWal
  PROVE  /\ AckedRecoverable' /\ StableHoldsAcked' /\ AppendableIsFramed'
         /\ GuardMarksPrefix' /\ PoisonedIsEmpty' /\ ClosedIsEmpty'
<1>1. UNCHANGED <<disk, stable, acked, exposed>> /\ recovery = "lossy"
  BY DEF PreserveCorruptWal
<1>2. CASE FlushAndDrop
  BY <1>1, <1>2, FlushAndDropStep
<1>3. CASE recovery' = "preserved" /\ UNCHANGED <<handle, buf, file, appended>>
  BY <1>1, <1>3 DEF Inv, AckedRecoverable, StableHoldsAcked, AppendableIsFramed,
     GuardMarksPrefix, PoisonedIsEmpty, ClosedIsEmpty
<1> QED BY <1>2, <1>3 DEF PreserveCorruptWal

\* Resetting to the valid prefix keeps the invariant, whichever of its steps fails.
LEMMA ResetStep ==
  ASSUME Inv, LogType', ResetToValidPrefix
  PROVE  /\ AckedRecoverable' /\ StableHoldsAcked' /\ AppendableIsFramed'
         /\ GuardMarksPrefix' /\ PoisonedIsEmpty' /\ ClosedIsEmpty'
<1> DEFINE end == handle.pending
           trims == HasPendingCorruptTail /\ end < Len(file)
           cut == SubSeq(file, 1, end)
<1>0. LogType /\ HandleType
  BY TypedParts DEF Inv
<1>1. UNCHANGED <<acked, exposed>> /\ recovery = "preserved" /\ handle.open
  BY DEF ResetToValidPrefix, Inv, ClosedIsEmpty
<1>2. \/ /\ ~HasPendingCorruptTail /\ UNCHANGED <<logVars, handle, appended>>
         /\ recovery' = "live"
      \/ /\ HasPendingCorruptTail /\ ~trims /\ UNCHANGED <<logVars, appended>>
         /\ handle' = [handle EXCEPT !.size = Len(file), !.pending = None]
         /\ recovery' = "live"
      \/ /\ trims /\ file' = cut /\ disk' = cut /\ stable' = end /\ UNCHANGED <<buf, appended>>
         /\ handle' = [handle EXCEPT !.size = end, !.pending = None]
         /\ recovery' = "live"
      \/ trims /\ Drop /\ UNCHANGED <<file, disk, stable>>
      \/ trims /\ Drop /\ file' = cut /\ stable' = StableAfterCut(end) /\ UNCHANGED disk
  BY DEF ResetToValidPrefix
<1>3. CASE /\ ~HasPendingCorruptTail /\ UNCHANGED <<logVars, handle, appended>>
           /\ recovery' = "live"
  BY <1>1, <1>3 DEF Inv, AckedRecoverable, StableHoldsAcked, AppendableIsFramed,
     GuardMarksPrefix, PoisonedIsEmpty, ClosedIsEmpty, logVars
<1>4. HasPendingCorruptTail =>
        /\ buf = <<>> /\ appended = {} /\ end \in Nat
        /\ \A i \in 1 .. Len(file) : i <= end => Framed(file[i])
        /\ end < Len(file) => ~Framed(file[end + 1])
  BY <1>0 DEF Inv, GuardMarksPrefix, HasPendingCorruptTail, HandleType
<1>5. CASE /\ HasPendingCorruptTail /\ ~trims /\ UNCHANGED <<logVars, appended>>
           /\ handle' = [handle EXCEPT !.size = Len(file), !.pending = None]
           /\ recovery' = "live"
  <2>1. AllFramed(file \o buf)
    <3>1. file \o buf = file /\ Len(file) \in Nat
      BY <1>0, <1>4, <1>5, ConcatEmptySeq DEF LogType
    <3> QED BY <1>4, <1>5, <3>1 DEF AllFramed
  <2>2. /\ handle'.open = handle.open /\ handle'.pending = None
        /\ handle'.poisoned = handle.poisoned /\ handle'.cursor_stale = handle.cursor_stale
    BY <1>0, <1>5 DEF HandleType, Handle
  <2> QED BY <1>1, <1>4, <1>5, <2>1, <2>2 DEF Inv, AckedRecoverable, StableHoldsAcked,
      AppendableIsFramed, GuardMarksPrefix, PoisonedIsEmpty, ClosedIsEmpty, logVars
<1>6. trims => /\ end \in 0 .. Len(file) /\ cut \in Seq(Segment) /\ Len(cut) = end
               /\ \A i \in 1 .. end : cut[i] = file[i]
  BY <1>0, <1>4, SubSeqOf DEF LogType
<1>7. trims => Recovered(SubSeq(file, 1, stable)) \subseteq Recovered(SubSeq(cut, 1, StableAfterCut(end)))
  BY <1>0, <1>4, <1>6, SubSeqCut DEF LogType, StableAfterCut
<1>8. CASE /\ trims /\ file' = cut /\ disk' = cut /\ stable' = end /\ UNCHANGED <<buf, appended>>
           /\ handle' = [handle EXCEPT !.size = end, !.pending = None]
           /\ recovery' = "live"
  <2>1. Recovered(SubSeq(cut, 1, StableAfterCut(end))) \subseteq Recovered(cut)
    <3>1. SubSeq(cut, 1, Len(cut)) = cut /\ StableAfterCut(end) \in 0 .. Len(cut)
      BY <1>0, <1>6, <1>8, WholeSubSeq DEF LogType, StableAfterCut
    <3>2. Recovered(SubSeq(cut, 1, StableAfterCut(end))) \subseteq Recovered(SubSeq(cut, 1, Len(cut)))
      <4> DEFINE n == StableAfterCut(end)
      <4> HIDE DEF cut, n
      <4>1. cut \in Seq(Segment) /\ n \in 0 .. Len(cut) /\ Len(cut) \in 0 .. Len(cut) /\ n <= Len(cut)
        BY <1>6, <1>8, <3>1 DEF n
      <4> QED BY <4>1, SubSeqRecovered DEF n
    <3> QED BY <3>1, <3>2
  <2>2. acked \ exposed \subseteq Recovered(cut)
    BY <1>7, <1>8, <2>1 DEF Inv, StableHoldsAcked
  <2>3. AckedRecoverable'
    BY <1>1, <1>8, <2>2 DEF AckedRecoverable
  <2>4. StableHoldsAcked'
    <3>1. SubSeq(cut, 1, end) = cut
      BY <1>6, <1>8, WholeSubSeq
    <3> QED BY <1>1, <1>8, <2>2, <3>1 DEF StableHoldsAcked
  <2>5. /\ handle'.open = handle.open /\ handle'.pending = None
        /\ handle'.poisoned = handle.poisoned /\ handle'.cursor_stale = handle.cursor_stale
    BY <1>0, <1>8 DEF HandleType, Handle
  <2>6. AllFramed(cut \o buf)
    <3>1. cut \o buf = cut
      BY <1>4, <1>6, <1>8, ConcatEmptySeq
    <3>2. AllFramed(cut)
      BY <1>4, <1>6, <1>8 DEF AllFramed
    <3> QED BY <3>1, <3>2
  <2>7. AppendableIsFramed'
    BY <1>4, <1>8, <2>6 DEF AppendableIsFramed
  <2> QED BY <1>1, <1>4, <1>8, <2>3, <2>4, <2>5, <2>7
          DEF Inv, GuardMarksPrefix, PoisonedIsEmpty, ClosedIsEmpty
<1>9. CASE trims /\ Drop /\ UNCHANGED <<file, disk, stable>>
  <2>1. Len(file) <= Len(file') /\ \A i \in 1 .. Len(file) : file'[i] = file[i]
    BY <1>0, <1>9 DEF LogType
  <2> QED BY <1>1, <1>9, <2>1, DropStep
<1>10. CASE trims /\ Drop /\ file' = cut /\ stable' = StableAfterCut(end) /\ UNCHANGED disk
  <2>1. AckedRecoverable' /\ StableHoldsAcked'
    BY <1>1, <1>7, <1>10 DEF Inv, AckedRecoverable, StableHoldsAcked
  <2> QED BY <1>10, <2>1, DropEmpties
<1> QED BY <1>2, <1>3, <1>5, <1>8, <1>9, <1>10

\* An append behind the guards keeps the invariant.
LEMMA AppendStep ==
  ASSUME Inv, LogType', NEW m \in Mutation, AppendBuffered(m) \/ AppendSpilled(m)
  PROVE  /\ AckedRecoverable' /\ StableHoldsAcked' /\ AppendableIsFramed'
         /\ GuardMarksPrefix' /\ PoisonedIsEmpty' /\ ClosedIsEmpty'
<1> DEFINE e == Entry(m)
<1>0. LogType /\ HandleType
  BY TypedParts DEF Inv
<1>1. /\ handle.open /\ ~handle.poisoned /\ handle.pending = None /\ m \notin Oversized
      /\ recovery \in {"opened", "live"}
  BY DEF AppendBuffered, AppendSpilled, AppendAdmitted, InUse, EnsureNotPoisoned,
         HasPendingCorruptTail
<1>2. ~handle.cursor_stale
  BY <1>1 DEF Inv, PoisonedIsEmpty
<1>3. AtCursor(<<e>>) = <<e>> /\ e \in Segment /\ e.kind = "ok" /\ e.m = m
  BY <1>1, <1>2, SegmentTypes DEF AtCursor, Entry
<1>4. /\ UNCHANGED <<disk, stable, acked, exposed, recovery>>
      /\ appended' = appended \cup {m} /\ handle' = [handle EXCEPT !.size = @ + 1]
      /\ \/ file' = file /\ buf' = buf \o <<e>>
         \/ file' = file \o buf \o <<e>> /\ buf' = <<>>
  BY <1>3 DEF AppendBuffered, AppendSpilled
<1>5. <<e>> \in Seq(Segment) /\ file \o buf \in Seq(Segment)
  BY <1>0, <1>3, BufferFlushed
<1>6. file' \o buf' = (file \o buf) \o <<e>>
  <2>1. CASE file' = file /\ buf' = buf \o <<e>>
    BY <1>0, <1>5, <2>1, ConcatAssociative DEF LogType
  <2>2. CASE file' = file \o buf \o <<e>> /\ buf' = <<>>
    <3>1. (file \o buf) \o <<e>> \in Seq(Segment)
      BY <1>5, LogGrows
    <3> QED BY <2>2, <3>1, ConcatEmptySeq
  <2> QED BY <1>4, <2>1, <2>2
<1>7. Len(file) <= Len(file') /\ \A i \in 1 .. Len(file) : file'[i] = file[i]
  <2>1. CASE file' = file
    BY <1>0, <2>1 DEF LogType
  <2>2. CASE file' = file \o buf \o <<e>>
    <3> DEFINE fb == file \o buf
    <3>1. /\ fb \in Seq(Segment) /\ Len(fb) = Len(file) + Len(buf)
          /\ \A i \in 1 .. Len(file) : fb[i] = file[i]
      BY <1>0, BufferFlushed
    <3>2. /\ Len(fb \o <<e>>) = Len(fb) + Len(<<e>>)
          /\ \A i \in 1 .. Len(fb) : (fb \o <<e>>)[i] = fb[i]
      <4> HIDE DEF fb, e
      <4> QED BY <1>5, <3>1, LogGrows
    <3>3. Len(file) \in Nat /\ Len(buf) \in Nat /\ Len(<<e>>) = 1
      BY <1>0 DEF LogType
    <3>4. file' = fb \o <<e>>
      BY <2>2
    <3> HIDE DEF fb, e
    <3> QED BY <3>1, <3>2, <3>3, <3>4
  <2> QED BY <1>4, <2>1, <2>2
<1>8. AckedRecoverable' /\ StableHoldsAcked'
  BY <1>0, <1>4, <1>7, StableKept DEF Inv
<1>9. /\ handle'.open /\ ~handle'.poisoned /\ handle'.pending = None /\ ~handle'.cursor_stale
  BY <1>0, <1>1, <1>2, <1>4 DEF HandleType, Handle
<1>10. AppendableIsFramed'
  <2>1. AllFramed(file \o buf) /\ appended \subseteq Recovered(file \o buf)
    BY <1>1 DEF Inv, AppendableIsFramed
  <2>2. /\ AllFramed((file \o buf) \o <<e>>)
        /\ Recovered(file \o buf) \cup {e.m} \subseteq Recovered((file \o buf) \o <<e>>)
    <3> DEFINE fb == file \o buf
    <3> HIDE DEF fb, e
    <3>1. fb \in Seq(Segment) /\ AllFramed(fb)
      BY <1>5, <2>1 DEF fb
    <3>2. /\ AllFramed(fb \o <<e>>) /\ Recovered(fb) \cup {e.m} \subseteq Recovered(fb \o <<e>>)
      BY <1>3, <3>1, AppendFramed
    <3> QED BY <3>2 DEF fb
  <2>3. AllFramed(file' \o buf') /\ appended' \subseteq Recovered(file' \o buf')
    BY <1>3, <1>4, <1>6, <2>1, <2>2
  <2> QED BY <2>3 DEF AppendableIsFramed
<1> QED BY <1>1, <1>4, <1>8, <1>9, <1>10 DEF GuardMarksPrefix, PoisonedIsEmpty, ClosedIsEmpty

\* A flush that stops part way, or goes through and is not followed by an fsync,
\* moves segments from the buffer to the file and nothing else.
LEMMA FlushStep ==
  ASSUME Inv, LogType', InUse, EnsureNotPoisoned,
         UNCHANGED <<disk, stable, handle, recovery, appended, acked, exposed>>,
         \/ file' = file \o buf /\ buf' = <<>>
         \/ \E n \in 0 .. Len(buf) - 1 : PartialFlush(n)
  PROVE  /\ AckedRecoverable' /\ StableHoldsAcked' /\ AppendableIsFramed'
         /\ GuardMarksPrefix' /\ PoisonedIsEmpty' /\ ClosedIsEmpty'
<1>0. LogType /\ HandleType
  BY TypedParts DEF Inv
<1>1. /\ file' \o buf' = file \o buf
      /\ Len(file) <= Len(file') /\ \A i \in 1 .. Len(file) : file'[i] = file[i]
  <2>1. CASE file' = file \o buf /\ buf' = <<>>
    <3>1. file \o buf \in Seq(Segment) /\ Len(file \o buf) = Len(file) + Len(buf)
          /\ \A i \in 1 .. Len(file) : (file \o buf)[i] = file[i]
      BY <1>0, BufferFlushed
    <3>2. (file \o buf) \o <<>> = file \o buf
      BY <3>1, ConcatEmptySeq
    <3>3. Len(file) \in Nat /\ Len(buf) \in Nat
      BY <1>0 DEF LogType
    <3> QED BY <2>1, <3>1, <3>2, <3>3
  <2>2. ASSUME NEW n \in 0 .. Len(buf) - 1, PartialFlush(n)
        PROVE  /\ file' \o buf' = file \o buf
               /\ Len(file) <= Len(file') /\ \A i \in 1 .. Len(file) : file'[i] = file[i]
    <3>1. /\ Len(file') = Len(file) + n /\ file' \o buf' = file \o buf
          /\ \A i \in 1 .. Len(file) : file'[i] = file[i]
      BY <1>0, <2>2, PartialFlushType
    <3>2. Len(file) \in Nat
      BY <1>0 DEF LogType
    <3> QED BY <3>1, <3>2
  <2> QED BY <2>1, <2>2
<1>2. AckedRecoverable' /\ StableHoldsAcked'
  BY <1>0, <1>1, StableKept DEF Inv
<1>3. AppendableIsFramed'
  BY <1>1 DEF Inv, AppendableIsFramed
<1>4. GuardMarksPrefix'
  <2>1. CASE handle.pending = None
    BY <2>1 DEF GuardMarksPrefix
  <2>2. CASE handle.pending # None
    <3>1. buf = <<>>
      BY <2>2 DEF Inv, GuardMarksPrefix
    <3>2. file' = file /\ buf' = <<>>
      BY <1>0, <3>1, ConcatEmptySeq DEF LogType
    <3> QED BY <2>2, <3>2 DEF Inv, GuardMarksPrefix
  <2> QED BY <2>1, <2>2
<1>5. PoisonedIsEmpty' /\ ClosedIsEmpty'
  BY DEF Inv, PoisonedIsEmpty, ClosedIsEmpty, InUse, EnsureNotPoisoned
<1> QED BY <1>2, <1>3, <1>4, <1>5

\* A sync acknowledges what replay reaches, and a failed one acknowledges nothing.
LEMMA SyncStep ==
  ASSUME Inv, LogType', Sync
  PROVE  /\ AckedRecoverable' /\ StableHoldsAcked' /\ AppendableIsFramed'
         /\ GuardMarksPrefix' /\ PoisonedIsEmpty' /\ ClosedIsEmpty'
<1>0. LogType /\ HandleType
  BY TypedParts DEF Inv
<1>1. InUse /\ EnsureNotPoisoned /\ UNCHANGED <<handle, recovery>>
  BY DEF Sync
<1>2. \/ /\ file' = file \o buf /\ buf' = <<>> /\ disk' = file' /\ stable' = Len(file')
         /\ acked' = acked \cup appended /\ exposed' = exposed \ appended /\ appended' = {}
      \/ /\ \/ file' = file \o buf /\ buf' = <<>>
            \/ \E n \in 0 .. Len(buf) - 1 : PartialFlush(n)
         /\ UNCHANGED <<disk, stable, acked, appended, exposed>>
  BY DEF Sync
<1>3. CASE /\ file' = file \o buf /\ buf' = <<>> /\ disk' = file' /\ stable' = Len(file')
           /\ acked' = acked \cup appended /\ exposed' = exposed \ appended /\ appended' = {}
  <2> DEFINE fb == file \o buf
  <2>1. /\ fb \in Seq(Segment) /\ Len(fb) = Len(file) + Len(buf)
        /\ \A i \in 1 .. Len(file) : fb[i] = file[i]
    BY <1>0, BufferFlushed
  <2>2. acked \ exposed \subseteq Recovered(fb)
    <3>1. acked \ exposed \subseteq Recovered(file)
      BY <1>0, FileHoldsAcked DEF Inv
    <3>2. Recovered(file) \subseteq Recovered(fb)
      <4>1. Len(file) <= Len(fb) /\ file \in Seq(Segment)
        BY <1>0, <2>1 DEF LogType
      <4> HIDE DEF fb
      <4> QED BY <2>1, <4>1, PrefixRecovered
    <3> QED BY <3>1, <3>2
  <2>3. appended \subseteq Recovered(fb)
    <3>1. CASE handle.pending = None
      BY <1>1, <3>1 DEF Inv, AppendableIsFramed, InUse, EnsureNotPoisoned
    <3>2. CASE handle.pending # None
      BY <3>2 DEF Inv, GuardMarksPrefix
    <3> QED BY <3>1, <3>2
  <2>4. acked' \ exposed' \subseteq Recovered(fb)
    BY <1>3, <2>2, <2>3
  <2>5. AckedRecoverable'
    BY <1>3, <2>4 DEF AckedRecoverable
  <2>6. StableHoldsAcked'
    <3>1. SubSeq(fb, 1, Len(fb)) = fb
      BY <2>1, WholeSubSeq
    <3> QED BY <1>3, <2>4, <3>1 DEF StableHoldsAcked
  <2>7. AppendableIsFramed'
    <3>1. fb \o <<>> = fb
      BY <2>1, ConcatEmptySeq
    <3>2. file' \o buf' = file \o buf
      BY <1>3, <3>1
    <3> QED BY <1>1, <1>3, <3>2 DEF Inv, AppendableIsFramed
  <2>8. GuardMarksPrefix'
    <3>1. CASE handle.pending = None
      BY <1>1, <3>1 DEF GuardMarksPrefix
    <3>2. CASE handle.pending # None
      <4>1. file' = file /\ buf' = <<>> /\ appended' = {}
        BY <1>0, <1>3, <3>2, ConcatEmptySeq DEF Inv, GuardMarksPrefix, LogType
      <4> QED BY <1>1, <3>2, <4>1 DEF Inv, GuardMarksPrefix
    <3> QED BY <3>1, <3>2
  <2>9. PoisonedIsEmpty' /\ ClosedIsEmpty'
    BY <1>1, <1>3 DEF Inv, PoisonedIsEmpty, ClosedIsEmpty, InUse, EnsureNotPoisoned
  <2> QED BY <2>5, <2>6, <2>7, <2>8, <2>9
<1>4. CASE /\ \/ file' = file \o buf /\ buf' = <<>>
              \/ \E n \in 0 .. Len(buf) - 1 : PartialFlush(n)
           /\ UNCHANGED <<disk, stable, acked, appended, exposed>>
  BY <1>1, <1>4, FlushStep
<1> QED BY <1>2, <1>3, <1>4

\* A truncate gives up every entry, and poisons a handle it could not rewind.
LEMMA TruncateStep ==
  ASSUME Inv, Truncate, HandleType'
  PROVE  /\ AckedRecoverable' /\ StableHoldsAcked' /\ AppendableIsFramed'
         /\ GuardMarksPrefix' /\ PoisonedIsEmpty' /\ ClosedIsEmpty'
<1>0. HandleType
  BY TypedParts DEF Inv
<1>1. /\ file' = <<>> /\ buf' = <<>> /\ acked' = {} /\ appended' = {} /\ UNCHANGED recovery
      /\ InUse
  BY DEF Truncate
<1>2. PICK p \in BOOLEAN, c \in BOOLEAN, g \in {None, handle.pending} :
        /\ handle' = [handle EXCEPT !.size = 0, !.poisoned = p, !.cursor_stale = c, !.pending = g]
        /\ c => p
  BY DEF Truncate
<1>3. handle'.open = handle.open /\ handle'.poisoned = p /\ handle'.cursor_stale = c
  BY <1>0, <1>2 DEF HandleType, Handle
<1>4. AppendableIsFramed' /\ GuardMarksPrefix' /\ PoisonedIsEmpty' /\ ClosedIsEmpty'
  <2>1. /\ handle'.open /\ recovery' \notin {"absent", "down"}
        /\ handle'.cursor_stale => handle'.poisoned
        /\ handle'.pending \in {None} \cup Nat
    BY <1>1, <1>2, <1>3 DEF InUse, HandleType
  <2> QED BY <1>1, <2>1, EmptyLog
<1> QED BY <1>1, <1>4 DEF AckedRecoverable, StableHoldsAcked

\* Rotating starts an empty log.
LEMMA RotateStep ==
  ASSUME Inv, Rotate
  PROVE  /\ AckedRecoverable' /\ StableHoldsAcked' /\ AppendableIsFramed'
         /\ GuardMarksPrefix' /\ PoisonedIsEmpty' /\ ClosedIsEmpty'
<1>1. /\ file' = <<>> /\ buf' = <<>> /\ acked' = {} /\ appended' = {}
      /\ recovery' = "live" /\ handle' = Opened(0, None, FALSE)
  BY DEF Rotate
<1>2. handle'.open /\ handle'.pending = None /\ handle'.cursor_stale = FALSE
  BY <1>1 DEF Opened
<1>3. AppendableIsFramed' /\ GuardMarksPrefix' /\ PoisonedIsEmpty' /\ ClosedIsEmpty'
  BY <1>1, <1>2, EmptyLog
<1> QED BY <1>1, <1>3 DEF AckedRecoverable, StableHoldsAcked

\* A killed process keeps the stable part of the log.
LEMMA KillStep ==
  ASSUME Inv, LogType', Kill
  PROVE  /\ AckedRecoverable' /\ StableHoldsAcked' /\ AppendableIsFramed'
         /\ GuardMarksPrefix' /\ PoisonedIsEmpty' /\ ClosedIsEmpty'
<1>0. LogType
  BY TypedParts DEF Inv
<1>1. PICK n \in 0 .. Len(buf), tail \in Tails : file' = file \o SubSeq(buf, 1, n) \o tail
  BY DEF Kill
<1> DEFINE f == file \o SubSeq(buf, 1, n)
<1>2. SubSeq(buf, 1, n) \in Seq(Segment) /\ tail \in Seq(Segment)
  BY <1>0, SubSeqOf, TailsType DEF LogType
<1>3. /\ f \in Seq(Segment) /\ Len(f) = Len(file) + Len(SubSeq(buf, 1, n))
      /\ \A i \in 1 .. Len(file) : f[i] = file[i]
  BY <1>0, <1>2, LogGrows DEF LogType
<1>4. /\ Len(f \o tail) = Len(f) + Len(tail) /\ \A i \in 1 .. Len(f) : (f \o tail)[i] = f[i]
  <2> HIDE DEF f
  <2> QED BY <1>2, <1>3, LogGrows
<1>5. Len(file) \in Nat /\ Len(SubSeq(buf, 1, n)) \in Nat /\ Len(tail) \in Nat
  BY <1>0, <1>2 DEF LogType
<1>6. Len(file) <= Len(file') /\ \A i \in 1 .. Len(file) : file'[i] = file[i]
  <2>1. file' = f \o tail
    BY <1>1
  <2> HIDE DEF f
  <2>2. Len(f) \in Nat /\ Len(file) <= Len(f) /\ Len(f) <= Len(f \o tail)
    BY <1>3, <1>4, <1>5
  <2>3. \A i \in 1 .. Len(file) : i \in 1 .. Len(f)
    BY <1>5, <2>2
  <2>4. \A i \in 1 .. Len(file) : (f \o tail)[i] = file[i]
    BY <1>3, <1>4, <2>3
  <2>5. Len(file) <= Len(f \o tail)
    BY <1>4, <1>5, <2>2
  <2> QED BY <2>1, <2>4, <2>5
<1>7. Drop /\ UNCHANGED <<disk, stable, acked, exposed>>
  BY DEF Kill
<1> QED BY <1>6, <1>7, DropStep

\* Every image a power loss may leave has the stable part or the last synced contents.
LEMMA PowerLossStep ==
  ASSUME Inv, LogType', PowerLoss
  PROVE  /\ AckedRecoverable' /\ StableHoldsAcked' /\ AppendableIsFramed'
         /\ GuardMarksPrefix' /\ PoisonedIsEmpty' /\ ClosedIsEmpty'
<1>0. LogType
  BY TypedParts DEF Inv
<1>1. PICK image \in PowerLossImages : file' = image /\ disk' = image /\ stable' = Len(image)
  BY DEF PowerLoss
<1>2. Drop /\ UNCHANGED <<acked, exposed>>
  BY DEF PowerLoss
<1>3. acked \ exposed \subseteq Recovered(image)
  <2>1. \/ image = disk
        \/ \E n \in stable .. Len(file), tail \in Tails : image = SubSeq(file, 1, n) \o tail
    BY DEF PowerLossImages
  <2>2. CASE image = disk
    BY <2>2 DEF Inv, AckedRecoverable
  <2>3. ASSUME NEW n \in stable .. Len(file), NEW tail \in Tails,
               image = SubSeq(file, 1, n) \o tail
        PROVE  acked \ exposed \subseteq Recovered(image)
    <3> DEFINE f == SubSeq(file, 1, n)
    <3>1. n \in 0 .. Len(file) /\ stable \in 0 .. Len(file) /\ stable <= n
      BY <1>0 DEF LogType
    <3>2. f \in Seq(Segment) /\ tail \in Seq(Segment)
      BY <1>0, <3>1, SubSeqOf, TailsType DEF LogType
    <3>3. Recovered(SubSeq(file, 1, stable)) \subseteq Recovered(f)
      BY <1>0, <3>1, SubSeqRecovered DEF LogType
    <3>4. Recovered(f) \subseteq Recovered(f \o tail)
      <4> HIDE DEF f
      <4>1. /\ f \o tail \in Seq(Segment) /\ Len(f \o tail) = Len(f) + Len(tail)
            /\ \A i \in 1 .. Len(f) : (f \o tail)[i] = f[i]
        BY <3>2, LogGrows
      <4>2. Len(f) <= Len(f \o tail)
        BY <3>2, <4>1
      <4> QED BY <3>2, <4>1, <4>2, PrefixRecovered
    <3> QED BY <2>3, <3>3, <3>4 DEF Inv, StableHoldsAcked
  <2> QED BY <2>1, <2>2, <2>3
<1>4. AckedRecoverable'
  BY <1>1, <1>2, <1>3 DEF AckedRecoverable
<1>5. StableHoldsAcked'
  <2>1. image \in Seq(Segment)
    BY <1>1 DEF LogType
  <2>2. SubSeq(image, 1, Len(image)) = image
    BY <2>1, WholeSubSeq
  <2> QED BY <1>1, <1>2, <1>3, <2>2 DEF StableHoldsAcked
<1> QED BY <1>2, <1>4, <1>5, DropEmpties

\* A media corruption exposes the entry it hits, and every entry behind it when
\* it breaks the framing; all others are still recovered.
LEMMA RotRecovered ==
  ASSUME NEW s \in Seq(Segment), NEW t \in Seq(Segment), Len(t) = Len(s),
         NEW i \in Nat \ {0}, NEW k \in RotKinds,
         \A j \in 1 .. Len(s) : j # i => t[j] = s[j],
         i <= Len(s) => t[i].kind = k,
         NEW x, x \in Recovered(s),
         i <= Len(s) => s[i].m # x,
         k # "undec" => \A j \in i .. Len(s) : s[j].m # x
  PROVE  x \in Recovered(t)
<1>1. PICK j \in 1 .. Len(s) : /\ s[j].kind = "ok" /\ s[j].m = x
                               /\ \A l \in 1 .. j : Framed(s[l])
  BY RecoveredElim
<1>2. j # i
  BY <1>1
<1>3. t[j] = s[j]
  BY <1>2
<1>4. \A l \in 1 .. j : Framed(t[l])
  <2>1. CASE k = "undec"
    BY <1>1, <2>1 DEF Framed
  <2>2. CASE k # "undec"
    <3>1. j < i
      BY <1>1, <2>2
    <3> QED BY <1>1, <3>1
  <2> QED BY <2>1, <2>2
<1> QED BY <1>1, <1>3, <1>4, RecoveredElim

\* A media corruption exposes what it puts out of replay's reach, and nothing else.
LEMMA RotStep ==
  ASSUME Inv, LogType', Rot
  PROVE  /\ AckedRecoverable' /\ StableHoldsAcked' /\ AppendableIsFramed'
         /\ GuardMarksPrefix' /\ PoisonedIsEmpty' /\ ClosedIsEmpty'
<1>0. LogType
  BY TypedParts DEF Inv
<1>1. PICK i \in 1 .. Len(file), k \in RotKinds :
        /\ file[i].kind = "ok" /\ file' = [file EXCEPT ![i].kind = k] /\ disk' = file'
        /\ exposed' = exposed \cup
             IF k = "undec" THEN {file[i].m} ELSE {file[j].m : j \in i .. Len(file)}
  BY DEF Rot
<1>2. /\ disk = file /\ recovery = "down"
      /\ UNCHANGED <<buf, stable, handle, recovery, appended, acked>>
  BY DEF Rot
<1> DEFINE f == file'
           e == [file[i] EXCEPT !.kind = k]
<1>3. /\ f \in Seq(Segment) /\ Len(f) = Len(file)
      /\ \A j \in 1 .. Len(file) : j # i => f[j] = file[j]
      /\ f[i].kind = k
  <2>1. e \in Segment /\ e.kind = k
    BY <1>0, <1>1, SegmentTypes DEF LogType, Segment
  <2>2. f = [file EXCEPT ![i] = e]
    BY <1>1
  <2>3. /\ f \in Seq(Segment) /\ Len(f) = Len(file)
        /\ \A j \in 1 .. Len(file) : f[j] = IF j = i THEN e ELSE file[j]
    <3> HIDE DEF f, e
    <3> QED BY <1>0, <2>1, <2>2, ExceptSeq DEF LogType
  <2> HIDE DEF f, e
  <2> QED BY <2>1, <2>3
<1>4. ASSUME NEW x \in acked \ exposed'
      PROVE  /\ file[i].m # x /\ x \in acked \ exposed
             /\ k # "undec" => \A j \in i .. Len(file) : file[j].m # x
  BY <1>0, <1>1 DEF LogType
<1>5. AckedRecoverable'
  <2> SUFFICES ASSUME NEW x \in acked \ exposed' PROVE x \in Recovered(f)
    BY <1>1, <1>2 DEF AckedRecoverable
  <2>1. x \in Recovered(file)
    BY <1>2, <1>4 DEF Inv, AckedRecoverable
  <2> HIDE DEF f
  <2>2. i \in Nat \ {0} /\ i <= Len(file) /\ file \in Seq(Segment)
    BY <1>0 DEF LogType
  <2>3. /\ i <= Len(file) => f[i].kind = k
        /\ i <= Len(file) => file[i].m # x
        /\ k # "undec" => \A j \in i .. Len(file) : file[j].m # x
    BY <1>3, <1>4
  <2> QED BY <1>3, <2>1, <2>2, <2>3, RotRecovered
<1>6. StableHoldsAcked'
  <2> SUFFICES ASSUME NEW x \in acked \ exposed' PROVE x \in Recovered(SubSeq(f, 1, stable))
    BY <1>2 DEF StableHoldsAcked
  <2> DEFINE u == SubSeq(file, 1, stable)
             v == SubSeq(f, 1, stable)
  <2>1. x \in Recovered(u)
    BY <1>4 DEF Inv, StableHoldsAcked
  <2>2. u \in Seq(Segment) /\ Len(u) = stable /\ \A j \in 1 .. stable : u[j] = file[j]
    BY <1>0, SubSeqOf DEF LogType
  <2>3. v \in Seq(Segment) /\ Len(v) = stable /\ \A j \in 1 .. stable : v[j] = f[j]
    <3>1. f \in Seq(Segment) /\ stable \in 0 .. Len(f)
      BY <1>0, <1>3 DEF LogType
    <3> HIDE DEF f
    <3> QED BY <3>1, SubSeqOf
  <2>4. /\ Len(v) = Len(u) /\ \A j \in 1 .. Len(u) : j # i => v[j] = u[j]
        /\ i <= Len(u) => v[i].kind = k
        /\ i <= Len(u) => u[i].m # x
        /\ k # "undec" => \A j \in i .. Len(u) : u[j].m # x
        /\ i \in Nat \ {0}
    <3>1. stable \in 0 .. Len(file) /\ Len(file) \in Nat
      BY <1>0 DEF LogType
    <3> HIDE DEF u, v, f
    <3> QED BY <1>3, <1>4, <2>2, <2>3, <3>1
  <2> HIDE DEF u, v
  <2>5. x \in Recovered(v)
    BY <2>1, <2>2, <2>3, <2>4, RotRecovered
  <2> QED BY <2>5 DEF v
<1>7. ~handle.open /\ handle = Closed /\ buf = <<>> /\ appended = {}
  BY <1>2 DEF Inv, ClosedIsEmpty
<1> QED BY <1>2, <1>5, <1>6, <1>7
        DEF AppendableIsFramed, GuardMarksPrefix, PoisonedIsEmpty, ClosedIsEmpty, Closed

\* The invariant holds at the start.
LEMMA InvInit == Init => Inv
<1> SUFFICES ASSUME Init PROVE Inv
  OBVIOUS
<1>1. handle = Closed /\ buf = <<>> /\ file = <<>> /\ appended = {} /\ acked = {}
      /\ recovery = "absent"
  BY DEF Init
<1> QED BY <1>1, TypedInit DEF Inv, AckedRecoverable, StableHoldsAcked, AppendableIsFramed,
        GuardMarksPrefix, PoisonedIsEmpty, ClosedIsEmpty, Closed

\* Every step keeps the invariant when no append fails half way.
LEMMA InvStep ==
  ASSUME Inv, [Next]_vars, "append" \notin Faults
  PROVE  Inv'
<1>1. Typed'
  BY TypedStep DEF Inv
<1>2. LogType' /\ HandleType'
  BY <1>1 DEF Typed, LogType, HandleType
<1> DEFINE Goal == /\ AckedRecoverable' /\ StableHoldsAcked' /\ AppendableIsFramed'
                   /\ GuardMarksPrefix' /\ PoisonedIsEmpty' /\ ClosedIsEmpty'
<1> SUFFICES Goal
  BY <1>1 DEF Inv
<1>3. CASE Create
  BY <1>3, CreateStep
<1>4. CASE OpenExisting
  BY <1>4, OpenExistingStep
<1>5. CASE ReplayEach
  BY <1>5, ReplayEachStep
<1>6. CASE PreserveCorruptWal
  BY <1>2, <1>6, PreserveStep
<1>7. CASE ResetToValidPrefix
  BY <1>2, <1>7, ResetStep
<1>8. ASSUME NEW m \in Mutation, AppendBuffered(m) \/ AppendSpilled(m)
      PROVE  Goal
  BY <1>2, <1>8, AppendStep
<1>9. ASSUME NEW m \in Mutation, AppendFails(m)
      PROVE  Goal
  BY <1>9 DEF AppendFails, Fault
<1>10. CASE Sync
  BY <1>2, <1>10, SyncStep
<1>11. CASE TruncateBeforeMutation
  <2>1. /\ InUse /\ EnsureNotPoisoned
        /\ UNCHANGED <<disk, stable, handle, recovery, appended, acked, exposed>>
        /\ \/ file' = file \o buf /\ buf' = <<>>
           \/ \E n \in 0 .. Len(buf) - 1 : PartialFlush(n)
    BY <1>11 DEF TruncateBeforeMutation, histVars
  <2> QED BY <1>2, <2>1, FlushStep
<1>12. CASE Truncate
  BY <1>2, <1>12, TruncateStep
<1>13. CASE Rotate
  BY <1>13, RotateStep
<1>14. ASSUME NEW t \in DOMAIN archive, DeleteOld(t)
       PROVE  Goal
  <2>1. UNCHANGED <<buf, file, disk, stable, handle, recovery, appended, acked, exposed>>
    BY <1>14 DEF DeleteOld, logVars
  <2> QED BY <2>1 DEF Inv, AckedRecoverable, StableHoldsAcked, AppendableIsFramed,
             GuardMarksPrefix, PoisonedIsEmpty, ClosedIsEmpty
<1>15. CASE Close
  <2>1. FlushAndDrop /\ UNCHANGED <<disk, stable, acked, exposed>>
    BY <1>15 DEF Close
  <2> QED BY <1>2, <2>1, FlushAndDropStep
<1>16. CASE Kill
  BY <1>2, <1>16, KillStep
<1>17. CASE PowerLoss
  BY <1>2, <1>17, PowerLossStep
<1>18. CASE Rot
  BY <1>2, <1>18, RotStep
<1>19. CASE Tick \/ UNCHANGED vars
  <2>1. UNCHANGED <<logVars, handle, recovery, histVars>>
    BY <1>19 DEF Tick, vars, logVars, histVars
  <2> QED BY <2>1, InvUntouched
<1> HIDE DEF Goal
<1> QED BY <1>3, <1>4, <1>5, <1>6, <1>7, <1>8, <1>9, <1>10, <1>11, <1>12, <1>13, <1>14,
           <1>15, <1>16, <1>17, <1>18, <1>19 DEF Next

\* Durability of acknowledged writes, for every set of mutations, every bound and
\* every combination of failing flushes, fsyncs, set_lens, seeks and copies, of
\* kills, power losses and media corruptions: as long as no append fails half-way
\* through its write, replay_each hands back every acknowledged mutation that the
\* medium itself did not damage.
THEOREM AckedNeverLost == "append" \notin Faults => (Spec => []AckedRecoverable)
<1> SUFFICES ASSUME "append" \notin Faults PROVE Spec => []AckedRecoverable
  OBVIOUS
<1>1. Init => Inv
  BY InvInit
<1>2. Inv /\ [Next]_vars => Inv'
  BY InvStep
<1>3. Inv => AckedRecoverable
  BY DEF Inv
<1> QED BY <1>1, <1>2, <1>3, PTL DEF Spec
-----------------------------------------------------------------------------
(* Evidence: the bytes of an acknowledged entry are not destroyed, whatever  *)
(* fails, an append half-way through its write included.                     *)

\* The mutations whose bytes the first n segments of a log hold.
Held(s, n) == {s[i].m : i \in 1 .. n}
Bytes(s) == Held(s, Len(s))

\* The part of the file on stable storage, or a copy, holds every acknowledged
\* entry ...
StableKeepsBytes == acked \subseteq evidence \cup Held(file, stable)

\* ... the log or its buffer every entry that the next sync acknowledges ...
AppendedKept == appended \subseteq evidence \cup Bytes(file) \cup Bytes(buf)

\* ... and a log that is about to be reset was copied aside as it is.
PreservedHolds == recovery = "preserved" => Bytes(file) \subseteq evidence

EvidenceInv ==
  /\ Typed
  /\ EvidenceKept
  /\ StableKeepsBytes
  /\ AppendedKept
  /\ PreservedHolds

\* A log that agrees with another on the mutations of its first n segments.
LEMMA HeldAgrees ==
  ASSUME NEW s, NEW t, NEW n \in Nat, NEW k \in Nat, n <= k,
         \A i \in 1 .. n : t[i].m = s[i].m
  PROVE  Held(s, n) \subseteq Held(t, k)
<1> SUFFICES ASSUME NEW i \in 1 .. n PROVE s[i].m \in Held(t, k)
  BY DEF Held
<1>1. i \in 1 .. k /\ t[i].m = s[i].m
  OBVIOUS
<1> QED BY <1>1 DEF Held

LEMMA BytesConcat ==
  ASSUME NEW s \in Seq(Segment), NEW t \in Seq(Segment)
  PROVE  Bytes(s \o t) = Bytes(s) \cup Bytes(t)
<1> DEFINE u == s \o t
<1>1. /\ Len(u) = Len(s) + Len(t) /\ \A i \in 1 .. Len(s) : u[i] = s[i]
      /\ \A i \in 1 .. Len(t) : u[Len(s) + i] = t[i]
      /\ Len(s) \in Nat /\ Len(t) \in Nat
  BY LogGrows
<1> HIDE DEF u
<1>2. ASSUME NEW x \in Bytes(u) PROVE x \in Bytes(s) \cup Bytes(t)
  <2>1. PICK i \in 1 .. Len(u) : x = u[i].m
    BY <1>2 DEF Bytes, Held
  <2>2. CASE i <= Len(s)
    <3>1. i \in 1 .. Len(s) /\ x = s[i].m
      BY <1>1, <2>1, <2>2
    <3> QED BY <3>1 DEF Bytes, Held
  <2>3. CASE i > Len(s)
    <3> DEFINE j == i - Len(s)
    <3>1. j \in 1 .. Len(t) /\ Len(s) + j = i
      BY <1>1, <2>3
    <3> HIDE DEF j
    <3>2. x = t[j].m
      BY <1>1, <2>1, <3>1
    <3> QED BY <3>1, <3>2 DEF Bytes, Held
  <2> QED BY <1>1, <2>2, <2>3
<1>3. Bytes(s) \subseteq Bytes(u)
  <2>1. Len(u) \in Nat /\ Len(s) <= Len(u) /\ \A i \in 1 .. Len(s) : u[i].m = s[i].m
    BY <1>1
  <2> QED BY <1>1, <2>1, HeldAgrees DEF Bytes
<1>4. ASSUME NEW i \in 1 .. Len(t) PROVE t[i].m \in Bytes(u)
  <2>1. Len(s) + i \in 1 .. Len(u) /\ u[Len(s) + i] = t[i]
    BY <1>1
  <2> QED BY <2>1 DEF Bytes, Held
<1>5. Bytes(t) \subseteq Bytes(u)
  BY <1>4 DEF Bytes, Held
<1> QED BY <1>2, <1>3, <1>5 DEF u

LEMMA BytesEmpty == Bytes(<<>>) = {}
BY DEF Bytes, Held

\* The steps that only add to the file: what is on stable storage stays there.
LEMMA LogExtended ==
  ASSUME EvidenceInv, Len(file') \in Nat, Len(file) <= Len(file'),
         \A i \in 1 .. Len(file) : file'[i] = file[i],
         evidence \subseteq evidence', UNCHANGED <<disk, stable, acked>>
  PROVE  EvidenceKept' /\ StableKeepsBytes'
<1>1. EvidenceKept'
  BY DEF EvidenceInv, EvidenceKept
<1>2. stable \in Nat /\ \A i \in 1 .. stable : file'[i].m = file[i].m
  BY DEF EvidenceInv, Typed
<1>3. Held(file, stable) \subseteq Held(file', stable')
  BY <1>2, HeldAgrees
<1> QED BY <1>1, <1>3 DEF EvidenceInv, StableKeepsBytes

\* The steps that leave the log and its bookkeeping alone.
LEMMA LogUntouched ==
  ASSUME EvidenceInv, UNCHANGED <<logVars, appended, acked>>, evidence \subseteq evidence'
  PROVE  EvidenceKept' /\ StableKeepsBytes' /\ AppendedKept'
BY DEF EvidenceInv, EvidenceKept, StableKeepsBytes, AppendedKept, logVars, Bytes

\* A handle that is dropped owes nothing, and the log is not in a reset.
LEMMA DroppedOwesNothing ==
  ASSUME Drop
  PROVE  AppendedKept' /\ PreservedHolds'
BY DEF Drop, AppendedKept, PreservedHolds

\* open_existing trims a torn header at the end of the file: no entry goes with it.
LEMMA TornTailHoldsNothing ==
  ASSUME NEW s \in Seq(Segment), WalStop(s) = "TornTail", NEW n \in 0 .. Len(s)
  PROVE  LET end == ValidEnd(s)
             k   == IF n < end THEN n ELSE end
         IN  Held(s, n) \cap Mutation \subseteq Held(SubSeq(s, 1, end), k)
<1> DEFINE end == ValidEnd(s)
           k == IF n < end THEN n ELSE end
           cut == SubSeq(s, 1, end)
<1>1. end = Len(s) - 1 /\ s[Len(s)].kind = "torn" /\ Len(s) \in Nat
  BY DEF WalStop
<1>2. end \in 0 .. Len(s)
  BY ValidEndProperties
<1>3. \A i \in 1 .. end : cut[i] = s[i]
  BY <1>2, SubSeqOf
<1>4. s[Len(s)].m \notin Mutation
  <2>1. s[Len(s)] \in Segment
    BY <1>1, <1>2
  <2> QED BY <1>1, <2>1, MutationAssumption DEF Segment, RotKinds
<1> HIDE DEF end, cut
<1>5. ASSUME NEW x \in Held(s, n) \cap Mutation PROVE x \in Held(cut, k)
  <2>1. PICK i \in 1 .. n : x = s[i].m
    BY <1>5 DEF Held
  <2>2. i # Len(s)
    BY <1>4, <1>5, <2>1
  <2>3. i \in 1 .. k /\ i \in 1 .. end
    BY <1>1, <2>2
  <2> QED BY <1>3, <2>1, <2>3 DEF Held
<1> QED BY <1>5 DEF end, cut

LEMMA OpenExistingEvidence ==
  ASSUME EvidenceInv, OpenExisting
  PROVE  EvidenceKept' /\ StableKeepsBytes' /\ AppendedKept' /\ PreservedHolds'
<1> DEFINE end == ValidEnd(file)
           cut == SubSeq(file, 1, end)
<1>1. /\ file \in Seq(Segment) /\ stable \in 0 .. Len(file) /\ Len(file) \in Nat
      /\ acked \subseteq Mutation /\ appended \subseteq Mutation
  BY DEF EvidenceInv, Typed
<1>2. end \in 0 .. Len(file) /\ cut \in Seq(Segment) /\ Len(cut) = end
  <2>1. end \in 0 .. Len(file)
    BY <1>1, ValidEndProperties
  <2> HIDE DEF end
  <2> QED BY <1>1, <2>1, SubSeqOf
<1>3. UNCHANGED <<buf, evidence, acked, appended>> /\ recovery' # "preserved"
  BY DEF OpenExisting, histVars
<1>4. PreservedHolds'
  BY <1>3 DEF PreservedHolds
<1>5. CASE WalStop(file) # "TornTail"
  <2>1. UNCHANGED <<file, disk, stable>>
    BY <1>5 DEF OpenExisting
  <2> QED BY <1>3, <1>4, <2>1, LogUntouched DEF logVars
<1>6. CASE WalStop(file) = "TornTail"
  <2>1. /\ file' = cut
        /\ \/ disk' = cut /\ stable' = Len(cut)
           \/ UNCHANGED disk /\ stable' = StableAfterCut(end)
    BY <1>6 DEF OpenExisting
  <2>2. ASSUME NEW n \in 0 .. Len(file)
        PROVE  Held(file, n) \cap Mutation \subseteq Held(cut, IF n < end THEN n ELSE end)
    BY <1>1, <1>6, TornTailHoldsNothing
  <2> HIDE DEF end, cut
  <2>3. Bytes(file) \cap Mutation \subseteq Bytes(cut)
    <3>1. (IF Len(file) < end THEN Len(file) ELSE end) = Len(cut)
      BY <1>1, <1>2
    <3>2. Len(file) \in 0 .. Len(file)
      BY <1>1
    <3>3. Held(file, Len(file)) \cap Mutation
            \subseteq Held(cut, IF Len(file) < end THEN Len(file) ELSE end)
      BY <2>2, <3>2
    <3> QED BY <3>1, <3>3 DEF Bytes
  <2>4. Held(file, stable) \cap Mutation \subseteq Held(cut, StableAfterCut(end))
    BY <1>1, <2>2 DEF StableAfterCut
  <2>5. Held(file, stable) \subseteq Bytes(file)
    BY <1>1, HeldAgrees DEF Bytes
  <2>6. AppendedKept'
    BY <1>1, <1>3, <2>1, <2>3 DEF EvidenceInv, AppendedKept
  <2>7. CASE disk' = cut /\ stable' = Len(cut)
    <3>1. acked \subseteq evidence \cup Bytes(cut)
      BY <1>1, <2>3, <2>5 DEF EvidenceInv, StableKeepsBytes
    <3>2. Held(file', stable') = Bytes(cut) /\ {disk'[i].m : i \in 1 .. Len(disk')} = Bytes(cut)
      BY <2>1, <2>7 DEF Bytes, Held
    <3> QED BY <1>3, <1>4, <2>6, <3>1, <3>2 DEF StableKeepsBytes, EvidenceKept
  <2>8. CASE UNCHANGED disk /\ stable' = StableAfterCut(end)
    <3>1. StableKeepsBytes'
      BY <1>1, <1>3, <2>1, <2>4, <2>8 DEF EvidenceInv, StableKeepsBytes
    <3>2. EvidenceKept'
      BY <1>3, <2>8 DEF EvidenceInv, EvidenceKept
    <3> QED BY <1>4, <2>6, <3>1, <3>2
  <2> QED BY <2>1, <2>7, <2>8
<1> QED BY <1>5, <1>6

\* preserve_corrupt_wal, or its failure.
LEMMA PreserveEvidence ==
  ASSUME EvidenceInv, PreserveCorruptWal
  PROVE  EvidenceKept' /\ StableKeepsBytes' /\ AppendedKept' /\ PreservedHolds'
<1>1. UNCHANGED <<disk, stable, acked>>
  BY DEF PreserveCorruptWal
<1>2. CASE /\ evidence' = evidence \cup {file[i].m : i \in 1 .. Len(file)}
           /\ UNCHANGED <<handle, buf, file, appended>>
  <2>1. EvidenceKept' /\ StableKeepsBytes' /\ AppendedKept'
    BY <1>1, <1>2, LogUntouched DEF logVars
  <2>2. PreservedHolds'
    BY <1>2 DEF PreservedHolds, Bytes, Held
  <2> QED BY <2>1, <2>2
<1>3. CASE FlushAndDrop /\ UNCHANGED evidence
  <2>1. file' = file \o buf /\ Drop
    BY <1>3 DEF FlushAndDrop
  <2>2. Len(file') \in Nat /\ Len(file) <= Len(file') /\ \A i \in 1 .. Len(file) : file'[i] = file[i]
    BY <2>1, BufferFlushed DEF EvidenceInv, Typed, LogType
  <2>3. EvidenceKept' /\ StableKeepsBytes'
    BY <1>1, <1>3, <2>2, LogExtended
  <2> QED BY <2>1, <2>3, DroppedOwesNothing
<1> QED BY <1>2, <1>3 DEF PreserveCorruptWal

\* reset_to_valid_prefix cuts only a log that was copied aside.
LEMMA ResetEvidence ==
  ASSUME EvidenceInv, ResetToValidPrefix
  PROVE  EvidenceKept' /\ StableKeepsBytes' /\ AppendedKept' /\ PreservedHolds'
<1>1. /\ file \in Seq(Segment) /\ stable \in 0 .. Len(file) /\ Len(file) \in Nat
  BY DEF EvidenceInv, Typed
<1>2. recovery = "preserved" /\ UNCHANGED <<evidence, acked>> /\ recovery' # "preserved"
  BY DEF ResetToValidPrefix, Drop
<1>3. Bytes(file) \subseteq evidence
  BY <1>2 DEF EvidenceInv, PreservedHolds
<1>4. Held(file, stable) \subseteq Bytes(file)
  BY <1>1, HeldAgrees DEF Bytes
<1>5. acked' \subseteq evidence'
  BY <1>2, <1>3, <1>4 DEF EvidenceInv, StableKeepsBytes
<1>6. EvidenceKept' /\ StableKeepsBytes'
  BY <1>5 DEF EvidenceKept, StableKeepsBytes
<1>7. AppendedKept'
  <2>1. appended' = {} \/ (appended' = appended /\ buf' = buf)
    BY DEF ResetToValidPrefix, Drop, logVars
  <2> QED BY <1>2, <1>3, <2>1 DEF EvidenceInv, AppendedKept
<1> QED BY <1>2, <1>6, <1>7 DEF PreservedHolds

\* The file with the buffer and more segments behind it.
LEMMA FileExtended ==
  ASSUME LogType, NEW t \in Seq(Segment)
  PROVE  LET f == (file \o buf) \o t
         IN  /\ f \in Seq(Segment) /\ Len(f) \in Nat /\ Len(file) <= Len(f)
             /\ \A i \in 1 .. Len(file) : f[i] = file[i]
             /\ Bytes(f) = Bytes(file) \cup Bytes(buf) \cup Bytes(t)
<1> DEFINE fb == file \o buf
           f == fb \o t
<1>1. /\ fb \in Seq(Segment) /\ Len(fb) = Len(file) + Len(buf)
      /\ \A i \in 1 .. Len(file) : fb[i] = file[i]
      /\ Len(file) \in Nat /\ Len(buf) \in Nat /\ Len(t) \in Nat
  BY BufferFlushed DEF LogType
<1>2. Bytes(fb) = Bytes(file) \cup Bytes(buf)
  BY BytesConcat DEF LogType
<1> HIDE DEF fb
<1>3. /\ f \in Seq(Segment) /\ Len(f) = Len(fb) + Len(t)
      /\ \A i \in 1 .. Len(fb) : f[i] = fb[i]
  BY <1>1, LogGrows
<1>4. Bytes(f) = Bytes(fb) \cup Bytes(t)
  BY <1>1, BytesConcat
<1> HIDE DEF f
<1>5. Len(f) \in Nat /\ Len(file) <= Len(f) /\ \A i \in 1 .. Len(file) : f[i] = file[i]
  BY <1>1, <1>3
<1> QED BY <1>2, <1>3, <1>4, <1>5 DEF f, fb

\* The file with the buffer behind it.
LEMMA FileFlushed ==
  ASSUME LogType
  PROVE  /\ Len(file \o buf) \in Nat /\ Len(file) <= Len(file \o buf)
         /\ \A i \in 1 .. Len(file) : (file \o buf)[i] = file[i]
         /\ Bytes(file \o buf) = Bytes(file) \cup Bytes(buf)
<1>1. Len(file) \in Nat /\ Len(buf) \in Nat
  BY DEF LogType
<1> QED BY <1>1, BufferFlushed, BytesConcat DEF LogType

\* append, complete or not: what it writes, it adds.
LEMMA AppendEvidence ==
  ASSUME EvidenceInv, NEW m \in Mutation,
         AppendBuffered(m) \/ AppendSpilled(m) \/ AppendFails(m)
  PROVE  EvidenceKept' /\ StableKeepsBytes' /\ AppendedKept' /\ PreservedHolds'
<1>1. LogType
  BY TypedParts DEF EvidenceInv
<1>2. PICK t \in Seq(Segment) :
         /\ \/ file' = file /\ buf' = buf \o t
            \/ file' = (file \o buf) \o t /\ buf' = <<>>
         /\ appended' \subseteq appended \cup Bytes(t)
  <2>1. CASE AppendBuffered(m) \/ AppendSpilled(m)
    <3> DEFINE t == AtCursor(<<Entry(m)>>)
    <3>1. <<Entry(m)>> \in Seq(Segment) /\ <<Fragment("hole")>> \in Seq(Segment)
      BY SegmentTypes
    <3>2. m \in Bytes(<<Entry(m)>>)
      <4>1. Len(<<Entry(m)>>) = 1 /\ <<Entry(m)>>[1].m = m
        BY DEF Entry
      <4> QED BY <4>1 DEF Bytes, Held
    <3>3. t \in Seq(Segment) /\ m \in Bytes(t)
      <4>1. CASE handle.cursor_stale
        <5> DEFINE a == <<Fragment("hole")>>
                   b == <<Entry(m)>>
        <5>1. t = a \o b
          BY <4>1 DEF AtCursor
        <5> HIDE DEF a, b, t
        <5>2. a \in Seq(Segment) /\ b \in Seq(Segment) /\ m \in Bytes(b)
          BY <3>1, <3>2 DEF a, b
        <5>3. a \o b \in Seq(Segment) /\ Bytes(a \o b) = Bytes(a) \cup Bytes(b)
          BY <5>2, LogGrows, BytesConcat
        <5> QED BY <5>1, <5>2, <5>3
      <4>2. CASE ~handle.cursor_stale
        BY <3>1, <3>2, <4>2 DEF AtCursor
      <4> QED BY <4>1, <4>2
    <3>4. /\ appended' = appended \cup {m}
          /\ \/ file' = file /\ buf' = buf \o t
             \/ file' = (file \o buf) \o t /\ buf' = <<>>
      BY <2>1 DEF AppendBuffered, AppendSpilled
    <3> HIDE DEF t
    <3> QED BY <3>3, <3>4
  <2>2. CASE AppendFails(m)
    <3>1. <<Fragment("short")>> \in Seq(Segment)
      BY SegmentTypes DEF FragmentKinds
    <3> QED BY <2>2, <3>1 DEF AppendFails, histVars
  <2> QED BY <2>1, <2>2
<1>3. UNCHANGED <<disk, stable, acked, evidence, recovery>> /\ recovery # "preserved"
  BY DEF AppendBuffered, AppendSpilled, AppendFails, AppendAdmitted, InUse, histVars
<1>4. CASE file' = file /\ buf' = buf \o t
  <2>1. Bytes(buf') = Bytes(buf) \cup Bytes(t)
    BY <1>1, <1>4, BytesConcat DEF LogType
  <2>2. Len(file) \in Nat
    BY <1>1 DEF LogType
  <2>3. EvidenceKept' /\ StableKeepsBytes'
    BY <1>3, <1>4, <2>2, LogExtended
  <2> QED BY <1>2, <1>3, <1>4, <2>1, <2>3 DEF EvidenceInv, AppendedKept, PreservedHolds
<1>5. CASE file' = (file \o buf) \o t /\ buf' = <<>>
  <2>1. /\ Len(file') \in Nat /\ Len(file) <= Len(file')
        /\ \A i \in 1 .. Len(file) : file'[i] = file[i]
        /\ Bytes(file') = Bytes(file) \cup Bytes(buf) \cup Bytes(t)
    BY <1>1, <1>5, FileExtended
  <2>2. EvidenceKept' /\ StableKeepsBytes'
    BY <1>3, <2>1, LogExtended
  <2> QED BY <1>2, <1>3, <2>1, <2>2 DEF EvidenceInv, AppendedKept, PreservedHolds
<1> QED BY <1>2, <1>4, <1>5

\* A flush, complete or not, that no fsync follows.
LEMMA FlushEvidence ==
  ASSUME EvidenceInv, InUse,
         \/ file' = file \o buf /\ buf' = <<>>
         \/ \E n \in 0 .. Len(buf) - 1 : PartialFlush(n),
         UNCHANGED <<disk, stable, acked, appended, evidence, recovery>>
  PROVE  EvidenceKept' /\ StableKeepsBytes' /\ AppendedKept' /\ PreservedHolds'
<1>1. LogType
  BY TypedParts DEF EvidenceInv
<1>2. /\ Len(file') \in Nat /\ Len(file) <= Len(file')
      /\ \A i \in 1 .. Len(file) : file'[i] = file[i]
      /\ Bytes(file') \cup Bytes(buf') = Bytes(file) \cup Bytes(buf)
  <2>1. CASE file' = file \o buf /\ buf' = <<>>
    BY <1>1, <2>1, FileFlushed, BytesEmpty
  <2>2. ASSUME NEW n \in 0 .. Len(buf) - 1, PartialFlush(n)
        PROVE  /\ Len(file') \in Nat /\ Len(file) <= Len(file')
               /\ \A i \in 1 .. Len(file) : file'[i] = file[i]
               /\ Bytes(file') \cup Bytes(buf') = Bytes(file) \cup Bytes(buf)
    <3> DEFINE f == file'
               b == buf'
    <3>1. /\ f \in Seq(Segment) /\ b \in Seq(Segment) /\ Len(f) = Len(file) + n
          /\ f \o b = file \o buf /\ \A i \in 1 .. Len(file) : f[i] = file[i]
      BY <1>1, <2>2, PartialFlushType
    <3>2. Len(f) \in Nat /\ Len(file) <= Len(f)
      BY <1>1, <3>1 DEF LogType
    <3>3. Bytes(file \o buf) = Bytes(file) \cup Bytes(buf)
      BY <1>1, BytesConcat DEF LogType
    <3> HIDE DEF f, b
    <3>4. Bytes(f \o b) = Bytes(f) \cup Bytes(b)
      BY <3>1, BytesConcat
    <3>5. Bytes(f) \cup Bytes(b) = Bytes(file) \cup Bytes(buf)
      BY <3>1, <3>3, <3>4
    <3> QED BY <3>1, <3>2, <3>5 DEF f, b
  <2> QED BY <2>1, <2>2
<1>3. EvidenceKept' /\ StableKeepsBytes'
  BY <1>2, LogExtended
<1>4. AppendedKept'
  BY <1>2 DEF EvidenceInv, AppendedKept
<1> QED BY <1>3, <1>4 DEF PreservedHolds, InUse

LEMMA SyncEvidence ==
  ASSUME EvidenceInv, Sync
  PROVE  EvidenceKept' /\ StableKeepsBytes' /\ AppendedKept' /\ PreservedHolds'
<1>1. LogType
  BY TypedParts DEF EvidenceInv
<1>2. UNCHANGED <<evidence, recovery>> /\ InUse
  BY DEF Sync
<1>3. CASE /\ file' = file \o buf /\ disk' = file' /\ stable' = Len(file')
           /\ acked' = acked \cup appended /\ appended' = {}
  <2>1. Held(file, stable) \subseteq Bytes(file)
    BY <1>1, HeldAgrees DEF Bytes, LogType
  <2>2. acked' \subseteq evidence' \cup Bytes(file')
    BY <1>1, <1>2, <1>3, <2>1, FileFlushed DEF EvidenceInv, StableKeepsBytes, AppendedKept
  <2>3. Bytes(file') = Held(file', stable') /\ Bytes(file') = {disk'[i].m : i \in 1 .. Len(disk')}
    BY <1>3 DEF Bytes, Held
  <2> QED BY <1>2, <1>3, <2>2, <2>3
          DEF EvidenceKept, StableKeepsBytes, AppendedKept, PreservedHolds, InUse
<1>4. CASE /\ UNCHANGED <<disk, stable, acked, appended>>
           /\ \/ file' = file \o buf /\ buf' = <<>>
              \/ \E n \in 0 .. Len(buf) - 1 : PartialFlush(n)
  BY <1>2, <1>4, FlushEvidence
<1> QED BY <1>3, <1>4 DEF Sync

\* A kill or an orderly close adds to the file, if anything.
LEMMA KillEvidence ==
  ASSUME EvidenceInv, Kill
  PROVE  EvidenceKept' /\ StableKeepsBytes' /\ AppendedKept' /\ PreservedHolds'
<1>1. LogType
  BY TypedParts DEF EvidenceInv
<1>2. PICK n \in 0 .. Len(buf), tail \in Tails : file' = file \o SubSeq(buf, 1, n) \o tail
  BY DEF Kill
<1> DEFINE b == SubSeq(buf, 1, n)
           fb == file \o b
<1>3. file \in Seq(Segment) /\ b \in Seq(Segment) /\ tail \in Seq(Segment)
  BY <1>1, SubSeqOf, TailsType DEF LogType
<1> HIDE DEF b
<1>4. /\ fb \in Seq(Segment) /\ Len(fb) = Len(file) + Len(b)
      /\ \A i \in 1 .. Len(file) : fb[i] = file[i]
  BY <1>3, LogGrows
<1> HIDE DEF fb
<1>5. /\ Len(fb \o tail) = Len(fb) + Len(tail)
      /\ \A i \in 1 .. Len(fb) : (fb \o tail)[i] = fb[i]
  BY <1>3, <1>4, LogGrows
<1>6. file' = fb \o tail
  BY <1>2 DEF fb, b
<1>7. Len(file) \in Nat /\ Len(b) \in Nat /\ Len(tail) \in Nat
  BY <1>3
<1>8. Len(file') \in Nat /\ Len(file) <= Len(file') /\ \A i \in 1 .. Len(file) : file'[i] = file[i]
  <2>1. /\ Len(fb \o tail) \in Nat /\ Len(file) <= Len(fb \o tail)
        /\ \A i \in 1 .. Len(file) : i \in 1 .. Len(fb)
    BY <1>4, <1>5, <1>7
  <2>2. \A i \in 1 .. Len(file) : (fb \o tail)[i] = file[i]
    BY <1>4, <1>5, <2>1
  <2> QED BY <1>6, <2>1, <2>2
<1>9. Drop /\ UNCHANGED <<disk, stable, acked, evidence>>
  BY DEF Kill
<1> QED BY <1>8, <1>9, LogExtended, DroppedOwesNothing

LEMMA CloseEvidence ==
  ASSUME EvidenceInv, Close
  PROVE  EvidenceKept' /\ StableKeepsBytes' /\ AppendedKept' /\ PreservedHolds'
<1>1. Drop /\ file' = file \o buf /\ UNCHANGED <<disk, stable, acked, evidence>>
  BY DEF Close, FlushAndDrop
<1>2. LogType
  BY TypedParts DEF EvidenceInv
<1>3. Len(file') \in Nat /\ Len(file) <= Len(file') /\ \A i \in 1 .. Len(file) : file'[i] = file[i]
  BY <1>1, <1>2, FileFlushed
<1> QED BY <1>1, <1>3, LogExtended, DroppedOwesNothing

\* A power loss leaves the last synced contents or a file that has the stable part.
LEMMA PowerLossEvidence ==
  ASSUME EvidenceInv, PowerLoss
  PROVE  EvidenceKept' /\ StableKeepsBytes' /\ AppendedKept' /\ PreservedHolds'
<1>1. LogType
  BY TypedParts DEF EvidenceInv
<1>2. PICK image \in PowerLossImages : file' = image /\ disk' = image /\ stable' = Len(image)
  BY DEF PowerLoss
<1>3. Drop /\ UNCHANGED <<acked, evidence>>
  BY DEF PowerLoss
<1>4. acked \subseteq evidence \cup Bytes(image)
  <2>1. CASE image = disk
    BY <2>1 DEF EvidenceInv, EvidenceKept, Bytes, Held
  <2>2. ASSUME NEW n \in stable .. Len(file), NEW tail \in Tails,
               image = SubSeq(file, 1, n) \o tail
        PROVE  acked \subseteq evidence \cup Bytes(image)
    <3> DEFINE f == SubSeq(file, 1, n)
    <3>1. n \in 0 .. Len(file) /\ stable \in Nat /\ n \in Nat /\ stable <= n
      BY <1>1 DEF LogType
    <3>2. /\ f \in Seq(Segment) /\ tail \in Seq(Segment) /\ Len(f) = n
          /\ \A i \in 1 .. n : f[i] = file[i]
      BY <1>1, <3>1, SubSeqOf, TailsType DEF LogType
    <3> HIDE DEF f
    <3>3. Bytes(f \o tail) = Bytes(f) \cup Bytes(tail)
      BY <3>2, BytesConcat
    <3>4. Held(file, stable) \subseteq Bytes(f)
      BY <3>1, <3>2, HeldAgrees DEF Bytes
    <3>5. image = f \o tail
      BY <2>2 DEF f
    <3> QED BY <3>3, <3>4, <3>5 DEF EvidenceInv, StableKeepsBytes
  <2> QED BY <2>1, <2>2 DEF PowerLossImages
<1>5. Bytes(image) = Held(file', stable') /\ Bytes(image) = {disk'[i].m : i \in 1 .. Len(disk')}
  BY <1>2 DEF Bytes, Held
<1> QED BY <1>3, <1>4, <1>5, DroppedOwesNothing DEF EvidenceKept, StableKeepsBytes

\* A corrupted entry is still there to be looked at.
LEMMA RotEvidence ==
  ASSUME EvidenceInv, Rot
  PROVE  EvidenceKept' /\ StableKeepsBytes' /\ AppendedKept' /\ PreservedHolds'
<1>1. /\ file \in Seq(Segment) /\ Len(file) \in Nat /\ stable \in 0 .. Len(file)
  BY DEF EvidenceInv, Typed
<1>2. PICK i \in 1 .. Len(file), k \in RotKinds :
        file[i].kind = "ok" /\ file' = [file EXCEPT ![i].kind = k] /\ disk' = file'
  BY DEF Rot
<1>3. /\ disk = file /\ recovery = "down"
      /\ UNCHANGED <<buf, stable, recovery, appended, acked, evidence>>
  BY DEF Rot
<1> DEFINE f == file'
           e == [file[i] EXCEPT !.kind = k]
<1>4. Len(f) = Len(file) /\ \A j \in 1 .. Len(file) : f[j].m = file[j].m
  <2>1. file[i] \in Segment
    BY <1>1
  <2>2. e \in Segment /\ e.m = file[i].m
    BY <1>2, <2>1, SegmentTypes DEF Segment
  <2>3. f = [file EXCEPT ![i] = e]
    BY <1>2
  <2>4. Len(f) = Len(file) /\ \A j \in 1 .. Len(file) : f[j] = IF j = i THEN e ELSE file[j]
    <3> HIDE DEF f, e
    <3> QED BY <1>1, <2>2, <2>3, ExceptSeq
  <2> HIDE DEF f, e
  <2> QED BY <2>2, <2>4
<1>5. Bytes(file') = Bytes(file) /\ Held(file', stable) = Held(file, stable)
  <2> HIDE DEF f
  <2>1. Bytes(f) = Bytes(file)
    BY <1>4 DEF Bytes, Held
  <2>2. Held(f, stable) = Held(file, stable)
    BY <1>1, <1>4 DEF Held
  <2> QED BY <2>1, <2>2 DEF f
<1>6. {disk'[j].m : j \in 1 .. Len(disk')} = {disk[j].m : j \in 1 .. Len(disk)}
  BY <1>2, <1>3, <1>5 DEF Bytes, Held
<1> QED BY <1>3, <1>5, <1>6
        DEF EvidenceInv, EvidenceKept, StableKeepsBytes, AppendedKept, PreservedHolds

LEMMA EvidenceInit == Init => EvidenceInv
<1> SUFFICES ASSUME Init PROVE EvidenceInv
  OBVIOUS
<1>1. acked = {} /\ appended = {} /\ recovery = "absent"
  BY DEF Init
<1> QED BY <1>1, TypedInit
        DEF EvidenceInv, EvidenceKept, StableKeepsBytes, AppendedKept, PreservedHolds

LEMMA EvidenceStep ==
  ASSUME EvidenceInv, [Next]_vars
  PROVE  EvidenceInv'
<1>1. Typed'
  BY TypedStep DEF EvidenceInv
<1> DEFINE Goal == EvidenceKept' /\ StableKeepsBytes' /\ AppendedKept' /\ PreservedHolds'
<1> SUFFICES Goal
  BY <1>1 DEF EvidenceInv
<1>2. ASSUME UNCHANGED <<logVars, appended, acked, evidence>>, recovery' # "preserved"
      PROVE  Goal
  BY <1>2, LogUntouched DEF PreservedHolds
<1>3. ASSUME UNCHANGED <<logVars, appended, acked, evidence, recovery>>
      PROVE  Goal
  <2>1. PreservedHolds'
    BY <1>3 DEF EvidenceInv, PreservedHolds, logVars
  <2> QED BY <1>3, <2>1, LogUntouched
<1>4. CASE Create
  BY <1>2, <1>4 DEF Create, histVars
<1>5. CASE ReplayEach
  BY <1>2, <1>5 DEF ReplayEach, AfterReplay, histVars
<1>6. CASE OpenExisting \/ PreserveCorruptWal \/ ResetToValidPrefix
  BY <1>6, OpenExistingEvidence, PreserveEvidence, ResetEvidence
<1>7. ASSUME NEW m \in Mutation, AppendBuffered(m) \/ AppendSpilled(m) \/ AppendFails(m)
      PROVE  Goal
  BY <1>7, AppendEvidence
<1>8. CASE Sync \/ Close \/ Kill \/ PowerLoss \/ Rot
  BY <1>8, SyncEvidence, CloseEvidence, KillEvidence, PowerLossEvidence, RotEvidence
<1>9. CASE TruncateBeforeMutation
  BY <1>9, FlushEvidence DEF TruncateBeforeMutation, histVars
<1>10. CASE Truncate \/ Rotate
  <2>1. acked' = {} /\ appended' = {} /\ recovery' # "preserved"
    BY <1>10 DEF Truncate, Rotate, InUse
  <2> QED BY <2>1 DEF EvidenceKept, StableKeepsBytes, AppendedKept, PreservedHolds
<1>11. ASSUME NEW t \in DOMAIN archive, DeleteOld(t) PROVE Goal
  BY <1>3, <1>11 DEF DeleteOld
<1>12. CASE Tick \/ UNCHANGED vars
  BY <1>3, <1>12 DEF Tick, vars, histVars
<1> HIDE DEF Goal
<1> QED BY <1>4, <1>5, <1>6, <1>7, <1>8, <1>9, <1>10, <1>11, <1>12 DEF Next

LEMMA EvidenceInvariant == Spec => []EvidenceInv
BY EvidenceInit, EvidenceStep, PTL DEF Spec

\* No recovery destroys what was acknowledged: open_existing trims only a header
\* cut short, reset_to_valid_prefix cuts only what preserve_corrupt_wal has copied
\* and synced, and every other step adds to the log.  Unlike AckedNeverLost this
\* needs no hypothesis: it holds for every combination of faults.
THEOREM AckedBytesKept == Spec => []EvidenceKept
<1>1. EvidenceInv => EvidenceKept
  BY DEF EvidenceInv
<1> QED BY <1>1, EvidenceInvariant, PTL

\* A walk that reports nothing wrong has handed back every entry of the log: it
\* reached the end over decodable entries, or stopped at a header cut short.
LEMMA CleanReportIsWhole ==
  ASSUME NEW s \in Seq(Segment), IsClean(RecoveryReport(s))
  PROVE  Bytes(s) \cap Mutation \subseteq RecoveryReport(s).mutations
<1> DEFINE end == ValidEnd(s)
<1>1. /\ end \in 0 .. Len(s) /\ Len(s) \in Nat
      /\ \A i \in 1 .. end : Framed(s[i])
  BY ValidEndProperties
<1>2. /\ \A i \in 1 .. end : s[i].kind # "undec"
      /\ WalStop(s) # "Corruption"
  BY DEF IsClean, RecoveryReport
<1>3. end = Len(s) \/ (end = Len(s) - 1 /\ s[Len(s)].kind = "torn")
  BY <1>2 DEF WalStop
<1> HIDE DEF end
<1>4. ASSUME NEW x \in Bytes(s) \cap Mutation PROVE x \in Recovered(s)
  <2>1. PICK i \in 1 .. Len(s) : x = s[i].m
    BY <1>4 DEF Bytes, Held
  <2>2. i \in 1 .. end
    <3>1. CASE end = Len(s)
      BY <3>1
    <3>2. CASE end = Len(s) - 1 /\ s[Len(s)].kind = "torn"
      <4>1. s[i] \in Segment
        OBVIOUS
      <4>2. s[i].kind # "torn"
        BY <1>4, <2>1, <4>1, MutationAssumption DEF Segment, RotKinds
      <4>3. i # Len(s)
        BY <3>2, <4>2
      <4> QED BY <1>1, <3>2, <4>3
    <3> QED BY <1>3, <3>1, <3>2
  <2>3. \A j \in 1 .. i : j \in 1 .. end
    BY <1>1, <2>2
  <2>4. s[i].kind = "ok" /\ \A j \in 1 .. i : Framed(s[j])
    BY <1>1, <1>2, <2>2, <2>3 DEF Framed
  <2> QED BY <2>1, <2>4, RecoveredElim
<1> QED BY <1>4 DEF RecoveryReport

\* No recovery is silently lossy: when the RecoveryReport of replay_each is clean
\* it hands back every acknowledged mutation that no earlier recovery set aside,
\* for every combination of faults and however often the log was damaged.
THEOREM LossIsReported == Spec => LossReported
<1>1. ASSUME EvidenceInv, ReplayEach, IsClean(report')
      PROVE  acked \ evidence \subseteq report'.mutations
  <2>1. report' = RecoveryReport(file)
    BY <1>1 DEF ReplayEach
  <2>2. /\ file \in Seq(Segment) /\ stable \in 0 .. Len(file) /\ Len(file) \in Nat
        /\ acked \subseteq Mutation
    BY <1>1 DEF EvidenceInv, Typed
  <2>3. Held(file, stable) \subseteq Bytes(file)
    BY <2>2, HeldAgrees DEF Bytes
  <2>4. Bytes(file) \cap Mutation \subseteq report'.mutations
    BY <1>1, <2>1, <2>2, CleanReportIsWhole
  <2> QED BY <1>1, <2>2, <2>3, <2>4 DEF EvidenceInv, StableKeepsBytes
<1>2. EvidenceInv /\ [Next]_vars =>
        [ReplayEach => (acked \ evidence \subseteq report'.mutations \/ ~IsClean(report'))]_vars
  BY <1>1
<1> QED BY <1>2, EvidenceInvariant, PTL DEF Spec, LossReported

-----------------------------------------------------------------------------
(* Archives.                                                                 *)

\* The name of an archive is the second of its rotation: no two rotations fall
\* into the same one.
DistinctSeconds == [][Rotate => clock \notin DOMAIN archive]_vars

InArchive(x) == \E t \in DOMAIN archive : x \in Bytes(archive[t])

LEMMA ArchivedKeptElim == ArchivedKept <=> \A x \in archived : x \in evidence \/ InArchive(x)
BY DEF ArchivedKept, InArchive, Bytes, Held

LEMMA RotateArchives ==
  ASSUME EvidenceInv, ArchivedKept, Rotate, clock \notin DOMAIN archive
  PROVE  ArchivedKept'
<1>1. /\ DOMAIN archive' = DOMAIN archive \cup {clock}
      /\ archive'[clock] = file \o buf
      /\ \A t \in DOMAIN archive : archive'[t] = archive[t]
      /\ archived' \subseteq archived \cup acked \cup appended
      /\ evidence' = evidence
  BY DEF Rotate, RotatedLog
<1>2. LogType
  BY TypedParts DEF EvidenceInv
<1>3. Bytes(archive'[clock]) = Bytes(file) \cup Bytes(buf)
  BY <1>1, <1>2, FileFlushed
<1>4. Held(file, stable) \subseteq Bytes(file)
  BY <1>2, HeldAgrees DEF Bytes, LogType
<1>5. acked \cup appended \subseteq evidence \cup Bytes(archive'[clock])
  BY <1>3, <1>4 DEF EvidenceInv, StableKeepsBytes, AppendedKept
<1>6. ASSUME NEW x \in archived' PROVE x \in evidence' \/ InArchive(x)'
  <2>1. CASE x \in archived
    BY <1>1, <2>1, ArchivedKeptElim DEF InArchive
  <2>2. CASE x \notin archived
    BY <1>1, <1>5, <1>6, <2>2 DEF InArchive
  <2> QED BY <2>1, <2>2
<1>7. \A x \in archived' : x \in evidence' \/ InArchive(x)'
  BY <1>6
<1> QED BY <1>7 DEF ArchivedKept, InArchive, Bytes, Held

LEMMA DeleteArchives ==
  ASSUME ArchivedKept, NEW t \in DOMAIN archive, DeleteOld(t)
  PROVE  ArchivedKept'
<1>1. /\ DOMAIN archive' = DOMAIN archive \ {t}
      /\ \A u \in DOMAIN archive \ {t} : archive'[u] = archive[u]
      /\ archived' = archived \ Bytes(archive[t]) /\ evidence' = evidence
  BY DEF DeleteOld, Bytes, Held
<1>2. ASSUME NEW x \in archived' PROVE x \in evidence' \/ InArchive(x)'
  <2>1. x \in evidence \/ \E u \in DOMAIN archive \ {t} : x \in Bytes(archive[u])
    BY <1>1, <1>2, ArchivedKeptElim DEF InArchive
  <2> QED BY <1>1, <2>1 DEF InArchive
<1> QED BY <1>2 DEF ArchivedKept, InArchive, Bytes, Held

LEMMA ArchiveUntouched ==
  ASSUME ArchivedKept, evidence \subseteq evidence', UNCHANGED <<archive, archived>>
  PROVE  ArchivedKept'
BY DEF ArchivedKept

LEMMA ArchiveStep ==
  ASSUME EvidenceInv, ArchivedKept, [Next]_vars,
         [Rotate => clock \notin DOMAIN archive]_vars
  PROVE  ArchivedKept'
<1>1. CASE UNCHANGED vars
  BY <1>1, ArchiveUntouched DEF vars, histVars
<1>2. CASE vars' # vars /\ Rotate
  BY <1>2, RotateArchives
<1>3. ASSUME NEW t \in DOMAIN archive, DeleteOld(t) PROVE ArchivedKept'
  BY <1>3, DeleteArchives
<1>4. CASE Create \/ OpenExisting \/ ReplayEach \/ Tick
  BY <1>4, ArchiveUntouched DEF Create, OpenExisting, ReplayEach, Tick, histVars
<1>5. CASE PreserveCorruptWal \/ ResetToValidPrefix \/ Truncate \/ TruncateBeforeMutation
  <2>1. evidence \subseteq evidence' /\ UNCHANGED <<archive, archived>>
    BY <1>5 DEF PreserveCorruptWal, ResetToValidPrefix, Truncate, TruncateBeforeMutation,
                histVars
  <2> QED BY <2>1, ArchiveUntouched
<1>6. ASSUME NEW m \in Mutation, AppendBuffered(m) \/ AppendSpilled(m) \/ AppendFails(m)
      PROVE  ArchivedKept'
  BY <1>6, ArchiveUntouched DEF AppendBuffered, AppendSpilled, AppendFails, histVars
<1>7. CASE Sync \/ Close \/ Kill \/ PowerLoss \/ Rot
  BY <1>7, ArchiveUntouched DEF Sync, Close, Kill, PowerLoss, Rot
<1> QED BY <1>1, <1>2, <1>3, <1>4, <1>5, <1>6, <1>7 DEF Next

\* rotate keeps every acknowledged entry it moves out of the log, from the file and
\* from the buffer, until delete_old removes the archive, provided no two rotations
\* fall into the same second: a second rename would replace the first archive.
THEOREM RotatedEntriesKept == Spec /\ DistinctSeconds => []ArchivedKept
<1>1. Init => ArchivedKept
  BY DEF Init, ArchivedKept
<1>2. /\ EvidenceInv /\ ArchivedKept /\ [Next]_vars
      /\ [Rotate => clock \notin DOMAIN archive]_vars
      => ArchivedKept'
  BY ArchiveStep
<1> QED BY <1>1, <1>2, EvidenceInvariant, PTL DEF Spec, DistinctSeconds

=============================================================================
