------------------------ MODULE MergeProducerProofs ------------------------
(***************************************************************************)
(* Proofs about MergeProducer: the types, that a merge which reports       *)
(* Complete handed on every row of every input, and that the process-wide  *)
(* counters settle, for any number of merges, inputs and rows, whatever    *)
(* fails, dies or is cancelled.                                            *)
(***************************************************************************)
EXTENDS MergeProducer, FiniteSetTheorems, SequenceTheorems, TLAPS

(***************************************************************************)
(* The rows of an input between its producer and the reconciliation.       *)
(***************************************************************************)
Nonzero(n) == {n} \ {0}
ItemsOf(c) == {c[i].row : i \in {j \in 1 .. Len(c) : c[j].tag = "Item"}}
RowsIn(b) == {b[i] : i \in 1 .. Len(b)}

Reached(r) ==
    out[r] \cup Nonzero(held[r]) \cup Nonzero(head[r])
        \cup RowsIn(buffer[r]) \cup ItemsOf(chan[r])

(* No row of the input was lost: a call that failed leaves a verdict or a   *)
(* cancelled token behind, and neither goes away.                           *)
Clean(r) ==
    state[r] = "Finished" \/ (state[r] = "Streaming" /\ ~cancelled[Owner[r]])

(* The producer of r and its channel.                                       *)
ProducerInv(r) ==
    /\ pc[r] = "unborn" => /\ pos[r] = 0 /\ received[r] = 0 /\ ~rx[r]
                           /\ state[r] = "Streaming" /\ chan[r] = <<>>
    /\ sent[r] = IF pc[r] = "count" THEN pos[r] - 1 ELSE pos[r]
    /\ received[r] <= pos[r]
    /\ rx[r] /\ pc[r] \notin {"exit", "dead"} => received[r] + Len(chan[r]) = pos[r]
    /\ pc[r] = "term" /\ verdict[r] = "Done" /\ rx[r] => pos[r] = Rows[r]
    /\ \A i \in 1 .. Len(chan[r]) :
          IF chan[r][i].tag = "Item"
          THEN received[r] + i <= pos[r]
          ELSE /\ i = Len(chan[r]) /\ pc[r] \in {"exit", "dead"}
               /\ chan[r][i].tag = "Done" => pos[r] = Rows[r]

(* The reader of r: Done comes after the last row, so an input that is      *)
(* finished has shown all its rows.                                         *)
ReaderInv(r) ==
    /\ state[r] = "Finished" =>
          chan[r] = <<>> /\ pc[r] \in {"exit", "dead"} /\ pos[r] = Rows[r]
    /\ exhausted[r] => state[r] = "Finished"
    /\ Clean(r) => Reached(r) = 1 .. pos[r]

(* The merge m: which of its inputs a call or the teardown has dealt with.  *)
OpenInv(m) ==
    /\ phase[m] = "idle" => \A r \in RunsOf(m) : pc[r] = "unborn"
    /\ phase[m] = "open" => \A r \in todo[m] : pc[r] = "unborn"
    /\ phase[m] \in {"idle", "open"} => \A r \in RunsOf(m) : held[r] = 0

Drained(r) == exhausted[r] /\ buffer[r] = <<>>

CallInv(m) ==
    /\ phase[m] = "run" =>
          /\ \A r \in todo[m] : head[r] = 0
          /\ \A r \in RunsOf(m) : held[r] # 0 => todo[m] = {r}
          /\ todo[m] # {} /\ (\A r \in RunsOf(m) : held[r] = 0) =>
                \A r \in RunsOf(m) \ todo[m] : head[r] = 0 => Drained(r)
    /\ phase[m] = "complete" =>
          \A r \in RunsOf(m) : Drained(r) /\ head[r] = 0 /\ held[r] = 0

(* The teardown of r's merge has settled r.                                 *)
Joined(r) ==
    \/ phase[Owner[r]] = "gone"
    \/ phase[Owner[r]] = "drop" /\ r \notin todo[Owner[r]]

MergeInv(m) == todo[m] \subseteq RunsOf(m) /\ OpenInv(m) /\ CallInv(m)

JoinInv(r) == Joined(r) => pc[r] \in {"unborn", "dead"}

(***************************************************************************)
(* The counters count: registered merges, running producers, and the rows  *)
(* sent and not received of the inputs that are not settled.               *)
(***************************************************************************)
Registered == {m \in Merges : phase[m] \notin {"idle", "gone"}}
Running == {r \in Runs : pc[r] \notin {"unborn", "dead"}}
Tokens(count) == {p \in Runs \X Nat : ~Joined(p[1]) /\ p[2] \in 1 .. count[p[1]]}

CountInv == active = Cardinality(Registered) /\ live = Cardinality(Running)

DepthInv ==
    /\ IsFiniteSet(Tokens(sent)) /\ IsFiniteSet(Tokens(received))
    /\ depth = Cardinality(Tokens(sent)) - Cardinality(Tokens(received))

IInv ==
    /\ Typed
    /\ \A r \in Runs : ProducerInv(r) /\ ReaderInv(r) /\ JoinInv(r)
    /\ \A m \in Merges : MergeInv(m)
    /\ CountInv /\ DepthInv

-----------------------------------------------------------------------------
(* Sequences of rows and of messages.                                       *)

LEMMA MsgType ==
  /\ \A n \in Nat : Item(n + 1) \in MergeMsg
  /\ \A v \in {"Done", "Failed"} : Terminator(v) \in MergeMsg
  /\ \A x \in MergeMsg : /\ x.tag \in {"Item", "Done", "Failed"} /\ x.row \in Nat
                         /\ x.tag = "Item" => x.row \in Nat \ {0}
BY DEF MergeMsg, Item, Terminator

LEMMA RowsInHead ==
  ASSUME NEW S, NEW b \in Seq(S), b # <<>>
  PROVE  RowsIn(b) = {Head(b)} \cup RowsIn(Tail(b))
<1>1. /\ Len(Tail(b)) = Len(b) - 1 /\ Len(b) \in Nat \ {0} /\ Head(b) = b[1]
      /\ \A i \in 1 .. Len(Tail(b)) : Tail(b)[i] = b[i + 1]
  BY HeadTailProperties, EmptySeq
<1>2. ASSUME NEW x \in RowsIn(b) PROVE x \in {Head(b)} \cup RowsIn(Tail(b))
  <2>1. PICK i \in 1 .. Len(b) : x = b[i]
    BY <1>2 DEF RowsIn
  <2>2. CASE i = 1
    BY <1>1, <2>1, <2>2
  <2>3. CASE i # 1
    <3>1. i - 1 \in 1 .. Len(Tail(b)) /\ Tail(b)[i - 1] = x
      BY <1>1, <2>1, <2>3
    <3> QED BY <3>1 DEF RowsIn
  <2> QED BY <2>2, <2>3
<1>3. ASSUME NEW x \in {Head(b)} \cup RowsIn(Tail(b)) PROVE x \in RowsIn(b)
  <2>1. CASE x = Head(b)
    BY <1>1, <2>1 DEF RowsIn
  <2>2. CASE x \in RowsIn(Tail(b))
    <3>1. PICK i \in 1 .. Len(Tail(b)) : x = Tail(b)[i]
      BY <2>2 DEF RowsIn
    <3>2. i + 1 \in 1 .. Len(b) /\ x = b[i + 1]
      BY <1>1, <3>1
    <3> QED BY <3>2 DEF RowsIn
  <2> QED BY <1>3, <2>1, <2>2
<1> QED BY <1>2, <1>3

LEMMA RowsInAppend ==
  ASSUME NEW S, NEW b \in Seq(S), NEW x \in S
  PROVE  RowsIn(Append(b, x)) = RowsIn(b) \cup {x}
<1>1. /\ Len(Append(b, x)) = Len(b) + 1 /\ Len(b) \in Nat
      /\ \A i \in 1 .. Len(b) : Append(b, x)[i] = b[i]
      /\ Append(b, x)[Len(b) + 1] = x
  BY AppendProperties
<1>2. ASSUME NEW y \in RowsIn(Append(b, x)) PROVE y \in RowsIn(b) \cup {x}
  <2>1. PICK i \in 1 .. Len(b) + 1 : y = Append(b, x)[i]
    BY <1>1, <1>2 DEF RowsIn
  <2> QED BY <1>1, <2>1 DEF RowsIn
<1>3. ASSUME NEW y \in RowsIn(b) \cup {x} PROVE y \in RowsIn(Append(b, x))
  <2>1. CASE y = x
    <3>1. Len(b) + 1 \in 1 .. Len(Append(b, x)) /\ Append(b, x)[Len(b) + 1] = y
      BY <1>1, <2>1
    <3> QED BY <3>1 DEF RowsIn
  <2>2. CASE y \in RowsIn(b)
    <3>1. PICK i \in 1 .. Len(b) : y = b[i]
      BY <2>2 DEF RowsIn
    <3>2. i \in 1 .. Len(Append(b, x)) /\ Append(b, x)[i] = y
      BY <1>1, <3>1
    <3> QED BY <3>2 DEF RowsIn
  <2> QED BY <1>3, <2>1, <2>2
<1> QED BY <1>2, <1>3

LEMMA ItemsOfHead ==
  ASSUME NEW S, NEW c \in Seq(S), c # <<>>
  PROVE  ItemsOf(c) = ItemsOf(Tail(c))
                        \cup (IF Head(c).tag = "Item" THEN {Head(c).row} ELSE {})
<1> DEFINE h == IF Head(c).tag = "Item" THEN {Head(c).row} ELSE {}
<1>1. /\ Len(Tail(c)) = Len(c) - 1 /\ Len(c) \in Nat \ {0} /\ Head(c) = c[1]
      /\ \A i \in 1 .. Len(Tail(c)) : Tail(c)[i] = c[i + 1]
  BY HeadTailProperties, EmptySeq
<1>2. ASSUME NEW x \in ItemsOf(c) PROVE x \in ItemsOf(Tail(c)) \cup h
  <2>1. PICK i \in 1 .. Len(c) : c[i].tag = "Item" /\ x = c[i].row
    BY <1>2 DEF ItemsOf
  <2>2. CASE i = 1
    BY <1>1, <2>1, <2>2
  <2>3. CASE i # 1
    <3>1. i - 1 \in 1 .. Len(Tail(c)) /\ Tail(c)[i - 1] = c[i]
      BY <1>1, <2>3
    <3> QED BY <2>1, <3>1 DEF ItemsOf
  <2> QED BY <2>2, <2>3
<1>3. ASSUME NEW x \in ItemsOf(Tail(c)) \cup h PROVE x \in ItemsOf(c)
  <2>1. CASE x \in h
    <3>1. 1 \in 1 .. Len(c) /\ c[1].tag = "Item" /\ x = c[1].row
      BY <1>1, <2>1
    <3> QED BY <3>1 DEF ItemsOf
  <2>2. CASE x \in ItemsOf(Tail(c))
    <3>1. PICK i \in 1 .. Len(Tail(c)) : Tail(c)[i].tag = "Item" /\ x = Tail(c)[i].row
      BY <2>2 DEF ItemsOf
    <3>2. i + 1 \in 1 .. Len(c) /\ Tail(c)[i] = c[i + 1]
      BY <1>1, <3>1
    <3> QED BY <3>1, <3>2 DEF ItemsOf
  <2> QED BY <1>3, <2>1, <2>2
<1> QED BY <1>2, <1>3

LEMMA ItemsOfAppend ==
  ASSUME NEW S, NEW c \in Seq(S), NEW x \in S
  PROVE  ItemsOf(Append(c, x)) =
            ItemsOf(c) \cup (IF x.tag = "Item" THEN {x.row} ELSE {})
<1>1. /\ Len(Append(c, x)) = Len(c) + 1 /\ Len(c) \in Nat
      /\ \A i \in 1 .. Len(c) : Append(c, x)[i] = c[i]
      /\ Append(c, x)[Len(c) + 1] = x
  BY AppendProperties
<1> DEFINE h == IF x.tag = "Item" THEN {x.row} ELSE {}
<1>2. ASSUME NEW y \in ItemsOf(Append(c, x)) PROVE y \in ItemsOf(c) \cup h
  <2>1. PICK i \in 1 .. Len(c) + 1 :
           Append(c, x)[i].tag = "Item" /\ y = Append(c, x)[i].row
    BY <1>1, <1>2 DEF ItemsOf
  <2>2. CASE i = Len(c) + 1
    BY <1>1, <2>1, <2>2
  <2>3. CASE i \in 1 .. Len(c)
    <3>1. c[i].tag = "Item" /\ y = c[i].row
      BY <1>1, <2>1, <2>3
    <3> QED BY <2>3, <3>1 DEF ItemsOf
  <2> QED BY <1>1, <2>2, <2>3
<1>3. ASSUME NEW y \in ItemsOf(c) \cup h PROVE y \in ItemsOf(Append(c, x))
  <2>1. CASE y \in h
    <3>1. /\ Len(c) + 1 \in 1 .. Len(Append(c, x))
          /\ Append(c, x)[Len(c) + 1].tag = "Item" /\ y = Append(c, x)[Len(c) + 1].row
      BY <1>1, <2>1
    <3> QED BY <3>1 DEF ItemsOf
  <2>2. CASE y \in ItemsOf(c)
    <3>1. PICK i \in 1 .. Len(c) : c[i].tag = "Item" /\ y = c[i].row
      BY <2>2 DEF ItemsOf
    <3>2. i \in 1 .. Len(Append(c, x)) /\ Append(c, x)[i] = c[i]
      BY <1>1, <3>1
    <3> QED BY <3>1, <3>2 DEF ItemsOf
  <2> QED BY <1>3, <2>1, <2>2
<1> QED BY <1>2, <1>3

LEMMA AppendedRows ==
  ASSUME NEW S, NEW b \in Seq(S), NEW x \in S
  PROVE  Append(b, x) \in Seq(S) /\ Append(b, x) # <<>>
<1>1. Append(b, x) \in Seq(S) /\ Len(Append(b, x)) = Len(b) + 1 /\ Len(b) \in Nat
  BY AppendProperties
<1>2. Len(Append(b, x)) # 0
  BY <1>1
<1> QED BY <1>1, <1>2, EmptySeq

LEMMA EmptyRows == RowsIn(<<>>) = {} /\ ItemsOf(<<>>) = {}
BY DEF RowsIn, ItemsOf

-----------------------------------------------------------------------------
(* The counters.                                                            *)

LEMMA RegisteredFinite == IsFiniteSet(Registered) /\ Cardinality(Registered) \in Nat
BY MergeProducerAssumption, FS_Subset, FS_CardinalityType DEF Registered

LEMMA RunningFinite == IsFiniteSet(Running) /\ Cardinality(Running) \in Nat
BY MergeProducerAssumption, FS_Subset, FS_CardinalityType DEF Running

(* The tokens of one input are as many as its count says.                   *)
LEMMA TokensOfOne ==
  ASSUME NEW r \in Runs, NEW n \in Nat
  PROVE  IsFiniteSet({r} \X (1 .. n)) /\ Cardinality({r} \X (1 .. n)) = n
<1>1. IsFiniteSet(1 .. n) /\ Cardinality(1 .. n) = n
  BY FS_Interval
<1>2. IsFiniteSet({r}) /\ Cardinality({r}) = 1
  BY FS_Singleton
<1>3. /\ IsFiniteSet({r} \X (1 .. n))
      /\ Cardinality({r} \X (1 .. n)) = Cardinality({r}) * Cardinality(1 .. n)
  BY <1>1, <1>2, FS_Product
<1> QED BY <1>1, <1>2, <1>3

(* One more row counted for an input that is not settled.                   *)
LEMMA TokenAdded ==
  ASSUME NEW f \in [Runs -> Nat], NEW g \in [Runs -> Nat], NEW r \in Runs,
         g = [f EXCEPT ![r] = @ + 1], ~Joined(r), IsFiniteSet(Tokens(f))
  PROVE  /\ IsFiniteSet(Tokens(g))
         /\ Cardinality(Tokens(g)) = Cardinality(Tokens(f)) + 1
<1>1. Tokens(g) = Tokens(f) \cup {<<r, f[r] + 1>>}
  <2>1. ASSUME NEW p \in Tokens(g) PROVE p \in Tokens(f) \cup {<<r, f[r] + 1>>}
    <3>1. p \in Runs \X Nat /\ ~Joined(p[1]) /\ p[2] \in 1 .. g[p[1]]
      BY <2>1 DEF Tokens
    <3>2. p = <<p[1], p[2]>> /\ p[1] \in Runs /\ p[2] \in Nat
      BY <3>1
    <3>3. CASE p[1] # r
      BY <3>1, <3>2, <3>3 DEF Tokens
    <3>4. CASE p[1] = r /\ p[2] = f[r] + 1
      BY <3>2, <3>4
    <3>5. CASE p[1] = r /\ p[2] # f[r] + 1
      <4>1. p[2] \in 1 .. f[p[1]]
        BY <3>1, <3>2, <3>5
      <4> QED BY <3>1, <4>1 DEF Tokens
    <3> QED BY <3>3, <3>4, <3>5
  <2>2. ASSUME NEW p \in Tokens(f) \cup {<<r, f[r] + 1>>} PROVE p \in Tokens(g)
    BY <2>2 DEF Tokens
  <2> QED BY <2>1, <2>2
<1>2. <<r, f[r] + 1>> \notin Tokens(f)
  BY DEF Tokens
<1> HIDE DEF Tokens
<1>3. /\ IsFiniteSet(Tokens(f) \cup {<<r, f[r] + 1>>})
      /\ Cardinality(Tokens(f) \cup {<<r, f[r] + 1>>}) =
            IF <<r, f[r] + 1>> \in Tokens(f) THEN Cardinality(Tokens(f))
            ELSE Cardinality(Tokens(f)) + 1
  BY FS_AddElement
<1> QED BY <1>1, <1>2, <1>3

(* The tokens of an input that is settled now are gone.                     *)
LEMMA TokensRemoved ==
  ASSUME NEW f \in [Runs -> Nat], NEW T, NEW r \in Runs, ~Joined(r),
         IsFiniteSet(Tokens(f)), T = {p \in Tokens(f) : p[1] # r}
  PROVE  IsFiniteSet(T) /\ Cardinality(T) = Cardinality(Tokens(f)) - f[r]
<1> DEFINE U == {r} \X (1 .. f[r])
<1>1. U \subseteq Tokens(f) /\ T = Tokens(f) \ U
  <2>1. ASSUME NEW p \in U PROVE p \in Tokens(f) /\ p[1] = r
    BY <2>1 DEF Tokens
  <2>2. ASSUME NEW p \in Tokens(f), p[1] = r PROVE p \in U
    <3>1. p \in Runs \X Nat /\ p[2] \in 1 .. f[p[1]]
      BY DEF Tokens
    <3>2. p = <<p[1], p[2]>>
      BY <3>1
    <3> QED BY <2>2, <3>1, <3>2
  <2> QED BY <2>1, <2>2
<1>2. IsFiniteSet(U) /\ Cardinality(U) = f[r]
  BY TokensOfOne
<1>3. U \cap Tokens(f) = U
  BY <1>1
<1> HIDE DEF U
<1>4. /\ IsFiniteSet(Tokens(f) \ U)
      /\ Cardinality(Tokens(f) \ U) = Cardinality(Tokens(f)) - Cardinality(Tokens(f) \cap U)
  BY FS_Difference
<1>5. Tokens(f) \cap U = U
  BY <1>3
<1> QED BY <1>1, <1>2, <1>4, <1>5

-----------------------------------------------------------------------------
(* Types.                                                                   *)

LEMMA CapacityType == \A n \in Nat \ {0} : capacity_from(n) \in Nat
<1> SUFFICES ASSUME NEW n \in Nat \ {0} PROVE capacity_from(n) \in Nat
  OBVIOUS
<1>1. Budget \div n \in Int
  BY MergeProducerAssumption
<1> DEFINE q == Budget \div n
<1>2. clamp(q, MinCap, MaxCap) \in Nat
  <2> HIDE DEF q
  <2>1. q \in Int
    BY <1>1 DEF q
  <2> QED BY <2>1, MergeProducerAssumption DEF clamp
<1> QED BY <1>2 DEF capacity_from

LEMMA TypeInit == Init => Typed
BY DEF Init, Typed, Phases, ProducerPcs, RunState

(* What a call's outcome changes keeps its types.                           *)
CallType ==
    /\ phase \in [Merges -> Phases] /\ todo \in [Merges -> SUBSET Runs]
    /\ refilling \in [Merges -> BOOLEAN] /\ erred \in [Merges -> BOOLEAN]
    /\ head \in [Runs -> Nat] /\ held \in [Runs -> Nat]
    /\ out \in [Runs -> SUBSET (Nat \ {0})]

LEMMA RefilledType ==
  ASSUME CallType, NEW m \in Merges, NEW r \in Runs, NEW h \in Nat, Refilled(m, r, h)
  PROVE  CallType'
<1>1. out' \in [Runs -> SUBSET (Nat \ {0})]
  BY DEF CallType, Refilled
<1>2. phase' \in [Merges -> Phases]
  BY DEF CallType, Refilled, Phases
<1>3. todo' \in [Merges -> SUBSET Runs] /\ refilling' \in [Merges -> BOOLEAN]
  BY DEF CallType, Refilled
<1>4. head' \in [Runs -> Nat] /\ held' \in [Runs -> Nat] /\ erred' \in [Merges -> BOOLEAN]
  BY DEF CallType, Refilled
<1> QED BY <1>1, <1>2, <1>3, <1>4 DEF CallType

LEMMA RefillFailsType ==
  ASSUME CallType, NEW m \in Merges, NEW r \in Runs, RefillFails(m, r)
  PROVE  CallType'
BY DEF CallType, RefillFails

LEMMA EndsRunType ==
  ASSUME CallType, NEW m \in Merges, NEW r \in Runs, EndsRun(m, r),
         buffer \in [Runs -> Seq(Nat \ {0})], exhausted \in [Runs -> BOOLEAN]
  PROVE  /\ CallType' /\ buffer' \in [Runs -> Seq(Nat \ {0})]
         /\ exhausted' \in [Runs -> BOOLEAN]
<1>1. exhausted' \in [Runs -> BOOLEAN]
  BY DEF EndsRun
<1>2. CASE buffer[r] = <<>>
  BY <1>1, <1>2, RefilledType DEF EndsRun
<1>3. CASE buffer[r] # <<>>
  <2>1. Head(buffer[r]) \in Nat \ {0} /\ Tail(buffer[r]) \in Seq(Nat \ {0})
    BY <1>3, HeadTailProperties
  <2> QED BY <1>1, <1>3, <2>1, RefilledType DEF EndsRun
<1> QED BY <1>2, <1>3

LEMMA TypedCall ==
  Typed => CallType
BY DEF Typed, CallType

LEMMA ChanTail ==
  ASSUME Typed, NEW r \in Runs, chan[r] # <<>>
  PROVE  /\ [chan EXCEPT ![r] = Tail(@)] \in [Runs -> Seq(MergeMsg)]
         /\ Head(chan[r]) \in MergeMsg
BY HeadTailProperties DEF Typed

LEMMA ProducerType ==
  ASSUME Typed, NEW r \in Runs, Producer(r) \/ ProducerFault(r)
  PROVE  Typed'
<1> USE DEF Typed, ProducerPcs, counters, mergeVars, adapterVars, readerVars
<1>1. CASE decode_row(r)
  BY <1>1 DEF decode_row
<1>2. CASE forward_row(r)
  <2>1. Append(chan[r], Item(pos[r] + 1)) \in Seq(MergeMsg)
    <3>1. Item(pos[r] + 1) \in MergeMsg /\ chan[r] \in Seq(MergeMsg)
      BY MsgType
    <3> QED BY <3>1, AppendProperties
  <2>2. chan' \in [Runs -> Seq(MergeMsg)]
    BY <1>2, <2>1 DEF forward_row
  <2> QED BY <1>2, <2>2 DEF forward_row
<1>3. CASE count_sent(r)
  BY <1>3 DEF count_sent
<1>4. CASE walk_ends(r)
  BY <1>4 DEF walk_ends
<1>5. CASE walk_cancelled(r)
  BY <1>5 DEF walk_cancelled
<1>6. CASE walk_fails(r)
  BY <1>6 DEF walk_fails
<1>7. CASE send_terminator(r)
  <2>1. Append(chan[r], Terminator(verdict[r])) \in Seq(MergeMsg)
    <3>1. Terminator(verdict[r]) \in MergeMsg /\ chan[r] \in Seq(MergeMsg)
      BY MsgType
    <3> QED BY <3>1, AppendProperties
  <2>2. chan' \in [Runs -> Seq(MergeMsg)]
    BY <1>7, <2>1 DEF send_terminator
  <2> QED BY <1>7, <2>2 DEF send_terminator
<1>8. CASE die_silently(r)
  BY <1>8 DEF die_silently
<1>9. CASE thread_exits(r)
  BY <1>9 DEF thread_exits
<1> QED BY <1>1, <1>2, <1>3, <1>4, <1>5, <1>6, <1>7, <1>8, <1>9
        DEF Producer, ProducerFault

LEMMA MergerType ==
  ASSUME Typed, CountInv, NEW m \in Merges,
         Caller(m) \/ Opening(m) \/ Teardown(m) \/ CallBegins(m)
  PROVE  Typed'
<1> USE DEF Typed, Phases, ProducerPcs, counters, mergeVars, producerVars,
            adapterVars, readerVars, RunsOf
<1>1. CASE begin_merge(m)
  <2>1. active' \in Nat \ {0}
    BY <1>1, RegisteredFinite DEF begin_merge, CountInv
  <2>2. capacity_from(active') \in Nat
    BY <2>1, CapacityType
  <2>3. active' \in Int /\ cap' \in [Merges -> Nat]
    BY <1>1, <2>1, <2>2 DEF begin_merge
  <2>4. phase' \in [Merges -> Phases] /\ todo' \in [Merges -> SUBSET Runs]
    BY <1>1 DEF begin_merge
  <2> QED BY <1>1, <2>3, <2>4 DEF begin_merge
<1>2. CASE cancel(m)
  BY <1>2 DEF cancel
<1>3. CASE drop_merger(m)
  BY <1>3 DEF drop_merger
<1>4. ASSUME NEW r \in Runs, open(m, r) PROVE Typed'
  <2>1. phase' \in [Merges -> Phases] /\ todo' \in [Merges -> SUBSET Runs]
    BY <1>4 DEF open
  <2>2. live' \in Int /\ pc' \in [Runs -> ProducerPcs] /\ rx' \in [Runs -> BOOLEAN]
    BY <1>4 DEF open
  <2> QED BY <1>4, <2>1, <2>2 DEF open
<1>5. ASSUME NEW r \in Runs, open_spawn_fails(m, r) PROVE Typed'
  BY <1>5 DEF open_spawn_fails
<1>6. CASE drop_egress_slot(m)
  BY <1>6 DEF drop_egress_slot
<1>7. ASSUME NEW r \in Runs, drop_receiver(m, r) PROVE Typed'
  BY <1>7 DEF drop_receiver
<1>8. ASSUME NEW r \in Runs, join_producer(m, r) PROVE Typed'
  <2>1. depth' \in Int
    BY <1>8 DEF join_producer, reconcile_residual
  <2> QED BY <1>8, <2>1 DEF join_producer
<1>9. CASE initialize_heap(m)
  BY <1>9 DEF initialize_heap
<1>10. ASSUME NEW r \in Runs, pull_one(m, r) PROVE Typed'
  BY <1>10 DEF pull_one
<1> QED BY <1>1, <1>2, <1>3, <1>4, <1>5, <1>6, <1>7, <1>8, <1>9, <1>10
        DEF Caller, Opening, Teardown, CallBegins

LEMMA InCallType ==
  ASSUME Typed, NEW m \in Merges, InCall(m)
  PROVE  Typed'
<1> CallType
  BY TypedCall
<1> USE DEF CallType, RunState, counters, producerVars, adapterVars
<1>1. ASSUME NEW r \in Runs, advance_buffered(m, r) PROVE Typed'
  <2>1. Head(buffer[r]) \in Nat \ {0} /\ Tail(buffer[r]) \in Seq(Nat \ {0})
    BY <1>1, HeadTailProperties DEF advance_buffered, Typed
  <2>2. CallType'
    BY <1>1, <2>1, RefilledType DEF advance_buffered
  <2> QED BY <1>1, <2>1, <2>2 DEF advance_buffered, Typed
<1>2. ASSUME NEW r \in Runs, advance_exhausted(m, r) PROVE Typed'
  <2>1. CallType'
    BY <1>2, RefilledType DEF advance_exhausted
  <2> QED BY <1>2, <2>1 DEF advance_exhausted, Typed
<1>3. ASSUME NEW r \in Runs, next_item(m, r) PROVE Typed'
  <2> DEFINE full == Append(buffer[r], Head(chan[r]).row)
  <2>1. chan' \in [Runs -> Seq(MergeMsg)] /\ Head(chan[r]) \in MergeMsg
    BY <1>3, ChanTail DEF next_item
  <2>2. Head(chan[r]).row \in Nat \ {0}
    BY <1>3, <2>1, MsgType DEF next_item
  <2>3. full \in Seq(Nat \ {0}) /\ full # <<>>
    <3> DEFINE S == Nat \ {0}
    <3>1. buffer[r] \in Seq(S) /\ Head(chan[r]).row \in S
      BY <2>2 DEF Typed
    <3> HIDE DEF S
    <3> QED BY <3>1, AppendedRows DEF S
  <2>4. Head(full) \in Nat \ {0} /\ Tail(full) \in Seq(Nat \ {0})
    BY <2>3, HeadTailProperties
  <2>5. \/ /\ buffer' = [buffer EXCEPT ![r] = full]
           /\ refilling' = [refilling EXCEPT ![m] = TRUE]
           /\ UNCHANGED <<phase, todo, erred, head, held, out>>
        \/ /\ buffer' = [buffer EXCEPT ![r] = Tail(full)]
           /\ Refilled(m, r, Head(full))
    BY <1>3 DEF next_item
  <2> HIDE DEF full
  <2>6. CallType' /\ buffer' \in [Runs -> Seq(Nat \ {0})]
    <3>1. CASE /\ buffer' = [buffer EXCEPT ![r] = full]
               /\ refilling' = [refilling EXCEPT ![m] = TRUE]
               /\ UNCHANGED <<phase, todo, erred, head, held, out>>
      BY <2>3, <3>1 DEF Typed
    <3>2. CASE buffer' = [buffer EXCEPT ![r] = Tail(full)] /\ Refilled(m, r, Head(full))
      <4>1. CallType'
        BY <2>4, <3>2, RefilledType
      <4> QED BY <2>4, <3>2, <4>1 DEF Typed
    <3> QED BY <2>5, <3>1, <3>2
  <2>7. depth' \in Int /\ received' \in [Runs -> Nat]
    BY <1>3 DEF next_item, Typed
  <2>8. UNCHANGED <<active, live, cap, cancelled, pc, pos, verdict, sent, rx, state, exhausted>>
    BY <1>3 DEF next_item
  <2> QED BY <2>1, <2>6, <2>7, <2>8 DEF Typed
<1>4. ASSUME NEW r \in Runs, next_done(m, r) PROVE Typed'
  <2>1. chan' \in [Runs -> Seq(MergeMsg)]
    BY <1>4, ChanTail DEF next_done
  <2>2. CallType' /\ buffer' \in [Runs -> Seq(Nat \ {0})] /\ exhausted' \in [Runs -> BOOLEAN]
    BY <1>4, EndsRunType DEF next_done, Typed
  <2> QED BY <1>4, <2>1, <2>2 DEF next_done, Typed
<1>5. ASSUME NEW r \in Runs, next_failed(m, r) PROVE Typed'
  <2>1. chan' \in [Runs -> Seq(MergeMsg)]
    BY <1>5, ChanTail DEF next_failed
  <2>2. CallType'
    BY <1>5, RefillFailsType DEF next_failed
  <2> QED BY <1>5, <2>1, <2>2 DEF next_failed, Typed
<1>6. ASSUME NEW r \in Runs, next_disconnected(m, r) PROVE Typed'
  <2>1. CallType'
    BY <1>6, RefillFailsType DEF next_disconnected
  <2> QED BY <1>6, <2>1 DEF next_disconnected, Typed
<1>7. ASSUME NEW r \in Runs, next_again(m, r) PROVE Typed'
  <2>1. CallType' /\ buffer' \in [Runs -> Seq(Nat \ {0})] /\ exhausted' \in [Runs -> BOOLEAN]
    BY <1>7, EndsRunType, RefillFailsType DEF next_again, Typed
  <2> QED BY <1>7, <2>1 DEF next_again, Typed
<1> QED BY <1>1, <1>2, <1>3, <1>4, <1>5, <1>6, <1>7 DEF InCall, next

-----------------------------------------------------------------------------
(* What a step leaves alone.                                                *)

SameRun(r) ==
    /\ pc'[r] = pc[r] /\ pos'[r] = pos[r] /\ verdict'[r] = verdict[r]
    /\ chan'[r] = chan[r] /\ sent'[r] = sent[r]
    /\ rx'[r] = rx[r] /\ received'[r] = received[r] /\ state'[r] = state[r]
    /\ buffer'[r] = buffer[r] /\ exhausted'[r] = exhausted[r]
    /\ head'[r] = head[r] /\ held'[r] = held[r] /\ out'[r] = out[r]

LEMMA RunFrame ==
  ASSUME NEW r \in Runs, SameRun(r), ProducerInv(r), ReaderInv(r),
         cancelled[Owner[r]] => cancelled'[Owner[r]]
  PROVE  ProducerInv(r)' /\ ReaderInv(r)'
<1>1. ProducerInv(r)'
  BY DEF SameRun, ProducerInv
<1>2. Reached(r)' = Reached(r) /\ (Clean(r)' => Clean(r))
  BY DEF SameRun, Reached, Clean
<1>3. ReaderInv(r)'
  BY <1>2 DEF SameRun, ReaderInv
<1> QED BY <1>1, <1>3

LEMMA MergeFrame ==
  ASSUME NEW m \in Merges, MergeInv(m), phase'[m] = phase[m], todo'[m] = todo[m],
         \A r \in RunsOf(m) : SameRun(r)
  PROVE  MergeInv(m)'
<1>1. todo[m] \subseteq RunsOf(m)
  BY DEF MergeInv
<1>2. OpenInv(m)'
  BY <1>1 DEF MergeInv, OpenInv, SameRun, RunsOf
<1>3. CallInv(m)'
  BY <1>1 DEF MergeInv, CallInv, Drained, SameRun, RunsOf
<1> QED BY <1>1, <1>2, <1>3 DEF MergeInv, RunsOf

(* Settled inputs stay so and no count changes.                             *)
LEMMA DepthFrame ==
  ASSUME DepthInv, depth' = depth, sent' = sent, received' = received,
         \A r \in Runs : \/ Joined(r)' <=> Joined(r)
                         \/ sent[r] = 0 /\ received[r] = 0
  PROVE  DepthInv'
<1>1. ASSUME NEW f, \A r \in Runs : (Joined(r)' <=> Joined(r)) \/ f[r] = 0
      PROVE  {p \in Runs \X Nat : ~Joined(p[1])' /\ p[2] \in 1 .. f[p[1]]} = Tokens(f)
  <2>1. \A p \in Runs \X Nat :
           (~Joined(p[1])' /\ p[2] \in 1 .. f[p[1]]) <=> (~Joined(p[1]) /\ p[2] \in 1 .. f[p[1]])
    <3> SUFFICES ASSUME NEW p \in Runs \X Nat
                 PROVE  (~Joined(p[1])' /\ p[2] \in 1 .. f[p[1]])
                            <=> (~Joined(p[1]) /\ p[2] \in 1 .. f[p[1]])
      OBVIOUS
    <3>1. p[1] \in Runs
      OBVIOUS
    <3>2. CASE f[p[1]] = 0
      BY <3>2
    <3>3. CASE Joined(p[1])' <=> Joined(p[1])
      BY <3>3
    <3> QED BY <1>1, <3>1, <3>2, <3>3
  <2> QED BY <2>1 DEF Tokens
<1>2. Tokens(sent)' = Tokens(sent)
  BY <1>1 DEF Tokens
<1>3. Tokens(received)' = Tokens(received)
  BY <1>1 DEF Tokens
<1> QED BY <1>2, <1>3 DEF DepthInv

LEMMA CountFrame ==
  ASSUME CountInv, active' = active, live' = live,
         \A m \in Merges : phase'[m] \in {"idle", "gone"} <=> phase[m] \in {"idle", "gone"},
         \A r \in Runs : pc'[r] \in {"unborn", "dead"} <=> pc[r] \in {"unborn", "dead"}
  PROVE  CountInv'
<1>1. Registered' = Registered
  BY DEF Registered
<1>2. Running' = Running
  BY DEF Running
<1> QED BY <1>1, <1>2 DEF CountInv

-----------------------------------------------------------------------------
(* The producer thread.                                                     *)

(* A producer that takes a step is running before it, and no step of it     *)
(* touches its merge or its reader.                                         *)
ProducerMoves(r) ==
    /\ pc[r] \notin {"unborn", "dead"} /\ pc'[r] # "unborn"
    /\ \A q \in Runs : q # r => SameRun(q)
    /\ UNCHANGED <<phase, todo, cancelled, buffer, exhausted, head, held, out,
                   received, rx, state, active>>

LEMMA ProducerMovesStep ==
  ASSUME Typed, NEW r \in Runs, Producer(r) \/ ProducerFault(r)
  PROVE  ProducerMoves(r)
<1> USE DEF Typed, ProducerMoves, SameRun, counters, mergeVars, adapterVars, readerVars
<1>1. CASE decode_row(r)
  BY <1>1 DEF decode_row
<1>2. CASE forward_row(r)
  BY <1>2 DEF forward_row
<1>3. CASE count_sent(r)
  BY <1>3 DEF count_sent
<1>4. CASE walk_ends(r)
  BY <1>4 DEF walk_ends
<1>5. CASE walk_cancelled(r)
  BY <1>5 DEF walk_cancelled
<1>6. CASE walk_fails(r)
  BY <1>6 DEF walk_fails
<1>7. CASE send_terminator(r)
  BY <1>7 DEF send_terminator
<1>8. CASE die_silently(r)
  BY <1>8 DEF die_silently
<1>9. CASE thread_exits(r)
  BY <1>9 DEF thread_exits
<1> QED BY <1>1, <1>2, <1>3, <1>4, <1>5, <1>6, <1>7, <1>8, <1>9
        DEF Producer, ProducerFault

LEMMA ProducerMovesKeep ==
  ASSUME IInv, NEW r \in Runs, ProducerMoves(r)
  PROVE  /\ ~Joined(r)
         /\ \A q \in Runs : q # r => ProducerInv(q)' /\ ReaderInv(q)'
         /\ \A q \in Runs : JoinInv(q)' /\ (Joined(q)' <=> Joined(q))
         /\ \A m \in Merges : MergeInv(m)'
<1> USE DEF IInv, ProducerMoves
<1>1. ~Joined(r)
  BY DEF JoinInv
<1>2. \A q \in Runs : Joined(q)' <=> Joined(q)
  BY DEF Joined
<1>3. \A q \in Runs : JoinInv(q)'
  BY <1>1, <1>2 DEF JoinInv, SameRun
<1>4. \A q \in Runs : q # r => ProducerInv(q)' /\ ReaderInv(q)'
  BY RunFrame
<1>5. ASSUME NEW m \in Merges PROVE MergeInv(m)'
  <2>1. OpenInv(m)'
    BY DEF MergeInv, OpenInv, RunsOf, SameRun
  <2>2. CallInv(m)'
    BY DEF MergeInv, CallInv, Drained, RunsOf
  <2> QED BY <2>1, <2>2 DEF MergeInv, RunsOf
<1> QED BY <1>1, <1>2, <1>3, <1>4, <1>5

LEMMA ForwardRowKeeps ==
  ASSUME IInv, NEW r \in Runs, forward_row(r)
  PROVE  ProducerInv(r)' /\ ReaderInv(r)'
<1> DEFINE c == chan[r]
           x == Item(pos[r] + 1)
<1>1. /\ pc[r] = "send" /\ rx[r] /\ pc'[r] = "count" /\ pos'[r] = pos[r] + 1
      /\ chan'[r] = Append(c, x) /\ sent'[r] = sent[r] /\ UNCHANGED <<rx, received, state>>
      /\ UNCHANGED <<buffer, exhausted, head, held, out, cancelled, verdict>>
  BY DEF forward_row, HasRoom, IInv, Typed, adapterVars, readerVars, mergeVars
<1>2. /\ c \in Seq(MergeMsg) /\ x \in MergeMsg /\ pos[r] \in Nat /\ received[r] \in Nat
      /\ sent[r] \in Nat
  BY MsgType DEF IInv, Typed
<1>3. /\ Len(c) \in Nat /\ Len(Append(c, x)) = Len(c) + 1
      /\ \A i \in 1 .. Len(c) : Append(c, x)[i] = c[i]
      /\ Append(c, x)[Len(c) + 1] = x
  BY <1>2, AppendProperties
<1>4. ProducerInv(r) /\ ReaderInv(r)
  BY DEF IInv
<1>5. received[r] + Len(c) = pos[r]
  BY <1>1, <1>4 DEF ProducerInv
<1>6. x.tag = "Item" /\ x.row = pos[r] + 1
  BY DEF Item
<1> HIDE DEF c, x
<1>7. ASSUME NEW i \in 1 .. Len(Append(c, x))
      PROVE  Append(c, x)[i].tag = "Item" /\ received[r] + i <= pos[r] + 1
  <2>1. CASE i = Len(c) + 1
    BY <1>2, <1>3, <1>5, <1>6, <2>1
  <2>2. CASE i # Len(c) + 1
    <3>1. i \in 1 .. Len(c)
      BY <1>3, <2>2
    <3>2. c[i].tag = "Item" /\ received[r] + i <= pos[r]
      BY <1>1, <1>4, <3>1 DEF ProducerInv, c
    <3> QED BY <1>2, <1>3, <3>1, <3>2
  <2> QED BY <2>1, <2>2
<1>8. ProducerInv(r)'
  <2>1. sent'[r] = pos'[r] - 1
    BY <1>1, <1>2, <1>4 DEF ProducerInv
  <2>2. received'[r] <= pos'[r] /\ received'[r] + Len(chan'[r]) = pos'[r]
    BY <1>1, <1>2, <1>3, <1>5
  <2>3. \A i \in 1 .. Len(chan'[r]) : chan'[r][i].tag = "Item" /\ received'[r] + i <= pos'[r]
    BY <1>1, <1>7
  <2> QED BY <1>1, <2>1, <2>2, <2>3 DEF ProducerInv
<1>9. state[r] # "Finished"
  BY <1>1, <1>4 DEF ReaderInv
<1>10. Clean(r)' => Reached(r)' = 1 .. pos'[r]
  <2> SUFFICES ASSUME Clean(r)' PROVE Reached(r)' = 1 .. pos[r] + 1
    BY <1>1
  <2>1. Reached(r) = 1 .. pos[r]
    BY <1>1, <1>4 DEF ReaderInv, Clean
  <2>2. ItemsOf(Append(c, x)) = ItemsOf(c) \cup {pos[r] + 1}
    BY <1>2, <1>6, ItemsOfAppend
  <2>3. Reached(r)' = Reached(r) \cup {pos[r] + 1}
    BY <1>1, <2>2 DEF Reached, c
  <2> QED BY <1>2, <2>1, <2>3
<1>11. ReaderInv(r)'
  BY <1>1, <1>4, <1>9, <1>10 DEF ReaderInv
<1> QED BY <1>8, <1>11

LEMMA SendTerminatorKeeps ==
  ASSUME IInv, NEW r \in Runs, send_terminator(r)
  PROVE  ProducerInv(r)' /\ ReaderInv(r)'
<1> DEFINE c == chan[r]
           x == Terminator(verdict[r])
<1>1. /\ pc[r] = "term" /\ pc'[r] = "exit"
      /\ UNCHANGED <<pos, sent, rx, received, state>>
      /\ UNCHANGED <<buffer, exhausted, head, held, out, cancelled, verdict>>
      /\ \/ rx[r] /\ chan'[r] = Append(c, x)
         \/ ~rx[r] /\ chan'[r] = chan[r]
  BY DEF send_terminator, HasRoom, IInv, Typed, adapterVars, readerVars, mergeVars
<1>2. /\ c \in Seq(MergeMsg) /\ x \in MergeMsg /\ pos[r] \in Nat /\ received[r] \in Nat
  BY MsgType DEF IInv, Typed
<1>3. /\ Len(c) \in Nat /\ Len(Append(c, x)) = Len(c) + 1
      /\ \A i \in 1 .. Len(c) : Append(c, x)[i] = c[i]
      /\ Append(c, x)[Len(c) + 1] = x
  BY <1>2, AppendProperties
<1>4. ProducerInv(r) /\ ReaderInv(r)
  BY DEF IInv
<1>5. x.tag = verdict[r] /\ verdict[r] \in {"Done", "Failed"}
  BY DEF Terminator, IInv, Typed
<1>6. \A i \in 1 .. Len(c) : c[i].tag = "Item" /\ received[r] + i <= pos[r]
  BY <1>1, <1>4 DEF ProducerInv
<1> HIDE DEF c, x
<1>7. CASE rx[r] /\ chan'[r] = Append(c, x)
  <2>1. ASSUME NEW i \in 1 .. Len(Append(c, x))
        PROVE  IF Append(c, x)[i].tag = "Item" THEN received[r] + i <= pos[r]
               ELSE /\ i = Len(Append(c, x))
                    /\ Append(c, x)[i].tag = "Done" => pos[r] = Rows[r]
    <3>1. CASE i = Len(c) + 1
      BY <1>1, <1>3, <1>4, <1>5, <1>7, <3>1 DEF ProducerInv
    <3>2. CASE i # Len(c) + 1
      <4>1. i \in 1 .. Len(c)
        BY <1>3, <3>2
      <4> QED BY <1>3, <1>6, <4>1
    <3> QED BY <3>1, <3>2
  <2>2. ProducerInv(r)'
    BY <1>1, <1>4, <1>7, <2>1 DEF ProducerInv
  <2>3. ItemsOf(Append(c, x)) = ItemsOf(c)
    <3>1. x.tag # "Item"
      BY <1>5
    <3>2. ItemsOf(Append(c, x)) =
             ItemsOf(c) \cup (IF x.tag = "Item" THEN {x.row} ELSE {})
      BY <1>2, ItemsOfAppend
    <3> QED BY <3>1, <3>2
  <2>4. Reached(r)' = Reached(r) /\ (Clean(r)' <=> Clean(r))
    BY <1>1, <1>7, <2>3 DEF Reached, Clean, c
  <2>5. state[r] # "Finished"
    BY <1>1, <1>4 DEF ReaderInv
  <2>6. ReaderInv(r)'
    BY <1>1, <1>4, <2>4, <2>5 DEF ReaderInv
  <2> QED BY <2>2, <2>6
<1>8. CASE ~rx[r] /\ chan'[r] = chan[r]
  <2>1. ProducerInv(r)'
    BY <1>1, <1>4, <1>6, <1>8 DEF ProducerInv, c
  <2>2. Reached(r)' = Reached(r) /\ (Clean(r)' <=> Clean(r))
    BY <1>1, <1>8 DEF Reached, Clean
  <2>3. ReaderInv(r)'
    BY <1>1, <1>4, <1>8, <2>2 DEF ReaderInv
  <2> QED BY <2>1, <2>3
<1> QED BY <1>1, <1>7, <1>8

(* The steps of a producer that send nothing.                               *)
LEMMA ProducerKeepsRun ==
  ASSUME IInv, NEW r \in Runs, Producer(r) \/ ProducerFault(r)
  PROVE  ProducerInv(r)' /\ ReaderInv(r)'
<1>1. ASSUME UNCHANGED <<chan, pos, cancelled, adapterVars, readerVars>>,
             pc'[r] # "unborn", pc[r] \notin {"unborn", "dead"},
             pc[r] \in {"exit", "dead"} => pc'[r] \in {"exit", "dead"},
             sent'[r] = IF pc'[r] = "count" THEN pos[r] - 1 ELSE pos[r],
             pc'[r] = "term" /\ verdict'[r] = "Done" /\ rx[r] => pos[r] = Rows[r]
      PROVE  ProducerInv(r)' /\ ReaderInv(r)'
  <2>1. ProducerInv(r) /\ ReaderInv(r)
    BY DEF IInv
  <2>2. ProducerInv(r)'
    BY <1>1, <2>1 DEF ProducerInv, adapterVars
  <2>3. Reached(r)' = Reached(r) /\ (Clean(r)' <=> Clean(r))
    BY <1>1 DEF Reached, Clean, adapterVars, readerVars
  <2>4. ReaderInv(r)'
    BY <1>1, <2>1, <2>3 DEF ReaderInv, adapterVars, readerVars
  <2> QED BY <2>2, <2>4
<1>2. /\ sent[r] = IF pc[r] = "count" THEN pos[r] - 1 ELSE pos[r]
      /\ sent[r] \in Nat /\ pos[r] \in Nat
  BY DEF IInv, ProducerInv, Typed
<1> USE DEF IInv, Typed, mergeVars
<1>3. CASE decode_row(r)
  BY <1>1, <1>2, <1>3 DEF decode_row
<1>4. CASE forward_row(r)
  BY <1>4, ForwardRowKeeps
<1>5. CASE count_sent(r)
  BY <1>1, <1>2, <1>5 DEF count_sent
<1>6. CASE walk_ends(r)
  BY <1>1, <1>2, <1>6 DEF walk_ends
<1>7. CASE walk_cancelled(r)
  BY <1>1, <1>2, <1>7 DEF walk_cancelled
<1>8. CASE walk_fails(r)
  BY <1>1, <1>2, <1>8 DEF walk_fails
<1>9. CASE send_terminator(r)
  BY <1>9, SendTerminatorKeeps
<1>10. CASE die_silently(r)
  BY <1>1, <1>2, <1>10 DEF die_silently
<1>11. CASE thread_exits(r)
  BY <1>1, <1>2, <1>11 DEF thread_exits
<1> QED BY <1>3, <1>4, <1>5, <1>6, <1>7, <1>8, <1>9, <1>10, <1>11
        DEF Producer, ProducerFault

LEMMA ProducerKeepsCounters ==
  ASSUME IInv, NEW r \in Runs, Producer(r) \/ ProducerFault(r)
  PROVE  CountInv' /\ DepthInv'
<1> Typed /\ CountInv /\ DepthInv
  BY DEF IInv
<1>1. ProducerMoves(r)
  BY ProducerMovesStep
<1>2. ~Joined(r) /\ \A q \in Runs : Joined(q)' <=> Joined(q)
  BY <1>1, ProducerMovesKeep
<1>3. \A q \in Runs : q # r => pc'[q] = pc[q]
  BY <1>1 DEF ProducerMoves, SameRun
<1>4. CASE count_sent(r)
  <2>1. /\ sent' = [sent EXCEPT ![r] = @ + 1] /\ depth' = depth + 1
        /\ received' = received /\ live' = live /\ active' = active
    BY <1>4 DEF count_sent, adapterVars
  <2>2. sent \in [Runs -> Nat] /\ sent' \in [Runs -> Nat] /\ received \in [Runs -> Nat]
    BY <2>1 DEF Typed
  <2>3. /\ IsFiniteSet(Tokens(sent'))
        /\ Cardinality(Tokens(sent')) = Cardinality(Tokens(sent)) + 1
    BY <1>2, <2>1, <2>2, TokenAdded DEF DepthInv
  <2>4. Tokens(sent)' = Tokens(sent') /\ Tokens(received)' = Tokens(received)
    BY <1>2, <2>1 DEF Tokens
  <2>5. Cardinality(Tokens(sent)) \in Nat /\ Cardinality(Tokens(received)) \in Nat
    BY FS_CardinalityType DEF DepthInv
  <2>6. DepthInv'
    BY <2>1, <2>3, <2>4, <2>5 DEF DepthInv
  <2>7. CountInv'
    BY <1>1, <1>3, <1>4, <2>1, CountFrame DEF ProducerMoves, count_sent, Typed
  <2> QED BY <2>6, <2>7
<1>5. CASE thread_exits(r)
  <2>1. /\ live' = live - 1 /\ pc[r] = "exit" /\ pc'[r] = "dead" /\ active' = active
        /\ UNCHANGED <<depth, sent, received, phase>>
    BY <1>5 DEF thread_exits, Typed, adapterVars, mergeVars
  <2>2. Running' = Running \ {r} /\ r \in Running
    BY <1>3, <2>1 DEF Running
  <2>3. IsFiniteSet(Running) /\ Cardinality(Running) \in Nat
    BY RunningFinite
  <2>4. Cardinality(Running') = Cardinality(Running) - 1
    BY <2>2, <2>3, FS_RemoveElement
  <2>5. Registered' = Registered
    BY <2>1 DEF Registered
  <2>6. CountInv'
    BY <2>1, <2>4, <2>5 DEF CountInv
  <2> QED BY <1>2, <2>1, <2>6, DepthFrame
<1>6. ASSUME live' = live, UNCHANGED <<depth, sent>>,
             pc'[r] \notin {"unborn", "dead"}
      PROVE  CountInv' /\ DepthInv'
  <2>1. CountInv'
    BY <1>1, <1>3, <1>6, CountFrame DEF ProducerMoves
  <2>2. DepthInv'
    BY <1>1, <1>2, <1>6, DepthFrame DEF ProducerMoves
  <2> QED BY <2>1, <2>2
<1> USE DEF Typed, counters
<1>7. CASE decode_row(r)
  BY <1>6, <1>7 DEF decode_row
<1>8. CASE forward_row(r)
  BY <1>6, <1>8 DEF forward_row
<1>9. CASE walk_ends(r)
  BY <1>6, <1>9 DEF walk_ends
<1>10. CASE walk_cancelled(r)
  BY <1>6, <1>10 DEF walk_cancelled
<1>11. CASE walk_fails(r)
  BY <1>6, <1>11 DEF walk_fails
<1>12. CASE send_terminator(r)
  BY <1>6, <1>12 DEF send_terminator
<1>13. CASE die_silently(r)
  BY <1>6, <1>13 DEF die_silently
<1> QED BY <1>4, <1>5, <1>7, <1>8, <1>9, <1>10, <1>11, <1>12, <1>13
        DEF Producer, ProducerFault

LEMMA ProducerKeeps ==
  ASSUME IInv, NEW r \in Runs, Producer(r) \/ ProducerFault(r)
  PROVE  IInv'
<1>1. Typed'
  BY ProducerType DEF IInv
<1>2. ProducerMoves(r)
  BY ProducerMovesStep DEF IInv
<1> QED BY <1>1, <1>2, ProducerMovesKeep, ProducerKeepsRun, ProducerKeepsCounters
        DEF IInv

-----------------------------------------------------------------------------
(* Starting, cancelling and tearing down a merge.                           *)

(* The other merges when m and its input r change.                          *)
LEMMA OtherMergesKeep ==
  ASSUME IInv, NEW m \in Merges, NEW n \in Merges, n # m,
         phase'[n] = phase[n], todo'[n] = todo[n],
         \A q \in Runs : Owner[q] # m => SameRun(q)
  PROVE  MergeInv(n)'
BY MergeFrame DEF IInv, RunsOf

LEMMA BeginMergeKeeps ==
  ASSUME IInv, NEW m \in Merges, begin_merge(m)
  PROVE  IInv'
<1> Typed /\ CountInv /\ DepthInv
  BY DEF IInv
<1>1. Typed'
  BY MergerType DEF Caller
<1>2. /\ phase[m] = "idle" /\ phase'[m] = "open" /\ todo'[m] = RunsOf(m)
      /\ \A n \in Merges : n # m => phase'[n] = phase[n] /\ todo'[n] = todo[n]
      /\ active' = active + 1
      /\ UNCHANGED <<live, depth, cancelled, producerVars, adapterVars, readerVars>>
  BY DEF begin_merge, Typed
<1>3. \A q \in Runs : SameRun(q)
  BY <1>2 DEF SameRun, producerVars, adapterVars, readerVars
<1>4. \A q \in Runs : ProducerInv(q)' /\ ReaderInv(q)'
  BY <1>2, <1>3, RunFrame DEF IInv
<1>5. \A q \in Runs : Owner[q] \in Merges
  BY MergeProducerAssumption
<1>6. \A q \in Runs : Joined(q)' <=> Joined(q)
  BY <1>2, <1>5 DEF Joined
<1>7. \A q \in Runs : JoinInv(q)'
  BY <1>3, <1>6 DEF IInv, JoinInv, SameRun
<1>8. ASSUME NEW n \in Merges PROVE MergeInv(n)'
  <2>1. CASE n # m
    BY <1>2, <1>3, <2>1, OtherMergesKeep
  <2>2. CASE n = m
    <3>1. \A q \in RunsOf(m) : pc'[q] = "unborn" /\ held'[q] = 0
      BY <1>2, <1>3 DEF IInv, MergeInv, OpenInv, SameRun, RunsOf
    <3> QED BY <1>2, <2>2, <3>1 DEF MergeInv, OpenInv, CallInv, RunsOf
  <2> QED BY <2>1, <2>2
<1>9. CountInv'
  <2>1. Registered' = Registered \cup {m} /\ m \notin Registered
    BY <1>2 DEF Registered
  <2>2. IsFiniteSet(Registered) /\ Cardinality(Registered) \in Nat
    BY RegisteredFinite
  <2>3. Cardinality(Registered') = Cardinality(Registered) + 1
    BY <2>1, <2>2, FS_AddElement
  <2>4. Running' = Running
    BY <1>3 DEF Running, SameRun
  <2> QED BY <1>2, <2>3, <2>4 DEF CountInv
<1>10. DepthInv'
  BY <1>2, <1>6, DepthFrame DEF producerVars, adapterVars
<1> QED BY <1>1, <1>4, <1>7, <1>8, <1>9, <1>10 DEF IInv

LEMMA OpenKeeps ==
  ASSUME IInv, NEW m \in Merges, NEW r \in Runs, open(m, r)
  PROVE  IInv'
<1> Typed /\ CountInv /\ DepthInv
  BY DEF IInv
<1>1. Typed'
  BY MergerType DEF Opening
<1>2. /\ phase[m] = "open" /\ r \in todo[m] /\ phase'[m] \in {"open", "run"}
      /\ todo'[m] = todo[m] \ {r}
      /\ phase'[m] = "run" => todo'[m] = {}
      /\ \A n \in Merges : n # m => phase'[n] = phase[n] /\ todo'[n] = todo[n]
      /\ live' = live + 1 /\ pc'[r] = "walk" /\ rx'[r]
      /\ \A q \in Runs : q # r => SameRun(q)
      /\ UNCHANGED <<active, depth, cancelled, pos, verdict, chan, sent, received,
                     state, buffer, exhausted, head, held, out>>
  BY DEF open, First, Typed, SameRun, readerVars
<1>3. /\ MergeInv(m) /\ Owner[r] = m /\ pc[r] = "unborn" /\ ProducerInv(r) /\ ReaderInv(r)
  BY <1>2 DEF IInv, MergeInv, OpenInv, RunsOf
<1>4. Len(<<>>) = 0
  OBVIOUS
<1>5. ProducerInv(r)'
  <2>1. pos[r] = 0 /\ received[r] = 0 /\ chan[r] = <<>> /\ sent[r] = 0
    BY <1>3 DEF ProducerInv
  <2>2. \A i \in 1 .. Len(chan[r]) : FALSE
    BY <1>4, <2>1
  <2> QED BY <1>2, <1>4, <2>1, <2>2 DEF ProducerInv
<1>6. ReaderInv(r)'
  <2>1. Reached(r)' = Reached(r) /\ (Clean(r)' <=> Clean(r))
    BY <1>2 DEF Reached, Clean
  <2>2. state[r] = "Streaming"
    BY <1>3 DEF ProducerInv
  <2> QED BY <1>2, <1>3, <2>1, <2>2 DEF ReaderInv
<1>7. \A q \in Runs : ProducerInv(q)' /\ ReaderInv(q)'
  BY <1>2, <1>5, <1>6, RunFrame DEF IInv
<1>8. \A q \in Runs : Owner[q] \in Merges
  BY MergeProducerAssumption
<1>9. \A q \in Runs : Joined(q)' <=> Joined(q)
  BY <1>2, <1>8 DEF Joined
<1>10. \A q \in Runs : JoinInv(q)'
  BY <1>2, <1>3, <1>9 DEF IInv, JoinInv, SameRun, Joined
<1>11. ASSUME NEW n \in Merges PROVE MergeInv(n)'
  <2>1. CASE n # m
    BY <1>2, <1>3, <2>1, OtherMergesKeep
  <2>2. CASE n = m
    <3>1. \A q \in todo'[m] : pc'[q] = "unborn"
      BY <1>2, <1>3 DEF MergeInv, OpenInv, SameRun, RunsOf
    <3>2. todo'[m] \subseteq RunsOf(m)
      BY <1>2, <1>3 DEF MergeInv
    <3>3. \A q \in RunsOf(m) : held'[q] = 0
      BY <1>2, <1>3 DEF MergeInv, OpenInv
    <3>4. OpenInv(m)'
      BY <1>2, <3>1, <3>3 DEF OpenInv, RunsOf
    <3>5. CallInv(m)'
      BY <1>2, <3>3 DEF CallInv, RunsOf
    <3> QED BY <2>2, <3>2, <3>4, <3>5 DEF MergeInv, RunsOf
  <2> QED BY <2>1, <2>2
<1>12. CountInv'
  <2>1. Running' = Running \cup {r} /\ r \notin Running
    BY <1>2, <1>3 DEF Running, SameRun
  <2>2. IsFiniteSet(Running) /\ Cardinality(Running) \in Nat
    BY RunningFinite
  <2>3. Cardinality(Running') = Cardinality(Running) + 1
    BY <2>1, <2>2, FS_AddElement
  <2>4. Registered' = Registered
    BY <1>2 DEF Registered
  <2> QED BY <1>2, <2>3, <2>4 DEF CountInv
<1>13. DepthInv'
  BY <1>2, <1>9, DepthFrame
<1> QED BY <1>1, <1>7, <1>10, <1>11, <1>12, <1>13 DEF IInv

(* A step of m that touches no input: its own invariant, which inputs are   *)
(* settled and whether m is registered are what is left to show.            *)
LEMMA MergerKeeps ==
  ASSUME IInv, Typed', NEW m \in Merges, MergeInv(m)',
         \A q \in Runs : SameRun(q),
         \A n \in Merges : n # m => phase'[n] = phase[n] /\ todo'[n] = todo[n],
         \A n \in Merges : cancelled[n] => cancelled'[n],
         \A q \in RunsOf(m) : (Joined(q)' <=> Joined(q)) \/ pc[q] = "unborn",
         UNCHANGED <<active, live, depth, sent, received>>,
         phase[m] \notin {"idle", "gone"}, phase'[m] \notin {"idle", "gone"}
  PROVE  IInv'
<1>1. \A q \in Runs : Owner[q] \in Merges
  BY MergeProducerAssumption
<1>2. \A q \in Runs : ProducerInv(q)' /\ ReaderInv(q)'
  BY <1>1, RunFrame DEF IInv
<1>3. \A q \in Runs : (Joined(q)' <=> Joined(q)) \/ pc[q] = "unborn"
  BY <1>1 DEF Joined, RunsOf
<1>4. \A q \in Runs : JoinInv(q)'
  BY <1>3 DEF IInv, JoinInv, SameRun
<1>5. \A n \in Merges : MergeInv(n)'
  BY OtherMergesKeep
<1>6. CountInv'
  BY CountFrame DEF IInv, SameRun
<1>7. \A q \in Runs : pc[q] = "unborn" => sent[q] = 0 /\ received[q] = 0
  BY DEF IInv, ProducerInv
<1>8. DepthInv'
  BY <1>3, <1>7, DepthFrame DEF IInv
<1> QED BY <1>2, <1>4, <1>5, <1>6, <1>8 DEF IInv

LEMMA SpawnFailsKeeps ==
  ASSUME IInv, NEW m \in Merges, NEW r \in Runs, open_spawn_fails(m, r)
  PROVE  IInv'
<1>1. Typed'
  BY MergerType DEF Opening, IInv
<1>2. /\ phase[m] = "open" /\ phase'[m] = "drop" /\ todo'[m] = RunsOf(m) \ todo[m]
      /\ \A n \in Merges : n # m => phase'[n] = phase[n] /\ todo'[n] = todo[n]
      /\ UNCHANGED <<counters, cancelled, producerVars, adapterVars, readerVars>>
  BY DEF open_spawn_fails, IInv, Typed
<1>3. \A q \in Runs : SameRun(q)
  BY <1>2 DEF SameRun, producerVars, adapterVars, readerVars
<1>4. \A q \in RunsOf(m) : (Joined(q)' <=> Joined(q)) \/ pc[q] = "unborn"
  BY <1>2 DEF IInv, MergeInv, OpenInv, Joined, RunsOf
<1>5. MergeInv(m)'
  BY <1>2 DEF MergeInv, OpenInv, CallInv, RunsOf
<1> QED BY <1>1, <1>2, <1>3, <1>4, <1>5, MergerKeeps
        DEF counters, producerVars, adapterVars

LEMMA CancelKeeps ==
  ASSUME IInv, NEW m \in Merges, cancel(m)
  PROVE  IInv'
<1>1. Typed'
  BY MergerType DEF Caller, IInv
<1>2. /\ phase[m] \in {"open", "run"} /\ \A n \in Merges : cancelled[n] => cancelled'[n]
      /\ UNCHANGED <<counters, phase, todo, producerVars, adapterVars, readerVars>>
  BY DEF cancel, IInv, Typed
<1>3. \A q \in Runs : SameRun(q)
  BY <1>2 DEF SameRun, producerVars, adapterVars, readerVars
<1>4. \A q \in RunsOf(m) : Joined(q)' <=> Joined(q)
  BY <1>2 DEF Joined
<1>5. MergeInv(m)'
  BY <1>2, <1>3, MergeFrame DEF IInv, RunsOf
<1> QED BY <1>1, <1>2, <1>3, <1>4, <1>5, MergerKeeps
        DEF counters, producerVars, adapterVars

LEMMA DropMergerKeeps ==
  ASSUME IInv, NEW m \in Merges, drop_merger(m)
  PROVE  IInv'
<1>1. Typed'
  BY MergerType DEF Caller, IInv
<1>2. /\ phase[m] \in {"run", "complete"} /\ phase'[m] = "drop" /\ todo'[m] = RunsOf(m)
      /\ \A n \in Merges : n # m => phase'[n] = phase[n] /\ todo'[n] = todo[n]
      /\ UNCHANGED <<counters, cancelled, producerVars, adapterVars, readerVars>>
  BY DEF drop_merger, Idle, IInv, Typed
<1>3. \A q \in Runs : SameRun(q)
  BY <1>2 DEF SameRun, producerVars, adapterVars, readerVars
<1>4. \A q \in RunsOf(m) : Joined(q)' <=> Joined(q)
  BY <1>2 DEF Joined, RunsOf
<1>5. MergeInv(m)'
  BY <1>2 DEF MergeInv, OpenInv, CallInv, RunsOf
<1> QED BY <1>1, <1>2, <1>3, <1>4, <1>5, MergerKeeps
        DEF counters, producerVars, adapterVars

LEMMA InitializeHeapKeeps ==
  ASSUME IInv, NEW m \in Merges, initialize_heap(m)
  PROVE  IInv'
<1>1. Typed'
  BY MergerType DEF CallBegins, IInv
<1>2. /\ phase[m] = "run" /\ todo[m] = {} /\ todo'[m] = RunsOf(m)
      /\ \A q \in RunsOf(m) : head[q] = 0
      /\ \A n \in Merges : n # m => todo'[n] = todo[n]
      /\ UNCHANGED <<counters, phase, cancelled, producerVars, adapterVars, readerVars>>
  BY DEF initialize_heap, Idle, IInv, Typed
<1>3. \A q \in Runs : SameRun(q)
  BY <1>2 DEF SameRun, producerVars, adapterVars, readerVars
<1>4. \A q \in RunsOf(m) : Joined(q)' <=> Joined(q)
  BY <1>2 DEF Joined, RunsOf
<1>5. MergeInv(m)'
  <2>1. \A q \in RunsOf(m) : held[q] = 0
    BY <1>2 DEF IInv, MergeInv, CallInv
  <2>2. CallInv(m)'
    BY <1>2, <2>1 DEF CallInv, RunsOf, readerVars
  <2> QED BY <1>2, <2>2 DEF MergeInv, OpenInv, RunsOf
<1> QED BY <1>1, <1>2, <1>3, <1>4, <1>5, MergerKeeps
        DEF counters, producerVars, adapterVars

LEMMA PullOneKeeps ==
  ASSUME IInv, NEW m \in Merges, NEW r \in Runs, pull_one(m, r)
  PROVE  IInv'
<1> Typed /\ CountInv /\ DepthInv
  BY DEF IInv
<1>1. Typed'
  BY MergerType DEF CallBegins
<1>2. /\ phase[m] = "run" /\ todo[m] = {} /\ todo'[m] = {r} /\ Owner[r] = m
      /\ head[r] # 0 /\ held'[r] = head[r] /\ head'[r] = 0
      /\ \A n \in Merges : n # m => todo'[n] = todo[n]
      /\ \A q \in Runs : q # r => SameRun(q)
      /\ UNCHANGED <<counters, phase, cancelled, producerVars, adapterVars, buffer,
                     exhausted, out>>
  BY DEF pull_one, Idle, Typed, SameRun, producerVars, adapterVars
<1>3. ProducerInv(r) /\ ReaderInv(r) /\ MergeInv(m)
  BY DEF IInv
<1>4. held[r] = 0
  BY <1>2, <1>3 DEF MergeInv, CallInv, RunsOf
<1>5. ProducerInv(r)'
  BY <1>2, <1>3 DEF ProducerInv, producerVars, adapterVars
<1>6. ReaderInv(r)'
  <2>1. Reached(r)' = Reached(r)
    BY <1>2, <1>4 DEF Reached, Nonzero, producerVars
  <2>2. Clean(r)' <=> Clean(r)
    BY <1>2 DEF Clean, adapterVars
  <2> QED BY <1>2, <1>3, <2>1, <2>2 DEF ReaderInv, producerVars, adapterVars
<1>7. \A q \in Runs : ProducerInv(q)' /\ ReaderInv(q)'
  BY <1>2, <1>5, <1>6, RunFrame DEF IInv
<1>8. \A q \in Runs : Owner[q] \in Merges
  BY MergeProducerAssumption
<1>9. \A q \in Runs : (Joined(q)' <=> Joined(q)) /\ pc'[q] = pc[q]
  BY <1>2, <1>8 DEF Joined, producerVars
<1>10. \A q \in Runs : JoinInv(q)'
  BY <1>9 DEF IInv, JoinInv
<1>11. ASSUME NEW n \in Merges PROVE MergeInv(n)'
  <2>1. CASE n # m
    BY <1>2, <2>1, OtherMergesKeep
  <2>2. CASE n = m
    <3>1. \A q \in RunsOf(m) : q # r => held'[q] = 0
      BY <1>2, <1>3 DEF MergeInv, CallInv, SameRun, RunsOf
    <3>2. CallInv(m)'
      BY <1>2, <3>1 DEF CallInv, RunsOf
    <3> QED BY <1>2, <2>2, <3>2 DEF MergeInv, OpenInv, RunsOf
  <2> QED BY <2>1, <2>2
<1>12. CountInv'
  BY <1>2, <1>9, CountFrame DEF counters
<1>13. DepthInv'
  BY <1>2, <1>9, DepthFrame DEF counters, producerVars, adapterVars
<1> QED BY <1>1, <1>7, <1>10, <1>11, <1>12, <1>13 DEF IInv

(* Dropping the receiver discards rows, and the token is cancelled first:   *)
(* only a finished input, whose channel is empty, still counts as clean.    *)
LEMMA DropReceiverKeeps ==
  ASSUME IInv, NEW m \in Merges, NEW r \in Runs, drop_receiver(m, r)
  PROVE  IInv'
<1> Typed /\ CountInv /\ DepthInv
  BY DEF IInv
<1>1. Typed'
  BY MergerType DEF Teardown
<1>2. /\ phase[m] = "drop" /\ r \in todo[m] /\ rx[r] /\ ~rx'[r] /\ chan'[r] = <<>>
      /\ cancelled'[m] /\ \A n \in Merges : cancelled[n] => cancelled'[n]
      /\ UNCHANGED <<counters, phase, todo, pc, pos, verdict, sent, received, state,
                     readerVars>>
      /\ \A q \in Runs : q # r => SameRun(q)
  BY DEF drop_receiver, First, Typed, SameRun, readerVars
<1>3. ProducerInv(r) /\ ReaderInv(r) /\ MergeInv(m) /\ Owner[r] = m
  BY <1>2 DEF IInv, MergeInv, RunsOf
<1>4. pc[r] # "unborn"
  BY <1>2, <1>3 DEF ProducerInv
<1>5. \A i \in 1 .. Len(chan'[r]) : FALSE
  BY <1>2
<1>6. ProducerInv(r)'
  BY <1>2, <1>3, <1>4, <1>5 DEF ProducerInv
<1>7. ReaderInv(r)'
  <2>1. Clean(r)' => state[r] = "Finished"
    BY <1>2, <1>3 DEF Clean
  <2>2. state[r] = "Finished" => Reached(r)' = Reached(r) /\ Clean(r)
    BY <1>2, <1>3 DEF Reached, ReaderInv, Clean, readerVars
  <2> QED BY <1>2, <1>3, <2>1, <2>2 DEF ReaderInv, readerVars
<1>8. \A q \in Runs : Owner[q] \in Merges
  BY MergeProducerAssumption
<1>9. \A q \in Runs : ProducerInv(q)' /\ ReaderInv(q)'
  BY <1>2, <1>6, <1>7, <1>8, RunFrame DEF IInv
<1>10. \A q \in Runs : Joined(q)' <=> Joined(q)
  BY <1>2 DEF Joined
<1>11. \A q \in Runs : JoinInv(q)'
  BY <1>2, <1>10 DEF IInv, JoinInv
<1>12. ASSUME NEW n \in Merges PROVE MergeInv(n)'
  BY <1>2 DEF IInv, MergeInv, OpenInv, CallInv, Drained, RunsOf, readerVars
<1>13. CountInv'
  BY <1>2, CountFrame DEF counters
<1>14. DepthInv'
  BY <1>2, <1>10, DepthFrame DEF counters
<1> QED BY <1>1, <1>9, <1>11, <1>12, <1>13, <1>14 DEF IInv

(* The producer is dead, so all it sent is counted, and what its input adds *)
(* to the gauge is exactly what the join subtracts.                         *)
LEMMA JoinProducerKeeps ==
  ASSUME IInv, NEW m \in Merges, NEW r \in Runs, join_producer(m, r)
  PROVE  IInv'
<1> Typed /\ CountInv /\ DepthInv
  BY DEF IInv
<1>1. Typed'
  BY MergerType DEF Teardown
<1>2. /\ phase[m] = "drop" /\ r \in todo[m] /\ pc[r] = "dead" /\ todo'[m] = todo[m] \ {r}
      /\ depth' = depth - reconcile_residual(sent[r] - received[r])
      /\ \A n \in Merges : n # m => todo'[n] = todo[n]
      /\ UNCHANGED <<active, live, phase, cancelled, producerVars, adapterVars, readerVars>>
  BY DEF join_producer, First, Typed
<1>3. \A q \in Runs : SameRun(q)
  BY <1>2 DEF SameRun, producerVars, adapterVars, readerVars
<1>4. MergeInv(m) /\ ProducerInv(r) /\ Owner[r] = m
  BY <1>2 DEF IInv, MergeInv, RunsOf
<1>5. \A q \in Runs : Owner[q] \in Merges
  BY MergeProducerAssumption
<1>6. ~Joined(r) /\ Joined(r)' /\ \A q \in Runs : q # r => (Joined(q)' <=> Joined(q))
  BY <1>2, <1>4, <1>5 DEF Joined
<1>7. \A q \in Runs : ProducerInv(q)' /\ ReaderInv(q)'
  BY <1>2, <1>3, RunFrame DEF IInv
<1>8. \A q \in Runs : JoinInv(q)'
  BY <1>2, <1>3, <1>6 DEF IInv, JoinInv, SameRun
<1>9. ASSUME NEW n \in Merges PROVE MergeInv(n)'
  <2>1. CASE n # m
    BY <1>2, <1>3, <2>1, OtherMergesKeep
  <2>2. CASE n = m
    BY <1>2, <1>4, <2>2 DEF MergeInv, OpenInv, CallInv, RunsOf
  <2> QED BY <2>1, <2>2
<1>10. CountInv'
  BY <1>2, <1>3, CountFrame DEF SameRun
<1>11. DepthInv'
  <2>1. /\ sent' = sent /\ received' = received
        /\ sent \in [Runs -> Nat] /\ received \in [Runs -> Nat]
    BY <1>2 DEF producerVars, adapterVars, Typed
  <2>2. sent[r] = pos[r] /\ received[r] <= pos[r]
    BY <1>2, <1>4 DEF ProducerInv
  <2>3. reconcile_residual(sent[r] - received[r]) = sent[r] - received[r]
    BY <2>1, <2>2 DEF reconcile_residual
  <2>4. Tokens(sent)' = {p \in Tokens(sent) : p[1] # r}
    BY <1>6, <2>1 DEF Tokens
  <2>5. Tokens(received)' = {p \in Tokens(received) : p[1] # r}
    BY <1>6, <2>1 DEF Tokens
  <2>6. /\ IsFiniteSet(Tokens(sent)')
        /\ Cardinality(Tokens(sent)') = Cardinality(Tokens(sent)) - sent[r]
    BY <1>6, <2>1, <2>4, TokensRemoved DEF DepthInv
  <2>7. /\ IsFiniteSet(Tokens(received)')
        /\ Cardinality(Tokens(received)') = Cardinality(Tokens(received)) - received[r]
    BY <1>6, <2>1, <2>5, TokensRemoved DEF DepthInv
  <2>8. Cardinality(Tokens(sent)) \in Nat /\ Cardinality(Tokens(received)) \in Nat
    BY FS_CardinalityType DEF DepthInv
  <2> QED BY <1>2, <2>1, <2>3, <2>6, <2>7, <2>8 DEF DepthInv
<1> QED BY <1>1, <1>7, <1>8, <1>9, <1>10, <1>11 DEF IInv

LEMMA DropSlotKeeps ==
  ASSUME IInv, NEW m \in Merges, drop_egress_slot(m)
  PROVE  IInv'
<1> Typed /\ CountInv /\ DepthInv
  BY DEF IInv
<1>1. Typed'
  BY MergerType DEF Teardown
<1>2. /\ phase[m] = "drop" /\ phase'[m] = "gone" /\ todo[m] = {} /\ active' = active - 1
      /\ \A n \in Merges : n # m => phase'[n] = phase[n]
      /\ UNCHANGED <<live, depth, cancelled, todo, producerVars, adapterVars, readerVars>>
  BY DEF drop_egress_slot, Typed
<1>3. \A q \in Runs : SameRun(q)
  BY <1>2 DEF SameRun, producerVars, adapterVars, readerVars
<1>4. \A q \in Runs : Owner[q] \in Merges
  BY MergeProducerAssumption
<1>5. \A q \in Runs : Joined(q)' <=> Joined(q)
  BY <1>2, <1>4 DEF Joined
<1>6. \A q \in Runs : ProducerInv(q)' /\ ReaderInv(q)'
  BY <1>2, <1>3, RunFrame DEF IInv
<1>7. \A q \in Runs : JoinInv(q)'
  BY <1>3, <1>5 DEF IInv, JoinInv, SameRun
<1>8. ASSUME NEW n \in Merges PROVE MergeInv(n)'
  <2>1. CASE n # m
    BY <1>2, <1>3, <2>1, OtherMergesKeep
  <2>2. CASE n = m
    BY <1>2, <2>2 DEF MergeInv, OpenInv, CallInv, RunsOf
  <2> QED BY <2>1, <2>2
<1>9. CountInv'
  <2>1. Registered' = Registered \ {m} /\ m \in Registered
    BY <1>2 DEF Registered
  <2>2. IsFiniteSet(Registered) /\ Cardinality(Registered) \in Nat
    BY RegisteredFinite
  <2>3. Cardinality(Registered') = Cardinality(Registered) - 1
    BY <2>1, <2>2, FS_RemoveElement
  <2>4. Running' = Running
    BY <1>3 DEF Running, SameRun
  <2> QED BY <1>2, <2>3, <2>4 DEF CountInv
<1>10. DepthInv'
  BY <1>2, <1>5, DepthFrame DEF producerVars, adapterVars
<1> QED BY <1>1, <1>6, <1>7, <1>8, <1>9, <1>10 DEF IInv

-----------------------------------------------------------------------------
(* A call of step_streaming.                                                *)

(* What the outcome of a refill of r does to the merge and to the others.   *)
LEMMA RefilledFrame ==
  ASSUME Typed, NEW m \in Merges, NEW r \in Runs, NEW h \in Nat, Refills(m, r),
         MergeInv(m), Refilled(m, r, h)
  PROVE  /\ Owner[r] = m /\ phase[m] = "run" /\ r \in todo[m] /\ head[r] = 0
         /\ head'[r] = h /\ held'[r] = 0 /\ out'[r] = out[r] \cup Nonzero(held[r])
         /\ \A q \in Runs : q # r => /\ head'[q] = head[q] /\ held'[q] = held[q]
                                     /\ out'[q] = out[q]
         /\ \A n \in Merges : n # m => phase'[n] = phase[n] /\ todo'[n] = todo[n]
         /\ phase'[m] \in {"run", "complete"} /\ todo'[m] = todo[m] \ {r}
         /\ phase'[m] = "complete" => /\ todo[m] = {r} /\ held[r] = 0 /\ h = 0
                                      /\ \A q \in RunsOf(m) \ {r} : head[q] = 0
<1>1. Owner[r] = m /\ phase[m] = "run" /\ r \in todo[m] /\ head[r] = 0
  BY DEF Refills, First, MergeInv, CallInv, RunsOf
<1>2. /\ head'[r] = h /\ held'[r] = 0 /\ out'[r] = out[r] \cup Nonzero(held[r])
      /\ \A q \in Runs : q # r => /\ head'[q] = head[q] /\ held'[q] = held[q]
                                  /\ out'[q] = out[q]
  BY DEF Refilled, Typed, Nonzero
<1>3. /\ \A n \in Merges : n # m => phase'[n] = phase[n] /\ todo'[n] = todo[n]
      /\ phase'[m] \in {"run", "complete"} /\ todo'[m] = todo[m] \ {r}
      /\ phase'[m] = "complete" => /\ todo[m] = {r} /\ held[r] = 0 /\ h = 0
                                   /\ \A q \in RunsOf(m) \ {r} : head[q] = 0
  BY <1>1 DEF Refilled, Typed
<1> QED BY <1>1, <1>2, <1>3

(* A refill that found no row found a drained input; so the pass over all   *)
(* inputs ends complete only if all are drained.                            *)
LEMMA RefilledMerge ==
  ASSUME Typed, NEW m \in Merges, NEW r \in Runs, NEW h \in Nat, Refills(m, r),
         MergeInv(m), Refilled(m, r, h), h = 0 => Drained(r)',
         \A q \in Runs : q # r => buffer'[q] = buffer[q] /\ exhausted'[q] = exhausted[q]
  PROVE  MergeInv(m)'
<1>1. /\ Owner[r] = m /\ phase[m] = "run" /\ r \in todo[m] /\ head[r] = 0
      /\ head'[r] = h /\ held'[r] = 0
      /\ \A q \in Runs : q # r => head'[q] = head[q] /\ held'[q] = held[q]
      /\ phase'[m] \in {"run", "complete"} /\ todo'[m] = todo[m] \ {r}
      /\ phase'[m] = "complete" => /\ todo[m] = {r} /\ held[r] = 0 /\ h = 0
                                   /\ \A q \in RunsOf(m) \ {r} : head[q] = 0
  BY RefilledFrame
<1>2. /\ todo[m] \subseteq RunsOf(m)
      /\ \A q \in todo[m] : head[q] = 0
      /\ \A q \in RunsOf(m) : held[q] # 0 => todo[m] = {q}
      /\ (\A q \in RunsOf(m) : held[q] = 0) =>
            \A q \in RunsOf(m) \ todo[m] : head[q] = 0 => Drained(q)
  BY <1>1 DEF MergeInv, CallInv
<1>3. \A q \in RunsOf(m) : q # r => held[q] = 0 /\ held'[q] = 0
  BY <1>1, <1>2 DEF RunsOf
<1>4. \A q \in RunsOf(m) : q # r => (Drained(q)' <=> Drained(q))
  BY DEF Drained, RunsOf
<1>5. \A q \in RunsOf(m) : held'[q] = 0
  BY <1>1, <1>3
<1>6. ASSUME todo'[m] # {}
      PROVE  \A q \in RunsOf(m) \ todo'[m] : head'[q] = 0 => Drained(q)'
  <2>1. held[r] = 0
    BY <1>1, <1>2, <1>6 DEF RunsOf
  <2>2. \A q \in RunsOf(m) : held[q] = 0
    BY <1>3, <2>1
  <2> QED BY <1>1, <1>2, <1>4, <2>2 DEF RunsOf
<1>7. ASSUME phase'[m] = "complete"
      PROVE  \A q \in RunsOf(m) : Drained(q)' /\ head'[q] = 0
  <2>1. \A q \in RunsOf(m) : held[q] = 0
    BY <1>1, <1>3, <1>7
  <2>2. \A q \in RunsOf(m) : q # r => Drained(q) /\ head[q] = 0
    BY <1>1, <1>2, <1>7, <2>1
  <2> QED BY <1>1, <1>4, <1>7, <2>2 DEF RunsOf
<1>8. \A q \in todo'[m] : head'[q] = 0
  BY <1>1, <1>2 DEF RunsOf
<1>9. CallInv(m)'
  BY <1>5, <1>6, <1>7, <1>8 DEF CallInv, RunsOf
<1>10. OpenInv(m)'
  BY <1>1 DEF OpenInv
<1> QED BY <1>1, <1>2, <1>9, <1>10 DEF MergeInv, RunsOf

LEMMA RefillFailsMerge ==
  ASSUME Typed, NEW m \in Merges, NEW r \in Runs, Refills(m, r), MergeInv(m),
         RefillFails(m, r), UNCHANGED <<buffer, exhausted>>
  PROVE  /\ MergeInv(m)' /\ Owner[r] = m
         /\ phase' = phase /\ phase[m] = "run"
         /\ \A n \in Merges : n # m => todo'[n] = todo[n]
         /\ held'[r] = 0 /\ UNCHANGED <<head, out>>
         /\ \A q \in Runs : q # r => held'[q] = held[q]
<1>1. /\ phase[m] = "run" /\ r \in todo[m] /\ Owner[r] = m
  BY DEF Refills, First, MergeInv, RunsOf
<1>2. /\ phase' = phase /\ todo'[m] = {} /\ held'[r] = 0 /\ UNCHANGED <<head, out>>
      /\ \A n \in Merges : n # m => todo'[n] = todo[n]
      /\ \A q \in Runs : q # r => held'[q] = held[q]
  BY DEF RefillFails, Typed
<1>3. \A q \in RunsOf(m) : held'[q] = 0
  BY <1>1, <1>2 DEF MergeInv, CallInv, RunsOf
<1>4. CallInv(m)'
  BY <1>1, <1>2, <1>3 DEF CallInv, RunsOf
<1>5. OpenInv(m)'
  BY <1>1, <1>2 DEF OpenInv
<1> QED BY <1>1, <1>2, <1>4, <1>5 DEF MergeInv, RunsOf

(* A step inside a call: what is left to show is about r and m alone.       *)
LEMMA CallKeeps ==
  ASSUME IInv, Typed', NEW m \in Merges, NEW r \in Runs, Owner[r] = m,
         ProducerInv(r)', ReaderInv(r)', MergeInv(m)', DepthInv',
         \A q \in Runs : q # r => SameRun(q),
         \A n \in Merges : n # m => phase'[n] = phase[n] /\ todo'[n] = todo[n],
         phase[m] = "run", phase'[m] \in {"run", "complete"},
         UNCHANGED <<active, live, pc, cancelled>>
  PROVE  IInv'
<1>1. \A q \in Runs : Owner[q] \in Merges
  BY MergeProducerAssumption
<1>2. \A q \in Runs : ProducerInv(q)' /\ ReaderInv(q)'
  BY <1>1, RunFrame DEF IInv
<1>3. \A q \in Runs : Joined(q)' <=> Joined(q)
  BY <1>1 DEF Joined
<1>4. \A q \in Runs : JoinInv(q)'
  BY <1>3 DEF IInv, JoinInv
<1>5. \A n \in Merges : MergeInv(n)'
  BY OtherMergesKeep
<1>6. CountInv'
  BY CountFrame DEF IInv
<1> QED BY <1>2, <1>4, <1>5, <1>6 DEF IInv

(* The gauge during a call that receives no row.                            *)
LEMMA CallDepth ==
  ASSUME IInv, NEW m \in Merges, UNCHANGED <<depth, sent, received>>,
         \A n \in Merges : n # m => phase'[n] = phase[n] /\ todo'[n] = todo[n],
         phase[m] = "run", phase'[m] \in {"run", "complete"}
  PROVE  DepthInv'
<1>1. \A q \in Runs : Owner[q] \in Merges
  BY MergeProducerAssumption
<1>2. \A q \in Runs : Joined(q)' <=> Joined(q)
  BY <1>1 DEF Joined
<1> QED BY <1>2, DepthFrame DEF IInv

LEMMA AdvanceBufferedKeeps ==
  ASSUME IInv, NEW m \in Merges, NEW r \in Runs, advance_buffered(m, r)
  PROVE  IInv'
<1> Typed /\ MergeInv(m) /\ ProducerInv(r) /\ ReaderInv(r)
  BY DEF IInv
<1>1. Typed'
  BY InCallType DEF InCall
<1>2. /\ Refills(m, r) /\ Refilled(m, r, Head(buffer[r])) /\ buffer[r] # <<>>
      /\ buffer'[r] = Tail(buffer[r])
      /\ \A q \in Runs : q # r => buffer'[q] = buffer[q]
      /\ UNCHANGED <<counters, cancelled, producerVars, adapterVars, exhausted>>
  BY DEF advance_buffered, Typed
<1> DEFINE h == Head(buffer[r])
<1>3. h \in Nat \ {0} /\ RowsIn(buffer[r]) = {h} \cup RowsIn(Tail(buffer[r]))
  BY <1>2, HeadTailProperties, RowsInHead DEF Typed
<1> HIDE DEF h
<1>4. Refilled(m, r, h) /\ h \in Nat /\ h # 0
  BY <1>2, <1>3 DEF h
<1>5. MergeInv(m)'
  BY <1>2, <1>4, RefilledMerge
<1>6. /\ Owner[r] = m /\ phase[m] = "run" /\ head[r] = 0 /\ head'[r] = h
      /\ held'[r] = 0 /\ out'[r] = out[r] \cup Nonzero(held[r])
      /\ \A q \in Runs : q # r => head'[q] = head[q] /\ held'[q] = held[q] /\ out'[q] = out[q]
      /\ \A n \in Merges : n # m => phase'[n] = phase[n] /\ todo'[n] = todo[n]
      /\ phase'[m] \in {"run", "complete"}
  BY <1>2, <1>4, RefilledFrame
<1>7. \A q \in Runs : q # r => SameRun(q)
  BY <1>2, <1>6 DEF SameRun, producerVars, adapterVars
<1>8. ProducerInv(r)'
  BY <1>2 DEF ProducerInv, producerVars, adapterVars
<1>9. ReaderInv(r)'
  <2>1. Reached(r)' = Reached(r)
    BY <1>2, <1>3, <1>4, <1>6 DEF Reached, Nonzero, producerVars
  <2>2. Clean(r)' <=> Clean(r)
    BY <1>2 DEF Clean, adapterVars
  <2> QED BY <1>2, <2>1, <2>2 DEF ReaderInv, producerVars, adapterVars
<1>10. DepthInv'
  BY <1>2, <1>6, CallDepth DEF counters, producerVars, adapterVars
<1> QED BY <1>1, <1>2, <1>5, <1>6, <1>7, <1>8, <1>9, <1>10, CallKeeps
        DEF counters, producerVars

(* None from the run, whose state is Finished after the step: what the      *)
(* buffer still holds goes on.                                              *)
LEMMA EndsRunKeeps ==
  ASSUME IInv, Typed', NEW m \in Merges, NEW r \in Runs, Refills(m, r), EndsRun(m, r),
         UNCHANGED <<counters, cancelled, pc, pos, verdict, sent, rx, received>>,
         state'[r] = "Finished", chan'[r] = <<>>, ItemsOf(chan[r]) = {},
         \A q \in Runs : q # r => state'[q] = state[q] /\ chan'[q] = chan[q],
         pc[r] \in {"exit", "dead"}, pos[r] = Rows[r], Clean(r)
  PROVE  IInv'
<1> Typed /\ MergeInv(m) /\ ProducerInv(r) /\ ReaderInv(r)
  BY DEF IInv
<1>1. PICK h \in Nat :
         /\ Refilled(m, r, h) /\ exhausted'[r] /\ (h = 0 => buffer'[r] = <<>>)
         /\ RowsIn(buffer[r]) = Nonzero(h) \cup RowsIn(buffer'[r])
         /\ \A q \in Runs : q # r => buffer'[q] = buffer[q] /\ exhausted'[q] = exhausted[q]
  <2>1. exhausted'[r] /\ \A q \in Runs : q # r => exhausted'[q] = exhausted[q]
    BY DEF EndsRun, Typed
  <2>2. CASE buffer[r] = <<>>
    <3>1. Refilled(m, r, 0) /\ buffer' = buffer
      BY <2>2 DEF EndsRun
    <3>2. RowsIn(buffer[r]) = Nonzero(0) \cup RowsIn(buffer'[r])
      BY <3>1 DEF Nonzero
    <3> QED BY <2>1, <2>2, <3>1, <3>2
  <2>3. CASE buffer[r] # <<>>
    <3>1. Refilled(m, r, Head(buffer[r])) /\ buffer' = [buffer EXCEPT ![r] = Tail(@)]
      BY <2>3 DEF EndsRun
    <3>2. /\ Head(buffer[r]) \in Nat \ {0}
          /\ RowsIn(buffer[r]) = {Head(buffer[r])} \cup RowsIn(Tail(buffer[r]))
      BY <2>3, HeadTailProperties, RowsInHead DEF Typed
    <3>3. buffer'[r] = Tail(buffer[r]) /\ \A q \in Runs : q # r => buffer'[q] = buffer[q]
      BY <3>1 DEF Typed
    <3>4. RowsIn(buffer[r]) = Nonzero(Head(buffer[r])) \cup RowsIn(buffer'[r])
      BY <3>2, <3>3 DEF Nonzero
    <3> QED BY <2>1, <3>1, <3>2, <3>3, <3>4
  <2> QED BY <2>2, <2>3
<1>2. MergeInv(m)'
  BY <1>1, RefilledMerge DEF Drained
<1>3. /\ Owner[r] = m /\ phase[m] = "run" /\ head[r] = 0 /\ head'[r] = h
      /\ held'[r] = 0 /\ out'[r] = out[r] \cup Nonzero(held[r])
      /\ \A q \in Runs : q # r => head'[q] = head[q] /\ held'[q] = held[q] /\ out'[q] = out[q]
      /\ \A n \in Merges : n # m => phase'[n] = phase[n] /\ todo'[n] = todo[n]
      /\ phase'[m] \in {"run", "complete"}
  BY <1>1, RefilledFrame
<1>4. \A q \in Runs : q # r => SameRun(q)
  BY <1>1, <1>3 DEF SameRun
<1>5. ProducerInv(r)'
  <2>1. \A i \in 1 .. Len(chan'[r]) : FALSE
    OBVIOUS
  <2> QED BY <2>1 DEF ProducerInv
<1>6. ReaderInv(r)'
  <2>1. Reached(r) = 1 .. pos[r]
    BY DEF ReaderInv
  <2>2. Reached(r)' = Reached(r)
    BY <1>1, <1>3, EmptyRows DEF Reached, Nonzero
  <2> QED BY <2>1, <2>2 DEF ReaderInv
<1>7. DepthInv'
  BY <1>3, CallDepth DEF counters
<1> QED BY <1>2, <1>3, <1>4, <1>5, <1>6, <1>7, CallKeeps DEF counters

(* An error: the row that pull_one held is lost, and the input is no longer *)
(* clean.                                                                   *)
LEMMA RefillFailsKeeps ==
  ASSUME IInv, Typed', NEW m \in Merges, NEW r \in Runs, Refills(m, r),
         RefillFails(m, r),
         UNCHANGED <<counters, cancelled, pc, pos, verdict, sent, rx, received,
                     buffer, exhausted>>,
         \A q \in Runs : q # r => state'[q] = state[q] /\ chan'[q] = chan[q],
         ProducerInv(r)', ~Clean(r)', state[r] # "Finished"
  PROVE  IInv'
<1> Typed /\ MergeInv(m) /\ ProducerInv(r) /\ ReaderInv(r)
  BY DEF IInv
<1>1. /\ MergeInv(m)' /\ Owner[r] = m /\ phase' = phase /\ phase[m] = "run"
      /\ \A n \in Merges : n # m => todo'[n] = todo[n]
      /\ held'[r] = 0 /\ UNCHANGED <<head, out>>
      /\ \A q \in Runs : q # r => held'[q] = held[q]
  BY RefillFailsMerge
<1>2. \A q \in Runs : q # r => SameRun(q)
  BY <1>1 DEF SameRun
<1>3. ReaderInv(r)'
  BY DEF ReaderInv, Clean
<1>4. DepthInv'
  BY <1>1, CallDepth DEF counters
<1> QED BY <1>1, <1>2, <1>3, <1>4, CallKeeps DEF counters

LEMMA AdvanceExhaustedKeeps ==
  ASSUME IInv, NEW m \in Merges, NEW r \in Runs, advance_exhausted(m, r)
  PROVE  IInv'
<1> Typed /\ MergeInv(m) /\ ProducerInv(r) /\ ReaderInv(r)
  BY DEF IInv
<1>1. Typed'
  BY InCallType DEF InCall
<1>2. /\ Refills(m, r) /\ Refilled(m, r, 0) /\ Drained(r)
      /\ UNCHANGED <<counters, cancelled, producerVars, adapterVars, buffer, exhausted>>
  BY DEF advance_exhausted, Drained
<1>3. MergeInv(m)'
  BY <1>2, RefilledMerge DEF Drained
<1>4. /\ Owner[r] = m /\ phase[m] = "run" /\ head[r] = 0 /\ head'[r] = 0
      /\ held'[r] = 0 /\ out'[r] = out[r] \cup Nonzero(held[r])
      /\ \A q \in Runs : q # r => head'[q] = head[q] /\ held'[q] = held[q] /\ out'[q] = out[q]
      /\ \A n \in Merges : n # m => phase'[n] = phase[n] /\ todo'[n] = todo[n]
      /\ phase'[m] \in {"run", "complete"}
  BY <1>2, RefilledFrame
<1>5. \A q \in Runs : q # r => SameRun(q)
  BY <1>2, <1>4 DEF SameRun, producerVars, adapterVars
<1>6. ProducerInv(r)'
  BY <1>2 DEF ProducerInv, producerVars, adapterVars
<1>7. ReaderInv(r)'
  <2>1. Reached(r)' = Reached(r)
    BY <1>2, <1>4 DEF Reached, Nonzero, producerVars
  <2>2. Clean(r)' <=> Clean(r)
    BY <1>2 DEF Clean, adapterVars
  <2> QED BY <1>2, <2>1, <2>2 DEF ReaderInv, producerVars, adapterVars
<1>8. DepthInv'
  BY <1>2, <1>4, CallDepth DEF counters, producerVars, adapterVars
<1> QED BY <1>1, <1>2, <1>3, <1>4, <1>5, <1>6, <1>7, <1>8, CallKeeps
        DEF counters, producerVars

(* The first message of a channel taken out of it.                          *)
LEMMA TakenMessage ==
  ASSUME IInv, NEW r \in Runs, chan[r] # <<>>
  PROVE  /\ Head(chan[r]) = chan[r][1] /\ Head(chan[r]) \in MergeMsg
         /\ Len(chan[r]) \in Nat \ {0} /\ Len(Tail(chan[r])) = Len(chan[r]) - 1
         /\ \A i \in 1 .. Len(Tail(chan[r])) : Tail(chan[r])[i] = chan[r][i + 1]
         /\ Tail(chan[r]) \in Seq(MergeMsg)
         /\ Head(chan[r]).tag # "Item" =>
               /\ Tail(chan[r]) = <<>> /\ ItemsOf(chan[r]) = {}
               /\ pc[r] \in {"exit", "dead"}
               /\ Head(chan[r]).tag = "Done" => pos[r] = Rows[r]
<1>1. chan[r] \in Seq(MergeMsg)
  BY DEF IInv, Typed
<1>2. /\ Head(chan[r]) = chan[r][1] /\ Len(chan[r]) \in Nat \ {0}
      /\ Len(Tail(chan[r])) = Len(chan[r]) - 1
      /\ \A i \in 1 .. Len(Tail(chan[r])) : Tail(chan[r])[i] = chan[r][i + 1]
      /\ Tail(chan[r]) \in Seq(MergeMsg) /\ Head(chan[r]) \in MergeMsg
  BY <1>1, HeadTailProperties, EmptySeq
<1>3. ASSUME Head(chan[r]).tag # "Item"
      PROVE  /\ Len(chan[r]) = 1 /\ pc[r] \in {"exit", "dead"}
             /\ Head(chan[r]).tag = "Done" => pos[r] = Rows[r]
  <2>1. 1 \in 1 .. Len(chan[r]) /\ chan[r][1].tag # "Item"
    BY <1>2, <1>3
  <2>2. /\ 1 = Len(chan[r]) /\ pc[r] \in {"exit", "dead"}
        /\ chan[r][1].tag = "Done" => pos[r] = Rows[r]
    <3>1. ProducerInv(r)
      BY DEF IInv
    <3> QED BY <2>1, <3>1 DEF ProducerInv
  <2> QED BY <1>2, <2>2
<1>4. ASSUME Head(chan[r]).tag # "Item"
      PROVE  Tail(chan[r]) = <<>> /\ ItemsOf(chan[r]) = {}
  <2>1. Tail(chan[r]) = <<>>
    <3>1. Len(Tail(chan[r])) = 0
      BY <1>2, <1>3, <1>4
    <3>2. Tail(chan[r]) \in Seq(MergeMsg)
      BY <1>2
    <3> QED BY <3>1, <3>2, EmptySeq
  <2> QED BY <1>1, <1>4, <2>1, ItemsOfHead, EmptyRows
<1> QED BY <1>2, <1>3, <1>4

(* A row received: it leaves the channel and the two counts agree again.    *)
LEMMA TakenItem ==
  ASSUME IInv, NEW m \in Merges, NEW r \in Runs, next_item(m, r)
  PROVE  /\ Owner[r] = m /\ Refills(m, r) /\ state[r] = "Streaming" /\ ~cancelled[m]
         /\ ProducerInv(r)'
         /\ ItemsOf(chan[r]) = {Head(chan[r]).row} \cup ItemsOf(chan'[r])
         /\ Head(chan[r]).row \in Nat \ {0}
         /\ received' = [received EXCEPT ![r] = @ + 1] /\ depth' = depth - 1
         /\ \A q \in Runs : q # r => chan'[q] = chan[q] /\ received'[q] = received[q]
         /\ UNCHANGED <<active, live, cancelled, pc, pos, verdict, sent, rx, state, exhausted>>
<1> Typed /\ ProducerInv(r)
  BY DEF IInv
<1>1. /\ Refills(m, r) /\ state[r] = "Streaming" /\ ~cancelled[m]
      /\ chan[r] # <<>> /\ Head(chan[r]).tag = "Item"
      /\ received' = [received EXCEPT ![r] = @ + 1] /\ depth' = depth - 1
      /\ chan' = [chan EXCEPT ![r] = Tail(@)]
      /\ UNCHANGED <<active, live, cancelled, pc, pos, verdict, sent, rx, state, exhausted>>
  BY DEF next_item, Polls, Asks
<1>2. Owner[r] = m
  BY <1>1 DEF Refills, First, IInv, MergeInv, RunsOf
<1> DEFINE c == chan[r]
           t == Tail(chan[r])
<1>3. /\ Len(c) \in Nat \ {0} /\ Len(t) = Len(c) - 1 /\ Head(c) = c[1]
      /\ \A i \in 1 .. Len(t) : t[i] = c[i + 1]
      /\ c \in Seq(MergeMsg) /\ Head(c) \in MergeMsg
  BY <1>1, TakenMessage DEF Typed
<1>4. Head(c).row \in Nat \ {0} /\ ItemsOf(c) = {Head(c).row} \cup ItemsOf(t)
  BY <1>1, <1>3, MsgType, ItemsOfHead
<1>5. /\ chan'[r] = t /\ received'[r] = received[r] + 1
      /\ \A q \in Runs : q # r => chan'[q] = chan[q] /\ received'[q] = received[q]
  BY <1>1 DEF Typed
<1>6. received[r] \in Nat /\ pos[r] \in Nat
  BY DEF Typed
<1>7. /\ pc[r] # "unborn"
      /\ sent[r] = (IF pc[r] = "count" THEN pos[r] - 1 ELSE pos[r])
      /\ rx[r] /\ pc[r] \notin {"exit", "dead"} => received[r] + Len(c) = pos[r]
      /\ pc[r] = "term" /\ verdict[r] = "Done" /\ rx[r] => pos[r] = Rows[r]
      /\ \A i \in 1 .. Len(c) :
            IF c[i].tag = "Item"
            THEN received[r] + i <= pos[r]
            ELSE /\ i = Len(c) /\ pc[r] \in {"exit", "dead"}
                 /\ c[i].tag = "Done" => pos[r] = Rows[r]
  BY <1>1 DEF ProducerInv
<1> HIDE DEF c, t
<1>8. received[r] + 1 <= pos[r]
  <2>1. 1 \in 1 .. Len(c) /\ c[1].tag = "Item"
    BY <1>1, <1>3 DEF c
  <2> QED BY <1>7, <2>1
<1>9. ASSUME NEW i \in 1 .. Len(t)
      PROVE  IF t[i].tag = "Item"
             THEN (received[r] + 1) + i <= pos[r]
             ELSE /\ i = Len(t) /\ pc[r] \in {"exit", "dead"}
                  /\ t[i].tag = "Done" => pos[r] = Rows[r]
  <2>1. i + 1 \in 1 .. Len(c) /\ t[i] = c[i + 1]
    BY <1>3
  <2>2. IF c[i + 1].tag = "Item"
        THEN received[r] + (i + 1) <= pos[r]
        ELSE /\ i + 1 = Len(c) /\ pc[r] \in {"exit", "dead"}
             /\ c[i + 1].tag = "Done" => pos[r] = Rows[r]
    BY <1>7, <2>1
  <2> QED BY <1>3, <1>6, <2>1, <2>2
<1>10. ProducerInv(r)'
  <2>1. rx[r] /\ pc[r] \notin {"exit", "dead"} => (received[r] + 1) + Len(t) = pos[r]
    BY <1>3, <1>6, <1>7
  <2>2. /\ pc'[r] = pc[r] /\ pos'[r] = pos[r] /\ sent'[r] = sent[r] /\ rx'[r] = rx[r]
        /\ verdict'[r] = verdict[r] /\ chan'[r] = t /\ received'[r] = received[r] + 1
    BY <1>1, <1>5
  <2> QED BY <1>7, <1>8, <1>9, <2>1, <2>2 DEF ProducerInv
<1> QED BY <1>1, <1>2, <1>4, <1>5, <1>10 DEF c, t

(* The gauge when a row is received.                                        *)
LEMMA ReceivedDepth ==
  ASSUME IInv, Typed', NEW m \in Merges, NEW r \in Runs, Owner[r] = m,
         received' = [received EXCEPT ![r] = @ + 1], depth' = depth - 1, sent' = sent,
         \A n \in Merges : n # m => phase'[n] = phase[n] /\ todo'[n] = todo[n],
         phase[m] = "run", phase'[m] \in {"run", "complete"}
  PROVE  DepthInv'
<1>1. \A q \in Runs : Owner[q] \in Merges
  BY MergeProducerAssumption
<1>2. \A q \in Runs : Joined(q)' <=> Joined(q)
  BY <1>1 DEF Joined
<1>3. ~Joined(r)
  BY DEF Joined
<1>4. /\ received \in [Runs -> Nat] /\ received' \in [Runs -> Nat]
      /\ depth \in Int /\ DepthInv
  BY DEF IInv, Typed
<1>5. ASSUME NEW f
      PROVE  {p \in Runs \X Nat : ~Joined(p[1])' /\ p[2] \in 1 .. f[p[1]]} = Tokens(f)
  BY <1>2 DEF Tokens
<1>6. Tokens(sent)' = Tokens(sent) /\ Tokens(received)' = Tokens(received')
  <2>1. /\ Tokens(sent)' = {p \in Runs \X Nat : ~Joined(p[1])' /\ p[2] \in 1 .. sent'[p[1]]}
        /\ Tokens(received)' =
              {p \in Runs \X Nat : ~Joined(p[1])' /\ p[2] \in 1 .. received'[p[1]]}
    BY DEF Tokens
  <2> QED BY <1>5, <2>1
<1>7. /\ IsFiniteSet(Tokens(received'))
      /\ Cardinality(Tokens(received')) = Cardinality(Tokens(received)) + 1
  BY <1>3, <1>4, TokenAdded DEF DepthInv
<1>8. Cardinality(Tokens(sent)) \in Nat /\ Cardinality(Tokens(received)) \in Nat
  BY <1>4, FS_CardinalityType DEF DepthInv
<1>9. depth' = Cardinality(Tokens(sent)) - Cardinality(Tokens(received'))
  <2> HIDE DEF Tokens
  <2>1. depth = Cardinality(Tokens(sent)) - Cardinality(Tokens(received))
    BY <1>4 DEF DepthInv
  <2> QED BY <1>7, <1>8, <2>1
<1> QED BY <1>4, <1>6, <1>7, <1>9 DEF DepthInv

LEMMA NextItemKeeps ==
  ASSUME IInv, NEW m \in Merges, NEW r \in Runs, next_item(m, r)
  PROVE  IInv'
<1> Typed /\ MergeInv(m) /\ ReaderInv(r)
  BY DEF IInv
<1>1. Typed'
  BY InCallType DEF InCall, next
<1> DEFINE x == Head(chan[r]).row
           S == Nat \ {0}
           full == Append(buffer[r], x)
<1>2. /\ Owner[r] = m /\ Refills(m, r) /\ state[r] = "Streaming" /\ ~cancelled[m]
      /\ ProducerInv(r)' /\ ItemsOf(chan[r]) = {x} \cup ItemsOf(chan'[r]) /\ x \in S
      /\ received' = [received EXCEPT ![r] = @ + 1] /\ depth' = depth - 1
      /\ \A q \in Runs : q # r => chan'[q] = chan[q] /\ received'[q] = received[q]
      /\ UNCHANGED <<active, live, cancelled, pc, pos, verdict, sent, rx, state, exhausted>>
  BY TakenItem
<1>3. \/ /\ buffer' = [buffer EXCEPT ![r] = full]
         /\ UNCHANGED <<phase, todo, erred, head, held, out>>
      \/ buffer' = [buffer EXCEPT ![r] = Tail(full)] /\ Refilled(m, r, Head(full))
  BY DEF next_item
<1>4. buffer[r] \in Seq(S) /\ phase[m] = "run" /\ r \in todo[m]
  BY <1>2 DEF Typed, Refills, First
<1>5. buffer \in [Runs -> Seq(S)]
  BY DEF Typed
<1> HIDE DEF S, x
<1>6. RowsIn(full) = RowsIn(buffer[r]) \cup {x} /\ full \in Seq(S) /\ full # <<>>
  BY <1>2, <1>4, RowsInAppend, AppendedRows
<1> HIDE DEF full
<1>7. Reached(r) = 1 .. pos[r]
  BY <1>2 DEF ReaderInv, Clean
<1>8. ASSUME Reached(r)' = Reached(r) PROVE ReaderInv(r)'
  <2>1. state'[r] = "Streaming" /\ ~exhausted'[r] /\ pos'[r] = pos[r]
    BY <1>2 DEF ReaderInv
  <2> QED BY <1>7, <1>8, <2>1 DEF ReaderInv
<1>9. CASE /\ buffer' = [buffer EXCEPT ![r] = full]
           /\ UNCHANGED <<phase, todo, erred, head, held, out>>
  <2>1. buffer'[r] = full /\ \A q \in Runs : q # r => buffer'[q] = buffer[q]
    BY <1>5, <1>9
  <2>2. Reached(r)' = Reached(r)
    BY <1>2, <1>6, <1>9, <2>1 DEF Reached
  <2>3. \A q \in Runs : q # r => SameRun(q)
    BY <1>2, <1>9, <2>1 DEF SameRun
  <2>4. MergeInv(m)'
    <3>1. ~exhausted[r]
      BY <1>2 DEF ReaderInv
    <3>2. \A q \in Runs : Drained(q) => Drained(q)'
      BY <1>2, <2>1, <3>1 DEF Drained
    <3>3. CallInv(m)'
      BY <1>4, <1>9, <3>2 DEF MergeInv, CallInv, RunsOf
    <3>4. OpenInv(m)'
      BY <1>4, <1>9 DEF OpenInv
    <3> QED BY <1>9, <3>3, <3>4 DEF MergeInv, RunsOf
  <2>5. DepthInv'
    BY <1>1, <1>2, <1>4, <1>9, ReceivedDepth
  <2> QED BY <1>1, <1>2, <1>4, <1>8, <1>9, <2>2, <2>3, <2>4, <2>5, CallKeeps
<1>10. CASE buffer' = [buffer EXCEPT ![r] = Tail(full)] /\ Refilled(m, r, Head(full))
  <2>1. buffer'[r] = Tail(full) /\ \A q \in Runs : q # r => buffer'[q] = buffer[q]
    BY <1>5, <1>10
  <2> DEFINE h == Head(full)
  <2>2. h \in S /\ RowsIn(full) = {h} \cup RowsIn(Tail(full))
    BY <1>6, HeadTailProperties, RowsInHead
  <2>3. Refilled(m, r, h) /\ h \in Nat /\ h # 0
    BY <1>10, <2>2 DEF S
  <2> HIDE DEF h
  <2>4. MergeInv(m)'
    BY <1>2, <2>1, <2>3, RefilledMerge
  <2>5. /\ head[r] = 0 /\ head'[r] = h
        /\ held'[r] = 0 /\ out'[r] = out[r] \cup Nonzero(held[r])
        /\ \A q \in Runs : q # r => head'[q] = head[q] /\ held'[q] = held[q] /\ out'[q] = out[q]
        /\ \A n \in Merges : n # m => phase'[n] = phase[n] /\ todo'[n] = todo[n]
        /\ phase'[m] \in {"run", "complete"}
    BY <1>2, <2>3, RefilledFrame
  <2>6. Reached(r)' = Reached(r)
    <3>1. Nonzero(h) = {h} /\ Nonzero(0) = {}
      BY <2>3 DEF Nonzero
    <3>2. RowsIn(buffer[r]) \cup {x} = {h} \cup RowsIn(buffer'[r])
      BY <1>6, <2>1, <2>2
    <3> QED BY <1>2, <2>5, <3>1, <3>2 DEF Reached
  <2>7. \A q \in Runs : q # r => SameRun(q)
    BY <1>2, <2>1, <2>5 DEF SameRun
  <2>8. DepthInv'
    BY <1>1, <1>2, <1>4, <2>5, ReceivedDepth
  <2> QED BY <1>1, <1>2, <1>4, <1>8, <2>4, <2>5, <2>6, <2>7, <2>8, CallKeeps
<1> QED BY <1>3, <1>9, <1>10

LEMMA NextDoneKeeps ==
  ASSUME IInv, NEW m \in Merges, NEW r \in Runs, next_done(m, r)
  PROVE  IInv'
<1> Typed /\ MergeInv(m)
  BY DEF IInv
<1>1. Typed'
  BY InCallType DEF InCall, next
<1>2. /\ Refills(m, r) /\ state[r] = "Streaming" /\ ~cancelled[m]
      /\ chan[r] # <<>> /\ Head(chan[r]).tag = "Done" /\ EndsRun(m, r)
      /\ chan'[r] = Tail(chan[r]) /\ state'[r] = "Finished"
      /\ \A q \in Runs : q # r => state'[q] = state[q] /\ chan'[q] = chan[q]
      /\ UNCHANGED <<counters, cancelled, pc, pos, verdict, sent, rx, received>>
  BY DEF next_done, Polls, Asks, Typed
<1>3. /\ Tail(chan[r]) = <<>> /\ ItemsOf(chan[r]) = {} /\ pc[r] \in {"exit", "dead"}
      /\ pos[r] = Rows[r]
  BY <1>2, TakenMessage
<1>4. Clean(r)
  BY <1>2 DEF Clean, Refills, First, MergeInv, RunsOf
<1> QED BY <1>1, <1>2, <1>3, <1>4, EndsRunKeeps

LEMMA NextFailedKeeps ==
  ASSUME IInv, NEW m \in Merges, NEW r \in Runs, next_failed(m, r)
  PROVE  IInv'
<1> Typed /\ ProducerInv(r)
  BY DEF IInv
<1>1. Typed'
  BY InCallType DEF InCall, next
<1>2. /\ Refills(m, r) /\ state[r] = "Streaming"
      /\ chan[r] # <<>> /\ Head(chan[r]).tag = "Failed" /\ RefillFails(m, r)
      /\ chan'[r] = Tail(chan[r]) /\ state'[r] = "Failed"
      /\ \A q \in Runs : q # r => state'[q] = state[q] /\ chan'[q] = chan[q]
      /\ UNCHANGED <<counters, cancelled, pc, pos, verdict, sent, rx, received,
                     buffer, exhausted>>
  BY DEF next_failed, Polls, Asks, Typed
<1>3. chan'[r] = <<>> /\ pc[r] \in {"exit", "dead"}
  BY <1>2, TakenMessage
<1>4. ProducerInv(r)'
  <2>1. \A i \in 1 .. Len(chan'[r]) : FALSE
    BY <1>3
  <2> QED BY <1>2, <1>3, <2>1 DEF ProducerInv
<1>5. ~Clean(r)'
  BY <1>2 DEF Clean
<1> QED BY <1>1, <1>2, <1>4, <1>5, RefillFailsKeeps

LEMMA NextDisconnectedKeeps ==
  ASSUME IInv, NEW m \in Merges, NEW r \in Runs, next_disconnected(m, r)
  PROVE  IInv'
<1> Typed /\ ProducerInv(r)
  BY DEF IInv
<1>1. Typed'
  BY InCallType DEF InCall, next
<1>2. /\ Refills(m, r) /\ state[r] = "Streaming" /\ RefillFails(m, r)
      /\ chan' = chan /\ pc[r] \in {"exit", "dead"} /\ state'[r] = "Died"
      /\ \A q \in Runs : q # r => state'[q] = state[q]
      /\ UNCHANGED <<counters, cancelled, pc, pos, verdict, sent, rx, received,
                     buffer, exhausted>>
  BY DEF next_disconnected, Polls, Asks, Disconnected, Typed, producerVars
<1>3. ProducerInv(r)'
  BY <1>2 DEF ProducerInv
<1>4. ~Clean(r)'
  BY <1>2 DEF Clean
<1> QED BY <1>1, <1>2, <1>3, <1>4, RefillFailsKeeps

LEMMA NextAgainKeeps ==
  ASSUME IInv, NEW m \in Merges, NEW r \in Runs, next_again(m, r)
  PROVE  IInv'
<1> Typed /\ ProducerInv(r) /\ ReaderInv(r) /\ MergeInv(m)
  BY DEF IInv
<1>1. Typed'
  BY InCallType DEF InCall, next
<1>2. /\ Refills(m, r)
      /\ UNCHANGED <<counters, cancelled, pc, pos, verdict, sent, rx, received, state, chan>>
  BY DEF next_again, Asks, producerVars, adapterVars
<1>3. Owner[r] = m
  BY <1>2 DEF Refills, First, MergeInv, RunsOf
<1>4. CASE state[r] = "Finished" /\ EndsRun(m, r)
  <2>1. chan[r] = <<>> /\ pc[r] \in {"exit", "dead"} /\ pos[r] = Rows[r]
    BY <1>4 DEF ReaderInv
  <2>2. Clean(r) /\ ItemsOf(chan[r]) = {}
    BY <1>4, <2>1, EmptyRows DEF Clean
  <2> QED BY <1>1, <1>2, <1>4, <2>1, <2>2, EndsRunKeeps
<1>5. CASE /\ state[r] \in {"Failed", "Died"} \/ (state[r] = "Streaming" /\ cancelled[m])
           /\ RefillFails(m, r) /\ UNCHANGED <<buffer, exhausted>>
  <2>1. ProducerInv(r)'
    BY <1>2 DEF ProducerInv
  <2>2. ~Clean(r)' /\ state[r] # "Finished"
    BY <1>2, <1>3, <1>5 DEF Clean
  <2> QED BY <1>1, <1>2, <1>5, <2>1, <2>2, RefillFailsKeeps
<1> QED BY <1>4, <1>5 DEF next_again

-----------------------------------------------------------------------------
(* The specification.                                                       *)

LEMMA IInvInit == Init => IInv
<1> SUFFICES ASSUME Init PROVE IInv
  OBVIOUS
<1>1. Typed
  BY TypeInit
<1>2. ASSUME NEW r \in Runs PROVE ProducerInv(r) /\ ReaderInv(r) /\ JoinInv(r)
  <2>1. /\ pc[r] = "unborn" /\ pos[r] = 0 /\ sent[r] = 0 /\ received[r] = 0 /\ ~rx[r]
        /\ state[r] = "Streaming" /\ chan[r] = <<>> /\ buffer[r] = <<>> /\ ~exhausted[r]
        /\ head[r] = 0 /\ held[r] = 0 /\ out[r] = {}
    BY DEF Init
  <2>2. ProducerInv(r)
    BY <2>1 DEF ProducerInv
  <2>3. Reached(r) = {}
    BY <2>1, EmptyRows DEF Reached, Nonzero
  <2>4. ReaderInv(r)
    BY <2>1, <2>3 DEF ReaderInv
  <2> QED BY <2>1, <2>2, <2>4 DEF JoinInv
<1>3. ASSUME NEW m \in Merges PROVE MergeInv(m)
  <2>1. phase[m] = "idle" /\ todo[m] = {}
    BY DEF Init
  <2>2. \A r \in RunsOf(m) : pc[r] = "unborn" /\ held[r] = 0
    BY DEF Init, RunsOf
  <2> QED BY <2>1, <2>2 DEF MergeInv, OpenInv, CallInv
<1>4. IsFiniteSet({}) /\ Cardinality({}) = 0
  BY FS_EmptySet
<1>5. CountInv
  <2>1. Registered = {} /\ Running = {}
    BY DEF Init, Registered, Running
  <2> QED BY <1>4, <2>1 DEF Init, CountInv
<1>6. DepthInv
  <2>1. Tokens(sent) = {} /\ Tokens(received) = {}
    BY DEF Init, Tokens
  <2>2. depth = 0
    BY DEF Init
  <2>3. depth = Cardinality(Tokens(sent)) - Cardinality(Tokens(received))
    BY <1>4, <2>1, <2>2
  <2> QED BY <1>4, <2>1, <2>3 DEF DepthInv
<1> QED BY <1>1, <1>2, <1>3, <1>5, <1>6 DEF IInv

LEMMA IInvStutter == IInv /\ UNCHANGED vars => IInv'
<1> SUFFICES ASSUME IInv, UNCHANGED vars PROVE IInv'
  OBVIOUS
<1> USE DEF vars, counters, mergeVars, producerVars, adapterVars, readerVars
<1>1. Typed'
  BY DEF IInv, Typed
<1>2. \A r \in Runs : SameRun(r)
  BY DEF SameRun
<1>3. \A r \in Runs : ProducerInv(r)' /\ ReaderInv(r)'
  BY <1>2, RunFrame DEF IInv
<1>4. \A r \in Runs : JoinInv(r)' /\ (Joined(r)' <=> Joined(r))
  BY DEF IInv, JoinInv, Joined
<1>5. \A m \in Merges : MergeInv(m)'
  BY <1>2, MergeFrame DEF IInv, RunsOf
<1>6. CountInv'
  BY CountFrame DEF IInv
<1>7. DepthInv'
  BY <1>4, DepthFrame DEF IInv
<1> QED BY <1>1, <1>3, <1>4, <1>5, <1>6, <1>7 DEF IInv

LEMMA IInvStep == IInv /\ [Next]_vars => IInv'
<1> SUFFICES ASSUME IInv, [Next]_vars PROVE IInv'
  OBVIOUS
<1>1. CASE UNCHANGED vars
  BY <1>1, IInvStutter
<1>2. ASSUME NEW r \in Runs, Producer(r) \/ ProducerFault(r) PROVE IInv'
  BY <1>2, ProducerKeeps
<1>3. ASSUME NEW m \in Merges, Caller(m) PROVE IInv'
  BY <1>3, BeginMergeKeeps, CancelKeeps, DropMergerKeeps DEF Caller
<1>4. ASSUME NEW m \in Merges, Opening(m) PROVE IInv'
  BY <1>4, OpenKeeps, SpawnFailsKeeps DEF Opening
<1>5. ASSUME NEW m \in Merges, Teardown(m) PROVE IInv'
  BY <1>5, DropSlotKeeps, DropReceiverKeeps, JoinProducerKeeps DEF Teardown
<1>6. ASSUME NEW m \in Merges, CallBegins(m) PROVE IInv'
  BY <1>6, InitializeHeapKeeps, PullOneKeeps DEF CallBegins
<1>7. ASSUME NEW m \in Merges, InCall(m) PROVE IInv'
  BY <1>7, AdvanceBufferedKeeps, AdvanceExhaustedKeeps, NextItemKeeps, NextDoneKeeps,
     NextFailedKeeps, NextDisconnectedKeeps, NextAgainKeeps DEF InCall, next
<1> QED BY <1>1, <1>2, <1>3, <1>4, <1>5, <1>6, <1>7 DEF Next, AllGone

LEMMA Invariant == Spec => []IInv
BY IInvInit, IInvStep, PTL DEF Spec

(* The types: no counter, channel, buffer or heap entry of any merge ever   *)
(* leaves its domain, whatever the producers and the callers do.            *)
THEOREM MergeProducerTypeCorrect == Spec => []TypeOK
<1>1. IInv => TypeOK
  BY RegisteredFinite, RunningFinite DEF IInv, CountInv, TypeOK
<1> QED BY <1>1, Invariant, PTL

(* A merge that reports Complete is drained on every input; a drained input *)
(* is Finished, its producer sent all its rows before Done, and each of     *)
(* them reached the reconciliation, because a row is lost only with a call  *)
(* that leaves a failed verdict or a cancelled token behind.                *)
THEOREM CompleteMergeIsWhole == Spec => []CompleteIsWhole
<1>1. ASSUME IInv, NEW m \in Merges, phase[m] = "complete", NEW r \in RunsOf(m)
      PROVE  out[r] = 1 .. Rows[r]
  <2>1. r \in Runs /\ Drained(r) /\ head[r] = 0 /\ held[r] = 0
    BY <1>1 DEF IInv, MergeInv, CallInv, RunsOf
  <2>2. ReaderInv(r)
    BY <1>1, <2>1 DEF IInv
  <2>3. state[r] = "Finished" /\ chan[r] = <<>> /\ pos[r] = Rows[r] /\ buffer[r] = <<>>
    BY <2>1, <2>2 DEF ReaderInv, Drained
  <2>4. Reached(r) = 1 .. Rows[r]
    BY <2>2, <2>3 DEF ReaderInv, Clean
  <2>5. Reached(r) = out[r]
    BY <2>1, <2>3, EmptyRows DEF Reached, Nonzero
  <2> QED BY <2>4, <2>5
<1>2. IInv => CompleteIsWhole
  BY <1>1 DEF CompleteIsWhole
<1> QED BY <1>2, Invariant, PTL

(* The counters count exactly the registered merges, the running producers  *)
(* and the rows sent and not received of the inputs that are not torn down; *)
(* with no merge left there are none of them, so ACTIVE, LIVE and DEPTH     *)
(* are zero: every early drop, failed spawn and dead thread is settled.     *)
THEOREM ProcessCountersSettle == Spec => []CountersSettle
<1>1. ASSUME IInv, \A m \in Merges : phase[m] \in {"idle", "gone"}
      PROVE  active = 0 /\ live = 0 /\ depth = 0
  <2>1. \A r \in Runs : Owner[r] \in Merges
    BY MergeProducerAssumption
  <2>2. \A r \in Runs : \/ phase[Owner[r]] = "idle" /\ pc[r] = "unborn"
                        \/ Joined(r) /\ pc[r] \in {"unborn", "dead"}
    BY <1>1, <2>1 DEF IInv, MergeInv, OpenInv, JoinInv, Joined, RunsOf
  <2>3. \A r \in Runs : Joined(r) \/ (sent[r] = 0 /\ received[r] = 0)
    BY <1>1, <2>2 DEF IInv, ProducerInv
  <2>4. Registered = {} /\ Running = {}
    BY <1>1, <2>2 DEF Registered, Running
  <2>5. Tokens(sent) = {} /\ Tokens(received) = {}
    BY <2>3 DEF Tokens
  <2>6. Cardinality({}) = 0
    BY FS_EmptySet
  <2> QED BY <1>1, <2>4, <2>5, <2>6 DEF IInv, CountInv, DepthInv
<1>2. IInv => CountersSettle
  BY <1>1 DEF CountersSettle
<1> QED BY <1>2, Invariant, PTL

(* Only begin_merge takes a merge from idle to open.                        *)
LEMMA OpensByBegin ==
  ASSUME Typed, [Next]_vars, NEW m \in Merges, phase[m] = "idle", phase'[m] = "open"
  PROVE  begin_merge(m)
<1> USE DEF vars, counters, mergeVars, producerVars, adapterVars, readerVars
<1>1. CASE UNCHANGED vars
  BY <1>1
<1>2. ASSUME NEW r \in Runs, Producer(r) \/ ProducerFault(r) PROVE FALSE
  <2>1. phase' = phase
    BY <1>2, ProducerMovesStep DEF ProducerMoves
  <2> QED BY <2>1
<1>3. ASSUME NEW n \in Merges, Caller(n) PROVE begin_merge(m)
  BY <1>3 DEF Typed, Caller, begin_merge, cancel, drop_merger
<1>4. ASSUME NEW n \in Merges, Opening(n) PROVE FALSE
  BY <1>4 DEF Typed, Opening, open, open_spawn_fails
<1>5. ASSUME NEW n \in Merges, Teardown(n) PROVE FALSE
  BY <1>5 DEF Typed, Teardown, drop_egress_slot, drop_receiver, join_producer
<1>6. ASSUME NEW n \in Merges, CallBegins(n) PROVE FALSE
  BY <1>6 DEF CallBegins, initialize_heap, pull_one
<1>7. ASSUME NEW n \in Merges, InCall(n) PROVE FALSE
  <2>1. ASSUME NEW r, NEW h, Refilled(n, r, h)
        PROVE  phase' \in [Merges -> Phases] /\ (phase'[m] = phase[m] \/ phase'[m] = "complete")
    BY <2>1 DEF Typed, Refilled, Phases
  <2>2. ASSUME NEW r, RefillFails(n, r) PROVE phase' = phase
    BY <2>2 DEF RefillFails
  <2>3. \/ phase' = phase
        \/ \E r, h : Refilled(n, r, h)
    <3>1. ASSUME NEW r, EndsRun(n, r) PROVE \E h : Refilled(n, r, h)
      BY <3>1 DEF EndsRun
    <3> QED BY <1>7, <2>2, <3>1 DEF InCall, next, advance_buffered, advance_exhausted,
            next_item, next_done, next_failed, next_disconnected, next_again
  <2> QED BY <2>1, <2>3
<1> QED BY <1>1, <1>2, <1>3, <1>4, <1>5, <1>6, <1>7 DEF Next, AllGone

(* register_with_active: ACTIVE counts the other registered merges exactly, *)
(* so a merge that starts alone divides the budget by one, however the      *)
(* merges before it ended.                                                  *)
THEOREM SoloMergeUnthrottled == Spec => SoloUnthrottled
<1>1. ASSUME IInv, [Next]_vars, NEW m \in Merges, phase[m] = "idle", phase'[m] = "open",
             \A n \in Merges \ {m} : phase[n] \in {"idle", "gone"}
      PROVE  cap'[m] = capacity_from(1)
  <2>1. begin_merge(m)
    BY <1>1, OpensByBegin DEF IInv
  <2>2. \A n \in Merges : phase[n] \in {"idle", "gone"}
    BY <1>1
  <2>3. Registered = {}
    BY <2>2 DEF Registered
  <2>4. active = 0
    BY <1>1, <2>3, FS_EmptySet DEF IInv, CountInv
  <2>5. active' = 1
    BY <2>1, <2>4 DEF begin_merge
  <2> QED BY <1>1, <2>1, <2>5 DEF begin_merge, IInv, Typed
<1>2. IInv /\ [Next]_vars =>
        [\A m \in Merges :
            /\ phase[m] = "idle" /\ phase'[m] = "open"
            /\ \A n \in Merges \ {m} : phase[n] \in {"idle", "gone"}
            => cap'[m] = capacity_from(1)]_vars
  BY <1>1
<1> QED BY <1>2, Invariant, PTL DEF Spec, SoloUnthrottled

=============================================================================
